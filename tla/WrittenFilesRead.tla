--------------------------- MODULE WrittenFilesRead ----------------------------
(* The two ends of a disk image: writecocofile writes it on the host, and a    *)
(* program on the CoCo that runs without Disk Basic reads a file of it whole,  *)
(* one sector after the other, by _CMOC_readDECBFile2() of                     *)
(* src/cmoc/src/stdlib/read-disk-file.c.                                       *)
EXTENDS WriteCocoFile

CONSTANT EntriesPerSector  \* 8

ASSUME SectorsAssumption == EntriesPerSector \in Nat \ {0}

\* The sectors that are read, any of which may fail.
TableSector == <<"table">>
DirSector(e) == <<"directory", (e - 1) \div EntriesPerSector>>
FileSector(g, s) == <<"file", g, s>>

\* findDirEntry(): the entry at which the search ends, the last one if at none.
Ends(dir, n) == {e \in DirEntries : dir[e].name \in {n, NeverUsed}}
SearchEnd(dir, n) ==
    IF Ends(dir, n) = {} THEN NumDirEntries
    ELSE CHOOSE e \in Ends(dir, n) : \A f \in Ends(dir, n) : e <= f

\* The granule of no sector: the end of the file is reached.
AtEOF == 255

\* openDECBFile(): no sector is read of a file that Disk Basic has marked empty.
FirstGranule(im, e) ==
    IF im.fat[im.dir[e].gran] = LastMark + 1 /\ im.dir[e].lastBytes = 0
    THEN AtEOF ELSE im.dir[e].gran

\* A slip: the mark of one sector is not taken for the end of the file.
EndsHereFromTwo(mark) == mark > LastMark + 1

\* The mark of a granule that is the last one: 0xC1 and above.
EndsHere(mark) == mark > LastMark

\* getNextDECBSector(): the granule and the sector that follow.
NextSector(fat, at) ==
    LET mark == fat[at.gran]
        last == IF EndsHere(mark) THEN mark - LastMark ELSE SectorsPerGranule
    IN  IF at.sec < last THEN [at EXCEPT !.sec = @ + 1]
        ELSE IF EndsHere(mark) THEN [at EXCEPT !.gran = AtEOF]
        ELSE [gran |-> mark, sec |-> 1]

SectorBytes(im, at) ==
    SubSeq(im.gran[at.gran], (at.sec - 1) * BytesPerSector + 1, at.sec * BytesPerSector)

\* The sectors of the file from one on, and the error that ends them: 4 where one
\* cannot be read, as no sector can of a granule that the disk has not.  A loop of
\* the table is cut after as many sectors as the disk has.  (A mark above 0xC9 would
\* lead behind the last sector of a granule: no chain of a sound table meets one.)
Sectors == [gran : 0..255, sec : 1..(255 - LastMark)]
CanRead(fails, at) ==
    at.gran \in Granules /\ at.sec <= SectorsPerGranule /\ FileSector(at.gran, at.sec) \notin fails
SectorsFrom(im, fails) ==
    LET from[n \in Nat] ==
            [at \in Sectors |->
                IF at.gran = AtEOF THEN [err |-> 0, bytes |-> <<>>]
                ELSE IF n = 0 \/ ~CanRead(fails, at) THEN [err |-> 4, bytes |-> <<>>]
                ELSE LET rest == from[n - 1][NextSector(im.fat, at)]
                     IN  [err |-> rest.err, bytes |-> SectorBytes(im, at) \o rest.bytes]]
    IN  from

\* The bytes of all sectors but what the last one has behind the file.
Trimmed(bytes, lastBytes) ==
    IF bytes = <<>> THEN bytes ELSE SubSeq(bytes, 1, Len(bytes) - BytesPerSector + lastBytes)

\* The error and the bytes for the file of a name, where some sectors fail.
ReadDECBFile(im, fails, n) ==
    LET e == SearchEnd(im.dir, n)
        r == SectorsFrom(im, fails)[NumGranules * SectorsPerGranule][
                 [gran |-> FirstGranule(im, e), sec |-> 1]]
    IN  IF \E f \in 1..e : DirSector(f) \in fails THEN [err |-> 1, bytes |-> <<>>]
        ELSE IF im.dir[e].name # n THEN [err |-> 2, bytes |-> <<>>]
        ELSE IF TableSector \in fails THEN [err |-> 3, bytes |-> <<>>]
        ELSE IF r.err # 0 THEN [err |-> r.err, bytes |-> <<>>]
        ELSE [err |-> 0, bytes |-> Trimmed(r.bytes, im.dir[e].lastBytes)]

-----------------------------------------------------------------------------
AllSectors ==
    {TableSector} \cup {DirSector(e) : e \in DirEntries}
    \cup {FileSector(g, s) : g \in Granules, s \in 1..SectorsPerGranule}

Reads(fails, n) == ReadDECBFile(disk, fails, n)

(* A file that has any bytes is read back as it was written, through whatever   *)
(* commands it came to its granules; one that is not there is not found; and    *)
(* where a sector fails, the reader says so or has not needed it.               *)
FilesReadBack ==
    pc = "idle" =>
        \A n \in DirNames :
            LET file == FilesOf(disk)[n] IN
            IF file = None THEN Reads({}, n).err = 2
            ELSE file # <<>> =>
                /\ Reads({}, n) = [err |-> 0, bytes |-> file]
                /\ \A s \in AllSectors :
                       Reads({s}, n).err = 0 => Reads({s}, n).bytes = file

(* "Check for empty file, to avoid reading a data sector for nothing."          *)
(* (read-disk-file.c:80): an empty file is read as one.                         *)
EmptyFilesRead ==
    pc = "idle" =>
        \A n \in DirNames : FilesOf(disk)[n] = <<>> => Reads({}, n).err = 0
================================================================================
