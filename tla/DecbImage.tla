------------------------------ MODULE DecbImage ------------------------------
(* The image of a diskette of Disk Extended Color Basic: a file allocation     *)
(* table, a directory and granules of bytes.  src/cmoc/src/writecocofile.cpp   *)
(* writes such images; stdlib/disk.c and stdlib/read-disk-file.c read them on  *)
(* the CoCo.                                                                   *)
EXTENDS Integers, Sequences, FiniteSets

CONSTANTS
    BytesPerSector,     \* BYTES_PER_SECTOR, 256
    SectorsPerGranule,  \* SECTORS_PER_GRANULE, 9
    NumGranules,        \* MAX_GRANULES, 68
    NumLowGranules,     \* 34: the granules that precede the directory track
    NumDirEntries,      \* NUM_DIR_LIST_ENTRIES, 128
    BootGranules,       \* 66 and 67, which may hold the loader of a DOS command
    DirNames,           \* names as in an entry: padded, and compared without case
    Bytes,              \* the values of a byte
    None                \* neither a file nor any other value

\* The first byte of an entry that holds no file.
Killed    == "killed"      \* 0x00
NeverUsed == "never used"  \* 0xFF: no entry in use follows

\* Such an entry; its other bytes are not looked at.
Unused(mark) == [name |-> mark, gran |-> 0, lastBytes |-> 0]

FreeFatEntry == 255
LastMark     == 192        \* 0xC0, plus the sectors used in the last granule

ASSUME ImageAssumption ==
    /\ BytesPerSector \in Nat \ {0}
    /\ SectorsPerGranule \in 1..9
    /\ NumGranules \in 1..LastMark
    /\ NumLowGranules \in 0..NumGranules
    /\ NumDirEntries \in Nat \ {0}
    /\ Killed \notin DirNames /\ NeverUsed \notin DirNames

BytesPerGranule == BytesPerSector * SectorsPerGranule
Granules   == 0..(NumGranules - 1)
DirEntries == 1..NumDirEntries

Entry == [name      : DirNames \cup {Killed, NeverUsed},
          gran      : Granules,
          lastBytes : 0..BytesPerSector]

Image == [fat  : [Granules -> 0..255],
          dir  : [DirEntries -> Entry],
          gran : [Granules -> [1..BytesPerGranule -> Bytes]]]

IsLink(f) == f < LastMark
IsLast(f) == f \in LastMark..(LastMark + SectorsPerGranule)
InUse(e)  == e.name \in DirNames

-----------------------------------------------------------------------------
(* Sizes of a file of n bytes. *)

RoundedUp(n, unit) == (n + unit - 1) \div unit

SizeInGranules(n) == IF n = 0 THEN 1 ELSE RoundedUp(n, BytesPerGranule)

BytesInLastSector(n) ==
    IF n > 0 /\ n % BytesPerSector = 0 THEN BytesPerSector ELSE n % BytesPerSector

SectorsInLastGranule(n) ==
    RoundedUp(IF n > 0 /\ n % BytesPerGranule = 0 THEN BytesPerGranule
              ELSE n % BytesPerGranule, BytesPerSector)

-----------------------------------------------------------------------------
(* The directory and the chains of granules. *)

\* The entry that a search of the directory for a name ends at, if any.
Matches(dir, n) ==
    {e \in DirEntries : /\ dir[e].name = n
                        /\ \A f \in 1..(e - 1) : dir[f].name \notin {n, NeverUsed}}

\* The granules from each granule on, of at most n links: a loop of the table is cut.
Chains(fat) ==
    LET from[n \in Nat] ==
            [g \in Granules |->
                <<g>> \o IF n > 0 /\ fat[g] \in Granules THEN from[n - 1][fat[g]] ELSE <<>>]
    IN  from

Chain(fat, head) == Chains(fat)[NumGranules][head]

BytesInLastGranule(mark, lastBytes) ==
    IF mark = LastMark THEN 0 ELSE (mark - LastMark - 1) * BytesPerSector + lastBytes

\* The bytes of the file whose first granule is head, up to where its chain ends or
\* breaks, and those of the file of an entry.
FilesFrom(im, lastBytes) ==
    LET from[n \in Nat] ==
            [g \in Granules |->
                IF IsLast(im.fat[g])
                THEN SubSeq(im.gran[g], 1, BytesInLastGranule(im.fat[g], lastBytes))
                ELSE IF n > 0 /\ im.fat[g] \in Granules
                THEN im.gran[g] \o from[n - 1][im.fat[g]]
                ELSE <<>>]
    IN  from

FileFrom(im, head, lastBytes) == FilesFrom(im, lastBytes)[NumGranules][head]

FileContents(im, e) == FileFrom(im, im.dir[e].gran, im.dir[e].lastBytes)

-----------------------------------------------------------------------------
(* Adding a file to an image: n is its name, s its granules, e its entry. *)

Linked(fat, s, size) ==
    [g \in Granules |->
        IF \E k \in 1..Len(s) : s[k] = g
        THEN LET k == CHOOSE k \in 1..Len(s) : s[k] = g
             IN  IF k = Len(s) THEN LastMark + SectorsInLastGranule(size) ELSE s[k + 1]
        ELSE fat[g]]

\* The granules after the file's bytes are copied: what a granule held before
\* stays behind the end of the file.
Stored(gran, s, bytes) ==
    [g \in Granules |->
        IF \E k \in 1..Len(s) : s[k] = g
        THEN LET k == CHOOSE k \in 1..Len(s) : s[k] = g
             IN  [b \in 1..BytesPerGranule |->
                     LET at == (k - 1) * BytesPerGranule + b
                     IN  IF at <= Len(bytes) THEN bytes[at] ELSE gran[g][b]]
        ELSE gran[g]]

WithFile(im, e, n, s, bytes) ==
    [fat  |-> Linked(im.fat, s, Len(bytes)),
     dir  |-> [im.dir EXCEPT ![e] = [name |-> n, gran |-> s[1],
                                     lastBytes |-> BytesInLastSector(Len(bytes))]],
     gran |-> Stored(im.gran, s, bytes)]

-----------------------------------------------------------------------------
(* A file system without cross-linked, dangling or lost granules. *)

HeadsAllocated(fat, dir) ==
    \A e \in DirEntries : InUse(dir[e]) => fat[dir[e].gran] # FreeFatEntry

LinksAllocated(fat) ==
    \A g \in Granules : IsLink(fat[g]) => fat[g] \in Granules /\ fat[fat[g]] # FreeFatEntry

EndsMarked(fat) ==
    \A g \in Granules : IsLink(fat[g]) \/ IsLast(fat[g]) \/ fat[g] = FreeFatEntry

NoCrossLinks(fat, dir) ==
    /\ \A g, h \in Granules : (IsLink(fat[g]) /\ fat[g] = fat[h]) => g = h
    /\ \A d, e \in DirEntries :
           (InUse(dir[d]) /\ InUse(dir[e]) /\ dir[d].gran = dir[e].gran) => d = e
    /\ \A e \in DirEntries, g \in Granules :
           (InUse(dir[e]) /\ IsLink(fat[g])) => fat[g] # dir[e].gran

NothingLost(fat, dir) ==
    \A g \in Granules \ BootGranules :
        \/ fat[g] = FreeFatEntry
        \/ \E e \in DirEntries : InUse(dir[e]) /\ dir[e].gran = g
        \/ \E h \in Granules : fat[h] = g

DistinctNames(dir) ==
    \A d, e \in DirEntries : (InUse(dir[d]) /\ dir[d].name = dir[e].name) => d = e

\* The readers stop at the first entry that was never used.
NoFileBehindEnd(dir) ==
    \A d, e \in DirEntries : (d < e /\ dir[d].name = NeverUsed) => dir[e].name = NeverUsed

Sound(fat, dir) ==
    /\ HeadsAllocated(fat, dir)
    /\ LinksAllocated(fat)
    /\ EndsMarked(fat)
    /\ NoCrossLinks(fat, dir)
    /\ NothingLost(fat, dir)
    /\ DistinctNames(dir)
    /\ NoFileBehindEnd(dir)
==============================================================================
