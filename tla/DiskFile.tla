------------------------------ MODULE DiskFile --------------------------------
(* The library src/cmoc/src/stdlib/disk.c, with which a program on the CoCo    *)
(* reads files of Disk Basic: one copy of the allocation table for all files,  *)
(* and a descriptor per file with a sector and a position in it.               *)
EXTENDS DecbImage

CONSTANTS
    Disks,       \* the diskette in each drive
    Fds,         \* the file descriptors of the program
    Sizes,       \* the numbers of bytes that it reads at once
    Positions,   \* the positions that it seeks
    ForgetsFAT,  \* it resets fatUpToDate when it changes the default drive
    SeeksEnds    \* it seeks the end of files of whole sectors

Drives == DOMAIN Disks

AtEnd == 255  \* fd->curGran at the end of the file

FileDesc ==
    [drive     : Drives,
     firstGran : Granules,
     lastBytes : 0..BytesPerSector,       \* numBytesLastSector
     length    : Nat,
     curGran   : Granules \cup {AtEnd},
     curSec    : 1..(SectorsPerGranule + 1),
     offset    : Nat,
     secOffset : 0..BytesPerSector,
     sector    : Seq(Bytes)]              \* the curSectorAvailBytes bytes of curSector[]

\* The last granule of a file has at least one sector, as Disk Basic marks it.
ASSUME DisksAssumption ==
    /\ \A d \in Drives : /\ Disks[d] \in Image /\ Sound(Disks[d].fat, Disks[d].dir)
                         /\ \A g \in Granules : Disks[d].fat[g] # LastMark
    /\ Sizes \subseteq Nat \ {0} /\ Positions \subseteq Nat
    /\ ForgetsFAT \in BOOLEAN /\ SeeksEnds \in BOOLEAN
    /\ None \notin FileDesc
    /\ \A n \in 0..(NumGranules * BytesPerGranule) : None \notin [1..n -> Bytes]

VARIABLES
    curDriveNo,   \* the default drive
    fat,          \* fatBuffer, the table of the drive that was the default one
    fatUpToDate,
    fd,           \* the descriptor of each file, None before it is opened
    call,         \* the read() that goes on, if any
    buf,          \* the bytes that it has delivered
    reply         \* what the last call returned

vars == <<curDriveNo, fat, fatUpToDate, fd, call, buf, reply>>

NoCall  == [op |-> "none"]
Aborted == [op |-> "failed assert"]
Stopped == [op |-> "stopped"]
ReadCall(f, n) == [op |-> "read", f |-> f, left |-> n]
Done(op, ok) == [op |-> op, ok |-> ok]

Idle == call.op = "none"

\* A program goes on with a file while its drive is the default one.
Usable(f) == Idle /\ fd[f] # None /\ fd[f].drive = curDriveNo

-----------------------------------------------------------------------------
(* updateFAT(): the table is read when it is not known to be up to date. *)

TheFAT == IF fatUpToDate THEN fat ELSE Disks[curDriveNo].fat

UpdateFAT == fat' = TheFAT /\ fatUpToDate' = TRUE

TableFails == ~fatUpToDate /\ UNCHANGED <<fat, fatUpToDate>>

\* A mark that ends a chain, as disk.c has it: 0xC0 does not.
IsEnd(g) == g > LastMark

ComputedLength(table, firstGran, lastBytes) ==
    LET s == Chain(table, firstGran)
    IN  (Len(s) - 1) * BytesPerGranule
          + (table[s[Len(s)]] - (LastMark + 1)) * BytesPerSector + lastBytes

-----------------------------------------------------------------------------
Init ==
    /\ curDriveNo \in Drives
    /\ fat = [g \in Granules |-> 0]
    /\ fatUpToDate = FALSE
    /\ fd = [f \in Fds |-> None]
    /\ call = NoCall
    /\ buf = <<>>
    /\ reply = Done("none", TRUE)

SetDefaultDriveNo(d) ==
    /\ Idle
    /\ curDriveNo' = d
    /\ fatUpToDate' = (fatUpToDate /\ ~ForgetsFAT)
    /\ reply' = Done("set drive", TRUE)
    /\ UNCHANGED <<fat, fd, call, buf>>

Rewound(d) ==
    [d EXCEPT !.curGran = d.firstGran, !.curSec = 1, !.offset = 0, !.secOffset = 0, !.sector = <<>>]

OpenFile(f, n) ==
    /\ Idle
    /\ UpdateFAT
    /\ \E e \in Matches(Disks[curDriveNo].dir, n) :
           LET entry == Disks[curDriveNo].dir[e]
           IN  fd' = [fd EXCEPT ![f] =
                         Rewound([drive     |-> curDriveNo,
                                  firstGran |-> entry.gran,
                                  lastBytes |-> entry.lastBytes,
                                  length    |-> ComputedLength(TheFAT, entry.gran, entry.lastBytes),
                                  curGran   |-> AtEnd,
                                  curSec    |-> 1,
                                  offset    |-> 0,
                                  secOffset |-> 0,
                                  sector    |-> <<>>])]
    /\ reply' = Done("open", TRUE)
    /\ UNCHANGED <<curDriveNo, call, buf>>

\* No entry has the name, or a sector of the directory or the table is not read.
OpenFileFails ==
    /\ Idle
    /\ reply' = Done("open", FALSE)
    /\ UNCHANGED <<curDriveNo, fat, fatUpToDate, fd, call, buf>>

Rewind(f) ==
    /\ Usable(f)
    /\ UpdateFAT
    /\ fd' = [fd EXCEPT ![f] = Rewound(@)]
    /\ reply' = Done("rewind", TRUE)
    /\ UNCHANGED <<curDriveNo, call, buf>>

GetFileLength(f) ==
    /\ Usable(f)
    /\ UpdateFAT
    /\ reply' = [op |-> "length",
                 length |-> ComputedLength(TheFAT, fd[f].firstGran, fd[f].lastBytes)]
    /\ UNCHANGED <<curDriveNo, fd, call, buf>>

-----------------------------------------------------------------------------
(* seek() *)

\* A slip: one link too many.
WalkToNext(table, g, k) ==
    LET at[j \in Nat] == IF j = 0 THEN g
                         ELSE IF at[j - 1] \in Granules THEN table[at[j - 1]] ELSE at[j - 1]
    IN  at[k + 1]

\* The granule after k links from g, or where the chain ends before.
Walk(table, g, k) ==
    LET at[j \in Nat] == IF j = 0 THEN g
                         ELSE IF at[j - 1] \in Granules THEN table[at[j - 1]] ELSE at[j - 1]
    IN  at[k]

\* A slip: the sector in memory is taken for that of the new position.
SoughtWithSector(d, gran, p) ==
    [d EXCEPT !.curGran   = gran,
              !.curSec    = (p % BytesPerGranule) \div BytesPerSector + 1,
              !.secOffset = p % BytesPerSector,
              !.offset    = p]

Sought(d, gran, p) ==
    [d EXCEPT !.curGran   = gran,
              !.curSec    = (p % BytesPerGranule) \div BytesPerSector + 1,
              !.secOffset = p % BytesPerSector,
              !.sector    = <<>>,
              !.offset    = p]

EndsWithSector(d) == d.length > 0 /\ d.length % BytesPerSector = 0

Seek(f, p) ==
    /\ Usable(f)
    /\ p < fd[f].length \/ SeeksEnds \/ ~EndsWithSector(fd[f])
    /\ UpdateFAT
    /\ LET newPos == IF p > fd[f].length THEN fd[f].length ELSE p
           gran   == Walk(TheFAT, fd[f].firstGran, newPos \div BytesPerGranule)
       IN  IF gran \in Granules
           THEN /\ fd' = [fd EXCEPT ![f] = Sought(@, gran, newPos)]
                /\ reply' = Done("seek", TRUE)
                /\ UNCHANGED call
           ELSE call' = Aborted /\ UNCHANGED <<fd, reply>>
    /\ UNCHANGED <<curDriveNo, buf>>

\* rewind() and seek() leave the file as it is when the table cannot be read;
\* rewind() does not say so.
TableUnreadable(f) ==
    /\ Usable(f)
    /\ TableFails
    /\ reply' \in {Done("rewind", TRUE), Done("seek", FALSE), Done("length", FALSE)}
    /\ UNCHANGED <<curDriveNo, fd, call, buf>>

-----------------------------------------------------------------------------
(* read(), one iteration of its loop at a time. *)

\* getCurrentlyAvailableBytes()
Available(d) == SubSeq(d.sector, d.secOffset + 1, Len(d.sector))

\* advanceOffset()
Advanced(d, n) ==
    IF d.secOffset + n >= Len(d.sector)
    THEN [d EXCEPT !.offset = @ + n, !.secOffset = 0, !.sector = <<>>]
    ELSE [d EXCEPT !.offset = @ + n, !.secOffset = @ + n]

BeginRead(f, n) ==
    /\ Usable(f)
    /\ call' = ReadCall(f, n)
    /\ UNCHANGED <<curDriveNo, fat, fatUpToDate, fd, buf, reply>>

ReturnRead(bytes, failed) ==
    /\ reply' = [op |-> "read", bytes |-> bytes, failed |-> failed]
    /\ call' = NoCall
    /\ buf' = <<>>

Reading == call.op = "read"
Current == fd[call.f]
Enough  == Len(Available(Current)) >= call.left

\* Enough to finish the request.
FinishRead ==
    /\ Reading /\ Enough
    /\ ReturnRead(buf \o SubSeq(Available(Current), 1, call.left), FALSE)
    /\ fd' = [fd EXCEPT ![call.f] = Advanced(@, call.left)]
    /\ UNCHANGED <<curDriveNo, fat, fatUpToDate>>

\* What is available is delivered before the next sector is read.
Emptied(d) == IF Available(d) = <<>> THEN d ELSE Advanced(d, Len(Available(d)))

ReachEOF ==
    /\ Reading /\ ~Enough
    /\ Current.curGran = AtEnd
    /\ ReturnRead(buf \o Available(Current), FALSE)
    /\ fd' = [fd EXCEPT ![call.f] = Emptied(@)]
    /\ UNCHANGED <<curDriveNo, fat, fatUpToDate>>

SectorUnreadable ==
    /\ Reading /\ ~Enough
    /\ Current.curGran # AtEnd
    /\ ReturnRead(buf \o Available(Current), TRUE)
    /\ fd' = [fd EXCEPT ![call.f] = Emptied(@)]
    /\ UNCHANGED <<curDriveNo, fat, fatUpToDate>>

\* The first n bytes of the sector that the descriptor comes to.
FirstOfSector(d, n) ==
    LET before == (d.curSec - 1) * BytesPerSector
    IN  SubSeq(Disks[d.drive].gran[d.curGran], before + 1, before + n)

SectorsOf(mark) == IF IsEnd(mark) THEN mark - LastMark ELSE SectorsPerGranule

\* A slip: the end of the last granule is not marked.
AfterSectorWithoutEnd(d, mark) ==
    IF d.curSec < SectorsOf(mark) THEN [d EXCEPT !.curSec = @ + 1]
    ELSE IF IsEnd(mark) THEN d
    ELSE [d EXCEPT !.curSec = 1, !.curGran = mark]

AfterSector(d, mark) ==
    IF d.curSec < SectorsOf(mark) THEN [d EXCEPT !.curSec = @ + 1]
    ELSE IF IsEnd(mark) THEN [d EXCEPT !.curSec = @ + 1, !.curGran = AtEnd]
    ELSE [d EXCEPT !.curSec = 1, !.curGran = mark]

\* A slip: the last sector is taken to be full.
LoadedInFull(d, mark) ==
    [AfterSector(d, mark) EXCEPT !.sector = FirstOfSector(d, BytesPerSector)]

\* isLastSectorOfFile() decides how many bytes of the sector are the file's.
Loaded(d, mark) ==
    [AfterSector(d, mark) EXCEPT
        !.sector = FirstOfSector(d, IF IsEnd(mark) /\ d.curSec = mark - LastMark
                                    THEN d.lastBytes ELSE BytesPerSector)]

\* getNextSector()
GetNextSector ==
    /\ Reading /\ ~Enough
    /\ Current.curGran # AtEnd
    /\ UpdateFAT
    /\ LET given == Available(Current)
           d     == Emptied(Current)
       IN  /\ buf' = buf \o given
           /\ call' = [call EXCEPT !.left = @ - Len(given)]
           /\ fd' = [fd EXCEPT ![call.f] = Loaded(d, TheFAT[d.curGran])]
    /\ UNCHANGED <<curDriveNo, reply>>

\* The sector is read but not the table: the code takes the sector for the last one
\* of the file, and hopes "that caller will stop using disk" (disk.c:441).  It does.
TableLost ==
    /\ Reading /\ ~Enough
    /\ Current.curGran # AtEnd
    /\ TableFails
    /\ LET d == Emptied(Current)
       IN  fd' = [fd EXCEPT ![call.f] = [d EXCEPT !.sector = FirstOfSector(d, d.lastBytes)]]
    /\ reply' = [op |-> "read", bytes |-> buf \o Available(Current), failed |-> TRUE]
    /\ call' = Stopped
    /\ buf' = <<>>
    /\ UNCHANGED curDriveNo

-----------------------------------------------------------------------------
\* The steps of read() when the disk works.
ReadStep == FinishRead \/ ReachEOF \/ GetNextSector

Next ==
    \/ \E d \in Drives : SetDefaultDriveNo(d)
    \/ OpenFileFails
    \/ \E f \in Fds :
           \/ \E n \in DirNames : OpenFile(f, n)
           \/ \E n \in Sizes : BeginRead(f, n)
           \/ \E p \in Positions : Seek(f, p)
           \/ Rewind(f)
           \/ GetFileLength(f)
           \/ TableUnreadable(f)
    \/ ReadStep
    \/ SectorUnreadable \/ TableLost

Spec == Init /\ [][Next]_vars /\ WF_vars(ReadStep)

-----------------------------------------------------------------------------
(* Type correctness of the library's state: the granules, sectors and offsets   *)
(* that the comments of struct FileDesc (disk.h:57) allow.                      *)
TypeOK ==
    /\ curDriveNo \in Drives
    /\ fat \in [Granules -> 0..255]
    /\ fatUpToDate \in BOOLEAN
    /\ \A f \in Fds : fd[f] # None =>
           /\ fd[f] \in FileDesc /\ Len(fd[f].sector) <= BytesPerSector
           /\ fd[f].curGran # AtEnd => fd[f].curSec <= SectorsPerGranule
    /\ call.op \in {"none", "read", "failed assert", "stopped"}
    /\ Reading => call.f \in Fds /\ fd[call.f] # None /\ call.left \in Nat \ {0}
    /\ buf \in Seq(Bytes)

Working == call.op \in {"none", "read"}

FileOf(d) == FileFrom(Disks[d.drive], d.firstGran, d.lastBytes)

\* Where in the file the sector starts that is to be read next.
NextSectorAt(d) ==
    LET s == Chain(Disks[d.drive].fat, d.firstGran)
        k == CHOOSE k \in 1..Len(s) : s[k] = d.curGran
    IN  (k - 1) * BytesPerGranule + (d.curSec - 1) * BytesPerSector

(* What a descriptor holds of a sector is what the file has at the position,   *)
(* however reads, seeks and rewinds, and those of other files, come together,  *)
(* and the sector to be read next is the one that follows in the file.         *)
SectorAtPosition ==
    /\ TypeOK
    /\ \A f \in Fds : (Working /\ fd[f] # None) =>
           LET d    == fd[f]
               held == Available(d)
               ends == d.offset + Len(held)
           IN  /\ d.length = Len(FileOf(d))
               /\ ends <= d.length /\ held = SubSeq(FileOf(d), d.offset + 1, ends)
               /\ IF d.curGran = AtEnd THEN ends = d.length
                  ELSE NextSectorAt(d) = d.offset - d.secOffset
                                           + (IF d.sector = <<>> THEN 0 ELSE BytesPerSector)

(* No assert() of the library fails: seek() finds the granule of a position    *)
(* within the file (disk.c:287), and the position in the sector stays within   *)
(* its bytes (disk.c:326).                                                     *)
NoFailedAssert ==
    /\ call.op # "failed assert"
    /\ \A f \in Fds :
           (Working /\ fd[f] # None /\ fd[f].sector # <<>>) =>
               fd[f].secOffset <= Len(fd[f].sector)

(* To the program, the files are those of RandomAccessFiles: each read()       *)
(* returns the bytes from the position on, up to the end of the file, unless   *)
(* the disk refused a sector, and moves the position by as many.               *)
FileOn(d, n) ==
    IF Matches(Disks[d].dir, n) = {} THEN None
    ELSE FileContents(Disks[d], CHOOSE e \in Matches(Disks[d].dir, n) : TRUE)
PosOf(f) ==
    IF fd[f] = None THEN 0
    ELSE fd[f].offset - (IF Reading /\ call.f = f THEN Len(buf) ELSE 0)
Files == INSTANCE RandomAccessFiles WITH
             FileNames <- DirNames,
             drive <- curDriveNo,
             bytes <- [f \in Fds |-> IF fd[f] = None THEN None ELSE FileOf(fd[f])],
             pos <- [f \in Fds |-> PosOf(f)]
IsRandomAccess == [][Files!FileNext]_(Files!fileVars)

(* Each read() returns, also that of an empty file.                            *)
ReadsReturn == Reading ~> ~Reading
==============================================================================
