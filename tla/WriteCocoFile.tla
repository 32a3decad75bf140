---------------------------- MODULE WriteCocoFile ----------------------------
(* The program src/cmoc/src/writecocofile.cpp: one command after the other     *)
(* reads the disk image into memory, frees and allocates granules there one by *)
(* one, and writes the whole image back, or fails before it does.              *)
EXTENDS CocoCommands

CONSTANT Images  \* the image files before the first command

VARIABLES
    disk,          \* the image file
    contents,      \* CoCoDisk::contents, the image in memory
    request,       \* the command line
    pc,            \* the step of the command
    granuleNo,     \* the loop variable of killFile(), allocateGranules(), extractFile()
    entry,         \* the directory entry found by name
    fileGranules,  \* the granules allocated so far
    fileContents,  \* the bytes extracted so far
    reply          \* None while the command runs, then its exit status and output

vars == <<disk, contents, request, pc, granuleNo, entry, fileGranules, fileContents,
          reply>>

NoRequest == [op |-> "none"]
NotRun    == [exit |-> "none", output |-> None]

\* The files of an image by name, and the number of its free granules.
FilesOf(im) ==
    [n \in DirNames |-> IF Matches(im.dir, n) = {} THEN None
                        ELSE FileContents(im, CHOOSE e \in Matches(im.dir, n) : TRUE)]

FreeGranules(fat) == {g \in Granules : fat[g] = FreeFatEntry}

Store == INSTANCE CocoFileStore
             WITH files <- FilesOf(disk), free <- Cardinality(FreeGranules(disk.fat))

ASSUME ImagesAssumption == \A im \in Images : im \in Image /\ Sound(im.fat, im.dir)

-----------------------------------------------------------------------------
\* The bytes of a complete line: a newline follows, or they are one.
InCompleteLines(bytes) == {k \in 1..Len(bytes) : \E l \in k..Len(bytes) : bytes[l] = LF}

\* The loop of getline() drops what follows the last newline.
CompleteLinesWithCR(bytes) ==
    <<CR>> \o Converted(SubSeq(bytes, 1, Cardinality(InCompleteLines(bytes))))

\* The bytes that addFile() copies to granules.
BytesToAdd(r) ==
    IF r.mode = "empty" THEN <<>>
    ELSE IF r.mode = "binary" THEN r.native
    ELSE IF r.mode = "ascii" THEN Converted(r.native)
    ELSE CompleteLinesWithCR(r.native)

SizeToAdd == SizeInGranules(Len(BytesToAdd(request)))

\* The process exits, and its memory with it.
Exit(exit, output) ==
    /\ reply' = [exit |-> exit, output |-> output]
    /\ pc' = "idle"
    /\ UNCHANGED request
    /\ contents' = disk'
    /\ granuleNo' = 0
    /\ entry' = 1
    /\ fileGranules' = <<>>
    /\ fileContents' = <<>>

Fail == UNCHANGED disk /\ Exit("failure", None)

Init ==
    /\ disk \in Images
    /\ contents = disk
    /\ request = NoRequest
    /\ pc = "idle"
    /\ granuleNo = 0
    /\ entry = 1
    /\ fileGranules = <<>>
    /\ fileContents = <<>>
    /\ reply = NotRun

Start ==
    /\ pc = "idle"
    /\ request' \in Requests
    /\ reply' = None
    /\ pc' = "open"
    /\ UNCHANGED <<disk, contents, granuleNo, entry, fileGranules, fileContents>>

\* killAndWriteFile(), readFile() and listDirectory() open the files they need.
Openable(r) ==
    CASE r.op = "write" -> Readable(r)
      [] r.op = "read"  -> ~(r.mode = "file" /\ r.exists)
      [] OTHER          -> TRUE

Open ==
    /\ pc = "open"
    /\ IF Openable(request)
       THEN /\ contents' = disk
            /\ pc' = IF request.op = "list" THEN "list" ELSE "find"
            /\ UNCHANGED <<disk, request, granuleNo, entry, fileGranules, fileContents, reply>>
       ELSE Fail

-----------------------------------------------------------------------------
(* killFile(), for the commands write and kill. *)

AfterKill == IF request.op = "write" THEN "add" ELSE "commit"

FindToKill ==
    /\ pc = "find"
    /\ request.op \in {"write", "kill"}
    /\ IF Matches(contents.dir, DirNameOf[request.name]) = {}
       THEN pc' = AfterKill /\ UNCHANGED <<entry, granuleNo>>
       ELSE /\ pc' = "kill"
            /\ entry' \in Matches(contents.dir, DirNameOf[request.name])
            /\ granuleNo' = contents.dir[entry'].gran
    /\ UNCHANGED <<disk, contents, request, fileGranules, fileContents, reply>>

\* Slips: the mark of an empty file is not taken for the end of its chain; the
\* loop does not move to the next granule.
FreeGranuleMissesEmpty ==
    /\ pc = "kill"
    /\ LET next == contents.fat[granuleNo]
       IN  IF IsLast(next) /\ next > LastMark
           THEN /\ contents' = [contents EXCEPT !.fat[granuleNo] = FreeFatEntry,
                                                !.dir[entry] = Unused(Killed)]
                /\ pc' = AfterKill
                /\ UNCHANGED granuleNo
           ELSE /\ contents' = [contents EXCEPT !.fat[granuleNo] = FreeFatEntry]
                /\ granuleNo' = next
                /\ UNCHANGED pc
    /\ UNCHANGED <<disk, request, entry, fileGranules, fileContents, reply>>

FreeGranuleStays ==
    /\ pc = "kill"
    /\ IF IsLast(contents.fat[granuleNo])
       THEN /\ contents' = [contents EXCEPT !.fat[granuleNo] = FreeFatEntry,
                                            !.dir[entry] = Unused(Killed)]
            /\ pc' = AfterKill
       ELSE /\ contents' = [contents EXCEPT !.fat[granuleNo] = FreeFatEntry]
            /\ UNCHANGED pc
    /\ UNCHANGED <<disk, request, granuleNo, entry, fileGranules, fileContents, reply>>

FreeGranule ==
    /\ pc = "kill"
    /\ LET next == contents.fat[granuleNo]
       IN  IF IsLast(next)
           THEN /\ contents' = [contents EXCEPT !.fat[granuleNo] = FreeFatEntry,
                                                !.dir[entry] = Unused(Killed)]
                /\ pc' = AfterKill
                /\ UNCHANGED granuleNo
           ELSE /\ contents' = [contents EXCEPT !.fat[granuleNo] = FreeFatEntry]
                /\ granuleNo' = next
                /\ UNCHANGED pc
    /\ UNCHANGED <<disk, request, entry, fileGranules, fileContents, reply>>

-----------------------------------------------------------------------------
(* addFile() *)

BeginAdd ==
    /\ pc = "add"
    /\ IF request.name \in LegalNames
       THEN /\ pc' = "allocate"
            /\ granuleNo' = 0
            /\ UNCHANGED <<disk, contents, request, entry, fileGranules, fileContents, reply>>
       ELSE Fail

IsNextFree(g) ==
    /\ g \in granuleNo..(NumGranules - 1)
    /\ contents.fat[g] = FreeFatEntry
    /\ \A h \in granuleNo..(g - 1) : contents.fat[h] # FreeFatEntry

\* A slip: the search for the next granule does not move past the one just found.
AllocateGranuleTwice ==
    /\ pc = "allocate"
    /\ Len(fileGranules) < SizeToAdd
    /\ \E g \in Granules :
           /\ IsNextFree(g)
           /\ fileGranules' = Append(fileGranules, g)
           /\ granuleNo' = g
    /\ UNCHANGED <<disk, contents, request, pc, entry, fileContents, reply>>

AllocateGranule ==
    /\ pc = "allocate"
    /\ Len(fileGranules) < SizeToAdd
    /\ \E g \in Granules :
           /\ IsNextFree(g)
           /\ fileGranules' = Append(fileGranules, g)
           /\ granuleNo' = g + 1
    /\ UNCHANGED <<disk, contents, request, pc, entry, fileContents, reply>>

\* A slip: the image, with the old file killed, is saved all the same.
OutOfSpaceSavesKilled ==
    /\ pc = "allocate"
    /\ Len(fileGranules) < SizeToAdd
    /\ \A g \in Granules : ~IsNextFree(g)
    /\ disk' = contents
    /\ Exit("failure", None)

OutOfSpace ==
    /\ pc = "allocate"
    /\ Len(fileGranules) < SizeToAdd
    /\ \A g \in Granules : ~IsNextFree(g)
    /\ Fail

IsFirstUnused(e) ==
    /\ ~InUse(contents.dir[e])
    /\ \A f \in 1..(e - 1) : InUse(contents.dir[f])

AddFile ==
    /\ pc = "allocate"
    /\ Len(fileGranules) = SizeToAdd
    /\ \E e \in DirEntries :
           /\ IsFirstUnused(e)
           /\ contents' = WithFile(contents, e, DirNameOf[request.name], fileGranules,
                                   BytesToAdd(request))
    /\ pc' = "commit"
    /\ UNCHANGED <<disk, request, granuleNo, entry, fileGranules, fileContents, reply>>

OutOfEntries ==
    /\ pc = "allocate"
    /\ Len(fileGranules) = SizeToAdd
    /\ \A e \in DirEntries : InUse(contents.dir[e])
    /\ Fail

-----------------------------------------------------------------------------
(* commit() *)

Commit ==
    /\ pc = "commit"
    /\ disk' = contents
    /\ Exit("success", None)

\* The image after a write that stopped behind its first n blocks.  The blocks of
\* the file are: the low granules, the table, the directory, the high granules.
Torn(n) ==
    [fat  |-> IF NumLowGranules < n THEN contents.fat ELSE disk.fat,
     dir  |-> IF NumLowGranules + 1 < n THEN contents.dir ELSE disk.dir,
     gran |-> [g \in Granules |-> IF (IF g < NumLowGranules THEN g ELSE g + 2) < n
                                  THEN contents.gran[g] ELSE disk.gran[g]]]

CommitFails ==
    /\ pc = "commit"
    /\ \E n \in 0..(NumGranules + 1) : disk' = Torn(n)
    /\ reply' = [exit |-> "failure", output |-> None]
    /\ pc' = "torn"
    /\ UNCHANGED <<contents, request, granuleNo, entry, fileGranules, fileContents>>
-----------------------------------------------------------------------------
(* extractFile() *)

FindToExtract ==
    /\ pc = "find"
    /\ request.op = "read"
    /\ IF Matches(contents.dir, DirNameOf[request.name]) = {}
       THEN Fail
       ELSE /\ pc' = "extract"
            /\ entry' \in Matches(contents.dir, DirNameOf[request.name])
            /\ granuleNo' = contents.dir[entry'].gran
            /\ UNCHANGED <<disk, contents, request, fileGranules, fileContents, reply>>

ExtractGranule ==
    /\ pc = "extract"
    /\ ~IsLast(contents.fat[granuleNo])
    /\ fileContents' = fileContents \o contents.gran[granuleNo]
    /\ granuleNo' = contents.fat[granuleNo]
    /\ UNCHANGED <<disk, contents, request, pc, entry, fileGranules, reply>>

BytesOfLastGranule ==
    fileContents \o SubSeq(contents.gran[granuleNo], 1,
                           BytesInLastGranule(contents.fat[granuleNo], contents.dir[entry].lastBytes))

\* readFile() takes the failure to create the native file, which extractFile()
\* reports as 1 and not as -1 or -2, for a success.
ExtractLastGranule ==
    /\ pc = "extract"
    /\ IsLast(contents.fat[granuleNo])
    /\ UNCHANGED disk
    /\ \/ request.outcome = "written"       /\ Exit("success", BytesOfLastGranule)
       \/ request.outcome = "cannot create" /\ Exit("success", None)
       \/ request.outcome = "cannot write"  /\ Exit("failure", None)

-----------------------------------------------------------------------------
(* listDirectory() *)

Listed(dir) ==
    {e \in DirEntries : InUse(dir[e]) /\ \A f \in 1..(e - 1) : dir[f].name # NeverUsed}

ListedGranules(e) == LET s == Chain(contents.fat, contents.dir[e].gran) IN {s[k] : k \in 1..Len(s)}

ListedLength(e) ==
    LET s    == Chain(contents.fat, contents.dir[e].gran)
        end  == contents.fat[s[Len(s)]]
    IN  (Len(s) - 1) * BytesPerGranule + contents.dir[e].lastBytes
          + IF end > LastMark THEN (end - LastMark - 1) * BytesPerSector ELSE 0

ListDirectory ==
    /\ pc = "list"
    /\ UNCHANGED disk
    /\ LET listed    == Listed(contents.dir)
           allocated == UNION {ListedGranules(e) : e \in listed}
           corrupt   == \E e \in listed : \E g \in ListedGranules(e) : contents.fat[g] > 201
       IN  Exit(IF corrupt THEN "failure" ELSE "success",
                [lengths |-> {<<contents.dir[e].name, ListedLength(e)>> : e \in listed},
                 free    |-> Cardinality(FreeGranules(contents.fat) \ allocated),
                 lost    |-> Granules \ (FreeGranules(contents.fat) \cup allocated \cup BootGranules)])

-----------------------------------------------------------------------------
Step ==
    \/ Open
    \/ FindToKill \/ FreeGranule
    \/ BeginAdd \/ AllocateGranule \/ OutOfSpace \/ AddFile \/ OutOfEntries
    \/ Commit \/ CommitFails
    \/ FindToExtract \/ ExtractGranule \/ ExtractLastGranule
    \/ ListDirectory

Next == Start \/ Step

Spec == Init /\ [][Next]_vars /\ WF_vars(Step)

-----------------------------------------------------------------------------
(* What is asked of images and commands for the program to be the store that its *)
(* help page describes.                                                        *)

ChainAt(im, e) == Chain(im.fat, im.dir[e].gran)

GranulesOf(s) == {s[k] : k \in 1..Len(s)}

\* A file takes the granules that its bytes need, and the mark of an empty last
\* granule comes with no bytes.
TidyFile(im, e) ==
    LET s == ChainAt(im, e)
    IN  /\ Len(s) = SizeInGranules(Len(FileContents(im, e)))
        /\ im.fat[s[Len(s)]] = LastMark => im.dir[e].lastBytes = 0

InAFile(im, g) == \E e \in DirEntries : InUse(im.dir[e]) /\ g \in GranulesOf(ChainAt(im, e))

\* What is neither free nor part of a file is a boot granule.
Tidy(im) ==
    /\ \A e \in DirEntries : InUse(im.dir[e]) => TidyFile(im, e)
    /\ \A g \in Granules \ BootGranules : im.fat[g] # FreeFatEntry => InAFile(im, g)

EndsInNewline(bytes) == bytes = <<>> \/ bytes[Len(bytes)] = LF

\* The two ways in which the program departs from its help page: it drops an
\* incomplete last line, and says that it wrote a native file that it could not create.
InPlainUse(r) ==
    /\ r.op = "write" => r.mode \in {"empty", "binary", "ascii"} \/ EndsInNewline(r.native)
    /\ r.op = "read" => r.outcome # "cannot create"

TidyImages == None \notin Seq(Bytes) /\ \A im \in Images : Tidy(im)
PlainUse   == \A r \in Requests : InPlainUse(r)

-----------------------------------------------------------------------------
(* Type correctness of the program's state.                                    *)
TypeOK ==
    /\ disk \in Image
    /\ contents \in Image
    /\ request \in Requests \cup {NoRequest}
    /\ pc \in {"idle", "open", "find", "kill", "add", "allocate", "commit", "torn",
               "extract", "list"}
    /\ granuleNo \in 0..NumGranules
    /\ entry \in DirEntries
    /\ fileGranules \in Seq(Granules)
    /\ fileContents \in Seq(Bytes)

(* Between commands the disk holds a file system: no granule belongs to two    *)
(* files or to none, no chain runs into a free granule, no two files have one  *)
(* name, no file is hidden behind the end of the directory.  It takes the      *)
(* freeing, the allocation and the entry to agree, over many commands.         *)
DiskSound == pc # "torn" => Sound(disk.fat, disk.dir)

(* Every command does to the files, by name, what CocoFileStore says, in one   *)
(* step: a file that does not fit leaves the old one of its name in place, a   *)
(* file read back is the one written although granules keep stale bytes, and   *)
(* only where the image file cannot be written back whole may the file named   *)
(* be lost, and no other.                                                      *)
(* (A step that leaves disk, request and reply alone is a stuttering step.)    *)
IsFileStore ==
    [][UNCHANGED <<disk, request, reply>> \/ Store!StoreNext]_(Store!storeVars)

(* Every command ends: the loops over a chain of granules meet its end.        *)
CommandsEnd == (pc = "open") ~> (pc \in {"idle", "torn"})

==============================================================================
