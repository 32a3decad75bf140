--------------------------- MODULE MCWriteCocoFile ----------------------------
(* Model-checking instances of WrittenFilesRead: sectors of two bytes, granules   *)
(* of two sectors, four granules with the directory in their middle.           *)
EXTENDS WrittenFilesRead

MCDirNames == {"A", "B", "C"}

\* A name longer than eight characters is cut to the one of A.
MCDirNameOf == [n \in {"A", "B", "C", "A's longer name"} |->
                    IF n = "A's longer name" THEN "A" ELSE n]

\* Natives of 0, 3, 4, 5, 9 and 17 bytes: none, a sector and a half, one granule
\* exactly, a granule and one byte, three granules, and more than the disk holds.
Of(n) == [k \in 1..n |-> IF k % 3 = 1 THEN "LF" ELSE IF n > 4 THEN "x" ELSE "y"]

\* A formatted disk, and one with a killed entry, a file whose chain descends, as
\* Disk Basic may leave it, and a granule that holds a boot loader.
Formatted ==
    [fat  |-> [g \in Granules |-> FreeFatEntry],
     dir  |-> [e \in DirEntries |-> Unused(NeverUsed)],
     gran |-> [g \in Granules |-> [b \in 1..BytesPerGranule |-> "y"]]]
ByDiskBasic ==
    [Formatted EXCEPT
        !.fat = [@ EXCEPT ![2] = 1, ![1] = LastMark + 1, ![3] = LastMark + 2],
        !.dir = [@ EXCEPT ![1] = Unused(Killed),
                          ![2] = [name |-> "B", gran |-> 2, lastBytes |-> 1]]]

MCImages == {Formatted, ByDiskBasic}
MCBytes == {"x", "y", "LF", "CR"}

MCRequests ==
    {WriteRequest("A", "binary", Of(3), TRUE),  WriteRequest("A", "ascii", Of(4), TRUE),
     WriteRequest("A", "binary", Of(3), FALSE), WriteRequest("B", "empty", <<>>, FALSE),
     WriteRequest("B", "binary", Of(9), TRUE),  WriteRequest("B", "binary", Of(17), TRUE),
     WriteRequest("C", "newlines", <<"x", "LF", "x", "LF">>, TRUE),
     WriteRequest("C", "newlines", <<"x", "x", "x", "x", "LF">>, TRUE),
     WriteRequest("A's longer name", "binary", Of(3), TRUE),
     KillRequest("A"), KillRequest("B"),
     ReadRequest("A", "file", FALSE, "written"), ReadRequest("A", "file", TRUE, "written"),
     ReadRequest("B", "stdout", FALSE, "written"), ReadRequest("C", "file", FALSE, "cannot write"),
     ListRequest}

ASSUME MCStoreAssumption == TidyImages /\ PlainUse

==============================================================================
