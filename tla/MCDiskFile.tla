------------------------------ MODULE MCDiskFile ------------------------------
(* Model-checking instances of DiskFile: two drives with sectors of two bytes,  *)
(* granules of two sectors, four granules and two files each.                   *)
EXTENDS DiskFile

MCDirNames == {"A", "B"}
MCBytes == 0..31
MCSizes == {1, 6}
MCPositions == {0, 3, 4, 9}

\* Each granule has bytes of its own.
Filled(first) ==
    [g \in Granules |-> [b \in 1..BytesPerGranule |-> first + g * BytesPerGranule + b - 1]]
File(n, gran, lastBytes) == [name |-> n, gran |-> gran, lastBytes |-> lastBytes]

\* A of five bytes, on granules that descend; B is empty, as Disk Basic marks it.
MCDisk0 ==
    [fat  |-> [g \in Granules |-> CASE g = 2 -> 1
                                    [] g = 1 -> LastMark + 1
                                    [] g = 3 -> LastMark + 1
                                    [] OTHER -> FreeFatEntry],
     dir  |-> [e \in DirEntries |-> IF e = 1 THEN File("A", 2, 1) ELSE File("B", 3, 0)],
     gran |-> Filled(0)]

\* B of three bytes, and A of two granules.
MCDisk1 ==
    [fat  |-> [g \in Granules |-> CASE g = 0 -> 3
                                    [] g = 3 -> LastMark + 2
                                    [] g = 2 -> LastMark + 2
                                    [] OTHER -> FreeFatEntry],
     dir  |-> [e \in DirEntries |-> IF e = 1 THEN File("B", 2, 1) ELSE File("A", 0, 2)],
     gran |-> Filled(16)]

MCDisks == [d \in 0..1 |-> IF d = 0 THEN MCDisk0 ELSE MCDisk1]
==============================================================================
