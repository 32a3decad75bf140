-------------------------- MODULE RandomAccessFiles ---------------------------
(* What src/cmoc/src/stdlib/disk.h promises to a program: open files, each     *)
(* with its bytes and a position, that are read from there on.                 *)
EXTENDS Integers, Sequences

CONSTANTS
    Fds,        \* the file descriptors of the program
    Drives,
    FileNames,
    Sizes,      \* the numbers of bytes that the program reads at once
    Positions,  \* the positions that it seeks
    FileOn(_, _),  \* the bytes of the file of a name on a drive, or None
    None

VARIABLES
    drive,   \* the default drive
    bytes,   \* the bytes of each open file, None for a closed one
    pos,     \* the position in each open file
    reply    \* what the last call returned

fileVars == <<drive, bytes, pos, reply>>

SetDrive(d) ==
    /\ drive' = d
    /\ reply' = [op |-> "set drive", ok |-> TRUE]
    /\ UNCHANGED <<bytes, pos>>

Open(f, n) ==
    /\ FileOn(drive, n) # None
    /\ bytes' = [bytes EXCEPT ![f] = FileOn(drive, n)]
    /\ pos' = [pos EXCEPT ![f] = 0]
    /\ reply' = [op |-> "open", ok |-> TRUE]
    /\ UNCHANGED drive

\* The file is not found or the disk cannot be read.
OpenFails ==
    /\ reply' = [op |-> "open", ok |-> FALSE]
    /\ UNCHANGED <<drive, bytes, pos>>

Rest(f) == SubSeq(bytes[f], pos[f] + 1, Len(bytes[f]))

\* A call that asks for n bytes returns n, or all that there are; where the disk
\* refuses a sector, fewer.
Read(f, n) ==
    /\ bytes[f] # None
    /\ \E failed \in BOOLEAN, k \in 0..Len(Rest(f)) :
           /\ k <= n
           /\ failed \/ k = n \/ k = Len(Rest(f))
           /\ reply' = [op |-> "read", bytes |-> SubSeq(Rest(f), 1, k), failed |-> failed]
           /\ pos' = [pos EXCEPT ![f] = @ + k]
    /\ UNCHANGED <<drive, bytes>>

\* A position behind the end of the file is cut to the end.
Seek(f, p) ==
    /\ bytes[f] # None
    /\ pos' = [pos EXCEPT ![f] = IF p > Len(bytes[f]) THEN Len(bytes[f]) ELSE p]
    /\ reply' = [op |-> "seek", ok |-> TRUE]
    /\ UNCHANGED <<drive, bytes>>

Rewind(f) ==
    /\ bytes[f] # None
    /\ pos' = [pos EXCEPT ![f] = 0]
    /\ reply' = [op |-> "rewind", ok |-> TRUE]
    /\ UNCHANGED <<drive, bytes>>

Length(f) ==
    /\ bytes[f] # None
    /\ reply' = [op |-> "length", length |-> Len(bytes[f])]
    /\ UNCHANGED <<drive, bytes, pos>>

\* Where the disk cannot be read, seek() and getFileLength() fail; rewind() has no
\* way to say that it did.
NothingDone(f) ==
    /\ bytes[f] # None
    /\ reply' \in {[op |-> "rewind", ok |-> TRUE], [op |-> "seek", ok |-> FALSE],
                   [op |-> "length", ok |-> FALSE]}
    /\ UNCHANGED <<drive, bytes, pos>>

FileNext ==
    \/ \E d \in Drives : SetDrive(d)
    \/ OpenFails
    \/ \E f \in Fds :
           \/ \E n \in FileNames : Open(f, n)
           \/ \E n \in Sizes : Read(f, n)
           \/ \E p \in Positions : Seek(f, p)
           \/ Rewind(f)
           \/ Length(f)
           \/ NothingDone(f)
==============================================================================
