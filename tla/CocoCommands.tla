---------------------------- MODULE CocoCommands -----------------------------
(* The command lines of src/cmoc/src/writecocofile.cpp, and what they say of   *)
(* the native file.                                                            *)
EXTENDS DecbImage

CONSTANTS
    Requests,    \* the command lines
    DirNameOf,   \* the name of a directory entry for a name of a command line
    LegalNames,  \* one to eight characters, a dot, one to three
    LineBuffer,  \* 512: a line with --newlines is shorter
    LF, CR

\* A command: what is written is nativeFile, which is there or not; what is read
\* goes to a native file, which is there or not, or to the standard output, and
\* that ends as outcome says.
WriteRequest(n, mode, nativeFile, exists) ==
    [op |-> "write", name |-> n, mode |-> mode, native |-> nativeFile, exists |-> exists]
KillRequest(n) == [op |-> "kill", name |-> n]
ReadRequest(n, mode, exists, outcome) ==
    [op |-> "read", name |-> n, mode |-> mode, exists |-> exists, outcome |-> outcome]
ListRequest == [op |-> "list"]

Converted(bytes) == [k \in DOMAIN bytes |-> IF bytes[k] = LF THEN CR ELSE bytes[k]]

\* Each line that is not too long, the last one included.
LinesFit(bytes) ==
    \A j, k \in 0..Len(bytes) :
        (j <= k /\ \A l \in (j + 1)..k : bytes[l] # LF) => k - j < LineBuffer

Readable(r) ==
    \/ r.mode = "empty"
    \/ r.exists /\ (r.mode = "newlines" => LinesFit(r.native))

ASSUME RequestsAssumption ==
    /\ CR \in Bytes
    /\ \A r \in Requests :
           /\ r.op \in {"write", "kill", "read", "list"}
           /\ r.op # "list" => DirNameOf[r.name] \in DirNames
           /\ r.op = "write" => r.native \in Seq(Bytes)
==============================================================================
