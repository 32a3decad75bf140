----------------------------- MODULE SectorStore ------------------------------
(* What dskcon_processSector() promises to its caller                          *)
(* (src/cmoc/src/stdlib/dskcon-standalone.h): a sector that is said to be read *)
(* is in the buffer, a buffer that is said to be written is on the disk, and   *)
(* no other sector is touched, whatever happens on the way.                    *)
EXTENDS Integers

CONSTANTS
    Requests,   \* what a caller asks for: records with op, drive, track, sector
    Read,       \* the operation codes of a read and of a write
    Write,
    NoRequest,  \* the request that the initialisation leaves
    WriteData,  \* what a caller writes
    Values,     \* what a buffer or a sector may hold
    Blank       \* what a caller's buffer holds before a read

VARIABLES
    disk,     \* the value of each sector, by drive, track and number
    buffer,   \* the caller's buffer
    request,  \* the last request
    pending,  \* it is not answered yet
    ok        \* it was answered, with success

storeVars == <<disk, buffer, request, pending, ok>>

Address(r) == <<r.drive, r.track, r.sector>>

Start(r) ==
    /\ ~pending
    /\ request' = r
    /\ buffer' \in IF r.op = Write THEN WriteData ELSE {Blank}
    /\ pending' = TRUE
    /\ ok' = FALSE
    /\ UNCHANGED disk

\* An attempt leaves anything in the sector that is written, or in the buffer
\* that is read into.
Attempt ==
    /\ pending
    /\ \/ /\ request.op = Read
          /\ buffer' \in Values
          /\ UNCHANGED disk
       \/ /\ request.op = Write
          /\ \E v \in Values : disk' = [disk EXCEPT ![Address(request)] = v]
          /\ UNCHANGED buffer
    /\ UNCHANGED <<request, pending, ok>>

Transferred ==
    request.op \in {Read, Write} => buffer = disk[Address(request)]

Answer(success) ==
    /\ pending
    /\ success => Transferred
    /\ pending' = FALSE
    /\ ok' = success
    /\ UNCHANGED <<disk, buffer, request>>

Reset ==
    /\ ~pending
    /\ request' = NoRequest
    /\ ok' = TRUE
    /\ UNCHANGED <<disk, buffer, pending>>

StoreInit == request = NoRequest /\ pending = FALSE /\ ok = TRUE

StoreNext ==
    \/ \E r \in Requests : Start(r)
    \/ Attempt
    \/ \E success \in BOOLEAN : Answer(success)
    \/ Reset

StoreSpec == StoreInit /\ [][StoreNext]_storeVars
===============================================================================
