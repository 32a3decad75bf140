---------------------------- MODULE CocoFileStore ----------------------------
(* What writecocofile promises of a disk image, as its help page has it: files *)
(* by name, a number of free granules, and commands each of which is one step. *)
EXTENDS CocoCommands

\* The file on the image, in each of the modes of --binary, --ascii, --newlines, --empty.
Contents(r) ==
    IF r.mode = "empty" THEN <<>>
    ELSE IF r.mode = "binary" THEN r.native
    ELSE IF r.mode = "ascii" THEN Converted(r.native)
    ELSE <<CR>> \o Converted(r.native)

-----------------------------------------------------------------------------
VARIABLES
    files,    \* the contents of each file, or None
    free,     \* free granules
    request,  \* the command line
    reply     \* None while the command runs, then its exit status and output

storeVars == <<files, free, request, reply>>

Enter ==
    /\ request' \in Requests
    /\ reply' = None
    /\ UNCHANGED <<files, free>>

Reply(exit, output) == reply' = [exit |-> exit, output |-> output]

Named == DirNameOf[request.name]

Held(n) == IF files[n] = None THEN 0 ELSE SizeInGranules(Len(files[n]))

Fits ==
    /\ request.name \in LegalNames
    /\ SizeInGranules(Len(Contents(request))) <= free + Held(Named)
    /\ Cardinality({n \in DirNames \ {Named} : files[n] # None}) < NumDirEntries

\* A file replaces the one of its name; where it does not fit, that one stays.
Write ==
    /\ request.op = "write"
    /\ IF Readable(request) /\ Fits
       THEN /\ files' = [files EXCEPT ![Named] = Contents(request)]
            /\ free' = free + Held(Named) - SizeInGranules(Len(Contents(request)))
            /\ Reply("success", None)
       ELSE Reply("failure", None) /\ UNCHANGED <<files, free>>

Kill ==
    /\ request.op = "kill"
    /\ files' = [files EXCEPT ![Named] = None]
    /\ free' = free + Held(Named)
    /\ Reply("success", None)

\* Only where the image file is to be written can that fail: for a kill, and for a
\* file that fits.  The fate of the file named is open, with the granules that it
\* takes; the other files are those that were there.
WriteFails ==
    /\ request.op = "kill" \/ (request.op = "write" /\ Readable(request) /\ Fits)
    /\ files' = [files EXCEPT ![Named] = files'[Named]]
    /\ Reply("failure", None)

Read ==
    /\ request.op = "read"
    /\ IF files[Named] # None /\ request.outcome = "written" /\ ~(request.mode = "file" /\ request.exists)
       THEN Reply("success", files[Named])
       ELSE Reply("failure", None)
    /\ UNCHANGED <<files, free>>

\* The directory gives the length of each file and the number of free granules;
\* it warns of no lost granule.
List ==
    /\ request.op = "list"
    /\ Reply("success", [lengths |-> {<<n, Len(files[n])>> :
                                         n \in {m \in DirNames : files[m] # None}},
                         free    |-> free,
                         lost    |-> {}])
    /\ UNCHANGED <<files, free>>

StoreNext ==
    \/ Enter
    \/ reply = None /\ (Write \/ Kill \/ WriteFails \/ Read \/ List) /\ UNCHANGED request
==============================================================================
