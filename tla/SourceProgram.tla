---------------------------- MODULE SourceProgram -----------------------------
(* What the user of the compiler is promised: the program, started with any    *)
(* values in its local variables, ends with the values that the C statement    *)
(* means.                                                                      *)
EXTENDS CSemantics

CONSTANTS
    Programs,         \* the statements
    Locals,           \* the local variables of the body
    PlaceOf,          \* [Locals -> addresses], apart from each other
    Environments(_)   \* the values of the locals a statement starts with

VARIABLES program, env, phase

vars == <<program, env, phase>>

NoEnv == [id \in Locals |-> 0]

\* The meaning of a statement, for the values of the locals.
Stored(e) ==
    FoldSet(LAMBDA id, st : WriteAt(st, TypeOfVar[id], PlaceOf[id], e[id]),
            [mem |-> <<>>, at |-> PlaceOf, functions |-> <<>>, base |-> 100], Locals)
Ending(s, e) ==
    With(Meaning(s, Stored(e)), LAMBDA end :
        [id \in Locals |-> ReadAt(end.st, TypeOfVar[id], PlaceOf[id])])

Init ==
    /\ env = NoEnv
    /\ phase = "compiling"

Start ==
    /\ phase = "compiling"
    /\ env' \in Environments(program)
    /\ phase' = "running"
    /\ UNCHANGED program

Finish ==
    /\ phase = "running"
    /\ env' = Ending(program, env)
    /\ phase' = "halted"
    /\ UNCHANGED program

Next == Start \/ Finish

Spec == Init /\ [][Next]_vars
==============================================================================
