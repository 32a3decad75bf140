-------------------------- MODULE CompiledFunctions ---------------------------
(* Whole functions on their way through CMOC: the statements and expressions   *)
(* of their bodies are emitted with their stack frames (StmtCodeGen), the      *)
(* optimizer rewrites the list (PeepholeLevel2), and the 6809 (M6809) executes *)
(* a call of the first function, which may call the others.                    *)
EXTENDS PeepholeLevel2, M6809, StmtCodeGen, CSemantics

CONSTANTS
    Programs,     \* [names -> functions, the first the one called, with arguments for it]
    Levels,       \* the optimization levels
    GlobalAt,     \* [global variables -> addresses]
    GlobalBytes,  \* [addresses from 0 -> bytes], what the global variables start with
    CallerS,      \* S when the call is made, the address of the first argument
    Top,          \* the last address of the window of memory
    Garbage,      \* the bytes that the registers may hold before the call
    LogMaxSteps   \* of a bound on the instructions that a call executes

VARIABLE program   \* the program compiled

varsC == <<vars2, program>>

-----------------------------------------------------------------------------
Compiled == {[program |-> p, code |-> EmitFunctions(p.functions, DOMAIN GlobalAt)] : p \in Programs}

\* A call of the first function: its return address is 0, the caller's U is CallerU.
CallerU == CallerS + 9
ArgumentByte(args, k) ==
    LET w == args[k \div 2 + 1] IN IF k % 2 = 0 THEN w \div 256 ELSE w % 256
Called(args, junk) ==
    [A |-> junk, B |-> junk, X |-> 257 * junk, Y |-> 257 * junk, U |-> CallerU,
     S |-> CallerS - 2, n |-> FALSE, z |-> FALSE, v |-> FALSE, c |-> FALSE, pc |-> 1,
     mem |-> [a \in 0..Top |->
                 IF a \in DOMAIN GlobalBytes THEN GlobalBytes[a]
                 ELSE IF a - CallerS \in 0..(2 * Len(args) - 1) THEN ArgumentByte(args, a - CallerS)
                 ELSE 0] @@ <<>>]
Returned(c, machine) == machine.pc \notin DOMAIN c
RECURSIVE Run(_, _, _)
Run(c, machine, log) ==
    IF Returned(c, machine) THEN machine
    ELSE IF log = 0 THEN Step(c, machine)
    ELSE With(Run(c, machine, log - 1), LAMBDA half : Run(c, half, log - 1))

Returns(p) == Prototypes[p.functions[1].name].returns
Outcome(returned, result, globals, registers) ==
    [returned |-> returned, result |-> result, globals |-> globals, registers |-> registers]

\* What the caller sees: the result in B or D, the global variables, and S and U.
Seen(p, c, machine) ==
    Outcome(Returned(c, machine) /\ machine.pc = 0,
            CASE Returns(p).size = 0 -> 0 [] Returns(p).size = 1 -> machine.B
              [] Returns(p).size = 2 -> Get(machine, "D"),
            [a \in DOMAIN GlobalBytes |-> Read8(machine, a)], <<machine.S, machine.U>>)

\* What the C source means: a variable of a function has some place of its own.
Meant(p, args) ==
    With(ResultOfCall(p.functions[1], args, [mem |-> GlobalBytes, at |-> GlobalAt, functions |-> p.functions, base |-> 10000]),
         LAMBDA r : Outcome(TRUE, r.v, [a \in DOMAIN GlobalBytes |-> ByteAt(r.st, a)], <<CallerS, CallerU>>))

-----------------------------------------------------------------------------
InitC == \E c \in Compiled : InitFrom2(c.code, Levels) /\ program = c.program
Stopped == Optimized /\ UNCHANGED varsC
NextC == (Next2 /\ UNCHANGED program) \/ Stopped
SpecC == InitC /\ [][NextC]_varsC

-----------------------------------------------------------------------------
(* A call of the compiled function does what the C source means, at each       *)
(* optimization level: it returns, with the result of the function, leaves the *)
(* global variables with the values that the source gives them, and S and U as *)
(* the caller had them, for all arguments and whatever the registers held.     *)
MeansTheSource ==
    Optimized =>
        \A args \in program.arguments : \A meant \in {Meant(program, args)} :
            \A junk \in Garbage : Seen(program, code, Run(code, Called(args, junk), LogMaxSteps)) = meant
==============================================================================
