-------------------------- MODULE OptimizedFunctions ---------------------------
(* Functions that the optimizer (PeepholeLevel2) rewrites and the 6809 (M6809) *)
(* executes, called with some arguments before and after: what the caller can  *)
(* see must be the same.                                                       *)
EXTENDS PeepholeLevel2, M6809

CONSTANTS
    Arguments,    \* what a caller passes: sequences of words
    Globals,      \* the bytes of the data, from address 0
    CallerS,      \* S when the call is made, the address of the first argument
    Top,          \* the last address of the window of memory
    Garbage,      \* the bytes that A and B, and the words that X and Y, may hold before
    MaxSteps      \* a bound on the instructions that a function executes

VARIABLE original   \* the list before the optimization

varsF == <<vars2, original>>

-----------------------------------------------------------------------------
\* A call of the first function: its return address is 0, the caller's U is CallerU.
CallerU == CallerS + 9
ArgumentByte(args, k) ==
    LET w == args[k \div 2 + 1] IN IF k % 2 = 0 THEN w \div 256 ELSE w % 256
Called(args, junk) ==
    [A |-> junk, B |-> junk, X |-> 257 * junk, Y |-> 257 * junk, U |-> CallerU,
     S |-> CallerS - 2, n |-> FALSE, z |-> FALSE, v |-> FALSE, c |-> FALSE, pc |-> 1,
     mem |-> [a \in 0..Top |->
                 IF a \in DOMAIN Globals THEN Globals[a]
                 ELSE IF a - CallerS \in 0..(2 * Len(args) - 1) THEN ArgumentByte(args, a - CallerS)
                 ELSE 0] @@ <<>>]

Finished(c, machine) == machine.pc \notin DOMAIN c
Run(c, machine) ==
    ForEach(1, MaxSteps, machine, LAMBDA at, n : IF Finished(c, at) THEN at ELSE Step(c, at))

\* What the caller sees: the result in D or B, the data and what is on the stack
\* above the return address, the registers that a function keeps.
Seen(c, machine) ==
    LET kept == DOMAIN Globals \cup CallerS..Top
    IN  [returned |-> Finished(c, machine) /\ machine.pc = 0,
         result |-> IF IsLabel(c, 2, "_byte") THEN machine.B ELSE 256 * machine.A + machine.B,
         U |-> machine.U, S |-> machine.S,
         mem |-> [a \in kept |-> machine.mem[a]]]
Outcomes(c) ==
    [args \in Arguments, junk \in Garbage |-> Seen(c, Run(c, Called(args, junk)))]
OriginalOutcomes == [c \in Codes |-> Outcomes(c)]

-----------------------------------------------------------------------------
InitF == Init2 /\ original = code
Stopped == Optimized /\ UNCHANGED varsF
NextF == (Next2 /\ UNCHANGED original) \/ Stopped
SpecF == InitF /\ [][NextF]_varsF

-----------------------------------------------------------------------------
(* The optimized function is the function: for all arguments, and whatever the *)
(* registers hold at the call, it returns with the same result, the same data, *)
(* the same arguments on the caller's stack and the same S and U, at each      *)
(* level, with its frame pointer and without.                                  *)
SameOutcome ==
    (Optimized /\ code # original) => Outcomes(code) = OriginalOutcomes[original]

(* The comment in removeTfrDX() (ASMText2.cpp:2612): "If we read A or B before *)
(* writing, then we can't do this".  Where it takes the load of D away, D is   *)
(* not read before it is written again.                                        *)
RemoveTfrDXKeepsD ==
    (level = 2 /\ pc = "scan") =>
        \A k \in DOMAIN code : RemoveTfrDX(code, k) # NoMatch =>
            LET uses(n) == code[n].type = "INSTR"
                             /\ (Reads(code[n]) \cup Writes(code[n])) \cap {"A", "B"} # {}
                next == FirstFrom(code, k + 2, uses)
            IN  next <= Len(code) => Reads(code[next]) \cap {"A", "B"} = {}
==============================================================================
