----------------------------- MODULE Compilation ------------------------------
(* A function body on its way through CMOC and into the 6809: the code         *)
(* generator emits it (StmtCodeGen), the peephole optimizer rewrites it        *)
(* (Peephole) and the simulator executes it (M6809).                           *)
EXTENDS StmtCodeGen, M6809

CONSTANTS
    Programs,            \* the statements compiled
    Locals,              \* the local variables of the body
    FrameOf,             \* [Locals -> offsets from U]
    Environments(_),     \* the values of the local variables a statement starts with
    FramePtr,            \* the value of U, the address past the locals
    Garbage,             \* what A and B may hold when the body starts
    MaxLabels,           \* a bound on the labels of a program
    MaxIters,
    MaxShortBranchInstrs

VARIABLES
    program,
    code, i, numIters, modified, pc,   \* the optimizer
    m,                                 \* the 6809
    env0,                              \* the locals at the start of the body
    phase                              \* "compiling", "running" or "halted"

vars == <<program, code, i, numIters, modified, pc, m, env0, phase>>
optVars == <<code, i, numIters, modified, pc>>

\* The code of a function body; the first label is L1.
Compile(s) ==
    EmitStmt(NothingEmitted([id \in Locals |-> Off(FrameOf[id], "U")], "", VoidType), s).code
Compiled == {[program |-> p, code |-> Compile(p)] : p \in Programs}
CompiledCodes == {c.code : c \in Compiled}

Opt == INSTANCE Peephole WITH
          Codes <- CompiledCodes, GeneratedLabels <- {Lab(n) : n \in 1..MaxLabels}

-----------------------------------------------------------------------------
(* The stack frame: U points past the locals, S at the last of them.         *)
FrameSize == -(CHOOSE d \in {FrameOf[id] : id \in Locals} :
                  \A id \in Locals : d <= FrameOf[id])
StackPtr  == FramePtr - FrameSize
Window    == 0..(FramePtr + 3)   \* two words of the caller above the locals

\* The bytes of the locals that hold the values env.
Place(env) ==
    [a \in Window |->
        LET here == {id \in Locals : a - FramePtr - FrameOf[id] \in 0..(TypeOfVar[id].size - 1)}
            id == CHOOSE x \in here : TRUE
        IN  IF here = {} THEN 0
            ELSE IF TypeOfVar[id].size = 2 /\ a - FramePtr = FrameOf[id]
            THEN env[id] \div 256 ELSE env[id] % 256]

ValueInFrame(mm, id) ==
    IF TypeOfVar[id].size = 1 THEN Read8(mm, FramePtr + FrameOf[id])
    ELSE Read16(mm, FramePtr + FrameOf[id])

NoEnv == [id \in Locals |-> 0]
NoMachine == [A |-> 0, B |-> 0, X |-> 0, Y |-> 0, U |-> FramePtr, S |-> StackPtr,
              n |-> FALSE, z |-> FALSE, v |-> FALSE, c |-> FALSE,
              mem |-> Place(NoEnv), pc |-> 1]

-----------------------------------------------------------------------------
Init ==
    /\ \E c \in Compiled : program = c.program /\ Opt!InitFrom(c.code)
    /\ m = NoMachine
    /\ env0 = NoEnv
    /\ phase = "compiling"

Optimize ==
    /\ phase = "compiling"
    /\ Opt!Next
    /\ UNCHANGED <<program, m, env0, phase>>

Start ==
    /\ phase = "compiling"
    /\ pc = "done"
    /\ env0' \in Environments(program)
    /\ \E g \in Garbage :
          m' = [NoMachine EXCEPT !.A = g, !.B = g, !.mem = Place(env0')]
    /\ phase' = "running"
    /\ UNCHANGED <<program, optVars>>

ExecuteInstr ==
    /\ phase = "running"
    /\ m.pc \in DOMAIN code
    /\ m' = Step(code, m)
    /\ phase' = IF Ended(code, m') THEN "halted" ELSE "running"
    /\ UNCHANGED <<program, optVars, env0>>

Next == Optimize \/ Start \/ ExecuteInstr

Spec == Init /\ [][Next]_vars /\ WF_vars(Next)

-----------------------------------------------------------------------------
(* Type correctness of the machine and of the phases.                        *)
TypeOK ==
    /\ phase \in {"compiling", "running", "halted"}
    /\ \A r \in {"A", "B"} : m[r] \in Byte
    /\ \A r \in {"X", "Y", "U", "S"} : m[r] \in Word
    /\ DOMAIN m.mem = Window
    /\ \A a \in Window : m.mem[a] \in Byte
    /\ m.pc \in 1..(Len(code) + 1)

(* Every byte that the body pushes it pulls, on every path and whatever the    *)
(* optimizer did to the pushes: the stack pointer never rises above the        *)
(* locals, is back there at the end, and nothing above the locals, where the   *)
(* caller's U and the return address are, is written.                          *)
StackDiscipline ==
    /\ TypeOK
    /\ m.S <= StackPtr
    /\ phase = "halted" => m.S = StackPtr
    /\ m.U = FramePtr
    /\ \A a \in Window : a >= FramePtr => m.mem[a] = 0

(* The compiled program does what the source program means: when it halts, the *)
(* locals hold the values that the statement gives them, at optimization level *)
(* 0 and at level 1, whatever the registers held before.                       *)
SourcePlaces == [id \in Locals |-> 4 * (FramePtr + FrameOf[id])]
Source == INSTANCE SourceProgram WITH
             PlaceOf <- SourcePlaces,
             env <- IF phase = "halted" THEN [id \in Locals |-> ValueInFrame(m, id)]
                    ELSE env0
Implements == Source!Spec

(* The compiled program halts: the optimizer stops, and no branch that it      *)
(* inverted, shortened or redirected goes round for ever or nowhere.           *)
Halts == <>(phase = "halted")
==============================================================================
