------------------------------ MODULE Pseudo6809 ------------------------------
(* The simulator of the optimizer (src/cmoc/src/Pseudo6809.cpp and .h): it     *)
(* follows, through a run of instructions, which bytes of the registers and of *)
(* the stack hold a constant, which instruction loaded each byte, and which    *)
(* ones refer to it.  Y, U, S, DP and CC are never known here.                 *)
EXTENDS PeepholeRules

\* A PossiblyKnownVal; at is the index of the instruction that loaded it.
NoIndex == 0
Known(v, at)  == [v |-> v, known |-> TRUE, at |-> at]
Unknown(at)   == [v |-> 0, known |-> FALSE, at |-> at]

Reset == [A |-> Unknown(NoIndex), B |-> Unknown(NoIndex), X |-> Unknown(NoIndex),
          stack |-> <<>>,     \* bytes, the top first
          refs |-> {},        \* <<loader, referrer>>: indexToReferences
          consts |-> <<>>,    \* the loader of each constant: indexToConstantVals
          before |-> <<>>,    \* index :> the stack before it: indexToState
          pushedConstant |-> FALSE,
          ok |-> TRUE]        \* what process() returned

RefsTo(s, k)   == {r[2] : r \in {p \in s.refs : p[1] = k}}
StackBefore(s, k) == IF k \in DOMAIN s.before THEN s.before[k] ELSE <<>>
ConstsOf(s, k) == Len(SelectSeq(s.consts, LAMBDA x : x = k))
AllUnknown(s)  == ~ (s.A.known \/ s.B.known \/ s.X.known)
Holds(w, v)    == w.known /\ w.v = v

\* D is known when A and B are, and counts as loaded where A is.
ValueIn(s, r) ==
    CASE r \in {"A", "B", "X"} -> s[r]
      [] r = "D" -> [v |-> 256 * s.A.v + s.B.v, known |-> s.A.known /\ s.B.known,
                     at |-> s.A.at]
      [] OTHER   -> Unknown(NoIndex)

\* getVal() and loadVal().
Refer(s, r, k) ==
    LET loaders == CASE r = "D" -> {s.A.at, s.B.at}
                     [] r \in {"A", "B", "X"} -> {s[r].at}
                     [] OTHER -> {}
    IN  [s EXCEPT !.refs = @ \cup {<<at, k>> : at \in loaders}]

LoadInto(s, r, w, k) ==
    LET here(v, m) == [v |-> v % m, known |-> w.known, at |-> k]
        loaded == CASE r \in {"A", "B"} -> [s EXCEPT ![r] = here(w.v, 256)]
                    [] r = "X" -> [s EXCEPT !.X = here(w.v, 65536)]
                    [] r = "D" -> [s EXCEPT !.A = here((w.v % 65536) \div 256, 256),
                                            !.B = here(w.v, 256)]
                    [] OTHER   -> s
    IN  IF w.known THEN [loaded EXCEPT !.consts = Append(@, w.at)] ELSE loaded

Plus(w, n) == [w EXCEPT !.v = @ + n]
Sum2(v, w, sign) == [v |-> v.v + sign * w.v, known |-> v.known /\ w.known,
                     at |-> IF v.at = w.at THEN v.at ELSE NoIndex]

-----------------------------------------------------------------------------
(* The stack: a push of U, X, then B, then A; a pull in the opposite order.  *)
PullOrder == <<"A", "B", "X", "Y", "U", "PC">>
BytesPushed(arg) ==
    Cardinality(Lists[arg.name] \cap {"A", "B"})
      + 2 * Cardinality(Lists[arg.name] \cap {"X", "Y", "U", "PC"})

PushOne(s, r, k) ==
    LET w == ValueIn(s, r)
        bytes == IF r \in {"A", "B"} THEN <<w>>
                 ELSE <<[w EXCEPT !.v = @ \div 256], [w EXCEPT !.v = @ % 256]>>
    IN  [Refer(s, r, k) EXCEPT !.stack = bytes \o @, !.pushedConstant = @ \/ w.known]
ProcessPush(s, arg, k) ==
    ForEach(1, 6, s, LAMBDA t, d : IF PullOrder[7 - d] \in Lists[arg.name]
                                   THEN PushOne(t, PullOrder[7 - d], k) ELSE t)

\* pull8() and pull16() of a stack that is deep enough.
PulledBytes(s, n, k) ==
    [s EXCEPT !.refs = @ \cup {<<s.stack[d].at, k>> : d \in 1..n},
              !.stack = SubSeq(@, n + 1, Len(@))]
TopValue(s, n) ==
    LET hi == s.stack[1]
        lo == s.stack[2]
    IN  IF n = 1 THEN hi
        ELSE [v |-> 256 * hi.v + lo.v, known |-> hi.known /\ lo.known,
              at |-> IF hi.at = lo.at THEN hi.at ELSE NoIndex]
PullOne(s, r, k) ==
    LET n == IF r \in {"A", "B"} THEN 1 ELSE 2
    IN  IF Len(s.stack) < n \/ ~ s.ok THEN [s EXCEPT !.ok = FALSE]
        ELSE LET t == PulledBytes(s, n, k)
             IN  IF r \in {"A", "B", "X"} THEN [t EXCEPT ![r] = TopValue(s, n)] ELSE t
ProcessPull(s, arg, k) ==
    ForEach(1, 6, s, LAMBDA t, d : IF PullOrder[d] \in Lists[arg.name]
                                   THEN PullOne(t, PullOrder[d], k) ELSE t)

-----------------------------------------------------------------------------
(* process() of the other instructions.                                      *)
Kinds == {"LD", "ST", "LEA", "CLR", "CMP", "TST", "DEC", "SBC", "ADC"} \cup AccumulatorOps
KindAndTarget ==
    [op \in {kind \o r : kind \in Kinds, r \in {"A", "B", "D", "X", "Y", "U", "S", ""}} |->
        CHOOSE kr \in Kinds \X {"A", "B", "D", "X", "Y", "U", "S", ""} : kr[1] \o kr[2] = op]

\* An argument that holds a minus sign counts as a decrement of its register.
IndexModes == {"n,R", ",R", ",R+", ",R++", "r,X", "[n,R]", "[r,X]"}
IndexOf(arg) == IF arg.mode \in {"r,X", "[r,X]"} THEN "X" ELSE arg.name
Decrements(arg) == arg.mode \in {"n,R", "[n,R]"} /\ arg.n < 0
ConstantOffset(arg) ==
    arg.mode \in {"n,R", "[r,X]"} \/ (arg.mode = "[n,R]" /\ arg.n # 0)
Increment(arg) == IF arg.mode \in {",R+", ",R++"} THEN arg.n ELSE 0

\* The index register after its decrement or increment.
Stepped(at, arg) == IF Decrements(arg) THEN Plus(at, -1) ELSE Plus(at, Increment(arg))
StoreStepped(s, arg, address, k) ==
    IF Decrements(arg) \/ Increment(arg) > 0 THEN LoadInto(s, IndexOf(arg), address, k) ELSE s

\* The bytes that an argument of S takes or looks at: a word that is looked at is
\* pulled and pushed again.
Take(popped, top, s, width, increments) ==
    IF increments THEN popped
    ELSE [popped EXCEPT !.stack = IF width = 1 THEN s.stack
              ELSE <<[top EXCEPT !.v = @ \div 256], [top EXCEPT !.v = @ % 256]>> \o @]

\* The simulation after an indexed argument and the value of the right-hand side:
\* the address for LEA, else what is read there.
Read(s, kind, width, arg, address, k, ignoreStackErrors) ==
    LET onStack == IndexOf(arg) = "S" /\ ~ ConstantOffset(arg)
        short == Len(s.stack) < width
        is(sim, at, pulled) ==
            [sim |-> sim, rhs |-> IF kind # "LEA" THEN pulled
                                  ELSE IF arg.mode \in {"[n,R]", "[r,X]"}
                                  THEN [at EXCEPT !.known = FALSE] ELSE at]
    IN  IF (IndexOf(arg) = "S" /\ Decrements(arg)) \/ (onStack /\ short /\ ~ ignoreStackErrors)
        THEN is([s EXCEPT !.ok = FALSE], address, Unknown(k))
        ELSE IF onStack /\ ~ short
        THEN is(Take(PulledBytes(s, width, k), TopValue(s, width), s, width, Increment(arg) > 0),
                address, TopValue(s, width))
        ELSE IF arg.mode = "r,X"
        THEN is(Refer(s, arg.name, k), Sum2(address, ValueIn(s, arg.name), 1), Unknown(k))
        ELSE is(s, IF arg.mode = "n,R" THEN Plus(address, arg.n) ELSE address, Unknown(k))
Indexed(s, kind, target, arg, k, ignoreStackErrors) ==
    LET address == Stepped(ValueIn(s, IndexOf(arg)), arg)
        width == IF Increment(arg) > 0 THEN Increment(arg)
                 ELSE IF target \in {"D", "X", "Y", "U", "S"} THEN 2 ELSE 1
    IN  Read(StoreStepped(Refer(s, IndexOf(arg), k), arg, address, k),
             kind, width, arg, address, k, ignoreStackErrors)

\* The left-hand side is fetched by no instruction but LEA: results are unknown,
\* except of an AND with 0 and an OR with 255.
Result(kind, rhs, k) ==
    CASE kind = "AND" -> [v |-> 0, known |-> Holds(rhs, 0), at |-> NoIndex]
      [] kind = "OR"  -> [v |-> rhs.v, known |-> Holds(rhs, 255), at |-> NoIndex]
      [] OTHER        -> Unknown(NoIndex)

PopBytes(s, n) ==
    IF Len(s.stack) < n THEN [s EXCEPT !.ok = FALSE]
    ELSE [s EXCEPT !.stack = SubSeq(@, n + 1, Len(@))]

Operate(s, rhs, kind, target, e, k) ==
    IF ~ s.ok THEN s
    ELSE CASE kind = "LD" -> LoadInto(s, target, IF IsLiteral(e.arg) THEN rhs ELSE Unknown(k), k)
           [] kind = "LEA" /\ target = "S" ->
                 IF IndexOf(e.arg) = "S" THEN PopBytes(s, e.arg.n) ELSE [s EXCEPT !.ok = FALSE]
           [] kind = "CLR" -> LoadInto(s, target, Known(0, k), k)
           [] kind \in {"CMP", "ST", "TST"} -> Refer(s, target, k)
           [] kind = "ADC" -> LoadInto(s, target, Unknown(k), k)
           [] OTHER -> LoadInto(Refer(s, target, k), target,
                                IF kind = "LEA" THEN rhs ELSE Result(kind, rhs, k), k)
Generic(s, e, k, ignoreStackErrors) ==
    LET kind == KindAndTarget[e.op][1]
        target == KindAndTarget[e.op][2]
        after(i) == Operate(i.sim, i.rhs, kind, target, e, k)
    IN  after(IF e.arg.mode \in IndexModes
              THEN Indexed(s, kind, target, e.arg, k, ignoreStackErrors)
              ELSE [sim |-> s, rhs |-> IF IsLiteral(e.arg) THEN Known(e.arg.n, k)
                                       ELSE Unknown(k)])

\* A slip of TFR and EXG: an exchange leaves in the first register the difference
\* of both and does not touch the second.
TransferOrExchange(s, e, k) ==
    LET p == Pairs[e.arg.name][1]
        q == Pairs[e.arg.name][2]
    IN  IF e.op = "TFR" THEN LoadInto(Refer(s, p, k), q, ValueIn(s, p), k)
        ELSE LoadInto(Refer(Refer(s, p, k), q, k), p, Sum2(ValueIn(s, p), ValueIn(s, q), -1), k)

ProcessMul(s, k) ==
    LET zero == Holds(s.A, 0) \/ Holds(s.B, 0)
    IN  LoadInto(Refer(s, "D", k), "D",
                 IF zero THEN Known(0, k)
                 ELSE [v |-> s.A.v * s.B.v, known |-> s.A.known /\ s.B.known, at |-> k], k)

AddBToX(s, k) == LoadInto(Refer(Refer(s, "B", k), "X", k), "X", Sum2(s.X, s.B, 1), k)

\* SEX loads A, but is among the instructions that process() gives up at.
Process(s, e, k, ignoreStackErrors) ==
    LET t == [s EXCEPT !.before = @ @@ (k :> s.stack)]
    IN  CASE e.op = "PSHS" -> ProcessPush(t, e.arg, k)
          [] e.op = "PULS" -> ProcessPull(t, e.arg, k)
          [] e.op \in {"TFR", "EXG"} -> TransferOrExchange(t, e, k)
          [] e.op = "MUL" -> ProcessMul(t, k)
          [] e.op = "ABX" -> AddBToX(t, k)
          [] e.op \in DOMAIN KindAndTarget -> Generic(t, e, k, ignoreStackErrors)
          [] OTHER -> [t EXCEPT !.ok = FALSE]

\* The loop of a rule: from start, what What says of the simulation and an index
\* ("run" it, "skip" it, "stop" before it, "fail" the rule), while process()
\* succeeds and Goes holds.  end is "" at the end of the list, "error" where
\* process() returned false; count is the number of instructions run.
SimulateOver(code, start, What(_, _), Goes(_), ignoreStackErrors) ==
    LET ran(st, k, s) ==
            [sim |-> s, count |-> st.count + 1, index |-> IF s.ok THEN k + 1 ELSE k,
             end |-> IF ~ s.ok THEN "error" ELSE IF Goes(s) THEN "" ELSE "stop"]
        next(st, k, what) ==
            CASE what = "run"  -> ran(st, k, Process(st.sim, code[k], k, ignoreStackErrors))
              [] what = "skip" -> [st EXCEPT !.index = k + 1]
              [] OTHER         -> [st EXCEPT !.end = what]
        step(st, k) == IF st.end # "" THEN st ELSE next(st, k, What(st.sim, k))
    IN  ForEach(start, Len(code), [sim |-> Reset, count |-> 0, index |-> start, end |-> ""], step)
==============================================================================
