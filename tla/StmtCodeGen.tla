----------------------------- MODULE StmtCodeGen ------------------------------
(* The code CMOC emits for statements and for functions, before any            *)
(* optimization: the emitCode() methods of IfStmt, WhileStmt, ForStmt,         *)
(* SwitchStmt, LabeledStmt, JumpStmt, Declaration and FunctionDef, and the     *)
(* stack frame of a function (FunctionDef.cpp, Scope.cpp).                     *)
(*                                                                             *)
(* To what is emitted (ExprCodeGen) are added the labels that break and        *)
(* continue go to, those of the cases of the current switch that are still to  *)
(* be placed, and the type and the end label of the current function.          *)
EXTENDS ExprCodeGen

IdLabel(id)  == "L_" \o id
EndLabel(f)  == "LE" \o f
Branch(l)    == <<Ins("LBRA", Target(l))>>
NoContinueLabel == ""   \* that of a switch
BreakableLabels(out, break, continue) ==
    [out EXCEPT !.breakables = <<[break |-> break, continue |-> continue]>> \o @]
PopBreakableLabels(out) == [out EXCEPT !.breakables = Tail(@)]

NothingEmitted(frame, end, returns) ==
    [code |-> <<>>, n |-> 1, frame |-> frame, breakables |-> <<>>, cases |-> <<>>,
     end |-> end, returns |-> returns]

RECURSIVE EmitStmt(_, _)
\* The code of an expression in a statement.
Part(e, to) == [k |-> "part", e |-> e, to |-> to]
EmitPart(out, e) == EmitStmt(out, Part(e, [as |-> "value"]))
EmitTest(out, c, success, failure) ==
    EmitStmt(out, Part(c, [as |-> "jumps", success |-> success, failure |-> failure]))

-----------------------------------------------------------------------------
(* if                                                                        *)

\* The end of an if, of which out holds the condition and the first branch.
EmitElse(out, s, else) ==
    LET endif == Label(Lab(out.n))
        jump  == Branch(Lab(out.n)) \o <<Label(else), Comment>>
    IN  IF s.else = Block(<<>>) THEN Then(NewLabels(out, 1), <<Label(else), endif>>)
        ELSE Then(EmitStmt(Then(NewLabels(out, 1), jump), s.else), <<endif>>)

EmitIf(out, s) ==
    LET then == Lab(out.n)
        else == Lab(out.n + 1)
        cond == EmitTest(Then(NewLabels(out, 2), <<Comment>>), s.c, then, else)
        only == CHOOSE truth \in BOOLEAN : AlwaysIs(s.c, truth)
    IN  IF \E truth \in BOOLEAN : AlwaysIs(s.c, truth)
        THEN EmitStmt(Then(out, <<Comment>>), IF only THEN s.then ELSE s.else)
        ELSE EmitElse(EmitStmt(Then(cond, <<Label(then), Comment>>), s.then), s, else)

-----------------------------------------------------------------------------
(* while, do and for.  The test of a loop comes after its body.              *)
IsDo(s) == s.k = "do"

\* The loop up to its body; body, condition and end are labels n, n + 1 and n + 2.
EmitLoopBody(out, s, n) ==
    PopBreakableLabels(EmitStmt(
        Then(BreakableLabels(NewLabels(out, 3), Lab(n + 2), Lab(n + 1)),
             <<Comment>> \o (IF IsDo(s) THEN <<>> ELSE Branch(Lab(n + 1))) \o <<Label(Lab(n))>>),
        s.body))
\* A condition that is always false has no test, and no label.
EmitLoopTest(out, s, n, failure) ==
    LET tested == Then(out, <<Label(Lab(n + 1))>>)
    IN  Then(IF AlwaysIs(s.c, FALSE) THEN out
             ELSE IF AlwaysIs(s.c, TRUE) THEN Then(tested, Branch(Lab(n)))
             ELSE EmitTest(tested, s.c, Lab(n), failure),
             <<Label(Lab(n + 2))>>)
HasLoopBody(s) == IsDo(s) \/ ~ AlwaysIs(s.c, FALSE)

\* A slip: a false condition goes to the test again and not to the end.
EmitWhileForever(out, s) ==
    EmitLoopTest(IF HasLoopBody(s) THEN EmitLoopBody(out, s, out.n) ELSE NewLabels(out, 3),
                 s, out.n, Lab(out.n + 1))

EmitWhile(out, s) ==
    EmitLoopTest(IF HasLoopBody(s) THEN EmitLoopBody(out, s, out.n) ELSE NewLabels(out, 3),
                 s, out.n, Lab(out.n + 2))

\* Body, condition, increment and end are labels n to n + 3.
EmitFor(out, s) ==
    LET n == out.n
        start == FoldLeft(LAMBDA o, e : EmitPart(Then(o, <<Comment>>), e),
                          BreakableLabels(NewLabels(out, 4), Lab(n + 3), Lab(n + 2)), s.init)
        body == EmitStmt(Then(start, (IF s.c = <<>> THEN <<>> ELSE Branch(Lab(n + 1)))
                                       \o <<Label(Lab(n)), Comment>>), s.body)
        next == FoldLeft(LAMBDA o, e : EmitSimplerIfIncrement(Then(o, <<Comment>>), e),
                         Then(body, <<Label(Lab(n + 2))>>), s.next)
        test(o) == IF s.c = <<>> THEN Then(o, Branch(Lab(n)))
                   ELSE EmitTest(Then(o, <<Label(Lab(n + 1)), Comment>>), s.c[1], Lab(n), Lab(n + 3))
    IN  PopBreakableLabels(Then(test(next), <<Label(Lab(n + 3))>>))

-----------------------------------------------------------------------------
(* switch                                                                    *)
IsCaseOrDefault(s) == s.k \in {"case", "default"}
\* The cases of a switch, of which s is a part; not those of a switch in it.
RECURSIVE CasesOf(_)
CasesOf(s) ==
    (IF IsCaseOrDefault(s) THEN <<s>> ELSE <<>>)
      \o (IF s.k = "switch" THEN <<>> ELSE FlattenSeq([k \in DOMAIN Children(s) |-> CasesOf(Children(s)[k])]))

\* A value of a case, as an int32_t: a signed constant is extended.
CaseValue(c) == IF IsSigned(c.v) THEN Sign16(Evaluate(c.v)) ELSE Evaluate(c.v)
\* The cases that a byte may have; the others are left out of the costs and of the table.
IsIgnoredCase(e, c) ==
    /\ IsByte(e) /\ c.k = "case"
    /\ CaseValue(c) \notin (IF IsSigned(e) THEN -128..127 ELSE 0..255)
CasesWithValue(e, cases) == SelectSeq(cases, LAMBDA c : c.k = "case" /\ ~ IsIgnoredCase(e, c))
ValuesOf(cases) == {CaseValue(cases[k]) : k \in {j \in DOMAIN cases : cases[j].k = "case"}}
Lowest(S)  == CHOOSE m \in S : \A v \in S : m <= v
Highest(S) == CHOOSE m \in S : \A v \in S : v <= m

\* The bytes of both forms: comparisons, or a table of offsets.
IfElseCost(e, cases) == Len(cases) * ((IF IsByte(e) THEN 2 ELSE 4) + 4) + 3
JumpTableCost(e, cases) ==
    (IF IsByte(e) THEN 1 ELSE 0) + 4 + 3 + 6
      + 2 * (3 + 1 + Highest(ValuesOf(cases)) - Lowest(ValuesOf(cases)))
UsesJumpTable(e, cases) == IfElseCost(e, cases) > JumpTableCost(e, cases)

\* Every case is compared, the ignored ones too.  The k-th label of the cases is labels[k].
EmitComparisons(e, cases, labels, default) ==
    LET compare(k) ==
            LET v == CaseValue(cases[k])
                low == IF IsByte(e) THEN Hex(v % 256) ELSE Hex(v % 65536)
            IN  IF cases[k].k = "default" THEN <<>>
                ELSE <<Comment, Ins(IF IsByte(e) THEN "CMPB" ELSE "CMPD", low), Ins("LBEQ", Target(labels[k]))>>
    IN  FlattenSeq([k \in DOMAIN cases |-> compare(k)]) \o Branch(default)

\* The offset of a label from the table, of which only the label counts.
Offset(l) == Ins("FDB", Target(l))
\* The least and the greatest values are those of all cases, ignored ones included.
EmitJumpTable(e, cases, labels, default, table) ==
    LET values == ValuesOf(cases)
        labelOf(v) == LET here == {k \in DOMAIN cases : cases[k].k = "case" /\ ~ IsIgnoredCase(e, cases[k])
                                                        /\ CaseValue(cases[k]) = v}
                      IN  IF here = {} THEN default ELSE labels[CHOOSE k \in here : TRUE]
    IN  Promotion(e)
          \o <<Ins("LEAX", Pcr(table)),
               Ins("LBRA", Target(IF IsSigned(e) THEN "signedJumpTableSwitch" ELSE "unsignedJumpTableSwitch")),
               Ins("FDB", Dec(Lowest(values))), Ins("FDB", Dec(Highest(values))), Offset(default),
               Label(table)>>
          \o [k \in 1..(1 + Highest(values) - Lowest(values)) |-> Offset(labelOf(Lowest(values) + k - 1))]

EmitSwitch(out, s) ==
    LET end == Lab(out.n)
        cases == CasesOf(s.body)
        valued == CasesWithValue(s.e, cases)
        labels == [k \in DOMAIN cases |-> Lab(out.n + k)]
        table == Lab(out.n + 1 + Len(cases))
        defaults == {k \in DOMAIN cases : cases[k].k = "default"}
        default == IF defaults = {} THEN end ELSE labels[CHOOSE k \in defaults : TRUE]
        remarks == [k \in 1..(2 + Len(cases) - Len(valued) - Cardinality(defaults)) |-> Comment]
        choice == IF valued = <<>> THEN Branch(default)
                  ELSE IF UsesJumpTable(s.e, valued) THEN EmitJumpTable(s.e, cases, labels, default, table)
                  ELSE EmitComparisons(s.e, cases, labels, default)
        chosen == Then(EmitPart(Then(NewLabels(out, 2 + Len(cases)), <<Comment>>), s.e), remarks \o choice)
        body == EmitStmt([BreakableLabels(chosen, end, NoContinueLabel) EXCEPT !.cases = labels], s.body)
    IN  PopBreakableLabels([Then(body, <<Label(end)>>) EXCEPT !.cases = out.cases])

EmitCase(out, s) ==
    EmitStmt([Then(out, <<Comment, Label(Head(out.cases))>>) EXCEPT !.cases = Tail(@)], s.s)

-----------------------------------------------------------------------------
(* Jumps, declarations.                                                      *)
EmitReturn(out, s) ==
    LET e == s.es[1]
    IN  Then(IF s.es = <<>> THEN out
             ELSE IF out.returns.kind = "byte" /\ Is8BitConstant(e)
             THEN Then(out, IF Evaluate(e) % 256 = 0 THEN <<Bare("CLRB")>>
                            ELSE <<Ins("LDB", Dec(Evaluate(e) % 256))>>)
             ELSE Then(EmitPart(Then(out, <<Comment>>), e), EmitCastCode(out.returns, TypeOf(e))),
             Branch(out.end))

\* A continue in a switch has no label to go to, and no code.
EmitContinue(out) ==
    LET l == Head(out.breakables).continue IN IF l = NoContinueLabel THEN out ELSE Then(out, Branch(l))
EmitJump(out, s) ==
    CASE s.k = "break"    -> Then(out, Branch(Head(out.breakables).break))
      [] s.k = "continue" -> EmitContinue(out)
      [] s.k = "goto"     -> Then(out, <<Comment>> \o Branch(IdLabel(s.id)))
      [] s.k = "return"   -> EmitReturn(out, s)

\* int v = e;
EmitInitialization(out, s) ==
    LET e == s.es[1]
        v == Evaluate(e)
        type == TypeOfVar[s.id]
        dest == out.frame[s.id]
        byte == type.kind = "byte"
        load == IF byte THEN <<Ins("LDB", Hex(v % 256))>>
                ELSE IF v = 0 THEN <<Bare("CLRA"), Bare("CLRB")>> ELSE <<Ins("LDD", Hex(v))>>
        commented == Then(out, <<Comment>>)
    IN  IF s.es = <<>> THEN out
        ELSE IF byte /\ v = 0 THEN Then(commented, <<Ins("CLR", dest)>>)
        ELSE Then(IF IsConst(e) THEN Then(commented, (IF byte /\ v % 256 = 0 THEN <<Bare("CLRB")>> ELSE load))
                  ELSE Then(EmitPart(commented, e), IF byte THEN <<>> ELSE Promotion(e)),
                  <<Ins(Sized("ST", type), dest)>>)

EmitStmt(out, s) ==
    CASE s.k = "part"   -> EmitCode(out, s.e, s.to)
      [] s.k = "expr"   -> EmitPart(out, s.e)
      [] s.k = "decl"   -> EmitInitialization(out, s)
      [] s.k = "if"     -> EmitIf(out, s)
      [] s.k \in {"while", "do"} -> EmitWhile(out, s)
      [] s.k = "for"    -> EmitFor(out, s)
      [] s.k = "switch" -> EmitSwitch(out, s)
      [] IsCaseOrDefault(s) -> EmitCase(out, s)
      [] s.k = "label"  -> EmitStmt(Then(out, <<Comment, Label(IdLabel(s.id))>>), s.s)
      [] s.k \in {"break", "continue", "goto", "return"} -> EmitJump(out, s)
      [] s.k = "asm"    -> Then(out, <<Comment, InlineAsm>>)
      [] s.k = "block"  -> FoldLeft(EmitStmt, out, s.ss)

-----------------------------------------------------------------------------
(* Functions: [name, params, body].                                          *)

\* declareFormalParams(): the arguments are words; the low byte of one is a byte.
FirstParamDisplacement == 4
FormalParams(f) ==
    LET size(k) == TypeOfVar[f.params[k]].size
    IN  [id \in ToSet(f.params) |->
            LET k == CHOOSE j \in DOMAIN f.params : f.params[j] = id
            IN  FirstParamDisplacement + 2 * (k - 1) + (IF size(k) = 1 THEN 1 ELSE 0)]

\* ScopeCreator: an inner block and a loop have a scope, in which the declarations
\* that are directly in it are.
HasScope(s) == s.k \in {"block", "while", "do", "for"}
Declared(s) == SelectSeq(Children(s), LAMBDA t : t.k = "decl")
RECURSIVE SubScopes(_)
SubScopes(s) ==
    FlattenSeq([k \in DOMAIN Children(s) |->
                   IF HasScope(Children(s)[k]) THEN <<Children(s)[k]>> ELSE SubScopes(Children(s)[k])])

\* Scope::allocateLocalVariables(): the last variable is the nearest to U; all the
\* scopes in a scope start below its variables.
\* A slip: they start where the variables of the scope do, and share their bytes.
StartOverVariables(start, end) == start
StartBelowVariables(start, end) == end
RECURSIVE AllocateLocalVariables(_, _)
AllocateLocalVariables(s, above) ==
    LET allocate(a, d) == LET low == a.min - TypeOfVar[d.id].size
                          IN  [at |-> (d.id :> low) @@ a.at, min |-> low]
        own == FoldLeft(allocate, [at |-> <<>>, min |-> above], Reverse(Declared(s)))
        within(a, sub) == LET inner == AllocateLocalVariables(sub, StartBelowVariables(above, own.min))
                          IN  [at |-> inner.at @@ a.at, min |-> IF inner.min < a.min THEN inner.min ELSE a.min]
    IN  FoldLeft(within, own, SubScopes(s))

\* BreakAndContinueChecker: a continue is an error out of all loops, a break out of
\* all loops and switches.
RECURSIVE HasMisplacedJump(_, _, _)
HasMisplacedJump(s, inLoop, inSwitch) ==
    LET loop == inLoop \/ s.k \in {"while", "do", "for"}
        switch == inSwitch \/ s.k = "switch"
    IN  \/ s.k = "continue" /\ ~ inLoop
        \/ s.k = "break" /\ ~ (inLoop \/ inSwitch)
        \/ \E k \in DOMAIN Children(s) : HasMisplacedJump(Children(s)[k], loop, switch)

NeedsStackFrame(f, locals) == f.params # <<>> \/ DOMAIN locals.at # {}

\* The places of the variables of f, from U or, for a global, from its label.
FrameOfFunction(f, globals) ==
    LET places == FormalParams(f) @@ AllocateLocalVariables(f.body, 0).at
    IN  [id \in DOMAIN places |-> Off(places[id], "U")] @@ [id \in globals |-> Pcr("_" \o id)]

EmitFunction(f, globals, n) ==
    LET locals == AllocateLocalVariables(f.body, 0)
        framed(es) == IF NeedsStackFrame(f, locals) THEN es ELSE <<>>
        start == NothingEmitted(FrameOfFunction(f, globals), EndLabel(f.name), Prototypes[f.name].returns)
        entered == Then([start EXCEPT !.n = n],
                        <<FunctionStart, Label("_" \o f.name), Comment>>
                          \o framed(<<Ins("PSHS", Regs("U")), Ins("LEAU", Ptr("S"))>>
                                      \o (IF locals.min < 0 THEN <<Ins("LEAS", Off(locals.min, "S"))>> ELSE <<>>)))
    IN  Then(EmitStmt(entered, f.body),
             <<Label(EndLabel(f.name))>>
               \o (IF NeedsStackFrame(f, locals) THEN <<Ins("LEAS", Ptr("U")), Ins("PULS", Regs("U,PC"))>>
                   ELSE <<Bare("RTS")>>)
               \o <<FunctionEnd>>)

\* The code of functions one after the other; the first label is L1.
EmitFunctions(fs, globals) ==
    FoldLeft(LAMBDA out, f : LET next == EmitFunction(f, globals, out.n)
                             IN  [code |-> out.code \o next.code, n |-> next.n],
             [code |-> <<>>, n |-> 1], fs).code
=============================================================================
