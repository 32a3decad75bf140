------------------------------ MODULE ScanRules -------------------------------
(* The rules of optimization level 2 that look ahead over any number of        *)
(* elements (ASMText::level2OptimFuncs, defined in                             *)
(* src/cmoc/src/ASMText2.cpp), some with the simulator of Pseudo6809.  Like    *)
(* the rules of PeepholeRules, a rule is the rewritten list or NoMatch.        *)
EXTENDS Pseudo6809

IsInstrOrComment(e) == e.type \in {"INSTR", "COMMENT"}
BranchesAway(e) == e.op \in {"BSR", "LBSR", "JSR"}
IsPushPull(e) == e.op \in {"PSHS", "PULS"}
MovesStack(e) == IsPushPull(e) \/ e.op = "LEAS" \/ MentionsS(e.arg)

-----------------------------------------------------------------------------
(* Cleared registers.                                                        *)

\* CLRs of the register that CLRA or CLRB cleared, up to what writes it.
StripExtraClrA_B(code, i) ==
    LET r == IF code[i].op = "CLRA" THEN "A" ELSE "B"
        and(k) == Is(code, k, "AND" \o r, Inc("S"))
        end == FirstFrom(code, i + 1,
                   LAMBDA k : \/ ~ IsInstrOrComment(code[k])
                              \/ /\ code[k].type = "INSTR"
                                 /\ ~ IsInstr(code, k, "CLR" \o r) /\ ~ and(k)
                                 /\ IsBlockEnd(code[k]) \/ r \in Writes(code[k]))
        changed == {k \in (i + 1)..(end - 1) : IsInstr(code, k, "CLR" \o r) \/ and(k)}
    IN  IF IsOneOf(code, i, {"CLRA", "CLRB"}) /\ changed # {}
        THEN Edit(code, [k \in changed |-> IF and(k) THEN Ins("LEAS", Off(1, "S")) ELSE Comment])
        ELSE NoMatch

\* After CLRA, LDD #$nn loads B only.
ChangeLoadDToLoadB(code, i) ==
    LET byte(k) == IsInstr(code, k, "LDD") /\ code[k].arg.mode = "#$" /\ code[k].arg.n <= 255
        end == FirstFrom(code, i + 1,
                   LAMBDA k : \/ code[k].type # "INSTR"
                              \/ ~ byte(k) /\ (IsBlockEnd(code[k]) \/ "A" \in Writes(code[k])))
        changed == {k \in (i + 1)..(end - 1) : byte(k)}
    IN  IF IsInstr(code, i, "CLRA") /\ changed # {}
        THEN Edit(code, [k \in changed |-> Ins("LDB", code[k].arg)]) ELSE NoMatch

\* Pushed zeros that an AND or an OR pulls into a register that is zero as well.
\* Where the push is of B,A only the operation becomes a LEAS, and the rule
\* returns false all the same: [code, TRUE or FALSE].
OrAndA_B(code, i) ==
    LET start == [A |-> code[i].op = "CLRA", B |-> code[i].op = "CLRB", stack |-> <<>>,
                  end |-> NoMatch, found |-> FALSE]
        fail(st) == [st EXCEPT !.end = code]
        operation(st, k) ==
            \E r \in {"A", "B"} : /\ code[k].op \in {"AND" \o r, "OR" \o r}
                                  /\ code[k].arg = Inc("S") /\ st[r]
                                  /\ st.stack # <<>> /\ Head(st.stack).zero
        merge(st, k) ==
            LET p == Head(st.stack).at
            IN  IF code[p].arg = Regs("B,A")
                THEN [st EXCEPT !.end = ReplaceWithInstr(code, k, "LEAS", Off(1, "S"))]
                ELSE [st EXCEPT !.end = CommentOutAll(code, {p, k}), !.found = TRUE]
        push(st, k, r) == [zero |-> st[r], at |-> k]
        step(st, k) ==
            LET e == code[k]
            IN  IF st.end # NoMatch \/ e.type = "COMMENT" THEN st
                ELSE IF e.type # "INSTR" THEN fail(st)
                ELSE IF Is(code, k, "LEAS", Off(1, "S"))
                THEN IF st.stack = <<>> THEN fail(st) ELSE [st EXCEPT !.stack = Tail(@)]
                ELSE IF operation(st, k) THEN merge(st, k)
                ELSE IF e.op = "PSHS"
                THEN CASE e.arg = Regs("B,A") ->
                             [st EXCEPT !.stack = <<push(st, k, "A"), push(st, k, "B")>> \o @]
                       [] e.arg \in {Regs("A"), Regs("B")} ->
                             [st EXCEPT !.stack = <<push(st, k, e.arg.name)>> \o @]
                       [] OTHER -> fail(st)
                ELSE IF IsBlockEnd(e) \/ MovesStack(e) THEN fail(st)
                ELSE [st EXCEPT !.A = e.op = "CLRA" \/ (@ /\ "A" \notin Writes(e)),
                                !.B = e.op = "CLRB" \/ (@ /\ "B" \notin Writes(e))]
        end == ForEach(i + 1, Len(code), start, step)
    IN  IF ~ IsOneOf(code, i, {"CLRA", "CLRB"}) \/ end.end = NoMatch THEN <<code, FALSE>>
        ELSE <<end.end, end.found>>

\* LDD #$nn becomes CLRA, LDB #$nn.
LoadDToClrALoadB(code, i) ==
    IF IsInstr(code, i, "LDD") /\ code[i].arg.mode = "#$" /\ code[i].arg.n \in 0..255
    THEN InsertInstr(ReplaceWithInstr(code, i, "LDB", code[i].arg), i, "CLRA", NoArg)
    ELSE NoMatch

\* The instructions from i on, one by one while some register is known, each
\* replaced with New(simulation before it, its index).
RewriteWhileKnown(code, i, New(_, _)) ==
    LET after(s, c) == [sim |-> s, done |-> ~ s.ok \/ AllUnknown(s), code |-> c]
        next(st, k, e) ==
            after(IF e.type = "INSTR" THEN Process(st.sim, e, k, FALSE)
                  ELSE [st.sim EXCEPT !.ok = FALSE], [st.code EXCEPT ![k] = e])
        step(st, k) ==
            IF st.done \/ IsCommentLike(code[k]) THEN st
            ELSE IF code[k].type # "INSTR" \/ IsBlockEnd(code[k]) THEN [st EXCEPT !.done = TRUE]
            ELSE next(st, k, New(st.sim, k))
        unless(same, c) == IF same = c THEN NoMatch ELSE c
    IN  IF code[i].type # "INSTR" THEN NoMatch
        ELSE unless(code, ForEach(i, Len(code), [sim |-> Reset, done |-> FALSE, code |-> code], step).code)

\* A CLR of a register that holds zero already.
RemoveClr(code, i) ==
    RewriteWhileKnown(code, i,
        LAMBDA s, k : IF \E r \in {"A", "B"} : code[k].op = "CLR" \o r /\ Holds(s[r], 0)
                      THEN Comment ELSE code[k])

\* Operations on, and addresses from, registers that hold a known constant.
\* Slips: a MUL by zero goes without a zero in D; SEX goes when B is zero, what-
\* ever A is known to hold.
IncrementsIndex(arg) == arg.mode \in {",R+", ",R++"}
RemoveAndOrMulAddSub(code, i) ==
    LET imm(e, n) == IsLiteral(e.arg) /\ e.arg.n = n
        nextEnds(k) == k < Len(code) /\ code[k + 1].type = "INSTR" /\ IsBlockEnd(code[k + 1])
        nextGoesOn(k) == k < Len(code) /\ code[k + 1].type = "INSTR"
                            /\ ~ IsBlockEnd(code[k + 1]) /\ "CC" \notin Reads(code[k + 1])
        zero(s, r) == Holds(s[r], 0)
        logic(s, e, r, absorbing, neutral) ==
            IF Holds(s[r], absorbing) /\ ~ IncrementsIndex(e.arg) THEN Comment
            ELSE IF imm(e, absorbing)
            THEN IF absorbing = 0 THEN Ins("CLR" \o r, NoArg) ELSE Ins("LD" \o r, Hex(255))
            ELSE IF imm(e, neutral) THEN Comment ELSE e
        new(s, k) ==
            LET e == code[k]
            IN  CASE e.op = "ANDA" -> logic(s, e, "A", 0, 255)
                  [] e.op = "ANDB" -> logic(s, e, "B", 0, 255)
                  [] e.op = "ORA"  -> logic(s, e, "A", 255, 0)
                  [] e.op = "ORB"  -> logic(s, e, "B", 255, 0)
                  [] e.op = "MUL" /\ (zero(s, "A") \/ zero(s, "B")) -> Comment
                  [] e.op \in {"ADDA", "ADDB", "ADDD"} /\ imm(e, 0) ->
                        IF nextGoesOn(k) THEN Comment
                        ELSE IF nextEnds(k) /\ (e.op = "ADDB" \/ (e.op = "ADDD" /\ zero(s, "A")))
                        THEN Ins("TSTB", NoArg)
                        ELSE IF nextEnds(k) /\ (e.op = "ADDA" \/ (e.op = "ADDD" /\ zero(s, "B")))
                        THEN Ins("TSTA", NoArg) ELSE e
                  [] e.op = "LEAX" /\ e.arg = Acc("D") ->
                        IF zero(s, "A") /\ zero(s, "B") THEN Comment
                        ELSE IF zero(s, "A") THEN Ins("ABX", NoArg) ELSE e
                  [] e.op = "LEAX" /\ e.arg.mode \in {"n,R", ",R"} /\ e.arg.name = "X" /\ s.X.known ->
                        Ins("LDX", Dec(e.arg.n + s.X.v))
                  [] e.op = "LDD" /\ IsLiteral(e.arg) /\ e.arg.n < 256 /\ zero(s, "A") ->
                        Ins("LDB", e.arg)
                  [] e.op = "SEX" /\ zero(s, "B") /\ s.A.known -> Comment
                  [] e.op \in {"STB", "STD"} /\ e.arg = Ptr("X") /\ s.X.known -> Ins(e.op, Abs(s.X.v))
                  [] e.op \in {"LDB", "LDD"} /\ e.arg = Ptr("X") /\ s.X.known /\ s.X.v < 65280 ->
                        Ins(e.op, Abs(s.X.v))
                  [] OTHER -> e
    IN  RewriteWhileKnown(code, i, new)

-----------------------------------------------------------------------------
(* Pushes.                                                                   *)

\* A push of X, or of D that X takes over, up to the PULS X.
StripExtraPulsX(code, i) ==
    LET word == Is(code, i, "PSHS", Regs("B,A"))
        pull(k) == Is(code, k, "PULS", Regs("X"))
        end == FirstFrom(code, i + 1,
                   LAMBDA k : \/ ~ IsInstrOrComment(code[k]) \/ pull(k)
                              \/ /\ code[k].type = "INSTR"
                                 /\ \/ IsBlockEnd(code[k]) \/ "X" \in Writes(code[k])
                                    \/ word /\ "X" \in Reads(code[k])
                                    \/ BranchesAway(code[k]) \/ MovesStack(code[k]))
    IN  IF (word \/ Is(code, i, "PSHS", Regs("X"))) /\ pull(end)
        THEN CommentOut(IF word THEN ReplaceWithInstr(code, i, "TFR", Regs("D,X"))
                        ELSE CommentOut(code, i), end)
        ELSE NoMatch

StripExtraPushPullB(code, i) ==
    LET pull(k) == Is(code, k, "LDB", Inc("S"))
        end == FirstFrom(code, i + 1,
                   LAMBDA k : \/ ~ IsInstrOrComment(code[k]) \/ pull(k)
                              \/ /\ code[k].type = "INSTR"
                                 /\ \/ IsBlockEnd(code[k]) \/ "B" \in Writes(code[k])
                                    \/ MovesStack(code[k]))
    IN  IF Is(code, i, "PSHS", Regs("B")) /\ pull(end) THEN CommentOutAll(code, {i, end})
        ELSE NoMatch

\* The byte that LEAS 1,S discards is not pushed.
StripPushLeas1(code, i) ==
    LET discard(k) == Is(code, k, "LEAS", Off(1, "S"))
        end == FirstFrom(code, i + 1,
                   LAMBDA k : \/ ~ IsInstrOrComment(code[k]) \/ discard(k)
                              \/ /\ code[k].type = "INSTR"
                                 /\ \/ IsBlockEnd(code[k]) \/ code[k].op \in {"LBSR", "BSR"}
                                    \/ MovesStack(code[k]))
    IN  IF Is(code, i, "PSHS", Regs("B,A")) /\ discard(end)
        THEN CommentOut(ReplaceWithInstr(code, i, "PSHS", Regs("B")), end) ELSE NoMatch

\* The instructions that refer to the constant that k loads: those that push it
\* and those that pull it, with the number of bytes.
ConstantUse(code, sim, k) ==
    LET refs == InOrder(RefsTo(sim, k), Len(code))
        pulls == SelectSeq(refs, LAMBDA r : code[r].arg \in {Inc("S"), Inc2("S")})
    IN  [at |-> k, refs |-> refs, constants |-> ConstsOf(sim, k), pulls |-> pulls,
         pushes |-> SelectSeq(refs, LAMBDA r : code[r].op = "PSHS"),
         pulled |-> ForEach(1, Len(pulls), 0, LAMBDA sum, d : sum + code[pulls[d]].arg.n)]
IsPushedOnce(code, u) ==
    /\ Len(u.refs) >= 2 /\ u.constants = 1
    /\ Len(u.pushes) = 1 /\ BytesPushed(code[u.pushes[1]].arg) \in 1..2
PeeksAtStack(code, u) == \E d \in DOMAIN u.refs : code[u.refs[d]].arg = Ptr("S")
\* Which byte of a pushed D stays when one is pulled: that of the other pull.
KeepsA(code, u) == code[u.pulls[1] - 1].arg = Inc("S")
KeepsB(code, u) == code[u.pulls[1] + 1].arg = Inc("S")
IsPulledAgain(code, sim, u) ==
    LET pushed == BytesPushed(code[u.pushes[1]].arg)
        top == StackBefore(sim, u.pushes[1] + 1)
        same(d, t, c) == Len(top) >= d /\ Len(t) >= c /\ top[d] = t[c] /\ top[d].known
    IN  /\ Len(u.pulls) \in 1..2
        /\ \A d \in DOMAIN u.refs : u.refs[d] > u.pulls[1] => u.refs[d] \in ToSet(u.pulls)
        /\ u.pulled <= pushed
        /\ IF code[u.pushes[1]].arg = Regs("B,A")
           THEN u.pulled # pushed => KeepsA(code, u) # KeepsB(code, u)
           ELSE u.pulled = pushed
        /\ same(1, StackBefore(sim, u.pulls[1]), 1)
        /\ u.pulled = 2 /\ Len(u.pulls) = 1 => same(2, StackBefore(sim, u.pulls[1]), 2)
        /\ Len(u.pulls) = 2 => same(2, StackBefore(sim, u.pulls[2]), 1)
WithConstantOperands(code, u, top) ==
    LET push == u.pushes[1]
        halfPulled == code[push].arg = Regs("B,A") /\ u.pulled # 2
        operand(d) == IF d = 1 /\ u.pulled = 2 /\ Len(u.pulls) = 1
                      THEN 256 * top[1].v + top[2].v ELSE top[d].v
        loadIsUseless == Len(u.refs) = 1 + Len(u.pulls) /\ (u.pulled # 2 \/ code[u.at].op = "LDD")
    IN  Edit(code, [r \in ToSet(u.pulls) |->
                       Ins(code[r].op, Dec(operand(IF r = u.pulls[1] THEN 1 ELSE 2)))]
                   @@ (push :> IF ~ halfPulled THEN Comment
                               ELSE Ins("PSHS", Regs(IF KeepsA(code, u) THEN "A" ELSE "B")))
                   @@ (IF loadIsUseless THEN u.at :> Comment ELSE <<>>))

\* A constant that is pushed once and then pulled, by one or two operations,
\* becomes their immediate operand.
OptimizeStackOperations1(code, i) ==
    LET what(s, k) == IF code[k].type = "LABEL" THEN "stop"
                      ELSE IF code[k].type # "INSTR" THEN "skip"
                      ELSE IF IsBlockEnd(code[k]) THEN "stop" ELSE "run"
        decides(sim, u) == IsPushedOnce(code, u)
                             /\ (PeeksAtStack(code, u) \/ IsPulledAgain(code, sim, u))
        rewrite(sim, uses) ==
            IF uses = <<>> \/ PeeksAtStack(code, Head(uses)) THEN NoMatch
            ELSE WithConstantOperands(code, Head(uses), StackBefore(sim, Head(uses).pushes[1] + 1))
        after(run) ==
            IF run.end = "error" THEN NoMatch
            ELSE rewrite(run.sim, SelectSeq([d \in 1..(run.index - i) |->
                                                ConstantUse(code, run.sim, i + d - 1)],
                                            LAMBDA u : decides(run.sim, u)))
    IN  IF code[i].type # "INSTR" \/ IsBlockEnd(code[i]) THEN NoMatch
        ELSE after(SimulateOver(code, i, what, LAMBDA s : s.pushedConstant \/ ~ AllUnknown(s), FALSE))

\* PSHS B or D, a load of a constant, then an operation on both.
PushLoadImmediateOperate(code, i, regs, load, ops, pull) ==
    LET op == FirstFrom(code, i + 2, LAMBDA k : ~ IsCommentLike(code[k]))
    IN  IF /\ Is(code, i, "PSHS", regs)
           /\ IsImmedInstr(code, i + 1, load)
           /\ IsOneOf(code, op, ops) /\ code[op].arg = pull
        THEN CommentOutAll(WithArg(code, op, code[i + 1].arg), {i, i + 1}) ELSE NoMatch
OptimizeStackOperations2(code, i) ==
    PushLoadImmediateOperate(code, i, Regs("B"), "LDB", {"ADDB", "ORB", "ANDB"}, Inc("S"))
OptimizeStackOperations3(code, i) ==
    PushLoadImmediateOperate(code, i, Regs("B,A"), "LDD", {"ADDD"}, Inc2("S"))

\* Where ,S++ takes back the D that was pushed before k: D must not be read
\* before it is loaded again, nor may a register of kept be written.
MatchingPop(code, k, kept) ==
    LET loaded(e) == UNION {Writes(code[n]) : n \in {m \in (k + 1)..e : code[m].type = "INSTR"}}
        bad(e) == \/ IsBlockEnd(code[e]) \/ BranchesAway(code[e]) \/ IsPushPull(code[e])
                  \/ code[e].arg \in {Inc("S"), Ptr("S"), Ind(0, "S")}
                  \/ Writes(code[e]) \cap kept # {}
                  \/ Reads(code[e]) \cap ({"A", "B"} \ loaded(e - 1)) # {}
        stop(e) == ~ IsCommentLike(code[e])
                     /\ (code[e].type # "INSTR" \/ bad(e) \/ code[e].arg = Inc2("S"))
        end == FirstFrom(code, k + 1, stop)
    IN  IF end <= Len(code) /\ code[end].type = "INSTR" /\ ~ bad(end) THEN end ELSE NotFound

\* The operand of LDD replaces the ,S++ that pulls the pushed D.
OptimizeStackOperations4(code, i) ==
    LET pop == MatchingPop(code, i + 1, Reads(code[i]))
    IN  IF /\ IsInstr(code, i, "LDD")
           /\ code[i].arg # Acc("D")
           /\ ~ (code[i].arg.mode \in {",R", ",R+", ",R++", "[n,R]"} /\ code[i].arg.n = 0
                   /\ code[i].arg.name = "S")
           /\ code[i].arg.mode \notin {",R+", ",R++"}
           /\ Is(code, i + 1, "PSHS", Regs("B,A"))
           /\ pop # NotFound
        THEN CommentOutAll(WithArg(code, pop, code[i].arg), {i, i + 1}) ELSE NoMatch

\* The same for two instructions that load a constant into A and B.
OptimizeStackOperations5(code, i) ==
    LET load(s, k) == IF code[k].type = "INSTR" THEN Process(s, code[k], k, FALSE) ELSE s
        pop == MatchingPop(code, i + 2, {})
        with(s) == IF s.ok /\ s.A.known /\ s.B.known
                   THEN CommentOutAll(WithArg(code, pop, Hex(ValueIn(s, "D").v)), {i, i + 1, i + 2})
                   ELSE NoMatch
    IN  IF /\ i + 3 <= Len(code)
           /\ \A k \in {i, i + 1} : \/ IsCommentLike(code[k])
                                    \/ IsOneOf(code, k, {"CLRA", "LDA", "CLRB", "LDB"})
           /\ Is(code, i + 2, "PSHS", Regs("B,A"))
           /\ pop # NotFound
        THEN with(load(load(Reset, i), i + 1)) ELSE NoMatch

\* PSHS X, maybe LDD, PSHS B,A.
MergePushXPushD(code, i) ==
    LET first == FindNextInstrBeforeLabel(code, i + 1)
        second == IF IsInstr(code, first, "LDD") THEN FindNextInstrBeforeLabel(code, first + 1)
                  ELSE first
    IN  IF Is(code, i, "PSHS", Regs("X")) /\ Is(code, second, "PSHS", Regs("B,A"))
        THEN CommentOut(WithArg(code, second, Regs("X,B,A")), i) ELSE NoMatch

-----------------------------------------------------------------------------
(* Addresses in X, and values pushed only to be pulled again.                *)

\* Whether X is loaded again before anything after k reads it; a label or a
\* branch ends the search, as if nothing read X there.
XIsDeadAfter(code, k) ==
    LET end == FirstFrom(code, k + 1,
                   LAMBDA n : /\ ~ IsCommentLike(code[n])
                              /\ \/ code[n].type # "INSTR" \/ IsBlockEnd(code[n])
                                 \/ "X" \in Reads(code[n]) \cup Writes(code[n]))
    IN  \/ end > Len(code) \/ code[end].type # "INSTR" \/ IsBlockEnd(code[end])
        \/ "X" \notin Reads(code[end])

\* LEAX D,X then a load from ,X.
OptimizeLoadDX(code, i) ==
    LET load == FindNextInstrBeforeLabel(code, i + 1)
    IN  IF /\ Is(code, i, "LEAX", Acc("D"))
           /\ IsOneOf(code, load, {"LDA", "LDB", "LDD"}) /\ code[load].arg = Ptr("X")
           /\ XIsDeadAfter(code, load)
        THEN CommentOut(WithArg(code, load, Acc("D")), i) ELSE NoMatch

\* TFR X,D; PSHS B,A.  The element after the push is not looked at.
OptimizeTfrPush(code, i) ==
    LET read == FirstFrom(code, i + 3,
                    LAMBDA n : /\ ~ IsCommentLike(code[n])
                               /\ \/ code[n].type # "INSTR" \/ IsBlockEnd(code[n])
                                  \/ Reads(code[n]) \cap {"A", "B"} # {}
                                  \/ {"A", "B"} \subseteq Writes(code[n]))
    IN  IF /\ Is(code, i, "TFR", Regs("X,D")) /\ Is(code, i + 1, "PSHS", Regs("B,A"))
           /\ \/ read > Len(code) \/ code[read].type # "INSTR" \/ IsBlockEnd(code[read])
              \/ Reads(code[read]) \cap {"A", "B"} = {}
        THEN CommentOut(ReplaceWithInstr(code, i, "PSHS", Regs("X")), i + 1) ELSE NoMatch

\* PSHS B up to the operation on B that pulls it.
RemovePushB(code, i) ==
    LET op == FirstFrom(code, i + 1,
                  LAMBDA n : \/ code[n].type # "INSTR" \/ IsBlockEnd(code[n])
                             \/ "B" \in Writes(code[n])
                             \/ code[n].op = "PSHS" \/ MentionsS(code[n].arg))
    IN  IF /\ Is(code, i, "PSHS", Regs("B"))
           /\ op <= Len(code) /\ code[op].type = "INSTR" /\ ~ IsBlockEnd(code[op])
           /\ "B" \in Writes(code[op]) /\ code[op].arg = Inc("S")
        THEN CommentOutAll(code, {i, op}) ELSE NoMatch

\* From k, over comments and labels, to the first instruction that Stop tells.
FirstInstrFrom(code, k, Stop(_)) ==
    LET end == FirstFrom(code, k,
                   LAMBDA n : /\ ~ IsCommentLike(code[n]) /\ code[n].type # "LABEL"
                              /\ code[n].type # "INSTR" \/ IsBlockEnd(code[n]) \/ Stop(n))
    IN  IF end <= Len(code) /\ code[end].type = "INSTR" /\ ~ IsBlockEnd(code[end])
        THEN end ELSE NotFound
WritesD(e) == Writes(e) \cap {"A", "B"} # {}

\* LDD, PSHS B,A and LDD ,S++, with no other write to D in between.
Remove16BitStackOperation(code, i) ==
    LET push == FirstInstrFrom(code, i + 1, LAMBDA n : WritesD(code[n])
                                                         \/ Is(code, n, "PSHS", Regs("B,A")))
        pop  == FirstInstrFrom(code, push + 1, LAMBDA n : WritesD(code[n]))
    IN  IF /\ IsInstr(code, i, "LDD")
           /\ Is(code, push, "PSHS", Regs("B,A")) /\ Is(code, pop, "LDD", Inc2("S"))
        THEN CommentOutAll(code, {push, pop}) ELSE NoMatch

\* *p++: LDX p; LEAX 1,X; STX p; LEAX -1,X; then, after at most one load of the
\* register that it uses, an operation on ,X.
OptimizePostIncrement(code, i) ==
    LET step == code[i + 1].arg.n
        use == FirstInstrFrom(code, i + 4,
                   LAMBDA n : \/ code[n].arg = Ptr("X")
                              \/ code[n].op \in {"LDA", "LDB", "LDD", "LDX", "LDU"}
                                    /\ ~ IsImmediate(code[n].arg)
                              \/ code[n].op \in {"STA", "STB", "STD", "STX", "STU"}
                              \/ "X" \in Writes(code[n]))
        loads == {n \in (i + 4)..(use - 1) :
                     code[n].type = "INSTR" /\ Writes(code[n]) \cap (Reads(code[use]) \ {"X"}) # {}}
        load == CHOOSE n \in loads : TRUE
    IN  IF /\ i + 5 < Len(code) + 1
           /\ IsInstr(code, i, "LDX") /\ code[i].arg.mode \in {"n,R", ",R"} /\ code[i].arg.name = "U"
           /\ IsInstr(code, i + 1, "LEAX") /\ code[i + 1].arg \in {Off(1, "X"), Off(2, "X")}
           /\ Is(code, i + 2, "STX", code[i].arg)
           /\ Is(code, i + 3, "LEAX", Off(- step, "X"))
           /\ use # NotFound
           /\ code[use].arg = Ptr("X")
           /\ Cardinality(loads) <= 1
        THEN Edit(code, (i + 3 :> Ins(code[use].op, IF step = 1 THEN Inc("X") ELSE Inc2("X")))
                        @@ (use :> Ins("STX", code[i].arg))
                        @@ (i + 1 :> IF loads = {} THEN Comment ELSE code[load])
                        @@ (i + 2 :> Comment)
                        @@ (IF loads = {} THEN <<>> ELSE load :> Comment))
        ELSE NoMatch
==============================================================================
