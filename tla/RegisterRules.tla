---------------------------- MODULE RegisterRules -----------------------------
(* The rules of optimization level 2 that follow a register to where it is not *)
(* needed any more (ASMText::level2OptimFuncs, defined in                      *)
(* src/cmoc/src/ASMText2.cpp), some with the simulator of Pseudo6809.  Like    *)
(* the rules of PeepholeRules, a rule is the rewritten list or NoMatch.        *)
EXTENDS Pseudo6809, WindowRules

Loads  == {"LDA", "LDB", "LDD", "LDX", "LDY", "LDU"}
Stores == {"STA", "STB", "STD", "STX", "STY", "STU"}
\* The calls of a function by its address are jumps, JSR, that the rules do not
\* all know of.
IsBsr(e) == e.op \in {"BSR", "LBSR"}
Passed(e) == IsCommentLike(e) \/ e.type = "LABEL"
EndsRun(e) == e.type # "INSTR" \/ IsBlockEnd(e)

-----------------------------------------------------------------------------
(* Loads whose value is never referred to.                                   *)

\* Nothing refers to the result before inline assembly or the end of the list:
\* a branch, a call or the end of the function keeps the operation.
RemoveUselessOps(code, i) ==
    LET leaves(e) == \/ e.arg.mode \in {"l,PCR", "[l,PCR]"} \/ e.arg = Regs("U,PC")
                     \/ e.type = "INSTR" /\ e.op \in {"LEAS", "RTS", "RTI"} \cup Calls
                           \cup ShortBranches \cup LongBranches \cup UncondBranches \cup {"JMP"}
        what(s, k) == IF leaves(code[k]) THEN "fail"
                      ELSE IF Passed(code[k]) THEN "skip"
                      ELSE IF EndsRun(code[k]) \/ "CC" \in Reads(code[k]) THEN "stop" ELSE "run"
        useless(run) == run.end \notin {"fail", "error"} /\ RefsTo(run.sim, i) = {} /\ run.count > 2
    IN  IF /\ IsOneOf(code, i, {"ADDA", "ADDB", "ADDD", "SUBA", "SUBB", "SUBD", "LDA", "LDB", "LDD"})
           /\ code[i].arg.mode \notin {",R+", ",R++"}
           /\ useless(SimulateOver(code, i, what, LAMBDA s : RefsTo(s, i) = {}, FALSE))
        THEN CommentOut(code, i) ELSE NoMatch

\* A load of a constant or an address that nothing refers to up to the end of the
\* basic block, unless that is near.
RemoveUnusedLoad(code, i) ==
    LET what(s, k) == IF Passed(code[k]) THEN "skip"
                      ELSE IF EndsRun(code[k])
                      THEN IF code[k].type = "INSTR" /\ k <= i + 2 THEN "fail" ELSE "stop"
                      ELSE IF IsBsr(code[k]) THEN "fail" ELSE "run"
        least == CASE code[i].op = "LEAX" -> 0 [] code[i].op = "LDX" -> 2 [] OTHER -> 3
        unused(run) == run.end \notin {"fail", "error"} /\ RefsTo(run.sim, i) = {} /\ run.count >= least
    IN  IF /\ i + 2 <= Len(code)
           /\ \/ IsInstr(code, i, "LEAX")
              \/ IsOneOf(code, i, Loads) /\ IsImmediate(code[i].arg)
           /\ unused(SimulateOver(code, i, what, LAMBDA s : RefsTo(s, i) = {}, TRUE))
        THEN CommentOut(code, i) ELSE NoMatch

\* The same address or word loaded into X again, before X is read.
RepeatedInX(code, i, op, Stop(_)) ==
    LET again(k) == Is(code, k, op, code[i].arg)
        end == FirstFrom(code, i + 1,
                   LAMBDA k : /\ ~ IsCommentLike(code[k])
                              /\ \/ EndsRun(code[k]) \/ Stop(k) \/ "X" \in Reads(code[k])
                                 \/ "X" \in Writes(code[k]) /\ ~ again(k))
        repeated == {k \in (i + 1)..(end - 1) : again(k)}
    IN  IF repeated = {} THEN NoMatch ELSE CommentOutAll(code, repeated)

RemoveUselessLeax(code, i) ==
    IF IsInstr(code, i, "LEAX") /\ OfFrame(code[i].arg)
    THEN RepeatedInX(code, i, "LEAX", LAMBDA k : FALSE) ELSE NoMatch

\* A store must be to an offset at least two bytes away; one to a global variable
\* counts as offset 0.
HasOffset(arg) == arg.mode \in {"n,R", "r,X", "l,PCR"}
RemoveUselessLdx(code, i) ==
    LET arg == code[i].arg
        mayChange(k) == /\ code[k].op \in Stores
                        /\ \/ ~ (HasOffset(arg) /\ HasOffset(code[k].arg))
                           \/ arg.n - code[k].arg.n \in -1..1
    IN  IF IsOneOf(code, i, {"LDX", "STX"}) /\ OfFrame(arg)
        THEN RepeatedInX(code, i, "LDX", mayChange) ELSE NoMatch

\* LDX again although only A and B were loaded or stored in between.  A store to
\* the variable itself is not looked for.
RemoveRepeatedLDX(code, i) ==
    LET again(k) == Is(code, k, "LDX", code[i].arg)
        accepted(e) == /\ e.op \in {"LDA", "LDB", "CLRA", "CLRB", "STA", "STB", "LDD", "STD"}
                       /\ ~ (e.arg.mode \in {",R+", ",R++"} /\ e.arg.name = "X")
        end == FirstFrom(code, i + 1,
                   LAMBDA k : code[k].type # "COMMENT"
                                /\ (code[k].type # "INSTR" \/ again(k) \/ ~ accepted(code[k])))
    IN  IF IsInstr(code, i, "LDX") /\ again(end) THEN CommentOut(code, end) ELSE NoMatch

\* CLRB, then B is loaded before it is read.
RemoveUselessClrb(code, i) ==
    LET end == FirstFrom(code, i + 1,
                   LAMBDA k : /\ ~ IsCommentLike(code[k])
                              /\ \/ EndsRun(code[k]) \/ code[k].op \in Calls
                                 \/ "B" \in Reads(code[k]) \cup Writes(code[k]))
    IN  IF /\ IsInstr(code, i, "CLRB")
           /\ end > Len(code) \/ ~ (EndsRun(code[end]) \/ code[end].op \in Calls
                                      \/ "B" \in Reads(code[end]))
        THEN CommentOut(code, i) ELSE NoMatch

\* LDB #, LDX # for a call: of two to the same register the first goes.
RemoveUselessGCCCallLoads(code, i) ==
    LET constant(k) == IsOneOf(code, k, {"LDB", "LDX"}) /\ IsImmediate(code[k].arg)
        end == FirstFrom(code, i, LAMBDA k : code[k].type # "COMMENT" /\ ~ constant(k))
        loads(op) == {k \in i..(end - 1) : IsInstr(code, k, op)}
        first(op) == IF Cardinality(loads(op)) < 2 THEN {}
                     ELSE {CHOOSE k \in loads(op) : \A l \in loads(op) : k <= l}
        useless == first("LDB") \cup first("LDX")
    IN  IF i <= Len(code) /\ code[i].type = "INSTR" /\ useless # {} THEN CommentOutAll(code, useless)
        ELSE NoMatch

\* A constant that is saved for a call and loaded again.
AvoidSavingConstantRegisterPassedParameter(code, i) ==
    LET store == FindNextInstrBeforeLabel(code, i + 1)
        reload == FirstFrom(code, store + 1,
                      LAMBDA k : /\ code[k].type # "COMMENT"
                                 /\ \/ code[k].type # "INSTR" \/ code[k].op \in DataDirectives
                                    \/ Is(code, k, code[i].op, code[store].arg))
    IN  IF /\ IsOneOf(code, i, {"LDB", "LDX"}) /\ IsImmediate(code[i].arg)
           /\ IsOneOf(code, store, {"STB", "STX"}) /\ IsParameterSave(code[store])
           /\ reload <= Len(code) /\ Is(code, reload, code[i].op, code[store].arg)
        THEN CommentOutAll(WithArg(code, reload, code[i].arg), {i, store}) ELSE NoMatch
-----------------------------------------------------------------------------
(* Loads replaced by the operand of what uses them.                          *)

\* LD n,U, a push of it and an operation that pulls it, in a simulation where
\* nothing else refers to the load: the indices <<push, operation>>, or <<>>.
PushAndPullOf(code, i) ==
    LET refs(s) == RefsTo(s, i)
        what(s, k) == LET e == code[k]
                      IN  IF e.type = "LABEL" THEN "fail"
                          ELSE IF IsCommentLike(e) THEN "skip"
                          ELSE IF EndsRun(e) THEN "stop"
                          ELSE IF (e.op \in Stores /\ Cardinality(refs(s)) < 2) \/ IsBsr(e)
                          THEN "fail" ELSE "run"
        pair(rs) == IF Len(rs) = 2 /\ code[rs[1]].op = "PSHS" THEN rs ELSE <<>>
        after(run) == IF run.end \in {"fail", "error"} THEN <<>>
                      ELSE pair(InOrder(refs(run.sim), Len(code)))
    IN  IF IsOneOf(code, i, Loads) /\ OfFrame(code[i].arg) /\ ~ IsIndirect(code[i].arg)
        THEN after(SimulateOver(code, i, what, LAMBDA s : Cardinality(refs(s)) < 3, FALSE))
        ELSE <<>>

\* LDD n,U or LDX n,U; PSHS; an operation on ,S++.
Optimize16BitStackOps1(code, i) ==
    LET writesD(push) == \E k \in (i + 1)..(push - 1) :
                            code[k].type = "INSTR" /\ Writes(code[k]) \cap {"A", "B"} # {}
        with(refs) ==
            IF /\ refs # <<>>
               /\ <<code[i].op, code[refs[1]].arg>>
                     \in {<<"LDX", Regs("X")>>, <<"LDD", Regs("B,A")>>}
               /\ code[refs[2]].arg = Inc2("S")
               /\ code[i].op = "LDD" => ~ writesD(refs[1])
            THEN CommentOutAll(WithArg(code, refs[2], code[i].arg), {i, refs[1]}) ELSE NoMatch
    IN  with(PushAndPullOf(code, i))

\* The same for a byte and ,S+; LEAS 1,S may drop the high byte of a pushed D.
Optimize8BitStackOps(code, i) ==
    LET word(push) == code[push].arg = Regs("B,A")
        lowByte(push) == code[i].op = "LDD" /\ code[push].arg \in {Regs("B,A"), Regs("B")}
        offset == IF code[i].arg.mode = "n,R" THEN code[i].arg.n ELSE 0
        arg(push) == IF lowByte(push) THEN Off(offset + 1, "U") ELSE code[i].arg
        with(push, op) ==
            IF /\ code[push].arg \in {Regs("A"), Regs("B"), Regs("B,A")}
               /\ code[op].arg = Inc("S")
               /\ word(push) => Is(code, op - 1, "LEAS", Off(1, "S"))
               /\ lowByte(push) => offset < 0
            THEN CommentOutAll(WithArg(code, op, arg(push)),
                               {i, push} \cup (IF word(push) THEN {op - 1} ELSE {}))
            ELSE NoMatch
        unlessNone(refs) == IF refs = <<>> THEN NoMatch ELSE with(refs[1], refs[2])
    IN  unlessNone(PushAndPullOf(code, i))

\* LDD; PSHS B,A; what does not use D; LDD; ADDD, SUBD or CMPD ,S++.
Optimize16BitStackOps2(code, i) ==
    LET blocks(e) == \/ e.type # "INSTR" \/ e.op = "LDD"
                     \/ (Reads(e) \cup Writes(e)) \cap {"A", "B"} # {}
                     \/ e.op \in Stores \/ MentionsS(e.arg)
        ldd == FirstFrom(code, i + 2, LAMBDA k : ~ Passed(code[k]) /\ blocks(code[k]))
    IN  IF /\ i + 4 <= Len(code)
           /\ IsInstr(code, i, "LDD") /\ ~ MentionsS(code[i].arg)
           /\ code[i].arg.mode \notin {"l,PCR", "[l,PCR]", "r,X", "[r,X]"} /\ code[i].arg.name # "X"
           /\ Is(code, i + 1, "PSHS", Regs("B,A"))
           /\ IsInstr(code, ldd, "LDD") /\ ~ MentionsS(code[ldd].arg) /\ code[ldd].arg \notin {Acc("D"), IndAcc("D")}
           /\ IsOneOf(code, ldd + 1, {"ADDD", "SUBD", "CMPD"}) /\ code[ldd + 1].arg = Inc2("S")
        THEN CommentOutAll(WithArg(code, ldd + 1, code[i].arg), {i, i + 1}) ELSE NoMatch

\* LDD, TFR D,X becomes LDX.  What the next instruction reads is not looked at,
\* only what the LDD itself does.
RemoveTfrDX(code, i) ==
    LET next == FirstFrom(code, i + 2, LAMBDA k : ~ IsCommentLike(code[k]))
    IN  IF /\ IsInstr(code, i, "LDD") /\ Is(code, i + 1, "TFR", Regs("D,X"))
           /\ next <= Len(code) /\ ~ EndsRun(code[next]) /\ ~ IsBsr(code[next])
           /\ Reads(code[i]) \cap {"A", "B"} = {}
        THEN CommentOut(ReplaceWithInstr(code, i, "LDX", code[i].arg), i + 1) ELSE NoMatch

\* Whether X is written after k before it is read; the end of the basic block is
\* taken for a write, a call for a read.
XIsDead(code, k, overLabels, overBlockEnds) ==
    LET end == FirstFrom(code, k + 1,
                   LAMBDA n : /\ ~ IsCommentLike(code[n]) /\ ~ (overLabels /\ code[n].type = "LABEL")
                              /\ \/ code[n].type # "INSTR" \/ code[n].op \in Calls
                                 \/ IsBlockEnd(code[n]) /\ ~ overBlockEnds
                                 \/ "X" \in Reads(code[n]) \cup Writes(code[n]))
    IN  end <= Len(code) =>
            /\ code[end].type = "INSTR" /\ code[end].op \notin Calls
            /\ "X" \notin Reads(code[end])

\* LDX n,U then LD ,X: the load is indirect.  LEAX n,U then LD ,X: it is direct.
\* When the instruction after reads and writes X, the second takes X for dead.
LoadThroughX(code, i, load, arg, NextUse(_)) ==
    LET what(s, k) == LET e == code[k]
                      IN  IF Passed(e) THEN "skip"
                          ELSE IF e.type # "INSTR" THEN IF load = "LDX" THEN "stop" ELSE "fail"
                          ELSE IF IsBlockEnd(e) THEN "stop"
                          ELSE IF k >= i + 2 /\ NextUse(e) # "none" THEN NextUse(e)
                          ELSE IF IsBsr(e) \/ (load = "LEAX" /\ e.op = "JSR") THEN "fail" ELSE "run"
        onlyUse(run) == run.end \notin {"fail", "error"} /\ Cardinality(RefsTo(run.sim, i)) = 1
    IN  IF /\ i + 2 <= Len(code)
           /\ IsInstr(code, i, load) /\ OfFrame(code[i].arg)
           /\ IsOneOf(code, i + 1, Loads) /\ code[i + 1].arg = Ptr("X")
           /\ onlyUse(SimulateOver(code, i, what, LAMBDA s : Cardinality(RefsTo(s, i)) < 2, FALSE))
        THEN CommentOut(WithArg(code, i + 1, arg), i) ELSE NoMatch
OptimizeIndexedX(code, i) ==
    IF IsIndirect(code[i].arg) THEN NoMatch
    ELSE LoadThroughX(code, i, "LDX", Indirect(code[i].arg),
             LAMBDA e : IF "X" \in Reads(e) THEN "fail"
                        ELSE IF "X" \in Writes(e) THEN "stop" ELSE "none")
OptimizeIndexedX2(code, i) ==
    LoadThroughX(code, i, "LEAX", code[i].arg,
        LAMBDA e : IF "X" \in Writes(e) THEN "stop"
                   ELSE IF "X" \in Reads(e) THEN "fail" ELSE "none")

\* LEAX n,X then LDD m,X.
NumberFromX(arg) == arg.mode \in {"n,R", ",R"} /\ arg.name = "X"
PlainFromX(arg) == arg.name = "X" /\ (arg.mode = ",R" \/ (arg.mode = "n,R" /\ arg.n >= 0))
OptimizeLeaxLdd(code, i) ==
    IF /\ IsInstr(code, i, "LEAX") /\ NumberFromX(code[i].arg)
       /\ IsInstr(code, i + 1, "LDD") /\ PlainFromX(code[i + 1].arg)
       /\ XIsDead(code, i + 1, FALSE, FALSE)
    THEN CommentOut(WithArg(code, i + 1, Off((code[i].arg.n + code[i + 1].arg.n) % 65536, "X")), i)
    ELSE NoMatch

\* The first instruction that reads X, with the operand of the LDX or the LEAX
\* in place of ,X.  Stores in between, or pushes when the operand is of the
\* stack, are not looked for.
UseOfX(code, i) ==
    LET use == FirstFrom(code, i + 1,
                   LAMBDA k : /\ ~ IsCommentLike(code[k])
                              /\ \/ EndsRun(code[k]) \/ code[k].op \in Calls \/ "X" \in Reads(code[k])
                                 \/ Writes(code[k]) \cap {"X", "U"} # {})
    IN  IF /\ use <= Len(code) /\ ~ EndsRun(code[use]) /\ code[use].op \notin Calls
           /\ "X" \in Reads(code[use]) /\ code[use].arg = Ptr("X")
           /\ "X" \in Writes(code[use]) \/ XIsDead(code, use, TRUE, FALSE)
        THEN use ELSE NotFound
OptimizeLdx(code, i) ==
    LET use == UseOfX(code, i)
    IN  IF /\ IsInstr(code, i, "LDX") /\ code[i].arg.mode \in {"n,R", ",R", "l,PCR"}
           /\ use # NotFound /\ code[use].op \notin {"LEAX", "LEAY", "LEAU", "LEAS"}
        THEN CommentOut(WithArg(code, use, Indirect(code[i].arg)), i) ELSE NoMatch
OptimizeLeax(code, i) ==
    LET use == UseOfX(code, i)
    IN  IF /\ IsInstr(code, i, "LEAX") /\ code[i].arg.mode \in {"n,R", ",R", "l,PCR"}
           /\ use # NotFound
        THEN CommentOut(WithArg(code, use, code[i].arg), i) ELSE NoMatch

\* TFR D,X whose X is dead (only under the GCC convention does a function return
\* X); LDX, TFR X,D becomes LDD: the search for a use of X starts one element
\* late, and no branch stops it.
RemoveUselessTfr1(code, i) ==
    IF Is(code, i, "TFR", Regs("D,X")) /\ XIsDead(code, i, FALSE, FALSE) THEN CommentOut(code, i)
    ELSE NoMatch
RemoveUselessTfr2(code, i) ==
    IF IsInstr(code, i, "LDX") /\ Is(code, i + 1, "TFR", Regs("X,D")) /\ XIsDead(code, i + 2, FALSE, TRUE)
    THEN CommentOut(ReplaceWithInstr(code, i, "LDD", code[i].arg), i + 1) ELSE NoMatch
-----------------------------------------------------------------------------
(* Pushes.                                                                   *)

\* Two words pushed: the first through X, which nothing may read before it is
\* written.  Neither the second load nor a branch is looked at.
TransformPshsDPshsD(code, i) ==
    LET end == FirstFrom(code, i + 4,
                   LAMBDA k : /\ code[k].type # "COMMENT"
                              /\ \/ code[k].type # "INSTR"
                                 \/ "X" \in Reads(code[k]) \cup Writes(code[k]))
    IN  IF /\ i + 4 <= Len(code)
           /\ IsInstr(code, i, "LDD") /\ Is(code, i + 1, "PSHS", Regs("B,A"))
           /\ IsInstr(code, i + 2, "LDD") /\ Is(code, i + 3, "PSHS", Regs("B,A"))
           /\ ~ (code[i + 2].arg.mode \in {"r,X", "[r,X]"} /\ code[i + 2].arg.name \in {"B", "D"})
           /\ end <= Len(code) => code[end].type = "INSTR" /\ "X" \notin Reads(code[end])
        THEN Edit(code, (i :> Ins("LDX", code[i].arg)) @@ (i + 1 :> Ins("PSHS", Regs("X"))))
        ELSE NoMatch

\* LDY, PSHS Y, LDX, PSHS X, LDD, PSHS B,A: one push at the end.  Each register
\* may be loaded and not pushed; D may be loaded by two instructions.
OptimizePshsOps(code, i) ==
    LET loads(k, ops) == IsOneOf(code, k, ops)
        plain(k, ops) == loads(k, ops) /\ ~ MentionsS(code[k].arg)
        pushed(k, r) == Is(code, k, "PSHS", Regs(r))
        byteOrWord == {"CLRA", "CLRB", "LDA", "LDB", "LDD"}
        y == loads(i, {"LDY", "LEAY"}) /\ pushed(i + 1, "Y")
        atX == IF y THEN i + 2 ELSE IF loads(i, {"LDY", "LEAY"}) THEN i + 1 ELSE i
        x == plain(atX, {"LDX", "LEAX"}) /\ pushed(atX + 1, "X")
        atD == IF x THEN atX + 2 ELSE IF plain(atX, {"LDX", "LEAX"}) THEN atX + 1 ELSE atX
        both == plain(atD, byteOrWord) /\ plain(atD + 1, byteOrWord)
        pushD == IF both THEN atD + 2 ELSE atD + 1
        d == plain(atD, byteOrWord) /\ pushed(pushD, "B,A")
        another == /\ plain(atD, byteOrWord) /\ ~ both /\ atD + 1 <= Len(code)
                   /\ code[atD + 1].type = "INSTR" /\ code[atD + 1].op # "PSHS"
        pushes == (IF y THEN {i + 1} ELSE {}) \cup (IF x THEN {atX + 1} ELSE {})
                  \cup (IF d THEN {pushD} ELSE {})
        last == CHOOSE k \in pushes : \A l \in pushes : l <= k
        list == CASE y /\ x /\ d -> "Y,X,B,A" [] y /\ x -> "Y,X" [] OTHER -> "X,B,A"
    IN  IF /\ IsYRegisterAllowed /\ i <= Len(code) /\ code[i].type = "INSTR"
           /\ y => x
           /\ ~ another /\ Cardinality(pushes) >= 2
        THEN CommentOutAll(WithArg(code, last, Regs(list)), pushes \ {last}) ELSE NoMatch

\* Two addresses pushed: the first through Y, which stays so even where no push
\* is then saved.  <<the rewritten list, whether the rule says that it changed>>.
TransformPshsXPshsX(code, i) ==
    LET first == Edit(code, (i :> Ins(IF code[i].op = "LDX" THEN "LDY" ELSE "LEAY", code[i].arg))
                            @@ (i + 1 :> Ins("PSHS", Regs("Y"))))
        pushes == OptimizePshsOps(first, i)
        ofX(arg) == arg.mode \in {"r,X", "[r,X]"} \/ arg.name = "X"
    IN  IF /\ IsYRegisterAllowed /\ i + 6 <= Len(code)
           /\ IsOneOf(code, i, {"LDX", "LEAX"}) /\ Is(code, i + 1, "PSHS", Regs("X"))
           /\ IsOneOf(code, i + 2, {"LDX", "LEAX"}) /\ Is(code, i + 3, "PSHS", Regs("X"))
           /\ ~ ofX(code[i + 2].arg)
           /\ ~ Is(code, i + 5, "PSHS", Regs("X"))
        THEN IF pushes = NoMatch THEN <<first, FALSE>> ELSE <<pushes, TRUE>>
        ELSE <<code, FALSE>>

-----------------------------------------------------------------------------
\* TFR X,D; ADDD #n; what leaves D and X alone; TFR X,D; ADDD #m: the last two
\* become ADDD #(m - n), and so on from there.  The element after each pair is
\* not looked at.
IsSum(code, k) == IsOneOf(code, k, {"ADDD", "SUBD"}) /\ IsImmediate(code[k].arg)
NextTfrXD(code, k) ==
    LET end == FirstFrom(code, k,
                   LAMBDA n : /\ ~ IsCommentLike(code[n])
                              /\ \/ EndsRun(code[n]) \/ code[n].op \in Calls
                                 \/ Is(code, n, "TFR", Regs("X,D"))
                                 \/ Writes(code[n]) \cap {"A", "B", "X"} # {}
                                 \/ Reads(code[n]) \cap {"A", "B"} # {})
    IN  IF Is(code, end, "TFR", Regs("X,D")) /\ IsSum(code, end + 1) THEN end ELSE NotFound
OptimizeDXAliases(code, i) ==
    LET nth[n \in 0..Len(code)] ==   \* where the n-th pair after the first is
            IF n = 0 THEN i
            ELSE IF nth[n - 1] = NotFound THEN NotFound ELSE NextTfrXD(code, nth[n - 1] + 3)
        pairs == {n \in 1..Len(code) : nth[n] # NotFound}
        difference(n) == Hex((Signed(code[nth[n] + 1]) - Signed(code[nth[n - 1] + 1])) % 65536)
        changed == [k \in {nth[n] + 1 : n \in pairs} |->
                       Ins("ADDD", difference(CHOOSE n \in pairs : nth[n] + 1 = k))]
    IN  IF /\ i + 3 <= Len(code)
           /\ Is(code, i, "TFR", Regs("X,D")) /\ IsSum(code, i + 1) /\ pairs # {}
        THEN CommentOutAll(Edit(code, changed), {nth[n] : n \in pairs}) ELSE NoMatch
==============================================================================
