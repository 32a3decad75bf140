----------------------------- MODULE WindowRules -----------------------------
(* The rules of optimization level 2 with a pattern of a few elements in a row *)
(* (ASMText::level2OptimFuncs, defined in src/cmoc/src/ASMText2.cpp).  Like    *)
(* the rules of PeepholeRules, a rule is the rewritten list or NoMatch.        *)
EXTENDS PeepholeRules

\* An argument with ,U in it; the number that an argument starts with.
OfFrame(arg) == Mentions(arg, "U")
LeadingNumber(arg) == IF arg.mode = "n,R" THEN arg.n ELSE 0
EndsWith(arg, r) == arg.mode \in {"n,R", ",R"} /\ arg.name = r
Int16(n) == ((n + 32768) % 65536) - 32768
CallOf(code, k, routine) == IsOneOf(code, k, Calls) /\ code[k].arg = Target(routine)
\* The n instructions from the index on, with comments between them.
InRow(code, i, n) ==
    LET nth[k \in 1..n] == IF k = 1 THEN i
                           ELSE IF nth[k - 1] = NotFound THEN NotFound
                           ELSE FindNextInstrBeforeLabel(code, nth[k - 1] + 1)
    IN  nth

\* LDD; TFR D,X; LDD; LEAX D,X.
FasterPointerIndexing(code, i) ==
    IF /\ IsInstr(code, i, "LDD") /\ Is(code, i + 1, "TFR", Regs("D,X"))
       /\ IsInstr(code, i + 2, "LDD") /\ Is(code, i + 3, "LEAX", Acc("D"))
    THEN CommentOut(ReplaceWithInstr(code, i, "LDX", code[i].arg), i + 1) ELSE NoMatch

\* LEAX n,U; TFR X,D; ADDD #m; PSHS B,A.
FasterPointerPushing(code, i) ==
    IF /\ IsInstr(code, i, "LEAX") /\ OfFrame(code[i].arg)
       /\ Is(code, i + 1, "TFR", Regs("X,D"))
       /\ IsImmedInstr(code, i + 2, "ADDD") /\ Is(code, i + 3, "PSHS", Regs("B,A"))
    THEN Edit(code, (i :> Ins("LEAX", Off(Int16(LeadingNumber(code[i].arg) + ImmedArg(code[i + 2].arg)), "U")))
                    @@ (i + 1 :> Ins("PSHS", Regs("X")))
                    @@ (i + 2 :> Comment) @@ (i + 3 :> Comment))
    ELSE NoMatch

AndA_B0(code, i) ==
    IF IsOneOf(code, i, {"ANDA", "ANDB"}) /\ code[i].arg = Hex(0)
    THEN ReplaceWithInstr(code, i, IF code[i].op = "ANDA" THEN "CLRA" ELSE "CLRB", NoArg)
    ELSE NoMatch

\* The high byte of the sum is cleared.
ChangeAddDToAddB(code, i) ==
    IF /\ IsInstr(code, i, "ADDD") /\ code[i].arg.mode = "#$" /\ IsInstr(code, i + 1, "CLRA")
    THEN ReplaceWithInstr(code, i, "ADDB", Hex(code[i].arg.n % 256)) ELSE NoMatch

ReplaceCMPWithTST(code, i) ==
    IF /\ IsOneOf(code, i, {"CMPA", "CMPB"}) /\ code[i].arg \in {Dec(0), Hex(0)}
       /\ IsOneOf(code, FindNextInstrBeforeLabel(code, i + 1), {"BEQ", "BNE", "LBEQ", "LBNE"})
    THEN ReplaceWithInstr(code, i, IF code[i].op = "CMPA" THEN "TSTA" ELSE "TSTB", NoArg)
    ELSE NoMatch

OptimizeLoadXX(code, i) ==
    LET load == FindNextInstrBeforeLabel(code, i + 1)
    IN  IF Is(code, i, "LEAX", Acc("D")) /\ Is(code, load, "LDX", Ptr("X"))
        THEN CommentOut(WithArg(code, load, Acc("D")), i) ELSE NoMatch

\* LDB, TFR B,A and CLRB, maybe with labels in between: B is loaded into A.
OptimizeLdbTfrClrb(code, i) ==
    LET tfr == FindNextInstr(code, i + 1)
    IN  IF /\ IsInstr(code, i, "LDB") /\ Is(code, tfr, "TFR", Regs("B,A"))
           /\ Is(code, FindNextInstr(code, tfr + 1), "CLRB", NoArg)
        THEN CommentOut(ReplaceWithInstr(code, i, "LDA", code[i].arg), tfr) ELSE NoMatch

\* LDB has set the flags already.
OptimizeLoadTest(code, i) ==
    LET test == FindNextInstrBeforeLabel(code, i + 1)
    IN  IF IsInstr(code, i, "LDB") /\ Is(code, test, "TSTB", NoArg) THEN CommentOut(code, test)
        ELSE NoMatch
-----------------------------------------------------------------------------
(* Comparisons and branches.                                                 *)
OptimizeAndbTstb(code, i) ==
    IF IsInstr(code, i, "ANDB") /\ IsInstr(code, i + 1, "TSTB") THEN CommentOut(code, i + 1)
    ELSE NoMatch

\* PSHS B,A; LDD n,U; CMPD ,S++; a branch: the operands change sides.
WithOperandsInverted ==
    LET sides == [EQ |-> "EQ", NE |-> "NE", GE |-> "LE", LE |-> "GE", GT |-> "LT", LT |-> "GT",
                  HI |-> "LO", LO |-> "HI", HS |-> "LS", LS |-> "HS"]
        branch(l, c) == l \o c
    IN  [op \in {branch(l, c) : l \in {"B", "LB"}, c \in DOMAIN sides} |->
            LET p == CHOOSE p \in {"B", "LB"} \X DOMAIN sides : branch(p[1], p[2]) = op
            IN  branch(p[1], sides[p[2]])]
\* A slip: the branch that follows keeps its condition.
Optimize16BitComparesKeepingSides(code, i) ==
    IF /\ i + 4 <= Len(code)
       /\ Is(code, i, "PSHS", Regs("B,A"))
       /\ IsInstr(code, i + 1, "LDD") /\ EndsWith(code[i + 1].arg, "U")
       /\ Is(code, i + 2, "CMPD", Inc2("S"))
       /\ IsOneOf(code, i + 3, DOMAIN WithOperandsInverted)
    THEN CommentOutAll(WithArg(code, i + 2, code[i + 1].arg), {i, i + 1})
    ELSE NoMatch
Optimize16BitCompares(code, i) ==
    IF /\ i + 4 <= Len(code)
       /\ Is(code, i, "PSHS", Regs("B,A"))
       /\ IsInstr(code, i + 1, "LDD") /\ EndsWith(code[i + 1].arg, "U")
       /\ Is(code, i + 2, "CMPD", Inc2("S"))
       /\ IsOneOf(code, i + 3, DOMAIN WithOperandsInverted)
    THEN Edit(code, (i :> Comment) @@ (i + 1 :> Comment)
                    @@ (i + 2 :> Ins("CMPD", code[i + 1].arg))
                    @@ (i + 3 :> Ins(WithOperandsInverted[code[i + 3].op], code[i + 3].arg)))
    ELSE NoMatch

\* LDB; CMPB; a branch; LDB of the same; CMPB.
RemoveLoadInComparisonWithTwoValues(code, i) ==
    LET at == InRow(code, i, 5)
    IN  IF /\ IsInstr(code, i, "LDB") /\ IsInstr(code, at[2], "CMPB")
           /\ IsOneOf(code, at[3], DOMAIN LongInverse)
           /\ Is(code, at[4], "LDB", code[i].arg) /\ IsInstr(code, at[5], "CMPB")
        THEN CommentOut(code, at[4]) ELSE NoMatch
LdbBranchLdbCompare(code, i) ==
    LET at == InRow(code, i, 4)
    IN  IF /\ IsInstr(code, i, "LDB") /\ IsOneOf(code, at[2], DOMAIN LongInverse)
           /\ Is(code, at[3], "LDB", code[i].arg) /\ IsInstr(code, at[4], "CMPB")
        THEN CommentOut(code, at[3]) ELSE NoMatch

\* More than zero is not zero.
RemoveCMPZeroAfterLDIfBHI(code, i) ==
    LET at == InRow(code, i, 3)
        notZero == IF IsInstr(code, at[3], "LBHI") THEN "LBNE" ELSE "BNE"
    IN  IF /\ \/ IsInstr(code, i, "LDB") /\ Is(code, at[2], "CMPB", Hex(0))
              \/ IsInstr(code, i, "LDD") /\ Is(code, at[2], "ADDD", Dec(0))
           /\ IsOneOf(code, at[3], {"BHI", "LBHI"})
        THEN CommentOut(ReplaceWithInstr(code, at[3], notZero, code[at[3]].arg), at[2])
        ELSE NoMatch

\* A branch to a branch: it becomes a long one to where that leads.  Only a
\* hundred elements around it are looked at.
ReplaceBranchToUncondBranch(code, i) ==
    LET from == IF i <= 100 THEN 1 ELSE i - 100
        here == {k \in from..(from + 200) : IsLabel(code, k, code[i].arg.name)}
        first == CHOOSE k \in here : \A l \in here : k <= l
        bra == FindNextInstrBeforeLabel(code, first + 1)
    IN  IF /\ IsOneOf(code, i, DOMAIN LongInverse \cup UncondBranches \cup {"JMP"})
           /\ here # {}
           /\ IsOneOf(code, bra, UncondBranches) /\ code[bra].arg # code[i].arg
        THEN ReplaceWithInstr(code, i, IF code[i].op \in DOMAIN WithoutL THEN code[i].op
                                       ELSE "L" \o code[i].op, code[bra].arg)
        ELSE NoMatch

-----------------------------------------------------------------------------
(* Sums.                                                                     *)
Signed(e) == IF e.op = "ADDD" THEN e.arg.n ELSE - e.arg.n
CombineConsecutiveOps(code, i) ==
    LET sum(k) == IsOneOf(code, k, {"ADDD", "SUBD"}) /\ IsLiteral(code[k].arg)
        next == FirstFrom(code, i + 2, LAMBDA k : code[k].type # "COMMENT")
    IN  IF /\ sum(i) /\ sum(i + 1)
           /\ next <= Len(code) => code[next].type = "INSTR" /\ ~ IsBlockEnd(code[next])
        THEN CommentOut(ReplaceWithInstr(code, i + 1, "ADDD",
                                         Hex((Signed(code[i]) + Signed(code[i + 1])) % 65536)), i)
        ELSE NoMatch

\* LEAX n,R; LEAX m,X.
CoalesceConsecutiveLeax(code, i) ==
    LET first == code[i].arg
        m == code[i + 1].arg.n
        sum == IF first.mode \in {"n,R", ",R"} THEN Off((first.n + m) % 65536, first.name)
               ELSE [first EXCEPT !.n = @ + m]
    IN  IF /\ IsInstr(code, i, "LEAX") /\ first.mode # "r,X"
           /\ IsInstr(code, i + 1, "LEAX") /\ EndsWith(code[i + 1].arg, "X")
        THEN CommentOut(WithArg(code, i, sum), i + 1) ELSE NoMatch

\* LEAX n,X; LDX m,X: "A,X" and "B,X" in the second are taken for ",X".
OptimizeLeaxLdx(code, i) ==
    IF /\ IsInstr(code, i, "LEAX") /\ EndsWith(code[i].arg, "X")
       /\ IsInstr(code, i + 1, "LDX")
       /\ EndsWith(code[i + 1].arg, "X") \/ code[i + 1].arg \in {Acc("A"), Acc("B")}
       /\ code[i + 1].arg.n >= 0
    THEN CommentOut(WithArg(code, i + 1, Off((code[i].arg.n + code[i + 1].arg.n) % 65536, "X")), i)
    ELSE NoMatch

\* LEAS n,S; LEAS m,S.
RemoveConsecutiveLEASInstructions(code, i) ==
    LET second == FindNextInstrBeforeLabel(code, i + 1)
        sum == Int16(code[i].arg.n + code[second].arg.n)
    IN  IF /\ IsInstr(code, i, "LEAS") /\ EndsWith(code[i].arg, "S")
           /\ IsInstr(code, second, "LEAS") /\ EndsWith(code[second].arg, "S")
        THEN IF sum = 0 THEN CommentOutAll(code, {i, second})
             ELSE CommentOut(WithArg(code, i, Off(sum, "S")), second)
        ELSE NoMatch
RemoveUnneededLEAS(code, i) ==
    IF /\ IsInstr(code, i, "LEAS") /\ EndsWith(code[i].arg, "S")
       /\ Is(code, FindNextInstrBeforeLabel(code, i + 1), "LEAS", Ptr("U"))
    THEN CommentOut(code, i) ELSE NoMatch

NegbToSubb(code, i) ==
    LET at == InRow(code, i, 3)
        moves(arg) == arg.mode \in {",R+", ",R++"}
    IN  IF /\ IsInstr(code, i, "LDB") /\ ~ moves(code[i].arg)
           /\ Is(code, at[2], "NEGB", NoArg)
           /\ IsInstr(code, at[3], "ADDB") /\ ~ moves(code[at[3]].arg)
        THEN Edit(code, (i :> Ins("LDB", code[at[3]].arg)) @@ (at[2] :> Comment)
                        @@ (at[3] :> Ins("SUBB", code[i].arg)))
        ELSE NoMatch
-----------------------------------------------------------------------------
(* Pushes.                                                                   *)

\* PSHS B,A; LDD ,S++: the flags that the load sets are lost.
RemoveConsecutivePshsPul(code, i) ==
    LET next == FirstFrom(code, i + 1, LAMBDA k : code[k].type # "COMMENT")
    IN  IF Is(code, i, "PSHS", Regs("B,A")) /\ Is(code, next, "LDD", Inc2("S"))
        THEN CommentOutAll(code, {i, next}) ELSE NoMatch
RemoveLDDAfterPushingD(code, i) ==
    LET ldd == FindNextInstrBeforeLabel(code, i + 1)
    IN  IF Is(code, i, "PSHS", Regs("B,A")) /\ Is(code, ldd, "LDD", Ptr("S"))
        THEN CommentOut(code, ldd) ELSE NoMatch

RemovePushBFromLdbPushLdbCmp(code, i) ==
    LET at == InRow(code, i, 4)
    IN  IF /\ IsInstr(code, i, "LDB") /\ ~ MentionsS(code[i].arg)
           /\ Is(code, at[2], "PSHS", Regs("B"))
           /\ IsInstr(code, at[3], "LDB") /\ ~ MentionsS(code[at[3]].arg)
           /\ Is(code, at[4], "CMPB", Inc("S"))
        THEN CommentOutAll(WithArg(code, at[4], code[i].arg), {i, at[2]}) ELSE NoMatch

\* PSHS B,A; LDD foo; ADDD ,S; ADDD ,S++ is twice D, plus foo.
AvoidPushingDoubledD(code, i) ==
    LET at == InRow(code, i, 4)
    IN  IF /\ Is(code, i, "PSHS", Regs("B,A")) /\ IsInstr(code, at[2], "LDD")
           /\ Is(code, at[3], "ADDD", Ptr("S")) /\ Is(code, at[4], "ADDD", Inc2("S"))
        THEN Edit(code, (i :> Comment) @@ (at[2] :> Ins("LSLB", NoArg))
                        @@ (at[3] :> Ins("ROLA", NoArg)) @@ (at[4] :> Ins("ADDD", code[at[2]].arg)))
        ELSE NoMatch

\* PSHS B; maybe CLRA; LDB foo; then PULS A and MUL, or SUBB ,S+.
AfterPushB(code, i) ==
    LET next == FindNextInstrBeforeLabel(code, i + 1)
    IN  IF Is(code, next, "CLRA", NoArg) THEN FindNextInstrBeforeLabel(code, next + 1) ELSE next
RemovePushBPullABeforeMul(code, i) ==
    LET ldb == AfterPushB(code, i)
        at == InRow(code, ldb, 3)
    IN  IF /\ Is(code, i, "PSHS", Regs("B")) /\ IsInstr(code, ldb, "LDB")
           /\ Is(code, at[2], "PULS", Regs("A")) /\ Is(code, at[3], "MUL", NoArg)
        THEN CommentOutAll(ReplaceWithInstr(code, ldb, "LDA", code[ldb].arg),
                           {i, at[2]} \cup {k \in i..ldb : IsInstr(code, k, "CLRA")})
        ELSE NoMatch
RemovePushBBeforeSubB(code, i) ==
    LET ldb == AfterPushB(code, i)
        sub == FindNextInstrBeforeLabel(code, ldb + 1)
    IN  IF /\ Is(code, i, "PSHS", Regs("B")) /\ IsInstr(code, ldb, "LDB")
           /\ Is(code, sub, "SUBB", Inc("S"))
        THEN Edit(code, (i :> Comment) @@ (ldb :> Ins("NEGB", NoArg))
                        @@ (sub :> Ins("ADDB", code[ldb].arg)))
        ELSE NoMatch

\* PSHS B,A; LEAX n,R; TFR X,D; ADDD ,S++; TFR D,X.
TightenArrayElementAddressComputation(code, i) ==
    LET at == InRow(code, i, 5)
    IN  IF /\ Is(code, i, "PSHS", Regs("B,A")) /\ IsInstr(code, at[2], "LEAX")
           /\ Is(code, at[3], "TFR", Regs("X,D")) /\ Is(code, at[4], "ADDD", Inc2("S"))
           /\ Is(code, at[5], "TFR", Regs("D,X"))
        THEN CommentOutAll(ReplaceWithInstr(code, at[3], "LEAX", Acc("D")), {i, at[4], at[5]})
        ELSE NoMatch

-----------------------------------------------------------------------------
(* Calls.                                                                    *)
CONSTANTS IsRelocatabilitySupported,
          IsYRegisterAllowed   \* FALSE under OS-9, where Y points to the global data

\* LEAX foo,PCR is LDX #foo; LDX foo,PCR is LDX foo.
LoadedByLea == [LEAX |-> "LDX", LEAY |-> "LDY", LEAU |-> "LDU", LEAS |-> "LDS"]
RemovePCRIfRelocatabilityNotSupported(code, i) ==
    IF ~ IsRelocatabilitySupported /\ i <= Len(code) /\ code[i].arg.mode = "l,PCR"
    THEN IF code[i].op \in DOMAIN LoadedByLea
         THEN ReplaceWithInstr(code, i, LoadedByLea[code[i].op], [code[i].arg EXCEPT !.mode = "#l"])
         ELSE IF code[i].op \in {"LDA", "LDB", "LDD", "LDX", "LDY", "LDU", "STA", "STB", "STD",
                                 "STX", "STY", "STU", "CLR"}
         THEN WithArg(code, i, [code[i].arg EXCEPT !.mode = "label"])
         ELSE NoMatch
    ELSE NoMatch

\* LDD foo; LDX #n; LBSR MUL16, for an n of one byte.
ArrayIndexMul(code, i) ==
    LET at == InRow(code, i, 3)
    IN  IF /\ IsInstr(code, i, "LDD")
           /\ IsImmedInstr(code, at[2], "LDX")
           /\ ImmedArg(code[at[2]].arg) % 65536 <= 255
           /\ CallOf(code, at[3], "MUL16")
        THEN Edit(code, (i :> Ins("LDX", code[i].arg)) @@ (at[2] :> Ins("LDB", code[at[2]].arg))
                        @@ (at[3] :> Ins(code[at[3]].op, Target("MUL168"))))
        ELSE NoMatch
RemoveClrAFromArrayIndexMul(code, i) ==
    LET at == InRow(code, i, 3)
    IN  IF Is(code, i, "CLRA", NoArg) /\ IsInstr(code, at[2], "LDB") /\ CallOf(code, at[3], "MUL16")
        THEN CommentOut(WithArg(code, at[3], Target("MUL168")), i) ELSE NoMatch
\* LDB; TFR D,X; LDB #n; LBSR MUL16: A is taken to be 0.
Mul16ByConstant(code, i) ==
    LET at == InRow(code, i, 4)
    IN  IF /\ IsInstr(code, i, "LDB") /\ Is(code, at[2], "TFR", Regs("D,X"))
           /\ IsImmedInstr(code, at[3], "LDB") /\ Is(code, at[4], "LBSR", Target("MUL16"))
        THEN Edit(code, (at[2] :> Comment) @@ (at[3] :> Ins("LDA", code[at[3]].arg))
                        @@ (at[4] :> Ins("MUL", NoArg)))
        ELSE NoMatch

\* The address of a function, put under the registers of a call on the stack.
FunctionPointerGCCCall1(code, i) ==
    LET at == InRow(code, i, 5)
    IN  IF /\ Is(code, i, "PSHS", Regs("Y,X,B"))
           /\ IsOneOf(code, at[2], {"LDX", "LDD"}) /\ EndsWith(code[at[2]].arg, "U")
           /\ IsOneOf(code, at[3], {"STX", "STD"}) /\ code[at[3]].arg = Off(3, "S")
           /\ Is(code, at[4], "PULS", Regs("B,X")) /\ Is(code, at[5], "JSR", IndInc2("S"))
        THEN CommentOutAll(WithArg(code, at[5], Indirect(code[at[2]].arg)), {i, at[2], at[3], at[4]})
        ELSE NoMatch
FunctionPointerGCCCall2(code, i) ==
    LET at == InRow(code, i, 6)
        ofY == [Indirect(code[at[3]].arg) EXCEPT !.name = "Y"]
    IN  IF /\ Is(code, i, "PSHS", Regs("Y,X,B"))
           /\ IsInstr(code, at[2], "LDX") /\ EndsWith(code[at[2]].arg, "U")
           /\ IsInstr(code, at[3], "LDD") /\ EndsWith(code[at[3]].arg, "X")
           /\ Is(code, at[4], "STD", Off(3, "S"))
           /\ Is(code, at[5], "PULS", Regs("B,X")) /\ Is(code, at[6], "JSR", IndInc2("S"))
        THEN IF IsYRegisterAllowed
             THEN CommentOutAll(Edit(code, (at[2] :> Ins("LDY", code[at[2]].arg))
                                           @@ (at[6] :> Ins("JSR", ofY))), {i, at[3], at[4], at[5]})
             ELSE Edit(code, (i :> Ins("PSHS", Regs("Y,X"))) @@ (at[3] :> Ins("LDX", code[at[3]].arg))
                             @@ (at[4] :> Ins("STX", Off(2, "S"))) @@ (at[5] :> Ins("PULS", Regs("X"))))
        ELSE NoMatch
==============================================================================
