---------------------------- MODULE PeepholeLevel2 -----------------------------
(* The whole of ASMText::peepholeOptimize() (src/cmoc/src/ASMText.cpp): the    *)
(* passes of Peephole, where optimization level 2 tries the rules of           *)
(* level2OptimFuncs[] after those of level 1 at each instruction; then, at     *)
(* every level, the removal of the register saves that no call reads back and, *)
(* if asked for, of the frame pointer of each function.                        *)
EXTENDS Peephole, ScanRules, RegisterRules

VARIABLES
    level,   \* the optimization level, 0, 1 or 2
    frame    \* the index up to which frame pointers are removed, 0 while the passes go on

vars2 == <<vars, level, frame>>

-----------------------------------------------------------------------------
(* level2OptimFuncs[], the first rule that matches.  A rule may leave an edit  *)
(* behind without saying so: <<the code, whether a rule said it changed>>.     *)
BeforeOrAnd(c, k) ==
    Otherwise(FasterPointerIndexing(c, k), Otherwise(FasterPointerPushing(c, k),
    Otherwise(StripExtraClrA_B(c, k), Otherwise(StripExtraPulsX(c, k),
    Otherwise(StripExtraPushPullB(c, k), Otherwise(AndA_B0(c, k),
    Otherwise(TransformPshsDPshsD(c, k), Otherwise(ChangeLoadDToLoadB(c, k),
    Otherwise(ChangeAddDToAddB(c, k), StripPushLeas1(c, k))))))))))

AfterOrAnd(c, k) ==
    Otherwise(LoadDToClrALoadB(c, k), Otherwise(OptimizeStackOperations1(c, k),
    Otherwise(OptimizeStackOperations2(c, k), Otherwise(OptimizeStackOperations3(c, k),
    Otherwise(OptimizeStackOperations4(c, k), Otherwise(OptimizeStackOperations5(c, k),
    Otherwise(MergePushXPushD(c, k), Otherwise(RemoveClr(c, k),
    Otherwise(RemoveAndOrMulAddSub(c, k), Otherwise(ReplaceCMPWithTST(c, k),
    Otherwise(OptimizeLoadDX(c, k), Otherwise(OptimizeLoadXX(c, k),
    Otherwise(OptimizeTfrPush(c, k), Otherwise(RemovePushB(c, k),
    Otherwise(OptimizeLdbTfrClrb(c, k), Otherwise(OptimizeLoadTest(c, k),
    Otherwise(Remove16BitStackOperation(c, k), OptimizePostIncrement(c, k))))))))))))))))))

UnusedRegisters(c, k) ==
    Otherwise(RemoveUselessOps(c, k), Otherwise(Optimize16BitStackOps1(c, k),
    Otherwise(Optimize16BitStackOps2(c, k), Otherwise(Optimize8BitStackOps(c, k),
    Otherwise(RemoveTfrDX(c, k), Otherwise(RemoveUselessLeax(c, k),
    Otherwise(RemoveUselessLdx(c, k), Otherwise(RemoveUnusedLoad(c, k),
    Otherwise(OptimizeAndbTstb(c, k), Otherwise(OptimizeIndexedX(c, k),
        OptimizeIndexedX2(c, k)))))))))))

AfterPshsX(c, k) ==
    Otherwise(OptimizePshsOps(c, k), Otherwise(Optimize16BitCompares(c, k),
    Otherwise(CombineConsecutiveOps(c, k), Otherwise(RemoveConsecutivePshsPul(c, k),
    Otherwise(CoalesceConsecutiveLeax(c, k), Otherwise(OptimizeLeaxLdx(c, k),
    Otherwise(OptimizeLeaxLdd(c, k), Otherwise(OptimizeLdx(c, k),
    Otherwise(OptimizeLeax(c, k), Otherwise(RemoveUselessTfr1(c, k),
    Otherwise(RemoveUselessTfr2(c, k), Otherwise(RemoveUselessClrb(c, k),
        OptimizeDXAliases(c, k)))))))))))))

LastRules(c, k) ==
    Otherwise(RemoveLoadInComparisonWithTwoValues(c, k),
    Otherwise(RemovePCRIfRelocatabilityNotSupported(c, k),
    Otherwise(RemoveCMPZeroAfterLDIfBHI(c, k), Otherwise(ReplaceBranchToUncondBranch(c, k),
    Otherwise(LdbBranchLdbCompare(c, k), Otherwise(RemovePushBFromLdbPushLdbCmp(c, k),
    Otherwise(RemoveLDDAfterPushingD(c, k), Otherwise(ArrayIndexMul(c, k),
    Otherwise(RemoveClrAFromArrayIndexMul(c, k), Otherwise(RemoveRepeatedLDX(c, k),
    Otherwise(AvoidPushingDoubledD(c, k), Otherwise(RemovePushBPullABeforeMul(c, k),
    Otherwise(RemovePushBBeforeSubB(c, k),
    Otherwise(AvoidSavingConstantRegisterPassedParameter(c, k),
    Otherwise(RemoveUselessGCCCallLoads(c, k), Otherwise(FunctionPointerGCCCall1(c, k),
    Otherwise(FunctionPointerGCCCall2(c, k), Otherwise(RemoveConsecutiveLEASInstructions(c, k),
    Otherwise(TightenArrayElementAddressComputation(c, k), Otherwise(Mul16ByConstant(c, k),
    Otherwise(NegbToSubb(c, k), RemoveUnneededLEAS(c, k))))))))))))))))))))))

Tried(c, rewritten) == IF rewritten = NoMatch THEN <<c, FALSE>> ELSE <<rewritten, TRUE>>

Level2(c, k) ==
    LET orAnd(t) == IF t[2] THEN t ELSE OrAndA_B(t[1], k)
        middle(t) == IF t[2] THEN t
                     ELSE Tried(t[1], Otherwise(AfterOrAnd(t[1], k), UnusedRegisters(t[1], k)))
        pshsX(t) == IF t[2] THEN t ELSE TransformPshsXPshsX(t[1], k)
        rest(t) == IF t[2] THEN t ELSE Tried(t[1], Otherwise(AfterPshsX(t[1], k), LastRules(t[1], k)))
    IN  rest(pshsX(middle(orAnd(Tried(c, BeforeOrAnd(c, k))))))

-----------------------------------------------------------------------------
(* After the passes.                                                         *)

\* A save is useless when no LDB or LDX of its place, a negative displacement,
\* comes before the end of the function; of two saves to one place, only the
\* first is thought of.
RemoveUselessParameterSaves(c) ==
    LET ends(k) == {e \in k..Len(c) : c[e].type = "FUNCTION_END"}
        end(k) == CHOOSE e \in ends(k) : \A f \in ends(k) : e <= f
        isBack(k, e) == IsOneOf(c, e, {"LDB", "LDX"}) /\ c[e].arg = c[k].arg /\ c[e].arg.n < 0
        saved(k) == c[k].type = "INSTR" /\ IsParameterSave(c[k])
        started(j, k) == \A f \in j..k : c[f].type \notin {"FUNCTION_START", "FUNCTION_END"}
        standing(k) == \E j \in 1..(k - 1) :   \* an earlier save that none read back
            /\ saved(j) /\ c[j].arg = c[k].arg /\ started(j, k)
            /\ \A e \in j..k : ~ isBack(k, e)
        useless == {k \in DOMAIN c : /\ saved(k) /\ ends(k) # {} /\ started(k, end(k) - 1)
                                     /\ ~ standing(k)
                                     /\ \A e \in k..end(k) : ~ isBack(k, e)}
    IN  CommentOutAll(c, useless)

\* By how much an instruction moves S down; the shift routines pop the count
\* that follows their return address.
Popping == [shiftByteLeft |-> 1, shiftByteRightSigned |-> 1, shiftByteRightUnsigned |-> 1,
            shiftLeft |-> 2, shiftRightSigned |-> 2, shiftRightUnsigned |-> 2]

\* A slip: what is pushed in the middle of an expression is not counted.
LowersUnlessPush(e) ==
    IF e.type # "INSTR" THEN 0
    ELSE IF e.op = "LEAS" /\ EndsWith(e.arg, "S") THEN - e.arg.n ELSE 0

Lowers(e) ==
    CASE e.type # "INSTR" -> 0
      [] e.op = "LEAS" -> IF EndsWith(e.arg, "S") THEN - e.arg.n ELSE 0
      [] e.arg.mode \in {",R+", ",R++", "[,R++]"} /\ e.arg.name = "S" -> - e.arg.n
      [] e.op = "PSHS" -> BytesPushed(e.arg)
      [] e.op = "PULS" -> IF e.arg = Regs("U,PC") THEN 0 ELSE - BytesPushed(e.arg)
      [] e.op \in {"LBSR", "JSR"} /\ e.arg.mode = "label" /\ e.arg.name \in DOMAIN Popping ->
            - Popping[e.arg.name]
      [] OTHER -> 0

OfU(e) == /\ e.type = "INSTR" /\ e.op \notin {"LEAS", "PSHS", "PULS", "LBSR"}
          /\ e.arg.mode \in {"n,R", ",R", "[n,R]"} /\ e.arg.name = "U"

\* The function whose FUNCTION_START is at k: its frame is addressed from S.
RemoveFramePointer(c, k) ==
    LET entry == FirstFrom(c, k + 2, LAMBDA n : c[n].type # "COMMENT")
        body == IF IsInstr(c, entry + 2, "LEAS") THEN entry + 3 ELSE entry + 2
        locals == IF IsInstr(c, entry + 2, "LEAS") THEN - c[entry + 2].arg.n ELSE 0
        end == FirstFrom(c, body, LAMBDA n : c[n].type = "FUNCTION_END")
        within == body..(end - 1)
        last(P(_)) == LET found == {n \in within : P(n)}
                      IN  IF found = {} THEN NotFound
                          ELSE CHOOSE n \in found : \A o \in found : o <= n
        leasU == last(LAMBDA n : Is(c, n, "LEAS", Ptr("U")))
        pulsUPC == last(LAMBDA n : Is(c, n, "PULS", Regs("U,PC")))
        lowered[n \in body..end] == IF n = body THEN 0 ELSE lowered[n - 1] + Lowers(c[n - 1])
        ofS(n) == LET arg == c[n].arg
                      d == arg.n + locals + (IF arg.n > 0 THEN -2 ELSE 0) + lowered[n]
                  IN  IF IsIndirect(arg) THEN Ind(d, "S")
                      ELSE IF d = 0 THEN Ptr("S") ELSE Off(d, "S")
        back == lowered[end] + locals
    IN  IF /\ IsLabel(c, k + 1, c[k + 1].op)
           /\ Is(c, entry, "PSHS", Regs("U")) /\ Is(c, entry + 1, "LEAU", Ptr("S"))
           /\ IsInstr(c, entry + 2, "LEAS") => locals > 0 /\ EndsWith(c[entry + 2].arg, "S")
           /\ \A n \in within : c[n].type # "INLINE_ASM"
           /\ leasU # NotFound /\ pulsUPC # NotFound
        THEN Edit(c, (entry :> Comment) @@ (entry + 1 :> Comment)
                     @@ (pulsUPC :> Ins("RTS", NoArg))
                     @@ (leasU :> IF back = 0 THEN Comment ELSE Ins("LEAS", Off(back, "S")))
                     @@ [n \in {o \in within : OfU(c[o])} |-> Ins(c[n].op, ofS(n))])
        ELSE c

-----------------------------------------------------------------------------
InitFrom2(c, levels) ==
    /\ InitFrom(c)
    /\ level \in {l \in levels : (l = 0) <=> (pc = "done")}
    /\ frame = 0

Init2 == \E c \in Codes : InitFrom2(c, 0..2)

\* A slip: only the last instruction counts, so a pass with changes may end as one without.
ApplyRulesAndForget ==
    /\ pc = "scan"
    /\ i <= Len(code)
    /\ \E at \in {NextInstruction(code, i)} :
       \E one \in {Tried(code, Level1(code, at))} :
       \E two \in {IF level >= 2 THEN Level2(one[1], at) ELSE <<one[1], FALSE>>} :
           /\ code' = two[1]
           /\ modified' = (one[2] \/ two[2])
           /\ i' = at + 1
    /\ UNCHANGED <<numIters, pc, level, frame>>

\* One step of the scan: a rule of level 1, then at level 2 one of its own.
ApplyRules ==
    /\ pc = "scan"
    /\ i <= Len(code)
    /\ \E at \in {NextInstruction(code, i)} :
       \E one \in {Tried(code, Level1(code, at))} :
       \E two \in {IF level >= 2 THEN Level2(one[1], at) ELSE <<one[1], FALSE>>} :
           /\ code' = two[1]
           /\ modified' = (modified \/ one[2] \/ two[2])
           /\ i' = at + 1
    /\ UNCHANGED <<numIters, pc, level, frame>>

\* framePointerOption matters from here on: OMIT_A_LOT removes frame pointers.
RemoveSaves ==
    /\ pc = "done"
    /\ frame = 0
    /\ code' = RemoveUselessParameterSaves(code)
    /\ frame' \in {1, Len(code) + 1}
    /\ UNCHANGED <<i, numIters, modified, pc, level>>

\* The next function, if any.
NextFunction == FirstFrom(code, frame, LAMBDA n : code[n].type = "FUNCTION_START")
RemoveOneFramePointer ==
    /\ pc = "done"
    /\ frame \in 1..Len(code)
    /\ code' = IF NextFunction <= Len(code) THEN RemoveFramePointer(code, NextFunction) ELSE code
    /\ frame' = NextFunction + 1
    /\ UNCHANGED <<i, numIters, modified, pc, level>>

PassStep == (StartPass \/ EndPass) /\ UNCHANGED <<level, frame>>
Next2 == PassStep \/ ApplyRules \/ RemoveSaves \/ RemoveOneFramePointer

Optimized == pc = "done" /\ frame > Len(code)

-----------------------------------------------------------------------------
(* Where level 2 stops too, no rule of either level applies any more: the      *)
(* rules that push through X and Y, and those that edit without saying so,     *)
(* would otherwise leave work for a second run of the optimizer.               *)
FixedPoint2 ==
    (pc = "done" /\ frame = 0 /\ level = 2) =>
        \A k \in DOMAIN code :
            /\ Level1(code, NextInstruction(code, k)) = NoMatch
            /\ ~ Level2(code, NextInstruction(code, k))[2]
==============================================================================
