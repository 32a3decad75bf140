------------------------------- MODULE Peephole -------------------------------
(* The optimization of the list of elements at level 0 or 1:                   *)
(* ASMText::peepholeOptimize() in src/cmoc/src/ASMText.cpp.  A pass comments   *)
(* out the unused labels, then applies at each instruction the first rule that *)
(* matches there; passes are made until one changes nothing.                   *)
EXTENDS PeepholeRules

CONSTANTS
    Codes,            \* the lists of elements that the emitters leave
    GeneratedLabels,  \* the labels of the form L#####
    MaxIters          \* the limit on passes, 300 in the code

\* A list of elements.
ElementTypes == {"INSTR", "LABEL", "COMMENT", "INLINE_ASM", "FUNCTION_START", "FUNCTION_END"}
IsCode(c) == c \in Seq({c[k] : k \in DOMAIN c}) /\ \A k \in DOMAIN c : c[k].type \in ElementTypes

\* The labels that some instruction names in its argument.
UsedLabels(c) == {c[k].arg.name : k \in {j \in DOMAIN c :
                      c[j].type = "INSTR" /\ c[j].arg.mode = "label"}}

\* Those of which an instruction takes the address.
AddressedLabels(c) == {c[k].arg.name : k \in {j \in DOMAIN c :
                           c[j].type = "INSTR" /\ c[j].arg.mode = "l,PCR"}}

\* Every generated label that an instruction of c branches to is in c.
Closed(c) == \A l \in UsedLabels(c) \cap GeneratedLabels :
                \E k \in DOMAIN c : c[k].type = "LABEL" /\ c[k].op = l

ASSUME MaxItersAssumption == MaxIters \in Nat \ {0}
ASSUME CodesAssumption == \A c \in Codes : IsCode(c) /\ Closed(c)

\* What the rules may still do to a list: an element has a credit that the rules
\* spend, of which an LDD keeps enough for the CLRB and CLRA it may become, and
\* a long branch one for being shortened.
Credit(e) ==
    IF e.type = "INSTR" THEN IF e.op = "LDD" THEN 5
                             ELSE IF e.op \in DOMAIN WithoutL THEN 3 ELSE 2
    ELSE IF e.type = "LABEL" THEN 1 ELSE 0
Work(c) == {u \in (DOMAIN c) \X (1..5) : u[2] <= Credit(c[u[1]])}

VARIABLES
    code,      \* ASMText::elements
    i,         \* the index of the pass in code
    numIters,  \* passes completed
    modified,  \* whether this pass has changed anything
    pc         \* "pass", "scan", "done" or "error", the exit(1) of too many passes

vars == <<code, i, numIters, modified, pc>>

-----------------------------------------------------------------------------
\* A slip: only the long branches count as uses of a label.
RemoveLabelsOfShortBranches(c) ==
    [k \in DOMAIN c |->
        IF /\ c[k].type = "LABEL"
           /\ c[k].op \in GeneratedLabels
           /\ c[k].op \notin {c[j].arg.name : j \in {n \in DOMAIN c :
                                   c[n].type = "INSTR" /\ c[n].op \in DOMAIN WithoutL}}
        THEN Comment ELSE c[k]]

RemoveUselessLabels(c) ==
    [k \in DOMAIN c |->
        IF /\ c[k].type = "LABEL"
           /\ c[k].op \in GeneratedLabels
           /\ c[k].op \notin UsedLabels(c) \cup AddressedLabels(c)
        THEN Comment ELSE c[k]]

\* level1OptimFuncs[]: what the first rule that matches makes of the code.
Otherwise(rewritten, alternative) ==
    IF rewritten # NoMatch THEN rewritten ELSE alternative

Level1(c, k) ==
    Otherwise(BranchToNextLocation(c, k), Otherwise(LddToLDB(c, k),
    Otherwise(PushLoadDiscardAdd(c, k), Otherwise(PushBLoadAdd(c, k),
    Otherwise(PushDLoadAdd(c, k), Otherwise(PushLoadDLoadX(c, k),
    Otherwise(ReplaceLDDZero(c, k), Otherwise(PushDLoadXLoadD(c, k),
    Otherwise(PushDLoadX(c, k), Otherwise(StripConsecutiveLoadsToSameReg(c, k),
    Otherwise(StoreLoad(c, k), Otherwise(CondBranchOverUncondBranch(c, k),
    Otherwise(ShortenBranch(c, k), Otherwise(LoadCmpZeroBeqOrBne(c, k),
    Otherwise(PushWordForByteComparison(c, k), Otherwise(StripConsecOppositeTFRs(c, k),
    Otherwise(StripOpToDeadReg(c, k), Otherwise(StripUselessPushPull(c, k),
        StripUselessBitwiseOp(c, k)))))))))))))))))))

\* Where the rules are tried, for the index k of the loop.
NextInstruction(c, k) ==
    LET next == FindNextInstrBeforeLabel(c, k) IN IF next # NotFound THEN next ELSE k

-----------------------------------------------------------------------------
InitFrom(c) ==
    /\ code = c
    /\ i = 1
    /\ numIters = 0
    /\ modified = FALSE
    /\ pc \in {"done", "pass"}   \* level 0, level 1

Init == \E c \in Codes : InitFrom(c)

StartPass ==
    /\ pc = "pass"
    /\ code' = RemoveUselessLabels(code)
    /\ modified' = (code' # code)
    /\ i' = 1
    /\ pc' = "scan"
    /\ UNCHANGED numIters

\* Slips of the scan: the index jumps over what a rule has rewritten, past the
\* end of the list; a pass forgets the rules applied before the last index.
ApplyRuleAndSkip ==
    /\ pc = "scan"
    /\ i <= Len(code)
    /\ \E at \in {NextInstruction(code, i)} :
       \E rewritten \in {Level1(code, at)} :
           /\ code' = IF rewritten = NoMatch THEN code ELSE rewritten
           /\ modified' = (modified \/ rewritten # NoMatch)
           /\ i' = IF rewritten = NoMatch THEN at + 1 ELSE at + 2
    /\ UNCHANGED <<numIters, pc>>

ApplyRuleAndForget ==
    /\ pc = "scan"
    /\ i <= Len(code)
    /\ \E at \in {NextInstruction(code, i)} :
       \E rewritten \in {Level1(code, at)} :
           /\ code' = IF rewritten = NoMatch THEN code ELSE rewritten
           /\ modified' = (rewritten # NoMatch)
           /\ i' = at + 1
    /\ UNCHANGED <<numIters, pc>>

ApplyRule ==
    /\ pc = "scan"
    /\ i <= Len(code)
    /\ \E at \in {NextInstruction(code, i)} :
       \E rewritten \in {Level1(code, at)} :
           /\ code' = IF rewritten = NoMatch THEN code ELSE rewritten
           /\ modified' = (modified \/ rewritten # NoMatch)
           /\ i' = at + 1
    /\ UNCHANGED <<numIters, pc>>

EndPass ==
    /\ pc = "scan"
    /\ i > Len(code)
    /\ IF modified
       THEN /\ numIters' = numIters + 1
            /\ pc' = IF numIters' < MaxIters THEN "pass" ELSE "error"
       ELSE pc' = "done" /\ UNCHANGED numIters
    /\ UNCHANGED <<code, i, modified>>

Next == StartPass \/ ApplyRule \/ EndPass

Spec == Init /\ [][Next]_vars /\ WF_vars(Next)

-----------------------------------------------------------------------------
(* Type correctness of the optimizer's state.                                *)
TypeOK ==
    /\ IsCode(code)
    /\ i \in 1..(Len(code) + 1)
    /\ numIters \in 0..MaxIters
    /\ modified \in BOOLEAN
    /\ pc \in {"pass", "scan", "done", "error"}

(* No pass removes a label that a branch still needs: a rule that moves a      *)
(* branch target, or the removal of unused labels after it, would otherwise    *)
(* leave a program that does not assemble.                                     *)
NoDanglingLabel == Closed(code)

(* What the optimizer stops at is a fixed point: no rule applies to it at any  *)
(* instruction, although the rules undo each other's patterns and the index    *)
(* jumps over the instructions that a rule inserts.                            *)
FixedPoint ==
    (pc = "done" /\ numIters + i > 1) =>
        /\ RemoveUselessLabels(code) = code
        /\ \A k \in DOMAIN code : Level1(code, k) = NoMatch

(* The passes converge: the limit of peepholeOptimize() and its fatal error    *)
(* are for bugs in a rule only.                                                *)
NeverTooManyIterations == pc # "error"

(* The ground for that: whatever a pass does to the list leaves less to do, by *)
(* a measure that also falls where a rule lengthens the list or undoes what    *)
(* another has done (a branch that was shortened becomes a long one again).    *)
LessToDo == [][code' # code => Cardinality(Work(code')) < Cardinality(Work(code))]_vars

(* The code is never rewritten for ever.                                       *)
Terminates == <>(pc = "done")
==============================================================================
