---------------------------- MODULE PeepholeRules ----------------------------
(* The rewriting rules of optimization level 1 (ASMText::level1OptimFuncs,     *)
(* defined in src/cmoc/src/ASMText2.cpp).  A rule applied to a list of         *)
(* elements at an index is the rewritten list, or NoMatch where the pattern of *)
(* the rule does not start at the index.                                       *)
EXTENDS AsmText, FiniteSets

CONSTANT MaxShortBranchInstrs   \* the 36 of shortenBranch()

NoMatch == <<>>

\* LDA, LDB, LDD, STA, STB, STD: the register of a load or of a store.
LoadOf  == [LDA |-> "A", LDB |-> "B", LDD |-> "D"]
StoreOf == [STA |-> "A", STB |-> "B", STD |-> "D"]

BranchToNextLocation(code, i) ==
    IF /\ IsOneOf(code, i, UncondBranches)
       /\ IsLabel(code, i + 1, code[i].arg.name)
    THEN CommentOut(code, i) ELSE NoMatch

\* LDD #$__, then SEX or CLRA, maybe over a label.
LddToLDB(code, i) ==
    LET next == FindNextInstr(code, i + 1)
    IN  IF /\ IsInstr(code, i, "LDD")
           /\ code[i].arg.mode = "#$"
           /\ Is(code, next, "SEX", NoArg) \/ Is(code, next, "CLRA", NoArg)
        THEN ReplaceWithInstr(code, i, "LDB", Hex(code[i].arg.n % 256)) ELSE NoMatch

PushLoadDiscardAdd(code, i) ==
    IF /\ Is(code, i, "PSHS", Regs("B,A"))
       /\ IsImmedInstr(code, i + 1, "LDD")
       /\ Is(code, i + 2, "LEAS", Off(1, "S"))
       /\ Is(code, i + 3, "ADDB", Inc("S"))
    THEN CommentOutAll(ReplaceWithInstr(code, i, "ADDB", Hex(ImmedArg(code[i + 1].arg) % 256)),
                       {i + 1, i + 2, i + 3})
    ELSE NoMatch

PushBLoadAdd(code, i) ==
    IF /\ Is(code, i, "PSHS", Regs("B"))
       /\ IsVarInstr(code, i + 1, "LDB")
       /\ Is(code, i + 2, "ADDB", Inc("S"))
    THEN CommentOutAll(ReplaceWithInstr(code, i, "ADDB", code[i + 1].arg), {i + 1, i + 2})
    ELSE NoMatch

\* A slip: the push stays although the addition does not pull.
PushDLoadAddKeepsPush(code, i) ==
    LET ldd  == FindNextInstrBeforeLabel(code, i + 1)
        addd == FindNextInstrBeforeLabel(code, ldd + 1)
    IN  IF /\ Is(code, i, "PSHS", Regs("B,A"))
           /\ IsInstr(code, ldd, "LDD")
           /\ code[ldd].arg # Ptr("S")
           /\ Is(code, addd, "ADDD", Inc2("S"))
        THEN CommentOut(ReplaceWithInstr(code, addd, "ADDD", code[ldd].arg), ldd)
        ELSE NoMatch

PushDLoadAdd(code, i) ==
    LET ldd  == FindNextInstrBeforeLabel(code, i + 1)
        addd == FindNextInstrBeforeLabel(code, ldd + 1)
    IN  IF /\ Is(code, i, "PSHS", Regs("B,A"))
           /\ IsInstr(code, ldd, "LDD")
           /\ code[ldd].arg # Ptr("S")
           /\ Is(code, addd, "ADDD", Inc2("S"))
        THEN CommentOutAll(ReplaceWithInstr(code, addd, "ADDD", code[ldd].arg), {i, ldd})
        ELSE NoMatch

PushLoadDLoadX(code, i) ==
    IF /\ Is(code, i, "PSHS", Regs("B,A"))
       /\ IsVarInstr(code, i + 1, "LDD") \/ IsImmedInstr(code, i + 1, "LDD")
       /\ Is(code, i + 2, "LDX", Inc2("S"))
    THEN CommentOut(ReplaceWithInstr(code, i, "TFR", Regs("D,X")), i + 2)
    ELSE NoMatch

\* A slip: the CLRB comes before the LDD, which stays.
ClearBeforeLDD(code, i) ==
    IF IsInstr(code, i, "LDD") /\ code[i].arg \in {Dec(0), Hex(0)}
    THEN InsertInstr(code, i, "CLRB", NoArg) ELSE NoMatch

ReplaceLDDZero(code, i) ==
    IF IsInstr(code, i, "LDD") /\ code[i].arg \in {Dec(0), Hex(0)}
    THEN ReplaceWithInstr(InsertInstr(code, i, "CLRB", NoArg), i + 1, "CLRA", NoArg)
    ELSE NoMatch

PushDLoadXLoadD(code, i) ==
    IF /\ Is(code, i, "PSHS", Regs("B,A"))
       /\ IsVarInstr(code, i + 1, "LDX") \/ IsImmedInstr(code, i + 1, "LDX")
       /\ Is(code, i + 2, "LDD", Inc2("S"))
    THEN CommentOutAll(code, {i, i + 2}) ELSE NoMatch

\* The LBSR overwrites D.
PushDLoadX(code, i) ==
    IF /\ Is(code, i, "PSHS", Regs("B,A"))
       /\ Is(code, i + 1, "LDX", Inc2("S"))
       /\ \/ IsImmedInstr(code, i + 2, "LDB") /\ Is(code, i + 3, "LBSR", Target("MUL168"))
          \/ IsImmedInstr(code, i + 2, "LDD") /\ Is(code, i + 3, "LBSR", Target("MUL16"))
    THEN CommentOut(ReplaceWithInstr(code, i, "TFR", Regs("D,X")), i + 1)
    ELSE NoMatch

\* Of the loads, only LDB D,X and LDB B,X are known to read the register loaded.
StripConsecutiveLoadsToSameReg(code, i) ==
    LET next == FindNextInstrBeforeLabel(code, i + 1)
    IN  IF /\ i + 1 <= Len(code)
           /\ IsOneOf(code, i, DOMAIN LoadOf)
           /\ IsInstr(code, next, code[i].op)
           /\ ~ (/\ code[next].op = "LDB" /\ code[next].arg.mode \in {"r,X", "[r,X]"}
                 /\ code[next].arg.name \in {"D", "B"})
        THEN CommentOut(code, i) ELSE NoMatch

\* An absolute address may be that of a device.
StoreLoad(code, i) ==
    LET next == FindNextInstrBeforeLabel(code, i + 1)
    IN  IF /\ IsOneOf(code, i, DOMAIN StoreOf)
           /\ IsOneOf(code, next, DOMAIN LoadOf)
           /\ LoadOf[code[next].op] = StoreOf[code[i].op]
           /\ code[next].arg = code[i].arg
           /\ code[i].arg.mode # "abs"
        THEN CommentOut(code, next) ELSE NoMatch

\* A slip: the branch takes the target of the other but keeps its condition.
CondBranchNotInverted(code, i) ==
    LET uncond == FindNextInstrBeforeLabel(code, i + 1)
    IN  IF /\ IsOneOf(code, i, DOMAIN LongInverse)
           /\ IsOneOf(code, uncond, UncondBranches)
           /\ IsLabel(code, uncond + 1, code[i].arg.name)
        THEN CommentOut(ReplaceWithInstr(code, i, code[i].op, code[uncond].arg), uncond)
        ELSE NoMatch

CondBranchOverUncondBranch(code, i) ==
    LET uncond == FindNextInstrBeforeLabel(code, i + 1)
    IN  IF /\ IsOneOf(code, i, DOMAIN LongInverse)
           /\ IsOneOf(code, uncond, UncondBranches)
           /\ IsLabel(code, uncond + 1, code[i].arg.name)
        THEN CommentOut(ReplaceWithInstr(code, i, LongInverse[code[i].op], code[uncond].arg),
                        uncond)
        ELSE NoMatch

\* A slip: a branch that is short already matches as well.
ShortenShortBranch(code, i) ==
    LET target == FindLabelIndex(code, code[i].arg.name)
    IN  IF /\ IsOneOf(code, i, DOMAIN WithoutL \cup ShortBranches)
           /\ target # NotFound
           /\ Cardinality({k \in i..target : code[k].type = "INSTR"}) <= MaxShortBranchInstrs
        THEN ReplaceWithInstr(code, i, IF code[i].op \in DOMAIN WithoutL
                                       THEN WithoutL[code[i].op] ELSE code[i].op, code[i].arg)
        ELSE NoMatch

\* The branch itself counts among the instructions up to its target.
ShortenBranch(code, i) ==
    LET target == FindLabelIndex(code, code[i].arg.name)
        span == IF i <= target THEN SubSeq(code, i, target) ELSE SubSeq(code, target, i)
        instrs == {k \in DOMAIN span : span[k].type = "INSTR"}
    IN  IF /\ IsOneOf(code, i, DOMAIN WithoutL)
           /\ target # NotFound
           /\ \A k \in DOMAIN span : span[k].type \notin {"INLINE_ASM", "INCLUDE", "SEPARATOR"}
           /\ Cardinality(instrs) <= MaxShortBranchInstrs
        THEN ReplaceWithInstr(code, i, WithoutL[code[i].op], code[i].arg) ELSE NoMatch

ZeroTested == [LDB |-> "B", LDD |-> "D", STB |-> "B", STD |-> "D",
               CMPB |-> "B", CMPD |-> "D", ADDD |-> "D", TSTB |-> "B"]

\* A load or a store has set Z already; the flags C and V are lost.
LoadCmpZeroBeqOrBne(code, i) ==
    LET cmp == FindNextInstrBeforeLabel(code, i + 1)
        branch == FindNextInstrBeforeLabel(code, cmp + 1)
    IN  IF /\ IsOneOf(code, i, {"LDB", "LDD", "STB", "STD"})
           /\ IsOneOf(code, cmp, {"CMPB", "CMPD", "ADDD", "TSTB"})
           /\ ZeroTested[code[i].op] = ZeroTested[code[cmp].op]
           /\ code[cmp].op = "TSTB" \/ code[cmp].arg \in {Dec(0), Hex(0)}
           /\ IsOneOf(code, branch, {"BEQ", "BNE", "LBEQ", "LBNE"})
        THEN CommentOut(code, cmp) ELSE NoMatch

PushWordForByteComparison(code, i) ==
    IF /\ Is(code, i, "PSHS", Regs("B,A"))
       /\ IsInstr(code, i + 1, "LDB")
       /\ Is(code, i + 2, "CLRA", NoArg)
       /\ Is(code, i + 3, "LEAS", Off(1, "S"))
       /\ Is(code, i + 4, "CMPB", Inc("S"))
    THEN CommentOutAll(ReplaceWithInstr(code, i, "PSHS", Regs("B")), {i + 2, i + 3})
    ELSE NoMatch

-----------------------------------------------------------------------------
(* Registers read and written: ASMText::InsEffects.  A post-increment is not *)
(* counted as a write, nor is anything said of S.                            *)
RegsOf == [D |-> {"A", "B"}, A |-> {"A"}, B |-> {"B"}, X |-> {"X"}, U |-> {"U"},
           Y |-> {"Y"}, S |-> {}]

Reading == [TSTA |-> "A", TSTB |-> "B", BITA |-> "A", BITB |-> "B", STD |-> "D",
            STA |-> "A", STB |-> "B", STX |-> "X", STY |-> "Y", STU |-> "U", SEX |-> "B",
            CMPD |-> "D", CMPA |-> "A", CMPB |-> "B", CMPX |-> "X", MUL |-> "D"]
Writing == [LDD |-> "D", LDA |-> "A", CLRA |-> "A", LDB |-> "B", CLRB |-> "B",
            LDX |-> "X", LEAX |-> "X", LDY |-> "Y", LEAY |-> "Y", LDU |-> "U", LEAU |-> "U",
            SEX |-> "A", MUL |-> "D", ABX |-> "X"]
AccumulatorOps == {"ADD", "SUB", "INC", "COM", "NEG", "LSL", "LSR", "ASR", "ROL", "ROR",
                   "AND", "OR", "EOR"}
Updating == [op \in {o \o "A" : o \in AccumulatorOps} |-> "A"]
            @@ [op \in {o \o "B" : o \in AccumulatorOps} |-> "B"]
            @@ [op \in {"ADDD", "SUBD"} |-> "D"]

OpcodeReads(e) ==
    IF e.op \in DOMAIN Reading THEN RegsOf[Reading[e.op]]
    ELSE IF e.op \in DOMAIN Updating THEN RegsOf[Updating[e.op]]
    ELSE IF e.op \in Calls THEN {"A", "B", "X", "Y", "U"}
    ELSE IF e.op = "ABX" THEN {"B", "X"}
    ELSE IF e.op = "PSHS" THEN Lists[e.arg.name] \ {"PC"}
    ELSE IF e.op \in {"TFR", "EXG"} THEN RegsOf[Pairs[e.arg.name][1]]
    ELSE IF e.op \in LongBranches THEN {"CC"}
    ELSE {}

\* An argument that ends with ,X or ,U reads X or U, even the X of TFR D,X and of
\* PULS U,X.
EndInX == {"D,X", "U,X", "Y,X", "B,X"}
ArgReads(e) ==
    CASE e.arg.mode \in {"n,R", ",R", ",R+", ",R++", "[n,R]"} -> RegsOf[e.arg.name]
      [] e.arg.mode \in {"r,X", "[r,X]"} -> RegsOf[e.arg.name] \cup {"X"}
      [] e.arg.mode = "regs" ->
            (IF e.op \in {"TFR", "EXG"} THEN RegsOf[Pairs[e.arg.name][1]] ELSE {})
              \cup (IF e.arg.name \in EndInX THEN {"X"} ELSE {})
      [] OTHER -> {}

Reads(e) == OpcodeReads(e) \cup ArgReads(e)
Writes(e) ==
    IF e.op \in DOMAIN Writing THEN RegsOf[Writing[e.op]]
    ELSE IF e.op \in DOMAIN Updating THEN RegsOf[Updating[e.op]]
    ELSE IF e.op \in Calls THEN {"A", "B", "X", "Y", "U"}
    ELSE IF e.op = "PULS" THEN Lists[e.arg.name] \ {"PC"}
    ELSE IF e.op \in {"TFR", "EXG"} THEN RegsOf[Pairs[e.arg.name][2]]
    ELSE {}

StripConsecOppositeTFRs(code, i) ==
    LET next == FindNextInstrBeforeLabel(code, i + 1)
        opposite(p, q) == p[1] = q[2] /\ p[2] = q[1]
    IN  IF /\ IsInstr(code, i, "TFR")
           /\ IsInstr(code, next, "TFR")
           /\ opposite(Pairs[code[i].arg.name], Pairs[code[next].arg.name])
        THEN CommentOut(code, next) ELSE NoMatch

StripOpToDeadReg(code, i) ==
    LET next == FindNextInstrBeforeLabel(code, i + 1)
        written == Writes(code[i])
    IN  IF /\ i <= Len(code) /\ code[i].type = "INSTR"
           /\ code[i].op \notin {"PSHS", "PULS"}
           /\ next # NotFound
           /\ "CC" \notin Reads(code[next])
           /\ written \cap Reads(code[next]) = {}
           /\ written # {}
           /\ written \subseteq Writes(code[next])
        THEN CommentOut(code, i) ELSE NoMatch

MentionsS(arg) == Mentions(arg, "S")

StripUselessPushPull(code, i) ==
    LET middle == FindNextInstrBeforeLabel(code, i + 1)
        last   == FindNextInstrBeforeLabel(code, middle + 1)
    IN  IF /\ Is(code, i, "PSHS", Regs("B,A"))
           /\ middle # NotFound
           /\ code[middle].op \notin {"PSHS", "PULS"}
           /\ ~ MentionsS(code[middle].arg)
           /\ Is(code, last, "PULS", Regs("A,B"))
           /\ Reads(code[middle]) \cap {"A", "B"} = {}
        THEN CommentOutAll(code, {i, last}) ELSE NoMatch

\* The immediate arguments "#0" and "#$FF" or "#255" as they are written.
StripUselessBitwiseOp(code, i) ==
    IF \/ IsOneOf(code, i, {"ORA", "ORB", "EORA", "EORB"}) /\ code[i].arg = Dec(0)
       \/ IsOneOf(code, i, {"ANDA", "ANDB"}) /\ code[i].arg \in {Hex(255), Dec(255)}
    THEN CommentOut(code, i) ELSE NoMatch
==============================================================================
