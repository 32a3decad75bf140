------------------------------- MODULE AsmText -------------------------------
(* ASMText (src/cmoc/src/ASMText.cpp): the list of assembly language elements  *)
(* that the emitCode() methods append to and that the optimizer rewrites in    *)
(* place.  An element keeps its type and two of its three text fields; the     *)
(* third, the comment, decides nothing.  An argument is a record instead of    *)
(* text: the optimizer only tells apart its addressing mode, its number, the   *)
(* notation of an immediate number ("#5" or "#$05") and the name in it.        *)
EXTENDS Integers, Sequences, SequencesExt

-----------------------------------------------------------------------------
(* Arguments.                                                                *)
NoArg     == [mode |-> "none", n |-> 0, name |-> ""]
Dec(n)    == [mode |-> "#",    n |-> n, name |-> ""]     \* #n
Hex(n)    == [mode |-> "#$",   n |-> n, name |-> ""]     \* #$nn
Off(n, r) == [mode |-> "n,R",  n |-> n, name |-> r]      \* n,U
Ptr(r)    == [mode |-> ",R",   n |-> 0, name |-> r]      \* ,S
Inc(r)    == [mode |-> ",R+",  n |-> 1, name |-> r]      \* ,S+
Inc2(r)   == [mode |-> ",R++", n |-> 2, name |-> r]      \* ,S++
Acc(a)    == [mode |-> "r,X",  n |-> 0, name |-> a]      \* D,X
Ind(n, r) == [mode |-> "[n,R]", n |-> n, name |-> r]     \* [n,U]
IndAcc(a) == [mode |-> "[r,X]", n |-> 0, name |-> a]     \* [D,X]
Pcr(l)    == [mode |-> "l,PCR", n |-> 0, name |-> l]     \* a label,PCR
IndPcr(l) == [mode |-> "[l,PCR]", n |-> 0, name |-> l]   \* [a label,PCR]
IndInc2(r) == [mode |-> "[,R++]", n |-> 2, name |-> r]   \* [,S++]
LabelImm(l) == [mode |-> "#l", n |-> 0, name |-> l]      \* #a label
Abs(a)    == [mode |-> "abs",  n |-> a, name |-> ""]     \* $FF20
Target(l) == [mode |-> "label", n |-> 0, name |-> l]     \* a label
Regs(rs)  == [mode |-> "regs", n |-> 0, name |-> rs]     \* B,A or D,X

\* The registers that an argument of PSHS and PULS lists, and those of TFR and EXG.
Lists == ("B,A" :> {"A", "B"}) @@ ("A,B" :> {"A", "B"}) @@ ("B" :> {"B"})
         @@ ("A" :> {"A"}) @@ ("X" :> {"X"}) @@ ("X,B,A" :> {"X", "A", "B"})
         @@ ("U" :> {"U"}) @@ ("PC" :> {"PC"}) @@ ("U,X" :> {"U", "X"}) @@ ("U,PC" :> {"U", "PC"})
         @@ ("Y" :> {"Y"}) @@ ("Y,X" :> {"Y", "X"}) @@ ("Y,X,B,A" :> {"Y", "X", "A", "B"})
         @@ ("Y,B,A" :> {"Y", "A", "B"}) @@ ("Y,X,B" :> {"Y", "X", "B"}) @@ ("B,X" :> {"X", "B"})
Pairs == ("D,X" :> <<"D", "X">>) @@ ("X,D" :> <<"X", "D">>)
         @@ ("A,B" :> <<"A", "B">>) @@ ("B,A" :> <<"B", "A">>)

\* What begins with #; extractConstantLiteral() takes a number only, and
\* extractImmedArg() reads the name of a label as 0.
IsLiteral(arg) == arg.mode \in {"#", "#$"}
IsImmediate(arg) == IsLiteral(arg) \/ arg.mode = "#l"
ImmedArg(arg) == IF IsLiteral(arg) THEN arg.n ELSE 0
\* What has a comma before the name of an index register.
Mentions(arg, r) ==
    arg.mode \in {"n,R", ",R", ",R+", ",R++", "[n,R]", "[,R++]"} /\ arg.name = r
IsIndirect(arg) == arg.mode \in {"[n,R]", "[r,X]", "[l,PCR]", "[,R++]"}
Indirect(arg) == IF arg.mode = "l,PCR" THEN [arg EXCEPT !.mode = "[l,PCR]"]
                 ELSE [arg EXCEPT !.mode = "[n,R]"]

(* Elements.                                                                 *)
Ins(op, arg)   == [type |-> "INSTR", op |-> op, arg |-> arg]
Label(l)       == [type |-> "LABEL", op |-> l, arg |-> NoArg]
Comment        == [type |-> "COMMENT", op |-> "", arg |-> NoArg]
FunctionStart  == [type |-> "FUNCTION_START", op |-> "", arg |-> NoArg]
FunctionEnd    == [type |-> "FUNCTION_END", op |-> "", arg |-> NoArg]
InlineAsm      == [type |-> "INLINE_ASM", op |-> "", arg |-> NoArg]

\* The store of a register that a call is to receive has a comment that says so.
ParameterSave(op, arg) == Ins(op, arg) @@ ("save" :> TRUE)
IsParameterSave(e) == "save" \in DOMAIN e

(* A[LDX], say, is "no instruction at all": the index size_t(-1).            *)
NotFound == 0

-----------------------------------------------------------------------------
(* What an element is.                                                       *)
IsInstr(code, i, op) ==
    i \in 1..Len(code) /\ code[i].type = "INSTR" /\ code[i].op = op

IsOneOf(code, i, ops) ==
    i \in 1..Len(code) /\ code[i].type = "INSTR" /\ code[i].op \in ops

Is(code, i, op, arg) == IsInstr(code, i, op) /\ code[i].arg = arg

IsImmedInstr(code, i, op) == IsInstr(code, i, op) /\ IsImmediate(code[i].arg)

\* An argument that has a comma followed by U (the frame), Y or PCR (a global).
IsVarInstr(code, i, op) ==
    /\ IsInstr(code, i, op)
    /\ \/ \E r \in {"U", "Y"} : Mentions(code[i].arg, r)
       \/ code[i].arg.mode \in {"l,PCR", "[l,PCR]"}

IsLabel(code, i, l) == i \in 1..Len(code) /\ code[i] = Label(l)

-----------------------------------------------------------------------------
(* Searches from an index, itself included.                                  *)
DataDirectives == {"FDB", "FCC", "RMB", "ZMB"}

\* Passes over comments only; stops at a label, at inline assembly, at data.
FindNextInstrBeforeLabel(code, i) ==
    LET first == {k \in i..Len(code) : /\ code[k].type # "COMMENT"
                                       /\ \A j \in i..(k - 1) : code[j].type = "COMMENT"}
    IN  IF \E k \in first : code[k].type = "INSTR" /\ code[k].op \notin DataDirectives
        THEN CHOOSE k \in first : TRUE ELSE NotFound

\* Passes over labels too; stops at inline assembly, an #include or a separator.
FindNextInstr(code, i) ==
    LET first == {k \in i..Len(code) : /\ code[k].type \in {"INSTR", "INLINE_ASM"}
                                       /\ \A j \in i..(k - 1) :
                                             code[j].type \notin {"INSTR", "INLINE_ASM"}}
    IN  IF \E k \in first : code[k].type = "INSTR"
        THEN CHOOSE k \in first : TRUE ELSE NotFound

FindLabelIndex(code, l) ==
    LET here == {k \in 1..Len(code) : code[k] = Label(l)}
    IN  IF here # {} THEN CHOOSE m \in here : \A o \in here : m <= o ELSE NotFound

\* A search of the later rules: where it stops, past the end if nowhere.
FirstFrom(code, lo, Stop(_)) ==
    LET here == {k \in lo..Len(code) : Stop(k)}
    IN  IF here = {} THEN Len(code) + 1 ELSE CHOOSE m \in here : \A o \in here : m <= o

\* A loop: Do(state, index) for the indices from lo to hi.
ForEach(lo, hi, start, Do(_, _)) ==
    LET after[n \in 0..hi] == IF n < lo THEN start ELSE Do(after[n - 1], n) IN after[hi]
\* The indices of a set, in increasing order.
InOrder(indices, n) == SelectSeq([k \in 1..n |-> k], LAMBDA k : k \in indices)

-----------------------------------------------------------------------------
(* Edits.                                                                    *)
ReplaceWithInstr(code, i, op, arg) == [code EXCEPT ![i] = Ins(op, arg)]
CommentOut(code, i) == [code EXCEPT ![i] = Comment]
Edit(code, changed) ==
    [k \in DOMAIN code |-> IF k \in DOMAIN changed THEN changed[k] ELSE code[k]]
WithArg(code, i, arg) == [code EXCEPT ![i].arg = arg]
CommentOutAll(code, indices) ==
    [k \in DOMAIN code |-> IF k \in indices THEN Comment ELSE code[k]]
InsertInstr(code, i, op, arg) == InsertAt(code, i, Ins(op, arg))

-----------------------------------------------------------------------------
(* Branches.                                                                 *)
Conditions == {"CC", "CS", "EQ", "NE", "GE", "LT", "GT", "LE", "HI", "LS",
               "HS", "LO", "MI", "PL", "VC", "VS"}
Opposite == [CC |-> "CS", CS |-> "CC", EQ |-> "NE", NE |-> "EQ", GE |-> "LT",
             LT |-> "GE", GT |-> "LE", LE |-> "GT", HI |-> "LS", LS |-> "HI",
             HS |-> "LO", LO |-> "HS", MI |-> "PL", PL |-> "MI", VC |-> "VS",
             VS |-> "VC"]

\* The names of the branches: the long one of a condition, and the short one.
LongOf == [CC |-> "LBCC", CS |-> "LBCS", EQ |-> "LBEQ", NE |-> "LBNE", GE |-> "LBGE",
           LT |-> "LBLT", GT |-> "LBGT", LE |-> "LBLE", HI |-> "LBHI", LS |-> "LBLS",
           HS |-> "LBHS", LO |-> "LBLO", MI |-> "LBMI", PL |-> "LBPL", VC |-> "LBVC",
           VS |-> "LBVS"]
ShortOf == [CC |-> "BCC", CS |-> "BCS", EQ |-> "BEQ", NE |-> "BNE", GE |-> "BGE",
            LT |-> "BLT", GT |-> "BGT", LE |-> "BLE", HI |-> "BHI", LS |-> "BLS",
            HS |-> "BHS", LO |-> "BLO", MI |-> "BMI", PL |-> "BPL", VC |-> "BVC",
            VS |-> "BVS"]

ShortBranches == {ShortOf[c] : c \in Conditions}
LongBranches  == {LongOf[c] : c \in Conditions}
UncondBranches == {"BRA", "LBRA"}
Calls == {"BSR", "LBSR", "JSR"}
ConditionOf == [op \in ShortBranches \cup LongBranches |->
                  CHOOSE c \in Conditions : op \in {ShortOf[c], LongOf[c]}]
WithoutL == [op \in LongBranches \cup {"LBRA", "LBSR"} |->
                IF op = "LBRA" THEN "BRA" ELSE IF op = "LBSR" THEN "BSR"
                ELSE ShortOf[ConditionOf[op]]]

\* Instructions that end a basic block; what counts as a comment.
IsBlockEnd(e) ==
    \/ e.op \in ShortBranches \cup LongBranches \cup UncondBranches \cup {"JMP", "RTI", "RTS"}
    \/ e.op = "PULS" /\ e.arg = Regs("U,PC")
IsCommentLike(e) == e.type \notin {"INSTR", "LABEL", "INLINE_ASM", "INCLUDE"}

LongInverse == [op \in ShortBranches \cup LongBranches |->
                   LongOf[Opposite[ConditionOf[op]]]]
==============================================================================
