---------------------------- MODULE MCCompilation -----------------------------
(* Model-checking instances of Compilation: the local variables, the programs  *)
(* and the values they start with.                                             *)
EXTENDS Compilation

MCSymbols == [name \in Routines |-> 0]
MCLocals == {"sc", "uc", "si", "ui"}
MCTypeOfVar == [sc |-> ByteType(TRUE), uc |-> ByteType(FALSE),
                si |-> WordType(TRUE), ui |-> WordType(FALSE)]
MCFrameOf == [sc |-> -1, uc |-> -2, si |-> -4, ui |-> -6]

MCPrototypes == <<>>

RECURSIVE VarsOf(_)
VarsOf(t) ==
    CASE t.k = "var"    -> {t.id}
      [] t.k = "bin"    -> VarsOf(t.l) \cup VarsOf(t.r)
      [] t.k = "expr"   -> VarsOf(t.e.r)
      [] t.k = "if"     -> VarsOf(t.c) \cup VarsOf(t.then) \cup VarsOf(t.else)
      [] t.k = "while"  -> VarsOf(t.c) \cup VarsOf(t.body)
      [] t.k = "block"  -> UNION {VarsOf(t.ss[x]) : x \in DOMAIN t.ss}
      [] OTHER          -> {}

\* The words leave out $8000, on which the simulator's V flag is not the 6809's.
Inputs(vs, bytes, words) ==
    LET samples(id) == IF id \notin vs THEN {0}
                       ELSE IF TypeOfVar[id].size = 1 THEN bytes ELSE words
    IN  {[sc |-> sc, uc |-> uc, si |-> si, ui |-> ui] :
            sc \in samples("sc"), uc \in samples("uc"), si \in samples("si"), ui \in samples("ui")}
ManyEnvironments(p) == Inputs(VarsOf(p), {0, 1, 127, 200, 255}, {0, 1, 300, 32767, 65535})
FewEnvironments(p)  == Inputs(VarsOf(p), {0, 1, 200}, {0, 300, 65535})

-----------------------------------------------------------------------------
(* The forms on which CMOC is known to depart from the C meaning.            *)
SomeByteVar(e)  == IsVar(e) /\ IsByte(e)
WordConst(e)    == IsConst(e) /\ ~ Fits8Bits(e)
WordValueInB(e) == e.op \in Bitwises /\ SomeByteVar(e.l) /\ WordConst(e.r)
UnpromotedSum(e) == e.op = "+" /\ ~ IsVar(e.l) /\ ~ IsConst(e.l) /\ IsByte(e.l)
                        /\ WordConst(e.r)
HighByteConst(e) == e.op \in Relations /\ SomeByteVar(e.l) /\ IsSigned(e.l)
                        /\ IsConst(e.r) /\ Evaluate(e.r) \in 128..255
OrOfBytes(e)    == e.op = "||" /\ IsByte(e.l) /\ IsByte(e.r)
FoldedOrder(e)  == e.op \in Orders /\ IsConst(e) /\ IsSignedComparison(e)
                        /\ (Evaluate(e.l) >= 32768) # (Evaluate(e.r) >= 32768)
MixedBytes(e)   == e.op \in Relations /\ SomeByteVar(e.l) /\ SomeByteVar(e.r)
                        /\ IsSigned(e.l) # IsSigned(e.r)

RECURSIVE Departs(_)
Departs(e) == e.k = "bin" /\ \/ WordValueInB(e) \/ UnpromotedSum(e) \/ HighByteConst(e)
                             \/ OrOfBytes(e) \/ FoldedOrder(e) \/ MixedBytes(e)
                             \/ Departs(e.l) \/ Departs(e.r)

-----------------------------------------------------------------------------
(* Every operation on two operands, assigned to a byte and to a word.        *)
Operands == {Var(id) : id \in MCLocals} \cup {Num(0), Num(1), Num(200), Num(1000), Neg(1)}
Simple(o) == {Bin(o, l, r) : l \in Operands, r \in Operands}
Binary == {e \in UNION {Simple(o) : o \in Arithmetic \cup Relations \cup Logicals} :
              ~ Departs(e)}
MCExpressions == {Assign("ui", e) : e \in Binary}
                   \cup {Assign("sc", e) : e \in {b \in Binary : b.op \in Arithmetic}}

(* Operations on operations: pushes, promotions and pulls nest.              *)
Inner == {Bin("+", Var("uc"), Num(1)), Bin("-", Var("si"), Var("sc")),
        Bin("&", Var("ui"), Num(200)), Bin("<", Var("sc"), Var("si"))}
Nested == {e \in {Bin(o, l, r) : o \in {"+", "-", "|", "<=", "==", "&&"},
                                 l \in Inner \cup {Var("uc"), Var("si"), Num(1000)},
                                 r \in Inner \cup {Var("uc"), Var("si"), Num(1000)}} :
              ~ Departs(e)}

(* Two statements in a row, conditions, and loops that the body ends.        *)
Steps == {Assign("uc", Num(0)), Assign("uc", Var("sc")), Assign("si", Var("uc")),
          Assign("si", Bin("+", Var("si"), Num(1))), Assign("ui", Var("si")),
          Assign("uc", Bin("-", Var("uc"), Var("sc"))), Asm,
          Assign("si", Bin("&&", Var("uc"), Var("si")))}
Conditions2 == {Var("uc"), Bin("<", Var("si"), Var("ui")), Bin(">=", Var("sc"), Num(0)),
                Bin("==", Num(0), Var("uc")), Bin(">=", Var("ui"), Num(0)),
                Bin("&&", Var("sc"), Bin("!=", Var("si"), Num(300))),
                Bin("||", Bin("<", Var("sc"), Num(5)), Bin(">", Var("uc"), Num(200))),
                Bin("&&", Bin("||", Var("sc"), Var("uc")), Bin("<=", Var("uc"), Num(1)))}
Loops == {While(Bin("<", Var("ui"), Num(303)), Assign("ui", Bin("+", Var("ui"), Num(100)))),
          While(Bin("&&", Var("uc"), Bin("!=", Var("uc"), Num(197))),
                Block(<<Assign("sc", Bin("|", Var("sc"), Var("uc"))),
                        Assign("uc", Bin("&", Var("uc"), Bin("-", Var("uc"), Num(1))))>>)),
          While(Num(0), Asm)}
MCStatements ==
    {Assign("ui", e) : e \in Nested}
      \cup {Block(<<s, t>>) : s \in Steps, t \in Steps}
      \cup {If(c, s, t) : c \in Conditions2, s \in {Assign("ui", Num(1)), Asm},
                          t \in {Block(<<>>), Assign("ui", Num(2))}}
      \cup Loops

MCPrograms == MCExpressions \cup MCStatements

\* An operation on two operands starts with more values of each.
IsFlat(p) == p.k = "expr" /\ p.e.r.k = "bin" /\ p.e.r.l.k # "bin" /\ p.e.r.r.k # "bin"
MCEnvironments(p) == IF IsFlat(p) THEN ManyEnvironments(p) ELSE FewEnvironments(p)
==============================================================================
