------------------------- MODULE MCOptimizedFunctions --------------------------
(* Functions in which the rules of optimization level 2 find their patterns,   *)
(* each in the shape that the comment of a rule in ASMText2.cpp gives.         *)
EXTENDS OptimizedFunctions

MCSymbols == [g |-> 0, h |-> 2, MUL16 |-> 0, MUL168 |-> 0]
MCGlobals == [a \in 0..9 |-> (37 * a + 3) % 256]
MCArguments == {<<4, 1, 2>>, <<1, 300, 65535>>, <<300, 0, 5>>, <<65535, 200, 1>>, <<5, 65280, 0>>}
MCLabels == {"L1", "L2", "L3", "L9"}

\* The arguments of the function, as words and as their low bytes; a local word.
W1 == Off(4, "U")
W2 == Off(6, "U")
W3 == Off(8, "U")
B1 == Off(5, "U")
B2 == Off(7, "U")
B3 == Off(9, "U")
Local == Off(-2, "U")
PushD == Ins("PSHS", Regs("B,A"))
PushB == Ins("PSHS", Regs("B"))
PushX == Ins("PSHS", Regs("X"))
Tfr(p) == Ins("TFR", Regs(p))
Op(op) == Ins(op, NoArg)

\* A body, and the function around it: one that may return early, so that the
\* label of its end stays, and one that does not.  The result of _word is in D,
\* that of _byte in B.
WordF(body) == [name |-> "_word", body |-> body]
ByteF(body) == [name |-> "_byte", body |-> body]
EarlyReturn == <<Ins("TST", B3), Ins("LBMI", Target("L9"))>>
FunctionOf(f, start) ==
    <<FunctionStart, Label(f.name), Ins("PSHS", Regs("U")), Ins("LEAU", Ptr("S")),
      Ins("LEAS", Off(-2, "S"))>> \o start \o f.body
    \o <<Label("L9"), Ins("LEAS", Ptr("U")), Ins("PULS", Regs("U,PC")), FunctionEnd>>
\* A function that others call: the difference of its arguments.
Callee == <<FunctionStart, Label("_sub"), Ins("PSHS", Regs("U")), Ins("LEAU", Ptr("S")),
            Ins("LDD", W1), Ins("SUBD", W2),
            Ins("LEAS", Ptr("U")), Ins("PULS", Regs("U,PC")), FunctionEnd>>

Cleared == {
    WordF(<<Op("CLRA"), Ins("LDB", B1), Op("CLRA"), Ins("ADDD", W2)>>),
    WordF(<<Ins("LDD", W1), Ins("ANDA", Hex(0))>>),
    WordF(<<Op("CLRA"), Ins("STA", B1), Ins("LDD", Hex(5)), Ins("ADDD", W1)>>),
    WordF(<<Ins("LDD", W1), Ins("ADDD", Hex(291)), Op("CLRA")>>),
    WordF(<<Op("CLRA"), Ins("LDB", B1), PushD, Op("CLRA"), Ins("LDB", B2), Ins("ORA", Inc("S")),
           Ins("ORB", Inc("S"))>>),
    ByteF(<<Op("CLRB"), PushB, Ins("STB", B1), Ins("ORB", Inc("S"))>>),
    WordF(<<Ins("LDD", Hex(5)), Ins("STD", W1)>>),
    WordF(<<Ins("LDA", Dec(0)), Ins("STA", B2), Op("CLRA"), Ins("LDB", B1)>>),
    WordF(<<Op("CLRB"), Ins("LDA", B1), Ins("LDB", B2)>>),
    WordF(<<Ins("LDB", B1), Tfr("B,A"), Op("CLRB")>>),
    WordF(<<Op("CLRA"), Ins("LDB", B1), Ins("ANDA", B2), Ins("ADDD", Dec(0)), Ins("STD", W3)>>),
    WordF(<<Op("CLRA"), Ins("LDB", B1), Ins("LDX", W2), Ins("LEAX", Acc("D")), Ins("LDD", Ptr("X"))>>),
    WordF(<<Ins("LDX", Dec(4)), Ins("LEAX", Off(1, "X")), Ins("LDB", B1), Ins("STB", Ptr("X")),
           Ins("LDD", Ptr("X"))>>),
    WordF(<<Op("CLRA"), Op("CLRB"), Op("SEX"), Ins("ADDD", W1)>>)}

Pushes == {
    ByteF(<<Ins("LDX", W1), PushX, Ins("LDB", B2), Ins("PULS", Regs("X")), Ins("ADDB", Ptr("X"))>>),
    ByteF(<<Ins("LEAX", W1), Tfr("X,D"), Ins("ADDD", Dec(1)), PushD, Ins("PULS", Regs("X")),
            Ins("LDB", Ptr("X"))>>),
    ByteF(<<Ins("LDB", B1), PushB, Ins("LDX", W2), Ins("LDB", Inc("S")), Ins("STB", Ptr("X"))>>),
    ByteF(<<Ins("LDB", B1), PushB, Ins("LDX", W2), Ins("STX", W3), Ins("LDB", Inc("S"))>>),
    ByteF(<<Ins("LDD", W1), PushD, Ins("LDB", B2), Ins("LEAS", Off(1, "S")), Ins("ADDB", Inc("S"))>>),
    WordF(<<Ins("LDD", W1), PushD, Ins("LDD", W2), PushD, Ins("LDX", W3), Ins("STX", Local),
           Ins("LDD", Inc2("S")), Ins("SUBD", Inc2("S"))>>),
    WordF(<<Ins("LDX", W1), PushX, Ins("LDD", W2), PushD, Ins("LBSR", Target("_sub")),
           Ins("LEAS", Off(4, "S"))>>),
    WordF(<<Ins("LDX", W1), PushX, Op("CLRA"), Ins("LDB", B2), PushD, Ins("LBSR", Target("_sub")),
           Ins("LEAS", Off(4, "S"))>>),
    WordF(<<Ins("LEAX", W1), PushX, Ins("LEAX", W2), PushX, Ins("LDD", W3), PushD,
           Ins("LBSR", Target("_sub")), Ins("LEAS", Off(6, "S"))>>),
    WordF(<<Ins("LEAX", W1), Tfr("X,D"), PushD, Comment, Ins("LDD", W2), PushD,
           Ins("LBSR", Target("_sub")), Ins("LEAS", Off(4, "S"))>>),
    WordF(<<Ins("LDD", W1), PushD, Ins("LDX", W2), Ins("STX", W3), Ins("LDD", Inc2("S"))>>),
    WordF(<<Ins("LDD", W1), Ins("ADDD", W2), PushD, Comment, Ins("LDD", Inc2("S")), Ins("STD", W3)>>),
    WordF(<<Ins("LDD", W1), Ins("ADDD", W2), PushD, Ins("LDD", Ptr("S")), Ins("ADDD", Inc2("S"))>>),
    WordF(<<Ins("LDD", W1), Ins("ADDD", Dec(3)), PushD, Ins("LDD", W2), Ins("ADDD", Ptr("S")),
           Ins("ADDD", Inc2("S"))>>),
    WordF(<<Ins("LEAS", Off(-4, "S")), Ins("LEAS", Off(2, "S")), Ins("LEAS", Off(2, "S")),
           Ins("LDD", W1)>>)}

Operations == {
    ByteF(<<Ins("LDB", Hex(3)), PushB, Ins("LDB", B1), Ins("SUBB", Inc("S"))>>),
    WordF(<<Ins("LDD", Hex(291)), PushD, Ins("LDD", W1), Ins("ANDA", Inc("S")), Ins("ANDB", Inc("S"))>>),
    ByteF(<<Ins("LDB", B1), PushB, Ins("LDB", Hex(3)), Ins("ADDB", Inc("S"))>>),
    WordF(<<Ins("LDD", W1), PushD, Ins("LDD", W2), Ins("SUBD", Inc2("S"))>>),
    WordF(<<Op("CLRA"), Ins("LDB", Dec(5)), PushD, Ins("LDD", W1), Ins("SUBD", Inc2("S"))>>),
    WordF(<<Ins("LDX", W1), PushX, Ins("LDD", W2), Ins("SUBD", Inc2("S"))>>),
    ByteF(<<Ins("LDB", B1), PushB, Ins("LDB", B2), Ins("ANDB", Inc("S"))>>),
    ByteF(<<Ins("LDD", W1), Ins("STD", Local), Ins("LDD", Local), PushD, Ins("LDB", B2),
            Ins("LEAS", Off(1, "S")), Ins("ANDB", Inc("S"))>>),
    WordF(<<Ins("LDD", W1), Ins("ADDD", Dec(5)), Ins("SUBD", Dec(3)), Ins("STD", W2)>>),
    ByteF(<<Ins("LDB", B1), Ins("ADDB", B2), PushB, Ins("LDB", B3), Ins("SUBB", Inc("S"))>>),
    WordF(<<Ins("LDB", B1), Ins("ADDB", B3), PushB, Ins("LDB", B2), Ins("PULS", Regs("A")), Op("MUL")>>),
    ByteF(<<Ins("LDB", B1), Op("NEGB"), Ins("ADDB", B2)>>),
    WordF(<<Ins("LDX", W1), PushX, Ins("LDD", W2), Ins("ADDD", W3), Ins("SUBD", Inc2("S")),
            Ins("LBEQ", Target("L9")), Ins("LDD", W2)>>),
    ByteF(<<Ins("LDB", B1), Ins("ADDB", B2), PushB, Ins("LDX", W2), Ins("ORB", Inc("S")), Ins("STX", W3)>>),
    ByteF(<<Ins("LDB", Pcr("g")), PushB, Ins("LDB", B2), Ins("CMPB", Inc("S")),
            Ins("LBLT", Target("L9")), Ins("LDB", B2)>>),
    WordF(<<Ins("LDD", W1), Ins("STD", W3), PushD, Ins("LDX", W2), Ins("STX", Local), Ins("LDD", Inc2("S")),
           Ins("ADDD", W2)>>),
    ByteF(<<Ins("LDB", B1), Ins("STB", B3), PushB, Ins("LDX", W1), Ins("LDB", B2), Ins("CMPB", Inc("S")),
            Ins("LBLT", Target("L9")), Ins("LDB", B2)>>),
    WordF(<<Ins("LDD", W1), Ins("LDX", Dec(3)), Ins("LBSR", Target("MUL16"))>>),
    WordF(<<Ins("LDX", W1), Op("CLRA"), Ins("LDB", B2), Ins("LBSR", Target("MUL16"))>>),
    WordF(<<Op("CLRA"), Ins("LDB", B1), Tfr("D,X"), Ins("LDB", Dec(3)), Ins("LBSR", Target("MUL16"))>>)}

Indexed2 == {
    ByteF(<<Ins("LDD", W1), Tfr("D,X"), Ins("LDD", W2), Ins("STD", W3), Ins("LDB", Off(1, "X"))>>),
    ByteF(<<Ins("LDD", W1), Tfr("D,X"), Ins("LDD", W2), Ins("LEAX", Acc("D")), Ins("LDB", Ptr("X"))>>),
    ByteF(<<Ins("LDX", W1), Ins("LDD", W2), Ins("LEAX", Acc("D")), Ins("LDB", Ptr("X"))>>),
    WordF(<<Ins("LDX", W1), Ins("LDD", W2), Ins("LEAX", Acc("D")), Ins("LDX", Ptr("X")),
           Ins("LDD", Off(2, "X"))>>),
    ByteF(<<Ins("LDX", W1), Ins("LEAX", Off(1, "X")), Ins("STX", W1), Ins("LEAX", Off(-1, "X")),
            Ins("LDB", Ptr("X"))>>),
    ByteF(<<Ins("LDX", W1), Ins("LEAX", Off(1, "X")), Ins("STX", W1), Ins("LEAX", Off(-1, "X")),
            Ins("LDB", B2), Ins("STB", Ptr("X"))>>),
    ByteF(<<Ins("LDX", W1), Ins("LDB", Ptr("X")), Ins("STB", B2)>>),
    ByteF(<<Ins("LEAX", W1), Ins("LDB", Ptr("X")), Ins("STB", B2)>>),
    ByteF(<<Ins("LEAX", W1), Ins("LDB", B2), Ins("LEAX", W1), Ins("ADDB", Off(1, "X"))>>),
    ByteF(<<Ins("LDX", W1), Ins("LDB", B2), Ins("LDX", W1), Ins("ADDB", Off(1, "X"))>>),
    ByteF(<<Ins("LDX", W1), Ins("LDB", Off(1, "X")), Ins("STB", B2), Ins("LDX", W1), Ins("ADDB", Off(2, "X"))>>),
    ByteF(<<Ins("LDX", W1), Ins("LEAX", Off(2, "X")), Ins("LEAX", Off(3, "X")), Ins("LDB", Off(1, "X"))>>),
    WordF(<<Ins("LDX", W1), Ins("LEAX", Off(2, "X")), Ins("LDX", Off(1, "X")), Ins("LDD", Off(2, "X"))>>),
    WordF(<<Ins("LDX", W1), Ins("LEAX", Off(2, "X")), Ins("LDD", Off(1, "X"))>>),
    WordF(<<Ins("LDX", W1), Ins("LDD", W2), Ins("ADDD", Ptr("X"))>>),
    WordF(<<Ins("LEAX", W1), Ins("LDD", W2), Ins("ADDD", Ptr("X"))>>),
    WordF(<<Ins("LDD", W1), Ins("ADDD", W2), Tfr("D,X"), Ins("STD", W2), Ins("LDX", W3),
            Ins("LDD", Off(1, "X"))>>),
    ByteF(<<Ins("LDX", W1), Ins("LDB", Ptr("X")), Ins("LDX", W2), Ins("ADDB", Off(1, "X"))>>),
    ByteF(<<Ins("LEAX", W1), Ins("LDB", Ptr("X")), Ins("LDX", W2), Ins("ADDB", Off(1, "X"))>>),
    WordF(<<Ins("LDX", W1), Tfr("X,D"), Ins("STD", W3), Ins("LDX", W2), Ins("LDD", Off(1, "X"))>>),
    WordF(<<Ins("LEAX", W1), Tfr("X,D"), Ins("ADDD", Dec(3)), Ins("STD", W2), Tfr("X,D"),
           Ins("ADDD", Dec(5)), Ins("STD", W3)>>),
    WordF(<<Ins("LDD", W1), Ins("ADDD", W2), PushD, Ins("LEAX", W1), Tfr("X,D"), Ins("ADDD", Inc2("S")),
           Tfr("D,X"), Ins("LDD", Off(1, "X"))>>),
    ByteF(<<Ins("LEAX", Pcr("g")), Ins("LDB", Off(1, "X")), Ins("ADDB", Pcr("h"))>>),
    WordF(<<Ins("LDX", Dec(5)), Ins("LDB", B1), Ins("STB", B2), Ins("ADDB", Dec(1)),
           Ins("BRA", Target("L1")), Label("L1")>>),
    WordF(<<Ins("LDD", W1), Ins("LDX", W2), Ins("LEAX", Off(2, "X")), Ins("STX", W3), InlineAsm,
           Ins("LDD", W2)>>)}

Branching == {
    WordF(<<Ins("LDB", B1), Ins("ADDB", B2), Ins("CMPB", Dec(0)), Ins("LBEQ", Target("L1")),
           Ins("LDD", W2), Ins("LBRA", Target("L9")), Label("L1"), Ins("LDD", W3)>>),
    WordF(<<Ins("LDB", B1), Op("TSTB"), Ins("LBGT", Target("L1")), Ins("LDD", W2),
           Ins("LBRA", Target("L9")), Label("L1"), Ins("LDD", W3)>>),
    WordF(<<Ins("LDB", B1), Ins("ANDB", B2), Op("TSTB"), Ins("LBNE", Target("L1")), Ins("LDD", W2),
           Ins("LBRA", Target("L9")), Label("L1"), Ins("LDD", W3)>>),
    WordF(<<Ins("LDB", B1), Ins("CMPB", Hex(0)), Ins("LBHI", Target("L1")), Ins("LDD", W2),
           Ins("LBRA", Target("L2")), Label("L1"), Ins("LDD", W3), Label("L2"), Ins("LBRA", Target("L9"))>>),
    WordF(<<Ins("LDB", B1), Ins("CMPB", Dec(4)), Ins("LBEQ", Target("L1")), Ins("LDB", B1),
           Ins("CMPB", Dec(5)), Ins("LBNE", Target("L2")), Label("L1"), Ins("LDD", W2),
           Ins("LBRA", Target("L9")), Label("L2"), Ins("LDD", W3)>>),
    WordF(<<Ins("LDB", B1), Ins("LBEQ", Target("L1")), Ins("LDB", B1), Ins("CMPB", Dec(5)),
           Ins("LBNE", Target("L2")), Label("L1"), Ins("LDD", W2), Ins("LBRA", Target("L9")),
           Label("L2"), Ins("LDD", W3)>>),
    WordF(<<Ins("LDB", B1), PushB, Ins("LDB", B2), Ins("CMPB", Inc("S")), Ins("LBGT", Target("L1")),
           Ins("LDD", W2), Ins("LBRA", Target("L9")), Label("L1"), Ins("LDD", W3)>>)}
  \cup
    {WordF(<<Ins("LDD", W1), Ins("ADDD", Dec(1)), PushD, Ins("LDD", W2), Ins("CMPD", Inc2("S")),
            Ins(branch, Target("L1")), Ins("LDD", W2), Ins("LBRA", Target("L9")), Label("L1"),
            Ins("LDD", W3)>>) : branch \in {"LBLO", "LBHS", "LBGT", "LBLE"}}

CallsOf == {
    WordF(<<ParameterSave("STB", Local), Ins("LDB", B1), ParameterSave("STB", Off(-1, "U")), Op("SEX"), PushD,
           Ins("LDX", W2), PushX, Ins("LDB", Off(-1, "U")), Ins("LBSR", Target("_sub")),
           Ins("LEAS", Off(4, "S"))>>),
    WordF(<<Ins("LDB", Dec(7)), ParameterSave("STB", Off(-1, "U")), Ins("LDD", W1), PushD,
           Ins("LDX", W2), PushX, Ins("LDB", Off(-1, "U")), Op("CLRA"), Ins("ADDD", Inc2("S")),
           Ins("SUBD", Inc2("S"))>>),
    WordF(<<Ins("LDB", Dec(7)), Ins("LDX", Dec(5)), Ins("LDB", Dec(8)), Op("CLRA"),
           Ins("LEAX", Acc("D")), Tfr("X,D")>>)}

\* Pushes over the load of a global variable, or of its address.
OfGlobals == {
    ByteF(<<Ins("LDB", B1), PushB, Ins("LDB", Pcr("g")), Ins("ADDB", Inc("S"))>>),
    WordF(<<Ins("LDD", W1), PushD, Ins("LDD", Pcr("g")), Ins("LDX", Inc2("S")),
           Ins("ADDD", Off(1, "X"))>>),
    WordF(<<Ins("LDD", W1), PushD, Ins("LDX", Pcr("g")), Ins("LDD", Inc2("S")),
           Ins("ADDD", Off(1, "X"))>>),
    WordF(<<Ins("LDD", W1), PushD, Ins("LEAX", Pcr("g")), Ins("LDD", Inc2("S")),
           Ins("ADDD", Off(1, "X"))>>),
    WordF(<<Ins("LDD", W1), PushD, Ins("LDD", LabelImm("h")), Ins("LDX", Inc2("S")),
           Ins("ADDD", Off(1, "X"))>>)}

\* LDD, TFR D,X, then a use of D.
LoadedThenTransferred ==
    WordF(<<Ins("LDD", W1), Tfr("D,X"), Ins("STD", W2), Ins("LDX", W3), Ins("LDD", Off(1, "X"))>>)

Framed(fs) == {FunctionOf(f, start) \o (IF Ins("LBSR", Target("_sub")) \in ToSet(f.body) THEN Callee
                                         ELSE <<>>) : f \in fs, start \in {<<>>, EarlyReturn}}
MCCodes ==
    Framed(Cleared \cup Pushes \cup Operations \cup Indexed2 \cup Branching \cup CallsOf
             \cup OfGlobals)
TfrDXCodes == Framed({LoadedThenTransferred})
==============================================================================
