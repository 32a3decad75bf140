----------------------------- MODULE MCPeephole -------------------------------
(* Model-checking instance of Peephole: every list of up to MaxLen elements    *)
(* over an alphabet in which each rule of a compare and branch, of a push and  *)
(* an addition and of a store and a load finds its pattern, and in which each  *)
(* label is placed at most once.                                               *)
EXTENDS Peephole

CONSTANT MaxLen

MCLabels == {"L1", "L2"}

Alphabet ==
    {Label("L1"), Label("L2"), InlineAsm, Comment,
     Ins("LBEQ", Target("L1")), Ins("LBRA", Target("L2")), Ins("LBRA", Target("L1")),
     Ins("LDD", Hex(0)), Ins("LDB", Off(-1, "U")), Ins("STB", Off(-1, "U")),
     Ins("CMPB", Dec(0)), Ins("SEX", NoArg),
     Ins("PSHS", Regs("B,A")), Ins("LDD", Off(-4, "U")), Ins("ADDD", Inc2("S"))}

PlacedOnce(c) == \A j, k \in DOMAIN c : (c[j].type = "LABEL" /\ c[j] = c[k]) => j = k

MCCodes == {c \in UNION {[1..n -> Alphabet] : n \in 1..MaxLen} : Closed(c) /\ PlacedOnce(c)}
==============================================================================
