------------------------ MODULE MCCompiledFunctions ---------------------------
(* Functions in C that use, each in its shortest form, what the code generator *)
(* compiles, and the arguments they are called with.                           *)
EXTENDS CompiledFunctions

UChar == ByteType(FALSE)
SChar  == ByteType(TRUE)
SInt   == WordType(TRUE)
UInt  == WordType(FALSE)

\* Parameters and local variables by their type, global variables by their name.
MCTypeOfVar ==
    [u1 |-> UChar, u2 |-> UChar, c1 |-> SChar, c2 |-> SChar, i1 |-> SInt, i2 |-> SInt, w1 |-> UInt, w2 |-> UInt,
     p |-> PointerTo(UChar), q |-> PointerTo(SInt),
     lu |-> UChar, lv |-> UChar, lc |-> SChar, li |-> SInt, lj |-> SInt, lw |-> UInt,
     lp |-> PointerTo(UChar), lq |-> PointerTo(SInt), la |-> ArrayOf(3, UChar), lb |-> ArrayOf(2, SInt),
     gu |-> UChar, gc |-> SChar, gi |-> SInt, gw |-> UInt, gp |-> PointerTo(UChar), gq |-> PointerTo(SInt),
     ga |-> ArrayOf(4, UChar), gb |-> ArrayOf(3, SInt)]
MCGlobalAt == [gu |-> 1, gc |-> 2, gi |-> 3, gw |-> 5, gp |-> 7, gq |-> 9, ga |-> 11, gb |-> 15]
MCGlobalBytes == [a \in 0..21 |-> CASE a = 8 -> 11 [] a = 10 -> 15 [] a \in {7, 9} -> 0
                                    [] OTHER -> (91 * a + 40) % 256]
MCSymbols == [_gu |-> 1, _gc |-> 2, _gi |-> 3, _gw |-> 5, _gp |-> 7, _gq |-> 9, _ga |-> 11, _gb |-> 15]
               @@ [name \in Routines |-> 0]
MCPrototypes ==
    [returnU |-> [returns |-> UChar, params |-> <<>>], returnC |-> [returns |-> SChar, params |-> <<>>],
     returnI |-> [returns |-> SInt, params |-> <<>>], returnW |-> [returns |-> UInt, params |-> <<>>],
     returnP |-> [returns |-> PointerTo(UChar), params |-> <<>>], void |-> [returns |-> VoidType, params |-> <<>>],
     sub |-> [returns |-> SInt, params |-> <<SInt, UChar>>], sum |-> [returns |-> UInt, params |-> <<UInt>>]]
MCLabels == {Lab(n) : n \in 1..20} \cup {EndLabel(f) : f \in DOMAIN MCPrototypes}

-----------------------------------------------------------------------------
(* Trees as the parser leaves them, without types.                           *)
V(id)          == [k |-> "var", id |-> id]
N(v)           == [k |-> "const", v |-> v]
Op(o, l, r)    == [k |-> "bin", op |-> o, l |-> l, r |-> r]
Op1(o, e)      == [k |-> "un", op |-> o, e |-> e]
Minus(v)       == Op1("-", N(v))
SizeOf(t)      == [k |-> "un", op |-> "sizeof", of |-> t]
ToType(t, e)   == [k |-> "cast", to |-> t, e |-> e]
Choice(c, t, f) == [k |-> "cond", c |-> c, then |-> t, else |-> f]
Both(l, r)     == [k |-> "comma", l |-> l, r |-> r]
Called1(f, args) == [k |-> "call", f |-> f, args |-> args]
Elem(a, e)     == Op("[]", a, e)
Eff(e)         == [k |-> "expr", e |-> e]
For3(init, c, next, s) == [k |-> "for", init |-> init, c |-> c, next |-> next, body |-> s]
U1 == V("u1")
U2 == V("u2")
C1 == V("c1")
C2 == V("c2")
I1 == V("i1")
I2 == V("i2")
W1 == V("w1")
W2 == V("w2")

\* The arguments of parameters: boundary values; the second one may divide, and
\* pointers point to the global arrays.
Samples(id) ==
    CASE id \in {"i1", "w1"} -> {0, 1, 300, 32767, 65535}
      [] id \in {"i2", "w2"} -> {1, 7, 256, 65535}
      [] id \in {"u1", "c1"} -> {0, 1, 100, 200, 255}
      [] id \in {"u2", "c2"} -> {1, 3, 128, 255}
      [] id = "p" -> {11, 12}
      [] id = "q" -> {15, 17}
Arguments(params) ==
    CASE Len(params) = 0 -> {<<>>}
      [] Len(params) = 1 -> {<<x>> : x \in Samples(params[1])}
      [] Len(params) = 2 -> {<<x, y>> : x \in Samples(params[1]), y \in Samples(params[2])}

Compute1(name, params, e) ==
    [functions |-> <<Function(name, params, Block(<<Return(<<e>>)>>))>>, arguments |-> Arguments(params)]
Do1(params, ss) ==
    [functions |-> <<Function("void", params, Block(ss))>>, arguments |-> Arguments(params)]
Run1(name, params, ss) ==
    [functions |-> <<Function(name, params, Block(ss))>>, arguments |-> Arguments(params)]
ByteNum(n) == ToType(UChar, N(n))
Set1(id, e) == Eff(Op("=", V(id), e))
Ret(e) == Return(<<e>>)

\* Functions that others call; sum is recursive.
Difference == Function("sub", <<"i2", "u2">>, Block(<<Declare("lj", <<Op("-", I2, U2)>>), Ret(V("lj"))>>))
SumTo == Function("sum", <<"w2">>,
           Block(<<If(Op("==", W2, N(0)), Ret(N(0)), Block(<<>>)),
                   Ret(Op("+", W2, Called1("sum", <<Op("-", W2, N(1))>>)))>>))
Calls1(name, params, ss) ==
    [functions |-> <<Function(name, params, Block(ss)), Difference, SumTo>>, arguments |-> Arguments(params)]

CallsOfFunctions == {
    Calls1("returnI", <<"i1", "u1">>, <<Ret(Called1("sub", <<I1, U1>>))>>),
    Calls1("returnI", <<"i1", "u1">>, <<Ret(Called1("sub", <<Called1("sub", <<I1, N(1)>>), Op("+", U1, N(1))>>))>>),
    Calls1("returnI", <<"i1">>, <<Ret(Op("-", I1, Called1("sub", <<N(1000), N(5)>>)))>>),
    Calls1("returnI", <<"i1", "c1">>, <<Declare("li", <<Called1("sub", <<I1, ToType(UChar, C1)>>)>>),
                                        Ret(Op("+", V("li"), C1))>>),
    Calls1("returnW", <<"u1">>, <<Ret(Called1("sum", <<Op("&", U1, ByteNum(3))>>))>>),
    Calls1("void", <<>>, <<Set1("gw", Called1("sum", <<N(2)>>)), Eff(Called1("sub", <<N(1), N(2)>>))>>)}

Declarations == {
    Run1("returnI", <<"i1">>, <<Declare("li", <<I1>>), Declare("lu", <<N(7)>>), Declare("lv", <<N(0)>>),
                                Ret(Op("+", V("li"), Op("+", V("lu"), V("lv"))))>>),
    Run1("returnI", <<"c1">>, <<Declare("li", <<C1>>), Declare("lj", <<N(0)>>), Declare("lw", <<N(1000)>>),
                                Ret(Op("+", Op("+", V("li"), V("lj")), V("lw")))>>),
    Run1("returnU", <<"i1">>, <<Declare("lu", <<I1>>), Declare("lc", <<Minus(1)>>), Set1("gc", V("lc")), Ret(V("lu"))>>),
    Run1("returnI", <<"i1">>,
         <<Declare("li", <<I1>>),
           Block(<<Declare("lj", <<Op("+", V("li"), N(1))>>), Set1("gi", V("lj"))>>),
           Block(<<Declare("lu", <<N(9)>>), Block(<<Declare("lw", <<N(4660)>>), Set1("gw", V("lw"))>>),
                   Set1("gu", V("lu"))>>),
           Ret(V("li"))>>),
    Run1("returnU", <<"u1">>,
         <<Declare("la", <<>>), Eff(Op("=", Elem(V("la"), N(0)), N(1))), Eff(Op("=", Elem(V("la"), N(2)), U1)),
           Eff(Op("=", Elem(V("la"), N(1)), Op("+", Elem(V("la"), N(0)), Elem(V("la"), N(2))))),
           Ret(Elem(V("la"), N(1)))>>),
    Run1("returnI", <<"i1">>,
         <<Declare("lb", <<>>), Declare("lq", <<V("lb")>>), Eff(Op("=", Op1("*", Op1("e++", V("lq"))), I1)),
           Eff(Op("=", Op1("*", V("lq")), N(5))), Ret(Op("-", Elem(V("lb"), N(0)), Elem(V("lb"), N(1))))>>)}

Conditionals == {
    Run1("returnI", <<"i1", "i2">>, <<If(Op("<", I1, I2), Ret(I1), Ret(I2))>>),
    Run1("returnI", <<"i1", "u2">>, <<If(Op("||", Op("==", I1, N(0)), Op("&&", Op(">", I1, U2), U2)),
                                         Set1("gi", N(1)), Block(<<>>)), Ret(V("gi"))>>),
    Run1("returnI", <<"i1">>, <<If(Op1("!", I1), Set1("gi", N(1)), Set1("gi", N(2))), Ret(V("gi"))>>),
    Run1("returnU", <<"u1">>, <<If(Both(Op("=", V("gu"), N(3)), Op(">=", U1, ByteNum(100))), Ret(N(1)), Block(<<>>)),
                                Ret(N(0))>>),
    Run1("returnU", <<"w1">>, <<If(Op(">=", W1, N(0)), Ret(N(1)), Ret(N(2)))>>),
    Run1("returnW", <<"w1">>, <<If(Op1("e--", W1), Ret(W1), Block(<<>>)), Ret(N(77))>>),
    Run1("returnI", <<"i1">>, <<Goto("out"), Set1("gi", N(1)), Labeled("out", Ret(Op("+", I1, V("gi"))))>>),
    Run1("returnI", <<"i1">>, <<Labeled("again", Eff(Op1("e++", V("gu")))),
                                If(Op("<", V("gu"), ByteNum(135)), Goto("again"), Block(<<>>)), Ret(I1)>>)}

CountTo(id, n, ss) == For3(<<Op("=", V(id), N(0))>>, <<Op("<", V(id), n)>>, <<Op1("e++", V(id))>>, Block(ss))
LoopsOf == {
    Run1("returnW", <<"u1">>, <<Declare("lw", <<N(0)>>), Declare("lu", <<>>),
        CountTo("lu", Op("&", U1, ByteNum(3)), <<Eff(Op("+=", V("lw"), V("lu")))>>), Ret(V("lw"))>>),
    Run1("returnI", <<"i1">>, <<Declare("li", <<>>),
        CountTo("li", N(5), <<If(Op("==", V("li"), N(1)), Continue, Block(<<>>)),
                                If(Op("==", V("li"), I1), Break, Block(<<>>)), Eff(Op("+=", V("gi"), V("li")))>>),
        Ret(V("gi"))>>),
    Run1("returnI", <<"i2">>, <<Declare("li", <<N(3)>>),
        While(V("li"), Block(<<Eff(Op1("e--", V("li"))), If(Op("==", I2, N(7)), Continue, Block(<<>>)),
                               Eff(Op("+=", V("gi"), N(1)))>>)), Ret(V("gi"))>>),
    Run1("returnI", <<"i2">>, <<Declare("li", <<N(3)>>),
        DoWhile(Block(<<If(Op("==", I2, N(7)), Break, Block(<<>>)), Eff(Op("*=", V("gi"), N(3)))>>),
                Op("&&", Op(">", Op1("--e", V("li")), N(0)), Op("!=", I2, N(256)))), Ret(V("gi"))>>),
    Run1("returnU", <<"u1">>, <<DoWhile(Set1("gu", U1), N(0)), Ret(V("gu"))>>),
    Run1("returnU", <<>>, <<While(N(1), Block(<<Eff(Op1("e++", V("gu"))), If(Op("==", V("gu"), ByteNum(134)), Break, Block(<<>>))>>)),
                            Ret(V("gu"))>>),
    Run1("returnI", <<"i2">>, <<For3(<<>>, <<>>, <<>>, Block(<<Declare("lj", <<I2>>),
                                  If(Op("!=", V("lj"), N(0)), Ret(V("lj")), Block(<<>>))>>))>>),
    Run1("returnU", <<"u1">>, <<Declare("lu", <<>>), Declare("lv", <<>>), Set1("gu", N(0)),
        CountTo("lu", ByteNum(2), <<CountTo("lv", ByteNum(2), <<If(Op("==", V("lv"), U1), Break, Block(<<>>)),
                                                               Eff(Op1("++e", V("gu")))>>)>>), Ret(V("gu"))>>)}

Arm(v, x) == <<Case(N(v), Set1("gi", N(x))), Break>>
Switches == {
    Run1("returnI", <<"i1">>, <<Switch(I1, Block(Arm(0, 10) \o Arm(300, 11) \o <<Default(Set1("gi", N(12)))>>)), Ret(V("gi"))>>),
    Run1("returnI", <<"u1">>, <<Switch(U1, Block(Arm(1, 10) \o Arm(200, 11))), Ret(V("gi"))>>),
    Run1("returnI", <<"i2">>, <<Switch(I2, Block(Arm(5, 1) \o Arm(6, 2) \o Arm(7, 3) \o Arm(8, 4) \o Arm(9, 5)
                                                   \o <<Default(Set1("gi", N(0)))>>)), Ret(V("gi"))>>),
    Run1("returnI", <<"u2">>, <<Switch(U2, Block(Arm(1, 1) \o Arm(2, 2) \o Arm(3, 3) \o Arm(4, 4) \o Arm(5, 5) \o Arm(0, 6)
                                                   \o Arm(6, 7))), Ret(V("gi"))>>),
    Run1("returnI", <<"c1">>, <<Switch(C1, Block(<<Case(Minus(1), Set1("gi", N(1))), Case(N(0), Set1("gu", N(2))), Break,
                                                   Case(N(1), Ret(N(3))), Case(N(2), Ret(N(4))), Case(N(3), Ret(N(5))),
                                                   Case(Minus(2), Ret(N(6)))>>)), Ret(V("gi"))>>),
    Run1("returnI", <<"i1">>, <<CountTo("gu", ByteNum(3),
        <<Switch(V("gu"), Block(<<Case(N(1), Break), Case(N(0), Set1("gi", I1)), Break>>)), Eff(Op1("e++", V("gw")))>>),
        Ret(V("gi"))>>)}

Products1 == {
    Compute1("returnI", <<"i1", "i2">>, Op("*", I1, I2)),
    Compute1("returnU", <<"u1", "u2">>, Op("*", U1, U2)),
    Compute1("returnU", <<"u1">>, Op("*", U1, N(8))),
    Compute1("returnU", <<"u1">>, Op("*", U1, N(0))),
    Compute1("returnI", <<"i1">>, Op("*", I1, N(10))),
    Compute1("returnW", <<"w1">>, Op("*", N(10), W1)),
    Compute1("returnW", <<"u1", "u2">>, Op("*", ToType(UInt, U1), U2)),
    Compute1("returnI", <<"i1", "u2">>, Op("*", I1, U2)),
    Compute1("returnU", <<"u1", "u2">>, Op("*", Op("+", U1, N(1)), U2)),
    Compute1("returnU", <<"u1">>, Op("*", Op("+", U1, N(1)), N(5)))}

Quotients == {
    Compute1("returnI", <<"i1", "i2">>, Op("/", I1, I2)),
    Compute1("returnI", <<"i1", "i2">>, Op("%", I1, I2)),
    Compute1("returnW", <<"w1", "w2">>, Op("/", W1, W2)),
    Compute1("returnW", <<"w1", "w2">>, Op("%", W1, W2)),
    Compute1("returnU", <<"u1", "u2">>, Op("/", U1, U2)),
    Compute1("returnU", <<"u1", "u2">>, Op("%", U1, U2)),
    Compute1("returnC", <<"c1", "c2">>, Op("/", C1, C2)),
    Compute1("returnC", <<"c1", "c2">>, Op("%", C1, C2)),
    Compute1("returnW", <<"w1">>, Op("/", W1, N(10))),
    Compute1("returnW", <<"w1">>, Op("/", W1, N(256))),
    Compute1("returnW", <<"w1">>, Op("/", W1, N(8))),
    Compute1("returnW", <<"w1">>, Op("%", W1, N(16))),
    Compute1("returnW", <<"w1">>, Op("%", W1, N(1))),
    Compute1("returnW", <<"w1">>, Op("%", W1, N(7))),
    Compute1("returnI", <<"i1">>, Op("/", I1, N(4))),
    Compute1("returnI", <<"i1">>, Op("%", I1, Minus(3))),
    Compute1("returnU", <<"u1">>, Op("/", U1, ToType(UChar, N(7)))),
    Compute1("returnU", <<"u1">>, Op("%", U1, ToType(UChar, N(7)))),
    Compute1("returnU", <<"u1">>, Op("/", U1, ToType(UChar, N(3)))),
    Compute1("returnU", <<"u1">>, Op("/", U1, ToType(UChar, N(4)))),
    Compute1("returnU", <<"u1">>, Op("%", U1, ToType(UChar, N(16)))),
    Compute1("returnU", <<"u1">>, Op("/", Op("+", U1, N(1)), ToType(UChar, N(100)))),
    Compute1("returnW", <<"w1", "u2">>, Op("/", W1, U2))}

ShiftsOf == {
    Compute1("returnU", <<"u1">>, Op("<<", U1, N(1))),
    Compute1("returnU", <<"u1">>, Op("<<", U1, N(3))),
    Compute1("returnW", <<"w1">>, Op("<<", W1, N(4))),
    Compute1("returnW", <<"w1">>, Op("<<", W1, N(8))),
    Compute1("returnW", <<"w1">>, Op("<<", W1, N(9))),
    Compute1("returnW", <<"w1">>, Op(">>", W1, N(8))),
    Compute1("returnW", <<"w1">>, Op(">>", W1, N(3))),
    Compute1("returnI", <<"i1">>, Op(">>", I1, N(8))),
    Compute1("returnI", <<"i1">>, Op(">>", I1, N(2))),
    Compute1("returnU", <<"u1">>, Op(">>", U1, N(2))),
    Compute1("returnC", <<"c1">>, Op(">>", C1, N(2))),
    Compute1("returnC", <<"c1">>, Op(">>", C1, N(7))),
    Compute1("returnW", <<"w1", "u2">>, Op("<<", W1, U2)),
    Compute1("returnI", <<"i1", "u2">>, Op(">>", I1, Op("&", U2, N(15)))),
    Compute1("returnU", <<"u1", "u2">>, Op(">>", U1, Op("&", U2, N(7)))),
    Compute1("returnU", <<"u1", "w2">>, Op("<<", U1, W2)),
    Do1(<<"u1">>, <<Eff(Op("<<=", V("gu"), N(2))), Eff(Op(">>=", V("gw"), N(3))),
                    Eff(Op(">>=", V("gc"), N(1))), Eff(Op("<<=", V("gi"), N(8)))>>),
    Do1(<<"u1">>, <<Eff(Op("<<=", V("gw"), Op("&", U1, N(7)))), Eff(Op(">>=", V("gu"), Op("&", U1, N(3))))>>),
    Do1(<<"q">>, <<Eff(Op("<<=", Elem(V("q"), N(1)), N(1))), Eff(Op(">>=", Op1("*", V("q")), N(4)))>>)}

Unaries == {
    Compute1("returnI", <<"i1">>, Op1("-", I1)), Compute1("returnU", <<"u1">>, Op1("-", U1)),
    Compute1("returnI", <<"i1">>, Op1("~", I1)), Compute1("returnU", <<"u1">>, Op1("~", U1)),
    Compute1("returnU", <<"i1">>, Op1("!", I1)), Compute1("returnU", <<"u1">>, Op1("!", U1)),
    Compute1("returnI", <<"i1">>, Op1("-", Op("*", I1, N(3)))),
    Compute1("returnU", <<"i1", "i2">>, Op1("!", Op("<", I1, I2))),
    Compute1("returnI", <<"i1">>, Op("+", Op1("e++", I1), V("gi"))),
    Compute1("returnU", <<"u1">>, Op("+", Op1("++e", U1), V("gu"))),
    Compute1("returnI", <<"i1">>, Op("-", Op1("--e", I1), N(1))),
    Compute1("returnU", <<"u1">>, Op1("e--", U1)),
    Do1(<<>>, <<Eff(Op1("e++", V("gi"))), Eff(Op1("--e", V("gu"))), Eff(Op1("e++", V("gq"))), Eff(Op1("e--", V("gp")))>>),
    Do1(<<"q">>, <<Eff(Op1("e++", Op1("*", V("q")))), Eff(Op1("--e", Elem(V("q"), N(1))))>>)}

Pointers == {
    Compute1("returnU", <<"p">>, Op1("*", V("p"))), Compute1("returnI", <<"q">>, Op1("*", V("q"))),
    Compute1("returnU", <<"p">>, Elem(V("p"), N(2))), Compute1("returnI", <<"q">>, Elem(V("q"), N(1))),
    Compute1("returnU", <<"p", "u2">>, Elem(V("p"), Op("&", U2, ByteNum(3)))),
    Compute1("returnI", <<"u1">>, Elem(V("gb"), Op("&", U1, ByteNum(1)))),
    Compute1("returnI", <<"i1">>, Elem(V("gb"), Op("&", I1, N(1)))),
    Compute1("returnU", <<"i1">>, Elem(V("ga"), Op("&", I1, N(3)))),
    Compute1("returnU", <<"p">>, Op1("*", Op("+", V("p"), N(1)))),
    Compute1("returnI", <<"q", "u2">>, Op1("*", Op("+", V("q"), Op("&", U2, ByteNum(1))))),
    Compute1("returnW", <<"q">>, Op("-", V("q"), V("gb"))),
    Compute1("returnW", <<"p">>, Op("-", Op("+", V("p"), N(3)), V("ga"))),
    Compute1("returnP", <<"p">>, Op1("&", Elem(V("p"), N(3)))),
    Compute1("returnU", <<"p">>, Op1("*", Op1("e++", V("p")))),
    Compute1("returnI", <<"q">>, Op1("*", Op1("++e", V("q")))),
    Compute1("returnI", <<"i1">>, Op1("*", Op1("&", I1))),
    Do1(<<"p", "u2">>, <<Eff(Op("=", Op1("*", V("p")), U2)), Eff(Op("=", Elem(V("p"), N(1)), N(7)))>>),
    Do1(<<"q", "i2">>, <<Eff(Op("=", Op1("*", V("q")), I2)), Eff(Op("=", Elem(V("q"), N(1)), Op("+", I2, N(1))))>>),
    Do1(<<"i1">>, <<Eff(Op("=", Elem(V("gb"), N(1)), I1)), Eff(Op("=", Elem(V("ga"), Op("&", I1, N(3))), N(9)))>>),
    Do1(<<"p">>, <<Eff(Op("=", Op1("*", Op1("e++", V("p"))), N(5))), Eff(Op("=", Op1("*", V("p")), N(6)))>>),
    Do1(<<"u1">>, <<Eff(Op("=", Op1("*", ToType(PointerTo(UChar), N(12))), N(33))),
                    Eff(Op("=", Op1("*", ToType(PointerTo(UChar), N(13))), U1))>>),
    Do1(<<"q">>, <<Eff(Op("=", Op1("*", ToType(PointerTo(UChar), V("q"))), ByteNum(33))),
                   Eff(Op("=", Op1("*", ToType(PointerTo(SInt), V("gp"))), N(258)))>>),
    Do1(<<"q", "i2">>, <<Eff(Op("+=", Op1("*", V("q")), I2)), Eff(Op("-=", Elem(V("q"), N(1)), I2))>>),
    Do1(<<"p", "u2">>, <<Eff(Op("+=", Op1("*", V("p")), U2)), Eff(Op("*=", Elem(V("p"), N(1)), U2))>>),
    Do1(<<"q", "i2">>, <<Eff(Op("*=", Op1("*", V("q")), I2)), Eff(Op("^=", Elem(V("q"), N(1)), I2))>>),
    Do1(<<"u2">>, <<Eff(Op("+=", V("gp"), U2)), Eff(Op("-=", V("gq"), U2)), Eff(Op("+=", V("gq"), N(2)))>>)}

Assigned1 == {
    Do1(<<"i2">>, <<Eff(Op("+=", V("gi"), I2)), Eff(Op("-=", V("gi"), N(5))), Eff(Op("*=", V("gi"), I2))>>),
    Do1(<<"i2">>, <<Eff(Op("/=", V("gi"), I2))>>), Do1(<<"i2">>, <<Eff(Op("%=", V("gi"), I2))>>),
    Do1(<<"w2">>, <<Eff(Op("/=", V("gw"), W2))>>), Do1(<<"u2">>, <<Eff(Op("%=", V("gw"), U2))>>),
    Do1(<<"u2">>, <<Eff(Op("&=", V("gu"), U2)), Eff(Op("|=", V("gi"), N(4660))), Eff(Op("^=", V("gw"), U2))>>),
    Do1(<<"u2">>, <<Eff(Op("*=", V("gu"), U2)), Eff(Op("+=", V("gu"), N(3)))>>),
    Do1(<<"c1">>, <<Eff(Op("=", V("gi"), C1)), Eff(Op("=", V("gw"), Op("=", V("gu"), C1)))>>),
    Do1(<<"i1">>, <<Eff(Op("=", V("gc"), I1)), Eff(Op("=", V("gu"), Op("+", I1, N(1))))>>),
    Compute1("returnI", <<"i1">>, Op("=", V("gi"), Op("+", I1, N(1)))),
    Compute1("returnU", <<>>, Op("=", V("gu"), N(0)))}

Conversions == {
    Compute1("returnC", <<"i1">>, ToType(SChar, I1)), Compute1("returnI", <<"c1">>, ToType(SInt, C1)),
    Compute1("returnW", <<"u1">>, ToType(UInt, U1)), Compute1("returnI", <<"c1", "u2">>, Op("+", ToType(SInt, C1), U2)),
    Compute1("returnI", <<"c1">>, C1), Compute1("returnU", <<"i1">>, I1),
    Compute1("returnU", <<"w1">>, ToType(UChar, Op(">>", W1, N(8)))),
    Compute1("returnU", <<"w1">>, Op("&", ToType(UChar, W1), N(15))),
    Compute1("returnI", <<"i1", "i2">>, Choice(Op("<", I1, I2), I1, I2)),
    Compute1("returnI", <<"c1", "i2">>, Choice(Op(">", I2, N(1)), C1, I2)),
    Compute1("returnU", <<"u1">>, Choice(U1, N(1), N(2))),
    Compute1("returnI", <<"i1">>, Both(Op("=", V("gi"), I1), Op("+", I1, N(2)))),
    Compute1("returnU", <<"i1", "i2">>, Op("&&", Op("<", I1, I2), Op("!=", I2, N(7)))),
    Compute1("returnU", <<"i1", "u2">>, Op("||", Op("==", I1, N(300)), Op(">", U2, N(3)))),
    Compute1("returnW", <<>>, SizeOf(ArrayOf(3, SInt)))}

Trees == CallsOfFunctions \cup Declarations \cup Conditionals \cup LoopsOf \cup Switches \cup Products1
           \cup Quotients \cup ShiftsOf \cup Unaries \cup Pointers \cup Assigned1 \cup Conversions
TypedFunction(f) == Function(f.name, f.params, SetTypesIn(f.body))
MCPrograms == {[functions |-> Each(TypedFunction, p.functions), arguments |-> p.arguments] : p \in Trees}

-----------------------------------------------------------------------------
(* A continue in a switch in a loop: JumpStmt::emitCode() emits no code for a  *)
(* continue that has no label to go to, "error message issued elsewhere".      *)

\* for (gu = 0; gu < 3; gu++) { switch (gu) { case 1: continue; case 0: gi = i1; break; } gw++; }
SkippingOne ==
    Run1("returnI", <<"i1">>, <<CountTo("gu", ByteNum(3),
        <<Switch(V("gu"), Block(<<Case(N(1), Continue), Case(N(0), Set1("gi", I1)), Break>>)), Eff(Op1("e++", V("gw")))>>),
        Ret(V("gi"))>>)
\* The same with the continue out of any loop, which is refused.
OutOfLoop ==
    Run1("returnI", <<"i1">>, <<Switch(I1, Block(<<Case(N(1), Continue), Case(N(0), Set1("gi", N(5))), Break>>)), Ret(V("gi"))>>)
JumpPrograms ==
    {[functions |-> Each(TypedFunction, p.functions), arguments |-> p.arguments] : p \in {SkippingOne, OutOfLoop}}

(* JumpStmt.cpp:191: a continue is either refused by the compiler, with an     *)
(* error message, or it does what the C source means.                          *)
ContinueRefusedOrObeyed ==
    (\A k \in DOMAIN program.functions : ~ HasMisplacedJump(program.functions[k].body, FALSE, FALSE))
        => MeansTheSource
==============================================================================
