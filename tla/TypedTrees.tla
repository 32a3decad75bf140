----------------------------- MODULE TypedTrees -----------------------------
(* The expression and statement trees of CMOC once typed: the typing of        *)
(* ExpressionTypeSetter.cpp, the constants of Tree.cpp, the sizes of           *)
(* UnaryOpExpr.cpp and TypeManager.cpp.                                        *)
(*                                                                             *)
(* A tree is a record.  A type is a byte, a word, a pointer, an array or void; *)
(* structures, longs and reals are left out.  An expression carries its type,  *)
(* its value as uint16_t, NotConst when it is not a constant expression, and   *)
(* whether the value it yields is needed.  An identifier stands for the        *)
(* declaration it was resolved to, so that it has one type.                    *)
EXTENDS Integers, Sequences, SequencesExt, Bitwise

CONSTANTS
    TypeOfVar,    \* [identifiers -> types]
    Prototypes    \* [function names -> [returns |-> a type, params |-> a sequence of types]]

Type(kind, size, signed, to) == [kind |-> kind, size |-> size, signed |-> signed, to |-> to]
ByteType(signed) == Type("byte", 1, signed, <<>>)
WordType(signed) == Type("word", 2, signed, <<>>)
VoidType         == Type("void", 0, FALSE, <<>>)
PointerTo(t)     == Type("pointer", 2, FALSE, <<t>>)
ArrayOf(n, t)    == Type("array", n * t.size, FALSE, <<t>>)
Pointed(t)       == t.to[1]
IsPtrOrArray(t)  == t.kind \in {"pointer", "array"}
IsIntegral(t)    == t.kind \in {"byte", "word"}

Bitwises    == {"|", "^", "&"}
Sums        == {"+", "-"}
Products    == {"*", "/", "%"}
Shifts      == {"<<", ">>"}
Arithmetic  == Sums \cup Bitwises
Orders      == {"<", "<=", ">", ">="}
Relations   == {"==", "!="} \cup Orders
Logicals    == {"&&", "||"}
Assignments == {"=", "+=", "-=", "*=", "/=", "%=", "<<=", ">>=", "&=", "|=", "^="}
Increments  == {"++e", "--e", "e++", "e--"}

-----------------------------------------------------------------------------
Sign16(v) == IF v >= 32768 THEN v - 65536 ELSE v
Truth(p)  == IF p THEN 1 ELSE 0

NotConst    == -1
TypeOf(t)   == t.type
Evaluate(t) == t.value
IsVar(t)    == t.k = "var"
IsConst(t)  == Evaluate(t) # NotConst
IsSigned(t) == TypeOf(t).signed
IsByte(t)   == TypeOf(t).kind = "byte"
IsUnary(t, ops) == t.k = "un" /\ t.op \in ops
IsBinary(t, ops) == t.k = "bin" /\ t.op \in ops

IsUnsignedOrPositiveConst(t) ==
    \/ ~ IsSigned(t)
    \/ IsConst(t) /\ (IF IsByte(t) THEN Evaluate(t) % 256 <= 127 ELSE Evaluate(t) <= 32767)

\* is8BitConstant(): a value of 0..255, or a negative one that a byte holds.
Is8BitConstant(t) ==
    /\ IsConst(t)
    /\ \/ Evaluate(t) <= 255
       \/ Sign16(Evaluate(t)) \in -128..-1 /\ IsSigned(t)
Fits8Bits(t) == IsByte(t) \/ Is8BitConstant(t)
\* is8BitConstant() hands on the value as a uint8_t, which is never negative.
Fits8BitsWithSignedness(t) ==
    IF Is8BitConstant(t) THEN IsSigned(t) => Evaluate(t) % 256 <= 127 ELSE IsByte(t)

\* The quotient and the remainder of C, cut towards zero; v / 0 is no constant.
Magnitude(v) == IF v < 0 THEN -v ELSE v
Quotient(l, r) == LET q == Magnitude(l) \div Magnitude(r) IN IF (l < 0) # (r < 0) THEN -q ELSE q
Remainder(l, r) == l - r * Quotient(l, r)
Low16Product(l, r) == (l * (r % 256) + 256 * ((l * (r \div 256)) % 256)) % 65536

FoldProduct(o, signed, l, r) ==
    LET side(v) == IF signed THEN Sign16(v) ELSE v
    IN  CASE o = "*" -> Low16Product(l, r)
          [] r = 0   -> NotConst
          [] o = "/" -> Quotient(side(l), side(r)) % 65536
          [] o = "%" -> Remainder(side(l), side(r)) % 65536

Fold(o, signedLeft, signed, l, r) ==
    CASE o = "+"  -> (l + r) % 65536   [] o = "-"  -> (l - r) % 65536
      [] o = "|"  -> l | r             [] o = "^"  -> l ^^ r
      [] o = "&"  -> l & r
      [] o \in Products -> FoldProduct(o, signed, l, r)
      [] o = "<<" -> IF r >= 16 THEN 0 ELSE (l * 2 ^ r) % 65536
      [] o = ">>" -> (IF signedLeft THEN Sign16(l) ELSE l) \div 2 ^ r % 65536
      [] o = "==" -> Truth(l = r)      [] o = "!=" -> Truth(l # r)
      [] o = "<"  -> Truth(l < r)      [] o = "<=" -> Truth(l <= r)
      [] o = ">"  -> Truth(l > r)      [] o = ">=" -> Truth(l >= r)
      [] o = "&&" -> Truth(l # 0 /\ r # 0)
      [] o = "||" -> Truth(l # 0 \/ r # 0)
      [] OTHER    -> NotConst

\* The value of a binary operation: a signed byte is extended first.
EvaluateBinary(o, l, r) ==
    LET side(t) == IF Evaluate(t) >= 128 /\ TypeOf(t) = ByteType(TRUE)
                   THEN Evaluate(t) | 65280 ELSE Evaluate(t)
    IN  IF IsConst(l) /\ IsConst(r)
        THEN Fold(o, IsSigned(l), IsSigned(l) /\ IsSigned(r), side(l), side(r)) ELSE NotConst

EvaluateUnary(o, e) ==
    LET v == Evaluate(e)
    IN  IF ~ IsConst(e) THEN NotConst
        ELSE CASE o = "-" -> (-v) % 65536 [] o = "!" -> Truth(v = 0) [] o = "~" -> 65535 - v
               [] OTHER -> NotConst

EvaluateCast(type, e) ==
    LET low == Evaluate(e) % 256
    IN  IF ~ IsConst(e) \/ ~ IsIntegral(type) THEN NotConst
        ELSE IF type.size = 2 THEN Evaluate(e)
        ELSE IF type.signed /\ low >= 128 THEN low | 65280 ELSE low

-----------------------------------------------------------------------------
(* Types of operations.                                                      *)
BinOpTypeForDiffSizedOperands(l, r) ==
    (IF Fits8Bits(l) /\ Fits8Bits(r) THEN ByteType(~ IsUnsignedOrPositiveConst(l))
     ELSE WordType(~ IsUnsignedOrPositiveConst(l)))

TypeOfBinary(o, l, r) ==
    LET lt == TypeOf(l)
        rt == TypeOf(r)
    IN  IF o = "[]" THEN Pointed(lt)
        ELSE IF o \in Relations \cup Logicals THEN ByteType(FALSE)
        ELSE IF o \in Assignments \cup Shifts THEN lt
        ELSE IF o = "-" /\ IsPtrOrArray(lt) /\ IsPtrOrArray(rt) THEN WordType(FALSE)
        ELSE IF IsPtrOrArray(lt) THEN lt
        ELSE IF IsPtrOrArray(rt) THEN rt
        ELSE IF IsByte(l) # IsByte(r) THEN BinOpTypeForDiffSizedOperands(l, r)
        ELSE lt

TypeOfUnary(o, e) ==
    LET t == TypeOf(e)
    IN  CASE o = "&" -> IF t.kind = "array" THEN PointerTo(Pointed(t)) ELSE PointerTo(t)
          [] o = "*" -> Pointed(t)
          [] o = "!" -> ByteType(FALSE)
          [] o = "-" -> IF IsByte(e) THEN ByteType(TRUE) ELSE WordType(TRUE)
          [] OTHER   -> t

\* The type of ?: is that of a byte where the other side fits one.
TypeOfConditional(t, f) ==
    LET byte(e) == ByteType(IsSigned(e))
    IN  IF Is8BitConstant(t) /\ Is8BitConstant(f) THEN byte(t)
        ELSE IF IsByte(t) /\ Is8BitConstant(f) THEN byte(t)
        ELSE IF Is8BitConstant(t) /\ IsByte(f) THEN byte(f)
        ELSE IF IsPtrOrArray(TypeOf(t)) \/ TypeOf(t).size >= TypeOf(f).size THEN TypeOf(t)
        ELSE TypeOf(f)

-----------------------------------------------------------------------------
(* Trees.  A constant is loaded as a byte when its parent forces it.         *)
Expression(k, type, value) == [k |-> k, type |-> type, value |-> value, needed |-> TRUE]
ForcedAsByte(t) == IF t.k = "const" THEN [t EXCEPT !.forced = TRUE] ELSE t

Var(id)   == Expression("var", TypeOfVar[id], NotConst) @@ [id |-> id]
Num(v)    == Expression("const", WordType(v <= 32767), v) @@ [forced |-> FALSE]
Un(o, e)  == Expression("un", TypeOfUnary(o, e), EvaluateUnary(o, e)) @@ [op |-> o, e |-> e]
Neg(v)    == Un("-", Num(v))
Sizeof(t) == Expression("un", WordType(FALSE), t.size) @@ [op |-> "sizeof", e |-> Num(0)]
Cast(t, e) == Expression("cast", t, EvaluateCast(t, e)) @@ [e |-> e]
Cond(c, t, f) == Expression("cond", TypeOfConditional(t, f), NotConst)
                    @@ [c |-> c, then |-> t, else |-> f]
Comma(l, r) == Expression("comma", TypeOf(r), NotConst) @@ [l |-> l, r |-> r]
CallTo(f, args) == Expression("call", Prototypes[f].returns, NotConst) @@ [f |-> f, args |-> args]
Bin(o, l, r) ==
    LET type == TypeOfBinary(o, l, r)
        all == o \in {"+", "-", "*"} /\ type.kind = "byte"
        right == all \/ (o = "=" /\ IsByte(l))
    IN  Expression("bin", type, EvaluateBinary(o, l, r))
          @@ [op |-> o, l |-> IF all THEN ForcedAsByte(l) ELSE l,
              r |-> IF right THEN ForcedAsByte(r) ELSE r]
At(a, e) == Bin("[]", a, e)

IsSignedComparison(e) == IsSigned(e.l) /\ IsSigned(e.r)

\* Statements.  The value of an expression that is a statement is not needed.
Do(e)         == [k |-> "expr", e |-> [e EXCEPT !.needed = FALSE]]
Assign(id, e) == Do(Bin("=", Var(id), e))
\* What initializes a variable, what a function returns, the condition of a for and
\* its other two parts are sequences of at most one expression.
Declare(id, es) == [k |-> "decl", id |-> id, es |-> es]
If(c, s, t)   == [k |-> "if", c |-> c, then |-> s, else |-> t]
While(c, s)   == [k |-> "while", c |-> c, body |-> s]
DoWhile(s, c) == [k |-> "do", c |-> c, body |-> s]
For(i, c, n, s) ==
    LET unneeded(es) == [k \in DOMAIN es |-> [es[k] EXCEPT !.needed = FALSE]]
    IN  [k |-> "for", init |-> unneeded(i), c |-> c, next |-> unneeded(n), body |-> s]
Switch(e, s)  == [k |-> "switch", e |-> e, body |-> s]
Case(v, s)    == [k |-> "case", v |-> v, s |-> s]
Default(s)    == [k |-> "default", s |-> s]
Labeled(id, s) == [k |-> "label", id |-> id, s |-> s]
Goto(id)      == [k |-> "goto", id |-> id]
Break         == [k |-> "break"]
Continue      == [k |-> "continue"]
Return(es)    == [k |-> "return", es |-> es]
Asm           == [k |-> "asm"]
Block(ss)     == [k |-> "block", ss |-> ss]

Children(s) ==
    CASE s.k = "block" -> s.ss
      [] s.k = "if"    -> <<s.then, s.else>>
      [] s.k \in {"while", "do", "for", "switch"} -> <<s.body>>
      [] s.k \in {"case", "default", "label"}     -> <<s.s>>
      [] OTHER -> <<>>

-----------------------------------------------------------------------------
(* ExpressionTypeSetter visits the tree of the parser, the records above       *)
(* without type, value and needed, from the leaves up.                         *)
RECURSIVE SetTypes(_)
SetTypes(e) ==
    CASE e.k = "var"   -> Var(e.id)
      [] e.k = "const" -> Num(e.v)
      [] e.k = "un"    -> IF e.op = "sizeof" THEN Sizeof(e.of) ELSE Un(e.op, SetTypes(e.e))
      [] e.k = "cast"  -> Cast(e.to, SetTypes(e.e))
      [] e.k = "cond"  -> Cond(SetTypes(e.c), SetTypes(e.then), SetTypes(e.else))
      [] e.k = "comma" -> Comma(SetTypes(e.l), SetTypes(e.r))
      [] e.k = "call"  -> CallTo(e.f, [k \in DOMAIN e.args |-> SetTypes(e.args[k])])
      [] e.k = "bin"   -> Bin(e.op, SetTypes(e.l), SetTypes(e.r))
Each(Typed(_), es) == [k \in DOMAIN es |-> Typed(es[k])]

RECURSIVE SetTypesIn(_)
SetTypesIn(s) ==
    CASE s.k = "expr"   -> Do(SetTypes(s.e))
      [] s.k = "decl"   -> Declare(s.id, Each(SetTypes, s.es))
      [] s.k = "if"     -> If(SetTypes(s.c), SetTypesIn(s.then), SetTypesIn(s.else))
      [] s.k = "while"  -> While(SetTypes(s.c), SetTypesIn(s.body))
      [] s.k = "do"     -> DoWhile(SetTypesIn(s.body), SetTypes(s.c))
      [] s.k = "for"    -> For(Each(SetTypes, s.init), Each(SetTypes, s.c), Each(SetTypes, s.next),
                               SetTypesIn(s.body))
      [] s.k = "switch" -> Switch(SetTypes(s.e), SetTypesIn(s.body))
      [] s.k = "case"   -> Case(SetTypes(s.v), SetTypesIn(s.s))
      [] s.k = "default" -> Default(SetTypesIn(s.s))
      [] s.k = "label"  -> Labeled(s.id, SetTypesIn(s.s))
      [] s.k = "return" -> Return(Each(SetTypes, s.es))
      [] s.k = "block"  -> Block(Each(SetTypesIn, s.ss))
      [] OTHER -> s

\* Functions.  A parameter and a local variable have an identifier of their own.
Function(name, params, body) == [name |-> name, params |-> params, body |-> body]
=============================================================================
