------------------------------ MODULE CSemantics ------------------------------
(* What expressions, statements and functions mean, independently of the code  *)
(* emitted for them: the reference against which the code generator, the       *)
(* optimizer and the 6809 are checked.  The types are those that CMOC gives to *)
(* the expressions; the rest is the C rule that an operation is made on the    *)
(* values of its operands, each extended to 16 bits by its own signedness, and *)
(* cut to its own type.                                                        *)
(*                                                                             *)
(* A state is the bytes of memory, the addresses of the variables, and the     *)
(* functions that may be called.  Where C leaves the order of two effects open *)
(* the programs do not depend on it.                                           *)
EXTENDS TypedTrees

\* The 16-bit pattern of the value v of the expression e.
Extended(t, v) ==
    IF t.kind = "byte" /\ t.signed /\ v % 256 >= 128 THEN (v % 256) + 65280
    ELSE IF t.kind = "byte" THEN v % 256 ELSE v
ToWord(e, v) == Extended(TypeOf(e), v)
Cut(v, type) == IF type.size = 1 THEN v % 256 ELSE v % 65536

\* Memory.
ByteAt(st, a) == IF a \in DOMAIN st.mem THEN st.mem[a] ELSE 0
ReadAt(st, type, a) == IF type.size = 1 THEN ByteAt(st, a) ELSE 256 * ByteAt(st, a) + ByteAt(st, a + 1)
WriteAt(st, type, a, v) ==
    IF type.size = 1 THEN [st EXCEPT !.mem = (a :> v % 256) @@ @]
    ELSE [st EXCEPT !.mem = (a :> (v \div 256) % 256) @@ ((a + 1) :> v % 256) @@ @]

\* An operation on two 16-bit patterns.
Before(signed, x, y) == IF signed THEN Sign16(x) < Sign16(y) ELSE x < y
ComputeProduct(op, signed, x, y) ==
    LET lhs == IF signed THEN Sign16(x) ELSE x
        rhs == IF signed THEN Sign16(y) ELSE y
    IN  CASE op = "*" -> Low16Product(x, y)
          [] op = "/" -> Quotient(lhs, rhs)
          [] op = "%" -> Remainder(lhs, rhs)
Compute(op, signed, x, y) ==
    CASE op = "+" -> x + y                [] op = "-" -> x - y
      [] op \in Products -> ComputeProduct(op, signed, x, y)
      [] op = "&" -> x & y                [] op = "|" -> x | y
      [] op = "^" -> x ^^ y
      [] op = "<<" -> IF y >= 16 THEN 0 ELSE (x * 2 ^ y) % 65536
      [] op = ">>" -> (IF signed THEN Sign16(x) ELSE x) \div 2 ^ y
      [] op = "==" -> Truth(x = y)        [] op = "!=" -> Truth(x # y)
      [] op = "<"  -> Truth(Before(signed, x, y))
      [] op = ">"  -> Truth(Before(signed, y, x))
      [] op = "<=" -> Truth(~ Before(signed, y, x))
      [] op = ">=" -> Truth(~ Before(signed, x, y))

\* The operation of e, or of a compound assignment, on both sides.
OperationOf == ("+=" :> "+") @@ ("-=" :> "-") @@ ("*=" :> "*") @@ ("/=" :> "/") @@ ("%=" :> "%")
               @@ ("<<=" :> "<<") @@ (">>=" :> ">>") @@ ("&=" :> "&") @@ ("|=" :> "|") @@ ("^=" :> "^")
Scale(t) == IF IsPtrOrArray(t) /\ Pointed(t).size > 0 THEN Pointed(t).size ELSE 1
Combine(op, l, r, x, y) ==
    LET lt == TypeOf(l)
        rt == TypeOf(r)
        signed == IF op \in Shifts THEN lt.signed ELSE lt.signed /\ rt.signed
    IN  IF op \in Sums /\ IsPtrOrArray(lt) /\ IsPtrOrArray(rt) THEN Sign16((x - y) % 65536) \div Scale(lt)
        ELSE IF op \in Sums /\ IsPtrOrArray(lt) THEN Compute(op, FALSE, x, Low16Product(y, Scale(lt)))
        ELSE IF op \in Sums /\ IsPtrOrArray(rt) THEN Compute(op, FALSE, Low16Product(x, Scale(rt)), y)
        ELSE Compute(op, signed, x, y)

-----------------------------------------------------------------------------
(* Expressions.  A result is a pattern of the expression's type, and the state *)
(* after its effects.                                                        *)
Gives(v, st) == [v |-> v, st |-> st]
\* What comes after the result r.
With(r, Rest(_)) == CHOOSE y \in {Rest(x) : x \in {r}} : TRUE

RECURSIVE Eval(_, _)
RECURSIVE AddressOf(_, _)
RECURSIVE ResultOfCall(_, _, _)

AddressOf(e, st) ==
    CASE e.k = "var" -> Gives(st.at[e.id], st)
      [] IsUnary(e, {"*"}) -> Eval(e.e, st)
      [] IsBinary(e, {"[]"}) ->
            With(Eval(e.l, st), LAMBDA base :
            With(Eval(e.r, base.st), LAMBDA index :
                Gives((base.v + Low16Product(ToWord(e.r, index.v), Scale(TypeOf(e.l)))) % 65536, index.st)))

\* An l-value that is an array is its address.
Fetch(e, at) == Gives(IF TypeOf(e).kind = "array" THEN at.v ELSE ReadAt(at.st, TypeOf(e), at.v), at.st)

EvalSides(e, st) ==
    With(Eval(e.l, st), LAMBDA left :
    With(Eval(e.r, left.st), LAMBDA right :
        Gives(Cut(Combine(e.op, e.l, e.r, ToWord(e.l, left.v), ToWord(e.r, right.v)), TypeOf(e)), right.st)))

EvalLogical(e, st) ==
    With(Eval(e.l, st), LAMBDA left :
        IF (left.v # 0) = (e.op = "||") THEN Gives(Truth(left.v # 0), left.st)
        ELSE With(Eval(e.r, left.st), LAMBDA right : Gives(Truth(right.v # 0), right.st)))

EvalAssignment(e, st) ==
    LET assigned(x, y) == Cut(IF e.op = "=" THEN y ELSE Combine(OperationOf[e.op], e.l, e.r, x, y), TypeOf(e))
        old(dest) == ToWord(e.l, ReadAt(dest.st, TypeOf(e), dest.v))
    IN  With(Eval(e.r, st), LAMBDA right :
        With(AddressOf(e.l, right.st), LAMBDA dest :
        With(assigned(old(dest), ToWord(e.r, right.v)), LAMBDA v :
            Gives(v, WriteAt(dest.st, TypeOf(e), dest.v, v)))))

EvalIncrement(e, st) ==
    LET step == IF TypeOf(e).kind = "pointer" THEN Pointed(TypeOf(e)).size ELSE 1
        after(before) == Cut(IF e.op \in {"++e", "e++"} THEN before + step ELSE before - step, TypeOf(e))
    IN  With(AddressOf(e.e, st), LAMBDA dest :
        With(ReadAt(dest.st, TypeOf(e), dest.v), LAMBDA before :
            Gives(IF e.op \in {"++e", "--e"} THEN after(before) ELSE before,
                  WriteAt(dest.st, TypeOf(e), dest.v, after(before)))))

EvalUnary(e, st) ==
    LET result(w) == CASE e.op = "-" -> Cut(-w, TypeOf(e))
                       [] e.op = "~" -> Cut(65535 - w, TypeOf(e))
                       [] e.op = "!" -> Truth(w = 0)
    IN  CASE e.op = "sizeof" -> Gives(e.value, st)
          [] e.op \in Increments -> EvalIncrement(e, st)
          [] e.op = "&" -> AddressOf(e.e, st)
          [] e.op = "*" -> With(Eval(e.e, st), LAMBDA inner : Fetch(e, inner))
          [] OTHER -> With(Eval(e.e, st), LAMBDA inner : Gives(result(ToWord(e.e, inner.v)), inner.st))

FunctionNamed(f, st) == st.functions[CHOOSE k \in DOMAIN st.functions : st.functions[k].name = f]

\* The arguments are passed as words, evaluated from the last one.
EvalCall(e, st) ==
    LET pass(t, a) == With(Eval(t, a.st), LAMBDA r : [st |-> r.st, args |-> <<ToWord(t, r.v)>> \o a.args])
    IN  With(FoldRight(pass, e.args, [st |-> st, args |-> <<>>]), LAMBDA passed :
            ResultOfCall(FunctionNamed(e.f, st), passed.args, passed.st))

\* The value of part, of the type of e.
EvalAs(e, part, st) ==
    With(Eval(part, st), LAMBDA r : Gives(Cut(ToWord(part, r.v), TypeOf(e)), r.st))

Eval(e, st) ==
    CASE e.k = "const" -> Gives(e.value, st)
      [] e.k = "var"   -> Fetch(e, Gives(st.at[e.id], st))
      [] e.k = "un"    -> EvalUnary(e, st)
      [] e.k = "bin" /\ e.op \in Assignments -> EvalAssignment(e, st)
      [] e.k = "bin" /\ e.op \in Logicals    -> EvalLogical(e, st)
      [] e.k = "bin" /\ e.op = "[]"          -> With(AddressOf(e, st), LAMBDA at : Fetch(e, at))
      [] e.k = "bin" /\ e.op \notin Assignments \cup Logicals \cup {"[]"} -> EvalSides(e, st)
      [] e.k = "cast"  -> EvalAs(e, e.e, st)
      [] e.k = "cond"  -> With(Eval(e.c, st), LAMBDA test :
                              EvalAs(e, IF test.v # 0 THEN e.then ELSE e.else, test.st))
      [] e.k = "comma" -> With(Eval(e.l, st), LAMBDA left : Eval(e.r, left.st))
      [] e.k = "call"  -> EvalCall(e, st)

-----------------------------------------------------------------------------
(* Statements.  One ends normally, by a jump out of it, or by a return of v.   *)
After(st)       == [st |-> st, how |-> "next", to |-> "", v |-> 0]
Leaves(st, how, to) == [After(st) EXCEPT !.how = how, !.to = to]

RECURSIVE Meaning(_, _)
RECURSIVE RunFrom(_, _, _)
RECURSIVE Loop(_, _)

\* The statements of ss from the k-th on; a goto may lead to one of them.
RunFrom(ss, k, st) ==
    IF k > Len(ss) THEN After(st)
    ELSE LET labelled(id) == {j \in DOMAIN ss : ss[j].k = "label" /\ ss[j].id = id}
         IN  With(Meaning(ss[k], st), LAMBDA r :
                 IF r.how = "next" THEN RunFrom(ss, k + 1, r.st)
                 ELSE IF r.how = "goto" /\ labelled(r.to) # {}
                 THEN RunFrom(ss, CHOOSE j \in labelled(r.to) : TRUE, r.st)
                 ELSE r)

\* What follows a statement that break leaves.
Broken(r) == IF r.how = "break" THEN After(r.st) ELSE r

\* A loop from its test on; it has a condition and what follows the body.
Loop(s, st) ==
    LET goOn(body) == IF s.next = <<>> THEN Loop(s, body.st)
                      ELSE With(Eval(s.next[1], body.st), LAMBDA next : Loop(s, next.st))
    IN  With(IF s.c = <<>> THEN Gives(1, st) ELSE Eval(s.c[1], st), LAMBDA test :
            IF test.v = 0 THEN After(test.st)
            ELSE With(Meaning(s.body, test.st), LAMBDA body :
                     IF body.how \in {"next", "continue"} THEN goOn(body) ELSE Broken(body)))
LoopOf(c, next, body) == [c |-> c, next |-> next, body |-> body]

MeaningOfDo(s, st) ==
    With(Meaning(s.body, st), LAMBDA first :
        IF first.how \in {"next", "continue"} THEN Loop(LoopOf(<<s.c>>, <<>>, s.body), first.st)
        ELSE Broken(first))

\* The cases of a switch are among the statements of its block.
MeaningOfSwitch(s, st) ==
    LET value(t, v) == IF t.signed THEN Sign16(Extended(t, v)) ELSE Extended(t, v)
        ss == s.body.ss
        matching(e) == {k \in DOMAIN ss : ss[k].k = "case"
                            /\ value(TypeOf(ss[k].v), Evaluate(ss[k].v)) = value(TypeOf(s.e), e.v)}
        default == {k \in DOMAIN ss : ss[k].k = "default"}
        from(starts, e) == IF starts = {} THEN After(e.st)
                           ELSE With(RunFrom(ss, CHOOSE k \in starts : TRUE, e.st), LAMBDA r : Broken(r))
    IN  With(Eval(s.e, st), LAMBDA e : from(IF matching(e) # {} THEN matching(e) ELSE default, e))

StoreAs(id, e, st) ==
    With(Eval(e, st), LAMBDA r :
        After(WriteAt(r.st, TypeOfVar[id], r.st.at[id], Cut(ToWord(e, r.v), TypeOfVar[id]))))

Meaning(s, st) ==
    CASE s.k = "expr"  -> After(Eval(s.e, st).st)
      [] s.k = "decl"  -> IF s.es = <<>> THEN After(st) ELSE StoreAs(s.id, s.es[1], st)
      [] s.k = "if"    -> With(Eval(s.c, st), LAMBDA test :
                              Meaning(IF test.v # 0 THEN s.then ELSE s.else, test.st))
      [] s.k = "while" -> Loop(LoopOf(<<s.c>>, <<>>, s.body), st)
      [] s.k = "do"    -> MeaningOfDo(s, st)
      [] s.k = "for"   -> Loop(LoopOf(s.c, s.next, s.body), FoldLeft(LAMBDA a, e : Eval(e, a).st, st, s.init))
      [] s.k = "switch" -> MeaningOfSwitch(s, st)
      [] s.k \in {"case", "default", "label"} -> Meaning(s.s, st)
      [] s.k \in {"break", "continue"} -> Leaves(st, s.k, "")
      [] s.k = "goto"  -> Leaves(st, "goto", s.id)
      [] s.k = "return" -> IF s.es = <<>> THEN Leaves(st, "return", "")
                           ELSE With(Eval(s.es[1], st), LAMBDA r :
                                    [Leaves(r.st, "return", "") EXCEPT !.v = ToWord(s.es[1], r.v)])
      [] s.k = "block" -> RunFrom(s.ss, 1, st)
      [] s.k = "asm"   -> After(st)

-----------------------------------------------------------------------------
(* A call, with words as arguments: the variables of the function have places  *)
(* of their own, below those of its caller.                                  *)
FrameBytes == 64
RECURSIVE LocalsIn(_)
LocalsIn(s) ==
    (IF s.k = "decl" THEN <<s.id>> ELSE <<>>)
      \o FlattenSeq([k \in DOMAIN Children(s) |-> LocalsIn(Children(s)[k])])
PlaceOne(places, id) == [at |-> (id :> places.end) @@ places.at, end |-> places.end + TypeOfVar[id].size]
PlacesFrom(ids, start) == FoldLeft(PlaceOne, [at |-> <<>>, end |-> start], ids).at

ResultOfCall(f, args, st) ==
    LET base == st.base - FrameBytes
        placed == [st EXCEPT !.base = base, !.at = PlacesFrom(f.params \o LocalsIn(f.body), base) @@ @]
        pass(a, k) == WriteAt(a, TypeOfVar[f.params[k]], a.at[f.params[k]], Cut(args[k], TypeOfVar[f.params[k]]))
        returns == Prototypes[f.name].returns
    IN  With(Meaning(f.body, FoldLeft(pass, placed, [k \in DOMAIN f.params |-> k])), LAMBDA r :
            Gives(Cut(r.v, returns), [r.st EXCEPT !.base = st.base, !.at = st.at]))
==============================================================================
