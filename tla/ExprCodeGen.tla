----------------------------- MODULE ExprCodeGen -----------------------------
(* The code CMOC emits for an expression, before any optimization: the         *)
(* emitCode() methods of BinaryOpExpr, UnaryOpExpr, CastExpr, ConditionalExpr, *)
(* CommaExpr, FunctionCallExpr, VariableExpr and WordConstantExpr, on bytes,   *)
(* words, pointers and arrays (TypedTrees).  An r-value is left in B or D, an  *)
(* l-value, which is an address, in X.                                         *)
(*                                                                             *)
(* An emission operator takes what is emitted so far and returns it with its   *)
(* own part: the code, the number of the next generated label, and where the   *)
(* variables of the function are.                                              *)
EXTENDS AsmText, TypedTrees

Then(out, es)  == [out EXCEPT !.code = @ \o es]
NewLabels(out, count) == [out EXCEPT !.n = @ + count]
Lab(n)         == "L" \o ToString(n)

VarArg(out, t)   == out.frame[t.id]
Shifted(arg, k)  == [arg EXCEPT !.n = @ + k]
Bare(op)         == Ins(op, NoArg)
Utility(name)    == Ins("LBSR", Target(name))
Repeat(count, es) == [k \in 1..(count * Len(es)) |-> es[((k - 1) % Len(es)) + 1]]
Sized(op, t)     == op \o (IF t.kind = "byte" THEN "B" ELSE "D")
PushOf(t)        == Ins("PSHS", Regs(IF t.kind = "byte" THEN "B" ELSE "B,A"))
PushD            == Ins("PSHS", Regs("B,A"))
PushX            == Ins("PSHS", Regs("X"))
TfrXD            == Ins("TFR", Regs("X,D"))
TfrDX            == Ins("TFR", Regs("D,X"))

LoadIns(t)        == Sized("LD", t)
ConvToWord(t)     == Bare(IF t.signed THEN "SEX" ELSE "CLRA")
Promotion(t)      == IF IsByte(t) THEN <<ConvToWord(TypeOf(t))>> ELSE <<>>
CMPDImmediate(v)  == IF v = 0 THEN Ins("ADDD", Dec(0)) ELSE Ins("CMPD", Hex(v))
AInstr == ("|" :> "ORA") @@ ("^" :> "EORA") @@ ("&" :> "ANDA")
BInstr == ("|" :> "ORB") @@ ("^" :> "EORB") @@ ("&" :> "ANDB")

\* A constant, in hexadecimal, or a variable.
IsOperand(t) == IsVar(t) \/ IsConst(t)
OperandArg(out, t) == IF IsConst(t) THEN Hex(Evaluate(t)) ELSE VarArg(out, t)

\* BEQ ... of a relational operator.
CondBranch(e) ==
    LET s == IsSignedComparison(e)
    IN  CASE e.op = "==" -> "LBEQ" [] e.op = "!=" -> "LBNE"
          [] e.op = "<"  -> IF s THEN "LBLT" ELSE "LBLO"
          [] e.op = "<=" -> IF s THEN "LBLE" ELSE "LBLS"
          [] e.op = ">"  -> IF s THEN "LBGT" ELSE "LBHI"
          [] e.op = ">=" -> IF s THEN "LBGE" ELSE "LBHS"

\* A number: a zero is cleared, not loaded.
EmitNumber(e) ==
    IF Evaluate(e) = 0 THEN (IF e.forced THEN <<>> ELSE <<Bare("CLRA")>>) \o <<Bare("CLRB")>>
    ELSE IF e.forced THEN <<Ins("LDB", Hex(Evaluate(e) % 256))>>
    ELSE <<Ins("LDD", Hex(Evaluate(e)))>>

\* An operation on constants.
EmitConstant(e) ==
    <<Ins(LoadIns(TypeOf(e)), Hex(IF IsByte(e) THEN Evaluate(e) % 256 ELSE Evaluate(e)))>>

\* An array is its address.
LoadVar(out, e) ==
    IF TypeOf(e).kind = "array" THEN <<Ins("LEAX", VarArg(out, e)), TfrXD>>
    ELSE <<Ins(LoadIns(TypeOf(e)), VarArg(out, e))>>

\* emitCode() for an r-value, which goes to B or D, emitCode() for an l-value, whose
\* address goes to X, and emitBoolJumps().
RECURSIVE EmitCode(_, _, _)
Emit(out, e)        == EmitCode(out, e, [as |-> "value"])
EmitAddress(out, e) == EmitCode(out, e, [as |-> "address"])
EmitBoolJumps(out, c, success, failure) ==
    EmitCode(out, c, [as |-> "jumps", success |-> success, failure |-> failure])

\* One operand pushed, the other in B or D.
EmitOperands(out, first, second, bothBytes) ==
    LET promoted(t) == IF bothBytes THEN <<>> ELSE Promotion(t)
        push == <<Ins("PSHS", Regs(IF bothBytes THEN "B" ELSE "B,A"))>>
    IN  Then(Emit(Then(Emit(out, first), promoted(first) \o push), second), promoted(second))

\* emitSubExpressions(reverseOrder): the right operand is pushed.
EmitSubExpressions(out, e, bothBytes) == EmitOperands(out, e.r, e.l, bothBytes)

-----------------------------------------------------------------------------
(* Sums.  An integer that is added to a pointer counts elements.             *)
ElementSize(t) == IF Pointed(t).size = 0 THEN 1 ELSE Pointed(t).size

EmitAddImmediateAndVariable(out, e, var, imm) ==
    LET byte == IsByte(e)
        scaled == IF IsPtrOrArray(TypeOf(var)) THEN Low16Product(imm, ElementSize(TypeOf(var))) ELSE imm
    IN  Then(out,
             IF TypeOf(var).kind = "array"
             THEN <<Ins("LEAX", Shifted(VarArg(out, var), Sign16(scaled))), TfrXD>>
             ELSE LoadVar(out, var)
                    \o (IF IsByte(var) /\ ~ byte THEN Promotion(var) ELSE <<>>)
                    \o (IF scaled = 0 THEN <<>>
                        ELSE IF byte THEN <<Ins("ADDB", Hex(scaled % 256))>>
                        ELSE <<Ins("ADDD", Hex(scaled))>>))

\* The word on the stack is added to the pointer in D, or subtracted from it.
AddIntegerToPointer(op, size) ==
    CASE size <= 1 -> <<Ins(op, Inc2("S"))>>
      [] size = 2  -> <<Ins(op, Ptr("S")), Ins(op, Inc2("S"))>>
      [] OTHER     ->
            <<Ins("LDX", Inc2("S")), PushD, Ins("LDD", Dec(size)), Utility("MUL16")>>
              \o (IF op = "ADDD" THEN <<>> ELSE <<TfrDX, Ins("PULS", Regs("A,B")), PushX>>)
              \o <<Ins(op, Inc2("S"))>>

\* The number of bytes in D becomes a number of elements.
DivideBySize(size) ==
    CASE size <= 1 -> <<>>
      [] size = 2  -> <<Bare("LSRA"), Bare("RORB")>>
      [] size = 4  -> Repeat(2, <<Bare("LSRA"), Bare("RORB")>>)
      [] size = 8  -> <<Utility("divDBy8")>>
      [] size = 16 -> <<Utility("divDBy16")>>
      [] OTHER     -> <<TfrDX, Ins("LDD", Dec(size)), Utility("DIV16"), TfrXD>>

\* What is done with the left operand in D and the right one on the stack.
WordSum(e) ==
    LET lt == TypeOf(e.l)
        rt == TypeOf(e.r)
        op == IF e.op = "-" THEN "SUBD" ELSE "ADDD"
    IN  IF e.op = "+" /\ IsPtrOrArray(rt) /\ Pointed(rt).kind = "word" /\ IsIntegral(lt)
        THEN <<Bare("LSLB"), Bare("ROLA"), Ins("ADDD", Inc2("S"))>>
        ELSE IF e.op = "+" /\ IsPtrOrArray(rt) THEN AddIntegerToPointer(op, ElementSize(rt))
        ELSE IF e.op = "-" /\ IsPtrOrArray(lt) /\ IsPtrOrArray(rt)
        THEN <<Ins("SUBD", Inc2("S"))>> \o DivideBySize(Pointed(lt).size)
        ELSE IF IsPtrOrArray(lt) THEN AddIntegerToPointer(op, ElementSize(lt))
        ELSE <<Ins(op, Inc2("S"))>>

EmitAddOrSub(out, e) ==
    LET sub == e.op = "-"
        byte == IsByte(e)
        rv == Evaluate(e.r)
        kinds == {TypeOf(e.l).kind, TypeOf(e.r).kind}
    IN  IF IsVar(e.l) /\ IsConst(e.r)
        THEN EmitAddImmediateAndVariable(out, e, e.l, IF sub THEN (-rv) % 65536 ELSE rv)
        ELSE IF ~ sub /\ IsVar(e.r) /\ IsConst(e.l)
        THEN EmitAddImmediateAndVariable(out, e, e.r, Evaluate(e.l))
        ELSE IF IsVar(e.l) /\ IsVar(e.r) /\ kinds \in {{"byte"}, {"word"}}
        THEN Then(out, LoadVar(out, e.l)
                         \o <<Ins(Sized(IF sub THEN "SUB" ELSE "ADD", TypeOf(e)), VarArg(out, e.r))>>)
        ELSE IF ~ sub /\ ~ IsConst(e.l) /\ IsConst(e.r) /\ IsIntegral(TypeOf(e.l))
        THEN Then(Emit(out, e.l),
                  IF rv = 0 THEN <<>>
                  ELSE IF byte /\ rv = 1 THEN <<Bare("INCB")>>
                  ELSE IF byte THEN <<Ins("ADDB", Dec(rv % 256))>>
                  ELSE <<Ins("ADDD", Dec(rv))>>)
        ELSE Then(EmitSubExpressions(out, e, byte),
                  IF byte THEN <<Ins(IF sub THEN "SUBB" ELSE "ADDB", Inc("S"))>> ELSE WordSum(e))

-----------------------------------------------------------------------------
(* Bitwise operations.  The case of a variable and a constant loads the type   *)
(* of the variable.                                                          *)
EmitBitwiseOperation(out, e) ==
    LET rv == Evaluate(e.r)
        high(arg) == Ins(AInstr[e.op], arg)
        low(arg)  == Ins(BInstr[e.op], arg)
        onWord(t, es) == IF IsByte(t) THEN <<>> ELSE es
    IN  IF IsVar(e.l) /\ IsConst(e.r)
        THEN Then(out, LoadVar(out, e.l) \o onWord(e.l, <<high(Hex(rv \div 256))>>) \o <<low(Hex(rv % 256))>>)
        ELSE IF e.l.k = "cast" /\ IsByte(e.l) /\ IsVar(e.l.e) /\ TypeOf(e.l.e).kind # "array" /\ IsConst(e.r)
        THEN Then(out, <<Ins("LDB", Shifted(VarArg(out, e.l.e), TypeOf(e.l.e).size - 1)), low(Hex(rv % 256))>>)
        ELSE IF IsUnary(e.l, {"*"}) /\ IsVar(e.l.e) /\ IsVar(e.r)
        THEN Then(out, <<Ins(LoadIns(TypeOf(e.l)), Indirect(VarArg(out, e.l.e)))>>
                         \o onWord(e.l, <<high(VarArg(out, e.r))>>) \o <<low(VarArg(out, e.r))>>)
        ELSE Then(EmitSubExpressions(out, e, IsByte(e)), onWord(e, <<high(Inc("S"))>>) \o <<low(Inc("S"))>>)

-----------------------------------------------------------------------------
(* Products, quotients and remainders.                                       *)
PowersOf2 == {2 ^ k : k \in 0..15}
Log2(v) == CHOOSE k \in 0..15 : 2 ^ k = v

\* Two variables or constants: shifts, or MUL of two bytes without the stack.
ByteProduct(out, e) ==
    LET short(t) == IsConst(t) /\ Evaluate(t) % 256 \in {0, 1, 2, 4, 8, 16, 32}
        swap == short(e.l)
        left == IF swap THEN e.r ELSE e.l
        right == IF swap THEN e.l ELSE e.r
        arg(t) == IF IsConst(t) THEN Hex(Evaluate(t) % 256) ELSE VarArg(out, t)
    IN  IF ~ short(right) THEN <<Ins("LDA", arg(left)), Ins("LDB", arg(right)), Bare("MUL")>>
        ELSE IF Evaluate(right) % 256 = 0 THEN <<Bare("CLRB")>>
        ELSE <<Ins("LDB", arg(left))>> \o Repeat(Log2(Evaluate(right) % 256), <<Bare("LSLB")>>)

EmitDivisionByTen(out, e) ==
    IF IsConst(e.l) THEN Then(out, <<Ins("LDD", Hex(Evaluate(e.l) \div 10))>>)
    ELSE Then(Emit(out, e.l), Promotion(e.l) \o <<Utility("DIV16BY10")>>)

\* A dividend that is loaded or evaluated, in B or D.
EmitDividend(out, e) ==
    IF IsOperand(e.l) THEN Then(out, <<Ins(LoadIns(TypeOf(e)), OperandArg(out, e.l))>>) ELSE Emit(out, e.l)

\* The dividend of a byte routine, in A.
EmitDividendInA(out, e) ==
    IF IsOperand(e.l) THEN Then(out, <<Ins("LDA", OperandArg(out, e.l))>>)
    ELSE Then(Emit(out, e.l), <<Ins("TFR", Regs("B,A"))>>)

ByteRemainder(e) == IF e.op = "%" THEN <<Ins("TFR", Regs("A,B"))>> ELSE <<>>

\* The comment of these CLRA and CLRB stands where their argument should be.
Misplaced(op, remark) == Ins(op, Target(remark))

EmitDivisionByPowerOf2(out, e) ==
    LET k == Log2(Evaluate(e.r))
        right == IF IsSigned(e) THEN "ASR" ELSE "LSR"
    IN  Then(EmitDividend(out, e),
             IF IsByte(e) THEN Repeat(k, <<Bare(right \o "B")>>)
             ELSE IF k = 8 THEN <<Ins("TFR", Regs("A,B")), Bare("CLRA")>>
             ELSE Repeat(k, <<Bare(right \o "A"), Bare("RORB")>>))

EmitModuloPowerOf2(out, e) ==
    LET mask == Evaluate(e.r) - 1
        onWord(es) == IF IsByte(e) THEN <<>> ELSE es
    IN  IF mask = 0
        THEN Then(out, onWord(<<Misplaced("CLRA", "modulo 1")>>) \o <<Misplaced("CLRB", "modulo 1")>>)
        ELSE Then(EmitDividend(out, e),
                  onWord(<<Ins("ANDA", Hex(mask \div 256))>>) \o <<Ins("ANDB", Hex(mask % 256))>>)

\* Operands that are not negative, of the same size, the divisor known or a variable.
IsPositiveDivision(e) ==
    /\ e.op # "*"
    /\ IsByte(e) \/ (~ IsByte(e.l) /\ ~ IsByte(e.r))
    /\ IsOperand(e.r)
    /\ IsUnsignedOrPositiveConst(e.l) /\ IsUnsignedOrPositiveConst(e.r)
\* Those among them that the specific cases do not leave to the general ones.
IsShortDivision(e) ==
    LET v == Evaluate(e.r)
    IN  /\ IsPositiveDivision(e)
        /\ \/ IsByte(e) \/ Evaluate(e.l) = 0 \/ v = 0
           \/ v \in PowersOf2 /\ (e.op = "%" \/ v <= 256)
EmitShortDivision(out, e) ==
    LET v == Evaluate(e.r)
    IN  CASE v = 0 -> Then(out, <<Ins(LoadIns(TypeOf(e)), Dec(-1))>>)
          [] e.op = "/" /\ v \in PowersOf2 /\ (IsByte(e) \/ v <= 256) -> EmitDivisionByPowerOf2(out, e)
          [] e.op = "%" /\ v \in PowersOf2 -> EmitModuloPowerOf2(out, e)
          [] v = 7 /\ IsByte(e) -> Then(EmitDividendInA(out, e), <<Utility("DIV8BY7")>> \o ByteRemainder(e))
          [] e.op = "/" /\ v = 3 /\ IsByte(e) -> Then(EmitDividend(out, e), <<Utility("DIV8BY3")>>)
          [] Evaluate(e.l) = 0 ->
                Then(out, (IF IsByte(e) THEN <<>> ELSE <<Misplaced("CLRA", "dividend is 0")>>)
                            \o <<Misplaced("CLRB", "dividend is 0")>>)
          [] OTHER ->
                Then(EmitDividendInA(out, e),
                     <<Ins("LDB", OperandArg(out, e.r)), Utility(IF IsSigned(e) THEN "SDIV8" ELSE "DIV8")>>
                       \o ByteRemainder(e))

\* emitMulOfTypeUnsignedBytesGivingWord(): two unsigned bytes, the left one possibly cast.
IsEffectiveUnsignedByte(t) == ~ IsSigned(t) /\ (IsByte(t) \/ Evaluate(t) \in 0..255)
IsUnsignedByteCastToWord(t) ==
    t.k = "cast" /\ TypeOf(t).kind = "word" /\ TypeOf(t.e) = ByteType(FALSE)
IsProductOfUnsignedBytes(e) ==
    /\ e.op = "*"
    /\ IsEffectiveUnsignedByte(e.l) \/ IsUnsignedByteCastToWord(e.l)
    /\ IsEffectiveUnsignedByte(e.r)
EmitProductOfUnsignedBytes(out, e) ==
    LET left == IF IsEffectiveUnsignedByte(e.l) THEN e.l ELSE e.l.e
        emitted == Emit(out, left)
    IN  Then(IF IsOperand(left) /\ IsOperand(e.r)
             THEN Then(emitted, <<Ins("LDA", IF IsVar(e.r) THEN VarArg(out, e.r) ELSE Hex(Evaluate(e.r)))>>)
             ELSE Then(Emit(Then(emitted, <<Ins("PSHS", Regs("B"))>>), e.r), <<Ins("PULS", Regs("A"))>>),
             <<Bare("MUL")>>)

DivisionRoutine(e, word) ==
    (IF IsSigned(e) THEN "SDIV" ELSE "DIV") \o (IF word THEN "16" ELSE "8")
\* X by D: a product in D, or a quotient in X and a remainder in D.
WordProduct(e) ==
    <<Utility(IF e.op = "*" THEN "MUL16" ELSE DivisionRoutine(e, TRUE))>>
      \o (IF e.op = "/" THEN <<TfrXD>> ELSE <<>>)
\* A by B: a product in B, or a quotient in B and a remainder in A.
ByteProductOfAB(e) ==
    IF e.op = "*" THEN <<Bare("MUL")>>
    ELSE <<Utility(DivisionRoutine(e, FALSE))>> \o ByteRemainder(e)

EmitMulDivMod(out, e) ==
    LET lv == Evaluate(e.l)
        rv == Evaluate(e.r)
        operands == IsOperand(e.l) /\ IsOperand(e.r)
    IN  IF e.op = "*" /\ IsByte(e) /\ operands THEN Then(out, ByteProduct(out, e))
        ELSE IF e.op = "/" /\ rv = 10 /\ ~ IsSigned(e.l) THEN EmitDivisionByTen(out, e)
        ELSE IF IsShortDivision(e) THEN EmitShortDivision(out, e)
        ELSE IF e.op = "*" /\ TypeOf(e).kind = "word" /\ (lv = 10 \/ rv = 10)
        THEN Then(Emit(out, IF lv = 10 THEN e.r ELSE e.l), <<Utility("MUL16BY10")>>)
        ELSE IF ~ IsByte(e.l) /\ ~ IsByte(e.r) /\ operands
        THEN Then(out, <<Ins("LDX", OperandArg(out, e.l)), Ins("LDD", OperandArg(out, e.r))>> \o WordProduct(e))
        ELSE IF IsProductOfUnsignedBytes(e) THEN EmitProductOfUnsignedBytes(out, e)
        ELSE IF e.op = "*" /\ IsByte(e) /\ ~ IsConst(e.l) /\ IsConst(e.r)
        THEN Then(Emit(out, e.l),
                  CASE rv = 0 -> <<Bare("CLRB")>> [] rv = 1 -> <<>>
                    [] OTHER -> <<Ins("LDA", Dec(rv % 256)), Bare("MUL")>>)
        ELSE IF IsByte(e)
        THEN Then(EmitOperands(out, e.l, e.r, TRUE), <<Ins("PULS", Regs("A"))>> \o ByteProductOfAB(e))
        ELSE Then(EmitOperands(out, e.l, e.r, FALSE), <<Ins("PULS", Regs("X"))>> \o WordProduct(e))

-----------------------------------------------------------------------------
(* Shifts.  In place, the address of the left side is in X.                  *)
SignOfB == <<Bare("SEX"), Ins("TFR", Regs("A,B")), Bare("CLRA")>>

ByteShift(left, signed, n) ==
    IF n <= 7
    THEN IF ~ left /\ signed /\ n = 7 THEN SignOfB
         ELSE Repeat(n, <<Bare(IF left THEN "LSLB" ELSE IF signed THEN "ASRB" ELSE "LSRB")>>)
    ELSE IF ~ left /\ signed THEN SignOfB ELSE <<Bare("CLRB")>>

WordShift(left, signed, n) ==
    IF n <= 7
    THEN Repeat(n, IF left THEN <<Bare("LSLB"), Bare("ROLA")>>
                   ELSE <<Bare(IF signed THEN "ASRA" ELSE "LSRA"), Bare("RORB")>>)
    ELSE IF left
    THEN <<Ins("TFR", Regs("B,A")), Bare("CLRB")>>
           \o (IF n >= 16 THEN <<Bare("CLRA")>> ELSE Repeat(n - 8, <<Bare("LSLA")>>))
    ELSE <<Ins("TFR", Regs("A,B")), Bare(IF signed THEN "SEX" ELSE "CLRA")>>
           \o (IF n >= 15 /\ signed THEN <<Ins("TFR", Regs("A,B"))>>
               ELSE IF n >= 16 THEN <<Bare("CLRB")>>
               ELSE Repeat(n - 8, <<Bare(IF signed THEN "ASRB" ELSE "LSRB")>>))

\* A byte that is shifted out is not even evaluated, nor is its address.
SkipsLeftSide(e, left) == IsByte(e) /\ Evaluate(e.r) >= 8 /\ (left \/ ~ IsSigned(e.l))

EmitConstShift(out, e, left, inPlace) ==
    LET n == Evaluate(e.r)
        shift == IF IsByte(e) THEN ByteShift(left, IsSigned(e.l), n) ELSE WordShift(left, IsSigned(e.l), n)
        load  == IF inPlace THEN <<Ins(LoadIns(TypeOf(e)), Ptr("X"))>> ELSE <<>>
        store == IF inPlace THEN <<Ins(Sized("ST", TypeOf(e)), Ptr("X"))>> ELSE <<>>
    IN  IF SkipsLeftSide(e, left) THEN Then(out, shift \o store)
        ELSE Then(IF inPlace THEN EmitAddress(out, e.l) ELSE Emit(out, e.l), load \o shift \o store)

ShiftUtility(e, left) ==
    CASE left -> IF IsByte(e) THEN "shiftByteLeft" ELSE "shiftLeft"
      [] OTHER -> (IF IsByte(e) THEN "shiftByteRight" ELSE "shiftRight")
                    \o (IF IsSigned(e.l) THEN "Signed" ELSE "Unsigned")

EmitVariableShift(out, e, left, inPlace) ==
    LET push == <<PushOf(TypeOf(e))>>
        value == IF ~ inPlace THEN Then(Emit(out, e.l), push)
                 ELSE Then(EmitAddress(out, e.l), <<Ins(LoadIns(TypeOf(e)), Ptr("X")), PushX>> \o push)
    IN  Then(Emit(value, e.r),
             (IF IsByte(e.r) THEN <<Bare("CLRA")>> ELSE <<>>) \o <<Utility(ShiftUtility(e, left))>>
               \o (IF inPlace THEN <<Ins("PULS", Regs("X")), Ins(Sized("ST", TypeOf(e)), Ptr("X"))>> ELSE <<>>))

EmitShift(out, e, left, inPlace) ==
    IF IsConst(e.r) THEN EmitConstShift(out, e, left, inPlace) ELSE EmitVariableShift(out, e, left, inPlace)

-----------------------------------------------------------------------------
(* Comparisons.  The specific cases are tried in this order.                 *)

\* Integral variable with constant, or two variables of the same kind.
IsVariableComparison(e) ==
    /\ IsVar(e.l) /\ IsIntegral(TypeOf(e.l))
    /\ IsConst(e.r) \/ (IsVar(e.r) /\ TypeOf(e.l).kind = TypeOf(e.r).kind)
EmitIntegralComparison(out, e) ==
    LET rv == Evaluate(e.r)
    IN  Then(out, LoadVar(out, e.l) \o
            (IF ~ IsConst(e.r) THEN <<Ins(Sized("CMP", TypeOf(e.l)), VarArg(out, e.r))>>
             ELSE IF ~ IsByte(e.l) THEN <<CMPDImmediate(rv)>>
             ELSE IF rv < 256 THEN <<Ins("CMPB", Hex(rv))>>
             ELSE <<ConvToWord(TypeOf(e.l)), CMPDImmediate(rv)>>))

\* isWordCase: the comparison is made on 16 bits.
ConstOnLeft(e) == e.op \in {"==", "!="} /\ IsConst(e.l) /\ ~ IsConst(e.r)
ConstSide(e)   == IF ConstOnLeft(e) THEN e.l ELSE e.r
OtherSide(e)   == IF ConstOnLeft(e) THEN e.r ELSE e.l
IsComparisonWithConstant(e, isWordCase) ==
    LET other == OtherSide(e)
    IN  /\ IsConst(ConstSide(e)) /\ ~ IsConst(other)
        /\ "array" \notin {TypeOf(e.l).kind, TypeOf(e.r).kind}
        /\ IsSigned(e.l) = IsSigned(e.r)
        /\ IF isWordCase THEN ~ (IsByte(e.l) /\ IsByte(e.r))
           ELSE /\ Fits8Bits(ConstSide(e)) /\ IsByte(other)
                /\ IsSigned(other) => Sign16(Evaluate(ConstSide(e))) \in -128..127
EmitComparisonWithByteConstant(out, e, isWordCase) ==
    LET v == Evaluate(ConstSide(e))
    IN  Then(Emit(out, OtherSide(e)),
             IF isWordCase THEN Promotion(OtherSide(e)) \o <<Ins("CMPD", Dec(v))>>
             ELSE <<Ins("CMPB", Dec(v % 256))>>)

CanDo8BitCompare(e) ==
    /\ IsSigned(e.l) = IsSigned(e.r)
    /\ Fits8BitsWithSignedness(e.l)
    /\ Fits8BitsWithSignedness(e.r)

\* emitComparison() that only sets the condition codes.
EmitComparison(out, e) ==
    IF IsVariableComparison(e) THEN EmitIntegralComparison(out, e)
    ELSE IF \E isWordCase \in BOOLEAN : IsComparisonWithConstant(e, isWordCase)
    THEN EmitComparisonWithByteConstant(out, e, ~ IsComparisonWithConstant(e, FALSE))
    ELSE Then(EmitSubExpressions(out, e, CanDo8BitCompare(e)),
              <<IF CanDo8BitCompare(e) THEN Ins("CMPB", Inc("S")) ELSE Ins("CMPD", Inc2("S"))>>)

\* emitComparison() that leaves 0 or 1 in B.
EmitComparisonValue(out, e) ==
    LET compared == EmitComparison(out, e)
        true == Lab(compared.n)
        false == Lab(compared.n + 1)
    IN  Then(NewLabels(compared, 2),
             <<Ins(CondBranch(e), Target(true)), Bare("CLRB"), Ins("BRA", Target(false)),
               Label(true), Ins("LDB", Dec(1)), Label(false)>>)

\* TSTB, or a comparison of D with zero: && writes ADDD #0, || writes CMPD #0.
TestOf(t, wordTest) == IF IsByte(t) THEN <<Bare("TSTB")>> ELSE <<wordTest>>

EmitLogicalAnd(out, e) ==
    LET end == Lab(out.n)
        exit(t) == TestOf(t, CMPDImmediate(0)) \o <<Ins("LBEQ", Target(end))>>
    IN  Then(Emit(Then(Emit(NewLabels(out, 1), e.l), exit(e.l)), e.r),
             exit(e.r) \o <<Ins("LDB", Dec(1)), Label(end)>>)

\* Where both sides are bytes, B is left as the side that is not zero.
EmitLogicalOr(out, e) ==
    LET true == Lab(out.n)
        end == Lab(out.n + 1)
        test(t) == TestOf(t, Ins("CMPD", Dec(0)))
    IN  Then(Emit(Then(Emit(NewLabels(out, 2), e.l),
                       test(e.l) \o <<Ins("LBNE", Target(true))>>), e.r),
             test(e.r) \o <<Ins("LBEQ", Target(end)), Label(true)>>
               \o (IF IsByte(e.l) /\ IsByte(e.r) THEN <<>> ELSE <<Ins("LDB", Dec(1))>>)
               \o <<Label(end)>>)

-----------------------------------------------------------------------------
(* Unary operators.                                                          *)

\* optimizeTFRXD(): a pointer that was just loaded in X is loaded in D instead.
OptimizeTFRXD(out) ==
    LET sz == Len(out.code)
    IN  IF sz >= 2 /\ IsInstr(out.code, sz - 1, "LDX") /\ Is(out.code, sz, "TFR", Regs("X,D"))
        THEN [out EXCEPT !.code = Append(SubSeq(out.code, 1, sz - 2), Ins("LDD", out.code[sz - 1].arg))]
        ELSE out

EmitAddressOf(out, e) ==
    IF TypeOf(e.e).kind = "array" THEN Emit(out, e.e)
    ELSE OptimizeTFRXD(Then(EmitAddress(out, e.e), <<TfrXD>>))

EmitNegation(out, e) ==
    IF ~ IsByte(e) /\ IsVar(e.e) THEN Then(out, <<Bare("CLRA"), Bare("CLRB"), Ins("SUBD", VarArg(out, e.e))>>)
    ELSE Then(Emit(out, e.e),
              IF IsByte(e) THEN <<Bare("NEGB")>> ELSE <<Bare("COMA"), Bare("COMB"), Ins("ADDD", Dec(1))>>)

EmitBooleanNegation(out, e) ==
    IF IsUnary(e.e, {"!"}) THEN Then(Emit(out, e.e), <<Ins("EORB", Dec(1))>>)
    ELSE Then(Emit(out, e.e), TestOf(e.e, CMPDImmediate(0)) \o <<Utility("tfrZtoB")>>)

\* A variable is incremented where it is, anything else at its address in X.
IsIncrement(e) == e.op \in {"++e", "e++"}
IsPre(e)       == e.op \in {"++e", "--e"}
StepOf(e) == (IF IsIncrement(e) THEN 1 ELSE -1) * (IF TypeOf(e.e).kind = "pointer" THEN Pointed(TypeOf(e.e)).size ELSE 1)
ByteIncrement(e, arg) ==
    LET inc == <<Ins(IF IsIncrement(e) THEN "INC" ELSE "DEC", arg)>>
        load == IF e.needed THEN <<Ins("LDB", arg)>> ELSE <<>>
    IN  IF IsPre(e) THEN inc \o load ELSE load \o inc
WordIncrement(e, arg) ==
    LET step == StepOf(e)
        add == <<Ins("LDD", arg), Ins("ADDD", Dec(step)), Ins("STD", arg)>>
    IN  IF step = 0 THEN IF e.needed THEN <<Ins("LDD", arg)>> ELSE <<>>
        ELSE IF IsVar(e.e) /\ ~ e.needed /\ step \in -16..15
        THEN <<Ins("LDX", arg), Ins("LEAX", Off(step, "X")), Ins("STX", arg)>>
        ELSE IF ~ IsPre(e) /\ e.needed THEN add \o <<Ins("SUBD", Dec(step))>>
        ELSE add
EmitIncrement(out, e) ==
    LET steps(arg) == IF IsByte(e) THEN ByteIncrement(e, arg) ELSE WordIncrement(e, arg)
    IN  IF IsVar(e.e) THEN Then(out, steps(VarArg(out, e.e))) ELSE Then(EmitAddress(out, e.e), steps(Ptr("X")))

\* emitSimplerIfIncrement(): the increment of a for, whose value is not used.
EmitSimplerIfIncrement(out, e) ==
    LET arg == VarArg(out, e.e)
        size == IF TypeOf(e).kind = "pointer" THEN Pointed(TypeOf(e)).size ELSE 1
    IN  IF ~ (IsUnary(e, Increments) /\ IsVar(e.e)) THEN Emit(out, e)
        ELSE IF IsByte(e) THEN Then(out, <<Ins(IF IsIncrement(e) THEN "INC" ELSE "DEC", arg)>>)
        ELSE IF size = 0 THEN out
        ELSE Then(out, <<Ins("LDD", arg), Ins(IF IsIncrement(e) THEN "ADDD" ELSE "SUBD", Dec(size)),
                         Ins("STD", arg)>>)

\* *e: a number, a number that is cast, a pointer variable that is post-incremented.
IsNumber(t) == t.k = "const"
ConstantAddress(t) == IF t.k = "cast" THEN t.e ELSE t
IsPostIncOfPtrToSmallType(t) ==
    /\ IsUnary(t, {"e++"}) /\ IsVar(t.e)
    /\ TypeOf(t.e).kind = "pointer" /\ Pointed(TypeOf(t.e)).kind \in {"byte", "word", "pointer"}

\* The address in X, or in the argument of the load where there is a pointer variable.
EmitPointerInX(out, e) ==
    IF IsVar(e) THEN Then(out, <<Ins(IF TypeOf(e).kind = "array" THEN "LEAX" ELSE "LDX", VarArg(out, e))>>)
    ELSE Then(Emit(out, e), (IF IsByte(e) THEN <<Bare("CLRA")>> ELSE <<>>) \o <<TfrDX>>)

EmitIndirection(out, e) ==
    LET load(arg) == <<Ins(LoadIns(TypeOf(e)), arg)>>
        pointer == VarArg(out, e.e.e)
    IN  IF IsNumber(ConstantAddress(e.e)) THEN Then(out, load(Abs(Evaluate(ConstantAddress(e.e)))))
        ELSE IF IsPostIncOfPtrToSmallType(e.e)
        THEN Then(out, <<Ins("LDX", pointer)>> \o load(IF IsByte(e) THEN Inc("X") ELSE Inc2("X"))
                         \o <<Ins("STX", pointer)>>)
        ELSE IF TypeOf(e).kind = "array" THEN Emit(out, e.e)
        ELSE IF IsVar(e.e) /\ TypeOf(e.e).kind = "pointer" THEN Then(out, load(Indirect(VarArg(out, e.e))))
        ELSE Then(EmitPointerInX(out, e.e), load(Ptr("X")))

EmitAddressOfIndirection(out, e) ==
    LET size == TypeOf(e).size
        pointer == VarArg(out, e.e.e)
    IN  IF IsNumber(ConstantAddress(e.e)) THEN Then(out, <<Ins("LDX", Hex(Evaluate(ConstantAddress(e.e))))>>)
        ELSE IF IsPostIncOfPtrToSmallType(e.e)
        THEN Then(out, <<Ins("LDX", pointer), Ins("LEAX", Off(size, "X")), Ins("STX", pointer),
                         Ins("LEAX", Off(-size, "X"))>>)
        ELSE EmitPointerInX(out, e.e)

\* An operator that is a statement is preceded by a line comment.
EmitUnary(out0, e) ==
    LET out == IF e.needed THEN out0 ELSE Then(out0, <<Comment>>)
    IN  CASE IsConst(e)     -> Then(out, EmitConstant(e))
          [] e.op = "-"     -> EmitNegation(out, e)
          [] e.op = "~"     -> Then(Emit(out, e.e), (IF IsByte(e) THEN <<>> ELSE <<Bare("COMA")>>) \o <<Bare("COMB")>>)
          [] e.op = "!"     -> EmitBooleanNegation(out, e)
          [] e.op = "&"     -> EmitAddressOf(out, e)
          [] e.op = "*"     -> EmitIndirection(out, e)
          [] e.op \in Increments -> EmitIncrement(out, e)

-----------------------------------------------------------------------------
(* Casts, conditional expressions, commas.                                   *)
EmitCastCode(to, from) ==
    CASE to.kind = "void" \/ to = from -> <<>>
      [] from.kind = "byte" /\ to.kind # "byte" -> <<ConvToWord(from)>>
      [] OTHER -> <<Comment>>

EmitConditional(out, e) ==
    LET true == Lab(out.n)
        false == Lab(out.n + 1)
        end == Lab(out.n + 2)
        sub(o, t) == IF IsByte(e) /\ Is8BitConstant(t)
                     THEN Then(o, IF Evaluate(t) = 0 THEN <<Bare("CLRB")>>
                                  ELSE <<Ins("LDB", Hex(Evaluate(t) % 256))>>)
                     ELSE Emit(o, t)
        promote(t, other) ==
            IF ~ IsPtrOrArray(TypeOf(t)) /\ TypeOf(t).size < TypeOf(other).size
            THEN <<ConvToWord(TypeOf(t))>> ELSE <<>>
        tested == EmitBoolJumps(Then(NewLabels(out, 3), <<Comment>>), e.c, true, false)
        chosen == Then(sub(Then(tested, <<Label(true)>>), e.then),
                       promote(e.then, e.else) \o <<Ins("LBRA", Target(end)), Label(false)>>)
    IN  Then(sub(chosen, e.else), promote(e.else, e.then) \o <<Label(end)>>)

\* A side that is the cast of an identifier or of a number has no effect.
IsUselessCast(t) == t.k = "cast" /\ t.e.k \in {"var", "const"}
EmitComma(out, e) == Emit(IF IsUselessCast(e.l) THEN out ELSE Emit(out, e.l), e.r)

-----------------------------------------------------------------------------
(* Calls: the arguments are pushed from the last one, each as a word.        *)

\* LDD a; PSHS B,A; LDD b; PSHS B,A: both are pushed at once.
OptimizeConsecutiveFunctionArguments(out) ==
    LET c == out.code
        sz == Len(c)
    IN  IF /\ sz >= 4
           /\ IsInstr(c, sz - 3, "LDD") /\ Is(c, sz - 2, "PSHS", Regs("B,A"))
           /\ IsInstr(c, sz - 1, "LDD") /\ Is(c, sz, "PSHS", Regs("B,A"))
        THEN [out EXCEPT !.code[sz - 3].op = "LDX", !.code[sz - 2] = Comment,
                         !.code[sz].arg = Regs("X,B,A")]
        ELSE out

EmitArgument(out, t) ==
    OptimizeConsecutiveFunctionArguments(
        IF IsVar(t) /\ TypeOf(t).kind = "array" THEN Then(out, <<Ins("LEAX", VarArg(out, t)), PushX>>)
        ELSE IF IsUnary(t, {"&"}) /\ IsVar(t.e) THEN Then(out, <<Ins("LEAX", VarArg(out, t.e)), PushX>>)
        ELSE IF IsUnary(t, {"&"}) THEN Then(EmitAddress(out, t.e), <<PushX>>)
        ELSE Then(Emit(out, t), Promotion(t) \o <<PushD>>))

EmitCall(out, e) ==
    LET pushed == FoldRight(LAMBDA t, o : EmitArgument(o, t), e.args, Then(out, <<Comment>>))
    IN  Then(pushed, <<Ins("LBSR", Target("_" \o e.f))>>
                       \o (IF e.args = <<>> THEN <<>> ELSE <<Ins("LEAS", Off(2 * Len(e.args), "S"))>>))

-----------------------------------------------------------------------------
(* Array references.                                                         *)
NumBytesPerElement(e) == Pointed(TypeOf(e.l)).size

\* emitLoadArrayInXIfNotTrashingD(): an array or a pointer that is a variable.
LoadArrayInX(out, t) == <<Ins(IF TypeOf(t).kind = "array" THEN "LEAX" ELSE "LDX", VarArg(out, t))>>

\* The address of a[n] in X.
EmitConstElement(out, e) ==
    LET offset == Low16Product(Evaluate(e.r), NumBytesPerElement(e))
        base == IF IsVar(e.l) THEN Then(out, LoadArrayInX(out, e.l)) ELSE Then(Emit(out, e.l), <<TfrDX>>)
    IN  IF IsVar(e.l) /\ TypeOf(e.l).kind = "array"
        THEN Then(out, <<Ins("LEAX", Shifted(VarArg(out, e.l), Sign16(offset)))>>)
        ELSE Then(base, IF offset = 0 /\ (IsVar(e.l) \/ Evaluate(e.r) = 0) THEN <<>>
                        ELSE <<Ins("LEAX", Off(offset, "X"))>>)

ScaleIndex(e) ==
    LET size == NumBytesPerElement(e)
        double == <<Bare("LSLB"), Bare("ROLA")>>
    IN  CASE size = 0 -> <<Bare("CLRA"), Bare("CLRB")>>
          [] size = 1 -> <<>>
          [] size \in {2, 4, 8, 16} -> Repeat(Log2(size), double)
          [] size \notin {0, 1, 2, 4, 8, 16} /\ size <= 255 /\ TypeOf(e.r) = ByteType(FALSE) ->
                <<Ins("LDA", Dec(size)), Bare("MUL")>>
          [] OTHER -> <<Ins("LDX", Dec(size)), Utility("MUL16")>>

EmitElement(out, e) ==
    LET size == NumBytesPerElement(e)
        byteIndex == IsByte(e.r) /\ size = 1
        index == Then(IF IsVar(e.r) THEN Then(out, <<Ins(LoadIns(TypeOf(e.r)), VarArg(out, e.r))>>)
                      ELSE Emit(out, e.r),
                      (IF size # 1 THEN Promotion(e.r) ELSE <<>>) \o ScaleIndex(e))
        positive(es) == IF size > 0 THEN es ELSE <<>>
    IN  IF IsVar(e.l)
        THEN Then(index, LoadArrayInX(out, e.l)
                           \o (IF byteIndex /\ IsSigned(e.r) THEN <<Ins("LEAX", Acc("B"))>>
                               ELSE IF byteIndex THEN <<Bare("ABX")>>
                               ELSE positive(<<Ins("LEAX", Acc("D"))>>)))
        ELSE Then(Emit(Then(index, positive((IF byteIndex THEN Promotion(e.r) ELSE <<>>) \o <<PushD>>)), e.l),
                  positive(<<Ins("ADDD", Inc2("S"))>>) \o <<TfrDX>>)

EmitAddressOfElement(out, e) == IF IsConst(e.r) THEN EmitConstElement(out, e) ELSE EmitElement(out, e)

\* An element that is an array is its address; one of an array variable at a
\* known place is loaded from there.
EmitArrayRef(out, e) ==
    LET load(arg) == <<Ins(LoadIns(TypeOf(e)), arg)>>
        offset == Low16Product(Evaluate(e.r), NumBytesPerElement(e))
    IN  IF TypeOf(e).kind = "array" THEN Then(EmitAddressOfElement(out, e), <<TfrXD>>)
        ELSE IF IsVar(e.l) /\ TypeOf(e.l).kind = "array" /\ IsConst(e.r)
        THEN Then(out, load(Shifted(VarArg(out, e.l), Sign16(offset))))
        ELSE Then(EmitAddressOfElement(out, e), load(Ptr("X")))

-----------------------------------------------------------------------------
(* Assignments, as r-values.                                                 *)

\* * (T *) e, of which the result is described by the types of both sides.
IsDerefOfCast(t) == IsUnary(t, {"*"}) /\ t.e.k = "cast"
SameIntegralKind(e) == TypeOf(e).kind = TypeOf(e.r).kind /\ IsIntegral(TypeOf(e))
LowByteOrWord(e) == IF IsByte(e) \/ IsByte(e.r) THEN Evaluate(e.r) % 256 ELSE Evaluate(e.r)

\* The assigned value, where it is a constant or a variable: its low byte for a byte.
AssignedValueArg(out, e) ==
    IF IsConst(e.r) THEN Hex(LowByteOrWord(e))
    ELSE Shifted(VarArg(out, e.r), IF IsByte(e) /\ TypeOf(e.r).kind = "word" THEN 1 ELSE 0)
LoadStore(e, arg, dest) == <<Ins(LoadIns(TypeOf(e)), arg), Ins(Sized("ST", TypeOf(e)), dest)>>

IsPoke(e) ==
    /\ IsDerefOfCast(e.l) /\ TypeOf(e.l.e).kind \in {"byte", "word", "pointer"}
    /\ IsNumber(e.l.e.e) /\ Evaluate(e.l.e.e) # 0
    /\ IsNumber(e.r)
Poke(e) ==
    LET dest == Abs(Evaluate(e.l.e.e))
    IN  IF IsByte(e) THEN <<Ins("LDB", Hex(Evaluate(e.r))), Ins("STB", dest)>>
        ELSE EmitNumber(e.r) \o Promotion(e.r) \o <<Ins("STD", dest)>>

\* emitAssignmentOfConstantToDerefCastToPtr()
IsAssignmentToConstantAddress(e) ==
    /\ IsOperand(e.r) /\ SameIntegralKind(e)
    /\ IsDerefOfCast(e.l) /\ TypeOf(e.l.e).kind = "pointer" /\ IsConst(e.l.e.e)

IsConstToByteVar(e) == IsConst(e.r) /\ IsVar(e.l) /\ IsByte(e) /\ Fits8Bits(e.r)
ConstToByteVar(out, e) ==
    LET dest == VarArg(out, e.l)
    IN  IF LowByteOrWord(e) # 0 THEN LoadStore(e, Hex(LowByteOrWord(e)), dest)
        ELSE IF e.needed THEN <<Bare("CLRB"), Ins("STB", dest)>>
        ELSE <<Ins("CLR", dest)>>

\* emitAssignmentToDerefCastToPtr(): a constant at a pointer that is a variable,
\* or a variable and a constant.
IsPointerPlusConst(t) == IsBinary(t, {"+"}) /\ IsVar(t.l) /\ IsPtrOrArray(TypeOf(t.l)) /\ IsConst(t.r)
IsAssignmentToCastPointer(e) ==
    /\ IsConst(e.r) /\ SameIntegralKind(e)
    /\ IsDerefOfCast(e.l) /\ TypeOf(e.l.e).kind = "pointer"
    /\ \/ IsVar(e.l.e.e) /\ IsPtrOrArray(TypeOf(e.l.e.e))
       \/ IsPointerPlusConst(e.l.e.e)
AssignmentToCastPointer(out, e) ==
    LET p == e.l.e.e
        var == IF IsVar(p) THEN p ELSE p.l
        load == <<Ins(LoadIns(TypeOf(e)), Hex(LowByteOrWord(e)))>>
        store(arg) == <<Ins(Sized("ST", TypeOf(e)), arg)>>
        scale == IF Pointed(TypeOf(var)).kind = "byte" THEN 1 ELSE 2
    IN  IF IsVar(p) /\ TypeOf(p).kind = "pointer" THEN load \o store(Indirect(VarArg(out, p)))
        ELSE load \o LoadArrayInX(out, var)
               \o store(IF IsVar(p) THEN Ptr("X") ELSE Off(Low16Product(Evaluate(p.r), scale), "X"))

\* A variable with a constant added or subtracted, or with a variable of its kind.
IsSumToVar(e) ==
    /\ e.op \in {"+=", "-="} /\ IsVar(e.l)
    /\ IsConst(e.r) \/ (IsVar(e.r) /\ SameIntegralKind(e))
SumToVar(out, e) ==
    LET scale == IF IsPtrOrArray(TypeOf(e)) THEN Pointed(TypeOf(e)).size ELSE 1
        v == Low16Product(LowByteOrWord(e), scale)
        dest == VarArg(out, e.l)
        op == Sized(IF e.op = "+=" THEN "ADD" ELSE "SUB", TypeOf(e))
        update(arg) == <<Ins(op, arg), Ins(Sized("ST", TypeOf(e)), dest)>>
    IN  <<Ins(LoadIns(TypeOf(e)), dest)>>
          \o (IF ~ IsConst(e.r) THEN update(VarArg(out, e.r)) ELSE IF v # 0 THEN update(Hex(v)) ELSE <<>>)

\* emitAsterixPointerVarPlusPlusEquals(): *p++ = a constant or a variable.
IsAsterixPointerVarPlusPlusEquals(e) ==
    /\ ~ e.needed /\ IsOperand(e.r)
    /\ TypeOf(e).size \in {1, 2} /\ TypeOf(e.r).kind = TypeOf(e).kind
    /\ IsUnary(e.l, {"*"}) /\ IsUnary(e.l.e, {"e++"}) /\ IsVar(e.l.e.e)
AsterixPointerVarPlusPlusEquals(out, e) ==
    LET pointer == VarArg(out, e.l.e.e)
        byte == TypeOf(e).size = 1
    IN  <<Ins("LDX", pointer), Ins(IF byte THEN "LDB" ELSE "LDD", AssignedValueArg(out, e)),
          Ins(IF byte THEN "STB" ELSE "STD", IF byte THEN Inc("X") ELSE Inc2("X")), Ins("STX", pointer)>>

\* /= and %=: the address of the left side stays on the stack, the quotient is of words.
DividendInX(e) ==
    IF IsByte(e)
    THEN <<Ins("PSHS", Regs("B")), Ins("LDB", Ind(1, "S")), ConvToWord(TypeOf(e.l)), TfrDX,
           Ins("PULS", Regs("B"))>>
    ELSE <<Ins("LDX", Ind(0, "S"))>>
EmitDivModAssign(out, e) ==
    Then(Emit(Then(EmitAddress(out, e.l), <<PushX>>), e.r),
         Promotion(e.r) \o DividendInX(e)
           \o <<Utility(IF IsSigned(e.l) /\ IsSigned(e.r) THEN "SDIV16" ELSE "DIV16")>>
           \o (IF e.op = "/=" THEN <<TfrXD>> ELSE <<>>)
           \o <<Ins(Sized("ST", TypeOf(e)), Ind(0, "S")), Ins("LEAS", Off(2, "S"))>>)

\* The general case: the right side in B or D for a variable that receives it, else
\* on the stack; the left side a variable, or at X.
EmitRightSide(out, e) ==
    IF e.op = "=" /\ IsVar(e.l)
    THEN Then(Emit(out, e.r), IF IsByte(e) THEN <<>> ELSE Promotion(e.r))
    ELSE Then(Emit(out, e.r), (IF IsByte(e) THEN <<>> ELSE Promotion(e.r)) \o <<PushOf(TypeOf(e))>>)

\* A constant or a variable is loaded a second time, into a word.
StoreToVar(out, e) ==
    LET arg == AssignedValueArg(out, e)
        again == CASE IsByte(e) \/ ~ IsOperand(e.r) -> <<>>
                   [] ~ IsByte(e) /\ IsOperand(e.r) /\ IsByte(e.r) -> <<Ins("LDB", arg)>> \o Promotion(e.r)
                   [] ~ IsByte(e) /\ IsVar(e.r) /\ TypeOf(e.r).kind = "array" -> <<Ins("LEAX", arg), TfrXD>>
                   [] ~ IsByte(e) /\ IsVar(e.r) /\ TypeOf(e.r).kind \in {"word", "pointer"} -> <<Ins("LDD", arg)>>
                   [] OTHER -> <<>>
    IN  again \o <<Ins(Sized("ST", TypeOf(e)), VarArg(out, e.l))>>

ScalePushedIndex(size) ==
    CASE size = 1 -> <<Ins("LDD", Inc2("S"))>>
      [] size \in {2, 4, 8, 16, 32} -> <<Ins("LDD", Inc2("S"))>> \o Repeat(Log2(size), <<Bare("LSLB"), Bare("ROLA")>>)
      [] size = 3 -> <<Ins("LDD", Ptr("S")), Bare("LSLB"), Bare("ROLA"), Ins("ADDD", Inc2("S"))>>
      [] OTHER -> <<Ins("LDX", Inc2("S"))>>
                    \o (IF size <= 255 THEN <<Ins("LDB", Dec(size)), Utility("MUL168")>>
                        ELSE <<Ins("LDD", Dec(size)), Utility("MUL16")>>)

SumAtDest(e, dest) ==
    IF TypeOf(e).kind = "pointer"
    THEN ScalePushedIndex(Pointed(TypeOf(e)).size)
           \o (IF e.op = "+=" THEN <<Ins("ADDD", dest)>>
               ELSE <<PushD, Ins("LDD", dest), Ins("SUBD", Inc2("S"))>>)
           \o <<Ins("STD", dest)>>
    ELSE <<Ins(LoadIns(TypeOf(e)), dest),
           Ins(Sized(IF e.op = "+=" THEN "ADD" ELSE "SUB", TypeOf(e)), IF IsByte(e) THEN Inc("S") ELSE Inc2("S")),
           Ins(Sized("ST", TypeOf(e)), dest)>>

ProductAtDest(e, dest) ==
    LET aroundX(op) == IF dest = Ptr("X") THEN <<Ins(op, Regs("X"))>> ELSE <<>>
    IN  IF IsByte(e)
        THEN <<Ins("LDB", Inc("S")), Ins("LDA", dest), Bare("MUL"), Ins("STB", dest), Bare("CLRA")>>
        ELSE <<Ins("LDD", Inc2("S"))>> \o aroundX("PSHS") \o <<Ins("LDX", dest), Utility("MUL16")>>
               \o aroundX("PULS") \o <<Ins("STD", dest)>>

BitsAtDest(e, dest) ==
    LET op == CASE e.op = "^=" -> "EOR" [] e.op = "&=" -> "AND" [] e.op = "|=" -> "OR"
    IN  IF IsByte(e) THEN <<Ins("LDB", dest), Ins(op \o "B", Inc("S")), Ins("STB", dest)>>
        ELSE (IF dest = Ptr("X") THEN <<>> ELSE <<Ins("LEAX", dest)>>)
               \o <<Ins("LDD", Inc2("S")), Ins(op \o "A", Ptr("X")), Ins(op \o "B", Off(1, "X")), Ins("STD", Ptr("X"))>>

AtDest(e, dest) ==
    CASE e.op = "="  -> <<IF IsByte(e) THEN Ins("LDB", Inc("S")) ELSE Ins("PULS", Regs("A,B")),
                          Ins(Sized("ST", TypeOf(e)), dest)>>
      [] e.op \in {"+=", "-="} -> SumAtDest(e, dest)
      [] e.op = "*=" -> ProductAtDest(e, dest)
      [] OTHER       -> BitsAtDest(e, dest)

EmitGeneralAssignment(out, e) ==
    LET right == EmitRightSide(out, e)
    IN  IF e.op = "=" /\ IsVar(e.l) THEN Then(right, StoreToVar(out, e))
        ELSE IF IsVar(e.l) THEN Then(right, AtDest(e, VarArg(out, e.l)))
        ELSE Then(EmitAddress(right, e.l), AtDest(e, Ptr("X")))

EmitAssignment(out0, e) ==
    LET out == Then(out0, <<Comment>>)
        simple == e.op = "="
    IN  IF simple /\ IsPoke(e) THEN Then(out, Poke(e))
        ELSE IF e.op \in {"/=", "%="} THEN EmitDivModAssign(out, e)
        ELSE IF e.op \in {"<<=", ">>="} THEN EmitShift(out, e, e.op = "<<=", TRUE)
        ELSE IF simple /\ IsAssignmentToConstantAddress(e)
        THEN Then(out, LoadStore(e, AssignedValueArg(out, e), Abs(Evaluate(e.l.e.e))))
        ELSE IF simple /\ IsConstToByteVar(e) THEN Then(out, ConstToByteVar(out, e))
        ELSE IF simple /\ IsAssignmentToCastPointer(e) THEN Then(out, AssignmentToCastPointer(out, e))
        ELSE IF IsSumToVar(e) THEN Then(out, SumToVar(out, e))
        ELSE IF simple /\ IsAsterixPointerVarPlusPlusEquals(e)
        THEN Then(out, AsterixPointerVarPlusPlusEquals(out, e))
        ELSE EmitGeneralAssignment(out, e)

-----------------------------------------------------------------------------
EmitBinary(out, e) ==
    CASE IsConst(e)            -> Then(out, EmitConstant(e))
      [] e.op \in Sums         -> EmitAddOrSub(out, e)
      [] e.op \in Products     -> EmitMulDivMod(out, e)
      [] e.op \in Bitwises     -> EmitBitwiseOperation(out, e)
      [] e.op \in Shifts       -> EmitShift(out, e, e.op = "<<", FALSE)
      [] e.op \in Relations    -> EmitComparisonValue(out, e)
      [] e.op = "&&"           -> EmitLogicalAnd(out, e)
      [] e.op = "||"           -> EmitLogicalOr(out, e)
      [] e.op = "[]"           -> EmitArrayRef(out, e)
      [] e.op \in Assignments  -> EmitAssignment(out, e)

EmitRValue(out, e) ==
    CASE e.k = "const" -> Then(out, EmitNumber(e))
      [] e.k = "var"   -> Then(out, LoadVar(out, e))
      [] e.k = "un"    -> EmitUnary(out, e)
      [] e.k = "bin"   -> EmitBinary(out, e)
      [] e.k = "cast"  -> Then(Emit(out, e.e), EmitCastCode(TypeOf(e), TypeOf(e.e)))
      [] e.k = "cond"  -> EmitConditional(out, e)
      [] e.k = "comma" -> EmitComma(out, e)
      [] e.k = "call"  -> EmitCall(out, e)

EmitLValue(out, e) ==
    CASE e.k = "var"        -> Then(out, <<Ins("LEAX", VarArg(out, e))>>)
      [] IsUnary(e, {"*"})  -> EmitAddressOfIndirection(IF e.needed THEN out ELSE Then(out, <<Comment>>), e)
      [] IsBinary(e, {"[]"}) -> EmitAddressOfElement(out, e)

-----------------------------------------------------------------------------
(* Conditions.                                                               *)

\* isExpressionAlwaysTrueOrFalse(): a constant, or an unsigned order with zero.
AlwaysIs(e, truth) ==
    \/ IsConst(e) /\ (Evaluate(e) # 0) = truth
    \/ /\ ~ IsConst(e) /\ e.k = "bin" /\ ~ IsSigned(e.l) /\ Evaluate(e.r) = 0
       /\ e.op = (IF truth THEN ">=" ELSE "<")

\* LDD v; SUBD #1; STD v; CMPD #-1
IsPostDecrementOfWordVariable(c) == IsUnary(c, {"e--"}) /\ IsVar(c.e) /\ TypeOf(c).kind = "word"

EmitCondition(out, c, success, failure) ==
    LET mid == Lab(out.n)
        jump(op) == <<Ins(op, Target(success)), Ins("LBRA", Target(failure))>>
        isZero(t) == AlwaysIs(t, FALSE)
        varying == IF isZero(c.l) THEN c.r ELSE c.l
    IN  IF IsUnary(c, {"!"}) THEN EmitBoolJumps(out, c.e, failure, success)
        ELSE IF IsBinary(c, Logicals)
        THEN LET or == c.op = "||"
                 left == EmitBoolJumps(NewLabels(out, 1), c.l, IF or THEN success ELSE mid,
                                       IF or THEN mid ELSE failure)
             IN  EmitBoolJumps(Then(left, <<Label(mid)>>), c.r, success, failure)
        ELSE IF IsBinary(c, {"==", "!="}) /\ (isZero(c.l) \/ isZero(c.r))
        THEN Then(Emit(out, varying),
                  <<IF IsByte(varying) THEN Ins("CMPB", Dec(0)) ELSE CMPDImmediate(0)>>
                    \o jump(CondBranch(c)))
        ELSE IF IsBinary(c, Relations) THEN Then(EmitComparison(out, c), jump(CondBranch(c)))
        ELSE IF c.k = "comma" THEN EmitBoolJumps(Emit(out, c.l), c.r, success, failure)
        ELSE IF IsPostDecrementOfWordVariable(c)
        THEN Then(out, <<Ins("LDD", VarArg(out, c.e)), Ins("SUBD", Dec(1)), Ins("STD", VarArg(out, c.e)),
                         Ins("CMPD", Dec(-1))>> \o jump("LBNE"))
        ELSE Then(Emit(out, c), TestOf(c, CMPDImmediate(0)) \o jump("LBNE"))

EmitCode(out, e, to) ==
    CASE to.as = "value"   -> EmitRValue(out, e)
      [] to.as = "address" -> EmitLValue(out, e)
      [] to.as = "jumps"   -> EmitCondition(out, e, to.success, to.failure)
=============================================================================
