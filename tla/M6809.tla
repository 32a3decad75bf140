-------------------------------- MODULE M6809 --------------------------------
(* The 6809 as the repository's simulator executes it                          *)
(* (src/cmoc/src/usim-0.91-cmoc/mc6809in.cc, mc6809.cc), on the instructions   *)
(* the modelled code generator emits: the meaning against which the code       *)
(* generator and the optimizer are checked.                                    *)
(*                                                                             *)
(* A machine is a record: the registers A, B, X, Y, U, S, the flags n, z, v,   *)
(* c, mem, a window of bytes, and pc, an index in the element list; a return   *)
(* address is such an index as well.  A byte outside the window reads as zero. *)
(* Inline assembly is executed as no operation at all.                         *)
EXTENDS AsmText, Bitwise

CONSTANT Symbols   \* [data labels -> addresses]

Byte == 0..255
Word == 0..65535
Size(r)   == IF r \in {"A", "B"} THEN 8 ELSE 16
Modulo(r) == 2 ^ Size(r)

\* A register; D is A and B.
Get(m, r)    == CASE r = "D" -> 256 * m.A + m.B [] r = "PC" -> m.pc [] OTHER -> m[r]
Set(m, r, w) == IF r = "D" THEN [m EXCEPT !.A = w \div 256, !.B = w % 256]
                           ELSE [m EXCEPT ![IF r = "PC" THEN "pc" ELSE r] = w]

Truth01(p) == IF p THEN 1 ELSE 0

\* Memory, big endian.
Read8(m, a)   == IF a \in DOMAIN m.mem THEN m.mem[a] ELSE 0
Read16(m, a)  == 256 * Read8(m, a) + Read8(m, a + 1)
Write8(m, a, w) == IF a \in DOMAIN m.mem THEN [m EXCEPT !.mem[a] = w] ELSE m
Write16(m, a, w) == Write8(Write8(m, a, w \div 256), a + 1, w % 256)
ReadAs(m, r, a) == IF Size(r) = 8 THEN Read8(m, a) ELSE Read16(m, a)
WriteAs(m, r, a, w) == IF Size(r) = 8 THEN Write8(m, a, w) ELSE Write16(m, a, w)

\* The effective address of an indexed argument and the index register after it.
Extend8(w) == IF w >= 128 THEN w - 256 ELSE w
Accumulator(m, r) == IF r = "D" THEN Get(m, "D") ELSE Extend8(Get(m, r))
Address(m, arg) ==
    LET direct == CASE arg.mode = "abs" -> arg.n
                    [] arg.mode \in {"n,R", "[n,R]"} -> Get(m, arg.name) + arg.n
                    [] arg.mode \in {"r,X", "[r,X]"} -> m.X + Accumulator(m, arg.name)
                    [] arg.mode \in {"l,PCR", "[l,PCR]", "label"} -> Symbols[arg.name] + arg.n
                    [] OTHER -> Get(m, arg.name)
    IN  IF IsIndirect(arg) THEN Read16(m, direct % 65536) ELSE direct % 65536
AfterAddress(m, arg) ==
    IF arg.mode \in {",R+", ",R++", "[,R++]"}
    THEN Set(m, arg.name, (Get(m, arg.name) + arg.n) % 65536) ELSE m
Operand(m, r, arg) ==
    CASE IsLiteral(arg)    -> arg.n % Modulo(r)
      [] arg.mode = "#l"   -> Symbols[arg.name] + arg.n
      [] OTHER             -> ReadAs(m, r, Address(m, arg))

-----------------------------------------------------------------------------
(* Flags.                                                                    *)
NZ(m, r, w) == [m EXCEPT !.n = w >= Modulo(r) \div 2, !.z = w = 0]
NZV0(m, r, w) == [NZ(m, r, w) EXCEPT !.v = FALSE]

\* V of help_add and addd: the carry into the sign bit differs from the carry out.
AddOverflows(r, x, w) ==
    LET h == Modulo(r) \div 2
    IN  ((x % h) + (w % h) >= h) # (x + w >= 2 * h)

\* V of help_sub, subd and help_cmp(Word): that of the sum of x and -w.
SubOverflows(r, x, w) == AddOverflows(r, x, (Modulo(r) - w) % Modulo(r))

\* V of help_cmp(Byte), after XRoar: the borrow into bit 7 differs from the borrow out.
Cmp8Overflows(x, w) == ((x % 128) < (w % 128)) # (x < w)

CompareFlags(m, r, x, w) ==
    [NZ(m, r, (x - w) % Modulo(r)) EXCEPT
        !.v = IF Size(r) = 8 THEN Cmp8Overflows(x, w) ELSE SubOverflows(r, x, w),
        !.c = x < w]

-----------------------------------------------------------------------------
(* Instructions.                                                             *)
Load(m, r, arg)  == LET w == Operand(m, r, arg)
                    IN  NZV0(Set(AfterAddress(m, arg), r, w), r, w)
Store(m, r, arg) == LET w == Get(m, r)
                    IN  NZV0(WriteAs(AfterAddress(m, arg), r, Address(m, arg), w), r, w)

\* The operations on one byte: the byte after, and the flags V and C.  NEG sets C
\* for 0, where the 6809 does for all but 0.
BitOf(w, n) == (w \div 2 ^ n) % 2 = 1
ByteAfter(w, v, c) == [byte |-> w % 256, v |-> v, c |-> c]
Clr(x, m) == ByteAfter(0, FALSE, FALSE)
Tst(x, m) == ByteAfter(x, FALSE, m.c)
Inc1(x, m) == ByteAfter(x + 1, x = 127, m.c)
Dec1(x, m) == ByteAfter(x - 1, x = 128, m.c)
Com(x, m) == ByteAfter(255 - x, FALSE, TRUE)
Negate(x, m) == ByteAfter(256 - x, x = 128, x = 0)
Lsl(x, m) == ByteAfter(2 * x, BitOf(x, 7) # BitOf(x, 6), BitOf(x, 7))
Rol(x, m) == ByteAfter(2 * x + Truth01(m.c), BitOf(x, 7) # BitOf(x, 6), BitOf(x, 7))
Lsr(x, m) == ByteAfter(x \div 2, m.v, BitOf(x, 0))
Ror(x, m) == ByteAfter(x \div 2 + 128 * Truth01(m.c), m.v, BitOf(x, 0))
Asr(x, m) == ByteAfter(x \div 2 + 128 * Truth01(BitOf(x, 7)), m.v, BitOf(x, 0))
Unary(op, x, m) ==
    CASE op = "CLR" -> Clr(x, m) [] op = "TST" -> Tst(x, m) [] op = "INC" -> Inc1(x, m)
      [] op = "DEC" -> Dec1(x, m) [] op = "COM" -> Com(x, m) [] op = "NEG" -> Negate(x, m)
      [] op = "LSL" -> Lsl(x, m) [] op = "ROL" -> Rol(x, m) [] op = "LSR" -> Lsr(x, m)
      [] op = "ROR" -> Ror(x, m) [] op = "ASR" -> Asr(x, m)
UnaryFlags(m, u) == [NZ(m, "B", u.byte) EXCEPT !.v = u.v, !.c = u.c]
UnaryOnRegister(m, op, r) ==
    LET u == Unary(op, m[r], m) IN UnaryFlags([m EXCEPT ![r] = u.byte], u)
UnaryOnMemory(m, op, arg) ==
    LET a == Address(m, arg)
        u == Unary(op, Read8(m, a), m)
    IN  UnaryFlags(Write8(AfterAddress(m, arg), a, u.byte), u)
Add(m, r, arg) ==
    LET x == Get(m, r)
        w == Operand(m, r, arg)
        sum == (x + w) % Modulo(r)
    IN  [NZ(Set(AfterAddress(m, arg), r, sum), r, sum) EXCEPT
            !.v = AddOverflows(r, x, w), !.c = x + w >= Modulo(r)]
Sub(m, r, arg) ==
    LET x == Get(m, r)
        w == Operand(m, r, arg)
        dif == (x - w) % Modulo(r)
    IN  [NZ(Set(AfterAddress(m, arg), r, dif), r, dif) EXCEPT
            !.v = SubOverflows(r, x, w), !.c = x < w]
Compare(m, r, arg) ==
    CompareFlags(AfterAddress(m, arg), r, Get(m, r), Operand(m, r, arg))
AddCarry(m, r, arg) ==
    LET x == Get(m, r)
        w == Operand(m, r, arg)
        sum == x + w + Truth01(m.c)
    IN  [NZ(Set(AfterAddress(m, arg), r, sum % 256), r, sum % 256) EXCEPT
            !.v = ((x % 128) + (w % 128) + Truth01(m.c) >= 128) # (sum >= 256), !.c = sum >= 256]
SubCarry(m, r, arg) ==
    LET x == Get(m, r)
        w == Operand(m, r, arg)
        dif == x - w - Truth01(m.c)
    IN  [NZ(Set(AfterAddress(m, arg), r, dif % 256), r, dif % 256) EXCEPT
            !.v = ((x % 128) - (w % 128) - Truth01(m.c) < 0) # (dif < 0), !.c = dif < 0]
Multiply(m) ==
    LET d == m.A * m.B
    IN  [Set(m, "D", d) EXCEPT !.c = d % 256 >= 128, !.z = d = 0]
Logic(m, r, arg, do) ==
    LET x == Get(m, r)
        y == Operand(m, r, arg)
        w == CASE do \in {"and", "bit"} -> x & y [] do = "or" -> x | y [] do = "eor" -> x ^^ y
    IN  IF do = "bit" THEN NZV0(AfterAddress(m, arg), r, w)
        ELSE NZV0(Set(AfterAddress(m, arg), r, w), r, w)
SignExtend(m) ==
    [m EXCEPT !.A = IF m.B >= 128 THEN 255 ELSE 0, !.n = m.B >= 128, !.z = m.B = 0]
LoadAddress(m, r, arg) ==
    LET w == Address(m, arg)
    IN  IF r \in {"X", "Y"} THEN [Set(m, r, w) EXCEPT !.z = w = 0] ELSE Set(m, r, w)

\* PSHS pushes PC, U, Y, X, B and A in this order; PULS pulls in the opposite order.
StackOrder == <<"A", "B", "X", "Y", "U", "PC">>
Bytes(r) == Size(r) \div 8
Push(m, arg) ==
    LET one(r, mm) == LET s == (mm.S - Bytes(r)) % 65536
                      IN  [WriteAs(mm, r, s, Get(mm, r)) EXCEPT !.S = s]
    IN  ForEach(1, 6, m, LAMBDA mm, k : IF StackOrder[7 - k] \in Lists[arg.name]
                                        THEN one(StackOrder[7 - k], mm) ELSE mm)
Pull(m, arg) ==
    LET one(r, mm) == [Set(mm, r, ReadAs(mm, r, mm.S)) EXCEPT
                          !.S = (mm.S + Bytes(r)) % 65536]
    IN  ForEach(1, 6, m, LAMBDA mm, k : IF StackOrder[k] \in Lists[arg.name]
                                        THEN one(StackOrder[k], mm) ELSE mm)

Transfer(m, arg) == Set(m, Pairs[arg.name][2], Get(m, Pairs[arg.name][1]))
Exchange(m, arg) ==
    LET p == Pairs[arg.name][1]
        q == Pairs[arg.name][2]
    IN  Set(Set(m, p, Get(m, q)), q, Get(m, p))

\* The tests of bcc() to bvs().
Taken(m, condition) ==
    CASE condition = "CC" -> ~ m.c          [] condition = "CS" -> m.c
      [] condition = "HS" -> ~ m.c          [] condition = "LO" -> m.c
      [] condition = "EQ" -> m.z            [] condition = "NE" -> ~ m.z
      [] condition = "MI" -> m.n            [] condition = "PL" -> ~ m.n
      [] condition = "VS" -> m.v            [] condition = "VC" -> ~ m.v
      [] condition = "GE" -> m.n = m.v      [] condition = "LT" -> m.n # m.v
      [] condition = "GT" -> (m.n = m.v) /\ ~ m.z
      [] condition = "LE" -> (m.n # m.v) \/ m.z
      [] condition = "HI" -> ~ (m.c \/ m.z) [] condition = "LS" -> m.c \/ m.z

-----------------------------------------------------------------------------
\* What an opcode does, and to which register.
Opcodes(does, kind, rs) == [op \in {kind \o r : r \in rs} |->
                               <<does, CHOOSE r \in rs : kind \o r = op>>]
UnaryOps == {"CLR", "TST", "INC", "DEC", "COM", "NEG", "LSL", "LSR", "ASR", "ROL", "ROR"}
AB == {"A", "B"}
ABD == {"A", "B", "D"}
All == {"A", "B", "D", "X", "Y", "U"}
Decode ==
    Opcodes("ld", "LD", All) @@ Opcodes("st", "ST", All) @@ Opcodes("cmp", "CMP", All)
    @@ Opcodes("lea", "LEA", {"X", "Y", "U", "S"})
    @@ Opcodes("add", "ADD", ABD) @@ Opcodes("sub", "SUB", ABD)
    @@ Opcodes("and", "AND", AB) @@ Opcodes("or", "OR", AB) @@ Opcodes("eor", "EOR", AB)
    @@ Opcodes("bit", "BIT", AB) @@ Opcodes("adc", "ADC", AB) @@ Opcodes("sbc", "SBC", AB)
    @@ [op \in UnaryOps |-> <<"mem", op>>]
    @@ [op \in {u \o r : u \in UnaryOps, r \in AB} |->
           <<CHOOSE u \in UnaryOps : \E r \in AB : u \o r = op,
             CHOOSE r \in AB : \E u \in UnaryOps : u \o r = op>>]
    @@ [SEX |-> <<"sex", "">>, MUL |-> <<"mul", "">>, ABX |-> <<"abx", "">>,
        PSHS |-> <<"psh", "">>, PULS |-> <<"pul", "">>, TFR |-> <<"tfr", "">>,
        EXG |-> <<"exg", "">>, RTS |-> <<"rts", "">>]

Execute(m, op, arg) ==
    LET do == Decode[op][1]
        r  == Decode[op][2]
    IN  CASE do = "ld"  -> Load(m, r, arg)
          [] do = "st"  -> Store(m, r, arg)
          [] do = "add" -> Add(m, r, arg)
          [] do = "sub" -> Sub(m, r, arg)
          [] do = "cmp" -> Compare(m, r, arg)
          [] do \in {"and", "or", "eor", "bit"} -> Logic(m, r, arg, do)
          [] do = "psh" -> Push(m, arg)
          [] do = "pul" -> Pull(m, arg)
          [] do = "rts" -> Pull(m, Regs("PC"))
          [] do = "lea" -> LoadAddress(m, r, arg)
          [] do = "tfr" -> Transfer(m, arg)
          [] do = "exg" -> Exchange(m, arg)
          [] do = "mem" -> UnaryOnMemory(m, op, arg)
          [] do = "sex" -> SignExtend(m)
          [] do = "mul" -> Multiply(m)
          [] do = "abx" -> [m EXCEPT !.X = (@ + m.B) % 65536]
          [] do = "adc" -> AddCarry(m, r, arg)
          [] do = "sbc" -> SubCarry(m, r, arg)
          [] OTHER -> UnaryOnRegister(m, do, r)

\* The library routines that the emitted code calls, by what they leave: a product,
\* a quotient and a remainder of X by D or of A by B, the pushed operand shifted by D
\* bits and popped, the flag Z.
Product(x, y) == (x * (y % 256) + 256 * ((x * (y \div 256)) % 256)) % 65536
SignedValue(r, w)  == IF w >= Modulo(r) \div 2 THEN w - Modulo(r) ELSE w
Abs1(w) == IF w < 0 THEN -w ELSE w
\* By 0, the unsigned loop leaves a quotient of ones and the dividend.
UnsignedQuotient(r, x, y) == IF y = 0 THEN Modulo(r) - 1 ELSE x \div y
QuotientOf(r, x, y) ==
    LET q == UnsignedQuotient(r, Abs1(x), Abs1(y)) IN (IF (x < 0) # (y < 0) THEN -q ELSE q) % Modulo(r)
RemainderOf(r, x, y) ==
    LET rest == Abs1(x) - Abs1(y) * (IF y = 0 THEN 0 ELSE Abs1(x) \div Abs1(y))
    IN  (IF x < 0 THEN -rest ELSE rest) % Modulo(r)
Divided(m, signed, r, quotient, remainder, x, y) ==
    LET lhs == IF signed THEN SignedValue(r, x) ELSE x
        rhs == IF signed THEN SignedValue(r, y) ELSE y
    IN  Set(Set(m, remainder, RemainderOf(r, lhs, rhs)), quotient, QuotientOf(r, lhs, rhs))

ShiftOf == [shiftByteLeft |-> <<"B", "left">>, shiftLeft |-> <<"D", "left">>,
            shiftByteRightSigned |-> <<"B", "signed">>, shiftRightSigned |-> <<"D", "signed">>,
            shiftByteRightUnsigned |-> <<"B", "unsigned">>, shiftRightUnsigned |-> <<"D", "unsigned">>]
Shift(m, r, how) ==
    LET w == ReadAs(m, r, m.S)
        n == IF Get(m, "D") > Size(r) THEN Size(r) ELSE Get(m, "D")
        shifted == CASE how = "left"     -> IF n = Size(r) THEN 0 ELSE (w * 2 ^ n) % Modulo(r)
                     [] how = "unsigned" -> w \div 2 ^ n
                     [] how = "signed"   -> (SignedValue(r, w) \div 2 ^ n) % Modulo(r)
    IN  [Set(m, r, shifted) EXCEPT !.S = (m.S + Size(r) \div 8) % 65536, !.X = m.pc]

JumpTables == {"signedJumpTableSwitch", "unsignedJumpTableSwitch"}
Routines == {"MUL16", "MUL168", "MUL16BY10", "DIV16", "SDIV16", "DIV8", "SDIV8", "DIV16BY10", "DIV8BY7",
             "DIV8BY3", "divDBy8", "divDBy16", "tfrZtoB"} \cup DOMAIN ShiftOf
Routine(m, name) ==
    LET d == Get(m, "D")
    IN  CASE name = "MUL16"     -> Set(m, "D", Product(d, m.X))
          [] name = "MUL168"    -> Set(m, "D", Product(m.X, m.B))
          [] name = "MUL16BY10" -> Set(m, "D", Product(d, 10))
          [] name = "DIV16"     -> Divided(m, FALSE, "X", "X", "D", m.X, d)
          [] name = "SDIV16"    -> Divided(m, TRUE, "X", "X", "D", m.X, d)
          [] name = "DIV8"      -> Divided(m, FALSE, "B", "B", "A", m.A, m.B)
          [] name = "SDIV8"     -> Divided(m, TRUE, "B", "B", "A", m.A, m.B)
          [] name = "DIV16BY10" -> Set(Set(m, "X", d), "D", d \div 10)
          [] name = "DIV8BY7"   -> Divided(m, FALSE, "B", "B", "A", m.A, 7)
          [] name = "DIV8BY3"   -> Set(Set(m, "A", m.B \div 16), "B", m.B \div 3)
          [] name = "divDBy8"   -> Set(m, "D", d \div 8)
          [] name = "divDBy16"  -> Set(m, "D", d \div 16)
          [] name = "tfrZtoB"   -> Set(m, "B", Truth01(m.z))
          [] OTHER -> Shift(m, ShiftOf[name][1], ShiftOf[name][2])

\* The switch with a table of labels, the last three words before it the least value,
\* the greatest and the default: X is the index of the table.
JumpThroughTable(code, m, signed) ==
    LET value(w) == IF signed THEN SignedValue("D", w % 65536) ELSE w % 65536
        d == value(Get(m, "D"))
        low == value(code[m.X - 3].arg.n)
        offset == IF d > value(code[m.X - 2].arg.n) \/ d < low THEN code[m.X - 1]
                  ELSE code[m.X + 1 + (d - low)]
    IN  [m EXCEPT !.pc = FindLabelIndex(code, offset.arg.name)]

\* Any other call pushes the index of the next element.
Call(m, target) ==
    LET s == (m.S - 2) % 65536
    IN  [Write16(m, s, m.pc) EXCEPT !.S = s, !.pc = target]

Branches(m, op) ==
    \/ op \in UncondBranches
    \/ op \in DOMAIN ConditionOf /\ Taken(m, ConditionOf[op])

\* One element: a label, a comment and inline assembly do nothing.
Step(code, m) ==
    LET e == code[m.pc]
        next == [m EXCEPT !.pc = m.pc + 1]
        target == IF e.arg.mode = "label" THEN FindLabelIndex(code, e.arg.name)
                  ELSE Address(m, e.arg)
    IN  IF e.type # "INSTR" THEN next
        ELSE IF e.op = "LEAX" /\ e.arg.mode = "l,PCR" /\ e.arg.name \notin DOMAIN Symbols
        THEN Set(next, "X", FindLabelIndex(code, e.arg.name))
        ELSE IF e.op \in DOMAIN Decode THEN Execute(next, e.op, e.arg)
        ELSE IF e.op = "LBRA" /\ e.arg.name \in JumpTables
        THEN JumpThroughTable(code, m, e.arg.name = "signedJumpTableSwitch")
        ELSE IF e.op \in Calls /\ e.arg.mode = "label" /\ e.arg.name \in Routines
        THEN Routine(next, e.arg.name)
        ELSE IF e.op \in Calls THEN Call(AfterAddress(next, e.arg), target)
        ELSE IF e.op = "JMP" \/ Branches(m, e.op) THEN [m EXCEPT !.pc = target]
        ELSE next

Ended(code, m) == m.pc = Len(code) + 1
==============================================================================
