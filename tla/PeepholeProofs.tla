---------------------------- MODULE PeepholeProofs ----------------------------
(* Proofs about Peephole, for every list of elements the emitters leave, every *)
(* set of generated labels and every limit on passes and on short branches.    *)
EXTENDS Peephole, SequenceTheorems, FiniteSetTheorems, TLAPS

(* What every rule of level 1 does to a list: it has as many elements or more, *)
(* each of which is an old one, a comment or an instruction; a branch in it    *)
(* has the target of an old branch; and no label is lost.                      *)
Branching(e) == e.type = "INSTR" /\ e.arg.mode = "label"
Derived(c, r) ==
    /\ IsCode(r)
    /\ Len(r) >= Len(c)
    /\ \A k \in DOMAIN r : Branching(r[k]) =>
           \E j \in DOMAIN c : Branching(c[j]) /\ c[j].arg.name = r[k].arg.name
    /\ \A j \in DOMAIN c : c[j].type = "LABEL" => \E k \in DOMAIN r : r[k] = c[j]

-----------------------------------------------------------------------------
\* A sequence is one over its own elements.
LEMMA SeqOfOwn ==
    ASSUME NEW T, NEW r \in Seq(T)
    PROVE  r \in Seq({r[k] : k \in DOMAIN r})
<1> DEFINE S == {r[k] : k \in DOMAIN r}
<1>1. Len(r) \in Nat /\ r \in [1..Len(r) -> T] /\ DOMAIN r = 1..Len(r)
  BY LenProperties
<1>2. r \in [1..Len(r) -> S]
  BY <1>1
<1> QED
  BY <1>1, <1>2, SeqDef

LEMMA CodeFacts ==
    ASSUME NEW c, IsCode(c)
    PROVE  /\ Len(c) \in Nat
           /\ DOMAIN c = 1..Len(c)
BY LenProperties DEF IsCode

LEMMA DerivedRefl == ASSUME NEW c, IsCode(c) PROVE Derived(c, c)
BY CodeFacts DEF Derived

LEMMA DerivedTrans ==
    ASSUME NEW c, NEW d, NEW r, IsCode(c), Derived(c, d), Derived(d, r)
    PROVE  Derived(c, r)
<1>1. IsCode(r) /\ IsCode(d)
  BY DEF Derived
<1>2. Len(r) >= Len(c)
  BY <1>1, CodeFacts DEF Derived
<1>3. \A k \in DOMAIN r : Branching(r[k]) =>
          \E j \in DOMAIN c : Branching(c[j]) /\ c[j].arg.name = r[k].arg.name
  BY DEF Derived
<1>4. \A j \in DOMAIN c : c[j].type = "LABEL" => \E k \in DOMAIN r : r[k] = c[j]
  BY DEF Derived
<1> QED
  BY <1>1, <1>2, <1>3, <1>4 DEF Derived

-----------------------------------------------------------------------------
(* What is left to do.                                                       *)
Shrinks(c, r) == Cardinality(Work(r)) < Cardinality(Work(c))

\* The names that the rules give to instructions: one that is shortened is not
\* long, and an inverted one is a branch.
LEMMA LongNames ==
    LongBranches = {"LBCC", "LBCS", "LBEQ", "LBNE", "LBGE", "LBLT", "LBGT", "LBLE", "LBHI",
                    "LBLS", "LBHS", "LBLO", "LBMI", "LBPL", "LBVC", "LBVS"}
BY DEF LongBranches, LongOf, Conditions

LEMMA ShortNames ==
    ShortBranches = {"BCC", "BCS", "BEQ", "BNE", "BGE", "BLT", "BGT", "BLE", "BHI",
                     "BLS", "BHS", "BLO", "BMI", "BPL", "BVC", "BVS"}
BY DEF ShortBranches, ShortOf, Conditions

LEMMA ConditionFacts ==
    ASSUME NEW op \in ShortBranches \cup LongBranches
    PROVE  ConditionOf[op] \in Conditions
<1>1. \E c \in Conditions : op \in {ShortOf[c], LongOf[c]}
  BY DEF ShortBranches, LongBranches
<1> QED
  BY <1>1 DEF ConditionOf

LEMMA OppositeFacts == \A c \in Conditions : Opposite[c] \in Conditions
BY DEF Conditions, Opposite

LEMMA ShortenedNames ==
    ASSUME NEW op \in DOMAIN WithoutL
    PROVE  WithoutL[op] \notin DOMAIN WithoutL \cup {"LDD"}
<1>1. DOMAIN WithoutL = LongBranches \cup {"LBRA", "LBSR"}
  BY DEF WithoutL
<1>2. WithoutL[op] \in ShortBranches \cup {"BRA", "BSR"}
  <2>1. CASE op \in {"LBRA", "LBSR"}
    BY <1>1, <2>1 DEF WithoutL
  <2>2. CASE op \notin {"LBRA", "LBSR"}
    <3>1. op \in LongBranches /\ WithoutL[op] = ShortOf[ConditionOf[op]]
      BY <1>1, <2>2 DEF WithoutL
    <3> QED
      BY <3>1, ConditionFacts DEF ShortBranches
  <2> QED
    BY <2>1, <2>2
<1> QED
  BY <1>1, <1>2, LongNames, ShortNames

LEMMA InvertedNames ==
    ASSUME NEW op \in DOMAIN LongInverse
    PROVE  LongInverse[op] # "LDD"
<1>1. op \in ShortBranches \cup LongBranches /\ LongInverse[op] = LongOf[Opposite[ConditionOf[op]]]
  BY DEF LongInverse
<1>2. LongInverse[op] \in LongBranches
  BY <1>1, ConditionFacts, OppositeFacts DEF LongBranches
<1> QED
  BY <1>2, LongNames

LEMMA CreditFacts ==
    /\ \A e : Credit(e) \in 0..5
    /\ \A e : e.type = "INSTR" => Credit(e) >= 2
    /\ Credit(Comment) = 0
    /\ \A arg : \A op \in {"ADDB", "ADDD", "TFR", "PSHS", "LDB", "CLRA", "CLRB"} :
          Credit(Ins(op, arg)) = 2
    /\ \A e : e.type = "INSTR" /\ e.op # "LDD" => Credit(e) <= 3
<1>1. \A e : Credit(e) \in 0..5 /\ (e.type = "INSTR" => Credit(e) >= 2)
            /\ (e.type = "INSTR" /\ e.op # "LDD" => Credit(e) <= 3)
  BY DEF Credit
<1>2. Credit(Comment) = 0
  BY DEF Credit, Comment
<1>3. ASSUME NEW arg, NEW op \in {"ADDB", "ADDD", "TFR", "PSHS", "LDB", "CLRA", "CLRB"}
      PROVE  Credit(Ins(op, arg)) = 2
  <2>1. op \notin DOMAIN WithoutL
    BY LongNames DEF WithoutL
  <2>2. op # "LDD" /\ Ins(op, arg).type = "INSTR" /\ Ins(op, arg).op = op
    BY DEF Ins
  <2> QED
    BY <2>1, <2>2 DEF Credit
<1> QED
  BY <1>1, <1>2, <1>3

LEMMA WorkFacts ==
    ASSUME NEW c, IsCode(c)
    PROVE  IsFiniteSet(Work(c)) /\ Cardinality(Work(c)) \in Nat
<1>1. IsFiniteSet(DOMAIN c) /\ IsFiniteSet(1..5)
  <2>1. \A a, b \in Int : IsFiniteSet(a..b)
    BY FS_Interval
  <2>2. DOMAIN c = 1..Len(c) /\ Len(c) \in Int /\ 1 \in Int /\ 5 \in Int
    BY CodeFacts
  <2> QED
    BY <2>1, <2>2
<1>2. IsFiniteSet((DOMAIN c) \X (1..5))
  BY <1>1, FS_Product
<1>3. Work(c) \in SUBSET ((DOMAIN c) \X (1..5))
  BY DEF Work
<1> QED
  BY <1>2, <1>3, FS_Subset, FS_CardinalityType

\* No element costs more than it did, and one costs less.
LEMMA LessWork ==
    ASSUME NEW c, IsCode(c), NEW r, DOMAIN r = DOMAIN c,
           \A j \in DOMAIN c : Credit(r[j]) <= Credit(c[j]),
           NEW q \in DOMAIN c, Credit(r[q]) < Credit(c[q])
    PROVE  Shrinks(c, r)
<1> DEFINE u == <<q, Credit(c[q])>>
<1>1. Credit(c[q]) \in 1..5 /\ Credit(r[q]) \in 0..5
  BY CreditFacts
<1>2. u \in Work(c) /\ u \notin Work(r)
  BY <1>1 DEF Work
<1>3. Work(r) \in SUBSET Work(c)
  <2> SUFFICES ASSUME NEW x \in DOMAIN r, NEW n \in 1..5, n <= Credit(r[x])
               PROVE  n <= Credit(c[x])
    BY DEF Work
  <2> QED
    BY CreditFacts
<1>4. /\ Cardinality(Work(r)) <= Cardinality(Work(c)) /\ IsFiniteSet(Work(r))
      /\ Cardinality(Work(c)) # Cardinality(Work(r))
  BY <1>2, <1>3, WorkFacts, FS_Subset
<1> QED
  BY <1>4, WorkFacts, FS_CardinalityType DEF Shrinks

\* A credit more for one element, and another left without any.
LEMMA Traded ==
    ASSUME NEW c, IsCode(c), NEW r, DOMAIN r = DOMAIN c, NEW k \in DOMAIN c, NEW q \in DOMAIN c,
           \A j \in DOMAIN c \ {k, q} : r[j] = c[j],
           c[q].type = "INSTR", Credit(r[q]) = 0, Credit(c[k]) >= 2, Credit(r[k]) <= 3
    PROVE  Shrinks(c, r)
<1> DEFINE less == (Work(c) \ {<<q, 1>>}) \ {<<q, 2>>}
<1>1. Credit(c[q]) >= 2 /\ \A e : Credit(e) \in 0..5
  BY CreditFacts
<1>2. <<q, 1>> \in Work(c) /\ <<q, 2>> \in Work(c) /\ <<q, 1>> # <<q, 2>>
  BY <1>1 DEF Work
<1>3. IsFiniteSet(less) /\ Cardinality(less) = Cardinality(Work(c)) - 2
  <2>1. /\ IsFiniteSet(Work(c) \ {<<q, 1>>})
        /\ Cardinality(Work(c) \ {<<q, 1>>}) = Cardinality(Work(c)) - 1
    BY <1>2, WorkFacts, FS_RemoveElement
  <2>2. <<q, 2>> \in Work(c) \ {<<q, 1>>}
    BY <1>2
  <2>3. /\ IsFiniteSet(less)
        /\ Cardinality(less) = Cardinality(Work(c) \ {<<q, 1>>}) - 1
    BY <2>1, <2>2, FS_RemoveElement
  <2> QED
    BY <2>1, <2>3, WorkFacts
<1>4. /\ IsFiniteSet(less \cup {<<k, 3>>})
      /\ Cardinality(less \cup {<<k, 3>>}) <= Cardinality(less) + 1
      /\ Cardinality(less) \in Nat
  <2> HIDE DEF less
  <2>1. Cardinality(less) \in Nat
    BY <1>3, FS_CardinalityType
  <2>2. /\ IsFiniteSet(less \cup {<<k, 3>>})
        /\ Cardinality(less \cup {<<k, 3>>})
              = IF <<k, 3>> \in less THEN Cardinality(less) ELSE Cardinality(less) + 1
    BY <1>3, FS_AddElement
  <2> QED
    BY <2>1, <2>2
<1>5. Work(r) \in SUBSET (less \cup {<<k, 3>>})
  <2> SUFFICES ASSUME NEW u \in Work(r) PROVE u \in less \cup {<<k, 3>>}
    OBVIOUS
  <2>0. PICK x \in DOMAIN r, n \in 1..5 : u = <<x, n>> /\ n <= Credit(r[x])
    BY DEF Work
  <2> SUFFICES <<x, n>> \in less \cup {<<k, 3>>}
    BY <2>0
  <2>1. x # q
    BY <1>1, <2>0
  <2>2. CASE x = k
    <3>1. n <= Credit(c[k]) \/ n = 3
      BY <1>1, <2>0, <2>2
    <3>2. n <= Credit(c[k]) => <<x, n>> \in Work(c)
      BY <2>2 DEF Work
    <3> QED
      BY <2>1, <2>2, <3>1, <3>2
  <2>3. CASE x # k
    <3>1. r[x] = c[x]
      BY <2>1, <2>3
    <3>2. <<x, n>> \in Work(c)
      BY <2>0, <3>1 DEF Work
    <3> QED
      BY <2>1, <3>2
  <2> QED
    BY <2>2, <2>3
<1>6. Cardinality(Work(r)) <= Cardinality(less \cup {<<k, 3>>}) /\ IsFiniteSet(Work(r))
  BY <1>4, <1>5, FS_Subset
<1> HIDE DEF less
<1> QED
  BY <1>3, <1>4, <1>6, WorkFacts, FS_CardinalityType DEF Shrinks

\* An LDD becomes two instructions, and what is after it moves.
LEMMA Divided ==
    ASSUME NEW c, IsCode(c), NEW k \in DOMAIN c, Credit(c[k]) = 5,
           NEW r, DOMAIN r = 1..(Len(c) + 1), Credit(r[k]) = 2, Credit(r[k + 1]) = 2,
           \A j \in 1..(k - 1) : r[j] = c[j],
           \A j \in (k + 2)..(Len(c) + 1) : r[j] = c[j - 1]
    PROVE  Shrinks(c, r)
<1> DEFINE left == Work(c) \ {<<k, 5>>}
           f == [u \in Work(r) |-> IF u[1] <= k THEN u
                                  ELSE IF u[1] = k + 1 THEN <<k, u[2] + 2>>
                                  ELSE <<u[1] - 1, u[2]>>]
<1>1. Len(c) \in Nat /\ DOMAIN c = 1..Len(c) /\ k \in 1..Len(c)
  BY CodeFacts
<1>2. <<k, 5>> \in Work(c)
  BY DEF Work
<1>3. IsFiniteSet(left) /\ Cardinality(left) = Cardinality(Work(c)) - 1
  BY <1>2, WorkFacts, FS_RemoveElement
<1>4. ASSUME NEW u \in Work(r)
      PROVE  \E x \in 1..(Len(c) + 1), n \in 1..5 :
                /\ u = <<x, n>> /\ u[1] = x /\ u[2] = n
                /\ x < k => u \in Work(c)
                /\ x \in {k, k + 1} => n \in 1..2
                /\ x > k + 1 => <<x - 1, n>> \in Work(c)
  <2>1. PICK x \in 1..(Len(c) + 1), n \in 1..5 : u = <<x, n>> /\ n <= Credit(r[x])
    BY DEF Work
  <2>2. u[1] = x /\ u[2] = n
    BY <2>1
  <2>3. ASSUME x < k PROVE u \in Work(c)
    <3>1. x \in DOMAIN c /\ r[x] = c[x]
      BY <1>1, <2>3
    <3> QED
      BY <2>1, <3>1 DEF Work
  <2>4. x \in {k, k + 1} => n \in 1..2
    BY <2>1
  <2>5. ASSUME x > k + 1 PROVE <<x - 1, n>> \in Work(c)
    <3>1. x - 1 \in DOMAIN c /\ r[x] = c[x - 1]
      BY <1>1, <2>5
    <3> QED
      BY <2>1, <3>1 DEF Work
  <2> QED
    BY <2>1, <2>2, <2>3, <2>4, <2>5
<1>5. \A n \in 1..4 : <<k, n>> \in left
  BY DEF Work
<1>6. /\ DOMAIN f = Work(r)
      /\ \A u \in Work(r) : f[u] = IF u[1] <= k THEN u
                                  ELSE IF u[1] = k + 1 THEN <<k, u[2] + 2>>
                                  ELSE <<u[1] - 1, u[2]>>
  OBVIOUS
<1> HIDE DEF f
<1>7. ASSUME NEW u \in Work(r) PROVE f[u] \in left
  <2>1. PICK x \in 1..(Len(c) + 1), n \in 1..5 :
                /\ u = <<x, n>> /\ u[1] = x /\ u[2] = n
                /\ x < k => u \in Work(c)
                /\ x \in {k, k + 1} => n \in 1..2
                /\ x > k + 1 => <<x - 1, n>> \in Work(c)
    BY <1>4
  <2>2. f[u] = IF x <= k THEN u ELSE IF x = k + 1 THEN <<k, n + 2>> ELSE <<x - 1, n>>
    BY <1>6, <2>1
  <2>3. CASE x < k
    BY <1>1, <2>1, <2>2, <2>3
  <2>4. CASE x = k
    <3>1. f[u] = <<k, n>> /\ n \in 1..4
      BY <1>1, <2>1, <2>2, <2>4
    <3> QED
      BY <1>5, <3>1
  <2>5. CASE x = k + 1
    <3>1. f[u] = <<k, n + 2>> /\ n + 2 \in 1..4
      BY <1>1, <2>1, <2>2, <2>5
    <3> QED
      BY <1>5, <3>1
  <2>6. CASE x > k + 1
    <3>1. f[u] = <<x - 1, n>> /\ <<x - 1, n>> \in Work(c) /\ x - 1 # k
      BY <1>1, <2>1, <2>2, <2>6
    <3> QED
      BY <3>1
  <2> QED
    BY <1>1, <2>3, <2>4, <2>5, <2>6
<1>8. ASSUME NEW u \in Work(r), NEW v \in Work(r), f[u] = f[v] PROVE u = v
  <2>1. PICK x \in 1..(Len(c) + 1), n \in 1..5 :
            /\ u = <<x, n>> /\ u[1] = x /\ u[2] = n /\ (x \in {k, k + 1} => n \in 1..2)
    BY <1>4
  <2>2. PICK y \in 1..(Len(c) + 1), m \in 1..5 :
            /\ v = <<y, m>> /\ v[1] = y /\ v[2] = m /\ (y \in {k, k + 1} => m \in 1..2)
    BY <1>4
  <2>3. f[u] = IF x <= k THEN <<x, n>> ELSE IF x = k + 1 THEN <<k, n + 2>> ELSE <<x - 1, n>>
    BY <1>6, <2>1
  <2>4. f[v] = IF y <= k THEN <<y, m>> ELSE IF y = k + 1 THEN <<k, m + 2>> ELSE <<y - 1, m>>
    BY <1>6, <2>2
  <2>5. /\ x <= k => f[u][1] = x /\ f[u][2] = n
        /\ x = k + 1 => f[u][1] = x - 1 /\ f[u][2] = n + 2
        /\ x > k + 1 => f[u][1] = x - 1 /\ f[u][2] = n
    <3>1. x <= k => f[u] = <<x, n>>
      BY <2>3
    <3>2. x = k + 1 => f[u] = <<x - 1, n + 2>>
      BY <1>1, <2>3
    <3>3. x > k + 1 => f[u] = <<x - 1, n>>
      BY <1>1, <2>3
    <3> QED
      BY <3>1, <3>2, <3>3
  <2>6. /\ y <= k => f[v][1] = y /\ f[v][2] = m
        /\ y = k + 1 => f[v][1] = y - 1 /\ f[v][2] = m + 2
        /\ y > k + 1 => f[v][1] = y - 1 /\ f[v][2] = m
    <3>1. y <= k => f[v] = <<y, m>>
      BY <2>4
    <3>2. y = k + 1 => f[v] = <<y - 1, m + 2>>
      BY <1>1, <2>4
    <3>3. y > k + 1 => f[v] = <<y - 1, m>>
      BY <1>1, <2>4
    <3> QED
      BY <3>1, <3>2, <3>3
  <2>7. x = y /\ n = m
    <3>1. f[u][1] = f[v][1] /\ f[u][2] = f[v][2]
      BY <1>8
    <3>2. k \in Int /\ x \in Int /\ y \in Int
      BY <1>1
    <3>3. (x \in {k, k + 1} => n \in 1..2) /\ (y \in {k, k + 1} => m \in 1..2)
      BY <2>1, <2>2
    <3>4. CASE x <= k
      BY <2>5, <2>6, <3>1, <3>2, <3>3, <3>4
    <3>5. CASE x = k + 1
      BY <2>5, <2>6, <3>1, <3>2, <3>3, <3>5
    <3>6. CASE x > k + 1
      BY <2>5, <2>6, <3>1, <3>2, <3>3, <3>6
    <3> QED
      BY <3>2, <3>4, <3>5, <3>6
  <2> QED
    BY <2>1, <2>2, <2>7
<1>9. f \in Injection(Work(r), left)
  <2>1. f \in [Work(r) -> left]
    BY <1>6, <1>7 DEF f
  <2> QED
    BY <1>8, <2>1 DEF Injection, IsInjective
<1>10. Cardinality(Work(r)) <= Cardinality(left) /\ IsFiniteSet(Work(r))
  BY <1>3, <1>9, FS_Injection
<1> HIDE DEF left
<1> QED
  BY <1>3, <1>10, WorkFacts, FS_CardinalityType DEF Shrinks

\* What every rule does.
Improved(c, r) == Derived(c, r) /\ Shrinks(c, r)

-----------------------------------------------------------------------------
(* The edits of ASMText.                                                     *)

LEMMA ExceptIsCode ==
    ASSUME NEW c, IsCode(c), NEW k \in DOMAIN c, NEW e, e.type \in ElementTypes
    PROVE  /\ IsCode([c EXCEPT ![k] = e])
           /\ Len([c EXCEPT ![k] = e]) = Len(c)
           /\ DOMAIN [c EXCEPT ![k] = e] = DOMAIN c
<1> DEFINE T == {c[j] : j \in DOMAIN c} \cup {e}
           r == [c EXCEPT ![k] = e]
<1>1. c \in Seq(T)
  BY SeqMonotonic DEF IsCode
<1>2. k \in 1..Len(c)
  BY CodeFacts
<1>3. r \in Seq(T) /\ Len(r) = Len(c)
  BY <1>1, <1>2, ExceptSeq
<1>4. DOMAIN r = DOMAIN c /\ \A j \in DOMAIN r : r[j].type \in ElementTypes
  BY DEF IsCode
<1> HIDE DEF r, T
<1>5. IsCode(r)
  BY <1>3, <1>4, SeqOfOwn DEF IsCode
<1> QED
  BY <1>3, <1>4, <1>5 DEF r

LEMMA ReplaceDerived ==
    ASSUME NEW c, IsCode(c), NEW k \in DOMAIN c, c[k].type = "INSTR", NEW op, NEW arg,
           arg.mode # "label" \/ \E j \in DOMAIN c : c[j].type = "INSTR" /\ c[j].arg = arg
    PROVE  /\ Derived(c, ReplaceWithInstr(c, k, op, arg))
           /\ Credit(Ins(op, arg)) < Credit(c[k]) => Shrinks(c, ReplaceWithInstr(c, k, op, arg))
<1> DEFINE e == Ins(op, arg)
           r == [c EXCEPT ![k] = e]
<1>1. e.type = "INSTR" /\ e.arg = arg
  BY DEF Ins
<1>2. IsCode(r) /\ Len(r) = Len(c) /\ DOMAIN r = DOMAIN c
  BY <1>1, ExceptIsCode DEF ElementTypes
<1>3. \A j \in DOMAIN c : r[j] = IF j = k THEN e ELSE c[j]
  BY DEF IsCode
<1>4. ASSUME NEW j \in DOMAIN r, Branching(r[j])
      PROVE  \E q \in DOMAIN c : Branching(c[q]) /\ c[q].arg.name = r[j].arg.name
  BY <1>1, <1>2, <1>3, <1>4 DEF Branching
<1>5. ASSUME NEW j \in DOMAIN c, c[j].type = "LABEL"
      PROVE  \E q \in DOMAIN r : r[q] = c[j]
  BY <1>2, <1>3, <1>5
<1> HIDE DEF e, r
<1>6. Derived(c, r)
  BY <1>2, <1>4, <1>5, CodeFacts DEF Derived
<1>7. ASSUME Credit(e) < Credit(c[k]) PROVE Shrinks(c, r)
  <2>1. \A j \in DOMAIN c : Credit(r[j]) <= Credit(c[j])
    BY <1>3, <1>7, CreditFacts
  <2>2. Credit(r[k]) < Credit(c[k])
    BY <1>3, <1>7
  <2> QED
    BY <1>2, <2>1, <2>2, LessWork
<1> QED
  BY <1>6, <1>7 DEF ReplaceWithInstr, e, r

LEMMA CommentOutAllDerived ==
    ASSUME NEW c, IsCode(c), NEW ks, \A k \in ks \cap DOMAIN c : c[k].type = "INSTR"
    PROVE  /\ Derived(c, CommentOutAll(c, ks))
           /\ Len(CommentOutAll(c, ks)) = Len(c)
           /\ ks \cap DOMAIN c # {} => Shrinks(c, CommentOutAll(c, ks))
<1> DEFINE r == CommentOutAll(c, ks)
           T == {c[j] : j \in DOMAIN c} \cup {Comment}
<1>1. Len(c) \in Nat /\ DOMAIN c = 1..Len(c)
  BY CodeFacts
<1>2. r \in [1..Len(c) -> T]
  BY <1>1 DEF CommentOutAll
<1>3. r \in Seq(T)
  BY <1>1, <1>2, SeqDef
<1>4. DOMAIN r = DOMAIN c /\ Len(r) = Len(c)
  BY <1>1, <1>2, <1>3, LenProperties
<1>5. Comment.type = "COMMENT"
  BY DEF Comment
<1>6. IsCode(r)
  <2>1. \A j \in DOMAIN r : r[j].type \in ElementTypes
    BY <1>4, <1>5 DEF CommentOutAll, IsCode, ElementTypes
  <2> QED
    BY <1>3, <2>1, SeqOfOwn DEF IsCode
<1>7. \A j \in DOMAIN c : r[j] = IF j \in ks THEN Comment ELSE c[j]
  BY DEF CommentOutAll
<1> HIDE DEF r
<1>8. ASSUME NEW j \in DOMAIN r, Branching(r[j])
      PROVE  \E q \in DOMAIN c : Branching(c[q]) /\ c[q].arg.name = r[j].arg.name
  BY <1>4, <1>5, <1>7, <1>8 DEF Branching
<1>9. ASSUME NEW j \in DOMAIN c, c[j].type = "LABEL"
      PROVE  \E q \in DOMAIN r : r[q] = c[j]
  BY <1>4, <1>7, <1>9
<1>10. ASSUME NEW q \in ks \cap DOMAIN c PROVE Shrinks(c, r)
  <2>1. \A j \in DOMAIN c : Credit(r[j]) <= Credit(c[j])
    BY <1>7, CreditFacts
  <2>2. Credit(r[q]) < Credit(c[q])
    BY <1>7, CreditFacts
  <2> QED
    BY <1>4, <2>1, <2>2, LessWork
<1> QED
  BY <1>1, <1>4, <1>6, <1>8, <1>9, <1>10 DEF Derived, r

LEMMA CommentOutDerived ==
    ASSUME NEW c, IsCode(c), NEW k \in DOMAIN c, c[k].type = "INSTR"
    PROVE  /\ Improved(c, CommentOut(c, k))
           /\ Len(CommentOut(c, k)) = Len(c)
<1>1. CommentOut(c, k) = CommentOutAll(c, {k})
  BY DEF CommentOut, CommentOutAll, IsCode
<1> QED
  BY <1>1, CommentOutAllDerived DEF Improved

LEMMA InsertDerived ==
    ASSUME NEW c, IsCode(c), NEW k \in DOMAIN c, NEW op, NEW arg, arg.mode # "label"
    PROVE  /\ Derived(c, InsertInstr(c, k, op, arg))
           /\ Len(InsertInstr(c, k, op, arg)) = Len(c) + 1
           /\ \A j \in 1..(Len(c) + 1) :
                 InsertInstr(c, k, op, arg)[j]
                   = IF j < k THEN c[j] ELSE IF j = k THEN Ins(op, arg) ELSE c[j - 1]
<1> DEFINE e == Ins(op, arg)
           T == {c[j] : j \in DOMAIN c} \cup {e}
           low == SubSeq(c, 1, k - 1)
           high == SubSeq(c, k, Len(c))
           r == InsertInstr(c, k, op, arg)
<1>1. e.type = "INSTR" /\ e.arg = arg
  BY DEF Ins
<1>2. Len(c) \in Nat /\ DOMAIN c = 1..Len(c) /\ k \in 1..Len(c)
  BY CodeFacts
<1>3. \A j \in 1..Len(c) : c[j] \in T
  BY <1>2
<1> HIDE DEF e, T
<1>4. /\ low \in Seq(T) /\ Len(low) = k - 1
      /\ \A j \in 1..(k - 1) : low[j] = c[j]
  <2>1. /\ low \in Seq(T)
        /\ Len(low) = IF 1 <= k - 1 THEN (k - 1) - 1 + 1 ELSE 0
        /\ \A j \in 1..((k - 1) - 1 + 1) : low[j] = c[1 + j - 1]
    BY <1>2, <1>3, SubSeqProperties
  <2> QED
    BY <1>2, <2>1
<1>5. /\ high \in Seq(T) /\ Len(high) = Len(c) - k + 1
      /\ \A j \in 1..(Len(c) - k + 1) : high[j] = c[k + j - 1]
  BY <1>2, <1>3, SubSeqProperties
<1>6. <<e>> \in Seq(T) /\ Len(<<e>>) = 1 /\ <<e>>[1] = e
  BY DEF T
<1> HIDE DEF low, high
<1> DEFINE left == low \o <<e>>
<1>7. /\ left \in Seq(T) /\ Len(left) = k
      /\ \A j \in 1..k : left[j] = IF j <= k - 1 THEN low[j] ELSE <<e>>[j - (k - 1)]
  BY <1>2, <1>4, <1>6, ConcatProperties
<1>8. r = left \o high
  BY DEF InsertInstr, InsertAt, low, high, e
<1> HIDE DEF left
<1>9. /\ r \in Seq(T) /\ Len(r) = Len(c) + 1
      /\ \A j \in 1..(Len(c) + 1) : r[j] = IF j <= k THEN left[j] ELSE high[j - k]
  <2>1. /\ left \o high \in Seq(T)
        /\ Len(left \o high) = Len(left) + Len(high)
        /\ \A j \in 1..(Len(left) + Len(high)) :
              (left \o high)[j] = IF j <= Len(left) THEN left[j] ELSE high[j - Len(left)]
    BY <1>5, <1>7, ConcatProperties
  <2>2. Len(left) + Len(high) = Len(c) + 1
    BY <1>2, <1>5, <1>7
  <2> QED
    BY <1>7, <1>8, <2>1, <2>2
<1> HIDE DEF r
<1>10. \A j \in 1..(Len(c) + 1) :
           r[j] = IF j < k THEN c[j] ELSE IF j = k THEN e ELSE c[j - 1]
  <2> SUFFICES ASSUME NEW j \in 1..(Len(c) + 1)
               PROVE  r[j] = IF j < k THEN c[j] ELSE IF j = k THEN e ELSE c[j - 1]
    OBVIOUS
  <2>1. CASE j < k
    BY <2>1, <1>2, <1>4, <1>7, <1>9
  <2>2. CASE j = k
    BY <2>2, <1>2, <1>6, <1>7, <1>9
  <2>3. CASE j > k
    <3>1. r[j] = high[j - k] /\ j - k \in 1..(Len(c) - k + 1)
      BY <2>3, <1>2, <1>9
    <3>2. high[j - k] = c[k + (j - k) - 1]
      BY <3>1, <1>5
    <3>3. k + (j - k) - 1 = j - 1
      BY <1>2
    <3> QED
      BY <2>3, <1>2, <3>1, <3>2, <3>3
  <2> QED
    BY <1>2, <2>1, <2>2, <2>3
<1>11. DOMAIN r = 1..(Len(c) + 1)
  BY <1>9, LenProperties
<1>12. IsCode(r)
  <2>1. \A j \in DOMAIN r : r[j].type \in ElementTypes
    <3>1. \A j \in DOMAIN c : c[j].type \in ElementTypes
      BY DEF IsCode
    <3>2. ASSUME NEW j \in DOMAIN r PROVE r[j] = e \/ \E q \in DOMAIN c : r[j] = c[q]
      <4>1. j \in 1..(Len(c) + 1)
        BY <1>11
      <4>2. j < k => j \in DOMAIN c
        BY <1>2, <4>1
      <4>3. j > k => j - 1 \in DOMAIN c
        BY <1>2, <4>1
      <4> QED
        BY <1>2, <1>10, <4>1, <4>2, <4>3
    <3> QED
      BY <1>1, <3>1, <3>2 DEF ElementTypes
  <2>2. r \in Seq(T)
    BY <1>9
  <2>3. r \in Seq({r[j] : j \in DOMAIN r})
    BY <2>2, SeqOfOwn
  <2> QED
    BY <2>1, <2>3 DEF IsCode
<1>13. ASSUME NEW j \in DOMAIN r, Branching(r[j])
       PROVE  \E q \in DOMAIN c : Branching(c[q]) /\ c[q].arg.name = r[j].arg.name
  <2>1. j \in 1..(Len(c) + 1)
    BY <1>11
  <2>2. j # k
    BY <1>1, <1>10, <1>13, <2>1 DEF Branching
  <2>3. CASE j < k
    BY <1>2, <1>10, <1>13, <2>1, <2>3
  <2>4. CASE j > k
    <3>1. j - 1 \in DOMAIN c /\ r[j] = c[j - 1]
      BY <1>2, <1>10, <2>1, <2>4
    <3> QED
      BY <1>13, <3>1
  <2> QED
    BY <1>2, <2>1, <2>2, <2>3, <2>4
<1>14. ASSUME NEW j \in DOMAIN c
       PROVE  \E q \in DOMAIN r : r[q] = c[j]
  <2>1. CASE j < k
    BY <2>1, <1>2, <1>10, <1>11
  <2>2. CASE j >= k
    <3>1. j + 1 \in DOMAIN r /\ r[j + 1] = c[j]
      BY <2>2, <1>2, <1>10, <1>11
    <3> QED
      BY <3>1
  <2> QED
    BY <1>2, <2>1, <2>2
<1>15. Derived(c, r) /\ Len(r) = Len(c) + 1
  BY <1>2, <1>9, <1>12, <1>13, <1>14 DEF Derived
<1> QED
  BY <1>10, <1>15 DEF r, e

\* The condition on an argument: it is no label, or that of an instruction of c.
ArgOf(c, arg) == arg.mode # "label" \/ \E j \in DOMAIN c : c[j].type = "INSTR" /\ c[j].arg = arg

LEMMA ReplaceAndCommentOut ==
    ASSUME NEW c, IsCode(c), NEW k \in DOMAIN c, c[k].type = "INSTR", NEW op, NEW arg,
           ArgOf(c, arg), NEW ks, \A j \in ks \cap DOMAIN c : c[j].type = "INSTR"
    PROVE  /\ Derived(c, CommentOutAll(ReplaceWithInstr(c, k, op, arg), ks))
           /\ Credit(Ins(op, arg)) <= Credit(c[k]) /\ ks \cap DOMAIN c # {} =>
                 Shrinks(c, CommentOutAll(ReplaceWithInstr(c, k, op, arg), ks))
<1> DEFINE d == ReplaceWithInstr(c, k, op, arg)
<1>1. Derived(c, d)
  BY ReplaceDerived DEF ArgOf
<1>2. DOMAIN d = DOMAIN c /\ \A j \in DOMAIN c : d[j] = IF j = k THEN Ins(op, arg) ELSE c[j]
  BY DEF ReplaceWithInstr, IsCode
<1>3. \A j \in ks \cap DOMAIN d : d[j].type = "INSTR"
  BY <1>2 DEF Ins
<1> DEFINE r == CommentOutAll(d, ks)
<1>4. Derived(d, r)
  BY <1>1, <1>3, CommentOutAllDerived DEF Derived
<1>5. ASSUME Credit(Ins(op, arg)) <= Credit(c[k]), NEW q \in ks \cap DOMAIN c
      PROVE  Shrinks(c, r)
  <2>1. /\ DOMAIN r = DOMAIN c
        /\ \A j \in DOMAIN c : r[j] = IF j \in ks THEN Comment
                                    ELSE IF j = k THEN Ins(op, arg) ELSE c[j]
    BY <1>2 DEF CommentOutAll
  <2> HIDE DEF d, r
  <2>2. \A j \in DOMAIN c : Credit(r[j]) <= Credit(c[j])
    BY <1>5, <2>1, CreditFacts
  <2>3. Credit(r[q]) < Credit(c[q])
    BY <1>5, <2>1, CreditFacts
  <2> QED
    BY <2>1, <2>2, <2>3, LessWork
<1> HIDE DEF d
<1> QED
  BY <1>1, <1>4, <1>5, DerivedTrans DEF d

LEMMA ReplaceAndCommentOutOne ==
    ASSUME NEW c, IsCode(c), NEW k \in DOMAIN c, c[k].type = "INSTR", NEW op, NEW arg,
           ArgOf(c, arg), NEW q \in DOMAIN c, c[q].type = "INSTR"
    PROVE  /\ Derived(c, CommentOut(ReplaceWithInstr(c, k, op, arg), q))
           /\ Credit(Ins(op, arg)) <= Credit(c[k]) =>
                 Shrinks(c, CommentOut(ReplaceWithInstr(c, k, op, arg), q))
<1> DEFINE d == ReplaceWithInstr(c, k, op, arg)
<1>1. CommentOut(d, q) = CommentOutAll(d, {q})
  BY DEF CommentOut, CommentOutAll, ReplaceWithInstr, IsCode
<1>2. /\ Derived(c, CommentOutAll(d, {q}))
      /\ Credit(Ins(op, arg)) <= Credit(c[k]) => Shrinks(c, CommentOutAll(d, {q}))
  BY ReplaceAndCommentOut
<1> QED
  BY <1>1, <1>2

-----------------------------------------------------------------------------
(* The rules.                                                                *)

LEMMA InstrFacts ==
    ASSUME NEW c, IsCode(c), NEW k
    PROVE  /\ \A op : IsInstr(c, k, op) => k \in DOMAIN c /\ c[k].type = "INSTR" /\ c[k].op = op
           /\ \A ops : IsOneOf(c, k, ops) => k \in DOMAIN c /\ c[k].type = "INSTR" /\ c[k].op \in ops
           /\ \A op, arg : Is(c, k, op, arg) => IsInstr(c, k, op) /\ c[k].arg = arg
           /\ \A op : IsImmedInstr(c, k, op) => IsInstr(c, k, op)
           /\ \A op : IsVarInstr(c, k, op) => IsInstr(c, k, op)
           /\ \A l : IsLabel(c, k, l) => k \in DOMAIN c
BY CodeFacts DEF IsInstr, IsOneOf, Is, IsImmedInstr, IsVarInstr, IsLabel

LEMMA ArgFacts ==
    ASSUME NEW c, IsCode(c)
    PROVE  /\ \A n : ArgOf(c, Hex(n)) /\ ArgOf(c, Dec(n))
           /\ \A rs : ArgOf(c, Regs(rs))
           /\ ArgOf(c, NoArg)
           /\ \A j \in DOMAIN c : c[j].type = "INSTR" => ArgOf(c, c[j].arg)
BY DEF ArgOf, Hex, Dec, Regs, NoArg

LEMMA BranchToNextLocationDerived ==
    ASSUME NEW c, IsCode(c), NEW k, BranchToNextLocation(c, k) # NoMatch
    PROVE  Improved(c, BranchToNextLocation(c, k))
BY InstrFacts, CommentOutDerived DEF BranchToNextLocation

LEMMA LddToLDBDerived ==
    ASSUME NEW c, IsCode(c), NEW k, LddToLDB(c, k) # NoMatch
    PROVE  Improved(c, LddToLDB(c, k))
<1>1. k \in DOMAIN c /\ c[k].type = "INSTR" /\ c[k].op = "LDD"
  BY InstrFacts DEF LddToLDB
<1>2. LddToLDB(c, k) = ReplaceWithInstr(c, k, "LDB", Hex(c[k].arg.n % 256))
  BY DEF LddToLDB
<1>3. Credit(c[k]) = 5
  BY <1>1 DEF Credit
<1>4. Credit(Ins("LDB", Hex(c[k].arg.n % 256))) = 2
  BY CreditFacts
<1>5. Hex(c[k].arg.n % 256).mode # "label"
  BY DEF Hex
<1> QED
  BY <1>1, <1>2, <1>3, <1>4, <1>5, ReplaceDerived DEF Improved

LEMMA PushLoadDiscardAddDerived ==
    ASSUME NEW c, IsCode(c), NEW k, PushLoadDiscardAdd(c, k) # NoMatch
    PROVE  Improved(c, PushLoadDiscardAdd(c, k))
<1>1. \A j \in {k, k + 1, k + 2, k + 3} : j \in DOMAIN c /\ c[j].type = "INSTR"
  <2>1. k \in DOMAIN c /\ c[k].type = "INSTR"
    BY CodeFacts DEF PushLoadDiscardAdd, IsInstr, Is, IsImmedInstr, IsVarInstr
  <2>2. k + 1 \in DOMAIN c /\ c[k + 1].type = "INSTR"
    BY CodeFacts DEF PushLoadDiscardAdd, IsInstr, Is, IsImmedInstr, IsVarInstr
  <2>3. k + 2 \in DOMAIN c /\ c[k + 2].type = "INSTR"
    BY CodeFacts DEF PushLoadDiscardAdd, IsInstr, Is, IsImmedInstr, IsVarInstr
  <2>4. k + 3 \in DOMAIN c /\ c[k + 3].type = "INSTR"
    BY CodeFacts DEF PushLoadDiscardAdd, IsInstr, Is, IsImmedInstr, IsVarInstr
  <2> QED
    BY <2>1, <2>2, <2>3, <2>4
<1> DEFINE arg == Hex(ImmedArg(c[k + 1].arg) % 256)
<1>2. PushLoadDiscardAdd(c, k)
        = CommentOutAll(ReplaceWithInstr(c, k, "ADDB", arg), {k + 1, k + 2, k + 3})
  BY DEF PushLoadDiscardAdd
<1>3. ArgOf(c, arg) /\ Credit(Ins("ADDB", arg)) <= Credit(c[k])
  BY <1>1, ArgFacts, CreditFacts
<1> HIDE DEF arg
<1>4. {k + 1, k + 2, k + 3} \cap DOMAIN c # {}
  BY <1>1
<1> QED
  BY <1>1, <1>2, <1>3, <1>4, ReplaceAndCommentOut DEF Improved

LEMMA PushBLoadAddDerived ==
    ASSUME NEW c, IsCode(c), NEW k, PushBLoadAdd(c, k) # NoMatch
    PROVE  Improved(c, PushBLoadAdd(c, k))
<1>1. \A j \in {k, k + 1, k + 2} : j \in DOMAIN c /\ c[j].type = "INSTR"
  <2>1. k \in DOMAIN c /\ c[k].type = "INSTR"
    BY CodeFacts DEF PushBLoadAdd, IsInstr, Is, IsImmedInstr, IsVarInstr
  <2>2. k + 1 \in DOMAIN c /\ c[k + 1].type = "INSTR"
    BY CodeFacts DEF PushBLoadAdd, IsInstr, Is, IsImmedInstr, IsVarInstr
  <2>3. k + 2 \in DOMAIN c /\ c[k + 2].type = "INSTR"
    BY CodeFacts DEF PushBLoadAdd, IsInstr, Is, IsImmedInstr, IsVarInstr
  <2> QED
    BY <2>1, <2>2, <2>3
<1> QED
  BY <1>1, ArgFacts, CreditFacts, ReplaceAndCommentOut DEF PushBLoadAdd, Improved

LEMMA PushDLoadAddDerived ==
    ASSUME NEW c, IsCode(c), NEW k, PushDLoadAdd(c, k) # NoMatch
    PROVE  Improved(c, PushDLoadAdd(c, k))
<1> DEFINE ldd == FindNextInstrBeforeLabel(c, k + 1)
           addd == FindNextInstrBeforeLabel(c, ldd + 1)
<1> HIDE DEF ldd, addd
<1>1. \A j \in {k, ldd, addd} : j \in DOMAIN c /\ c[j].type = "INSTR"
  <2>1. k \in DOMAIN c /\ c[k].type = "INSTR"
    BY CodeFacts DEF PushDLoadAdd, ldd, addd, IsInstr, Is, IsImmedInstr, IsVarInstr
  <2>2. ldd \in DOMAIN c /\ c[ldd].type = "INSTR"
    BY CodeFacts DEF PushDLoadAdd, ldd, addd, IsInstr, Is, IsImmedInstr, IsVarInstr
  <2>3. addd \in DOMAIN c /\ c[addd].type = "INSTR"
    BY CodeFacts DEF PushDLoadAdd, ldd, addd, IsInstr, Is, IsImmedInstr, IsVarInstr
  <2> QED
    BY <2>1, <2>2, <2>3
<1>2. PushDLoadAdd(c, k)
        = CommentOutAll(ReplaceWithInstr(c, addd, "ADDD", c[ldd].arg), {k, ldd})
  BY DEF PushDLoadAdd, ldd, addd
<1> QED
  BY <1>1, <1>2, ArgFacts, CreditFacts, ReplaceAndCommentOut DEF Improved

LEMMA PushLoadDLoadXDerived ==
    ASSUME NEW c, IsCode(c), NEW k, PushLoadDLoadX(c, k) # NoMatch
    PROVE  Improved(c, PushLoadDLoadX(c, k))
<1>1. \A j \in {k, k + 2} : j \in DOMAIN c /\ c[j].type = "INSTR"
  <2>1. k \in DOMAIN c /\ c[k].type = "INSTR"
    BY CodeFacts DEF PushLoadDLoadX, IsInstr, Is, IsImmedInstr, IsVarInstr
  <2>2. k + 2 \in DOMAIN c /\ c[k + 2].type = "INSTR"
    BY CodeFacts DEF PushLoadDLoadX, IsInstr, Is, IsImmedInstr, IsVarInstr
  <2> QED
    BY <2>1, <2>2
<1> QED
  BY <1>1, ArgFacts, CreditFacts, ReplaceAndCommentOutOne DEF PushLoadDLoadX, Improved

LEMMA ReplaceLDDZeroDerived ==
    ASSUME NEW c, IsCode(c), NEW k, ReplaceLDDZero(c, k) # NoMatch
    PROVE  Improved(c, ReplaceLDDZero(c, k))
<1> DEFINE d == InsertInstr(c, k, "CLRB", NoArg)
           r == ReplaceWithInstr(d, k + 1, "CLRA", NoArg)
<1>1. k \in DOMAIN c /\ c[k].type = "INSTR" /\ c[k].op = "LDD"
  BY InstrFacts DEF ReplaceLDDZero
<1>2. k \in 1..Len(c) /\ Len(c) \in Nat
  BY <1>1, CodeFacts
<1>3. /\ Derived(c, d) /\ Len(d) = Len(c) + 1
      /\ \A j \in 1..(Len(c) + 1) :
            d[j] = IF j < k THEN c[j] ELSE IF j = k THEN Ins("CLRB", NoArg) ELSE c[j - 1]
  <2>1. NoArg.mode # "label"
    BY DEF NoArg
  <2> QED
    BY <1>1, <2>1, InsertDerived
<1>4. ReplaceLDDZero(c, k) = r
  BY DEF ReplaceLDDZero
<1> HIDE DEF d
<1>5. IsCode(d) /\ DOMAIN d = 1..(Len(c) + 1) /\ k + 1 \in DOMAIN d /\ d[k + 1] = c[k]
  BY <1>2, <1>3, CodeFacts DEF Derived
<1>6. Derived(d, r)
  BY <1>1, <1>5, ReplaceDerived DEF NoArg
<1>7. /\ DOMAIN r = 1..(Len(c) + 1)
      /\ \A j \in DOMAIN r : r[j] = IF j = k + 1 THEN Ins("CLRA", NoArg) ELSE d[j]
  BY <1>5 DEF ReplaceWithInstr, IsCode
<1> HIDE DEF r
<1>8. Shrinks(c, r)
  <2>1. Credit(c[k]) = 5
    BY <1>1 DEF Credit
  <2>2. r[k] = Ins("CLRB", NoArg) /\ r[k + 1] = Ins("CLRA", NoArg)
    BY <1>2, <1>3, <1>7
  <2>3. Credit(r[k]) = 2 /\ Credit(r[k + 1]) = 2
    BY <2>2, CreditFacts
  <2>4. \A j \in 1..(k - 1) : r[j] = c[j]
    BY <1>2, <1>3, <1>7
  <2>5. \A j \in (k + 2)..(Len(c) + 1) : r[j] = c[j - 1]
    BY <1>2, <1>3, <1>7
  <2> QED
    BY <1>1, <1>7, <2>1, <2>3, <2>4, <2>5, Divided
<1> QED
  BY <1>3, <1>4, <1>6, <1>8, DerivedTrans DEF Improved

LEMMA PushDLoadXLoadDDerived ==
    ASSUME NEW c, IsCode(c), NEW k, PushDLoadXLoadD(c, k) # NoMatch
    PROVE  Improved(c, PushDLoadXLoadD(c, k))
<1>1. \A j \in {k, k + 2} : j \in DOMAIN c /\ c[j].type = "INSTR"
  <2>1. k \in DOMAIN c /\ c[k].type = "INSTR"
    BY CodeFacts DEF PushDLoadXLoadD, IsInstr, Is, IsImmedInstr, IsVarInstr
  <2>2. k + 2 \in DOMAIN c /\ c[k + 2].type = "INSTR"
    BY CodeFacts DEF PushDLoadXLoadD, IsInstr, Is, IsImmedInstr, IsVarInstr
  <2> QED
    BY <2>1, <2>2
<1> QED
  BY <1>1, CommentOutAllDerived DEF PushDLoadXLoadD, Improved

LEMMA PushDLoadXDerived ==
    ASSUME NEW c, IsCode(c), NEW k, PushDLoadX(c, k) # NoMatch
    PROVE  Improved(c, PushDLoadX(c, k))
<1>1. \A j \in {k, k + 1} : j \in DOMAIN c /\ c[j].type = "INSTR"
  <2>1. k \in DOMAIN c /\ c[k].type = "INSTR"
    BY CodeFacts DEF PushDLoadX, IsInstr, Is, IsImmedInstr, IsVarInstr
  <2>2. k + 1 \in DOMAIN c /\ c[k + 1].type = "INSTR"
    BY CodeFacts DEF PushDLoadX, IsInstr, Is, IsImmedInstr, IsVarInstr
  <2> QED
    BY <2>1, <2>2
<1> QED
  BY <1>1, ArgFacts, CreditFacts, ReplaceAndCommentOutOne DEF PushDLoadX, Improved

LEMMA StripConsecutiveLoadsDerived ==
    ASSUME NEW c, IsCode(c), NEW k, StripConsecutiveLoadsToSameReg(c, k) # NoMatch
    PROVE  Improved(c, StripConsecutiveLoadsToSameReg(c, k))
BY InstrFacts, CommentOutDerived DEF StripConsecutiveLoadsToSameReg

LEMMA StoreLoadDerived ==
    ASSUME NEW c, IsCode(c), NEW k, StoreLoad(c, k) # NoMatch
    PROVE  Improved(c, StoreLoad(c, k))
BY InstrFacts, CommentOutDerived DEF StoreLoad

LEMMA CondBranchOverUncondBranchDerived ==
    ASSUME NEW c, IsCode(c), NEW k, CondBranchOverUncondBranch(c, k) # NoMatch
    PROVE  Improved(c, CondBranchOverUncondBranch(c, k))
<1> DEFINE uncond == FindNextInstrBeforeLabel(c, k + 1)
           op == LongInverse[c[k].op]
           r == CommentOut(ReplaceWithInstr(c, k, op, c[uncond].arg), uncond)
<1> HIDE DEF uncond
<1>1. \A j \in {k, uncond} : j \in DOMAIN c /\ c[j].type = "INSTR"
  BY InstrFacts DEF CondBranchOverUncondBranch, uncond
<1>2. CondBranchOverUncondBranch(c, k) = r /\ c[k].op \in DOMAIN LongInverse
  BY InstrFacts DEF CondBranchOverUncondBranch, uncond
<1>3. op # "LDD"
  BY <1>2, InvertedNames
<1> HIDE DEF op
<1>4. Derived(c, r)
  BY <1>1, ArgFacts, ReplaceAndCommentOutOne
<1>5. /\ DOMAIN r = DOMAIN c
      /\ \A j \in DOMAIN c : r[j] = IF j = uncond THEN Comment
                                  ELSE IF j = k THEN Ins(op, c[uncond].arg) ELSE c[j]
  BY DEF CommentOut, ReplaceWithInstr, IsCode
<1> HIDE DEF r
<1>6. Shrinks(c, r)
  <2>1. Credit(r[uncond]) = 0 /\ Credit(c[k]) >= 2
    BY <1>1, <1>5, CreditFacts
  <2>2. Ins(op, c[uncond].arg).type = "INSTR" /\ Ins(op, c[uncond].arg).op = op
    BY DEF Ins
  <2>3. Credit(r[k]) <= 3
    BY <1>1, <1>3, <1>5, <2>2, CreditFacts
  <2> QED
    BY <1>1, <1>5, <2>1, <2>3, Traded
<1> QED
  BY <1>2, <1>4, <1>6 DEF Improved

LEMMA ShortenBranchDerived ==
    ASSUME NEW c, IsCode(c), NEW k, ShortenBranch(c, k) # NoMatch
    PROVE  Improved(c, ShortenBranch(c, k))
<1> DEFINE op == WithoutL[c[k].op]
<1>1. k \in DOMAIN c /\ c[k].type = "INSTR" /\ c[k].op \in DOMAIN WithoutL
  BY InstrFacts DEF ShortenBranch
<1>2. ShortenBranch(c, k) = ReplaceWithInstr(c, k, op, c[k].arg)
  BY DEF ShortenBranch
<1>3. op \notin DOMAIN WithoutL /\ op # "LDD"
  BY <1>1, ShortenedNames
<1> HIDE DEF op
<1>4. Credit(c[k]) >= 3
  BY <1>1 DEF Credit
<1>5. Credit(Ins(op, c[k].arg)) = 2
  BY <1>3 DEF Credit, Ins
<1>6. Credit(c[k]) \in 0..5
  BY CreditFacts
<1>7. \E j \in DOMAIN c : c[j].type = "INSTR" /\ c[j].arg = c[k].arg
  BY <1>1
<1> QED
  BY <1>1, <1>2, <1>4, <1>5, <1>6, <1>7, ReplaceDerived DEF Improved

LEMMA LoadCmpZeroBeqOrBneDerived ==
    ASSUME NEW c, IsCode(c), NEW k, LoadCmpZeroBeqOrBne(c, k) # NoMatch
    PROVE  Improved(c, LoadCmpZeroBeqOrBne(c, k))
BY InstrFacts, CommentOutDerived DEF LoadCmpZeroBeqOrBne

LEMMA PushWordForByteComparisonDerived ==
    ASSUME NEW c, IsCode(c), NEW k, PushWordForByteComparison(c, k) # NoMatch
    PROVE  Improved(c, PushWordForByteComparison(c, k))
<1>1. \A j \in {k, k + 2, k + 3} : j \in DOMAIN c /\ c[j].type = "INSTR"
  <2>1. k \in DOMAIN c /\ c[k].type = "INSTR"
    BY CodeFacts DEF PushWordForByteComparison, IsInstr, Is, IsImmedInstr, IsVarInstr
  <2>2. k + 2 \in DOMAIN c /\ c[k + 2].type = "INSTR"
    BY CodeFacts DEF PushWordForByteComparison, IsInstr, Is, IsImmedInstr, IsVarInstr
  <2>3. k + 3 \in DOMAIN c /\ c[k + 3].type = "INSTR"
    BY CodeFacts DEF PushWordForByteComparison, IsInstr, Is, IsImmedInstr, IsVarInstr
  <2> QED
    BY <2>1, <2>2, <2>3
<1> QED
  BY <1>1, ArgFacts, CreditFacts, ReplaceAndCommentOut DEF PushWordForByteComparison, Improved

LEMMA StripConsecOppositeTFRsDerived ==
    ASSUME NEW c, IsCode(c), NEW k, StripConsecOppositeTFRs(c, k) # NoMatch
    PROVE  Improved(c, StripConsecOppositeTFRs(c, k))
BY InstrFacts, CommentOutDerived DEF StripConsecOppositeTFRs

LEMMA StripOpToDeadRegDerived ==
    ASSUME NEW c, IsCode(c), NEW k \in DOMAIN c, StripOpToDeadReg(c, k) # NoMatch
    PROVE  Improved(c, StripOpToDeadReg(c, k))
BY CommentOutDerived DEF StripOpToDeadReg

LEMMA StripUselessPushPullDerived ==
    ASSUME NEW c, IsCode(c), NEW k, StripUselessPushPull(c, k) # NoMatch
    PROVE  Improved(c, StripUselessPushPull(c, k))
<1> DEFINE middle == FindNextInstrBeforeLabel(c, k + 1)
           last == FindNextInstrBeforeLabel(c, middle + 1)
<1> HIDE DEF middle, last
<1>1. \A j \in {k, last} : j \in DOMAIN c /\ c[j].type = "INSTR"
  <2>1. k \in DOMAIN c /\ c[k].type = "INSTR"
    BY CodeFacts DEF StripUselessPushPull, middle, last, IsInstr, Is, IsImmedInstr, IsVarInstr
  <2>2. last \in DOMAIN c /\ c[last].type = "INSTR"
    BY CodeFacts DEF StripUselessPushPull, middle, last, IsInstr, Is, IsImmedInstr, IsVarInstr
  <2> QED
    BY <2>1, <2>2
<1>2. StripUselessPushPull(c, k) = CommentOutAll(c, {k, last})
  BY DEF StripUselessPushPull, middle, last
<1> QED
  BY <1>1, <1>2, CommentOutAllDerived DEF Improved

LEMMA StripUselessBitwiseOpDerived ==
    ASSUME NEW c, IsCode(c), NEW k, StripUselessBitwiseOp(c, k) # NoMatch
    PROVE  Improved(c, StripUselessBitwiseOp(c, k))
BY InstrFacts, CommentOutDerived DEF StripUselessBitwiseOp

-----------------------------------------------------------------------------
(* All of level 1.                                                           *)

Fine(c, r) == r # NoMatch => Improved(c, r)

LEMMA Level1Derived ==
    ASSUME NEW c, IsCode(c), NEW k \in DOMAIN c, Level1(c, k) # NoMatch
    PROVE  Improved(c, Level1(c, k))
<1>1. Fine(c, BranchToNextLocation(c, k))
  BY BranchToNextLocationDerived DEF Fine
<1>2. Fine(c, LddToLDB(c, k))
  BY LddToLDBDerived DEF Fine
<1>3. Fine(c, PushLoadDiscardAdd(c, k))
  BY PushLoadDiscardAddDerived DEF Fine
<1>4. Fine(c, PushBLoadAdd(c, k))
  BY PushBLoadAddDerived DEF Fine
<1>5. Fine(c, PushDLoadAdd(c, k))
  BY PushDLoadAddDerived DEF Fine
<1>6. Fine(c, PushLoadDLoadX(c, k))
  BY PushLoadDLoadXDerived DEF Fine
<1>7. Fine(c, ReplaceLDDZero(c, k))
  BY ReplaceLDDZeroDerived DEF Fine
<1>8. Fine(c, PushDLoadXLoadD(c, k))
  BY PushDLoadXLoadDDerived DEF Fine
<1>9. Fine(c, PushDLoadX(c, k))
  BY PushDLoadXDerived DEF Fine
<1>10. Fine(c, StripConsecutiveLoadsToSameReg(c, k))
  BY StripConsecutiveLoadsDerived DEF Fine
<1>11. Fine(c, StoreLoad(c, k))
  BY StoreLoadDerived DEF Fine
<1>12. Fine(c, CondBranchOverUncondBranch(c, k))
  BY CondBranchOverUncondBranchDerived DEF Fine
<1>13. Fine(c, ShortenBranch(c, k))
  BY ShortenBranchDerived DEF Fine
<1>14. Fine(c, LoadCmpZeroBeqOrBne(c, k))
  BY LoadCmpZeroBeqOrBneDerived DEF Fine
<1>15. Fine(c, PushWordForByteComparison(c, k))
  BY PushWordForByteComparisonDerived DEF Fine
<1>16. Fine(c, StripConsecOppositeTFRs(c, k))
  BY StripConsecOppositeTFRsDerived DEF Fine
<1>17. Fine(c, StripOpToDeadReg(c, k))
  BY StripOpToDeadRegDerived DEF Fine
<1>18. Fine(c, StripUselessPushPull(c, k))
  BY StripUselessPushPullDerived DEF Fine
<1>19. Fine(c, StripUselessBitwiseOp(c, k))
  BY StripUselessBitwiseOpDerived DEF Fine
<1>20. \A a, b : Fine(c, a) /\ Fine(c, b) => Fine(c, Otherwise(a, b))
  BY DEF Fine, Otherwise
<1>21. Fine(c, Level1(c, k))
  BY <1>1, <1>2, <1>3, <1>4, <1>5, <1>6, <1>7, <1>8, <1>9, <1>10, <1>11, <1>12,
     <1>13, <1>14, <1>15, <1>16, <1>17, <1>18, <1>19, <1>20
     DEF Level1
<1> QED
  BY <1>21 DEF Fine

LEMMA Level1AtInstr ==
    ASSUME NEW c, IsCode(c), NEW k \in DOMAIN c, c[k].type # "INSTR"
    PROVE  Level1(c, k) = NoMatch
<1>1. /\ \A op : ~ IsInstr(c, k, op)
      /\ \A ops : ~ IsOneOf(c, k, ops)
      /\ \A op, arg : ~ Is(c, k, op, arg)
  BY DEF IsInstr, IsOneOf, Is
<1>2. BranchToNextLocation(c, k) = NoMatch
  BY <1>1 DEF BranchToNextLocation
<1>3. LddToLDB(c, k) = NoMatch
  BY <1>1 DEF LddToLDB
<1>4. PushLoadDiscardAdd(c, k) = NoMatch
  BY <1>1 DEF PushLoadDiscardAdd
<1>5. PushBLoadAdd(c, k) = NoMatch
  BY <1>1 DEF PushBLoadAdd
<1>6. PushDLoadAdd(c, k) = NoMatch
  BY <1>1 DEF PushDLoadAdd
<1>7. PushLoadDLoadX(c, k) = NoMatch
  BY <1>1 DEF PushLoadDLoadX
<1>8. ReplaceLDDZero(c, k) = NoMatch
  BY <1>1 DEF ReplaceLDDZero
<1>9. PushDLoadXLoadD(c, k) = NoMatch
  BY <1>1 DEF PushDLoadXLoadD
<1>10. PushDLoadX(c, k) = NoMatch
  BY <1>1 DEF PushDLoadX
<1>11. StripConsecutiveLoadsToSameReg(c, k) = NoMatch
  BY <1>1 DEF StripConsecutiveLoadsToSameReg
<1>12. StoreLoad(c, k) = NoMatch
  BY <1>1 DEF StoreLoad
<1>13. CondBranchOverUncondBranch(c, k) = NoMatch
  BY <1>1 DEF CondBranchOverUncondBranch
<1>14. ShortenBranch(c, k) = NoMatch
  BY <1>1 DEF ShortenBranch
<1>15. LoadCmpZeroBeqOrBne(c, k) = NoMatch
  BY <1>1 DEF LoadCmpZeroBeqOrBne
<1>16. PushWordForByteComparison(c, k) = NoMatch
  BY <1>1 DEF PushWordForByteComparison
<1>17. StripConsecOppositeTFRs(c, k) = NoMatch
  BY <1>1 DEF StripConsecOppositeTFRs
<1>18. StripOpToDeadReg(c, k) = NoMatch
  BY <1>1 DEF StripOpToDeadReg
<1>19. StripUselessPushPull(c, k) = NoMatch
  BY <1>1 DEF StripUselessPushPull
<1>20. StripUselessBitwiseOp(c, k) = NoMatch
  BY <1>1 DEF StripUselessBitwiseOp
<1>21. \A b : b = NoMatch => Otherwise(NoMatch, b) = NoMatch
  BY DEF Otherwise
<1> QED
  BY <1>2, <1>3, <1>4, <1>5, <1>6, <1>7, <1>8, <1>9, <1>10, <1>11, <1>12, <1>13,
     <1>14, <1>15, <1>16, <1>17, <1>18, <1>19, <1>20, <1>21
     DEF Level1

LEMMA NextInstructionFacts ==
    ASSUME NEW c, IsCode(c), NEW k \in DOMAIN c
    PROVE  /\ NextInstruction(c, k) \in DOMAIN c
           /\ NextInstruction(c, k) >= k
           /\ \A j \in k..(NextInstruction(c, k) - 1) : c[j].type # "INSTR"
<1>1. Len(c) \in Nat /\ DOMAIN c = 1..Len(c) /\ k \in 1..Len(c)
  BY CodeFacts
<1> DEFINE next == FindNextInstrBeforeLabel(c, k)
           first == {q \in k..Len(c) : /\ c[q].type # "COMMENT"
                                       /\ \A j \in k..(q - 1) : c[j].type = "COMMENT"}
<1>2. next # NotFound => next \in first
  BY DEF FindNextInstrBeforeLabel
<1>3. CASE next = NotFound
  BY <1>1, <1>3 DEF NextInstruction
<1>4. CASE next # NotFound
  <2>1. NextInstruction(c, k) = next /\ next \in first
    BY <1>2, <1>4 DEF NextInstruction
  <2> HIDE DEF next
  <2>2. next \in k..Len(c) /\ \A j \in k..(next - 1) : c[j].type = "COMMENT"
    BY <2>1
  <2> QED
    BY <1>1, <2>1, <2>2
<1> QED
  BY <1>3, <1>4

LEMMA RemoveUselessLabelsFacts ==
    ASSUME NEW c, IsCode(c)
    PROVE  /\ IsCode(RemoveUselessLabels(c))
           /\ Len(RemoveUselessLabels(c)) = Len(c)
           /\ Closed(c) => Closed(RemoveUselessLabels(c))
           /\ RemoveUselessLabels(c) # c => Shrinks(c, RemoveUselessLabels(c))
<1> DEFINE r == RemoveUselessLabels(c)
           T == {c[j] : j \in DOMAIN c} \cup {Comment}
           useless(j) == /\ c[j].type = "LABEL"
                         /\ c[j].op \in GeneratedLabels
                         /\ c[j].op \notin UsedLabels(c) \cup AddressedLabels(c)
<1>1. Len(c) \in Nat /\ DOMAIN c = 1..Len(c)
  BY CodeFacts
<1>2. Comment.type = "COMMENT"
  BY DEF Comment
<1>3. \A j \in DOMAIN c : r[j] = IF useless(j) THEN Comment ELSE c[j]
  BY DEF RemoveUselessLabels
<1>4. r \in [1..Len(c) -> T]
  BY <1>1 DEF RemoveUselessLabels
<1>5. r \in Seq(T)
  BY <1>1, <1>4, SeqDef
<1>6. DOMAIN r = DOMAIN c /\ Len(r) = Len(c)
  BY <1>1, <1>4, <1>5, LenProperties
<1>7. IsCode(r)
  <2>1. \A j \in DOMAIN r : r[j].type \in ElementTypes
    BY <1>2, <1>3, <1>6 DEF IsCode, ElementTypes
  <2> QED
    BY <1>5, <2>1, SeqOfOwn DEF IsCode
<1> HIDE DEF r
<1>8. UsedLabels(r) \subseteq UsedLabels(c)
  <2> SUFFICES ASSUME NEW j \in DOMAIN r, r[j].type = "INSTR", r[j].arg.mode = "label"
               PROVE  r[j].arg.name \in UsedLabels(c)
    BY DEF UsedLabels
  <2>1. j \in DOMAIN c /\ r[j] = c[j]
    BY <1>2, <1>3, <1>6
  <2> QED
    BY <2>1 DEF UsedLabels
<1>9. ASSUME Closed(c), NEW l \in UsedLabels(r) \cap GeneratedLabels
      PROVE  \E j \in DOMAIN r : r[j].type = "LABEL" /\ r[j].op = l
  <2>1. PICK j \in DOMAIN c : c[j].type = "LABEL" /\ c[j].op = l
    BY <1>8, <1>9 DEF Closed
  <2>2. r[j] = c[j]
    BY <1>3, <1>8, <2>1
  <2> QED
    BY <1>6, <2>1, <2>2
<1>10. ASSUME r # c PROVE Shrinks(c, r)
  <2>1. PICK q \in DOMAIN c : r[q] # c[q]
    <3>1. r = [j \in DOMAIN c |-> r[j]] /\ c = [j \in DOMAIN c |-> c[j]]
      BY DEF r, RemoveUselessLabels, IsCode
    <3> QED
      BY <1>10, <3>1
  <2>2. Credit(c[q]) = 1 /\ Credit(r[q]) = 0
    BY <1>3, <2>1, CreditFacts DEF Credit
  <2>3. \A j \in DOMAIN c : Credit(r[j]) <= Credit(c[j])
    BY <1>3, CreditFacts
  <2> QED
    BY <1>6, <2>2, <2>3, LessWork
<1> QED
  BY <1>6, <1>7, <1>9, <1>10 DEF Closed, r

LEMMA DerivedIsClosed ==
    ASSUME NEW c, NEW r, IsCode(c), Derived(c, r), Closed(c)
    PROVE  Closed(r)
<1> SUFFICES ASSUME NEW l \in UsedLabels(r) \cap GeneratedLabels
             PROVE  \E j \in DOMAIN r : r[j].type = "LABEL" /\ r[j].op = l
  BY DEF Closed
<1>1. PICK k \in DOMAIN r : Branching(r[k]) /\ r[k].arg.name = l
  BY DEF UsedLabels, Branching
<1>2. PICK j \in DOMAIN c : Branching(c[j]) /\ c[j].arg.name = l
  BY <1>1 DEF Derived
<1>3. l \in UsedLabels(c)
  BY <1>2 DEF UsedLabels, Branching
<1>4. PICK q \in DOMAIN c : c[q].type = "LABEL" /\ c[q].op = l
  BY <1>3 DEF Closed
<1> QED
  BY <1>4 DEF Derived

-----------------------------------------------------------------------------
(* The invariant.  A pass that has changed nothing so far has found no rule   *)
(* to apply before its index.                                                *)
NothingBefore ==
    (pc = "scan" /\ ~ modified) =>
        /\ RemoveUselessLabels(code) = code
        /\ \A k \in 1..(i - 1) : Level1(code, k) = NoMatch

IInv ==
    /\ TypeOK
    /\ NoDanglingLabel
    /\ NothingBefore
    /\ FixedPoint
    /\ pc \in {"pass", "scan"} => numIters < MaxIters

LEMMA InitIInv == Init => IInv
<1> SUFFICES ASSUME Init PROVE IInv
  OBVIOUS
<1>1. IsCode(code) /\ Closed(code)
  BY CodesAssumption DEF Init, InitFrom
<1>2. i = 1 /\ numIters = 0 /\ modified = FALSE /\ pc \in {"done", "pass"}
  BY DEF Init, InitFrom
<1>3. Len(code) \in Nat
  BY <1>1, CodeFacts
<1>4. TypeOK
  <2>1. i \in 1..(Len(code) + 1)
    BY <1>2, <1>3
  <2>2. numIters \in 0..MaxIters
    BY <1>2, MaxItersAssumption
  <2> QED
    BY <1>1, <1>2, <2>1, <2>2 DEF TypeOK
<1>5. FixedPoint
  BY <1>2 DEF FixedPoint
<1>6. NothingBefore
  BY <1>2 DEF NothingBefore
<1>7. numIters < MaxIters
  BY <1>2, MaxItersAssumption
<1> QED
  BY <1>1, <1>4, <1>5, <1>6, <1>7 DEF IInv, NoDanglingLabel

LEMMA StartPassStep == IInv /\ StartPass => IInv'
<1> SUFFICES ASSUME IInv, StartPass PROVE IInv'
  OBVIOUS
<1>1. IsCode(code) /\ Closed(code)
  BY DEF IInv, TypeOK, NoDanglingLabel
<1>2. IsCode(code') /\ Len(code') = Len(code) /\ Closed(code')
  BY <1>1, RemoveUselessLabelsFacts DEF StartPass
<1>3. Len(code') \in Nat
  BY <1>2, CodeFacts
<1>4. /\ pc = "pass" /\ pc' = "scan" /\ i' = 1 /\ numIters' = numIters
      /\ modified' = (code' # code) /\ code' = RemoveUselessLabels(code)
  BY DEF StartPass
<1>5. TypeOK'
  BY <1>2, <1>3, <1>4 DEF IInv, TypeOK
<1>6. NothingBefore'
  <2> SUFFICES ASSUME ~ modified'
               PROVE  /\ RemoveUselessLabels(code') = code'
                      /\ \A k \in 1..(i' - 1) : Level1(code', k) = NoMatch
    BY DEF NothingBefore
  <2>1. code' = code
    BY <1>4
  <2>2. RemoveUselessLabels(code) = code
    BY <1>4, <2>1
  <2>3. 1..(i' - 1) = {}
    BY <1>4
  <2> QED
    BY <2>1, <2>2, <2>3
<1> QED
  BY <1>2, <1>4, <1>5, <1>6 DEF IInv, NoDanglingLabel, FixedPoint

LEMMA ApplyRuleStep == IInv /\ ApplyRule => IInv'
<1> SUFFICES ASSUME IInv, ApplyRule PROVE IInv'
  OBVIOUS
<1>1. /\ IsCode(code) /\ Closed(code) /\ i \in 1..(Len(code) + 1)
      /\ pc = "scan" /\ pc' = "scan" /\ i <= Len(code) /\ numIters' = numIters
  BY DEF IInv, TypeOK, NoDanglingLabel, ApplyRule
<1>2. Len(code) \in Nat /\ DOMAIN code = 1..Len(code) /\ i \in DOMAIN code
  BY <1>1, CodeFacts
<1>3. PICK at, rewritten :
          /\ at = NextInstruction(code, i)
          /\ rewritten = Level1(code, at)
          /\ code' = IF rewritten = NoMatch THEN code ELSE rewritten
          /\ modified' = (modified \/ rewritten # NoMatch)
          /\ i' = at + 1
  BY DEF ApplyRule
<1>4. /\ at \in DOMAIN code /\ at >= i
      /\ \A j \in i..(at - 1) : code[j].type # "INSTR"
  BY <1>1, <1>2, <1>3, NextInstructionFacts
<1>5. Derived(code, code')
  BY <1>1, <1>3, <1>4, DerivedRefl, Level1Derived DEF Improved
<1>6. IsCode(code') /\ Closed(code') /\ Len(code') >= Len(code) /\ Len(code') \in Nat
  BY <1>1, <1>5, DerivedIsClosed, CodeFacts DEF Derived
<1>7. TypeOK'
  <2>1. i' \in 1..(Len(code') + 1)
    BY <1>2, <1>3, <1>4, <1>6
  <2>2. modified' \in BOOLEAN
    BY <1>3 DEF IInv, TypeOK
  <2> QED
    BY <1>1, <1>6, <2>1, <2>2 DEF IInv, TypeOK
<1>8. NothingBefore'
  <2> SUFFICES ASSUME ~ modified'
               PROVE  /\ RemoveUselessLabels(code') = code'
                      /\ \A k \in 1..(i' - 1) : Level1(code', k) = NoMatch
    BY DEF NothingBefore
  <2>1. ~ modified /\ rewritten = NoMatch /\ code' = code
    BY <1>3
  <2>2. /\ RemoveUselessLabels(code) = code
        /\ \A k \in 1..(i - 1) : Level1(code, k) = NoMatch
    BY <1>1, <2>1 DEF IInv, NothingBefore
  <2>3. ASSUME NEW k \in 1..(i' - 1) PROVE Level1(code, k) = NoMatch
    <3>1. k \in 1..at
      BY <1>2, <1>3, <1>4
    <3>2. CASE k < i
      BY <1>1, <2>2, <3>1, <3>2
    <3>3. CASE k >= i /\ k < at
      <4>1. k \in DOMAIN code /\ k \in i..(at - 1)
        BY <1>2, <1>4, <3>1, <3>3
      <4> QED
        BY <1>1, <1>4, <4>1, Level1AtInstr
    <3>4. CASE k = at
      BY <1>3, <2>1, <3>4
    <3> QED
      BY <1>2, <1>4, <3>1, <3>2, <3>3, <3>4
  <2> QED
    BY <2>1, <2>2, <2>3
<1>9. FixedPoint'
  BY <1>1 DEF FixedPoint
<1> QED
  BY <1>1, <1>6, <1>7, <1>8, <1>9 DEF IInv, NoDanglingLabel

LEMMA EndPassStep == IInv /\ EndPass => IInv'
<1> SUFFICES ASSUME IInv, EndPass PROVE IInv'
  OBVIOUS
<1>1. /\ IsCode(code) /\ i \in 1..(Len(code) + 1) /\ numIters \in 0..MaxIters
      /\ modified \in BOOLEAN /\ pc = "scan" /\ i > Len(code)
      /\ code' = code /\ i' = i /\ modified' = modified
  BY DEF IInv, TypeOK, EndPass
<1>2. Len(code) \in Nat /\ DOMAIN code = 1..Len(code)
  BY <1>1, CodeFacts
<1>3. NoDanglingLabel'
  BY <1>1 DEF IInv, NoDanglingLabel, Closed, UsedLabels
<1>4. CASE modified
  <2>1. numIters' = numIters + 1 /\ pc' = IF numIters' < MaxIters THEN "pass" ELSE "error"
    BY <1>4 DEF EndPass
  <2>2. numIters < MaxIters
    BY <1>1 DEF IInv
  <2>3. TypeOK'
    BY <1>1, <2>1, <2>2, MaxItersAssumption DEF TypeOK
  <2>4. NothingBefore' /\ FixedPoint'
    BY <2>1 DEF NothingBefore, FixedPoint
  <2> QED
    BY <1>3, <2>1, <2>3, <2>4 DEF IInv
<1>5. CASE ~ modified
  <2>1. pc' = "done" /\ numIters' = numIters
    BY <1>5 DEF EndPass
  <2>2. /\ RemoveUselessLabels(code) = code
        /\ \A k \in DOMAIN code : Level1(code, k) = NoMatch
    BY <1>1, <1>2, <1>5 DEF IInv, NothingBefore
  <2>3. FixedPoint'
    BY <1>1, <2>2 DEF FixedPoint
  <2> QED
    BY <1>1, <1>3, <2>1, <2>3 DEF IInv, TypeOK, NothingBefore
<1> QED
  BY <1>1, <1>4, <1>5

LEMMA NextIInv == IInv /\ [Next]_vars => IInv'
<1>1. IInv /\ UNCHANGED vars => IInv'
  BY DEF vars, IInv, TypeOK, NoDanglingLabel, NothingBefore, FixedPoint
<1> QED
  BY <1>1, StartPassStep, ApplyRuleStep, EndPassStep DEF Next

LEMMA InductiveInvariant == Spec => []IInv
BY InitIInv, NextIInv, PTL DEF Spec

-----------------------------------------------------------------------------
(* Convergence.                                                              *)

LEMMA StartPassSpends ==
    IInv /\ StartPass => (code' = code /\ ~ modified') \/ Shrinks(code, code')
BY RemoveUselessLabelsFacts DEF IInv, TypeOK, StartPass

LEMMA ApplyRuleSpends ==
    IInv /\ ApplyRule => \/ code' = code /\ modified' = modified
                         \/ Shrinks(code, code') /\ modified'
<1> SUFFICES ASSUME IInv, ApplyRule
             PROVE  \/ code' = code /\ modified' = modified
                    \/ Shrinks(code, code') /\ modified'
  OBVIOUS
<1>1. IsCode(code) /\ i \in 1..(Len(code) + 1) /\ i <= Len(code) /\ modified \in BOOLEAN
  BY DEF IInv, TypeOK, ApplyRule
<1>2. i \in DOMAIN code
  BY <1>1, CodeFacts
<1>3. PICK at, rewritten :
          /\ at = NextInstruction(code, i)
          /\ rewritten = Level1(code, at)
          /\ code' = IF rewritten = NoMatch THEN code ELSE rewritten
          /\ modified' = (modified \/ rewritten # NoMatch)
  BY DEF ApplyRule
<1>4. CASE rewritten = NoMatch
  BY <1>1, <1>3, <1>4
<1>5. CASE rewritten # NoMatch
  <2>1. at \in DOMAIN code
    BY <1>1, <1>2, <1>3, NextInstructionFacts
  <2>2. Improved(code, Level1(code, at))
    BY <1>1, <1>3, <1>5, <2>1, Level1Derived
  <2> QED
    BY <1>3, <1>5, <2>2 DEF Improved
<1> QED
  BY <1>4, <1>5

(* Whatever a pass does to the list leaves less to do: no rule gives back what *)
(* another has spent, for any list and any limit on short branches.            *)
THEOREM PassesSpend == Spec => LessToDo
<1>1. IInv /\ [Next]_vars => [code' # code => Shrinks(code, code')]_vars
  <2> SUFFICES ASSUME IInv, [Next]_vars, code' # code PROVE Shrinks(code, code')
    OBVIOUS
  <2>1. CASE StartPass
    BY <2>1, StartPassSpends
  <2>2. CASE ApplyRule
    BY <2>2, ApplyRuleSpends
  <2>3. CASE EndPass
    BY <2>3 DEF EndPass
  <2>4. CASE UNCHANGED vars
    BY <2>4 DEF vars
  <2> QED
    BY <2>1, <2>2, <2>3, <2>4 DEF Next
<1> QED
  BY <1>1, InductiveInvariant, PTL DEF Spec, LessToDo, Shrinks

\* The passes completed, and what is left to do, are no more than there was to
\* do; a pass that has changed the list has spent the one that it counts for.
Spent(W) ==
    /\ numIters + Cardinality(Work(code)) <= W
    /\ pc = "scan" /\ modified => numIters + Cardinality(Work(code)) < W

LEMMA NextSpent ==
    ASSUME NEW W \in Nat
    PROVE  IInv /\ Spent(W) /\ [Next]_vars => Spent(W)'
<1> SUFFICES ASSUME IInv, Spent(W), [Next]_vars PROVE Spent(W)'
  OBVIOUS
<1>1. numIters \in Nat /\ Cardinality(Work(code)) \in Nat /\ modified \in BOOLEAN
  BY WorkFacts DEF IInv, TypeOK
<1>2. IsCode(code') /\ Cardinality(Work(code')) \in Nat
  BY NextIInv, WorkFacts DEF IInv, TypeOK
<1>3. Shrinks(code, code') => Cardinality(Work(code')) < Cardinality(Work(code))
  BY DEF Shrinks
<1>4. CASE StartPass
  <2>1. numIters' = numIters
    BY <1>4 DEF StartPass
  <2>2. CASE code' = code /\ ~ modified'
    BY <2>1, <2>2 DEF Spent
  <2>3. CASE Shrinks(code, code')
    BY <1>1, <1>2, <1>3, <2>1, <2>3 DEF Spent
  <2> QED
    BY <1>4, <2>2, <2>3, StartPassSpends
<1>5. CASE ApplyRule
  <2>1. numIters' = numIters /\ pc = "scan"
    BY <1>5 DEF ApplyRule
  <2>2. CASE code' = code /\ modified' = modified
    BY <2>1, <2>2 DEF Spent
  <2>3. CASE Shrinks(code, code')
    BY <1>1, <1>2, <1>3, <2>1, <2>3 DEF Spent
  <2> QED
    BY <1>5, <2>2, <2>3, ApplyRuleSpends
<1>6. CASE EndPass
  <2>1. code' = code /\ pc = "scan" /\ pc' # "scan"
    BY <1>6 DEF EndPass
  <2>2. IF modified THEN numIters' = numIters + 1 ELSE numIters' = numIters
    BY <1>6 DEF EndPass
  <2> QED
    BY <1>1, <2>1, <2>2 DEF Spent
<1>7. CASE UNCHANGED vars
  BY <1>7 DEF Spent, vars
<1> QED
  BY <1>4, <1>5, <1>6, <1>7 DEF Next

LEMMA InitSpent ==
    ASSUME NEW W \in Nat, \A c \in Codes : Cardinality(Work(c)) <= W
    PROVE  Init => Spent(W)
<1> SUFFICES ASSUME Init PROVE Spent(W)
  OBVIOUS
<1>1. code \in Codes /\ numIters = 0 /\ ~ modified
  BY DEF Init, InitFrom
<1>2. Cardinality(Work(code)) \in Nat
  BY <1>1, CodesAssumption, WorkFacts
<1> QED
  BY <1>1, <1>2 DEF Spent

LEMMA FiveEach ==
    ASSUME NEW c, IsCode(c)
    PROVE  Cardinality(Work(c)) <= 5 * Len(c)
<1>1. /\ IsFiniteSet(DOMAIN c) /\ Cardinality(DOMAIN c) = Len(c)
      /\ IsFiniteSet(1..5) /\ Cardinality(1..5) = 5
  <2>1. \A n \in Nat : IsFiniteSet(1..n) /\ Cardinality(1..n) = n
    <3> SUFFICES ASSUME NEW n \in Nat PROVE IsFiniteSet(1..n) /\ Cardinality(1..n) = n
      OBVIOUS
    <3>1. IsFiniteSet(1..n) /\ Cardinality(1..n) = IF 1 > n THEN 0 ELSE n - 1 + 1
      BY FS_Interval
    <3> QED
      BY <3>1
  <2>2. DOMAIN c = 1..Len(c) /\ Len(c) \in Nat /\ 5 \in Nat
    BY CodeFacts
  <2> QED
    BY <2>1, <2>2
<1>2. /\ IsFiniteSet((DOMAIN c) \X (1..5))
      /\ Cardinality((DOMAIN c) \X (1..5)) = Len(c) * 5
  <2> DEFINE S == DOMAIN c
             T == 1..5
  <2>1. IsFiniteSet(S) /\ IsFiniteSet(T) /\ Cardinality(S) = Len(c) /\ Cardinality(T) = 5
    BY <1>1
  <2> HIDE DEF S, T
  <2>2. IsFiniteSet(S \X T) /\ Cardinality(S \X T) = Cardinality(S) * Cardinality(T)
    BY <2>1, FS_Product
  <2>3. IsFiniteSet(S \X T) /\ Cardinality(S \X T) = Len(c) * 5
    BY <2>1, <2>2
  <2> QED
    BY <2>3 DEF S, T
<1>3. Work(c) \in SUBSET ((DOMAIN c) \X (1..5))
  BY DEF Work
<1>4. Cardinality(Work(c)) <= Len(c) * 5
  BY <1>2, <1>3, FS_Subset
<1> QED
  BY <1>4, CodeFacts

(* The number of passes is bounded by what there is to do in the lists that    *)
(* the emitters leave, so by five for each element (FiveEach).                 *)
THEOREM PassesAreBounded ==
    ASSUME NEW W \in Nat, \A c \in Codes : Cardinality(Work(c)) <= W
    PROVE  Spec => [](numIters <= W)
<1>1. Init => Spent(W)
  BY InitSpent
<1>2. IInv /\ Spent(W) /\ [Next]_vars => Spent(W)'
  BY NextSpent
<1>3. IInv /\ Spent(W) => numIters <= W
  BY WorkFacts DEF IInv, TypeOK, Spent
<1> QED
  BY <1>1, <1>2, <1>3, InductiveInvariant, PTL DEF Spec

\* The limit on passes is more than there is to do in any list.
LimitIsAmple == \A c \in Codes : Cardinality(Work(c)) < MaxIters

LEMMA FewElements == ASSUME \A c \in Codes : 5 * Len(c) < MaxIters PROVE LimitIsAmple
<1> SUFFICES ASSUME NEW c \in Codes PROVE Cardinality(Work(c)) < MaxIters
  BY DEF LimitIsAmple
<1>1. /\ Cardinality(Work(c)) <= 5 * Len(c) /\ 5 * Len(c) < MaxIters
      /\ Len(c) \in Nat /\ Cardinality(Work(c)) \in Nat
  BY CodesAssumption, FiveEach, CodeFacts, WorkFacts
<1> QED
  BY <1>1, MaxItersAssumption

(* The limit on passes is never met, and the compiler does not give up, where  *)
(* no list holds more to do than the limit: 300 is enough for every function   *)
(* of up to 59 elements, and for one of 149 that has no LDD and no long branch.*)
THEOREM LimitIsNotMet == ASSUME LimitIsAmple PROVE Spec => []NeverTooManyIterations
<1> DEFINE W == MaxIters - 1
<1>1. W \in Nat
  BY MaxItersAssumption
<1>2. \A c \in Codes : Cardinality(Work(c)) <= W
  <2> SUFFICES ASSUME NEW c \in Codes PROVE Cardinality(Work(c)) <= W
    OBVIOUS
  <2>1. Cardinality(Work(c)) \in Nat /\ Cardinality(Work(c)) < MaxIters
    BY CodesAssumption, WorkFacts DEF LimitIsAmple
  <2> QED
    BY <2>1, MaxItersAssumption
<1> HIDE DEF W
<1>3. Init => Spent(W) /\ NeverTooManyIterations
  BY <1>1, <1>2, InitSpent DEF Init, InitFrom, NeverTooManyIterations
<1>4. IInv /\ Spent(W) /\ [Next]_vars => Spent(W)'
  BY <1>1, NextSpent
<1>5. IInv /\ Spent(W) /\ NeverTooManyIterations /\ [Next]_vars => NeverTooManyIterations'
  <2> SUFFICES ASSUME IInv, Spent(W), NeverTooManyIterations, [Next]_vars
               PROVE  NeverTooManyIterations'
    OBVIOUS
  <2>1. CASE StartPass \/ ApplyRule \/ UNCHANGED vars
    BY <2>1 DEF StartPass, ApplyRule, vars, NeverTooManyIterations
  <2>2. CASE EndPass
    <3>1. numIters' \in Nat /\ numIters' <= W
      <4>1. Spent(W)' /\ IInv'
        BY <1>4, NextIInv
      <4> QED
        BY <1>1, <4>1, WorkFacts DEF Spent, IInv, TypeOK
    <3>2. numIters' < MaxIters
      BY <3>1, MaxItersAssumption DEF W
    <3> QED
      BY <2>2, <3>2 DEF EndPass, NeverTooManyIterations
  <2> QED
    BY <2>1, <2>2 DEF Next
<1> QED
  BY <1>3, <1>4, <1>5, InductiveInvariant, PTL DEF Spec

(* The optimizer keeps its list a sequence of elements and its index within    *)
(* one past the end of it, although rules lengthen the list under the index.   *)
THEOREM PeepholeTypeCorrect == Spec => []TypeOK
<1>1. IInv => TypeOK
  BY DEF IInv
<1> QED
  BY <1>1, InductiveInvariant, PTL

(* No rule and no removal of labels leaves a branch to a generated label that  *)
(* is no longer in the code, for every list of elements that starts closed.    *)
THEOREM BranchesKeepTheirLabels == Spec => []NoDanglingLabel
<1>1. IInv => NoDanglingLabel
  BY DEF IInv
<1> QED
  BY <1>1, InductiveInvariant, PTL

(* When the optimizer is done no rule applies any more: the one pass that      *)
(* changes nothing is enough to know, although the scan skips the elements     *)
(* that are no instructions.                                                   *)
THEOREM OptimizedIsFixedPoint == Spec => []FixedPoint
<1>1. IInv => FixedPoint
  BY DEF IInv
<1> QED
  BY <1>1, InductiveInvariant, PTL
==============================================================================
