--------------------------- MODULE DecbImageProofs ----------------------------
(* Lemmas about the chains and the files of an image: what the recursive       *)
(* functions of DecbImage compute on a table without cross-linked or dangling  *)
(* granules.  Induction over a data structure is induction over Nat here: a    *)
(* set of numbers that has 0 and the successor of each of its numbers is Nat.  *)
EXTENDS DecbImage, FiniteSetTheorems, SequenceTheorems, WellFoundedInduction, TLAPS

-----------------------------------------------------------------------------
(* Induction over the natural numbers, and functions defined by recursion. *)

LEMMA NatLess == IsWellFoundedOn({p \in Nat \X Nat : p[1] < p[2]}, Nat)
BY NatLessThanWellFounded DEF OpToRel

LEMMA Induction ==
    ASSUME NEW S, 0 \in S, \A n \in Nat : n \in S => n + 1 \in S
    PROVE  Nat \subseteq S
<1> DEFINE R == {p \in Nat \X Nat : p[1] < p[2]}
           T == Nat \ S
<1>1. SUFFICES ASSUME T # {} PROVE FALSE
  OBVIOUS
<1>2. IsWellFoundedOn(R, Nat) /\ T \subseteq Nat
  BY NatLess
<1>3. PICK x \in T : \A y \in T : <<y, x>> \notin R
  <2> HIDE DEF R, T
  <2> QED BY <1>1, <1>2, WFMin
<1>4. x \in Nat /\ x # 0 /\ x - 1 \in Nat /\ x - 1 < x
  BY <1>3
<1>5. x - 1 \notin T
  BY <1>3, <1>4
<1> QED BY <1>3, <1>4, <1>5

\* A set of natural numbers that is not empty has a least one.
LEMMA Least ==
    ASSUME NEW T, T \subseteq Nat, T # {}
    PROVE  \E n \in T : \A m \in T : n <= m
<1> DEFINE R == {p \in Nat \X Nat : p[1] < p[2]}
<1>1. PICK x \in T : \A y \in T : <<y, x>> \notin R
  <2> HIDE DEF R
  <2>1. IsWellFoundedOn(R, Nat)
    BY NatLess DEF R
  <2> QED BY <2>1, WFMin
<1>2. ASSUME NEW m \in T PROVE x <= m
  <2>1. <<m, x>> \notin R /\ m \in Nat /\ x \in Nat
    BY <1>1
  <2>2. ~(m < x)
    BY <2>1
  <2> QED BY <2>1, <2>2
<1> QED BY <1>2

\* A step can be taken any number of times.
Iterates(f, S, a, h) ==
    /\ f \in [Nat -> S]
    /\ f[0] = a
    /\ \A j \in Nat : f[j + 1] = h[f[j]]

LEMMA Iterate ==
    ASSUME NEW S, NEW a, a \in S, NEW h, h \in [S -> S]
    PROVE  \E f : Iterates(f, S, a, h)
<1> DEFINE Up(f, n) == f[0] = a /\ \A j \in 0..(n - 1) : f[j + 1] = h[f[j]]
           Has(n) == \E f \in [0..n -> S] : Up(f, n)
           N == {n \in Nat : Has(n)}
<1>1. 0 \in N
  <2>1. Up([i \in 0..0 |-> a], 0) /\ [i \in 0..0 |-> a] \in [0..0 -> S]
    OBVIOUS
  <2> QED BY <2>1
<1>2. ASSUME NEW n \in Nat, n \in N PROVE n + 1 \in N
  <2>1. PICK f \in [0..n -> S] : Up(f, n)
    BY <1>2
  <2> DEFINE g == [i \in 0..(n + 1) |-> IF i <= n THEN f[i] ELSE h[f[n]]]
  <2>2. g \in [0..(n + 1) -> S]
    BY <2>1
  <2>3. g[0] = a
    BY <2>1
  <2>4. ASSUME NEW j \in 0..n PROVE g[j + 1] = h[g[j]]
    <3>1. CASE j = n
      BY <2>1, <3>1
    <3>2. CASE j # n
      BY <2>1, <3>2
    <3> QED BY <3>1, <3>2
  <2>5. Up(g, n + 1)
    <3> HIDE DEF g
    <3> QED BY <2>3, <2>4
  <2>6. Has(n + 1)
    <3> HIDE DEF g, Up
    <3> QED BY <2>2, <2>5
  <2> QED BY <2>6
<1>3. Nat \subseteq N
  <2> HIDE DEF N
  <2> QED BY <1>1, <1>2, Induction
<1>4. \A n \in Nat : Has(n)
  BY <1>3
<1> DEFINE F == [n \in Nat |-> CHOOSE f \in [0..n -> S] : Up(f, n)]
<1>5. \A n \in Nat : F[n] \in [0..n -> S] /\ Up(F[n], n)
  BY <1>4
<1> HIDE DEF F
<1>6. \A n \in Nat : \A j \in 0..n : F[n + 1][j] = F[n][j]
  <2> SUFFICES ASSUME NEW n \in Nat PROVE \A j \in 0..n : F[n + 1][j] = F[n][j]
    OBVIOUS
  <2> DEFINE M == {j \in Nat : j <= n => F[n + 1][j] = F[n][j]}
  <2>1. 0 \in M
    BY <1>5
  <2>2. ASSUME NEW j \in Nat, j \in M PROVE j + 1 \in M
    BY <1>5, <2>2
  <2>3. Nat \subseteq M
    <3> HIDE DEF M
    <3> QED BY <2>1, <2>2, Induction
  <2> QED BY <2>3
<1> DEFINE f == [n \in Nat |-> F[n][n]]
<1>7. f \in [Nat -> S] /\ f[0] = a
  BY <1>5
<1>8. \A j \in Nat : f[j + 1] = h[f[j]]
  <2> SUFFICES ASSUME NEW j \in Nat PROVE f[j + 1] = h[f[j]]
    OBVIOUS
  <2>1. Up(F[j + 1], j + 1) /\ j \in 0..((j + 1) - 1)
    BY <1>5
  <2> QED BY <1>6, <2>1
<1>9. Iterates(f, S, a, h)
  <2> HIDE DEF f
  <2> QED BY <1>7, <1>8 DEF Iterates
<1> QED BY <1>9

-----------------------------------------------------------------------------
(* The recursive functions of DecbImage, by their equations. *)

LEMMA ChainsEquation ==
    ASSUME NEW fat \in [Granules -> 0..255], NEW n \in Nat
    PROVE  Chains(fat)[n] = [g \in Granules |->
               <<g>> \o IF n > 0 /\ fat[g] \in Granules THEN Chains(fat)[n - 1][fat[g]] ELSE <<>>]
<1> DEFINE S == [Granules -> Seq(Granules)]
           a == [g \in Granules |-> <<g>>]
           h == [F \in S |-> [g \in Granules |->
                    <<g>> \o IF fat[g] \in Granules THEN F[fat[g]] ELSE <<>>]]
           Is(f) == f = [m \in Nat |-> [g \in Granules |->
                    <<g>> \o IF m > 0 /\ fat[g] \in Granules THEN f[m - 1][fat[g]] ELSE <<>>]]
<1>1. a \in S /\ h \in [S -> S]
  OBVIOUS
<1>2. PICK f : Iterates(f, S, a, h)
  <2> HIDE DEF S, a, h
  <2> QED BY <1>1, Iterate
<1>3. ASSUME NEW m \in Nat
      PROVE  f[m] = [g \in Granules |->
                    <<g>> \o IF m > 0 /\ fat[g] \in Granules THEN f[m - 1][fat[g]] ELSE <<>>]
  <2>1. CASE m = 0
    BY <1>2, <2>1 DEF Iterates
  <2>2. CASE m # 0
    <3>1. m - 1 \in Nat /\ (m - 1) + 1 = m /\ m > 0
      BY <2>2
    <3>2. f[m] = h[f[m - 1]] /\ f[m - 1] \in S
      BY <1>2, <3>1 DEF Iterates
    <3> QED BY <3>2, <3>1
  <2> QED BY <2>1, <2>2
<1>4. Is(f)
  BY <1>2, <1>3 DEF Iterates
<1>5. Is(Chains(fat))
  BY <1>4 DEF Chains
<1> QED BY <1>5

LEMMA ChainsAt ==
    ASSUME NEW fat \in [Granules -> 0..255], NEW n \in Nat, NEW g \in Granules
    PROVE  /\ (n > 0 /\ fat[g] \in Granules) =>
                  Chains(fat)[n][g] = <<g>> \o Chains(fat)[n - 1][fat[g]]
           /\ fat[g] \notin Granules => Chains(fat)[n][g] = <<g>>
<1>1. Chains(fat)[n][g] =
        <<g>> \o IF n > 0 /\ fat[g] \in Granules THEN Chains(fat)[n - 1][fat[g]] ELSE <<>>
  <2>1. Chains(fat)[n] = [k \in Granules |->
           <<k>> \o IF n > 0 /\ fat[k] \in Granules THEN Chains(fat)[n - 1][fat[k]] ELSE <<>>]
    BY ChainsEquation
  <2> HIDE DEF Chains
  <2> QED BY <2>1
<1>2. <<g>> \o <<>> = <<g>>
  <2>1. <<g>> \in Seq(Granules)
    OBVIOUS
  <2> QED BY <2>1, ConcatEmptySeq
<1> QED BY <1>1, <1>2

LEMMA LinkMarks ==
    /\ \A g \in Granules : IsLink(g) /\ ~IsLast(g) /\ g # FreeFatEntry
    /\ \A f : IsLast(f) => ~IsLink(f) /\ f \notin Granules /\ f \in Nat
BY ImageAssumption DEF IsLink, IsLast, Granules, LastMark, FreeFatEntry

-----------------------------------------------------------------------------
(* The chain of an entry. *)

\* The granules s of a file, from its first one to the one that has a mark.
IsChain(fat, head, s) ==
    /\ s \in Seq(Granules) /\ Len(s) \in 1..NumGranules /\ s[1] = head
    /\ \A k \in 1..(Len(s) - 1) : IsLink(fat[s[k]]) /\ s[k + 1] = fat[s[k]]
    /\ IsLast(fat[s[Len(s)]])
    /\ \A i, j \in 1..Len(s) : s[i] = s[j] => i = j

\* w follows the links of the table, and its first m granules have links.
Follows(fat, w) ==
    /\ w \in [Nat -> 0..255]
    /\ \A k \in Nat : w[k] \in Granules => w[k + 1] = fat[w[k]]

LinksAlong(fat, w, m) == \A k \in 0..(m - 1) : IsLink(fat[w[k]])

\* The first m granules that the links lead to are different, and all are allocated.
LEMMA LinksLeadOn ==
    ASSUME NEW fat \in [Granules -> 0..255], NEW dir \in [DirEntries -> Entry], Sound(fat, dir),
           NEW e \in DirEntries, InUse(dir[e]),
           NEW w, Follows(fat, w), w[0] = dir[e].gran,
           NEW m \in Nat, LinksAlong(fat, w, m)
    PROVE  /\ \A k \in 0..m : w[k] \in Granules /\ fat[w[k]] # FreeFatEntry
           /\ \A i, j \in 0..m : w[i] = w[j] => i = j
           /\ m < NumGranules
<1> USE DEF Follows, LinksAlong
<1>1. \A k \in 0..m : w[k] \in Granules /\ fat[w[k]] # FreeFatEntry
  <2> DEFINE M == {k \in Nat : k <= m => w[k] \in Granules /\ fat[w[k]] # FreeFatEntry}
  <2>1. 0 \in M
    BY DEF Sound, HeadsAllocated, Entry
  <2>2. ASSUME NEW k \in Nat, k \in M PROVE k + 1 \in M
    <3>1. SUFFICES ASSUME k + 1 <= m PROVE w[k + 1] \in Granules /\ fat[w[k + 1]] # FreeFatEntry
      OBVIOUS
    <3>2. k \in 0..(m - 1) /\ w[k] \in Granules
      BY <2>2, <3>1
    <3> QED BY <3>2 DEF Sound, LinksAllocated
  <2>3. Nat \subseteq M
    <3> HIDE DEF M
    <3> QED BY <2>1, <2>2, Induction
  <2> QED BY <2>3
<1>2. \A j \in 1..m : w[j] = fat[w[j - 1]] /\ w[j - 1] \in Granules /\ IsLink(fat[w[j - 1]])
  <2> SUFFICES ASSUME NEW j \in 1..m
               PROVE  w[j] = fat[w[j - 1]] /\ w[j - 1] \in Granules /\ IsLink(fat[w[j - 1]])
    OBVIOUS
  <2>1. j - 1 \in Nat /\ j - 1 \in 0..m /\ j - 1 \in 0..(m - 1) /\ (j - 1) + 1 = j
    OBVIOUS
  <2> QED BY <1>1, <2>1
<1>3. \A i \in 0..m : \A j \in 0..m : i < j => w[i] # w[j]
  <2> DEFINE M == {i \in Nat : \A j \in 0..m : i < j => w[i] # w[j]}
  <2>1. 0 \in M
    <3> SUFFICES ASSUME NEW j \in 0..m, 0 < j PROVE w[0] # w[j]
      OBVIOUS
    <3>1. j \in 1..m
      OBVIOUS
    <3> QED BY <1>2, <3>1 DEF Sound, NoCrossLinks
  <2>2. ASSUME NEW i \in Nat, i \in M PROVE i + 1 \in M
    <3> SUFFICES ASSUME NEW j \in 0..m, i + 1 < j PROVE w[i + 1] # w[j]
      OBVIOUS
    <3>1. j \in 1..m /\ i + 1 \in 1..m /\ j - 1 \in 0..m /\ i < j - 1 /\ (i + 1) - 1 = i
      OBVIOUS
    <3>2. w[i] # w[j - 1]
      BY <2>2, <3>1
    <3>3. /\ w[j] = fat[w[j - 1]] /\ w[j - 1] \in Granules /\ IsLink(fat[w[j - 1]])
          /\ w[i + 1] = fat[w[i]] /\ w[i] \in Granules /\ IsLink(fat[w[i]])
      BY <1>2, <3>1
    <3> QED BY <3>2, <3>3 DEF Sound, NoCrossLinks
  <2>3. Nat \subseteq M
    <3> HIDE DEF M
    <3> QED BY <2>1, <2>2, Induction
  <2> QED BY <2>3
<1>4. \A i, j \in 0..m : w[i] = w[j] => i = j
  BY <1>3
<1>5. m < NumGranules
  <2> DEFINE f == [k \in 0..m |-> w[k]]
  <2>1. f \in [0..m -> Granules]
    BY <1>1
  <2>2. NumGranules \in Nat \ {0}
    BY ImageAssumption DEF LastMark
  <2>3. /\ IsFiniteSet(0..m) /\ Cardinality(0..m) = m + 1
        /\ IsFiniteSet(Granules) /\ Cardinality(Granules) = NumGranules
    <3>1. 0 \in Int /\ m \in Int /\ NumGranules - 1 \in Int /\ ~(0 > m) /\ ~(0 > NumGranules - 1)
      BY <2>2
    <3>2. IsFiniteSet(0..m) /\ Cardinality(0..m) = m - 0 + 1
      BY <3>1, FS_Interval
    <3>3. /\ IsFiniteSet(0..(NumGranules - 1))
          /\ Cardinality(0..(NumGranules - 1)) = (NumGranules - 1) - 0 + 1
      BY <3>1, FS_Interval
    <3> QED BY <2>2, <3>2, <3>3 DEF Granules
  <2>4. CASE NumGranules < m + 1
    <3>1. \E x, y \in 0..m : x # y /\ f[x] = f[y]
      <4> HIDE DEF f
      <4> QED BY <2>1, <2>3, <2>4, FS_PigeonHole
    <3> QED BY <1>4, <3>1
  <2> QED BY <2>2, <2>4
<1> QED BY <1>1, <1>4, <1>5

LEMMA ChainOfEntry ==
    ASSUME NEW fat \in [Granules -> 0..255], NEW dir \in [DirEntries -> Entry], Sound(fat, dir),
           NEW e \in DirEntries, InUse(dir[e])
    PROVE  IsChain(fat, dir[e].gran, Chain(fat, dir[e].gran))
<1> DEFINE head == dir[e].gran
           h == [g \in 0..255 |-> IF g \in Granules THEN fat[g] ELSE g]
<1>1. head \in Granules /\ NumGranules \in Nat \ {0} /\ Granules \subseteq 0..255
  BY ImageAssumption DEF Entry, Granules, LastMark
<1>2. PICK w : Iterates(w, 0..255, head, h)
  <2>1. head \in 0..255 /\ h \in [0..255 -> 0..255]
    BY <1>1
  <2> HIDE DEF h
  <2> QED BY <2>1, Iterate
<1>3. Follows(fat, w) /\ w[0] = head
  BY <1>1, <1>2 DEF Iterates, Follows
<1> DEFINE T == {k \in Nat : ~IsLink(fat[w[k]])}
<1>4. T # {}
  <2> SUFFICES ASSUME T = {} PROVE FALSE
    OBVIOUS
  <2>1. LinksAlong(fat, w, NumGranules) /\ NumGranules \in Nat /\ ~(NumGranules < NumGranules)
    BY <1>1 DEF LinksAlong
  <2>2. NumGranules < NumGranules
    BY <1>3, <2>1, LinksLeadOn
  <2> QED BY <2>1, <2>2
<1>5. PICK last \in T : \A k \in T : last <= k
  <2> HIDE DEF T
  <2>1. T \subseteq Nat
    BY DEF T
  <2> QED BY <1>4, <2>1, Least
<1>6. last \in Nat /\ ~IsLink(fat[w[last]]) /\ \A k \in 0..(last - 1) : IsLink(fat[w[k]])
  BY <1>5
<1>7. /\ \A k \in 0..last : w[k] \in Granules /\ fat[w[k]] # FreeFatEntry
      /\ \A i, j \in 0..last : w[i] = w[j] => i = j
      /\ last < NumGranules
  <2>1. LinksAlong(fat, w, last)
    BY <1>6 DEF LinksAlong
  <2> QED BY <1>3, <1>6, <2>1, LinksLeadOn
<1>8. IsLast(fat[w[last]])
  BY <1>6, <1>7 DEF Sound, EndsMarked
<1> DEFINE Rest(m) == [i \in 1..(m + 1) |-> w[last - m + i - 1]]
           M == {m \in Nat : m <= last =>
                     \A n \in Nat : n >= m => Chains(fat)[n][w[last - m]] = Rest(m)}
<1>9. 0 \in M
  <2> SUFFICES ASSUME NEW n \in Nat PROVE Chains(fat)[n][w[last]] = Rest(0)
    BY <1>6
  <2>1. w[last] \in Granules /\ fat[w[last]] \notin Granules
    BY <1>6, <1>7, LinkMarks
  <2>2. Chains(fat)[n][w[last]] = <<w[last]>>
    BY <2>1, ChainsAt
  <2>3. Rest(0) = <<w[last]>>
    BY <1>6
  <2> QED BY <2>2, <2>3
<1>10. ASSUME NEW m \in Nat, m \in M PROVE m + 1 \in M
  <2> SUFFICES ASSUME m + 1 <= last, NEW n \in Nat, n >= m + 1
               PROVE  Chains(fat)[n][w[last - (m + 1)]] = Rest(m + 1)
    <3> HIDE DEF Rest
    <3> QED OBVIOUS
  <2> DEFINE k == last - (m + 1)
  <2>1. k \in 0..(last - 1) /\ k \in 0..last /\ k + 1 = last - m /\ k + 1 \in 0..last /\ k \in Nat
    BY <1>6
  <2>2. w[k] \in Granules /\ IsLink(fat[w[k]]) /\ fat[w[k]] = w[last - m] /\ w[last - m] \in Granules
    BY <1>3, <1>6, <1>7, <2>1 DEF Follows
  <2>3. n > 0 /\ n - 1 \in Nat /\ n - 1 >= m
    OBVIOUS
  <2>4. Chains(fat)[n - 1][w[last - m]] = Rest(m)
    <3> HIDE DEF Rest, k
    <3> QED BY <1>10, <2>3
  <2>5. Chains(fat)[n][w[k]] = <<w[k]>> \o Rest(m)
    <3> HIDE DEF Rest, k
    <3>1. w[k] \in Granules /\ fat[w[k]] \in Granules /\ n > 0
      BY <2>2, <2>3
    <3>2. Chains(fat)[n][w[k]] = <<w[k]>> \o Chains(fat)[n - 1][fat[w[k]]]
      BY <3>1, ChainsAt
    <3> QED BY <2>2, <2>4, <3>2
  <2>6. <<w[k]>> \o Rest(m) = Rest(m + 1)
    <3>1. Rest(m) \in Seq(Granules) /\ Len(Rest(m)) = m + 1
      BY <1>7, <2>1
    <3>2. Rest(m + 1) \in Seq(Granules) /\ Len(Rest(m + 1)) = m + 2
      BY <1>7, <2>1
    <3>3. /\ <<w[k]>> \o Rest(m) \in Seq(Granules)
          /\ Len(<<w[k]>> \o Rest(m)) = m + 2
          /\ \A i \in 1..(m + 2) : (<<w[k]>> \o Rest(m))[i] = IF i = 1 THEN w[k] ELSE Rest(m)[i - 1]
      <4> DEFINE t == Rest(m)
                 x == w[k]
      <4>1. t \in Seq(Granules) /\ Len(t) = m + 1 /\ x \in Granules
        BY <2>2, <3>1
      <4> HIDE DEF t, x
      <4>2. <<x>> \o t \in Seq(Granules) /\ Len(<<x>> \o t) = m + 2
        BY <4>1
      <4>3. ASSUME NEW i \in 1..(m + 2) PROVE (<<x>> \o t)[i] = IF i = 1 THEN x ELSE t[i - 1]
        BY <4>1
      <4> QED BY <4>2, <4>3 DEF t, x
    <3>4. \A i \in 1..(m + 2) : Rest(m + 1)[i] = IF i = 1 THEN w[k] ELSE Rest(m)[i - 1]
      BY <2>1
    <3> DEFINE a == <<w[k]>> \o Rest(m)
               b == Rest(m + 1)
    <3>5. a \in Seq(Granules) /\ b \in Seq(Granules) /\ Len(a) = m + 2 /\ Len(b) = m + 2
      <4> HIDE DEF Rest, k
      <4> QED BY <3>2, <3>3
    <3>6. \A i \in 1..(m + 2) : a[i] = b[i]
      <4> HIDE DEF Rest, k
      <4> QED BY <3>3, <3>4
    <3> HIDE DEF a, b
    <3>7. a = b
      BY <3>5, <3>6, SeqEqual
    <3> QED BY <3>7 DEF a, b
  <2> QED BY <2>5, <2>6
<1>11. Nat \subseteq M
  <2> HIDE DEF M
  <2> QED BY <1>9, <1>10, Induction
<1>12. Chain(fat, head) = Rest(last)
  <2>1. last \in M /\ NumGranules \in Nat /\ NumGranules >= last /\ last - last = 0
    <3> HIDE DEF M
    <3>1. last \in M
      BY <1>6, <1>11
    <3>2. NumGranules \in Nat /\ NumGranules >= last /\ last - last = 0
      BY <1>1, <1>6, <1>7
    <3> QED BY <3>1, <3>2
  <2>2. Chains(fat)[NumGranules][w[last - last]] = Rest(last)
    <3> HIDE DEF Rest
    <3> QED BY <2>1
  <2> HIDE DEF Rest
  <2> QED BY <1>3, <2>1, <2>2 DEF Chain
<1>13. IsChain(fat, head, Rest(last))
  <2>1. /\ Rest(last) \in Seq(Granules) /\ Len(Rest(last)) = last + 1
        /\ \A i \in 1..(last + 1) : Rest(last)[i] = w[i - 1]
    BY <1>6, <1>7
  <2>2. last + 1 \in 1..NumGranules /\ Rest(last)[1] = head
    BY <1>1, <1>3, <1>6, <1>7, <2>1
  <2>3. \A k \in 1..last : IsLink(fat[Rest(last)[k]]) /\ Rest(last)[k + 1] = fat[Rest(last)[k]]
    <3> SUFFICES ASSUME NEW k \in 1..last
                 PROVE  IsLink(fat[Rest(last)[k]]) /\ Rest(last)[k + 1] = fat[Rest(last)[k]]
      OBVIOUS
    <3>1. k - 1 \in 0..(last - 1) /\ k - 1 \in 0..last /\ k - 1 \in Nat /\ (k - 1) + 1 = k
      BY <1>6
    <3>2. Rest(last)[k] = w[k - 1] /\ Rest(last)[k + 1] = w[k]
      BY <2>1, <1>6
    <3> HIDE DEF Rest
    <3> QED BY <1>3, <1>6, <1>7, <3>1, <3>2 DEF Follows
  <2> HIDE DEF Rest
  <2>4. IsLast(fat[Rest(last)[last + 1]])
    BY <1>6, <1>8, <2>1
  <2>5. \A i, j \in 1..(last + 1) : Rest(last)[i] = Rest(last)[j] => i = j
    BY <1>6, <1>7, <2>1
  <2> QED BY <1>6, <2>1, <2>2, <2>3, <2>4, <2>5 DEF IsChain
<1> HIDE DEF Rest, h
<1> QED BY <1>12, <1>13

-----------------------------------------------------------------------------
(* Sectors in granules and granules in files: products of sizes. *)

LEMMA UnitSizes ==
    /\ BytesPerSector \in Nat \ {0} /\ SectorsPerGranule \in 1..9
    /\ BytesPerGranule \in Nat \ {0} /\ NumGranules \in Nat \ {0}
    /\ BytesPerGranule = SectorsPerGranule * BytesPerSector
<1>1. BytesPerSector \in Nat \ {0} /\ SectorsPerGranule \in 1..9 /\ NumGranules \in Nat \ {0}
  BY ImageAssumption DEF LastMark
<1>2. \A a \in Nat \ {0}, b \in Nat \ {0} : a * b \in Nat \ {0} /\ a * b = b * a
  OBVIOUS
<1> QED BY <1>1, <1>2 DEF BytesPerGranule

LEMMA Products ==
    ASSUME NEW a \in Nat, NEW b \in Nat, NEW c \in Nat
    PROVE  /\ a * c \in Nat /\ (a + 1) * c = a * c + c
           /\ a <= b => a * c <= b * c
           /\ a < b => a * c + c <= b * c
<1>1. a * c \in Nat /\ (a + 1) * c = a * c + c
  OBVIOUS
<1>2. ASSUME a <= b PROVE a * c <= b * c
  <2> DEFINE d == b - a
  <2>1. d \in Nat /\ b = a + d
    BY <1>2
  <2>2. (a + d) * c = a * c + d * c /\ d * c \in Nat
    BY <2>1
  <2> QED BY <1>1, <2>1, <2>2
<1>3. ASSUME a < b PROVE a * c + c <= b * c
  <2> DEFINE d == b - (a + 1)
  <2>1. d \in Nat /\ b = (a + 1) + d
    BY <1>3
  <2>2. ((a + 1) + d) * c = (a + 1) * c + d * c /\ d * c \in Nat
    BY <2>1
  <2> QED BY <1>1, <2>1, <2>2
<1> QED BY <1>1, <1>2, <1>3

LEMMA LastGranuleFits ==
    ASSUME NEW mark, IsLast(mark), NEW lastBytes \in 0..BytesPerSector
    PROVE  /\ BytesInLastGranule(mark, lastBytes) \in 0..BytesPerGranule
           /\ mark # LastMark => BytesInLastGranule(mark, lastBytes) =
                  (mark - LastMark - 1) * BytesPerSector + lastBytes
<1>1. CASE mark = LastMark
  BY <1>1, UnitSizes DEF BytesInLastGranule
<1>2. CASE mark # LastMark
  <2> DEFINE a == mark - LastMark - 1
  <2>1. a \in Nat /\ a < SectorsPerGranule /\ BytesPerSector \in Nat /\ SectorsPerGranule \in Nat
    BY <1>2, UnitSizes DEF IsLast, LastMark
  <2>2. a * BytesPerSector \in Nat /\ a * BytesPerSector + BytesPerSector <= BytesPerGranule
    <3> HIDE DEF a
    <3> QED BY <2>1, Products, UnitSizes
  <2>3. BytesInLastGranule(mark, lastBytes) = a * BytesPerSector + lastBytes
    BY <1>2 DEF BytesInLastGranule
  <2> HIDE DEF a
  <2>4. a * BytesPerSector + lastBytes \in 0..BytesPerGranule
    BY <2>1, <2>2, UnitSizes
  <2> USE DEF a
  <2> QED BY <1>2, <2>3, <2>4
<1> QED BY <1>1, <1>2

-----------------------------------------------------------------------------
(* The bytes of a file. *)

LEMMA GranuleBytes ==
    ASSUME NEW im \in Image, NEW g \in Granules
    PROVE  im.gran[g] \in Seq(Bytes) /\ Len(im.gran[g]) = BytesPerGranule
<1>1. im.gran[g] \in [1..BytesPerGranule -> Bytes]
  BY DEF Image
<1>2. BytesPerGranule \in Nat
  BY UnitSizes
<1> QED BY <1>1, <1>2

LEMMA FilesAt ==
    ASSUME NEW im \in Image, NEW lastBytes \in 0..BytesPerSector, NEW n \in Nat, NEW x \in Granules
    PROVE  /\ IsLast(im.fat[x]) =>
                  FilesFrom(im, lastBytes)[n][x] =
                      SubSeq(im.gran[x], 1, BytesInLastGranule(im.fat[x], lastBytes))
           /\ (n > 0 /\ im.fat[x] \in Granules) =>
                  FilesFrom(im, lastBytes)[n][x] =
                      im.gran[x] \o FilesFrom(im, lastBytes)[n - 1][im.fat[x]]
<1> DEFINE S == [Granules -> Seq(Bytes)]
           End(g) == SubSeq(im.gran[g], 1, BytesInLastGranule(im.fat[g], lastBytes))
           a == [g \in Granules |-> IF IsLast(im.fat[g]) THEN End(g) ELSE <<>>]
           h == [F \in S |-> [g \in Granules |->
                    IF IsLast(im.fat[g]) THEN End(g)
                    ELSE IF im.fat[g] \in Granules THEN im.gran[g] \o F[im.fat[g]] ELSE <<>>]]
           Is(f) == f = [m \in Nat |-> [g \in Granules |->
                    IF IsLast(im.fat[g]) THEN End(g)
                    ELSE IF m > 0 /\ im.fat[g] \in Granules
                    THEN im.gran[g] \o f[m - 1][im.fat[g]] ELSE <<>>]]
<1>1. \A g \in Granules : im.gran[g] \in Seq(Bytes) /\ Len(im.gran[g]) = BytesPerGranule
  BY GranuleBytes
<1>2. ASSUME NEW g \in Granules, IsLast(im.fat[g]) PROVE End(g) \in Seq(Bytes)
  <2>1. BytesInLastGranule(im.fat[g], lastBytes) \in 0..BytesPerGranule
    BY <1>2, LastGranuleFits
  <2> QED BY <1>1, <2>1, UnitSizes
<1>3. a \in S /\ h \in [S -> S]
  <2> HIDE DEF End
  <2> QED BY <1>1, <1>2
<1>4. PICK f : Iterates(f, S, a, h)
  <2> HIDE DEF S, a, h
  <2> QED BY <1>3, Iterate
<1> HIDE DEF End
<1>5. ASSUME NEW m \in Nat
      PROVE  f[m] = [g \in Granules |->
                    IF IsLast(im.fat[g]) THEN End(g)
                    ELSE IF m > 0 /\ im.fat[g] \in Granules
                    THEN im.gran[g] \o f[m - 1][im.fat[g]] ELSE <<>>]
  <2>1. CASE m = 0
    BY <1>4, <2>1 DEF Iterates
  <2>2. CASE m # 0
    <3>1. m - 1 \in Nat /\ (m - 1) + 1 = m /\ m > 0
      BY <2>2
    <3>2. f[m] = h[f[m - 1]] /\ f[m - 1] \in S
      BY <1>4, <3>1 DEF Iterates
    <3> QED BY <3>2, <3>1
  <2> QED BY <2>1, <2>2
<1>6. Is(f)
  BY <1>4, <1>5 DEF Iterates
<1>7. Is(FilesFrom(im, lastBytes))
  BY <1>6 DEF FilesFrom, End
<1>8. FilesFrom(im, lastBytes)[n] = [k \in Granules |->
          IF IsLast(im.fat[k]) THEN End(k)
          ELSE IF n > 0 /\ im.fat[k] \in Granules
          THEN im.gran[k] \o FilesFrom(im, lastBytes)[n - 1][im.fat[k]] ELSE <<>>]
  BY <1>7
<1>9. /\ IsLast(im.fat[x]) => FilesFrom(im, lastBytes)[n][x] = End(x)
      /\ (n > 0 /\ im.fat[x] \in Granules) =>
             FilesFrom(im, lastBytes)[n][x] = im.gran[x] \o FilesFrom(im, lastBytes)[n - 1][im.fat[x]]
  BY <1>8, LinkMarks
<1> QED BY <1>9 DEF End


LEMMA FileGranules ==
    ASSUME NEW im \in Image, NEW lastBytes \in 0..BytesPerSector, NEW head, NEW s,
           IsChain(im.fat, head, s)
    PROVE  LET file == FileFrom(im, head, lastBytes)
               size == (Len(s) - 1) * BytesPerGranule
                         + BytesInLastGranule(im.fat[s[Len(s)]], lastBytes)
           IN  /\ file \in Seq(Bytes) /\ Len(file) = size /\ size \in Nat
               /\ \A q \in 0..(Len(s) - 1) : \A r \in 1..BytesPerGranule :
                      q * BytesPerGranule + r <= size =>
                          file[q * BytesPerGranule + r] = im.gran[s[q + 1]][r]
<1> DEFINE G == BytesPerGranule
           L == Len(s)
           fs == FilesFrom(im, lastBytes)
           z == BytesInLastGranule(im.fat[s[L]], lastBytes)
           Is(f, m) ==
               /\ f \in Seq(Bytes) /\ Len(f) = m * G + z
               /\ \A q \in 0..m, r \in 1..G :
                      q * G + r <= m * G + z => f[q * G + r] = im.gran[s[L - m + q]][r]
           M == {m \in Nat : m < L => \A n \in Nat : n >= m => Is(fs[n][s[L - m]], m)}
<1>1. /\ s \in Seq(Granules) /\ L \in 1..NumGranules /\ s[1] = head
      /\ \A k \in 1..(L - 1) : IsLink(im.fat[s[k]]) /\ s[k + 1] = im.fat[s[k]]
      /\ IsLast(im.fat[s[L]])
  BY DEF IsChain
<1>2. /\ G \in Nat \ {0} /\ NumGranules \in Nat \ {0} /\ L \in Nat
      /\ \A k \in 1..L : s[k] \in Granules
  BY <1>1, UnitSizes
<1>3. z \in 0..G
  BY <1>1, LastGranuleFits
<1>4. 0 \in M
  <2> SUFFICES ASSUME NEW n \in Nat PROVE Is(fs[n][s[L - 0]], 0)
    OBVIOUS
  <2>0. L - 0 = L
    BY <1>2
  <2>1. s[L] \in Granules
    BY <1>1, <1>2
  <2>2. fs[n][s[L]] = SubSeq(im.gran[s[L]], 1, z)
    BY <1>1, <2>1, FilesAt
  <2>3. im.gran[s[L]] \in Seq(Bytes) /\ Len(im.gran[s[L]]) = G
    BY <2>1, GranuleBytes
  <2> HIDE DEF G, L, z, fs
  <2>4. /\ SubSeq(im.gran[s[L]], 1, z) \in Seq(Bytes) /\ Len(SubSeq(im.gran[s[L]], 1, z)) = z
        /\ \A r \in 1..z : SubSeq(im.gran[s[L]], 1, z)[r] = im.gran[s[L]][r]
    BY <1>2, <1>3, <2>3
  <2> DEFINE f == SubSeq(im.gran[s[L]], 1, z)
  <2>5. fs[n][s[L - 0]] = f
    BY <2>0, <2>2
  <2>6. f \in Seq(Bytes) /\ Len(f) = 0 * G + z
    BY <1>2, <1>3, <2>4
  <2>7. ASSUME NEW q \in 0..0, NEW r \in 1..G, q * G + r <= 0 * G + z
        PROVE  f[q * G + r] = im.gran[s[L - 0 + q]][r]
    <3>1. q = 0 /\ q * G = 0 /\ 0 * G = 0 /\ r \in 1..z /\ L - 0 + q = L /\ q * G + r = r
      BY <1>2, <1>3, <2>7
    <3>2. f[r] = im.gran[s[L]][r]
      BY <2>4, <3>1
    <3> QED BY <3>1, <3>2
  <2> HIDE DEF f
  <2> QED BY <2>5, <2>6, <2>7
<1>5. ASSUME NEW m \in Nat, m \in M PROVE m + 1 \in M
  <2> SUFFICES ASSUME m + 1 < L, NEW n \in Nat, n >= m + 1
               PROVE  Is(fs[n][s[L - (m + 1)]], m + 1)
    OBVIOUS
  <2> DEFINE k == L - (m + 1)
             f == fs[n - 1][s[L - m]]
             x == im.gran[s[k]]
  <2>1. k \in 1..(L - 1) /\ k \in 1..L /\ k + 1 = L - m /\ L - m \in 1..L /\ n - 1 \in Nat /\ n > 0
    BY <1>2
  <2>2. s[k] \in Granules /\ im.fat[s[k]] = s[L - m] /\ s[L - m] \in Granules
    BY <1>1, <1>2, <2>1
  <2>3. Is(f, m)
    <3> HIDE DEF Is, fs, L
    <3> QED BY <1>5, <2>1, <1>2
  <2>4. fs[n][s[k]] = x \o f
    <3>1. n > 0 /\ im.fat[s[k]] \in Granules
      BY <2>1, <2>2
    <3>2. fs[n][s[k]] = x \o fs[n - 1][im.fat[s[k]]]
      BY <2>2, <3>1, FilesAt
    <3> HIDE DEF fs, k, L
    <3> QED BY <2>2, <3>2
  <2>5. x \in Seq(Bytes) /\ Len(x) = G
    BY <2>2, GranuleBytes
  <2>6. /\ m * G \in Nat /\ (m + 1) * G = m * G + G
        /\ \A q \in Nat : q > 0 => q * G = (q - 1) * G + G /\ (q - 1) * G \in Nat
    <3>1. G \in Nat
      BY <1>2
    <3>2. m * G \in Nat /\ (m + 1) * G = m * G + G
      BY <3>1, Products
    <3>3. ASSUME NEW q \in Nat, q > 0 PROVE q * G = (q - 1) * G + G /\ (q - 1) * G \in Nat
      <4>1. q - 1 \in Nat /\ (q - 1) + 1 = q
        BY <3>3
      <4>2. (q - 1) * G \in Nat /\ ((q - 1) + 1) * G = (q - 1) * G + G
        BY <3>1, <4>1, Products
      <4> QED BY <4>1, <4>2
    <3> QED BY <3>2, <3>3
  <2>7. /\ x \o f \in Seq(Bytes) /\ Len(x \o f) = G + Len(f)
        /\ \A i \in 1..(G + Len(f)) : (x \o f)[i] = IF i <= G THEN x[i] ELSE f[i - G]
    <3>1. f \in Seq(Bytes)
      BY <2>3
    <3> HIDE DEF x, f, G
    <3> QED BY <2>5, <3>1, ConcatProperties
  <2>8. ASSUME NEW q \in 0..(m + 1), NEW r \in 1..G, q * G + r <= (m + 1) * G + z
        PROVE  (x \o f)[q * G + r] = im.gran[s[k + q]][r]
    <3>1. CASE q = 0
      <4>1. Len(f) = m * G + z
        BY <2>3
      <4>2. k \in Int
        BY <2>1
      <4> HIDE DEF k, f, G, x, z
      <4>3. q * G + r = r /\ r \in 1..(G + Len(f)) /\ r <= G /\ k + q = k
        BY <1>2, <1>3, <2>6, <3>1, <4>1, <4>2
      <4>4. (x \o f)[r] = x[r]
        BY <2>7, <4>3
      <4> QED BY <4>3, <4>4 DEF x
    <3>2. CASE q # 0
      <4> DEFINE p == q - 1
      <4>1. p \in 0..m /\ q * G = p * G + G /\ p * G \in Nat /\ k + q = L - m + p
        BY <1>2, <2>6, <3>2
      <4>2. p * G + r <= m * G + z
        BY <1>2, <1>3, <2>6, <2>8, <4>1
      <4>3. f[p * G + r] = im.gran[s[L - m + p]][r]
        <5> HIDE DEF p, f, G, z
        <5> QED BY <2>3, <4>1, <4>2
      <4> DEFINE i == q * G + r
                 j == p * G + r
      <4>4. i = j + G /\ j \in Nat \ {0} /\ j <= m * G + z
        <5> HIDE DEF p, G
        <5> QED BY <1>2, <4>1, <4>2
      <4>5. i \in 1..(G + Len(f)) /\ ~(i <= G) /\ i - G = j
        <5>1. Len(f) = m * G + z /\ m * G + z \in Nat
          BY <1>2, <1>3, <2>3, <2>6
        <5> HIDE DEF i, j, f, z, G
        <5> QED BY <1>2, <4>4, <5>1
      <4> HIDE DEF p, f, G, k, L, x, i, j
      <4>6. (x \o f)[i] = f[i - G]
        BY <2>7, <4>5
      <4>7. (x \o f)[i] = im.gran[s[k + q]][r]
        BY <4>1, <4>3, <4>5, <4>6 DEF j
      <4> QED BY <4>7 DEF i
    <3> QED BY <3>1, <3>2
  <2>9. Len(x \o f) = (m + 1) * G + z
    <3>1. Len(f) = m * G + z
      BY <2>3
    <3> HIDE DEF f, z, G
    <3> QED BY <1>2, <1>3, <2>6, <2>7, <3>1
  <2> HIDE DEF f, z, G, x, fs, L
  <2> QED BY <2>4, <2>7, <2>8, <2>9
<1>6. Nat \subseteq M
  <2> HIDE DEF M
  <2> QED BY <1>4, <1>5, Induction
<1>7. Is(fs[NumGranules][s[1]], L - 1)
  <2>1. L - 1 \in Nat /\ L - 1 < L /\ NumGranules \in Nat /\ NumGranules >= L - 1 /\ L - (L - 1) = 1
    BY <1>1, <1>2
  <2>2. L - 1 \in M
    BY <1>6, <2>1
  <2>3. Is(fs[NumGranules][s[L - (L - 1)]], L - 1)
    <3> HIDE DEF Is, fs, L
    <3> QED BY <2>1, <2>2
  <2> HIDE DEF Is, fs, L
  <2> QED BY <2>1, <2>3
<1>8. \A q \in 0..(L - 1) : L - (L - 1) + q = q + 1
  BY <1>2
<1>9. (L - 1) * G \in Nat
  <2>1. L - 1 \in Nat /\ G \in Nat
    BY <1>1, <1>2
  <2> HIDE DEF L, G
  <2> QED BY <2>1, Products
<1> HIDE DEF L, G, z, fs
<1>10. (L - 1) * G + z \in Nat
  BY <1>2, <1>3, <1>9
<1>11. Is(FileFrom(im, head, lastBytes), L - 1)
  BY <1>1, <1>7 DEF FileFrom, fs
<1> QED BY <1>8, <1>10, <1>11 DEF L, G, z

\* The bytes of a file are those of its granules, one granule after the other.
LEMMA FileOfChain ==
    ASSUME NEW im \in Image, NEW lastBytes \in 0..BytesPerSector, NEW head, NEW s,
           IsChain(im.fat, head, s),
           NEW file, file = FileFrom(im, head, lastBytes),
           NEW size, size = (Len(s) - 1) * BytesPerGranule
                              + BytesInLastGranule(im.fat[s[Len(s)]], lastBytes)
    PROVE  /\ file \in Seq(Bytes) /\ Len(file) = size /\ size \in Nat
           /\ \A q \in 0..(Len(s) - 1) : \A r \in 1..BytesPerGranule :
                  q * BytesPerGranule + r <= size =>
                      file[q * BytesPerGranule + r] = im.gran[s[q + 1]][r]
BY FileGranules
==============================================================================
