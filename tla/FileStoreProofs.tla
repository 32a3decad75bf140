---------------------------- MODULE FileStoreProofs ----------------------------
(* Proofs that writecocofile is a store of files by name, as CocoFileStore     *)
(* says, and that a program on the CoCo reads back the files that it wrote,    *)
(* for images of every geometry and every sequence of commands.                *)
EXTENDS WrittenFilesRead, WriteCocoFileProofs, DecbImageProofs

-----------------------------------------------------------------------------
(* The image in memory, by what the command has done to the one on disk. *)

\* The table after some granules have been freed.
Freed(fat, gs) == [g \in Granules |-> IF g \in gs THEN FreeFatEntry ELSE fat[g]]

\* The entry of a name that has one.
EntryOf(dir, n) == CHOOSE e \in Matches(dir, n) : TRUE

WithoutFile(im, n) ==
    IF Matches(im.dir, n) = {} THEN im
    ELSE LET e == EntryOf(im.dir, n)
             s == ChainAt(im, e)
         IN  [fat  |-> Freed(im.fat, GranulesOf(s)),
              dir  |-> [im.dir EXCEPT ![e] = Unused(Killed)],
              gran |-> im.gran]

\* The image once killFile() has been through.
WithoutNamed == WithoutFile(disk, Named)

\* The granules of a chain before the kth one.
Before(s, k) == {s[j] : j \in 1..(k - 1)}

\* killFile() has come to the kth granule of the chain, and freed those before it.
KillingInOrder ==
    /\ entry \in Matches(disk.dir, Named)
    /\ LET s == ChainAt(disk, entry)
       IN  \E k \in 1..Len(s) :
               granuleNo = s[k] /\ contents = [disk EXCEPT !.fat = Freed(disk.fat, Before(s, k))]

\* allocateGranules() has passed over no free granule.
AllocatingInOrder ==
    /\ request.name \in LegalNames
    /\ \A g \in Granules : (contents.fat[g] = FreeFatEntry /\ g < granuleNo) =>
                               \E k \in 1..Len(fileGranules) : fileGranules[k] = g

\* A file of a name that no entry has goes to an entry not in use and to free granules.
Addition(im, e, n, s, bytes) ==
    /\ im \in Image /\ Sound(im.fat, im.dir)
    /\ e \in DirEntries /\ ~InUse(im.dir[e])
    /\ n \in DirNames /\ \A d \in DirEntries : im.dir[d].name # n
    /\ bytes \in Seq(Bytes)
    /\ s \in Seq(Granules) /\ Ascending(s) /\ Len(s) = SizeInGranules(Len(bytes))
    /\ \A k \in 1..Len(s) : im.fat[s[k]] = FreeFatEntry

Adds(e) ==
    /\ request.name \in LegalNames
    /\ Addition(WithoutNamed, e, Named, fileGranules, BytesToAdd(request))
    /\ contents = WithFile(WithoutNamed, e, Named, fileGranules, BytesToAdd(request))

\* extractFile() has come to the kth granule of the chain, and has the bytes of those before it.
ExtractingInOrder ==
    /\ entry \in Matches(disk.dir, Named)
    /\ LET s == ChainAt(disk, entry)
       IN  \E k \in 1..Len(s) :
               /\ granuleNo = s[k]
               /\ fileContents = SubSeq(FileContents(disk, entry), 1, (k - 1) * BytesPerGranule)

StoreInv ==
    /\ pc # "torn" => Tidy(disk)
    /\ pc \notin {"idle", "torn"} => reply = None
    /\ pc \notin {"idle", "open", "torn"} => Openable(request)
    /\ pc # "extract" => fileContents = <<>>
    /\ pc \in {"find", "list", "extract"} => contents = disk
    /\ pc = "list" => request.op = "list"
    /\ pc = "extract" => request.op = "read" /\ ExtractingInOrder
    /\ pc = "kill" => KillingInOrder
    /\ pc \in {"add", "allocate"} => contents = WithoutNamed
    /\ pc = "allocate" => AllocatingInOrder
    /\ pc = "commit" => \/ request.op = "kill" /\ contents = WithoutNamed
                        \/ request.op = "write" /\ \E e \in DirEntries : Adds(e)
-----------------------------------------------------------------------------
(* Entries by name. *)

LEMMA EntriesByName ==
    ASSUME NEW fat, NEW dir \in [DirEntries -> Entry], Sound(fat, dir), NEW n \in DirNames
    PROVE  /\ Matches(dir, n) = {e \in DirEntries : dir[e].name = n}
           /\ \A d, e \in Matches(dir, n) : d = e
<1>1. ASSUME NEW d \in DirEntries, dir[d].name = n PROVE d \in Matches(dir, n)
  <2> SUFFICES ASSUME NEW f \in 1..(d - 1) PROVE dir[f].name \notin {n, NeverUsed}
    BY <1>1 DEF Matches
  <2>1. f \in DirEntries /\ f < d
    BY ImageAssumption DEF DirEntries
  <2>2. dir[f].name # n
    BY <1>1, <2>1 DEF Sound, DistinctNames, InUse
  <2>3. dir[f].name # NeverUsed
    BY <1>1, <2>1, ImageAssumption DEF Sound, NoFileBehindEnd
  <2> QED BY <2>2, <2>3
<1>2. Matches(dir, n) = {e \in DirEntries : dir[e].name = n}
  BY <1>1 DEF Matches
<1>3. \A d, e \in Matches(dir, n) : d = e
  BY <1>2 DEF Sound, DistinctNames, InUse
<1> QED BY <1>2, <1>3

LEMMA EntryOfName ==
    ASSUME NEW fat, NEW dir \in [DirEntries -> Entry], Sound(fat, dir),
           NEW n \in DirNames, NEW e \in DirEntries, dir[e].name = n
    PROVE  Matches(dir, n) = {e} /\ EntryOf(dir, n) = e
<1>1. Matches(dir, n) = {e}
  BY EntriesByName
<1> QED BY <1>1 DEF EntryOf

-----------------------------------------------------------------------------
(* Chains: one for each entry, and none has a granule of another. *)

LEMMA ChainRange ==
    ASSUME NEW fat, NEW head, NEW s, IsChain(fat, head, s)
    PROVE  /\ s \in Seq(Granules) /\ Len(s) \in Nat \ {0} /\ 1 \in 1..Len(s) /\ Len(s) \in 1..Len(s)
           /\ \A k \in 1..Len(s) : s[k] \in Granules
           /\ head \in Granules /\ head = s[1]
           /\ GranulesOf(s) \subseteq Granules
BY DEF IsChain, GranulesOf

LEMMA OneChain ==
    ASSUME NEW fat, NEW head, NEW s, NEW t, IsChain(fat, head, s), IsChain(fat, head, t)
    PROVE  s = t
<1>1. /\ s \in Seq(Granules) /\ Len(s) \in Nat \ {0} /\ s[1] = head
      /\ \A k \in 1..(Len(s) - 1) : IsLink(fat[s[k]]) /\ s[k + 1] = fat[s[k]]
      /\ IsLast(fat[s[Len(s)]])
  BY DEF IsChain
<1>2. /\ t \in Seq(Granules) /\ Len(t) \in Nat \ {0} /\ t[1] = head
      /\ \A k \in 1..(Len(t) - 1) : IsLink(fat[t[k]]) /\ t[k + 1] = fat[t[k]]
      /\ IsLast(fat[t[Len(t)]])
  BY DEF IsChain
<1> DEFINE M == {k \in Nat : (k + 1 \in 1..Len(s) /\ k + 1 \in 1..Len(t)) => s[k + 1] = t[k + 1]}
<1>3. 0 \in M
  BY <1>1, <1>2
<1>4. ASSUME NEW k \in Nat, k \in M PROVE k + 1 \in M
  <2> SUFFICES ASSUME (k + 1) + 1 \in 1..Len(s), (k + 1) + 1 \in 1..Len(t)
               PROVE  s[(k + 1) + 1] = t[(k + 1) + 1]
    OBVIOUS
  <2>1. k + 1 \in 1..(Len(s) - 1) /\ k + 1 \in 1..(Len(t) - 1) /\ k + 1 \in 1..Len(s) /\ k + 1 \in 1..Len(t)
    BY <1>1, <1>2
  <2>2. s[k + 1] = t[k + 1]
    BY <1>4, <2>1
  <2> QED BY <1>1, <1>2, <2>1, <2>2
<1>5. Nat \subseteq M
  <2> HIDE DEF M
  <2> QED BY <1>3, <1>4, Induction
<1>6. \A k \in Nat \ {0} : (k \in 1..Len(s) /\ k \in 1..Len(t)) => s[k] = t[k]
  <2> SUFFICES ASSUME NEW k \in Nat \ {0}, k \in 1..Len(s), k \in 1..Len(t) PROVE s[k] = t[k]
    OBVIOUS
  <2>1. k - 1 \in M /\ (k - 1) + 1 = k
    BY <1>5
  <2> QED BY <2>1
<1>7. ~(Len(s) < Len(t))
  <2> SUFFICES ASSUME Len(s) < Len(t) PROVE FALSE
    OBVIOUS
  <2>1. Len(s) \in 1..(Len(t) - 1) /\ Len(s) \in 1..Len(s) /\ Len(s) \in 1..Len(t)
    BY <1>1, <1>2
  <2>2. IsLink(fat[t[Len(s)]]) /\ t[Len(s)] = s[Len(s)]
    BY <1>1, <1>2, <1>6, <2>1
  <2> QED BY <1>1, <2>2, LinkMarks
<1>8. ~(Len(t) < Len(s))
  <2> SUFFICES ASSUME Len(t) < Len(s) PROVE FALSE
    OBVIOUS
  <2>1. Len(t) \in 1..(Len(s) - 1) /\ Len(t) \in 1..Len(s) /\ Len(t) \in 1..Len(t)
    BY <1>1, <1>2
  <2>2. IsLink(fat[s[Len(t)]]) /\ t[Len(t)] = s[Len(t)]
    BY <1>1, <1>2, <1>6, <2>1
  <2> QED BY <1>2, <2>2, LinkMarks
<1>9. Len(s) = Len(t)
  BY <1>1, <1>2, <1>7, <1>8
<1> QED BY <1>1, <1>2, <1>6, <1>9, SeqEqual

\* What is on a chain: an allocated granule, and the mark at its end.
LEMMA ChainOf ==
    ASSUME NEW im \in Image, Sound(im.fat, im.dir), NEW e \in DirEntries, InUse(im.dir[e])
    PROVE  /\ IsChain(im.fat, im.dir[e].gran, ChainAt(im, e))
           /\ \A g \in GranulesOf(ChainAt(im, e)) : g \in Granules /\ im.fat[g] # FreeFatEntry
<1>1. im.fat \in [Granules -> 0..255] /\ im.dir \in [DirEntries -> Entry]
  BY DEF Image
<1>2. IsChain(im.fat, im.dir[e].gran, ChainAt(im, e))
  BY <1>1, ChainOfEntry DEF ChainAt
<1> DEFINE s == ChainAt(im, e)
<1> HIDE DEF s
<1>3. IsChain(im.fat, im.dir[e].gran, s)
  BY <1>2 DEF s
<1>4. ASSUME NEW k \in 1..Len(s) PROVE s[k] \in Granules /\ im.fat[s[k]] # FreeFatEntry
  <2>1. s[k] \in Granules /\ Len(s) \in Nat
    BY <1>3, ChainRange
  <2>2. CASE k = Len(s)
    BY <1>3, <2>1, <2>2, Marks DEF IsChain
  <2>3. CASE k # Len(s)
    <3>1. k \in 1..(Len(s) - 1)
      BY <2>1, <2>3
    <3>2. IsLink(im.fat[s[k]])
      BY <1>3, <3>1 DEF IsChain
    <3> QED BY <2>1, <3>2, Marks
  <2> QED BY <2>2, <2>3
<1>5. \A g \in GranulesOf(s) : g \in Granules /\ im.fat[g] # FreeFatEntry
  BY <1>4 DEF GranulesOf
<1> QED BY <1>2, <1>5 DEF s

LEMMA ChainsApart ==
    ASSUME NEW im \in Image, Sound(im.fat, im.dir),
           NEW d \in DirEntries, InUse(im.dir[d]), NEW e \in DirEntries, InUse(im.dir[e]), d # e
    PROVE  \A g \in GranulesOf(ChainAt(im, d)) : g \notin GranulesOf(ChainAt(im, e))
<1> DEFINE s == ChainAt(im, d)
           t == ChainAt(im, e)
           M == {k \in Nat : k + 1 \in 1..Len(s) => \A j \in 1..Len(t) : s[k + 1] # t[j]}
<1> HIDE DEF s, t
<1>1. IsChain(im.fat, im.dir[d].gran, s) /\ IsChain(im.fat, im.dir[e].gran, t)
  BY ChainOf DEF s, t
<1>2. /\ Len(s) \in Nat \ {0} /\ Len(t) \in Nat \ {0}
      /\ s[1] = im.dir[d].gran /\ t[1] = im.dir[e].gran
      /\ \A k \in 1..Len(s) : s[k] \in Granules
      /\ \A k \in 1..Len(t) : t[k] \in Granules
  BY <1>1, ChainRange
<1>3. /\ \A k \in 1..(Len(s) - 1) : IsLink(im.fat[s[k]]) /\ s[k + 1] = im.fat[s[k]]
      /\ \A k \in 1..(Len(t) - 1) : IsLink(im.fat[t[k]]) /\ t[k + 1] = im.fat[t[k]]
  BY <1>1 DEF IsChain
<1>4. NoCrossLinks(im.fat, im.dir)
  BY DEF Sound
<1>5. \A k \in 1..Len(t) : k # 1 => k - 1 \in 1..Len(t) /\ IsLink(im.fat[t[k - 1]]) /\ t[k] = im.fat[t[k - 1]]
  <2> SUFFICES ASSUME NEW k \in 1..Len(t), k # 1
               PROVE  k - 1 \in 1..Len(t) /\ IsLink(im.fat[t[k - 1]]) /\ t[k] = im.fat[t[k - 1]]
    OBVIOUS
  <2>1. k - 1 \in 1..(Len(t) - 1) /\ k - 1 \in 1..Len(t) /\ (k - 1) + 1 = k
    BY <1>2
  <2> QED BY <1>3, <2>1
<1>6. 0 \in M
  <2> SUFFICES ASSUME NEW j \in 1..Len(t) PROVE s[1] # t[j]
    OBVIOUS
  <2>1. CASE j = 1
    BY <1>2, <1>4, <2>1 DEF NoCrossLinks
  <2>2. CASE j # 1
    <3>1. t[j - 1] \in Granules /\ IsLink(im.fat[t[j - 1]]) /\ t[j] = im.fat[t[j - 1]]
      BY <1>2, <1>5, <2>2
    <3> QED BY <1>2, <1>4, <3>1 DEF NoCrossLinks
  <2> QED BY <2>1, <2>2
<1>7. ASSUME NEW k \in Nat, k \in M PROVE k + 1 \in M
  <2> SUFFICES ASSUME (k + 1) + 1 \in 1..Len(s), NEW j \in 1..Len(t) PROVE s[(k + 1) + 1] # t[j]
    OBVIOUS
  <2>1. k + 1 \in 1..(Len(s) - 1) /\ k + 1 \in 1..Len(s)
    BY <1>2
  <2>2. s[(k + 1) + 1] = im.fat[s[k + 1]] /\ IsLink(im.fat[s[k + 1]]) /\ s[k + 1] \in Granules
    BY <1>2, <1>3, <2>1
  <2>3. CASE j = 1
    BY <1>2, <1>4, <2>2, <2>3 DEF NoCrossLinks
  <2>4. CASE j # 1
    <3>1. s[k + 1] # t[j - 1] /\ t[j - 1] \in Granules
      BY <1>2, <1>5, <1>7, <2>1, <2>4
    <3> QED BY <1>4, <1>5, <2>2, <2>4, <3>1 DEF NoCrossLinks
  <2> QED BY <2>3, <2>4
<1>8. Nat \subseteq M
  <2> HIDE DEF M
  <2> QED BY <1>6, <1>7, Induction
<1>9. \A k \in 1..Len(s), j \in 1..Len(t) : s[k] # t[j]
  <2> SUFFICES ASSUME NEW k \in 1..Len(s), NEW j \in 1..Len(t) PROVE s[k] # t[j]
    OBVIOUS
  <2>1. k - 1 \in Nat /\ (k - 1) + 1 = k
    OBVIOUS
  <2>2. k - 1 \in M
    BY <1>8, <2>1
  <2> QED BY <2>1, <2>2
<1> QED BY <1>9 DEF GranulesOf, s, t

-----------------------------------------------------------------------------
(* Images that differ beside a file. *)

\* Two images have the same table and bytes along a chain.
SameAlong(im, im2, s) ==
    \A k \in 1..Len(s) : im2.fat[s[k]] = im.fat[s[k]] /\ im2.gran[s[k]] = im.gran[s[k]]

LEMMA ChainStays ==
    ASSUME NEW fat, NEW fat2, NEW head, NEW s, IsChain(fat, head, s),
           \A k \in 1..Len(s) : fat2[s[k]] = fat[s[k]]
    PROVE  IsChain(fat2, head, s)
<1>1. Len(s) \in Nat \ {0}
  BY ChainRange
<1>2. \A k \in 1..(Len(s) - 1) : fat2[s[k]] = fat[s[k]]
  BY <1>1
<1>3. fat2[s[Len(s)]] = fat[s[Len(s)]]
  BY <1>1
<1> QED BY <1>2, <1>3 DEF IsChain

\* A byte of the file lies in one of its granules.
InGranules(i, L) == \E q \in 0..(L - 1), r \in 1..BytesPerGranule : i = q * BytesPerGranule + r

LEMMA ByteInGranules ==
    ASSUME NEW L, L \in Nat \ {0}, NEW z, z \in 0..BytesPerGranule,
           NEW size, size = (L - 1) * BytesPerGranule + z, NEW i, i \in 1..size
    PROVE  InGranules(i, L)
<1> DEFINE G == BytesPerGranule
<1>0. G \in Nat \ {0} /\ (L - 1) * G \in Nat /\ size \in Nat
  <2>1. G \in Nat \ {0} /\ L - 1 \in Nat
    BY UnitSizes
  <2> HIDE DEF G
  <2>2. (L - 1) * G \in Nat
    BY <2>1, Products
  <2>3. (L - 1) * G + z \in Nat
    BY <2>1, <2>2 DEF G
  <2> QED BY <2>1, <2>2, <2>3 DEF G
<1> HIDE DEF G
<1> DEFINE q == (i - 1) \div G
           r == ((i - 1) % G) + 1
<1>1. i - 1 \in Nat /\ q \in Nat /\ (i - 1) % G \in 0..(G - 1) /\ i - 1 = q * G + ((i - 1) % G)
  BY <1>0
<1>2. r \in 1..G /\ i = q * G + r
  BY <1>0, <1>1
<1> HIDE DEF q, r
<1>3. CASE q <= L - 1
  BY <1>1, <1>2, <1>3 DEF InGranules, G
<1>4. CASE ~(q <= L - 1)
  <2>1. L - 1 \in Nat /\ L - 1 < q /\ q \in Nat
    BY <1>1, <1>4
  <2>2. (L - 1) * G + G <= q * G
    BY <1>0, <2>1, Products
  <2>3. (L - 1) * G \in Nat /\ q * G \in Nat
    BY <1>0, <2>1, Products
  <2> DEFINE a == (L - 1) * G
             b == q * G
  <2> HIDE DEF a, b
  <2>4. a \in Nat /\ b \in Nat /\ a + G <= b /\ i <= a + z /\ i = b + r
    BY <1>2, <2>2, <2>3 DEF a, b, G
  <2> QED BY <1>0, <1>2, <2>4 DEF G
<1> QED BY <1>3, <1>4

LEMMA FileStays ==
    ASSUME NEW im \in Image, NEW im2 \in Image, NEW lastBytes \in 0..BytesPerSector,
           NEW head, NEW s, IsChain(im.fat, head, s), SameAlong(im, im2, s)
    PROVE  FileFrom(im2, head, lastBytes) = FileFrom(im, head, lastBytes)
<1> DEFINE f == FileFrom(im, head, lastBytes)
           f2 == FileFrom(im2, head, lastBytes)
           G == BytesPerGranule
           size == (Len(s) - 1) * BytesPerGranule + BytesInLastGranule(im.fat[s[Len(s)]], lastBytes)
           size2 == (Len(s) - 1) * BytesPerGranule + BytesInLastGranule(im2.fat[s[Len(s)]], lastBytes)
<1>1. IsChain(im2.fat, head, s)
  BY ChainStays DEF SameAlong
<1>2. Len(s) \in Nat \ {0} /\ Len(s) \in 1..Len(s)
  BY ChainRange
<1>3. size2 = size
  BY <1>2 DEF SameAlong
<1>4. /\ f \in Seq(Bytes) /\ Len(f) = size /\ size \in Nat
      /\ \A q \in 0..(Len(s) - 1) : \A r \in 1..G :
             q * G + r <= size => f[q * G + r] = im.gran[s[q + 1]][r]
  <2> HIDE DEF f, size
  <2>1. f = FileFrom(im, head, lastBytes)
    BY DEF f
  <2>2. size = (Len(s) - 1) * BytesPerGranule + BytesInLastGranule(im.fat[s[Len(s)]], lastBytes)
    BY DEF size
  <2> QED BY <2>1, <2>2, FileOfChain
<1>5. /\ f2 \in Seq(Bytes) /\ Len(f2) = size2 /\ size2 \in Nat
      /\ \A q \in 0..(Len(s) - 1) : \A r \in 1..G :
             q * G + r <= size2 => f2[q * G + r] = im2.gran[s[q + 1]][r]
  <2> HIDE DEF f2, size2
  <2>1. f2 = FileFrom(im2, head, lastBytes)
    BY DEF f2
  <2>2. size2 = (Len(s) - 1) * BytesPerGranule + BytesInLastGranule(im2.fat[s[Len(s)]], lastBytes)
    BY DEF size2
  <2> QED BY <1>1, <2>1, <2>2, FileOfChain
<1>6. BytesInLastGranule(im.fat[s[Len(s)]], lastBytes) \in 0..G
  BY LastGranuleFits, ChainRange DEF IsChain
<1>7. ASSUME NEW i \in 1..size PROVE f2[i] = f[i]
  <2>1. PICK q \in 0..(Len(s) - 1), r \in 1..G : i = q * G + r
    <3> DEFINE L == Len(s)
               z == BytesInLastGranule(im.fat[s[Len(s)]], lastBytes)
    <3>1. size = (L - 1) * BytesPerGranule + z
      OBVIOUS
    <3> HIDE DEF L, z, size
    <3>2. InGranules(i, L)
      BY <1>2, <1>6, <1>7, <3>1, ByteInGranules DEF L, z
    <3> QED BY <3>2 DEF InGranules, L
  <2> HIDE DEF f, f2, size, size2, G
  <2>2. f[q * G + r] = im.gran[s[q + 1]][r] /\ f2[q * G + r] = im2.gran[s[q + 1]][r]
    BY <1>3, <1>4, <1>5, <1>7, <2>1
  <2>3. q + 1 \in 1..Len(s)
    BY <1>2
  <2>4. im2.gran[s[q + 1]] = im.gran[s[q + 1]]
    BY <2>3 DEF SameAlong
  <2> QED BY <2>1, <2>2, <2>4
<1> HIDE DEF f, f2, size, size2
<1>8. f2 = f
  BY <1>3, <1>4, <1>5, <1>7, SeqEqual
<1> QED BY <1>8 DEF f, f2

-----------------------------------------------------------------------------
(* The files of an image, by name. *)

LEMMA FileTyped ==
    ASSUME NEW im \in Image, Sound(im.fat, im.dir), NEW e \in DirEntries, InUse(im.dir[e])
    PROVE  FileContents(im, e) \in Seq(Bytes)
<1>1. IsChain(im.fat, im.dir[e].gran, ChainAt(im, e))
  BY ChainOf
<1>2. im.dir[e].lastBytes \in 0..BytesPerSector
  BY DEF Image, Entry
<1> QED BY <1>1, <1>2, FileOfChain DEF FileContents

LEMMA FileOfName ==
    ASSUME NEW im \in Image, Sound(im.fat, im.dir), NEW n \in DirNames
    PROVE  /\ Matches(im.dir, n) = {} => FilesOf(im)[n] = None
           /\ \A e \in Matches(im.dir, n) :
                  /\ e \in DirEntries /\ im.dir[e].name = n /\ InUse(im.dir[e])
                  /\ e = EntryOf(im.dir, n)
                  /\ FilesOf(im)[n] = FileContents(im, e) /\ FilesOf(im)[n] \in Seq(Bytes)
<1>1. ASSUME NEW e \in Matches(im.dir, n)
      PROVE  /\ e \in DirEntries /\ im.dir[e].name = n /\ InUse(im.dir[e])
             /\ e = EntryOf(im.dir, n)
             /\ FilesOf(im)[n] = FileContents(im, e) /\ FilesOf(im)[n] \in Seq(Bytes)
  <2>1. e \in DirEntries /\ im.dir[e].name = n /\ InUse(im.dir[e])
    BY DEF Matches, InUse
  <2>2. Matches(im.dir, n) = {e} /\ EntryOf(im.dir, n) = e
    BY <2>1, EntryOfName DEF Image
  <2>3. FilesOf(im)[n] = FileContents(im, EntryOf(im.dir, n))
    BY <2>2 DEF FilesOf, EntryOf
  <2> QED BY <2>1, <2>2, <2>3, FileTyped
<1>2. Matches(im.dir, n) = {} => FilesOf(im)[n] = None
  BY DEF FilesOf
<1> QED BY <1>1, <1>2

\* An image has the files of another one under all names but one.
Leaves(im, im2, n) ==
    \A m \in DirNames \ {n} :
        /\ Matches(im2.dir, m) = Matches(im.dir, m)
        /\ \A e \in Matches(im.dir, m) :
               im2.dir[e] = im.dir[e] /\ SameAlong(im, im2, ChainAt(im, e))

LEMMA OthersStay ==
    ASSUME NEW im \in Image, Sound(im.fat, im.dir), NEW im2 \in Image,
           NEW n, Leaves(im, im2, n), NEW m \in DirNames \ {n}
    PROVE  FilesOf(im2)[m] = FilesOf(im)[m]
<1>1. CASE Matches(im.dir, m) = {}
  BY <1>1 DEF Leaves, FilesOf
<1>2. CASE Matches(im.dir, m) # {}
  <2> DEFINE e == EntryOf(im.dir, m)
             s == ChainAt(im, e)
  <2>1. e \in Matches(im.dir, m)
    BY <1>2 DEF EntryOf
  <2>2. e \in DirEntries /\ InUse(im.dir[e])
    BY <2>1, FileOfName
  <2>3. FilesOf(im)[m] = FileContents(im, e) /\ FilesOf(im2)[m] = FileContents(im2, e)
    BY <1>2 DEF Leaves, FilesOf, EntryOf
  <2>4. im2.dir[e] = im.dir[e] /\ SameAlong(im, im2, s)
    BY <2>1 DEF Leaves
  <2>5. IsChain(im.fat, im.dir[e].gran, s) /\ im.dir[e].lastBytes \in 0..BytesPerSector
    BY <2>2, ChainOf DEF Image, Entry
  <2> HIDE DEF e, s
  <2>6. FileFrom(im2, im.dir[e].gran, im.dir[e].lastBytes)
          = FileFrom(im, im.dir[e].gran, im.dir[e].lastBytes)
    BY <2>4, <2>5, FileStays
  <2> QED BY <2>3, <2>4, <2>6 DEF FileContents
<1> QED BY <1>1, <1>2

\* It does so also where only a part of it has been written.
PartOf(im, im2, torn) ==
    /\ torn.fat = im.fat \/ torn.fat = im2.fat
    /\ torn.dir = im.dir \/ torn.dir = im2.dir
    /\ \A g \in Granules : torn.gran[g] = im.gran[g] \/ torn.gran[g] = im2.gran[g]

LEMMA PartLeaves ==
    ASSUME NEW im \in Image, Sound(im.fat, im.dir), NEW im2, NEW n, Leaves(im, im2, n),
           NEW torn, PartOf(im, im2, torn)
    PROVE  Leaves(im, torn, n)
<1> SUFFICES ASSUME NEW m \in DirNames \ {n}
             PROVE  /\ Matches(torn.dir, m) = Matches(im.dir, m)
                    /\ \A e \in Matches(im.dir, m) :
                           torn.dir[e] = im.dir[e] /\ SameAlong(im, torn, ChainAt(im, e))
  BY DEF Leaves
<1>1. Matches(torn.dir, m) = Matches(im.dir, m)
  BY DEF Leaves, PartOf
<1>2. ASSUME NEW e \in Matches(im.dir, m)
      PROVE  torn.dir[e] = im.dir[e] /\ SameAlong(im, torn, ChainAt(im, e))
  <2> DEFINE s == ChainAt(im, e)
  <2>1. torn.dir[e] = im.dir[e] /\ SameAlong(im, im2, s)
    BY DEF Leaves, PartOf
  <2>2. IsChain(im.fat, im.dir[e].gran, s)
    BY FileOfName, ChainOf
  <2> HIDE DEF s
  <2>3. \A k \in 1..Len(s) : s[k] \in Granules
    BY <2>2, ChainRange
  <2>4. SameAlong(im, torn, s)
    BY <2>1, <2>3 DEF SameAlong, PartOf
  <2> QED BY <2>1, <2>4 DEF s
<1> QED BY <1>1, <1>2

\* The chains of the other names are the same.
LEMMA LeavesChains ==
    ASSUME NEW im \in Image, Sound(im.fat, im.dir), NEW im2 \in Image, Sound(im2.fat, im2.dir),
           NEW n, Leaves(im, im2, n), NEW e \in DirEntries, im2.dir[e].name \in DirNames \ {n}
    PROVE  /\ InUse(im.dir[e]) /\ im2.dir[e] = im.dir[e] /\ e \in Matches(im.dir, im.dir[e].name)
           /\ ChainAt(im2, e) = ChainAt(im, e)
           /\ SameAlong(im, im2, ChainAt(im, e))
           /\ FileContents(im2, e) = FileContents(im, e)
<1> DEFINE m == im2.dir[e].name
           s == ChainAt(im, e)
<1>1. e \in Matches(im2.dir, m)
  BY EntryOfName DEF Image
<1>2. e \in Matches(im.dir, m) /\ im2.dir[e] = im.dir[e] /\ SameAlong(im, im2, s)
  BY <1>1 DEF Leaves
<1>3. InUse(im.dir[e]) /\ InUse(im2.dir[e])
  BY <1>2 DEF InUse
<1>4. IsChain(im.fat, im.dir[e].gran, s) /\ IsChain(im2.fat, im2.dir[e].gran, ChainAt(im2, e))
  BY <1>3, ChainOf
<1>5. im.dir[e].lastBytes \in 0..BytesPerSector
  BY DEF Image, Entry
<1> HIDE DEF s
<1>6. IsChain(im2.fat, im.dir[e].gran, s)
  BY <1>2, <1>4, ChainStays DEF SameAlong
<1>7. ChainAt(im2, e) = s
  BY <1>2, <1>4, <1>6, OneChain
<1>8. FileContents(im2, e) = FileContents(im, e)
  BY <1>2, <1>4, <1>5, FileStays DEF FileContents
<1> QED BY <1>2, <1>3, <1>7, <1>8 DEF s, m

LEMMA LeavesTwice ==
    ASSUME NEW im \in Image, Sound(im.fat, im.dir), NEW im2 \in Image, Sound(im2.fat, im2.dir),
           NEW im3, NEW n, Leaves(im, im2, n), Leaves(im2, im3, n)
    PROVE  Leaves(im, im3, n)
<1> SUFFICES ASSUME NEW m \in DirNames \ {n}
             PROVE  /\ Matches(im3.dir, m) = Matches(im.dir, m)
                    /\ \A e \in Matches(im.dir, m) :
                           im3.dir[e] = im.dir[e] /\ SameAlong(im, im3, ChainAt(im, e))
  BY DEF Leaves
<1>1. Matches(im3.dir, m) = Matches(im.dir, m) /\ Matches(im2.dir, m) = Matches(im.dir, m)
  BY DEF Leaves
<1>2. ASSUME NEW e \in Matches(im.dir, m)
      PROVE  im3.dir[e] = im.dir[e] /\ SameAlong(im, im3, ChainAt(im, e))
  <2>1. e \in DirEntries /\ im2.dir[e].name = m
    BY <1>1, FileOfName
  <2>2. ChainAt(im2, e) = ChainAt(im, e) /\ SameAlong(im, im2, ChainAt(im, e)) /\ im2.dir[e] = im.dir[e]
    BY <2>1, LeavesChains
  <2>3. im3.dir[e] = im2.dir[e] /\ SameAlong(im2, im3, ChainAt(im2, e))
    BY <1>1, <1>2 DEF Leaves
  <2> QED BY <2>2, <2>3 DEF SameAlong
<1> QED BY <1>1, <1>2

-----------------------------------------------------------------------------
(* Removing a file. *)

LEMMA Removed ==
    ASSUME NEW im \in Image, Sound(im.fat, im.dir), NEW n \in DirNames,
           NEW e, e \in Matches(im.dir, n), NEW s, s = ChainAt(im, e),
           NEW im2, im2 = WithoutFile(im, n)
    PROVE  /\ im2.fat = Freed(im.fat, GranulesOf(s)) /\ im2.fat \in [Granules -> 0..255]
           /\ im2.dir = [im.dir EXCEPT ![e] = Unused(Killed)]
           /\ im2.gran = im.gran
           /\ im2 \in Image
           /\ FreeGranules(im2.fat) = FreeGranules(im.fat) \cup GranulesOf(s)
           /\ FreeGranules(im.fat) \cap GranulesOf(s) = {}
<1>1. e = EntryOf(im.dir, n) /\ e \in DirEntries /\ InUse(im.dir[e])
  BY FileOfName
<1>2. im2 = [fat |-> Freed(im.fat, GranulesOf(s)), dir |-> [im.dir EXCEPT ![e] = Unused(Killed)],
             gran |-> im.gran]
  BY <1>1 DEF WithoutFile
<1>3. Unused(Killed) \in Entry
  BY ImageAssumption DEF Unused, Entry, Granules, LastMark
<1>4. im.fat \in [Granules -> 0..255]
  BY DEF Image
<1> DEFINE F == Freed(im.fat, GranulesOf(s))
<1>9. /\ F \in [Granules -> 0..255]
      /\ \A g \in GranulesOf(s) : g \in Granules => F[g] = FreeFatEntry
      /\ \A g \in Granules : g \notin GranulesOf(s) => F[g] = im.fat[g]
  <2>1. FreeFatEntry \in 0..255
    BY DEF FreeFatEntry
  <2> QED BY <1>4, <2>1 DEF Freed
<1> HIDE DEF F
<1>5. im2 \in Image
  <2>1. /\ [im.dir EXCEPT ![e] = Unused(Killed)] \in [DirEntries -> Entry]
        /\ im.gran \in [Granules -> [1..BytesPerGranule -> Bytes]]
    BY <1>3 DEF Image
  <2> QED BY <1>2, <1>9, <2>1 DEF Image, F
<1>6. \A g \in GranulesOf(s) : g \in Granules /\ im.fat[g] # FreeFatEntry
  BY <1>1, ChainOf
<1>7. FreeGranules(im.fat) \cap GranulesOf(s) = {}
  BY <1>6 DEF FreeGranules
<1>8. FreeGranules(im2.fat) = FreeGranules(im.fat) \cup GranulesOf(s)
  <2>1. im2.fat = F
    BY <1>2 DEF F
  <2>3. \A g \in Granules : im2.fat[g] = FreeFatEntry <=> (g \in GranulesOf(s) \/ im.fat[g] = FreeFatEntry)
    BY <1>9, <2>1
  <2> QED BY <1>6, <2>3 DEF FreeGranules
<1> QED BY <1>2, <1>5, <1>7, <1>8, <1>9 DEF F

LEMMA RemovalLeaves ==
    ASSUME NEW im \in Image, Sound(im.fat, im.dir), NEW n \in DirNames
    PROVE  Leaves(im, WithoutFile(im, n), n)
<1> DEFINE im2 == WithoutFile(im, n)
<1>1. CASE Matches(im.dir, n) = {}
  BY <1>1 DEF Leaves, SameAlong, WithoutFile
<1>2. CASE Matches(im.dir, n) # {}
  <2>1. PICK e \in DirEntries : e \in Matches(im.dir, n)
    BY <1>2 DEF Matches
  <2> DEFINE s == ChainAt(im, e)
  <2>2. /\ im2.fat = Freed(im.fat, GranulesOf(s))
        /\ im2.dir = [im.dir EXCEPT ![e] = Unused(Killed)] /\ im2.gran = im.gran
    BY <2>1, Removed
  <2>3. im.fat \in [Granules -> 0..255] /\ im.dir \in [DirEntries -> Entry]
    BY DEF Image
  <2>4. im.dir[e].name = n /\ InUse(im.dir[e])
    BY <2>1, FileOfName
  <2> DEFINE F == Freed(im.fat, GranulesOf(s))
  <2>11. \A g \in Granules : g \notin GranulesOf(s) => F[g] = im.fat[g]
    <3> HIDE DEF s
    <3> QED BY DEF Freed
  <2> HIDE DEF im2, F
  <2> SUFFICES ASSUME NEW m \in DirNames \ {n}
               PROVE  /\ Matches(im2.dir, m) = Matches(im.dir, m)
                      /\ \A d \in Matches(im.dir, m) :
                             im2.dir[d] = im.dir[d] /\ SameAlong(im, im2, ChainAt(im, d))
    BY DEF Leaves, im2
  <2>5. /\ im2.dir[e].name = Killed /\ Killed # m /\ Killed # NeverUsed /\ n # m /\ n # NeverUsed
        /\ \A d \in DirEntries : d # e => im2.dir[d] = im.dir[d]
    <3>1. Killed # NeverUsed
      BY DEF Killed, NeverUsed
    <3>2. Killed # m /\ n # m /\ n # NeverUsed
      BY ImageAssumption
    <3>3. /\ im2.dir[e] = Unused(Killed)
          /\ \A d \in DirEntries : d # e => im2.dir[d] = im.dir[d]
      <4> HIDE DEF s
      <4> QED BY <2>2, <2>3
    <3> QED BY <3>1, <3>2, <3>3 DEF Unused
  <2>6. \A d \in DirEntries : im2.dir[d].name \in {m, NeverUsed} <=> im.dir[d].name \in {m, NeverUsed}
    BY <2>4, <2>5
  <2>7. \A d \in DirEntries : im2.dir[d].name = m <=> im.dir[d].name = m
    BY <2>4, <2>5
  <2>8. \A d \in DirEntries : \A f \in 1..(d - 1) : f \in DirEntries
    BY ImageAssumption DEF DirEntries
  <2>9. Matches(im2.dir, m) = Matches(im.dir, m)
    BY <2>6, <2>7, <2>8 DEF Matches
  <2>10. ASSUME NEW d \in Matches(im.dir, m)
         PROVE  im2.dir[d] = im.dir[d] /\ SameAlong(im, im2, ChainAt(im, d))
    <3> DEFINE t == ChainAt(im, d)
    <3>1. d \in DirEntries /\ im.dir[d].name = m /\ InUse(im.dir[d]) /\ d # e
      BY <2>4, FileOfName
    <3>2. \A g \in GranulesOf(t) : g \in Granules /\ g \notin GranulesOf(s)
      BY <2>4, <3>1, ChainOf, ChainsApart
    <3> HIDE DEF s, t
    <3>3. ASSUME NEW k \in 1..Len(t) PROVE im2.fat[t[k]] = im.fat[t[k]]
      <4>1. t[k] \in Granules /\ t[k] \notin GranulesOf(s)
        BY <3>2 DEF GranulesOf
      <4>2. F[t[k]] = im.fat[t[k]]
        BY <2>11, <4>1
      <4> QED BY <2>2, <4>2 DEF F
    <3>4. SameAlong(im, im2, t)
      BY <2>2, <3>3 DEF SameAlong
    <3> QED BY <2>5, <3>1, <3>4 DEF t
  <2> QED BY <2>9, <2>10
<1> QED BY <1>1, <1>2

-----------------------------------------------------------------------------
(* The size of a file, from the marks that addFile() computes of it. *)

LEMMA DivModOf ==
    ASSUME NEW a, a \in Nat, NEW u, u \in Nat \ {0}, NEW r, r \in 0..(u - 1),
           NEW x, x = a * u + r
    PROVE  x \div u = a /\ x % u = r
<1> DEFINE q == x \div u
           t == x % u
<1>1. a * u \in Nat /\ x \in Nat
  BY Products
<1>2. q \in Nat /\ t \in 0..(u - 1) /\ x = q * u + t
  BY <1>1
<1> HIDE DEF q, t
<1>3. q * u \in Nat
  BY <1>2, Products
<1>4. CASE a < q
  <2>1. a * u + u <= q * u
    BY <1>2, <1>4, Products
  <2> DEFINE y == a * u
             z == q * u
  <2> HIDE DEF y, z
  <2>2. y + u <= z /\ x = y + r /\ x = z + t /\ y \in Nat /\ z \in Nat
    BY <1>1, <1>2, <1>3, <2>1 DEF y, z
  <2> QED BY <1>2, <2>2
<1>5. CASE q < a
  <2>1. q * u + u <= a * u
    BY <1>2, <1>5, Products
  <2> DEFINE y == a * u
             z == q * u
  <2> HIDE DEF y, z
  <2>2. z + u <= y /\ x = y + r /\ x = z + t /\ y \in Nat /\ z \in Nat
    BY <1>1, <1>2, <1>3, <2>1 DEF y, z
  <2> QED BY <1>2, <2>2
<1>6. CASE a = q
  <2> DEFINE y == a * u
  <2> HIDE DEF y
  <2>1. x = y + r /\ x = y + t /\ y \in Nat
    BY <1>1, <1>2, <1>6 DEF y
  <2>2. r = t
    BY <1>2, <2>1
  <2> QED BY <1>6, <2>2 DEF q, t
<1> QED BY <1>2, <1>4, <1>5, <1>6

\* The units that n bytes take, and the bytes in the last of them.
LastPart(n, u) == IF n % u = 0 THEN u ELSE n % u

LEMMA Rounding ==
    ASSUME NEW n, n \in Nat \ {0}, NEW u, u \in Nat \ {0}
    PROVE  /\ RoundedUp(n, u) \in Nat \ {0}
           /\ LastPart(n, u) \in 1..u
           /\ n = (RoundedUp(n, u) - 1) * u + LastPart(n, u)
<1> DEFINE q == n \div u
           r == n % u
           x == n + u - 1
<1>1. q \in Nat /\ r \in 0..(u - 1) /\ n = q * u + r /\ q * u \in Nat
  BY Products
<1>2. (q + 1) * u = q * u + u
  BY <1>1, Products
<1>3. x = n + u - 1 /\ RoundedUp(n, u) = x \div u
  BY DEF RoundedUp
<1>4. LastPart(n, u) = IF r = 0 THEN u ELSE r
  BY DEF LastPart
<1> HIDE DEF q, r, x
<1>5. CASE r = 0
  <2>1. x = q * u + (u - 1) /\ u - 1 \in 0..(u - 1)
    BY <1>1, <1>3, <1>5
  <2>2. x \div u = q
    BY <1>1, <2>1, DivModOf
  <2>3. q # 0 /\ q - 1 \in Nat
    <3>1. n = q * u
      BY <1>1, <1>5
    <3> QED BY <1>1, <3>1
  <2>4. ((q - 1) + 1) * u = (q - 1) * u + u
    BY <2>3, Products
  <2>5. n = (q - 1) * u + u
    BY <1>1, <1>5, <2>3, <2>4
  <2> QED BY <1>1, <1>3, <1>4, <1>5, <2>2, <2>3, <2>5
<1>6. CASE r # 0
  <2>1. x = (q + 1) * u + (r - 1) /\ r - 1 \in 0..(u - 1) /\ q + 1 \in Nat
    BY <1>1, <1>2, <1>3, <1>6
  <2>2. x \div u = q + 1
    BY <2>1, DivModOf
  <2> DEFINE d == RoundedUp(n, u) - 1
  <2>3. d = q /\ RoundedUp(n, u) \in Nat \ {0} /\ LastPart(n, u) = r /\ r \in 1..u
    BY <1>1, <1>3, <1>4, <1>6, <2>2
  <2> HIDE DEF d
  <2>4. n = d * u + LastPart(n, u)
    BY <1>1, <2>3
  <2> QED BY <2>3, <2>4 DEF d
<1> QED BY <1>5, <1>6

LEMMA SizesAgree ==
    ASSUME NEW n, n \in Nat
    PROVE  /\ n = (SizeInGranules(n) - 1) * BytesPerGranule
                    + BytesInLastGranule(LastMark + SectorsInLastGranule(n), BytesInLastSector(n))
           /\ LastMark + SectorsInLastGranule(n) = LastMark => BytesInLastSector(n) = 0
<1> DEFINE B == BytesPerSector
           G == BytesPerGranule
           S == SectorsPerGranule
<1>1. B \in Nat \ {0} /\ G \in Nat \ {0} /\ S \in Nat /\ G = S * B
  BY UnitSizes
<1>2. CASE n = 0
  <2>1. 0 % G = 0 /\ 0 % B = 0
    BY <1>1
  <2>2. (0 + B - 1) \div B = 0
    <3>1. 0 + B - 1 = 0 * B + (B - 1) /\ B - 1 \in 0..(B - 1)
      BY <1>1
    <3> HIDE DEF B
    <3> QED BY <1>1, <3>1, DivModOf
  <2>3. SectorsInLastGranule(n) = 0 /\ BytesInLastSector(n) = 0 /\ SizeInGranules(n) = 1
    BY <1>2, <2>1, <2>2 DEF SectorsInLastGranule, BytesInLastSector, SizeInGranules, RoundedUp
  <2>4. BytesInLastGranule(LastMark + 0, 0) = 0 /\ (1 - 1) * G = 0
    BY <1>1 DEF BytesInLastGranule, LastMark
  <2> QED BY <1>2, <2>3, <2>4
<1>3. CASE n # 0
  <2> DEFINE m == LastPart(n, G)
             s == RoundedUp(n, G)
             c == RoundedUp(m, B)
             l == LastPart(m, B)
  <2>1. s \in Nat \ {0} /\ m \in 1..G /\ n = (s - 1) * G + m
    <3> HIDE DEF G
    <3> QED BY <1>1, <1>3, Rounding
  <2>2. c \in Nat \ {0} /\ l \in 1..B /\ m = (c - 1) * B + l
    <3> HIDE DEF m, B, G
    <3>1. m \in Nat \ {0}
      BY <1>1, <2>1
    <3> QED BY <1>1, <3>1, Rounding
  <2>3. SizeInGranules(n) = s /\ SectorsInLastGranule(n) = c
    BY <1>1, <1>3 DEF SizeInGranules, SectorsInLastGranule, LastPart
  <2>4. n % B = m % B
    <3> DEFINE a == m \div B
               r == m % B
               k == s - 1
               d == k * S
    <3> HIDE DEF m, s, c, l
    <3>1. m \in Nat /\ a \in Nat /\ r \in 0..(B - 1) /\ m = a * B + r /\ k \in Nat
      BY <1>1, <2>1
    <3> HIDE DEF a, r, k, B, S, G
    <3>2. k * G = d * B /\ d \in Nat /\ d + a \in Nat
      <4>1. k * (S * B) = (k * S) * B
        BY <1>1, <3>1
      <4> QED BY <1>1, <3>1, <4>1, Products
    <3> HIDE DEF d
    <3>3. (d + a) * B = d * B + a * B
      BY <1>1, <3>1, <3>2
    <3>4. d * B \in Nat /\ a * B \in Nat
      BY <1>1, <3>1, <3>2, Products
    <3>5. n = (d + a) * B + r
      <4>1. n = k * G + m
        BY <2>1 DEF k
      <4> QED BY <1>1, <3>1, <3>2, <3>3, <3>4, <4>1
    <3>6. n % B = r
      BY <1>1, <3>1, <3>2, <3>5, DivModOf
    <3> QED BY <3>6 DEF r
  <2>5. BytesInLastSector(n) = l
    BY <1>1, <1>3, <2>4 DEF BytesInLastSector, LastPart
  <2> HIDE DEF m, s, c, l
  <2>6. BytesInLastGranule(LastMark + c, l) = m
    <3> DEFINE mark == LastMark + c
               a == mark - LastMark - 1
    <3>1. mark # LastMark /\ a = c - 1
      BY <2>2 DEF LastMark
    <3>2. BytesInLastGranule(mark, l) = a * B + l
      <4> HIDE DEF mark, B
      <4> QED BY <3>1 DEF BytesInLastGranule, B
    <3> HIDE DEF a
    <3>3. a * B + l = m
      BY <2>2, <3>1
    <3> QED BY <3>2, <3>3
  <2>7. LastMark + c # LastMark
    BY <2>2 DEF LastMark
  <2> QED BY <2>1, <2>3, <2>5, <2>6, <2>7
<1> QED BY <1>2, <1>3

-----------------------------------------------------------------------------
(* Counting granules. *)

LEMMA GranulesFinite ==
    /\ IsFiniteSet(Granules) /\ Cardinality(Granules) = NumGranules /\ NumGranules \in Nat
    /\ \A fat : IsFiniteSet(FreeGranules(fat)) /\ Cardinality(FreeGranules(fat)) \in Nat
<1>1. NumGranules \in Nat \ {0}
  BY UnitSizes
<1>2. 0 \in Int /\ NumGranules - 1 \in Int /\ ~(0 > NumGranules - 1)
  BY <1>1
<1>3. /\ IsFiniteSet(0..(NumGranules - 1))
      /\ Cardinality(0..(NumGranules - 1)) = (NumGranules - 1) - 0 + 1
  BY <1>2, FS_Interval
<1>4. IsFiniteSet(Granules) /\ Cardinality(Granules) = NumGranules
  BY <1>1, <1>3 DEF Granules
<1>5. ASSUME NEW fat PROVE IsFiniteSet(FreeGranules(fat)) /\ Cardinality(FreeGranules(fat)) \in Nat
  <2>1. FreeGranules(fat) \in SUBSET Granules
    BY DEF FreeGranules
  <2>2. IsFiniteSet(FreeGranules(fat))
    BY <1>4, <2>1, FS_Subset
  <2> QED BY <2>2, FS_CardinalityType
<1> QED BY <1>1, <1>4, <1>5

\* A sequence of different granules has as many of them as it is long.
LEMMA CountGranules ==
    ASSUME NEW s \in Seq(Granules), \A j, k \in 1..Len(s) : s[j] = s[k] => j = k
    PROVE  /\ IsFiniteSet(GranulesOf(s)) /\ Cardinality(GranulesOf(s)) = Len(s)
           /\ Len(s) <= NumGranules
<1> DEFINE D == 1..Len(s)
           T == GranulesOf(s)
<1>1. Len(s) \in Nat /\ s \in [D -> Granules] /\ 1 \in Int /\ Len(s) \in Int
  OBVIOUS
<1>2. IsFiniteSet(D) /\ Cardinality(D) = Len(s)
  <2>1. IsFiniteSet(D) /\ Cardinality(D) = IF 1 > Len(s) THEN 0 ELSE Len(s) - 1 + 1
    BY <1>1, FS_Interval
  <2> QED BY <1>1, <2>1
<1>3. s \in [D -> T] /\ T \subseteq Granules
  BY <1>1 DEF GranulesOf
<1>4. s \in Injection(D, T)
  BY <1>3 DEF Injection, IsInjective
<1>5. s \in Surjection(D, T)
  BY <1>3 DEF Surjection, GranulesOf
<1>6. ExistsBijection(D, T)
  <2>1. s \in Bijection(D, T)
    BY <1>4, <1>5 DEF Bijection
  <2> QED BY <2>1 DEF ExistsBijection
<1> HIDE DEF D, T
<1>7. IsFiniteSet(T) /\ Cardinality(T) = Cardinality(D)
  BY <1>2, <1>6, FS_Bijection
<1>8. Cardinality(T) <= Cardinality(Granules)
  <2>1. T \in SUBSET Granules
    BY <1>3
  <2> QED BY <2>1, GranulesFinite, FS_Subset
<1> QED BY <1>2, <1>7, <1>8, GranulesFinite DEF T

-----------------------------------------------------------------------------
(* Adding a file. *)

\* What has become of the image.
AddedTo(im, im2, e, n, s, bytes) ==
    /\ im2 \in Image
    /\ Len(s) \in Nat \ {0}
    /\ im2.dir[e] = [name |-> n, gran |-> s[1], lastBytes |-> BytesInLastSector(Len(bytes))]
    /\ \A d \in DirEntries : d # e => im2.dir[d] = im.dir[d]
    /\ \A g \in Granules : g \notin GranulesOf(s) => im2.fat[g] = im.fat[g] /\ im2.gran[g] = im.gran[g]
    /\ IsChain(im2.fat, s[1], s)
    /\ im2.fat[s[Len(s)]] = LastMark + SectorsInLastGranule(Len(bytes))
    /\ GranulesOf(s) \subseteq FreeGranules(im.fat)
    /\ FreeGranules(im2.fat) = FreeGranules(im.fat) \ GranulesOf(s)

LEMMA Added ==
    ASSUME NEW im, NEW e, NEW n, NEW s, NEW bytes, Addition(im, e, n, s, bytes),
           NEW im2, im2 = WithFile(im, e, n, s, bytes)
    PROVE  AddedTo(im, im2, e, n, s, bytes)
<1>1. /\ im \in Image /\ e \in DirEntries /\ n \in DirNames /\ bytes \in Seq(Bytes)
      /\ s \in Seq(Granules) /\ Ascending(s) /\ Len(s) = SizeInGranules(Len(bytes))
      /\ \A k \in 1..Len(s) : im.fat[s[k]] = FreeFatEntry
  BY DEF Addition
<1> DEFINE size == Len(bytes)
<1>2. size \in Nat /\ Len(s) \in Nat \ {0} /\ Len(s) > 0
  <2>1. size \in Nat
    BY <1>1
  <2> HIDE DEF size
  <2>2. SizeInGranules(size) \in Nat \ {0}
    BY <2>1, Sizes
  <2> QED BY <1>1, <2>1, <2>2 DEF size
<1>3. im2 \in Image
  BY <1>1, <1>2, WithFileTyped
<1>4. /\ im2.fat = Linked(im.fat, s, size) /\ im2.gran = Stored(im.gran, s, bytes)
      /\ im2.dir = [im.dir EXCEPT ![e] = [name |-> n, gran |-> s[1], lastBytes |-> BytesInLastSector(Len(bytes))]]
  BY DEF WithFile
<1>5. im.fat \in [Granules -> 0..255] /\ im.dir \in [DirEntries -> Entry]
  BY <1>1 DEF Image
<1>6. /\ im2.dir[e] = [name |-> n, gran |-> s[1], lastBytes |-> BytesInLastSector(Len(bytes))]
      /\ \A d \in DirEntries : d # e => im2.dir[d] = im.dir[d]
  BY <1>1, <1>4, <1>5
<1> DEFINE F == im2.fat
<1>7. /\ \A k \in 1..Len(s) : F[s[k]] = IF k = Len(s) THEN LastMark + SectorsInLastGranule(size)
                                        ELSE s[k + 1]
      /\ \A g \in Granules : (\A k \in 1..Len(s) : s[k] # g) => F[g] = im.fat[g]
  <2> DEFINE A == im.fat
  <2>1. A \in [Granules -> 0..255] /\ s \in Seq(Granules) /\ Ascending(s) /\ size \in Nat /\ F = Linked(A, s, size)
    BY <1>1, <1>2, <1>4, <1>5
  <2> HIDE DEF size, F, A
  <2>2. /\ \A k \in 1..Len(s) : Linked(A, s, size)[s[k]] = IF k = Len(s) THEN LastMark + SectorsInLastGranule(size)
                                                            ELSE s[k + 1]
        /\ \A g \in Granules : (\A k \in 1..Len(s) : s[k] # g) => Linked(A, s, size)[g] = A[g]
    <3>1. \A k \in 1..Len(s) : Linked(A, s, size)[s[k]] = IF k = Len(s)
                                                            THEN LastMark + SectorsInLastGranule(size)
                                                            ELSE s[k + 1]
      BY <2>1, LinkedAt
    <3>2. \A g \in Granules : (\A k \in 1..Len(s) : s[k] # g) => Linked(A, s, size)[g] = A[g]
      BY <2>1, LinkedAt
    <3> QED BY <3>1, <3>2
  <2> QED BY <2>1, <2>2 DEF A
<1>8. \A g \in Granules : g \notin GranulesOf(s) => im2.gran[g] = im.gran[g]
  <2> SUFFICES ASSUME NEW g \in Granules, g \notin GranulesOf(s) PROVE im2.gran[g] = im.gran[g]
    OBVIOUS
  <2>1. ~ \E k \in 1..Len(s) : s[k] = g
    BY DEF GranulesOf
  <2> QED BY <1>4, <2>1 DEF Stored
<1>9. \A g \in Granules : g \notin GranulesOf(s) => im2.fat[g] = im.fat[g]
  <2> HIDE DEF F
  <2>1. \A g \in Granules : g \notin GranulesOf(s) => F[g] = im.fat[g]
    BY <1>7 DEF GranulesOf
  <2> QED BY <2>1 DEF F
<1>10. /\ \A j, k \in 1..Len(s) : s[j] = s[k] => j = k
       /\ \A k \in 1..Len(s) : s[k] \in Granules
       /\ Len(s) \in 1..NumGranules
  <2>1. \A j, k \in 1..Len(s) : s[j] = s[k] => j = k
    BY <1>1, AscendingInjective
  <2>2. Len(s) <= NumGranules
    BY <1>1, <2>1, CountGranules
  <2> QED BY <1>1, <1>2, <2>1, <2>2, UnitSizes
<1>11. im2.fat[s[Len(s)]] = LastMark + SectorsInLastGranule(size) /\ IsLast(im2.fat[s[Len(s)]])
  <2>1. F[s[Len(s)]] = LastMark + SectorsInLastGranule(size)
    BY <1>2, <1>7
  <2>2. SectorsInLastGranule(size) \in 0..SectorsPerGranule
    <3> HIDE DEF size
    <3> QED BY <1>2, Sizes
  <2>3. IsLast(LastMark + SectorsInLastGranule(size))
    BY <2>2, LastMarkOf
  <2> QED BY <2>1, <2>3
<1>12. \A k \in 1..(Len(s) - 1) : im2.fat[s[k]] = s[k + 1] /\ IsLink(im2.fat[s[k]])
  <2> SUFFICES ASSUME NEW k \in 1..(Len(s) - 1)
               PROVE  im2.fat[s[k]] = s[k + 1] /\ IsLink(im2.fat[s[k]])
    OBVIOUS
  <2>1. k \in 1..Len(s) /\ k # Len(s) /\ k + 1 \in 1..Len(s)
    BY <1>2
  <2>2. F[s[k]] = s[k + 1] /\ s[k + 1] \in Granules
    BY <1>7, <1>10, <2>1
  <2> QED BY <2>2, LinkMarks
<1>13. IsChain(im2.fat, s[1], s)
  BY <1>1, <1>10, <1>11, <1>12 DEF IsChain
<1>14. GranulesOf(s) \subseteq FreeGranules(im.fat)
  BY <1>1, <1>10 DEF GranulesOf, FreeGranules
<1>15. \A k \in 1..Len(s) : im2.fat[s[k]] # FreeFatEntry
  <2> SUFFICES ASSUME NEW k \in 1..Len(s) PROVE im2.fat[s[k]] # FreeFatEntry
    OBVIOUS
  <2>1. CASE k = Len(s)
    BY <1>11, <2>1, Marks
  <2>2. CASE k # Len(s)
    <3>1. k \in 1..(Len(s) - 1)
      BY <1>2, <2>2
    <3>2. IsLink(im2.fat[s[k]])
      BY <1>12, <3>1
    <3> QED BY <3>2, Marks
  <2> QED BY <2>1, <2>2
<1>16. FreeGranules(im2.fat) = FreeGranules(im.fat) \ GranulesOf(s)
  <2> HIDE DEF F, size
  <2>1. \A g \in Granules : im2.fat[g] = FreeFatEntry <=> im.fat[g] = FreeFatEntry /\ g \notin GranulesOf(s)
    BY <1>9, <1>15 DEF GranulesOf
  <2> QED BY <2>1 DEF FreeGranules
<1> QED BY <1>2, <1>3, <1>6, <1>8, <1>9, <1>11, <1>13, <1>14, <1>16 DEF AddedTo

LEMMA AddedLeaves ==
    ASSUME NEW im, NEW e, NEW n, NEW s, NEW bytes, Addition(im, e, n, s, bytes),
           NEW im2, im2 = WithFile(im, e, n, s, bytes), Sound(im2.fat, im2.dir)
    PROVE  /\ Matches(im.dir, n) = {} /\ Matches(im2.dir, n) = {e}
           /\ ChainAt(im2, e) = s
           /\ Leaves(im, im2, n)
<1>1. /\ im \in Image /\ Sound(im.fat, im.dir) /\ e \in DirEntries /\ ~InUse(im.dir[e]) /\ n \in DirNames
      /\ \A d \in DirEntries : im.dir[d].name # n
      /\ s \in Seq(Granules) /\ \A k \in 1..Len(s) : im.fat[s[k]] = FreeFatEntry
  BY DEF Addition
<1>2. /\ im2 \in Image /\ IsChain(im2.fat, s[1], s)
      /\ im2.dir[e].name = n /\ im2.dir[e].gran = s[1]
      /\ \A d \in DirEntries : d # e => im2.dir[d] = im.dir[d]
      /\ \A g \in Granules : g \notin GranulesOf(s) => im2.fat[g] = im.fat[g] /\ im2.gran[g] = im.gran[g]
  <2>1. AddedTo(im, im2, e, n, s, bytes)
    BY Added
  <2> QED BY <2>1 DEF AddedTo
<1>3. im.dir \in [DirEntries -> Entry] /\ im2.dir \in [DirEntries -> Entry]
  BY <1>1, <1>2 DEF Image
<1>4. Matches(im.dir, n) = {} /\ Matches(im2.dir, n) = {e}
  BY <1>1, <1>2, <1>3, EntryOfName DEF Matches
<1>5. ChainAt(im2, e) = s
  <2>1. InUse(im2.dir[e])
    BY <1>1, <1>2 DEF InUse
  <2>2. IsChain(im2.fat, s[1], ChainAt(im2, e))
    BY <1>1, <1>2, <2>1, ChainOf
  <2> QED BY <1>2, <2>2, OneChain
<1>6. ASSUME NEW m \in DirNames \ {n}
      PROVE  /\ Matches(im2.dir, m) = Matches(im.dir, m)
             /\ \A d \in Matches(im.dir, m) :
                    im2.dir[d] = im.dir[d] /\ SameAlong(im, im2, ChainAt(im, d))
  <2>1. \A d \in DirEntries : im2.dir[d].name = m <=> im.dir[d].name = m
    BY <1>1, <1>2 DEF InUse
  <2>2. /\ Matches(im.dir, m) = {d \in DirEntries : im.dir[d].name = m}
        /\ Matches(im2.dir, m) = {d \in DirEntries : im2.dir[d].name = m}
    BY <1>1, <1>3, EntriesByName
  <2>3. Matches(im2.dir, m) = Matches(im.dir, m)
    BY <2>1, <2>2
  <2>4. ASSUME NEW d \in Matches(im.dir, m)
        PROVE  im2.dir[d] = im.dir[d] /\ SameAlong(im, im2, ChainAt(im, d))
    <3>1. d \in DirEntries /\ InUse(im.dir[d]) /\ d # e
      BY <1>1, FileOfName
    <3> DEFINE t == ChainAt(im, d)
    <3>2. \A g \in GranulesOf(t) : g \in Granules /\ im.fat[g] # FreeFatEntry
      BY <1>1, <3>1, ChainOf
    <3> HIDE DEF t
    <3>3. \A k \in 1..Len(t) : t[k] \in Granules /\ t[k] \notin GranulesOf(s)
      BY <1>1, <3>2 DEF GranulesOf
    <3>4. SameAlong(im, im2, t)
      BY <1>2, <3>3 DEF SameAlong
    <3> QED BY <1>2, <3>1, <3>4 DEF t
  <2> QED BY <2>3, <2>4
<1> QED BY <1>4, <1>5, <1>6 DEF Leaves

LEMMA StoredAt ==
    ASSUME NEW gran, NEW s \in Seq(Granules), \A j, k \in 1..Len(s) : s[j] = s[k] => j = k,
           NEW bytes, NEW k \in 1..Len(s), NEW b \in 1..BytesPerGranule,
           NEW at, at = (k - 1) * BytesPerGranule + b, at <= Len(bytes)
    PROVE  Stored(gran, s, bytes)[s[k]][b] = bytes[at]
<1>1. s[k] \in Granules
  OBVIOUS
<1>2. (CHOOSE j \in 1..Len(s) : s[j] = s[k]) = k
  OBVIOUS
<1> QED BY <1>1, <1>2 DEF Stored

\* The bytes of the file added are those that were given.
LEMMA FileAdded ==
    ASSUME NEW im, NEW e, NEW n, NEW s, NEW bytes, Addition(im, e, n, s, bytes),
           NEW im2, im2 = WithFile(im, e, n, s, bytes), Sound(im2.fat, im2.dir)
    PROVE  FileContents(im2, e) = bytes /\ FilesOf(im2)[n] = bytes
<1> DEFINE size == Len(bytes)
           l == BytesInLastSector(size)
           L == Len(s)
           G == BytesPerGranule
           z == BytesInLastGranule(im2.fat[s[Len(s)]], l)
           f == FileFrom(im2, s[1], l)
<1>1. AddedTo(im, im2, e, n, s, bytes)
  BY Added
<1>2. /\ e \in DirEntries /\ n \in DirNames /\ bytes \in Seq(Bytes)
      /\ s \in Seq(Granules) /\ Ascending(s) /\ Len(s) = SizeInGranules(Len(bytes))
  BY DEF Addition
<1>3. /\ im2 \in Image /\ IsChain(im2.fat, s[1], s) /\ L \in Nat \ {0}
      /\ im2.fat[s[Len(s)]] = LastMark + SectorsInLastGranule(size)
      /\ im2.dir[e] = [name |-> n, gran |-> s[1], lastBytes |-> l]
  BY <1>1 DEF AddedTo
<1>4. size \in Nat /\ l \in 0..BytesPerSector
  <2>1. size \in Nat
    BY <1>2
  <2> HIDE DEF size
  <2> QED BY <2>1, Sizes
<1>5. size = (L - 1) * G + z
  <2>1. size = (SizeInGranules(size) - 1) * BytesPerGranule
                 + BytesInLastGranule(LastMark + SectorsInLastGranule(size), BytesInLastSector(size))
    <3> HIDE DEF size
    <3> QED BY <1>4, SizesAgree
  <2> QED BY <1>2, <1>3, <2>1
<1>6. FileContents(im2, e) = f
  BY <1>3 DEF FileContents
<1>7. /\ f \in Seq(Bytes) /\ Len(f) = size
      /\ \A q \in 0..(L - 1) : \A r \in 1..G : q * G + r <= size => f[q * G + r] = im2.gran[s[q + 1]][r]
  <2> DEFINE c == im2.fat[s[Len(s)]]
  <2>1. size = (Len(s) - 1) * BytesPerGranule + BytesInLastGranule(im2.fat[s[Len(s)]], l)
    BY <1>5
  <2>2. f = FileFrom(im2, s[1], l)
    OBVIOUS
  <2> HIDE DEF size, l, f
  <2> QED BY <1>3, <1>4, <2>1, <2>2, FileOfChain
<1>8. z \in 0..G
  <2>1. IsLast(im2.fat[s[Len(s)]])
    BY <1>3 DEF IsChain
  <2> HIDE DEF l
  <2> QED BY <1>4, <2>1, LastGranuleFits
<1>9. im2.gran = Stored(im.gran, s, bytes)
  BY DEF WithFile
<1>10. \A j, k \in 1..Len(s) : s[j] = s[k] => j = k
  BY <1>2, AscendingInjective
<1>11. ASSUME NEW i \in 1..size PROVE f[i] = bytes[i]
  <2> HIDE DEF size, f, z
  <2>1. InGranules(i, L)
    <3> HIDE DEF L
    <3> QED BY <1>3, <1>5, <1>8, <1>11, ByteInGranules
  <2>2. PICK q \in 0..(L - 1), r \in 1..G : i = q * G + r
    BY <2>1 DEF InGranules
  <2>3. f[i] = im2.gran[s[q + 1]][r]
    BY <1>4, <1>7, <1>11, <2>2
  <2> DEFINE k == q + 1
  <2>4. k \in 1..Len(s) /\ i = (k - 1) * BytesPerGranule + r /\ i <= Len(bytes)
    <3>1. k \in 1..Len(s) /\ k - 1 = q
      BY <1>3, <2>2
    <3> QED BY <1>4, <1>11, <2>2, <3>1 DEF size
  <2> HIDE DEF k
  <2>5. Stored(im.gran, s, bytes)[s[k]][r] = bytes[i]
    BY <1>2, <1>10, <2>2, <2>4, StoredAt
  <2> QED BY <1>9, <2>3, <2>5 DEF k
<1> HIDE DEF f, l, z, L
<1>12. f = bytes
  BY <1>2, <1>4, <1>7, <1>11, SeqEqual
<1>13. Matches(im2.dir, n) = {e}
  BY AddedLeaves
<1> QED BY <1>2, <1>6, <1>12, <1>13 DEF FilesOf

-----------------------------------------------------------------------------
(* Tidy images stay tidy. *)

LEMMA OthersTidy ==
    ASSUME NEW im \in Image, Sound(im.fat, im.dir), NEW im2 \in Image, Sound(im2.fat, im2.dir),
           NEW n, Leaves(im, im2, n), Tidy(im),
           NEW d \in DirEntries, im2.dir[d].name \in DirNames \ {n}
    PROVE  TidyFile(im2, d)
<1> DEFINE s == ChainAt(im, d)
<1>1. /\ InUse(im.dir[d]) /\ im2.dir[d] = im.dir[d]
      /\ ChainAt(im2, d) = s /\ SameAlong(im, im2, s) /\ FileContents(im2, d) = FileContents(im, d)
  BY LeavesChains
<1>2. TidyFile(im, d) /\ IsChain(im.fat, im.dir[d].gran, s)
  BY <1>1, ChainOf DEF Tidy
<1> HIDE DEF s
<1>3. im2.fat[s[Len(s)]] = im.fat[s[Len(s)]]
  BY <1>1, <1>2, ChainRange DEF SameAlong
<1> QED BY <1>1, <1>2, <1>3 DEF TidyFile, s

\* A granule of another file is one of it afterwards.
LEMMA OthersKeep ==
    ASSUME NEW im \in Image, Sound(im.fat, im.dir), NEW im2 \in Image, Sound(im2.fat, im2.dir),
           NEW n, Leaves(im, im2, n), NEW g,
           NEW d \in DirEntries, InUse(im.dir[d]), im.dir[d].name # n, g \in GranulesOf(ChainAt(im, d))
    PROVE  InAFile(im2, g)
<1> DEFINE m == im.dir[d].name
<1>1. m \in DirNames \ {n}
  BY DEF InUse
<1>2. d \in Matches(im.dir, m)
  BY <1>1, EntryOfName DEF Image
<1>3. im2.dir[d] = im.dir[d]
  BY <1>1, <1>2 DEF Leaves
<1>4. ChainAt(im2, d) = ChainAt(im, d)
  BY <1>1, <1>3, LeavesChains
<1> QED BY <1>3, <1>4 DEF InAFile

LEMMA RemovedTidy ==
    ASSUME NEW im \in Image, Sound(im.fat, im.dir), Tidy(im), NEW n \in DirNames,
           NEW im2, im2 = WithoutFile(im, n), Sound(im2.fat, im2.dir)
    PROVE  im2 \in Image /\ Tidy(im2)
<1>1. CASE Matches(im.dir, n) = {}
  BY <1>1 DEF WithoutFile
<1>2. CASE Matches(im.dir, n) # {}
  <2>1. PICK e \in DirEntries : e \in Matches(im.dir, n)
    BY <1>2 DEF Matches
  <2> DEFINE s == ChainAt(im, e)
  <2>2. /\ im2.fat = Freed(im.fat, GranulesOf(s)) /\ im2.dir = [im.dir EXCEPT ![e] = Unused(Killed)]
        /\ im2 \in Image
        /\ FreeGranules(im2.fat) = FreeGranules(im.fat) \cup GranulesOf(s)
    BY <2>1, Removed
  <2>3. im.dir[e].name = n /\ im.dir \in [DirEntries -> Entry]
    BY <2>1, FileOfName DEF Image
  <2>4. im2.dir[e] = Unused(Killed) /\ \A d \in DirEntries : d # e => im2.dir[d] = im.dir[d]
    <3> HIDE DEF s
    <3> QED BY <2>2, <2>3
  <2>5. ~InUse(im2.dir[e])
    BY <2>4, ImageAssumption DEF InUse, Unused
  <2>6. Leaves(im, im2, n)
    BY RemovalLeaves
  <2> HIDE DEF s
  <2>7. \A d \in DirEntries : (InUse(im.dir[d]) /\ d # e) => im.dir[d].name # n
    BY <2>3 DEF Sound, DistinctNames, InUse
  <2>8. ASSUME NEW d \in DirEntries, InUse(im2.dir[d]) PROVE TidyFile(im2, d)
    <3>1. im2.dir[d].name \in DirNames \ {n}
      BY <2>4, <2>5, <2>7, <2>8 DEF InUse
    <3> QED BY <2>2, <2>6, <3>1, OthersTidy
  <2>9. ASSUME NEW g \in Granules \ BootGranules, im2.fat[g] # FreeFatEntry PROVE InAFile(im2, g)
    <3>1. g \notin GranulesOf(s) /\ im.fat[g] # FreeFatEntry
      BY <2>2, <2>9 DEF FreeGranules
    <3>2. PICK d \in DirEntries : InUse(im.dir[d]) /\ g \in GranulesOf(ChainAt(im, d))
      BY <3>1 DEF Tidy, InAFile
    <3>3. d # e
      BY <3>1, <3>2 DEF s
    <3> QED BY <2>2, <2>6, <2>7, <3>2, <3>3, OthersKeep
  <2> QED BY <2>2, <2>8, <2>9 DEF Tidy
<1> QED BY <1>1, <1>2

LEMMA AddedTidy ==
    ASSUME NEW im, NEW e, NEW n, NEW s, NEW bytes, Addition(im, e, n, s, bytes), Tidy(im),
           NEW im2, im2 = WithFile(im, e, n, s, bytes), Sound(im2.fat, im2.dir)
    PROVE  im2 \in Image /\ Tidy(im2)
<1>1. /\ im \in Image /\ Sound(im.fat, im.dir) /\ e \in DirEntries /\ ~InUse(im.dir[e]) /\ n \in DirNames
      /\ \A d \in DirEntries : im.dir[d].name # n
      /\ bytes \in Seq(Bytes) /\ Len(s) = SizeInGranules(Len(bytes))
  BY DEF Addition
<1>2. AddedTo(im, im2, e, n, s, bytes)
  BY Added
<1>3. /\ im2 \in Image
      /\ im2.dir[e] = [name |-> n, gran |-> s[1], lastBytes |-> BytesInLastSector(Len(bytes))]
      /\ \A d \in DirEntries : d # e => im2.dir[d] = im.dir[d]
      /\ im2.fat[s[Len(s)]] = LastMark + SectorsInLastGranule(Len(bytes))
      /\ FreeGranules(im2.fat) = FreeGranules(im.fat) \ GranulesOf(s)
  BY <1>2 DEF AddedTo
<1>4. ChainAt(im2, e) = s /\ Leaves(im, im2, n)
  BY AddedLeaves
<1>5. FileContents(im2, e) = bytes
  BY FileAdded
<1>6. InUse(im2.dir[e])
  BY <1>1, <1>3 DEF InUse
<1>7. TidyFile(im2, e)
  <2> DEFINE size == Len(bytes)
  <2>1. size \in Nat
    BY <1>1
  <2>2. LastMark + SectorsInLastGranule(size) = LastMark => BytesInLastSector(size) = 0
    <3> HIDE DEF size
    <3> QED BY <2>1, SizesAgree
  <2>3. im2.dir[e].lastBytes = BytesInLastSector(size)
    BY <1>3
  <2> QED BY <1>1, <1>3, <1>4, <1>5, <2>2, <2>3 DEF TidyFile
<1>8. ASSUME NEW d \in DirEntries, InUse(im2.dir[d]), d # e PROVE TidyFile(im2, d)
  <2>1. im2.dir[d].name \in DirNames \ {n}
    BY <1>1, <1>3, <1>8 DEF InUse
  <2> QED BY <1>1, <1>3, <1>4, <2>1, OthersTidy
<1>9. ASSUME NEW g \in Granules \ BootGranules, im2.fat[g] # FreeFatEntry PROVE InAFile(im2, g)
  <2>1. CASE g \in GranulesOf(s)
    BY <1>1, <1>4, <1>6, <2>1 DEF InAFile
  <2>2. CASE g \notin GranulesOf(s)
    <3>1. im.fat[g] # FreeFatEntry
      BY <1>3, <1>9, <2>2 DEF FreeGranules
    <3>2. PICK d \in DirEntries : InUse(im.dir[d]) /\ g \in GranulesOf(ChainAt(im, d))
      BY <3>1 DEF Tidy, InAFile
    <3> QED BY <1>1, <1>3, <1>4, <3>2, OthersKeep
  <2> QED BY <2>1, <2>2
<1> QED BY <1>3, <1>7, <1>8, <1>9 DEF Tidy

-----------------------------------------------------------------------------
(* What removing and adding do to the store. *)

LEMMA StoreRemoved ==
    ASSUME NEW im \in Image, Sound(im.fat, im.dir), Tidy(im), None \notin Seq(Bytes), NEW n \in DirNames,
           NEW im2, im2 = WithoutFile(im, n), Sound(im2.fat, im2.dir)
    PROVE  /\ FilesOf(im2) = [FilesOf(im) EXCEPT ![n] = None]
           /\ Cardinality(FreeGranules(im2.fat))
                = Cardinality(FreeGranules(im.fat))
                    + IF FilesOf(im)[n] = None THEN 0 ELSE SizeInGranules(Len(FilesOf(im)[n]))
           /\ \A d \in DirEntries : im2.dir[d].name # n
<1>1. CASE Matches(im.dir, n) = {}
  <2>1. im2 = im /\ FilesOf(im)[n] = None
    BY <1>1, FileOfName DEF WithoutFile
  <2>2. Cardinality(FreeGranules(im.fat)) \in Nat
    BY GranulesFinite
  <2>3. \A d \in DirEntries : im.dir[d].name # n
    BY <1>1, SearchIsComplete DEF Image
  <2>4. FilesOf(im) = [FilesOf(im) EXCEPT ![n] = None]
    <3> DEFINE f == FilesOf(im)
    <3>1. f = [m \in DirNames |-> f[m]] /\ f[n] = None
      BY <2>1 DEF FilesOf
    <3> HIDE DEF f
    <3> QED BY <3>1 DEF f
  <2> QED BY <2>1, <2>2, <2>3, <2>4
<1>2. CASE Matches(im.dir, n) # {}
  <2>1. PICK e \in DirEntries : e \in Matches(im.dir, n)
    BY <1>2 DEF Matches
  <2> DEFINE s == ChainAt(im, e)
  <2>2. /\ im2.dir = [im.dir EXCEPT ![e] = Unused(Killed)] /\ im2 \in Image
        /\ FreeGranules(im2.fat) = FreeGranules(im.fat) \cup GranulesOf(s)
        /\ FreeGranules(im.fat) \cap GranulesOf(s) = {}
    BY <2>1, Removed
  <2>3. /\ im.dir[e].name = n /\ InUse(im.dir[e]) /\ im.dir \in [DirEntries -> Entry]
        /\ FilesOf(im)[n] = FileContents(im, e) /\ FilesOf(im)[n] \in Seq(Bytes)
    BY <2>1, FileOfName DEF Image
  <2>4. IsChain(im.fat, im.dir[e].gran, s) /\ TidyFile(im, e)
    BY <2>3, ChainOf DEF Tidy
  <2>5. im2.dir[e] = Unused(Killed) /\ \A d \in DirEntries : d # e => im2.dir[d] = im.dir[d]
    <3> HIDE DEF s
    <3> QED BY <2>2, <2>3
  <2>6. \A d \in DirEntries : im2.dir[d].name # n
    BY <2>3, <2>5, ImageAssumption DEF Sound, DistinctNames, Unused
  <2>7. FilesOf(im2)[n] = None
    BY <2>6 DEF FilesOf, Matches
  <2>8. \A m \in DirNames \ {n} : FilesOf(im2)[m] = FilesOf(im)[m]
    BY <2>2, RemovalLeaves, OthersStay
  <2>9. FilesOf(im2) = [FilesOf(im) EXCEPT ![n] = None]
    BY <2>7, <2>8 DEF FilesOf
  <2>10. Len(s) = SizeInGranules(Len(FilesOf(im)[n])) /\ FilesOf(im)[n] # None
    BY <2>3, <2>4 DEF TidyFile
  <2> HIDE DEF s
  <2>11. IsFiniteSet(GranulesOf(s)) /\ Cardinality(GranulesOf(s)) = Len(s) /\ Len(s) \in Nat
    BY <2>4, CountGranules DEF IsChain
  <2>12. Cardinality(FreeGranules(im2.fat)) = Cardinality(FreeGranules(im.fat)) + Len(s)
    <3> DEFINE F == FreeGranules(im.fat)
               T == GranulesOf(s)
    <3>1. IsFiniteSet(F) /\ Cardinality(F) \in Nat
      BY GranulesFinite
    <3>2. IsFiniteSet(T) /\ F \cap T = {} /\ FreeGranules(im2.fat) = F \cup T /\ Cardinality(T) = Len(s)
      BY <2>2, <2>11
    <3> HIDE DEF F, T
    <3>3. Cardinality(F \cup T) = Cardinality(F) + Cardinality(T) - Cardinality(F \cap T)
      BY <3>1, <3>2, FS_Union
    <3>4. Cardinality(F \cap T) = 0
      BY <3>2, FS_EmptySet
    <3> QED BY <2>11, <3>1, <3>2, <3>3, <3>4 DEF F
  <2> QED BY <2>6, <2>9, <2>10, <2>12
<1> QED BY <1>1, <1>2

LEMMA StoreAdded ==
    ASSUME NEW im, NEW e, NEW n, NEW s, NEW bytes, Addition(im, e, n, s, bytes),
           NEW im2, im2 = WithFile(im, e, n, s, bytes), Sound(im2.fat, im2.dir)
    PROVE  /\ FilesOf(im2) = [FilesOf(im) EXCEPT ![n] = bytes]
           /\ Cardinality(FreeGranules(im2.fat))
                = Cardinality(FreeGranules(im.fat)) - SizeInGranules(Len(bytes))
           /\ SizeInGranules(Len(bytes)) <= Cardinality(FreeGranules(im.fat))
<1>1. /\ im \in Image /\ Sound(im.fat, im.dir) /\ n \in DirNames
      /\ s \in Seq(Granules) /\ Ascending(s) /\ Len(s) = SizeInGranules(Len(bytes))
  BY DEF Addition
<1>2. AddedTo(im, im2, e, n, s, bytes)
  BY Added
<1>3. /\ im2 \in Image /\ GranulesOf(s) \subseteq FreeGranules(im.fat)
      /\ FreeGranules(im2.fat) = FreeGranules(im.fat) \ GranulesOf(s)
  BY <1>2 DEF AddedTo
<1>4. Leaves(im, im2, n) /\ FilesOf(im2)[n] = bytes
  BY AddedLeaves, FileAdded
<1>5. \A m \in DirNames \ {n} : FilesOf(im2)[m] = FilesOf(im)[m]
  BY <1>1, <1>3, <1>4, OthersStay
<1>6. FilesOf(im2) = [FilesOf(im) EXCEPT ![n] = bytes]
  BY <1>4, <1>5 DEF FilesOf
<1>7. IsFiniteSet(GranulesOf(s)) /\ Cardinality(GranulesOf(s)) = Len(s) /\ Len(s) \in Nat
  BY <1>1, AscendingInjective, CountGranules
<1> DEFINE F == FreeGranules(im.fat)
           T == GranulesOf(s)
           R == FreeGranules(im2.fat)
<1>8. /\ IsFiniteSet(F) /\ Cardinality(F) \in Nat /\ IsFiniteSet(R) /\ Cardinality(R) \in Nat
  BY GranulesFinite
<1>9. R \cup T = F /\ R \cap T = {} /\ Cardinality(T) = Len(s) /\ IsFiniteSet(T)
  BY <1>3, <1>7
<1> HIDE DEF F, T, R
<1>10. Cardinality(R \cup T) = Cardinality(R) + Cardinality(T) - Cardinality(R \cap T)
  BY <1>8, <1>9, FS_Union
<1>11. Cardinality(R \cap T) = 0
  BY <1>9, FS_EmptySet
<1>12. Cardinality(F) = Cardinality(R) + Len(s)
  <2> DEFINE a == Cardinality(F)
             b == Cardinality(R)
             c == Cardinality(T)
             d == Cardinality(R \cap T)
  <2>1. a = b + c - d
    BY <1>9, <1>10
  <2>2. a \in Nat /\ b \in Nat /\ c = Len(s) /\ d = 0 /\ Len(s) \in Nat
    BY <1>7, <1>8, <1>9, <1>11
  <2> HIDE DEF a, b, c, d
  <2>3. a = b + Len(s)
    BY <2>1, <2>2
  <2> QED BY <2>3 DEF a, b
<1> DEFINE c == Cardinality(F)
           c2 == Cardinality(R)
           l == SizeInGranules(Len(bytes))
<1>13. c = c2 + l /\ c \in Nat /\ c2 \in Nat /\ l \in Nat
  <2>1. Len(s) = l
    BY <1>1
  <2>2. c \in Nat /\ c2 \in Nat
    BY <1>8
  <2>3. l \in Nat
    BY <1>7, <2>1
  <2>4. c = c2 + l
    BY <1>12, <2>1
  <2> QED BY <2>2, <2>3, <2>4
<1>14. c2 = c - l /\ l <= c
  <2> HIDE DEF c, c2, l
  <2> QED BY <1>13
<1> QED BY <1>6, <1>14 DEF F, R

\* There are as many files as entries in use.
LEMMA FilesAndEntries ==
    ASSUME NEW im \in Image, Sound(im.fat, im.dir), None \notin Seq(Bytes), NEW n \in DirNames,
           \A d \in DirEntries : im.dir[d].name # n,
           NEW N, N = {m \in DirNames \ {n} : FilesOf(im)[m] # None}
    PROVE  Cardinality(N) < NumDirEntries <=> \E e \in DirEntries : ~InUse(im.dir[e])
<1> DEFINE U == {e \in DirEntries : InUse(im.dir[e])}
           f == [e \in U |-> im.dir[e].name]
<1>1. NumDirEntries \in Nat \ {0} /\ im.dir \in [DirEntries -> Entry]
  BY ImageAssumption DEF Image
<1>2. IsFiniteSet(DirEntries) /\ Cardinality(DirEntries) = NumDirEntries
  <2>1. 1 \in Int /\ NumDirEntries \in Int /\ ~(1 > NumDirEntries)
    BY <1>1
  <2>2. IsFiniteSet(1..NumDirEntries) /\ Cardinality(1..NumDirEntries) = NumDirEntries - 1 + 1
    BY <2>1, FS_Interval
  <2> QED BY <1>1, <2>2 DEF DirEntries
<1>3. U \in SUBSET DirEntries
  OBVIOUS
<1>4. ASSUME NEW e \in U PROVE im.dir[e].name \in N
  <2>1. e \in Matches(im.dir, im.dir[e].name) /\ im.dir[e].name \in DirNames \ {n}
    BY <1>1, EntryOfName DEF InUse
  <2> QED BY <2>1, FileOfName
<1>5. ASSUME NEW m \in N PROVE \E e \in U : im.dir[e].name = m
  <2>1. m \in DirNames /\ Matches(im.dir, m) # {}
    BY <1>5, FileOfName
  <2>2. PICK e \in DirEntries : e \in Matches(im.dir, m)
    BY <2>1 DEF Matches
  <2> QED BY <2>1, <2>2, FileOfName
<1>6. \A d, e \in U : im.dir[d].name = im.dir[e].name => d = e
  BY DEF Sound, DistinctNames
<1>7. f \in [U -> N] /\ \A e \in U : f[e] = im.dir[e].name
  BY <1>4
<1> HIDE DEF U, f
<1>8. f \in Bijection(U, N)
  <2>1. f \in Injection(U, N)
    BY <1>6, <1>7 DEF Injection, IsInjective
  <2>2. f \in Surjection(U, N)
    BY <1>5, <1>7 DEF Surjection
  <2> QED BY <2>1, <2>2 DEF Bijection
<1>9. IsFiniteSet(U) /\ Cardinality(U) <= NumDirEntries /\ (Cardinality(U) = NumDirEntries => U = DirEntries)
  BY <1>2, <1>3, FS_Subset
<1>10. Cardinality(U) \in Nat
  BY <1>9, FS_CardinalityType
<1>11. Cardinality(N) = Cardinality(U)
  BY <1>8, <1>9, FS_Bijection DEF ExistsBijection
<1>12. CASE U = DirEntries
  <2>1. \A e \in DirEntries : InUse(im.dir[e])
    BY <1>12 DEF U
  <2>2. ~(Cardinality(N) < NumDirEntries)
    BY <1>1, <1>2, <1>11, <1>12
  <2> QED BY <2>1, <2>2
<1>13. CASE U # DirEntries
  <2>1. \E e \in DirEntries : ~InUse(im.dir[e])
    BY <1>3, <1>13 DEF U
  <2>2. Cardinality(N) < NumDirEntries
    BY <1>1, <1>9, <1>10, <1>11, <1>13
  <2> QED BY <2>1, <2>2
<1> QED BY <1>12, <1>13

\* The bytes that addFile() copies are those that the help page has.
LEMMA AddsContents ==
    ASSUME NEW r \in Requests, r.op = "write", InPlainUse(r)
    PROVE  BytesToAdd(r) = Store!Contents(r)
<1>1. r.native \in Seq(Bytes)
  BY RequestsAssumption
<1>2. CASE r.mode \notin {"empty", "binary", "ascii"}
  <2> DEFINE b == r.native
  <2>1. InCompleteLines(b) = 1..Len(b)
    <3>1. CASE b = <<>>
      BY <3>1 DEF InCompleteLines
    <3>2. CASE b # <<>>
      <4>1. Len(b) \in Nat \ {0}
        BY <1>1, <3>2
      <4>2. b[Len(b)] = LF
        BY <1>2, <3>2 DEF InPlainUse, EndsInNewline
      <4> QED BY <4>1, <4>2 DEF InCompleteLines
    <3> QED BY <3>1, <3>2
  <2>2. Cardinality(InCompleteLines(b)) = Len(b)
    <3>1. Len(b) \in Nat /\ 1 \in Int /\ Len(b) \in Int
      BY <1>1
    <3> DEFINE k == Len(b)
    <3> HIDE DEF k
    <3>2. Cardinality(1..k) = IF 1 > k THEN 0 ELSE k - 1 + 1
      BY <3>1, FS_Interval DEF k
    <3>3. Cardinality(1..k) = k
      BY <3>1, <3>2 DEF k
    <3> QED BY <2>1, <3>3 DEF k
  <2>3. SubSeq(b, 1, Len(b)) = b
    BY <1>1
  <2>4. CompleteLinesWithCR(b) = <<CR>> \o Converted(b)
    BY <2>2, <2>3 DEF CompleteLinesWithCR
  <2>5. BytesToAdd(r) = CompleteLinesWithCR(b) /\ Store!Contents(r) = <<CR>> \o Store!Converted(b)
    <3> HIDE DEF b
    <3> QED BY <1>2 DEF BytesToAdd, Store!Contents, b
  <2>6. Store!Converted(b) = Converted(b)
    BY DEF Converted, Store!Converted
  <2> QED BY <2>4, <2>5, <2>6
<1>3. CASE r.mode \in {"empty", "binary", "ascii"}
  <2>1. Store!Converted(r.native) = Converted(r.native)
    BY DEF Converted, Store!Converted
  <2> QED BY <1>3, <2>1 DEF BytesToAdd, Store!Contents
<1> QED BY <1>2, <1>3

-----------------------------------------------------------------------------
(* The inductive invariant of the refinement. *)

LEMMA AlongChain ==
    ASSUME NEW fat, NEW head, NEW s, IsChain(fat, head, s), NEW k \in 1..Len(s)
    PROVE  /\ s[k] \in Granules
           /\ IsLast(fat[s[k]]) => k = Len(s)
           /\ ~IsLast(fat[s[k]]) => k + 1 \in 1..Len(s) /\ s[k + 1] = fat[s[k]]
<1>1. Len(s) \in Nat \ {0} /\ s[k] \in Granules
  BY ChainRange
<1>2. CASE k = Len(s)
  BY <1>1, <1>2 DEF IsChain
<1>3. CASE k # Len(s)
  <2>1. k \in 1..(Len(s) - 1) /\ k + 1 \in 1..Len(s)
    BY <1>1, <1>3
  <2>2. IsLink(fat[s[k]]) /\ s[k + 1] = fat[s[k]]
    BY <2>1 DEF IsChain
  <2> QED BY <1>1, <2>1, <2>2, LinkMarks
<1> QED BY <1>2, <1>3

\* The kth granule of a chain is freed after those before it.
FreesInTurn(fat, s, k) ==
    LET F == Freed(fat, Before(s, k))
    IN  /\ F \in [Granules -> 0..255]
        /\ F[s[k]] = fat[s[k]]
        /\ [F EXCEPT ![s[k]] = FreeFatEntry] = Freed(fat, Before(s, k + 1))

LEMMA FreedBefore ==
    ASSUME NEW fat, fat \in [Granules -> 0..255], NEW head, NEW s, IsChain(fat, head, s),
           NEW k \in 1..Len(s)
    PROVE  FreesInTurn(fat, s, k)
<1> DEFINE F == Freed(fat, Before(s, k))
<1>1. Len(s) \in Nat \ {0} /\ \A j \in 1..Len(s) : s[j] \in Granules
  BY ChainRange
<1>2. \A i, j \in 1..Len(s) : s[i] = s[j] => i = j
  BY DEF IsChain
<1> DEFINE B == Before(s, k)
           C == Before(s, k + 1)
<1>3. s[k] \notin B /\ C = B \cup {s[k]} /\ s[k] \in Granules
  <2>1. \A j \in 1..(k - 1) : j \in 1..Len(s) /\ j # k
    BY <1>1
  <2>2. s[k] \notin B
    BY <1>2, <2>1 DEF Before
  <2>3. (k + 1) - 1 = k /\ \A j : j \in 1..k <=> (j \in 1..(k - 1) \/ j = k)
    BY <1>1
  <2>4. C = {s[j] : j \in 1..k}
    BY <2>3 DEF Before
  <2>5. C = B \cup {s[k]}
    BY <2>3, <2>4 DEF Before
  <2> QED BY <1>1, <2>2, <2>5
<1>4. FreeFatEntry \in 0..255
  BY DEF FreeFatEntry
<1>5. F = [g \in Granules |-> IF g \in B THEN FreeFatEntry ELSE fat[g]]
  BY DEF Freed
<1> HIDE DEF B, C, F
<1>6. F \in [Granules -> 0..255] /\ F[s[k]] = fat[s[k]]
  BY <1>3, <1>4, <1>5
<1>7. [F EXCEPT ![s[k]] = FreeFatEntry] = [g \in Granules |-> IF g \in C THEN FreeFatEntry ELSE fat[g]]
  BY <1>3, <1>5
<1> QED BY <1>6, <1>7 DEF FreesInTurn, Freed, C, F

LEMMA FreedEnds ==
    ASSUME NEW fat \in [Granules -> 0..255], NEW s \in Seq(Granules)
    PROVE  /\ Freed(fat, Before(s, 1)) = fat
           /\ Before(s, Len(s) + 1) = GranulesOf(s)
<1>1. Before(s, 1) = {}
  BY DEF Before
<1>2. Freed(fat, {}) = fat
  BY DEF Freed
<1>3. (Len(s) + 1) - 1 = Len(s)
  OBVIOUS
<1>4. Before(s, Len(s) + 1) = GranulesOf(s)
  BY <1>3 DEF Before, GranulesOf
<1> QED BY <1>1, <1>2, <1>4

LEMMA StoreInit == ASSUME TidyImages, Init PROVE StoreInv
BY DEF StoreInv, TidyImages, Init

LEMMA StoreExit ==
    ASSUME NEW exit, NEW output, Exit(exit, output), Tidy(disk')
    PROVE  StoreInv'
BY DEF StoreInv, Exit

LEMMA StoreFail == ASSUME StoreInv, Fail, pc # "torn" PROVE StoreInv'
<1>1. disk' = disk /\ Exit("failure", None) /\ Tidy(disk)
  BY DEF Fail, StoreInv
<1> QED BY <1>1, StoreExit

LEMMA StoreStart == ASSUME StoreInv, Start PROVE StoreInv'
BY DEF StoreInv, Start

LEMMA StoreOpen == ASSUME StoreInv, Open PROVE StoreInv'
<1>1. CASE Openable(request)
  BY <1>1 DEF StoreInv, Open
<1>2. CASE ~Openable(request)
  BY <1>2, StoreFail DEF Open
<1> QED BY <1>1, <1>2

LEMMA StoreFindToKill == ASSUME IInv, StoreInv, FindToKill PROVE StoreInv'
<1>1. /\ pc = "find" /\ request.op \in {"write", "kill"} /\ contents = disk /\ disk \in Image
      /\ Sound(disk.fat, disk.dir) /\ Named \in DirNames
      /\ Tidy(disk) /\ reply = None /\ Openable(request) /\ fileContents = <<>>
  BY NamedTyped DEF IInv, TypeOK, DiskSound, StoreInv, FindToKill
<1>2. /\ disk' = disk /\ contents' = disk /\ request' = request /\ reply' = reply
      /\ fileContents' = fileContents /\ Named' = Named
  BY <1>1 DEF FindToKill, Named
<1>3. CASE Matches(disk.dir, Named) = {}
  <2>1. pc' = AfterKill
    BY <1>1, <1>3 DEF FindToKill, Named
  <2>2. WithoutNamed' = disk
    BY <1>2, <1>3 DEF WithoutNamed, WithoutFile
  <2>3. pc' = "add" \/ (pc' = "commit" /\ request.op = "kill")
    BY <1>1, <2>1 DEF AfterKill
  <2> QED BY <1>1, <1>2, <2>2, <2>3 DEF StoreInv
<1>4. CASE Matches(disk.dir, Named) # {}
  <2>1. /\ pc' = "kill" /\ entry' \in Matches(disk.dir, Named) /\ granuleNo' = disk.dir[entry'].gran
    BY <1>1, <1>4 DEF FindToKill, Named
  <2> DEFINE s == ChainAt(disk, entry')
  <2>2. entry' \in DirEntries /\ InUse(disk.dir[entry'])
    BY <1>1, <2>1, FileOfName
  <2>3. IsChain(disk.fat, disk.dir[entry'].gran, s)
    BY <1>1, <2>2, ChainOf
  <2>4. ChainAt(disk, entry)' = s
    BY <1>2 DEF ChainAt
  <2> HIDE DEF s
  <2>5. 1 \in 1..Len(s) /\ granuleNo' = s[1] /\ s \in Seq(Granules)
    BY <2>1, <2>3, ChainRange
  <2>6. disk = [disk EXCEPT !.fat = Freed(disk.fat, Before(s, 1))]
    <3>1. Freed(disk.fat, Before(s, 1)) = disk.fat
      BY <1>1, <2>5, FreedEnds DEF Image
    <3> QED BY <1>1, <3>1 DEF Image
  <2>7. KillingInOrder'
    BY <1>2, <2>1, <2>4, <2>5, <2>6 DEF KillingInOrder
  <2> QED BY <1>1, <1>2, <2>1, <2>7 DEF StoreInv
<1> QED BY <1>3, <1>4

LEMMA StoreFreeGranule == ASSUME IInv, StoreInv, FreeGranule PROVE StoreInv'
<1> DEFINE s == ChainAt(disk, entry)
<1>1. /\ pc = "kill" /\ request.op \in {"write", "kill"} /\ disk \in Image
      /\ Sound(disk.fat, disk.dir) /\ Named \in DirNames
      /\ Tidy(disk) /\ reply = None /\ Openable(request) /\ fileContents = <<>>
      /\ entry \in Matches(disk.dir, Named)
  BY NamedTyped DEF IInv, TypeOK, DiskSound, StoreInv, FreeGranule, KillingInOrder
<1>2. /\ disk' = disk /\ request' = request /\ reply' = reply /\ entry' = entry
      /\ fileContents' = fileContents /\ Named' = Named
  BY DEF FreeGranule, Named
<1>3. entry \in DirEntries /\ InUse(disk.dir[entry]) /\ entry = EntryOf(disk.dir, Named)
  BY <1>1, FileOfName
<1>4. IsChain(disk.fat, disk.dir[entry].gran, s)
  BY <1>1, <1>3, ChainOf
<1>5. PICK k \in 1..Len(s) :
          granuleNo = s[k] /\ contents = [disk EXCEPT !.fat = Freed(disk.fat, Before(s, k))]
  BY <1>1 DEF StoreInv, KillingInOrder
<1>6. ChainAt(disk, entry)' = s
  BY <1>2 DEF ChainAt
<1> DEFINE F == Freed(disk.fat, Before(s, k))
           F2 == Freed(disk.fat, Before(s, k + 1))
<1>7. disk = [fat |-> disk.fat, dir |-> disk.dir, gran |-> disk.gran] /\ disk.fat \in [Granules -> 0..255]
  BY <1>1 DEF Image
<1> HIDE DEF s
<1>8. F \in [Granules -> 0..255] /\ F[s[k]] = disk.fat[s[k]] /\ [F EXCEPT ![s[k]] = FreeFatEntry] = F2
  <2> DEFINE A    == disk.fat
             head == disk.dir[entry].gran
  <2>1. A \in [Granules -> 0..255] /\ IsChain(A, head, s)
    BY <1>4, <1>7
  <2> HIDE DEF A, head
  <2>2. FreesInTurn(A, s, k)
    BY <2>1, FreedBefore
  <2> QED BY <2>2 DEF FreesInTurn, A
<1> HIDE DEF F, F2
<1>9. contents = [fat |-> F, dir |-> disk.dir, gran |-> disk.gran]
  BY <1>5, <1>7 DEF F
<1>10. contents.fat[granuleNo] = disk.fat[s[k]]
  BY <1>5, <1>8, <1>9
<1>11. CASE IsLast(disk.fat[s[k]])
  <2>1. contents' = [contents EXCEPT !.fat[granuleNo] = FreeFatEntry, !.dir[entry] = Unused(Killed)] /\ pc' = AfterKill
    BY <1>10, <1>11 DEF FreeGranule
  <2>2. contents' = [fat |-> F2, dir |-> [disk.dir EXCEPT ![entry] = Unused(Killed)], gran |-> disk.gran]
    <3>1. contents' = [fat |-> [F EXCEPT ![s[k]] = FreeFatEntry],
                       dir |-> [disk.dir EXCEPT ![entry] = Unused(Killed)], gran |-> disk.gran]
      <4> DEFINE dir == disk.dir
                 gran == disk.gran
                 unused == Unused(Killed)
                 C == contents
      <4>1. C = [fat |-> F, dir |-> dir, gran |-> gran]
        BY <1>9
      <4>2. contents' = [C EXCEPT !.fat[granuleNo] = FreeFatEntry, !.dir[entry] = unused]
        BY <2>1
      <4> HIDE DEF dir, gran, unused, C
      <4>3. contents' = [fat |-> [F EXCEPT ![granuleNo] = FreeFatEntry],
                         dir |-> [dir EXCEPT ![entry] = unused], gran |-> gran]
        BY <4>1, <4>2
      <4> QED BY <1>5, <4>3 DEF dir, gran, unused
    <3> QED BY <1>8, <3>1
  <2>3. F2 = Freed(disk.fat, GranulesOf(s))
    <3>1. k = Len(s) /\ s \in Seq(Granules)
      BY <1>4, <1>11, AlongChain, ChainRange
    <3> QED BY <1>7, <3>1, FreedEnds DEF F2
  <2>4. WithoutNamed' = contents'
    <3>1. WithoutFile(disk, Named) = contents'
      BY <1>1, <1>3, <2>2, <2>3 DEF WithoutFile, s
    <3> QED BY <1>2, <3>1 DEF WithoutNamed
  <2>5. pc' = "add" \/ (pc' = "commit" /\ request.op = "kill")
    BY <1>1, <2>1 DEF AfterKill
  <2> QED BY <1>1, <1>2, <2>4, <2>5 DEF StoreInv
<1>12. CASE ~IsLast(disk.fat[s[k]])
  <2>1. /\ contents' = [contents EXCEPT !.fat[granuleNo] = FreeFatEntry]
        /\ granuleNo' = disk.fat[s[k]] /\ pc' = "kill"
    BY <1>1, <1>10, <1>12 DEF FreeGranule
  <2>2. k + 1 \in 1..Len(s) /\ granuleNo' = s[k + 1]
    BY <1>4, <1>12, <2>1, AlongChain
  <2>3. contents' = [disk EXCEPT !.fat = F2]
    <3>1. contents' = [fat |-> [F EXCEPT ![s[k]] = FreeFatEntry], dir |-> disk.dir, gran |-> disk.gran]
      BY <1>5, <1>9, <2>1
    <3>2. contents' = [fat |-> F2, dir |-> disk.dir, gran |-> disk.gran]
      BY <1>8, <3>1
    <3> DEFINE dir == disk.dir
               gran == disk.gran
               A == disk.fat
    <3>3. disk = [fat |-> A, dir |-> dir, gran |-> gran] /\ contents' = [fat |-> F2, dir |-> dir, gran |-> gran]
      BY <1>7, <3>2
    <3> HIDE DEF dir, gran, A
    <3> QED BY <3>3
  <2>4. KillingInOrder'
    BY <1>1, <1>2, <1>6, <2>2, <2>3 DEF KillingInOrder, F2
  <2> QED BY <1>1, <1>2, <2>1, <2>4 DEF StoreInv
<1> QED BY <1>11, <1>12

LEMMA StoreBeginAdd == ASSUME IInv, StoreInv, BeginAdd PROVE StoreInv'
<1>1. CASE request.name \in LegalNames
  <2>1. /\ pc' = "allocate" /\ granuleNo' = 0 /\ disk' = disk /\ contents' = contents
        /\ request' = request /\ fileContents' = fileContents /\ reply' = reply
    BY <1>1 DEF BeginAdd
  <2>2. AllocatingInOrder'
    <3>1. \A g \in Granules : ~(g < 0)
      BY DEF Granules
    <3> QED BY <1>1, <2>1, <3>1 DEF AllocatingInOrder
  <2>3. WithoutNamed' = WithoutNamed
    BY <2>1 DEF WithoutNamed, Named
  <2>4. /\ Tidy(disk) /\ reply = None /\ Openable(request) /\ fileContents = <<>> /\ contents = WithoutNamed
    BY DEF StoreInv, BeginAdd
  <2> QED BY <2>1, <2>2, <2>3, <2>4 DEF StoreInv
<1>2. CASE request.name \notin LegalNames
  BY <1>2, StoreFail DEF BeginAdd
<1> QED BY <1>1, <1>2

LEMMA StoreAllocateGranule == ASSUME IInv, StoreInv, AllocateGranule PROVE StoreInv'
<1>1. /\ pc = "allocate" /\ fileGranules \in Seq(Granules) /\ granuleNo \in 0..NumGranules /\ AllocatingInOrder
      /\ Tidy(disk) /\ reply = None /\ Openable(request) /\ fileContents = <<>> /\ contents = WithoutNamed
  BY DEF IInv, TypeOK, StoreInv, AllocateGranule
<1>2. /\ disk' = disk /\ contents' = contents /\ request' = request /\ pc' = pc
      /\ fileContents' = fileContents /\ reply' = reply
  BY DEF AllocateGranule
<1>3. PICK g \in Granules : IsNextFree(g) /\ fileGranules' = Append(fileGranules, g) /\ granuleNo' = g + 1
  BY DEF AllocateGranule
<1> DEFINE L == Len(fileGranules)
<1>4. /\ L \in Nat /\ Len(fileGranules') = L + 1 /\ fileGranules'[L + 1] = g
      /\ \A k \in 1..L : fileGranules'[k] = fileGranules[k]
  BY <1>1, <1>3
<1>5. ASSUME NEW h \in Granules, contents.fat[h] = FreeFatEntry, h < g + 1
      PROVE  \E k \in 1..(L + 1) : fileGranules'[k] = h
  <2>1. g \in Int /\ h \in Int /\ granuleNo \in Int
    BY <1>1 DEF Granules
  <2>2. CASE h < granuleNo
    <3>1. PICK k \in 1..L : fileGranules[k] = h
      BY <1>1, <1>5, <2>2 DEF AllocatingInOrder
    <3>2. k \in 1..(L + 1)
      BY <1>4
    <3> QED BY <1>4, <3>1, <3>2
  <2>3. CASE h = g
    <3>1. L + 1 \in 1..(L + 1)
      BY <1>4
    <3> QED BY <1>4, <2>3, <3>1
  <2>4. CASE ~(h < granuleNo) /\ h # g
    <3>1. h \in granuleNo..(g - 1)
      BY <1>5, <2>1, <2>4
    <3> QED BY <1>3, <1>5, <3>1 DEF IsNextFree
  <2> QED BY <2>2, <2>3, <2>4
<1> HIDE DEF L
<1>6. AllocatingInOrder'
  BY <1>1, <1>2, <1>3, <1>4, <1>5 DEF AllocatingInOrder
<1>7. WithoutNamed' = WithoutNamed
  BY <1>2 DEF WithoutNamed, Named
<1> QED BY <1>1, <1>2, <1>6, <1>7 DEF StoreInv

LEMMA StoreAddFile == ASSUME IInv, StoreInv, AddFile PROVE StoreInv'
<1>1. /\ pc = "allocate" /\ request \in Requests /\ request.op = "write" /\ request.name \in LegalNames
      /\ Tidy(disk) /\ reply = None /\ Openable(request) /\ fileContents = <<>> /\ contents = WithoutNamed
      /\ Sound(contents.fat, contents.dir) /\ contents \in Image /\ Unnamed /\ Allocating
      /\ fileGranules \in Seq(Granules) /\ Len(fileGranules) = SizeToAdd /\ Named \in DirNames
  BY NamedTyped DEF IInv, TypeOK, StoreInv, AddFile, AllocatingInOrder
<1>2. /\ disk' = disk /\ request' = request /\ pc' = "commit" /\ fileGranules' = fileGranules
      /\ fileContents' = fileContents /\ reply' = reply /\ Named' = Named
  BY DEF AddFile, Named
<1>3. PICK e \in DirEntries :
          /\ IsFirstUnused(e)
          /\ contents' = WithFile(contents, e, Named, fileGranules, BytesToAdd(request))
  BY DEF AddFile, Named
<1>4. BytesToAdd(request) \in Seq(Bytes)
  BY <1>1, BytesToAddTyped
<1>5. Addition(contents, e, Named, fileGranules, BytesToAdd(request))
  BY <1>1, <1>3, <1>4 DEF Addition, IsFirstUnused, Unnamed, Allocating, SizeToAdd
<1>6. WithoutNamed' = WithoutNamed
  BY <1>2 DEF WithoutNamed
<1>7. Adds(e)'
  BY <1>1, <1>2, <1>3, <1>5, <1>6 DEF Adds
<1> QED BY <1>1, <1>2, <1>7 DEF StoreInv

-----------------------------------------------------------------------------
(* extractFile() *)

\* A sequence lies behind the first a elements of another one.
LiesBehind(f, a, p) == a + Len(p) <= Len(f) /\ \A r \in 1..Len(p) : f[a + r] = p[r]

LEMMA PrefixGrows ==
    ASSUME NEW S, NEW f \in Seq(S), NEW p \in Seq(S), NEW a \in Nat, LiesBehind(f, a, p),
           NEW m, m = a + Len(p)
    PROVE  SubSeq(f, 1, a) \o p = SubSeq(f, 1, m)
<1> DEFINE l == SubSeq(f, 1, a)
           w == SubSeq(f, 1, m)
<1>1. m \in Nat /\ a <= m /\ m <= Len(f) /\ Len(p) \in Nat
  BY DEF LiesBehind
<1>2. l \in Seq(S) /\ Len(l) = a /\ \A i \in 1..a : l[i] = f[i]
  BY <1>1
<1>3. w \in Seq(S) /\ Len(w) = m /\ \A i \in 1..m : w[i] = f[i]
  BY <1>1
<1> HIDE DEF l, w
<1>4. l \o p \in Seq(S) /\ Len(l \o p) = m
  BY <1>2
<1>5. ASSUME NEW i \in 1..m PROVE (l \o p)[i] = w[i]
  <2>1. CASE i <= a
    BY <1>1, <1>2, <1>3, <2>1
  <2>2. CASE ~(i <= a)
    <3>1. i - a \in 1..Len(p) /\ a + (i - a) = i
      BY <1>1, <2>2
    <3>2. (l \o p)[i] = p[i - a]
      BY <1>1, <1>2, <2>2
    <3>3. f[a + (i - a)] = p[i - a]
      BY <3>1 DEF LiesBehind
    <3> QED BY <1>3, <3>1, <3>2, <3>3
  <2> QED BY <2>1, <2>2
<1>6. l \o p = w
  <2> DEFINE c == l \o p
  <2>1. c \in Seq(S) /\ w \in Seq(S) /\ Len(c) = Len(w) /\ \A i \in 1..Len(c) : c[i] = w[i]
    BY <1>3, <1>4, <1>5
  <2> HIDE DEF c
  <2>2. c = w
    BY <2>1, SeqEqual
  <2> QED BY <2>2 DEF c
<1> QED BY <1>6 DEF l, w

\* The kth granule of a file, and the last one up to the end of the file.
FollowsInTurn(im, s, k, f, a) ==
    /\ a \in Nat /\ f \in Seq(Bytes)
    /\ k # Len(s) => LiesBehind(f, a, im.gran[s[k]]) /\ a + BytesPerGranule = k * BytesPerGranule

EndsInTurn(im, s, k, f, a, z) ==
    /\ LiesBehind(f, a, SubSeq(im.gran[s[k]], 1, z))
    /\ Len(f) = a + z /\ z = Len(SubSeq(im.gran[s[k]], 1, z))
    /\ SubSeq(im.gran[s[k]], 1, z) \in Seq(Bytes)

LEMMA GranuleFollows ==
    ASSUME NEW im \in Image, Sound(im.fat, im.dir), NEW e \in DirEntries, InUse(im.dir[e]),
           NEW s, s = ChainAt(im, e), NEW k \in 1..Len(s), NEW f, f = FileContents(im, e),
           NEW a, a = (k - 1) * BytesPerGranule
    PROVE  /\ FollowsInTurn(im, s, k, f, a)
           /\ k = Len(s) =>
                  EndsInTurn(im, s, k, f, a, BytesInLastGranule(im.fat[s[k]], im.dir[e].lastBytes))
<1> DEFINE G == BytesPerGranule
           L == Len(s)
           z == BytesInLastGranule(im.fat[s[L]], im.dir[e].lastBytes)
           p == im.gran[s[k]]
<1>1. /\ IsChain(im.fat, im.dir[e].gran, s) /\ im.dir[e].lastBytes \in 0..BytesPerSector
      /\ L \in Nat \ {0} /\ s[k] \in Granules /\ IsLast(im.fat[s[L]])
  <2>1. IsChain(im.fat, im.dir[e].gran, s)
    BY ChainOf
  <2>2. im.dir[e].lastBytes \in 0..BytesPerSector
    BY DEF Image, Entry
  <2>3. L \in Nat \ {0} /\ s[k] \in Granules
    BY <2>1, ChainRange
  <2>4. IsLast(im.fat[s[L]])
    BY <2>1 DEF IsChain
  <2> QED BY <2>1, <2>2, <2>3, <2>4
<1>2. z \in 0..G /\ G \in Nat \ {0} /\ p \in Seq(Bytes) /\ Len(p) = G
  BY <1>1, LastGranuleFits, GranuleBytes, UnitSizes
<1>3. /\ f \in Seq(Bytes) /\ Len(f) = (L - 1) * G + z
      /\ \A q \in 0..(L - 1) : \A r \in 1..G : q * G + r <= (L - 1) * G + z => f[q * G + r] = im.gran[s[q + 1]][r]
  <2> DEFINE head == im.dir[e].gran
             lastBytes == im.dir[e].lastBytes
             size == (L - 1) * G + z
  <2>1. /\ f = FileFrom(im, head, lastBytes) /\ IsChain(im.fat, head, s) /\ lastBytes \in 0..BytesPerSector
        /\ size = (Len(s) - 1) * BytesPerGranule + BytesInLastGranule(im.fat[s[Len(s)]], lastBytes)
    BY <1>1 DEF FileContents
  <2> HIDE DEF head, lastBytes, size
  <2>2. /\ f \in Seq(Bytes) /\ Len(f) = size
        /\ \A q \in 0..(Len(s) - 1) : \A r \in 1..BytesPerGranule :
               q * BytesPerGranule + r <= size => f[q * BytesPerGranule + r] = im.gran[s[q + 1]][r]
    BY <2>1, FileOfChain
  <2> QED BY <2>2 DEF size
<1>4. k - 1 \in 0..(L - 1) /\ (k - 1) + 1 = k
  BY <1>1
<1> HIDE DEF G, z, L
<1>5. \A r \in 1..G : a + r <= (L - 1) * G + z => f[a + r] = p[r]
  BY <1>3, <1>4 DEF G
<1> HIDE DEF p
<1>6. a \in Nat /\ a + G = k * G
  <2> DEFINE q == k - 1
  <2>1. q \in Nat /\ q + 1 = k /\ a = q * G
    BY <1>1, <1>4 DEF G
  <2> HIDE DEF q
  <2> QED BY <1>2, <2>1, Products
<1>7. CASE k # L
  <2>1. a + G <= (L - 1) * G /\ (L - 1) * G \in Nat
    <3> DEFINE b == L - 1
    <3>1. b \in Nat /\ k <= b /\ k \in Nat
      BY <1>1, <1>7 DEF L
    <3> HIDE DEF b
    <3>2. k * G <= b * G /\ b * G \in Nat
      BY <1>2, <3>1, Products
    <3> QED BY <1>6, <3>2 DEF b
  <2> DEFINE m == (L - 1) * G
  <2> HIDE DEF m
  <2>2. \A r \in 1..G : a + r <= m + z
    BY <1>2, <1>6, <2>1 DEF m
  <2>3. LiesBehind(f, a, p)
    BY <1>2, <1>3, <1>5, <1>6, <2>1, <2>2 DEF LiesBehind, m
  <2> QED BY <1>3, <1>6, <1>7, <2>3 DEF FollowsInTurn, p, G, L
<1>8. CASE k = L
  <2> DEFINE t == SubSeq(p, 1, z)
  <2>1. t \in Seq(Bytes) /\ Len(t) = z /\ \A r \in 1..z : t[r] = p[r]
    BY <1>2
  <2>2. (L - 1) * G = a
    BY <1>8 DEF G
  <2>3. \A r \in 1..z : r \in 1..G /\ a + r <= a + z
    BY <1>2, <1>6
  <2> HIDE DEF t
  <2>4. LiesBehind(f, a, t) /\ Len(f) = a + z
    BY <1>2, <1>3, <1>5, <1>6, <2>1, <2>2, <2>3 DEF LiesBehind
  <2>5. EndsInTurn(im, s, k, f, a, z)
    BY <2>1, <2>4 DEF EndsInTurn, t, p
  <2>6. z = BytesInLastGranule(im.fat[s[k]], im.dir[e].lastBytes)
    BY <1>8 DEF z, L
  <2> QED BY <1>3, <1>6, <1>8, <2>5, <2>6 DEF FollowsInTurn, L
<1> QED BY <1>7, <1>8

LEMMA StoreFindToExtract == ASSUME IInv, StoreInv, FindToExtract PROVE StoreInv'
<1>1. /\ pc = "find" /\ request.op = "read" /\ contents = disk /\ disk \in Image
      /\ Sound(disk.fat, disk.dir) /\ Named \in DirNames
      /\ Tidy(disk) /\ reply = None /\ Openable(request) /\ fileContents = <<>>
  BY NamedTyped DEF IInv, TypeOK, DiskSound, StoreInv, FindToExtract
<1>2. CASE Matches(disk.dir, Named) = {}
  BY <1>1, <1>2, StoreFail DEF FindToExtract, Named
<1>3. CASE Matches(disk.dir, Named) # {}
  <2>1. /\ disk' = disk /\ contents' = disk /\ request' = request /\ reply' = reply
        /\ fileContents' = <<>> /\ pc' = "extract" /\ entry' \in Matches(disk.dir, Named)
        /\ granuleNo' = disk.dir[entry'].gran
    BY <1>1, <1>3 DEF FindToExtract, Named
  <2>2. Named' = Named
    BY <2>1 DEF Named
  <2> DEFINE s == ChainAt(disk, entry')
             f == FileContents(disk, entry')
  <2>3. entry' \in DirEntries /\ InUse(disk.dir[entry'])
    BY <1>1, <2>1, FileOfName
  <2>4. IsChain(disk.fat, disk.dir[entry'].gran, s) /\ f \in Seq(Bytes)
    BY <1>1, <2>3, ChainOf, FileTyped
  <2>5. ChainAt(disk, entry)' = s /\ FileContents(disk, entry)' = f
    BY <2>1 DEF ChainAt
  <2> HIDE DEF s, f
  <2>6. 1 \in 1..Len(s) /\ granuleNo' = s[1]
    BY <2>1, <2>4, ChainRange
  <2>7. fileContents' = SubSeq(f, 1, (1 - 1) * BytesPerGranule)
    <3>1. (1 - 1) * BytesPerGranule = 0
      BY UnitSizes
    <3>2. SubSeq(f, 1, 0) = <<>>
      BY <2>4
    <3> QED BY <2>1, <3>1, <3>2
  <2>8. ExtractingInOrder'
    BY <2>1, <2>2, <2>5, <2>6, <2>7 DEF ExtractingInOrder
  <2> QED BY <1>1, <2>1, <2>8 DEF StoreInv
<1> QED BY <1>2, <1>3

LEMMA StoreExtractGranule == ASSUME IInv, StoreInv, ExtractGranule PROVE StoreInv'
<1> DEFINE s == ChainAt(disk, entry)
           f == FileContents(disk, entry)
           G == BytesPerGranule
<1>1. /\ pc = "extract" /\ request.op = "read" /\ contents = disk /\ disk \in Image
      /\ Sound(disk.fat, disk.dir) /\ Named \in DirNames
      /\ Tidy(disk) /\ reply = None /\ Openable(request) /\ ExtractingInOrder
      /\ entry \in Matches(disk.dir, Named)
  BY NamedTyped DEF IInv, TypeOK, DiskSound, StoreInv, ExtractGranule, ExtractingInOrder
<1>2. /\ disk' = disk /\ contents' = disk /\ request' = request /\ reply' = reply
      /\ pc' = pc /\ entry' = entry /\ ~IsLast(disk.fat[granuleNo])
      /\ fileContents' = fileContents \o disk.gran[granuleNo]
      /\ granuleNo' = disk.fat[granuleNo]
  BY <1>1 DEF ExtractGranule
<1>3. entry \in DirEntries /\ InUse(disk.dir[entry])
  BY <1>1, FileOfName
<1>4. IsChain(disk.fat, disk.dir[entry].gran, s)
  BY <1>1, <1>3, ChainOf
<1>5. PICK k \in 1..Len(s) : granuleNo = s[k] /\ fileContents = SubSeq(f, 1, (k - 1) * G)
  BY <1>1 DEF ExtractingInOrder
<1> DEFINE a == (k - 1) * G
           m == k * G
           p == disk.gran[s[k]]
<1>6. FollowsInTurn(disk, s, k, f, a)
  <2>1. s = ChainAt(disk, entry) /\ f = FileContents(disk, entry) /\ a = (k - 1) * BytesPerGranule
    OBVIOUS
  <2> HIDE DEF s, f, a
  <2> QED BY <1>1, <1>3, <2>1, GranuleFollows
<1>7. ChainAt(disk, entry)' = s /\ FileContents(disk, entry)' = f /\ Named' = Named
  BY <1>2 DEF ChainAt, Named
<1> HIDE DEF s, f
<1>8. k # Len(s) /\ k + 1 \in 1..Len(s) /\ granuleNo' = s[k + 1] /\ s[k] \in Granules
  <2>1. ~IsLast(disk.fat[s[k]]) /\ granuleNo' = disk.fat[s[k]]
    BY <1>2, <1>5
  <2>2. k + 1 \in 1..Len(s) /\ s[k + 1] = disk.fat[s[k]] /\ s[k] \in Granules
    BY <1>4, <2>1, AlongChain
  <2>3. Len(s) \in Nat
    BY <1>4, ChainRange
  <2> QED BY <2>1, <2>2, <2>3
<1>9. p \in Seq(Bytes) /\ Len(p) = G
  BY <1>1, <1>8, GranuleBytes
<1>10. fileContents' = SubSeq(f, 1, ((k + 1) - 1) * G)
  <2>1. a \in Nat /\ f \in Seq(Bytes) /\ LiesBehind(f, a, p) /\ m = a + Len(p)
    BY <1>6, <1>8, <1>9 DEF FollowsInTurn
  <2>2. fileContents' = SubSeq(f, 1, a) \o p
    BY <1>2, <1>5
  <2>3. (k + 1) - 1 = k
    OBVIOUS
  <2> HIDE DEF a, m, p, G
  <2>4. SubSeq(f, 1, a) \o p = SubSeq(f, 1, m)
    BY <1>9, <2>1, PrefixGrows
  <2> QED BY <2>2, <2>3, <2>4 DEF m
<1>11. ExtractingInOrder'
  BY <1>1, <1>2, <1>7, <1>8, <1>10 DEF ExtractingInOrder
<1> QED BY <1>1, <1>2, <1>11 DEF StoreInv

LEMMA StoreExtractLastGranule == ASSUME IInv, StoreInv, ExtractLastGranule PROVE StoreInv'
<1>1. disk' = disk /\ Tidy(disk)
  BY DEF StoreInv, ExtractLastGranule
<1>2. PICK exit, output : Exit(exit, output)
  BY DEF ExtractLastGranule
<1> QED BY <1>1, <1>2, StoreExit

LEMMA StoreListDirectory == ASSUME IInv, StoreInv, ListDirectory PROVE StoreInv'
<1>1. disk' = disk /\ Tidy(disk)
  BY DEF StoreInv, ListDirectory
<1>2. PICK exit, output : Exit(exit, output)
  BY DEF ListDirectory
<1> QED BY <1>1, <1>2, StoreExit

LEMMA StoreOutOfSpace == ASSUME IInv, StoreInv, OutOfSpace PROVE StoreInv'
BY StoreFail DEF OutOfSpace

LEMMA StoreOutOfEntries == ASSUME IInv, StoreInv, OutOfEntries PROVE StoreInv'
BY StoreFail DEF OutOfEntries

\* What commit() writes.
LEMMA CommitsTidy ==
    ASSUME IInv, StoreInv, pc = "commit"
    PROVE  contents \in Image /\ Sound(contents.fat, contents.dir) /\ Tidy(contents)
<1>1. /\ disk \in Image /\ Sound(disk.fat, disk.dir) /\ Tidy(disk) /\ Named \in DirNames
      /\ Sound(contents.fat, contents.dir) /\ contents \in Image
  BY NamedTyped DEF IInv, TypeOK, DiskSound, StoreInv
<1>2. CASE request.op = "kill" /\ contents = WithoutNamed
  BY <1>1, <1>2, RemovedTidy DEF WithoutNamed
<1>3. CASE request.op = "write" /\ \E e \in DirEntries : Adds(e)
  <2>1. PICK e \in DirEntries : Adds(e)
    BY <1>3
  <2> DEFINE im == WithoutNamed
             bytes == BytesToAdd(request)
  <2>2. /\ Addition(im, e, Named, fileGranules, bytes)
        /\ contents = WithFile(im, e, Named, fileGranules, bytes)
    BY <2>1 DEF Adds
  <2>3. Sound(im.fat, im.dir) /\ im = WithoutFile(disk, Named)
    BY <2>2 DEF Addition, WithoutNamed
  <2> HIDE DEF im, bytes
  <2>4. Tidy(im)
    BY <1>1, <2>3, RemovedTidy
  <2> QED BY <1>1, <2>2, <2>4, AddedTidy
<1> QED BY <1>2, <1>3 DEF StoreInv

LEMMA StoreCommit == ASSUME IInv, StoreInv, Commit PROVE StoreInv'
<1>1. disk' = contents /\ Exit("success", None) /\ pc = "commit"
  BY DEF Commit
<1>2. Tidy(contents)
  BY <1>1, CommitsTidy
<1>3. Tidy(disk')
  BY <1>1, <1>2
<1> QED BY <1>1, <1>3, StoreExit

LEMMA StoreCommitFails == ASSUME IInv, StoreInv, CommitFails PROVE StoreInv'
BY DEF StoreInv, CommitFails

LEMMA StoreStepKeeps == ASSUME IInv, StoreInv, [Next]_vars PROVE StoreInv'
<1>1. CASE Step
  BY <1>1, StoreOpen, StoreFindToKill, StoreFreeGranule, StoreBeginAdd, StoreAllocateGranule,
     StoreOutOfSpace, StoreAddFile, StoreOutOfEntries, StoreCommit, StoreCommitFails,
     StoreFindToExtract, StoreExtractGranule, StoreExtractLastGranule, StoreListDirectory
     DEF Step
<1>2. CASE UNCHANGED vars
  <2>1. /\ disk' = disk /\ contents' = contents /\ request' = request /\ pc' = pc
        /\ granuleNo' = granuleNo /\ entry' = entry /\ fileGranules' = fileGranules
        /\ fileContents' = fileContents /\ reply' = reply
    BY <1>2 DEF vars
  <2>2. /\ Named' = Named /\ WithoutNamed' = WithoutNamed
        /\ ChainAt(disk, entry)' = ChainAt(disk, entry)
        /\ FileContents(disk, entry)' = FileContents(disk, entry)
    BY <2>1 DEF Named, WithoutNamed, ChainAt
  <2>3. /\ KillingInOrder' <=> KillingInOrder
        /\ ExtractingInOrder' <=> ExtractingInOrder
        /\ AllocatingInOrder' <=> AllocatingInOrder
    BY <2>1, <2>2 DEF KillingInOrder, ExtractingInOrder, AllocatingInOrder
  <2>4. \A e \in DirEntries : Adds(e)' <=> Adds(e)
    BY <2>1, <2>2 DEF Adds
  <2> QED BY <2>1, <2>2, <2>3, <2>4 DEF StoreInv
<1> QED BY <1>1, <1>2, StoreStart DEF Next

-----------------------------------------------------------------------------
(* The steps of the store. *)

HeldBy(im, n) == IF FilesOf(im)[n] = None THEN 0 ELSE SizeInGranules(Len(FilesOf(im)[n]))

OtherFiles(im, n) == {m \in DirNames \ {n} : FilesOf(im)[m] # None}

\* There is room for the file to be written.
FitsOnDisk ==
    /\ request.name \in LegalNames
    /\ SizeToAdd <= Cardinality(FreeGranules(disk.fat)) + HeldBy(disk, Named)
    /\ Cardinality(OtherFiles(disk, Named)) < NumDirEntries

\* The commands of the store, of the image.
Answers(exit, output) == reply = None /\ reply' = [exit |-> exit, output |-> output] /\ request' = request

LEMMA StoreFits ==
    ASSUME request \in Requests, request.op = "write", InPlainUse(request)
    PROVE  /\ Store!Fits <=> FitsOnDisk
           /\ Store!Readable(request) <=> Readable(request)
           /\ Store!Contents(request) = BytesToAdd(request)
           /\ Store!SizeInGranules(Len(Store!Contents(request))) = SizeToAdd
           /\ Store!Held(Store!Named) = HeldBy(disk, Named)
           /\ Store!Named = Named
<1>1. Store!Contents(request) = BytesToAdd(request)
  BY AddsContents
<1>2. Store!Readable(request) <=> Readable(request)
  BY DEF Store!Readable, Readable, Store!LinesFit, LinesFit
<1>3. Store!Named = Named
  BY DEF Store!Named, Named
<1>4. \A n : Store!SizeInGranules(n) = SizeInGranules(n)
  BY DEF Store!SizeInGranules, SizeInGranules, Store!RoundedUp, RoundedUp, Store!BytesPerGranule, BytesPerGranule
<1>5. Store!SizeInGranules(Len(Store!Contents(request))) = SizeToAdd
  BY <1>1, <1>4 DEF SizeToAdd
<1>6. Store!Held(Store!Named) = HeldBy(disk, Named)
  BY <1>3, <1>4 DEF Store!Held, HeldBy
<1>7. \A S : Store!Cardinality(S) = Cardinality(S)
  BY DEF Store!Cardinality, Cardinality
<1>8. Store!Fits <=> FitsOnDisk
  BY <1>3, <1>5, <1>6, <1>7 DEF Store!Fits, FitsOnDisk, OtherFiles
<1> QED BY <1>1, <1>2, <1>3, <1>5, <1>6, <1>8

LEMMA Stays ==
    ASSUME disk' = disk
    PROVE  FilesOf(disk)' = FilesOf(disk) /\ Cardinality(FreeGranules(disk.fat))' = Cardinality(FreeGranules(disk.fat))
BY DEF FilesOf, FreeGranules, Matches, FileContents, FileFrom, FilesFrom

\* A write that leaves the image as it is.
LEMMA RefusedWrite ==
    ASSUME request \in Requests, request.op = "write", InPlainUse(request),
           ~(Readable(request) /\ FitsOnDisk), disk' = disk, Answers("failure", None)
    PROVE  Store!StoreNext
<1>1. Store!Reply("failure", None) /\ UNCHANGED <<FilesOf(disk), Cardinality(FreeGranules(disk.fat))>>
  BY Stays DEF Answers, Store!Reply
<1>2. ~(Store!Readable(request) /\ Store!Fits)
  BY StoreFits
<1>3. Store!Write
  BY <1>1, <1>2 DEF Store!Write
<1> QED BY <1>3 DEF Store!StoreNext, Answers

LEMMA RefusedRead ==
    ASSUME request.op = "read",
           \/ FilesOf(disk)[Named] = None
           \/ request.outcome # "written"
           \/ request.mode = "file" /\ request.exists,
           disk' = disk, Answers("failure", None)
    PROVE  Store!StoreNext
<1>1. Store!Reply("failure", None) /\ UNCHANGED <<FilesOf(disk), Cardinality(FreeGranules(disk.fat))>>
  BY Stays DEF Answers, Store!Reply
<1>2. Store!Read
  BY <1>1 DEF Store!Read, Store!Named, Named
<1> QED BY <1>2 DEF Store!StoreNext, Answers

LEMMA AnsweredRead ==
    ASSUME request.op = "read", FilesOf(disk)[Named] # None, request.outcome = "written",
           ~(request.mode = "file" /\ request.exists),
           disk' = disk, Answers("success", FilesOf(disk)[Named])
    PROVE  Store!StoreNext
<1>1. Store!Named = Named
  BY DEF Store!Named, Named
<1>2. Store!Reply("success", FilesOf(disk)[Store!Named])
      /\ UNCHANGED <<FilesOf(disk), Cardinality(FreeGranules(disk.fat))>>
  BY <1>1, Stays DEF Answers, Store!Reply
<1>3. Store!Read
  BY <1>1, <1>2 DEF Store!Read
<1> QED BY <1>3 DEF Store!StoreNext, Answers

LEMMA AnsweredKill ==
    ASSUME request.op = "kill",
           FilesOf(disk') = [FilesOf(disk) EXCEPT ![Named] = None],
           Cardinality(FreeGranules(disk'.fat)) = Cardinality(FreeGranules(disk.fat)) + HeldBy(disk, Named),
           Answers("success", None)
    PROVE  Store!StoreNext
<1>1. Store!Named = Named /\ Store!Reply("success", None)
  BY DEF Store!Named, Named, Answers, Store!Reply
<1>2. Store!Held(Store!Named) = HeldBy(disk, Named)
  BY <1>1 DEF Store!Held, HeldBy, Store!SizeInGranules, SizeInGranules, Store!RoundedUp, RoundedUp,
              Store!BytesPerGranule, BytesPerGranule
<1>3. Store!Kill
  BY <1>1, <1>2 DEF Store!Kill
<1> QED BY <1>3 DEF Store!StoreNext, Answers

LEMMA AnsweredWrite ==
    ASSUME request \in Requests, request.op = "write", InPlainUse(request),
           Readable(request), FitsOnDisk,
           FilesOf(disk') = [FilesOf(disk) EXCEPT ![Named] = BytesToAdd(request)],
           Cardinality(FreeGranules(disk'.fat))
             = Cardinality(FreeGranules(disk.fat)) + HeldBy(disk, Named) - SizeToAdd,
           Answers("success", None)
    PROVE  Store!StoreNext
<1>1. Store!Reply("success", None)
  BY DEF Answers, Store!Reply
<1>2. Store!Write
  BY <1>1, StoreFits DEF Store!Write
<1> QED BY <1>2 DEF Store!StoreNext, Answers

\* A command that came to the writing of the image, which fails.
LEMMA FailedWrite ==
    ASSUME \/ request.op = "kill"
           \/ /\ request \in Requests /\ request.op = "write" /\ InPlainUse(request)
              /\ Readable(request) /\ FitsOnDisk,
           FilesOf(disk') = [FilesOf(disk) EXCEPT ![Named] = FilesOf(disk')[Named]],
           Answers("failure", None)
    PROVE  Store!StoreNext
<1>1. Store!Named = Named /\ Store!Reply("failure", None)
  BY DEF Store!Named, Named, Answers, Store!Reply
<1>2. request.op = "kill" \/ (request.op = "write" /\ Store!Readable(request) /\ Store!Fits)
  BY StoreFits
<1>3. Store!WriteFails
  BY <1>1, <1>2 DEF Store!WriteFails
<1> QED BY <1>3 DEF Store!StoreNext, Answers

\* The image once the file of a name has been killed.
WithoutIs(im, n, w) ==
    /\ w \in Image /\ HeldBy(im, n) \in Nat
    /\ FilesOf(w) = [FilesOf(im) EXCEPT ![n] = None]
    /\ Cardinality(FreeGranules(w.fat)) = Cardinality(FreeGranules(im.fat)) + HeldBy(im, n)
    /\ Cardinality(OtherFiles(im, n)) < NumDirEntries <=> \E e \in DirEntries : ~InUse(w.dir[e])

LEMMA Without ==
    ASSUME NEW im \in Image, Sound(im.fat, im.dir), Tidy(im), None \notin Seq(Bytes), NEW n \in DirNames,
           NEW w, w = WithoutFile(im, n), Sound(w.fat, w.dir)
    PROVE  WithoutIs(im, n, w)
<1>1. /\ FilesOf(w) = [FilesOf(im) EXCEPT ![n] = None]
      /\ Cardinality(FreeGranules(w.fat)) = Cardinality(FreeGranules(im.fat)) + HeldBy(im, n)
      /\ \A d \in DirEntries : w.dir[d].name # n
  BY StoreRemoved DEF HeldBy
<1>2. w \in Image
  BY RemovedTidy
<1>3. OtherFiles(w, n) = OtherFiles(im, n)
  <2>1. \A m \in DirNames \ {n} : FilesOf(w)[m] = FilesOf(im)[m]
    BY <1>1 DEF FilesOf
  <2> QED BY <2>1 DEF OtherFiles
<1> DEFINE N == OtherFiles(w, n)
<1>4. N = {m \in DirNames \ {n} : FilesOf(w)[m] # None}
  BY DEF OtherFiles
<1> HIDE DEF N
<1>5. Cardinality(N) < NumDirEntries <=> \E e \in DirEntries : ~InUse(w.dir[e])
  BY <1>1, <1>2, <1>4, FilesAndEntries
<1>6. HeldBy(im, n) \in Nat
  <2>1. ASSUME FilesOf(im)[n] # None PROVE Len(FilesOf(im)[n]) \in Nat
    <3>1. FilesOf(im)[n] \in Seq(Bytes)
      BY <2>1, FileOfName
    <3> QED BY <3>1
  <2> QED BY <2>1, Sizes DEF HeldBy
<1> QED BY <1>1, <1>2, <1>3, <1>5, <1>6 DEF WithoutIs, N

\* What holds while a command runs.
LEMMA Running ==
    ASSUME IInv, StoreInv, TidyImages, PlainUse, pc \notin {"idle", "torn"}
    PROVE  /\ disk \in Image /\ Sound(disk.fat, disk.dir) /\ Tidy(disk) /\ reply = None
           /\ request \in Requests /\ InPlainUse(request) /\ None \notin Seq(Bytes)
           /\ request.op \in {"write", "kill", "read", "list"}
           /\ request.op # "list" => Named \in DirNames
BY RequestsAssumption DEF IInv, TypeOK, DiskSound, StoreInv, TidyImages, PlainUse, Named

\* addFile() works on the image without the old file.
LEMMA Adding ==
    ASSUME IInv, StoreInv, TidyImages, PlainUse, pc \in {"add", "allocate"}
    PROVE  /\ contents = WithoutNamed /\ WithoutIs(disk, Named, contents) /\ Named \in DirNames
           /\ request.op = "write" /\ Sound(contents.fat, contents.dir)
<1>1. contents = WithoutNamed /\ request.op = "write" /\ Sound(contents.fat, contents.dir)
  BY DEF IInv, StoreInv
<1>2. contents = WithoutFile(disk, Named)
  BY <1>1 DEF WithoutNamed
<1> QED BY <1>1, <1>2, Running, Without

LEMMA FailAnswers == ASSUME Fail, reply = None PROVE disk' = disk /\ Answers("failure", None)
BY DEF Fail, Exit, Answers

LEMMA OpenInStore ==
    ASSUME IInv, StoreInv, TidyImages, PlainUse, Open, ~UNCHANGED <<disk, request, reply>>
    PROVE  Store!StoreNext
<1>1. pc = "open" /\ ~Openable(request) /\ Fail
  BY DEF Open
<1>2. /\ request \in Requests /\ InPlainUse(request) /\ reply = None
      /\ request.op \in {"write", "kill", "read", "list"}
  BY <1>1, Running
<1>3. disk' = disk /\ Answers("failure", None)
  BY <1>1, <1>2, FailAnswers
<1>4. CASE request.op = "write"
  BY <1>1, <1>2, <1>3, <1>4, RefusedWrite DEF Openable
<1>5. CASE request.op = "read"
  BY <1>1, <1>3, <1>5, RefusedRead DEF Openable
<1>6. CASE request.op \notin {"write", "read"}
  BY <1>1, <1>6 DEF Openable
<1> QED BY <1>4, <1>5, <1>6

LEMMA BeginAddInStore ==
    ASSUME IInv, StoreInv, TidyImages, PlainUse, BeginAdd, ~UNCHANGED <<disk, request, reply>>
    PROVE  Store!StoreNext
<1>1. pc = "add" /\ request.name \notin LegalNames /\ Fail
  BY DEF BeginAdd
<1>2. request.op = "write" /\ request \in Requests /\ InPlainUse(request) /\ reply = None
  BY <1>1, Running, Adding
<1>3. disk' = disk /\ Answers("failure", None)
  BY <1>1, <1>2, FailAnswers
<1>4. ~FitsOnDisk
  BY <1>1 DEF FitsOnDisk
<1> QED BY <1>2, <1>3, <1>4, RefusedWrite

LEMMA OutOfEntriesInStore ==
    ASSUME IInv, StoreInv, TidyImages, PlainUse, OutOfEntries
    PROVE  Store!StoreNext
<1>1. pc = "allocate" /\ (\A e \in DirEntries : InUse(contents.dir[e])) /\ Fail
  BY DEF OutOfEntries
<1>2. request.op = "write" /\ request \in Requests /\ InPlainUse(request) /\ reply = None
      /\ WithoutIs(disk, Named, contents)
  BY <1>1, Running, Adding
<1>3. disk' = disk /\ Answers("failure", None)
  BY <1>1, <1>2, FailAnswers
<1>4. ~FitsOnDisk
  BY <1>1, <1>2 DEF FitsOnDisk, WithoutIs
<1> QED BY <1>2, <1>3, <1>4, RefusedWrite

\* allocateGranules() has found every free granule.
LEMMA AllAllocated ==
    ASSUME granuleNo \in 0..NumGranules, AllocatingInOrder, \A g \in Granules : ~IsNextFree(g)
    PROVE  FreeGranules(contents.fat) \subseteq GranulesOf(fileGranules)
<1> SUFFICES ASSUME NEW g \in Granules, contents.fat[g] = FreeFatEntry
             PROVE  g \in GranulesOf(fileGranules)
  BY DEF FreeGranules
<1>1. CASE g < granuleNo
  BY <1>1 DEF AllocatingInOrder, GranulesOf
<1>2. CASE ~(g < granuleNo)
  <2> DEFINE T == {h \in Granules : contents.fat[h] = FreeFatEntry /\ granuleNo <= h}
  <2>1. \A h \in Granules : h \in Nat /\ h \in Int
    BY DEF Granules
  <2>2. T \subseteq Nat /\ T # {}
    BY <1>2, <2>1
  <2>3. PICK n \in T : \A m \in T : n <= m
    <3> HIDE DEF T
    <3> QED BY <2>2, Least
  <2>4. n \in Granules /\ contents.fat[n] = FreeFatEntry /\ granuleNo <= n
    BY <2>3
  <2>5. n \in granuleNo..(NumGranules - 1)
    BY <2>4 DEF Granules
  <2>6. ASSUME NEW h \in granuleNo..(n - 1), contents.fat[h] = FreeFatEntry PROVE FALSE
    <3>1. h \in Granules /\ granuleNo <= h /\ h < n
      <4>1. n \in Int /\ n <= NumGranules - 1 /\ granuleNo \in Nat
        BY <2>4 DEF Granules
      <4>2. h \in Int /\ granuleNo <= h /\ h <= n - 1
        BY <4>1
      <4> QED BY <4>1, <4>2, UnitSizes DEF Granules
    <3>2. h \in T
      BY <2>6, <3>1
    <3>3. n <= h
      <4> HIDE DEF T
      <4> QED BY <2>3, <3>2
    <3> QED BY <2>1, <2>4, <3>1, <3>3
  <2> QED BY <2>4, <2>5, <2>6 DEF IsNextFree
<1> QED BY <1>1, <1>2

LEMMA OutOfSpaceInStore ==
    ASSUME IInv, StoreInv, TidyImages, PlainUse, OutOfSpace
    PROVE  Store!StoreNext
<1>1. /\ pc = "allocate" /\ Len(fileGranules) < SizeToAdd /\ (\A g \in Granules : ~IsNextFree(g)) /\ Fail
      /\ AllocatingInOrder /\ granuleNo \in 0..NumGranules /\ fileGranules \in Seq(Granules)
      /\ Ascending(fileGranules)
  BY DEF OutOfSpace, StoreInv, IInv, TypeOK, Allocating
<1>2. request.op = "write" /\ request \in Requests /\ InPlainUse(request) /\ reply = None
      /\ WithoutIs(disk, Named, contents)
  BY <1>1, Running, Adding
<1>3. disk' = disk /\ Answers("failure", None)
  BY <1>1, <1>2, FailAnswers
<1> DEFINE s == fileGranules
           free == FreeGranules(contents.fat)
           c == Cardinality(free)
           g == Cardinality(GranulesOf(s))
<1>4. free \subseteq GranulesOf(s)
  BY <1>1, AllAllocated
<1>5. IsFiniteSet(GranulesOf(s)) /\ g = Len(s)
  <2>1. \A j, k \in 1..Len(s) : s[j] = s[k] => j = k
    BY <1>1, AscendingInjective
  <2> HIDE DEF s
  <2> QED BY <1>1, <2>1, CountGranules DEF s
<1>6. c <= g /\ c \in Nat
  <2> HIDE DEF free, s
  <2>1. IsFiniteSet(free) /\ Cardinality(free) \in Nat
    BY GranulesFinite DEF free
  <2> QED BY <1>4, <1>5, <2>1, FS_Subset
<1>7. SizeToAdd \in Nat
  <2>1. BytesToAdd(request) \in Seq(Bytes)
    BY <1>2, BytesToAddTyped
  <2>2. Len(BytesToAdd(request)) \in Nat
    BY <2>1
  <2> QED BY <2>2, Sizes DEF SizeToAdd
<1>8. ~(SizeToAdd <= c)
  <2> HIDE DEF c, g
  <2>1. Len(fileGranules) \in Nat
    BY <1>1
  <2> QED BY <1>1, <1>5, <1>6, <1>7, <2>1 DEF s
<1>9. c = Cardinality(FreeGranules(disk.fat)) + HeldBy(disk, Named)
  BY <1>2 DEF WithoutIs
<1>10. ~FitsOnDisk
  <2> HIDE DEF c
  <2> QED BY <1>8, <1>9 DEF FitsOnDisk
<1> QED BY <1>2, <1>3, <1>10, RefusedWrite

\* commit() writes the image without the file of the name, or with the new one.
LEMMA Written ==
    ASSUME IInv, StoreInv, TidyImages, PlainUse, NEW e \in DirEntries, Adds(e)
    PROVE  pc = "commit" =>
             /\ WithoutIs(disk, Named, WithoutNamed) /\ Sound(WithoutNamed.fat, WithoutNamed.dir)
             /\ Addition(WithoutNamed, e, Named, fileGranules, BytesToAdd(request))
             /\ contents = WithFile(WithoutNamed, e, Named, fileGranules, BytesToAdd(request))
             /\ Sound(contents.fat, contents.dir) /\ contents \in Image
             /\ Named \in DirNames /\ Leaves(disk, contents, Named)
<1> SUFFICES ASSUME pc = "commit"
             PROVE  /\ WithoutIs(disk, Named, WithoutNamed) /\ Sound(WithoutNamed.fat, WithoutNamed.dir)
                    /\ Addition(WithoutNamed, e, Named, fileGranules, BytesToAdd(request))
                    /\ contents = WithFile(WithoutNamed, e, Named, fileGranules, BytesToAdd(request))
                    /\ Sound(contents.fat, contents.dir) /\ contents \in Image
                    /\ Named \in DirNames /\ Leaves(disk, contents, Named)
  OBVIOUS
<1> DEFINE im == WithoutNamed
           bytes == BytesToAdd(request)
<1>1. /\ disk \in Image /\ Sound(disk.fat, disk.dir) /\ Tidy(disk) /\ None \notin Seq(Bytes)
      /\ request \in Requests /\ request.op \in {"write", "kill"}
  BY Running DEF StoreInv
<1>2. Named \in DirNames
  BY <1>1, RequestsAssumption DEF Named
<1>3. /\ Addition(im, e, Named, fileGranules, bytes)
      /\ contents = WithFile(im, e, Named, fileGranules, bytes)
  BY DEF Adds
<1>4. Sound(im.fat, im.dir) /\ im \in Image /\ im = WithoutFile(disk, Named)
  BY <1>3 DEF Addition, WithoutNamed
<1>5. Sound(contents.fat, contents.dir) /\ contents \in Image
  BY DEF IInv, TypeOK
<1> HIDE DEF im, bytes
<1>6. WithoutIs(disk, Named, im)
  BY <1>1, <1>2, <1>4, Without
<1>7. Leaves(disk, im, Named)
  BY <1>1, <1>2, <1>4, RemovalLeaves
<1>8. Leaves(im, contents, Named)
  BY <1>3, <1>5, AddedLeaves
<1>9. Leaves(disk, contents, Named)
  BY <1>1, <1>4, <1>7, <1>8, LeavesTwice
<1> QED BY <1>2, <1>3, <1>4, <1>5, <1>6, <1>9 DEF im, bytes

\* What an image with a file added is, next to the disk: the file fits there.
LEMMA AddedFits ==
    ASSUME IInv, StoreInv, TidyImages, PlainUse, pc = "commit", request.op = "write",
           NEW e \in DirEntries, Adds(e)
    PROVE  /\ Readable(request) /\ FitsOnDisk
           /\ FilesOf(contents) = [FilesOf(disk) EXCEPT ![Named] = BytesToAdd(request)]
           /\ Cardinality(FreeGranules(contents.fat))
                = Cardinality(FreeGranules(disk.fat)) + HeldBy(disk, Named) - SizeToAdd
<1> DEFINE im == WithoutNamed
           bytes == BytesToAdd(request)
           s == fileGranules
           n == Named
<1>1. /\ disk \in Image /\ Sound(disk.fat, disk.dir) /\ Tidy(disk) /\ None \notin Seq(Bytes)
      /\ request \in Requests /\ Named \in DirNames
  BY Running
<1>2. /\ WithoutIs(disk, n, im) /\ Addition(im, e, n, s, bytes)
      /\ contents = WithFile(im, e, n, s, bytes) /\ Sound(contents.fat, contents.dir)
  BY <1>1, Written
<1>3. request.name \in LegalNames /\ Readable(request)
  BY DEF Adds, StoreInv, Openable
<1>4. SizeToAdd = SizeInGranules(Len(bytes))
  BY DEF SizeToAdd
<1> HIDE DEF im, bytes, s, n
<1>5. /\ FilesOf(contents) = [FilesOf(im) EXCEPT ![n] = bytes]
      /\ Cardinality(FreeGranules(contents.fat)) = Cardinality(FreeGranules(im.fat)) - SizeToAdd
      /\ SizeToAdd <= Cardinality(FreeGranules(im.fat))
  BY <1>1, <1>2, <1>4, StoreAdded
<1>6. /\ FilesOf(im) = [FilesOf(disk) EXCEPT ![n] = None]
      /\ Cardinality(FreeGranules(im.fat)) = Cardinality(FreeGranules(disk.fat)) + HeldBy(disk, n)
  BY <1>2 DEF WithoutIs
<1>7. FilesOf(contents) = [FilesOf(disk) EXCEPT ![n] = bytes]
  <2> DEFINE f == FilesOf(disk)
  <2> HIDE DEF f
  <2>1. FilesOf(contents) = [[f EXCEPT ![n] = None] EXCEPT ![n] = bytes]
    BY <1>5, <1>6 DEF f
  <2>2. FilesOf(contents) = [f EXCEPT ![n] = bytes]
    BY <2>1
  <2> QED BY <2>2 DEF f
<1>8. /\ Cardinality(FreeGranules(contents.fat)) = Cardinality(FreeGranules(disk.fat)) + HeldBy(disk, n) - SizeToAdd
      /\ SizeToAdd <= Cardinality(FreeGranules(disk.fat)) + HeldBy(disk, n)
  <2> DEFINE before  == Cardinality(FreeGranules(disk.fat))
             without == Cardinality(FreeGranules(im.fat))
             after   == Cardinality(FreeGranules(contents.fat))
             held    == HeldBy(disk, n)
             size    == SizeToAdd
  <2>1. after = without - size /\ size <= without /\ without = before + held
    BY <1>5, <1>6
  <2>2. before \in Nat /\ held \in Nat /\ size \in Nat
    <3>1. bytes \in Seq(Bytes)
      BY <1>2 DEF Addition
    <3>2. Len(bytes) \in Nat
      BY <3>1
    <3> QED BY <1>1, <1>2, <1>4, <3>2, Sizes, GranulesFinite DEF WithoutIs
  <2> HIDE DEF before, without, after, held, size
  <2>3. after = before + held - size /\ size <= before + held
    BY <2>1, <2>2
  <2> QED BY <2>3 DEF before, after, held, size
<1>9. Cardinality(OtherFiles(disk, n)) < NumDirEntries
  <2>1. ~InUse(im.dir[e])
    BY <1>2 DEF Addition
  <2> QED BY <1>2, <2>1 DEF WithoutIs
<1>10. FitsOnDisk
  BY <1>3, <1>8, <1>9 DEF FitsOnDisk, n
<1> QED BY <1>3, <1>7, <1>8, <1>10 DEF n, bytes

LEMMA CommitInStore ==
    ASSUME IInv, StoreInv, TidyImages, PlainUse, Commit
    PROVE  Store!StoreNext
<1>1. /\ disk \in Image /\ Sound(disk.fat, disk.dir) /\ Tidy(disk) /\ None \notin Seq(Bytes)
      /\ request \in Requests /\ InPlainUse(request) /\ reply = None /\ pc = "commit"
      /\ request.op # "list" => Named \in DirNames
  BY Running DEF Commit
<1>2. disk' = contents /\ Answers("success", None)
  BY <1>1 DEF Commit, Exit, Answers
<1>3. CASE request.op = "kill" /\ contents = WithoutNamed
  <2>1. Sound(contents.fat, contents.dir) /\ contents = WithoutFile(disk, Named)
    BY <1>1, <1>3 DEF IInv, WithoutNamed
  <2>2. WithoutIs(disk, Named, contents)
    BY <1>1, <1>3, <2>1, Without
  <2>3. /\ FilesOf(disk') = [FilesOf(disk) EXCEPT ![Named] = None]
        /\ Cardinality(FreeGranules(disk'.fat)) = Cardinality(FreeGranules(disk.fat)) + HeldBy(disk, Named)
    BY <1>2, <2>2 DEF WithoutIs
  <2> QED BY <1>2, <1>3, <2>3, AnsweredKill
<1>4. CASE request.op = "write" /\ \E e \in DirEntries : Adds(e)
  <2>1. PICK e \in DirEntries : Adds(e)
    BY <1>4
  <2>2. /\ Readable(request) /\ FitsOnDisk
        /\ FilesOf(contents) = [FilesOf(disk) EXCEPT ![Named] = BytesToAdd(request)]
        /\ Cardinality(FreeGranules(contents.fat))
             = Cardinality(FreeGranules(disk.fat)) + HeldBy(disk, Named) - SizeToAdd
    BY <1>1, <1>4, <2>1, AddedFits
  <2>3. /\ FilesOf(disk') = [FilesOf(disk) EXCEPT ![Named] = BytesToAdd(request)]
        /\ Cardinality(FreeGranules(disk'.fat))
             = Cardinality(FreeGranules(disk.fat)) + HeldBy(disk, Named) - SizeToAdd
    BY <1>2, <2>2
  <2> QED BY <1>1, <1>2, <1>4, <2>2, <2>3, AnsweredWrite
<1> QED BY <1>1, <1>3, <1>4 DEF StoreInv

\* A write that stops leaves a part of the image as it was.
LEMMA TornIsPart ==
    ASSUME disk \in Image, contents \in Image, NEW n \in 0..(NumGranules + 1)
    PROVE  Torn(n) \in Image /\ PartOf(disk, contents, Torn(n))
<1>1. Torn(n) \in Image
  BY DEF Torn, Image
<1>2. PartOf(disk, contents, Torn(n))
  BY DEF Torn, PartOf
<1> QED BY <1>1, <1>2

LEMMA CommitFailsInStore ==
    ASSUME IInv, StoreInv, TidyImages, PlainUse, CommitFails
    PROVE  Store!StoreNext
<1>1. /\ disk \in Image /\ Sound(disk.fat, disk.dir) /\ Tidy(disk) /\ None \notin Seq(Bytes)
      /\ request \in Requests /\ InPlainUse(request)
      /\ reply = None /\ pc = "commit" /\ contents \in Image
      /\ request.op # "list" => Named \in DirNames
  BY Running DEF CommitFails, IInv, TypeOK
<1>2. request.op \in {"write", "kill"}
  BY <1>1 DEF StoreInv
<1>3. Answers("failure", None)
  BY <1>1 DEF CommitFails, Answers
<1>4. PICK n \in 0..(NumGranules + 1) : disk' = Torn(n)
  BY DEF CommitFails
<1> DEFINE torn == Torn(n)
           name == Named
<1>5. torn \in Image /\ PartOf(disk, contents, torn)
  BY <1>1, TornIsPart
<1>6. name \in DirNames
  BY <1>1, <1>2
<1>7. Leaves(disk, contents, name)
  <2>1. CASE contents = WithoutNamed
    BY <1>1, <1>6, <2>1, RemovalLeaves DEF WithoutNamed
  <2>2. CASE \E e \in DirEntries : Adds(e)
    BY <1>1, <2>2, Written
  <2> QED BY <1>1, <2>1, <2>2 DEF StoreInv
<1> HIDE DEF torn, name
<1>8. Leaves(disk, torn, name)
  BY <1>1, <1>5, <1>7, PartLeaves
<1>9. \A m \in DirNames \ {name} : FilesOf(torn)[m] = FilesOf(disk)[m]
  BY <1>1, <1>5, <1>8, OthersStay
<1>10. FilesOf(torn) = [FilesOf(disk) EXCEPT ![name] = FilesOf(torn)[name]]
  <2> DEFINE f == FilesOf(disk)
             h == FilesOf(torn)
  <2>1. f = [m \in DirNames |-> f[m]] /\ h = [m \in DirNames |-> h[m]]
    BY DEF FilesOf
  <2> HIDE DEF f, h
  <2>2. h = [f EXCEPT ![name] = h[name]]
    BY <1>6, <1>9, <2>1 DEF f, h
  <2> QED BY <2>2 DEF f, h
<1>11. FilesOf(disk') = [FilesOf(disk) EXCEPT ![Named] = FilesOf(disk')[Named]]
  BY <1>4, <1>10 DEF torn, name
<1>12. request.op = "write" => Readable(request) /\ FitsOnDisk
  BY <1>1, AddedFits DEF StoreInv
<1> QED BY <1>1, <1>2, <1>3, <1>11, <1>12, FailedWrite

LEMMA FindToExtractInStore ==
    ASSUME IInv, StoreInv, TidyImages, PlainUse, FindToExtract, ~UNCHANGED <<disk, request, reply>>
    PROVE  Store!StoreNext
<1>1. /\ pc = "find" /\ request.op = "read" /\ contents = disk
      /\ Matches(contents.dir, DirNameOf[request.name]) = {} /\ Fail
  BY DEF FindToExtract, StoreInv
<1>2. reply = None /\ Named \in DirNames /\ disk \in Image /\ Sound(disk.fat, disk.dir)
  BY <1>1, Running
<1>3. disk' = disk /\ Answers("failure", None)
  BY <1>1, <1>2, FailAnswers
<1>4. FilesOf(disk)[Named] = None
  BY <1>1, <1>2, FileOfName DEF Named
<1> QED BY <1>1, <1>3, <1>4, RefusedRead

LEMMA ExtractLastGranuleInStore ==
    ASSUME IInv, StoreInv, TidyImages, PlainUse, ExtractLastGranule
    PROVE  Store!StoreNext
<1> DEFINE s == ChainAt(disk, entry)
           f == FileContents(disk, entry)
           last == SubSeq(disk.gran[granuleNo], 1, BytesInLastGranule(disk.fat[granuleNo], disk.dir[entry].lastBytes))
<1>1. /\ pc = "extract" /\ request.op = "read" /\ contents = disk /\ Openable(request)
      /\ ExtractingInOrder /\ entry \in Matches(disk.dir, Named) /\ IsLast(disk.fat[granuleNo]) /\ disk' = disk
  BY DEF ExtractLastGranule, StoreInv, ExtractingInOrder
<1>2. /\ reply = None /\ Named \in DirNames /\ disk \in Image /\ Sound(disk.fat, disk.dir)
      /\ None \notin Seq(Bytes) /\ request.outcome # "cannot create"
  BY <1>1, Running DEF InPlainUse
<1>3. /\ entry \in DirEntries /\ InUse(disk.dir[entry])
      /\ FilesOf(disk)[Named] = f /\ f \in Seq(Bytes)
  BY <1>1, <1>2, FileOfName, FileTyped
<1>4. ~(request.mode = "file" /\ request.exists)
  BY <1>1 DEF Openable
<1>5. CASE request.outcome = "cannot write" /\ Exit("failure", None)
  <2>1. Answers("failure", None)
    BY <1>2, <1>5 DEF Exit, Answers
  <2> QED BY <1>1, <1>5, <2>1, RefusedRead
<1>6. CASE request.outcome = "written" /\ Exit("success", BytesOfLastGranule)
  <2>1. IsChain(disk.fat, disk.dir[entry].gran, s)
    BY <1>2, <1>3, ChainOf
  <2>2. PICK k \in 1..Len(s) : granuleNo = s[k] /\ fileContents = SubSeq(f, 1, (k - 1) * BytesPerGranule)
    BY <1>1 DEF ExtractingInOrder
  <2>3. BytesOfLastGranule = fileContents \o last
    BY <1>1 DEF BytesOfLastGranule
  <2> DEFINE a == (k - 1) * BytesPerGranule
             z == BytesInLastGranule(disk.fat[s[k]], disk.dir[entry].lastBytes)
             p == SubSeq(disk.gran[s[k]], 1, z)
  <2>4. p = last
    BY <2>2
  <2>5. FollowsInTurn(disk, s, k, f, a) /\ (k = Len(s) => EndsInTurn(disk, s, k, f, a, z))
    <3>1. s = ChainAt(disk, entry) /\ f = FileContents(disk, entry) /\ a = (k - 1) * BytesPerGranule
      OBVIOUS
    <3> HIDE DEF s, f, a
    <3>2. FollowsInTurn(disk, s, k, f, a)
      BY <1>2, <1>3, <3>1, GranuleFollows
    <3>3. k = Len(s) => EndsInTurn(disk, s, k, f, a, BytesInLastGranule(disk.fat[s[k]], disk.dir[entry].lastBytes))
      BY <1>2, <1>3, <3>1, GranuleFollows
    <3> QED BY <3>2, <3>3
  <2> HIDE DEF s, f, last
  <2>6. k = Len(s)
    BY <1>1, <2>1, <2>2, AlongChain
  <2> HIDE DEF z
  <2>7. /\ a \in Nat /\ LiesBehind(f, a, p) /\ p \in Seq(Bytes) /\ Len(f) = a + Len(p)
    BY <2>5, <2>6 DEF FollowsInTurn, EndsInTurn
  <2> DEFINE m == Len(f)
  <2> HIDE DEF p, a, m
  <2>8. m = a + Len(p)
    BY <2>7 DEF m
  <2>9. SubSeq(f, 1, a) \o p = SubSeq(f, 1, m)
    BY <1>3, <2>7, <2>8, PrefixGrows
  <2>10. SubSeq(f, 1, m) = f
    BY <1>3 DEF m
  <2>11. BytesOfLastGranule = f
    BY <2>2, <2>3, <2>4, <2>9, <2>10 DEF a
  <2>12. Answers("success", FilesOf(disk)[Named])
    BY <1>2, <1>3, <1>6, <2>11 DEF Exit, Answers, f
  <2> QED BY <1>1, <1>2, <1>3, <1>4, <1>6, <2>12, AnsweredRead DEF f
<1> QED BY <1>2, <1>5, <1>6 DEF ExtractLastGranule

-----------------------------------------------------------------------------
(* listDirectory() *)

LEMMA AllListed ==
    ASSUME NEW fat, NEW dir \in [DirEntries -> Entry], Sound(fat, dir)
    PROVE  Listed(dir) = {e \in DirEntries : InUse(dir[e])}
<1> SUFFICES ASSUME NEW e \in DirEntries, InUse(dir[e]), NEW f \in 1..(e - 1)
             PROVE  dir[f].name # NeverUsed
  BY DEF Listed
<1>1. f \in DirEntries /\ f < e
  BY ImageAssumption DEF DirEntries
<1>2. dir[e].name # NeverUsed
  BY ImageAssumption DEF InUse
<1> QED BY <1>1, <1>2 DEF Sound, NoFileBehindEnd

LEMMA LengthListed ==
    ASSUME contents \in Image, Sound(contents.fat, contents.dir), NEW e \in DirEntries,
           InUse(contents.dir[e]), TidyFile(contents, e)
    PROVE  ListedLength(e) = Len(FileContents(contents, e))
<1> DEFINE s == ChainAt(contents, e)
           f == FileContents(contents, e)
           end == contents.fat[s[Len(s)]]
           lastBytes == contents.dir[e].lastBytes
           a == (Len(s) - 1) * BytesPerGranule
           z == BytesInLastGranule(end, lastBytes)
           head == contents.dir[e].gran
           size == (Len(s) - 1) * BytesPerGranule + BytesInLastGranule(contents.fat[s[Len(s)]], lastBytes)
<1>1. IsChain(contents.fat, head, s) /\ lastBytes \in 0..BytesPerSector
  <2>1. IsChain(contents.fat, head, s)
    BY ChainOf
  <2>2. contents.dir[e] \in Entry
    BY DEF Image
  <2> QED BY <2>1, <2>2 DEF Entry
<1>2. IsLast(end) /\ (end = LastMark => lastBytes = 0)
  BY <1>1 DEF IsChain, TidyFile
<1>3. Len(f) = a + z
  <2>1. f = FileFrom(contents, head, lastBytes)
    BY DEF FileContents
  <2>2. size = (Len(s) - 1) * BytesPerGranule + BytesInLastGranule(contents.fat[s[Len(s)]], lastBytes)
    OBVIOUS
  <2> HIDE DEF f, s, head, lastBytes, size
  <2>3. Len(f) = size
    BY <1>1, <2>1, <2>2, FileOfChain
  <2> QED BY <2>3 DEF size
<1>4. ListedLength(e) = a + lastBytes + IF end > LastMark THEN (end - LastMark - 1) * BytesPerSector ELSE 0
  BY DEF ListedLength, ChainAt
<1>5. a \in Int
  <2>1. Len(s) \in Nat \ {0}
    <3> HIDE DEF s, head
    <3> QED BY <1>1, ChainRange
  <2> HIDE DEF s
  <2>2. Len(s) - 1 \in Nat
    BY <2>1
  <2> QED BY <2>2, UnitSizes, Products
<1> HIDE DEF a, z, end, s, f, lastBytes
<1>6. CASE end = LastMark
  <2>1. z = 0 /\ lastBytes = 0 /\ ~(end > LastMark)
    BY <1>2, <1>6 DEF z, BytesInLastGranule, LastMark
  <2> QED BY <1>3, <1>4, <1>5, <2>1 DEF f
<1>7. CASE end # LastMark
  <2> DEFINE m == (end - LastMark - 1) * BytesPerSector
  <2>1. z = m + lastBytes /\ end > LastMark
    <3>1. z = m + lastBytes
      BY <1>7 DEF z, BytesInLastGranule
    <3>2. end > LastMark
      BY <1>2, <1>7, UnitSizes DEF IsLast, LastMark
    <3> QED BY <3>1, <3>2
  <2>2. m \in Int
    <3>1. end - LastMark - 1 \in Nat
      BY <1>2, <1>7, UnitSizes DEF IsLast, LastMark
    <3> DEFINE q == end - LastMark - 1
    <3> HIDE DEF q
    <3>2. q * BytesPerSector \in Nat
      BY <3>1, UnitSizes, Products DEF q
    <3> QED BY <3>2 DEF q
  <2>3. lastBytes \in Int /\ Len(f) = a + z /\ ListedLength(e) = a + lastBytes + m
    BY <1>1, <1>3, <1>4, <2>1, UnitSizes
  <2> HIDE DEF m
  <2> QED BY <1>5, <2>1, <2>2, <2>3 DEF f
<1> QED BY <1>6, <1>7

\* What is listed is the names and lengths of the files.
LEMMA NamesAndLengths ==
    ASSUME contents \in Image, Sound(contents.fat, contents.dir), Tidy(contents), None \notin Seq(Bytes)
    PROVE  {<<contents.dir[e].name, ListedLength(e)>> : e \in Listed(contents.dir)}
             = {<<n, Len(FilesOf(contents)[n])>> : n \in {m \in DirNames : FilesOf(contents)[m] # None}}
<1> DEFINE files == FilesOf(contents)
           E == {e \in DirEntries : InUse(contents.dir[e])}
           N == {m \in DirNames : files[m] # None}
           A == {<<contents.dir[e].name, ListedLength(e)>> : e \in E}
           B == {<<n, Len(files[n])>> : n \in N}
<1>1. Listed(contents.dir) = E
  BY AllListed DEF Image
<1>2. ASSUME NEW e \in E
      PROVE  /\ contents.dir[e].name \in N
             /\ ListedLength(e) = Len(files[contents.dir[e].name])
  <2> DEFINE n == contents.dir[e].name
  <2>1. n \in DirNames /\ InUse(contents.dir[e])
    BY DEF InUse
  <2>2. e \in Matches(contents.dir, n)
    <3>1. contents.dir \in [DirEntries -> Entry]
      BY DEF Image
    <3> QED BY <2>1, <3>1, EntryOfName
  <2>3. files[n] = FileContents(contents, e) /\ files[n] \in Seq(Bytes)
    BY <2>1, <2>2, FileOfName
  <2>4. ListedLength(e) = Len(FileContents(contents, e))
    BY <2>1, LengthListed DEF Tidy
  <2> QED BY <2>1, <2>3, <2>4
<1>3. ASSUME NEW n \in N PROVE \E e \in E : contents.dir[e].name = n
  <2>1. Matches(contents.dir, n) # {}
    BY <1>3, FileOfName
  <2>2. PICK e \in Matches(contents.dir, n) : TRUE
    BY <2>1
  <2> QED BY <2>2, FileOfName
<1> HIDE DEF files, E, N
<1>4. A \subseteq B
  BY <1>2
<1>5. B \subseteq A
  <2> SUFFICES ASSUME NEW n \in N PROVE <<n, Len(files[n])>> \in A
    OBVIOUS
  <2>1. PICK e \in E : contents.dir[e].name = n
    BY <1>3
  <2> QED BY <1>2, <2>1
<1>6. A = B
  BY <1>4, <1>5
<1> QED BY <1>1, <1>6 DEF files, N

\* The granules of the files are those that are neither free nor lost.
LEMMA NothingLostListed ==
    ASSUME contents \in Image, Sound(contents.fat, contents.dir), Tidy(contents),
           NEW allocated, allocated = UNION {ListedGranules(e) : e \in Listed(contents.dir)}
    PROVE  /\ FreeGranules(contents.fat) \ allocated = FreeGranules(contents.fat)
           /\ Granules \ (FreeGranules(contents.fat) \cup allocated \cup BootGranules) = {}
           /\ \A e \in Listed(contents.dir) : \A g \in ListedGranules(e) : ~(contents.fat[g] > 201)
<1>1. Listed(contents.dir) = {e \in DirEntries : InUse(contents.dir[e])}
  BY AllListed DEF Image
<1>2. \A e : ListedGranules(e) = GranulesOf(ChainAt(contents, e))
  BY DEF ListedGranules, GranulesOf, ChainAt
<1>3. \A e \in Listed(contents.dir) : \A g \in ListedGranules(e) :
          g \in Granules /\ contents.fat[g] # FreeFatEntry
  BY <1>1, <1>2, ChainOf
<1>4. \A g \in Granules \ BootGranules : contents.fat[g] # FreeFatEntry => g \in allocated
  <2> SUFFICES ASSUME NEW g \in Granules \ BootGranules, contents.fat[g] # FreeFatEntry
               PROVE  g \in allocated
    OBVIOUS
  <2>1. PICK e \in DirEntries : InUse(contents.dir[e]) /\ g \in GranulesOf(ChainAt(contents, e))
    BY DEF Tidy, InAFile
  <2> QED BY <1>1, <1>2, <2>1
<1>5. \A g \in allocated : contents.fat[g] # FreeFatEntry
  BY <1>3
<1>6. ASSUME NEW g \in Granules, contents.fat[g] # FreeFatEntry PROVE ~(contents.fat[g] > 201)
  <2>1. IsLink(contents.fat[g]) \/ IsLast(contents.fat[g])
    BY <1>6 DEF Sound, EndsMarked
  <2>2. contents.fat[g] \in 0..255
    BY DEF Image
  <2> QED BY <2>1, <2>2, UnitSizes DEF IsLink, IsLast, LastMark
<1>7. \A e \in Listed(contents.dir) : \A g \in ListedGranules(e) : ~(contents.fat[g] > 201)
  BY <1>3, <1>6
<1> QED BY <1>4, <1>5, <1>7 DEF FreeGranules

LEMMA ListInStore ==
    ASSUME IInv, StoreInv, TidyImages, PlainUse, ListDirectory
    PROVE  Store!StoreNext
<1> DEFINE listed    == Listed(contents.dir)
           allocated == UNION {ListedGranules(e) : e \in listed}
           free      == FreeGranules(contents.fat)
           lengths   == {<<contents.dir[e].name, ListedLength(e)>> : e \in listed}
           lost      == Granules \ (free \cup allocated \cup BootGranules)
<1>1. /\ disk \in Image /\ Sound(disk.fat, disk.dir) /\ Tidy(disk) /\ None \notin Seq(Bytes)
      /\ reply = None /\ contents = disk /\ request.op = "list" /\ disk' = disk
  BY Running DEF ListDirectory, StoreInv
<1>2. /\ free \ allocated = free /\ lost = {}
      /\ ~ \E e \in listed : \E g \in ListedGranules(e) : contents.fat[g] > 201
  BY <1>1, NothingLostListed
<1>3. lengths = {<<n, Len(FilesOf(disk)[n])>> : n \in {m \in DirNames : FilesOf(disk)[m] # None}}
  <2>1. contents \in Image /\ Sound(contents.fat, contents.dir) /\ Tidy(contents)
    BY <1>1
  <2> QED BY <1>1, <2>1, NamesAndLengths
<1>4. Exit("success", [lengths |-> lengths, free |-> Cardinality(free \ allocated), lost |-> lost])
  BY <1>2 DEF ListDirectory
<1> HIDE DEF allocated, lost, lengths
<1>5. Answers("success", [lengths |-> lengths, free |-> Cardinality(free), lost |-> {}])
  BY <1>1, <1>2, <1>4 DEF Exit, Answers
<1>6. Store!Reply("success", [lengths |-> {<<n, Len(FilesOf(disk)[n])>> :
                                              n \in {m \in DirNames : FilesOf(disk)[m] # None}},
                              free |-> Cardinality(FreeGranules(disk.fat)), lost |-> {}])
  BY <1>1, <1>3, <1>5 DEF Answers, Store!Reply
<1>7. UNCHANGED <<FilesOf(disk), Cardinality(FreeGranules(disk.fat))>>
  BY <1>1, Stays
<1>8. Store!List
  BY <1>1, <1>6, <1>7 DEF Store!List
<1> QED BY <1>5, <1>8 DEF Store!StoreNext, Answers

-----------------------------------------------------------------------------
(* The refinement. *)

LEMMA StoreInvariance == ASSUME TidyImages PROVE Spec => [](IInv /\ StoreInv)
<1>1. Init => IInv /\ StoreInv
  BY InitHolds, StoreInit
<1>2. (IInv /\ StoreInv) /\ [Next]_vars => (IInv /\ StoreInv)'
  BY StepKeeps, StoreStepKeeps
<1> QED BY <1>1, <1>2, PTL DEF Spec

LEMMA StartInStore == ASSUME Start PROVE Store!StoreNext
<1>1. disk' = disk /\ request' \in Requests /\ reply' = None
  BY DEF Start
<1>2. UNCHANGED <<FilesOf(disk), Cardinality(FreeGranules(disk.fat))>>
  BY <1>1, Stays
<1>3. Store!Enter
  BY <1>1, <1>2 DEF Store!Enter
<1> QED BY <1>3 DEF Store!StoreNext

LEMMA StepInStore ==
    ASSUME TidyImages, PlainUse, IInv, StoreInv, [Next]_vars
    PROVE  [UNCHANGED <<disk, request, reply>> \/ Store!StoreNext]_(Store!storeVars)
<1> SUFFICES ASSUME ~UNCHANGED <<disk, request, reply>> PROVE Store!StoreNext
  OBVIOUS
<1>1. CASE FindToKill \/ FreeGranule \/ AllocateGranule \/ AddFile \/ ExtractGranule
  BY <1>1 DEF FindToKill, FreeGranule, AllocateGranule, AddFile, ExtractGranule
<1>2. CASE Step
  BY <1>1, <1>2, OpenInStore, BeginAddInStore, OutOfSpaceInStore, OutOfEntriesInStore,
     CommitInStore, CommitFailsInStore, FindToExtractInStore, ExtractLastGranuleInStore,
     ListInStore DEF Step
<1>3. CASE UNCHANGED vars
  BY <1>3 DEF vars
<1> QED BY <1>2, <1>3, StartInStore DEF Next

(* On images that hold what this program writes, and without the two commands  *)
(* for which the help page says something else, writecocofile does to the      *)
(* files, by name, what CocoFileStore says: a whole file replaces the one of   *)
(* its name or leaves it there, and all other files remain, even where the     *)
(* image is written in part.                                                   *)
THEOREM ImplementsFileStore == ASSUME TidyImages, PlainUse PROVE Spec => IsFileStore
<1>1. IInv /\ StoreInv /\ [Next]_vars =>
          [UNCHANGED <<disk, request, reply>> \/ Store!StoreNext]_(Store!storeVars)
  BY StepInStore
<1> QED BY <1>1, StoreInvariance, PTL DEF Spec, IsFileStore

-----------------------------------------------------------------------------
(* _CMOC_readDECBFile2(): the sectors that it reads. *)

LEMMA NextSectorTyped ==
    ASSUME NEW fat \in [Granules -> 0..255], NEW at \in Sectors, at.gran \in Granules
    PROVE  NextSector(fat, at) \in Sectors
<1> DEFINE mark == fat[at.gran]
           last == IF EndsHere(mark) THEN mark - LastMark ELSE SectorsPerGranule
           more == [at EXCEPT !.sec = @ + 1]
           eof  == [at EXCEPT !.gran = AtEOF]
           link == [gran |-> mark, sec |-> 1]
<1>1. mark \in 0..255 /\ at.gran \in 0..255 /\ at.sec \in 1..(255 - LastMark)
  BY DEF Sectors
<1>2. last \in 1..(255 - LastMark)
  BY <1>1, UnitSizes DEF EndsHere, LastMark
<1>3. NextSector(fat, at) = IF at.sec < last THEN more ELSE IF EndsHere(mark) THEN eof ELSE link
  BY DEF NextSector
<1>4. eof \in Sectors
  BY DEF Sectors, AtEOF, LastMark
<1>5. link \in Sectors
  BY <1>1 DEF Sectors, LastMark
<1>6. at.sec < last => more \in Sectors
  <2> SUFFICES ASSUME at.sec < last PROVE more \in Sectors
    OBVIOUS
  <2>1. at.sec + 1 \in 1..(255 - LastMark)
    <3> HIDE DEF last
    <3> QED BY <1>1, <1>2 DEF LastMark
  <2> QED BY <2>1 DEF Sectors
<1> HIDE DEF more, eof, link, last
<1> QED BY <1>3, <1>4, <1>5, <1>6

\* A part of a sequence.
Part(s, a, n) == SubSeq(s, a + 1, a + n)

LEMMA PartOfSequence ==
    ASSUME NEW s \in Seq(Bytes), NEW a \in Nat, NEW n \in Nat, a + n <= Len(s)
    PROVE  /\ Part(s, a, n) \in Seq(Bytes) /\ Len(Part(s, a, n)) = n
           /\ \A i \in 1..n : Part(s, a, n)[i] = s[a + i]
<1>1. \A i \in (a + 1)..(a + n) : s[i] \in Bytes
  BY LenProperties
<1>2. a + 1 \in Int /\ a + n \in Int /\ (IF a + 1 <= a + n THEN (a + n) - (a + 1) + 1 ELSE 0) = n
  OBVIOUS
<1>3. /\ SubSeq(s, a + 1, a + n) \in Seq(Bytes)
      /\ Len(SubSeq(s, a + 1, a + n)) = IF a + 1 <= a + n THEN (a + n) - (a + 1) + 1 ELSE 0
      /\ \A i \in 1..((a + n) - (a + 1) + 1) : SubSeq(s, a + 1, a + n)[i] = s[(a + 1) + i - 1]
  BY <1>1, <1>2, SubSeqProperties
<1>4. \A i \in 1..n : i \in 1..((a + n) - (a + 1) + 1) /\ (a + 1) + i - 1 = a + i
  OBVIOUS
<1> QED BY <1>2, <1>3, <1>4 DEF Part

LEMMA SectorOf ==
    ASSUME NEW im \in Image, NEW g \in Granules, NEW r \in 0..(SectorsPerGranule - 1),
           NEW b, b = SectorBytes(im, [gran |-> g, sec |-> r + 1])
    PROVE  /\ b \in Seq(Bytes) /\ Len(b) = BytesPerSector
           /\ \A i \in 1..BytesPerSector : /\ r * BytesPerSector + i \in 1..BytesPerGranule
                                           /\ b[i] = im.gran[g][r * BytesPerSector + i]
<1> DEFINE B == BytesPerSector
           G == BytesPerGranule
           x == im.gran[g]
           o == r * B
<1>1. x \in Seq(Bytes) /\ Len(x) = G /\ B \in Nat \ {0} /\ G \in Nat \ {0}
  BY GranuleBytes, UnitSizes
<1>2. o \in Nat /\ (r + 1) * B = o + B /\ o + B <= G
  <2>1. r \in Nat /\ r < SectorsPerGranule /\ SectorsPerGranule \in Nat /\ B \in Nat /\ G = SectorsPerGranule * B
    BY UnitSizes
  <2> HIDE DEF B, G
  <2> QED BY <2>1, Products
<1>3. b = SubSeq(x, o + 1, o + B)
  <2>1. b = SubSeq(x, ((r + 1) - 1) * B + 1, (r + 1) * B)
    BY DEF SectorBytes
  <2>2. (r + 1) - 1 = r
    OBVIOUS
  <2> HIDE DEF x
  <2> QED BY <1>2, <2>1, <2>2
<1> HIDE DEF x, o, B, G
<1>4. b \in Seq(Bytes) /\ Len(b) = B /\ \A i \in 1..B : b[i] = x[o + i]
  <2>1. b = Part(x, o, B) /\ x \in Seq(Bytes) /\ o \in Nat /\ B \in Nat /\ o + B <= Len(x)
    BY <1>1, <1>2, <1>3 DEF Part
  <2>2. /\ Part(x, o, B) \in Seq(Bytes) /\ Len(Part(x, o, B)) = B
        /\ \A i \in 1..B : Part(x, o, B)[i] = x[o + i]
    BY ONLY <2>1, PartOfSequence
  <2> QED BY <2>1, <2>2
<1>5. \A i \in 1..B : o + i \in 1..G
  BY <1>1, <1>2
<1> QED BY <1>4, <1>5 DEF x, o, B, G

Unread == [err |-> 4, bytes |-> <<>>]
AtEnd  == [err |-> 0, bytes |-> <<>>]

\* The sectors from one on are that one and those from the next one on.
LEMMA SectorsAt ==
    ASSUME NEW im \in Image, NEW fails, NEW n \in Nat, NEW at \in Sectors
    PROVE  LET from == SectorsFrom(im, fails)
               next == NextSector(im.fat, at)
           IN  /\ at.gran = AtEOF => from[n][at] = AtEnd
               /\ (at.gran # AtEOF /\ (n = 0 \/ ~CanRead(fails, at))) => from[n][at] = Unread
               /\ (at.gran # AtEOF /\ n > 0 /\ CanRead(fails, at)) =>
                      from[n][at] = [err   |-> from[n - 1][next].err,
                                     bytes |-> SectorBytes(im, at) \o from[n - 1][next].bytes]
<1> DEFINE R == [err : {0, 4}, bytes : Seq(Bytes)]
           S == [Sectors -> R]
           After(q) == NextSector(im.fat, q)
           Join(q, x) == [err |-> x.err, bytes |-> SectorBytes(im, q) \o x.bytes]
           Can(q) == CanRead(fails, q)
           a == [q \in Sectors |-> IF q.gran = AtEOF THEN AtEnd ELSE Unread]
           h == [F \in S |-> [q \in Sectors |->
                    IF q.gran = AtEOF THEN AtEnd ELSE IF ~Can(q) THEN Unread ELSE Join(q, F[After(q)])]]
           Is(f) == f = [m \in Nat |-> [q \in Sectors |->
                    IF q.gran = AtEOF THEN AtEnd
                    ELSE IF m = 0 \/ ~Can(q) THEN Unread ELSE Join(q, f[m - 1][After(q)])]]
<1>1. AtEnd \in R /\ Unread \in R
  BY DEF AtEnd, Unread
<1>2. ASSUME NEW q \in Sectors, Can(q) PROVE After(q) \in Sectors /\ SectorBytes(im, q) \in Seq(Bytes)
  <2>1. q.gran \in Granules /\ q.sec \in 1..SectorsPerGranule /\ q = [gran |-> q.gran, sec |-> q.sec]
    BY <1>2 DEF CanRead, Sectors
  <2>2. im.fat \in [Granules -> 0..255]
    BY DEF Image
  <2>3. After(q) \in Sectors
    BY <2>1, <2>2, NextSectorTyped
  <2> DEFINE g == q.gran
             r == q.sec - 1
             b == SectorBytes(im, q)
  <2>4. g \in Granules /\ r \in 0..(SectorsPerGranule - 1) /\ q = [gran |-> g, sec |-> r + 1]
    BY <2>1, UnitSizes
  <2>5. b = SectorBytes(im, [gran |-> g, sec |-> r + 1])
    BY <2>4
  <2> HIDE DEF g, r, b
  <2>6. b \in Seq(Bytes)
    BY <2>4, <2>5, SectorOf
  <2> QED BY <2>3, <2>6 DEF b
<1>3. \A q \in Sectors, x \in R : Can(q) => Join(q, x) \in R
  BY <1>2
<1>4. a \in S /\ h \in [S -> S]
  <2> HIDE DEF R, Join, Can, After
  <2> QED BY <1>1, <1>2, <1>3 DEF After, Can
<1>5. PICK f : Iterates(f, S, a, h)
  <2> HIDE DEF S, a, h
  <2> QED BY <1>4, Iterate
<1> HIDE DEF Join, Can, After
<1>6. ASSUME NEW m \in Nat
      PROVE  f[m] = [q \in Sectors |->
                    IF q.gran = AtEOF THEN AtEnd
                    ELSE IF m = 0 \/ ~Can(q) THEN Unread ELSE Join(q, f[m - 1][After(q)])]
  <2>1. CASE m = 0
    BY <1>5, <2>1 DEF Iterates
  <2>2. CASE m # 0
    <3>1. m - 1 \in Nat /\ (m - 1) + 1 = m
      BY <2>2
    <3>2. f[m] = h[f[m - 1]] /\ f[m - 1] \in S
      BY <1>5, <3>1 DEF Iterates
    <3> QED BY <2>2, <3>2
  <2> QED BY <2>1, <2>2
<1>7. Is(f)
  BY <1>5, <1>6 DEF Iterates
<1> DEFINE from == SectorsFrom(im, fails)
<1>8. Is(from)
  BY <1>7 DEF SectorsFrom, Join, Can, After, AtEnd, Unread
<1> HIDE DEF from
<1>9. from[n] = [q \in Sectors |->
                    IF q.gran = AtEOF THEN AtEnd
                    ELSE IF n = 0 \/ ~Can(q) THEN Unread ELSE Join(q, from[n - 1][After(q)])]
  BY <1>8
<1>10. from[n][at] = IF at.gran = AtEOF THEN AtEnd
                     ELSE IF n = 0 \/ ~Can(at) THEN Unread ELSE Join(at, from[n - 1][After(at)])
  BY <1>9
<1>11. /\ at.gran = AtEOF => from[n][at] = AtEnd
       /\ (at.gran # AtEOF /\ (n = 0 \/ ~Can(at))) => from[n][at] = Unread
       /\ (at.gran # AtEOF /\ n > 0 /\ Can(at)) => from[n][at] = Join(at, from[n - 1][After(at)])
  BY <1>10
<1> QED BY <1>11 DEF from, Join, Can, After

\* The bytes of the sectors of a file, the last of which counts in full.
BytesInSectors(im, s) ==
    (Len(s) - 1) * BytesPerGranule + (im.fat[s[Len(s)]] - LastMark) * BytesPerSector

\* The sector of a file, whose granules are s, that begins behind its first a bytes.
Behind(im, s, at, a) ==
    \E q \in 0..(Len(s) - 1) : \E r \in 0..(SectorsPerGranule - 1) :
        /\ at = [gran |-> s[q + 1], sec |-> r + 1]
        /\ a = q * BytesPerGranule + r * BytesPerSector
        /\ q = Len(s) - 1 => r < im.fat[s[Len(s)]] - LastMark

\* y has what follows the first a bytes of f, as far as f goes.
Continues(f, a, y) ==
    y \in Seq(Bytes) /\ \A i \in 1..Len(y) : a + i <= Len(f) => y[i] = f[a + i]

\* Such a sector holds bytes of the file, and the one that the reader takes next follows.
ReadsInTurn(im, s, f, at, a) ==
    LET b    == SectorBytes(im, at)
        next == NextSector(im.fat, at)
    IN  /\ at \in Sectors /\ at.gran \in Granules /\ at.sec <= SectorsPerGranule
        /\ Continues(f, a, b) /\ Len(b) = BytesPerSector
        /\ a \in Nat /\ a + BytesPerSector <= BytesInSectors(im, s)
        /\ \/ next.gran = AtEOF /\ next \in Sectors /\ a + BytesPerSector = BytesInSectors(im, s)
           \/ Behind(im, s, next, a + BytesPerSector)

LEMMA SectorsInTurn ==
    ASSUME NEW im \in Image, NEW head, NEW s, IsChain(im.fat, head, s),
           im.fat[s[Len(s)]] # LastMark,
           NEW lastBytes \in 0..BytesPerSector, NEW f, f = FileFrom(im, head, lastBytes),
           NEW at, NEW a, Behind(im, s, at, a)
    PROVE  ReadsInTurn(im, s, f, at, a)
<1> DEFINE B == BytesPerSector
           G == BytesPerGranule
           N == SectorsPerGranule
           L == Len(s)
           l == im.fat[s[L]] - LastMark
           next == NextSector(im.fat, at)
           size == (L - 1) * G + BytesInLastGranule(im.fat[s[L]], lastBytes)
<1>1. /\ B \in Nat \ {0} /\ N \in 1..9 /\ G \in Nat \ {0} /\ G = N * B
      /\ L \in Nat \ {0} /\ L \in 1..L /\ \A k \in 1..L : s[k] \in Granules
      /\ l \in 1..N /\ im.fat \in [Granules -> 0..255]
  <2>1. L \in Nat \ {0} /\ L \in 1..L /\ \A k \in 1..L : s[k] \in Granules
    BY ChainRange
  <2>2. IsLast(im.fat[s[L]])
    BY DEF IsChain
  <2>3. l \in 1..N
    <3> DEFINE mark == im.fat[s[L]]
    <3>1. IsLast(mark) /\ mark # LastMark
      BY <2>2
    <3> HIDE DEF mark
    <3>2. mark - LastMark \in 1..N
      BY ONLY <3>1, UnitSizes DEF IsLast, LastMark
    <3> QED BY <3>2 DEF mark
  <2>4. im.fat \in [Granules -> 0..255]
    BY DEF Image
  <2> QED BY <2>1, <2>3, <2>4, UnitSizes
<1>2. PICK q \in 0..(L - 1) : \E r \in 0..(N - 1) :
          /\ at = [gran |-> s[q + 1], sec |-> r + 1]
          /\ a = q * G + r * B
          /\ q = L - 1 => r < l
  BY DEF Behind
<1>3. PICK r \in 0..(N - 1) :
          /\ at = [gran |-> s[q + 1], sec |-> r + 1]
          /\ a = q * G + r * B
          /\ q = L - 1 => r < l
  BY <1>2
<1> DEFINE g == s[q + 1]
           m == im.fat[g]
           b == SectorBytes(im, at)
<1>4. /\ q + 1 \in 1..L /\ g \in Granules /\ m \in 0..255
      /\ at.gran = g /\ at.sec = r + 1 /\ at \in Sectors /\ at.gran \in Granules /\ at.sec <= N
  <2>1. q + 1 \in 1..L
    BY <1>1
  <2>2. g \in Granules /\ m \in 0..255
    BY <1>1, <2>1
  <2>3. g \in 0..255
    <3> HIDE DEF g
    <3> QED BY <2>2, ImageAssumption DEF Granules, LastMark
  <2>4. r + 1 \in 1..(255 - LastMark) /\ r + 1 <= N
    BY <1>1 DEF LastMark
  <2>5. at = [gran |-> g, sec |-> r + 1]
    BY <1>3
  <2> HIDE DEF g
  <2>6. at.gran = g /\ at.sec = r + 1
    BY <2>5
  <2>7. at \in Sectors
    BY <2>3, <2>4, <2>5 DEF Sectors
  <2> QED BY <2>1, <2>2, <2>4, <2>6, <2>7
<1>5. b \in Seq(Bytes) /\ Len(b) = B /\ \A i \in 1..B : r * B + i \in 1..G /\ b[i] = im.gran[g][r * B + i]
  <2>1. b = SectorBytes(im, [gran |-> g, sec |-> r + 1])
    BY <1>3
  <2> HIDE DEF g, b
  <2> QED BY <1>4, <2>1, SectorOf
<1>6. /\ f \in Seq(Bytes) /\ Len(f) = size
      /\ \A p \in 0..(L - 1) : \A t \in 1..G : p * G + t <= size => f[p * G + t] = im.gran[s[p + 1]][t]
  <2> HIDE DEF size
  <2>1. size = (Len(s) - 1) * BytesPerGranule + BytesInLastGranule(im.fat[s[Len(s)]], lastBytes)
    BY DEF size
  <2> QED BY <2>1, FileOfChain
<1> HIDE DEF B, G, N, L, l, next, size, g, m, b
<1>7. Continues(f, a, b)
  <2> SUFFICES ASSUME NEW i \in 1..B, a + i <= Len(f) PROVE b[i] = f[a + i]
    BY <1>5 DEF Continues
  <2> DEFINE t == r * B + i
  <2>1. t \in 1..G /\ b[i] = im.gran[g][t]
    BY <1>5
  <2>2. q * G \in Nat /\ r * B \in Nat
    BY <1>1, Products
  <2>3. a + i = q * G + t
    BY <1>3, <2>2
  <2> HIDE DEF t
  <2>4. q * G + t <= size
    BY <1>6, <2>3
  <2>5. f[q * G + t] = im.gran[s[q + 1]][t]
    BY <1>6, <2>1, <2>4
  <2> QED BY <2>1, <2>3, <2>5 DEF g
<1> DEFINE x == q * G
           y == r * B
           w == (L - 1) * G
           v == l * B
<1>8. /\ x \in Nat /\ y \in Nat /\ w \in Nat /\ v \in Nat /\ a = x + y
      /\ (q + 1) * G = x + G /\ (r + 1) * B = y + B
      /\ y + B <= G
      /\ q = L - 1 => x = w /\ y + B <= v
      /\ q < L - 1 => x + G <= w
      /\ r + 1 = N => y + B = G
      /\ r + 1 = l => y + B = v
  <2>1. q \in Nat /\ r \in Nat /\ L - 1 \in Nat /\ l \in Nat /\ N \in Nat /\ r < N
    BY <1>1
  <2>2. x \in Nat /\ y \in Nat /\ (q + 1) * G = x + G /\ (r + 1) * B = y + B
    BY <1>1, <2>1, Products
  <2>3. w \in Nat /\ v \in Nat
    <3> DEFINE c == L - 1
    <3> HIDE DEF c
    <3>1. c * G \in Nat /\ v \in Nat
      BY <1>1, <2>1, Products DEF c
    <3> QED BY <3>1 DEF c
  <2>4. y + B <= G
    BY <1>1, <2>1, Products
  <2>5. q = L - 1 => x = w /\ y + B <= v
    BY <1>1, <1>3, <2>1, Products
  <2>6. q < L - 1 => x + G <= w
    <3> DEFINE c == L - 1
    <3> HIDE DEF c
    <3>1. q < c => q * G + G <= c * G
      BY <1>1, <2>1, Products DEF c
    <3> QED BY <3>1 DEF c
  <2>7. (r + 1 = N => y + B = G) /\ (r + 1 = l => y + B = v)
    BY <1>1, <2>2
  <2> QED BY <1>3, <2>2, <2>3, <2>4, <2>5, <2>6, <2>7
<1>9. BytesInSectors(im, s) = w + v
  BY DEF BytesInSectors, w, v, B, G, L, l
<1>10. a \in Nat /\ a + B <= w + v
  <2>1. q < L - 1 \/ q = L - 1
    BY <1>1
  <2> HIDE DEF x, y, w, v
  <2> QED BY <1>1, <1>8, <2>1
<1> HIDE DEF x, y, w, v
<1>11. CASE q = L - 1
  <2>1. EndsHere(m) /\ m - LastMark = l
    <3>1. m = im.fat[s[L]]
      BY <1>1, <1>11 DEF m, g
    <3> QED BY <1>1, <1>4, <3>1 DEF EndsHere, l, LastMark
  <2>2. next = IF r + 1 < l THEN [at EXCEPT !.sec = @ + 1] ELSE [at EXCEPT !.gran = AtEOF]
    BY <1>4, <2>1 DEF NextSector, next, m
  <2>3. CASE r + 1 < l
    <3>1. next = [gran |-> s[q + 1], sec |-> (r + 1) + 1]
      BY <1>3, <2>2, <2>3
    <3>2. r + 1 \in 0..(N - 1)
      BY <1>1, <2>3
    <3>3. a + B = q * G + (r + 1) * B
      BY <1>1, <1>8 DEF x
    <3>4. Behind(im, s, next, a + B)
      BY <2>3, <3>1, <3>2, <3>3 DEF Behind, B, G, N, L, l
    <3> QED BY <1>4, <1>5, <1>7, <1>9, <1>10, <3>4 DEF ReadsInTurn, B, N, b, next
  <2>4. CASE ~(r + 1 < l)
    <3>1. r + 1 = l
      <4>1. r < l
        BY <1>3, <1>11
      <4> QED BY ONLY <1>1, <2>4, <4>1, r \in 0..(N - 1)
    <3>2. next.gran = AtEOF /\ next \in Sectors
      BY <1>4, <2>2, <2>4 DEF Sectors, AtEOF
    <3>3. a + B = w + v
      BY <1>1, <1>8, <1>11, <3>1
    <3> QED BY <1>4, <1>5, <1>7, <1>9, <1>10, <3>2, <3>3 DEF ReadsInTurn, B, N, b, next
  <2> QED BY <2>3, <2>4
<1>12. CASE q # L - 1
  <2>1. q + 1 \in 1..(L - 1) /\ q < L - 1
    BY <1>1, <1>12
  <2>2. IsLink(m) /\ m = s[(q + 1) + 1]
    BY <2>1 DEF IsChain, m, g, L
  <2>3. ~EndsHere(m)
    BY <1>4, <2>2 DEF IsLink, EndsHere, LastMark
  <2>4. next = IF r + 1 < N THEN [at EXCEPT !.sec = @ + 1] ELSE [gran |-> m, sec |-> 1]
    BY <1>4, <2>3 DEF NextSector, next, m, N
  <2>5. CASE r + 1 < N
    <3>1. next = [gran |-> s[q + 1], sec |-> (r + 1) + 1]
      BY <1>3, <2>4, <2>5
    <3>2. r + 1 \in 0..(N - 1)
      BY <1>1, <2>5
    <3>3. a + B = q * G + (r + 1) * B
      BY <1>1, <1>8 DEF x
    <3>4. Behind(im, s, next, a + B)
      BY <1>12, <3>1, <3>2, <3>3 DEF Behind, B, G, N, L, l
    <3> QED BY <1>4, <1>5, <1>7, <1>9, <1>10, <3>4 DEF ReadsInTurn, B, N, b, next
  <2>6. CASE ~(r + 1 < N)
    <3>1. r + 1 = N
      BY <1>1, <2>6
    <3>2. next = [gran |-> s[(q + 1) + 1], sec |-> 0 + 1]
      BY <2>2, <2>4, <2>6
    <3>3. q + 1 \in 0..(L - 1) /\ 0 \in 0..(N - 1)
      BY <1>1, <2>1
    <3>4. a + B = (q + 1) * G + 0 * B
      BY <1>1, <1>8, <3>1
    <3>5. q + 1 = L - 1 => 0 < l
      BY <1>1
    <3>6. Behind(im, s, next, a + B)
      BY <3>2, <3>3, <3>4, <3>5 DEF Behind, B, G, N, L, l
    <3> QED BY <1>4, <1>5, <1>7, <1>9, <1>10, <3>6 DEF ReadsInTurn, B, N, b, next
  <2> QED BY <2>5, <2>6
<1> QED BY <1>11, <1>12

LEMMA ContinuesOn ==
    ASSUME NEW f, NEW a, a \in Nat, NEW b, Continues(f, a, b), NEW c, c = a + Len(b),
           NEW y, Continues(f, c, y)
    PROVE  Continues(f, a, b \o y) /\ a + Len(b \o y) = c + Len(y) /\ c \in Nat
<1>1. b \in Seq(Bytes) /\ y \in Seq(Bytes) /\ Len(b) \in Nat /\ Len(y) \in Nat
  BY DEF Continues
<1>2. b \o y \in Seq(Bytes) /\ Len(b \o y) = Len(b) + Len(y)
  BY <1>1
<1>3. ASSUME NEW i \in 1..Len(b \o y), a + i <= Len(f) PROVE (b \o y)[i] = f[a + i]
  <2>1. CASE i <= Len(b)
    <3>1. i \in 1..Len(b) /\ (b \o y)[i] = b[i]
      BY <1>1, <1>2, <2>1
    <3> QED BY <1>3, <3>1 DEF Continues
  <2>2. CASE ~(i <= Len(b))
    <3> DEFINE j == i - Len(b)
    <3>1. j \in 1..Len(y) /\ (b \o y)[i] = y[j] /\ c + j = a + i
      BY <1>1, <1>2, <2>2
    <3> HIDE DEF j
    <3>2. c + j <= Len(f) => y[j] = f[c + j]
      BY <3>1 DEF Continues
    <3> QED BY <1>3, <3>1, <3>2
  <2> QED BY <2>1, <2>2
<1> QED BY <1>1, <1>2, <1>3 DEF Continues

\* What is read behind the first a bytes of f, up to the end of its last sector.
ReadOn(x, f, a, end) ==
    /\ x.err \in {0, 4}
    /\ x.err = 0 => Continues(f, a, x.bytes) /\ a + Len(x.bytes) = end

\* So many sectors suffice.
Reaches(a, n, end) == end <= a + n * BytesPerSector

\* f lies in the granules s, and in one or more sectors of the last one.
LiesIn(im, s, f) ==
    /\ im.fat[s[Len(s)]] # LastMark
    /\ \E head : IsChain(im.fat, head, s) /\ \E l \in 0..BytesPerSector : f = FileFrom(im, head, l)

\* From a sector of a file on, the reader comes to its end or fails, and fails only
\* where a sector fails or where it may not read on.
LEMMA ReadsOn ==
    ASSUME NEW im \in Image, NEW s, NEW f, LiesIn(im, s, f), NEW fails, NEW end, end = BytesInSectors(im, s),
           NEW n \in Nat, NEW at, NEW a, Behind(im, s, at, a),
           NEW x, x = SectorsFrom(im, fails)[n][at]
    PROVE  /\ ReadOn(x, f, a, end)
           /\ (fails = {} /\ Reaches(a, n, end)) => x.err = 0
<1> DEFINE B == BytesPerSector
           from == SectorsFrom(im, fails)
           Done(m, q, c) == /\ ReadOn(from[m][q], f, c, end)
                            /\ (fails = {} /\ end <= c + m * B) => from[m][q].err = 0
           S == {m \in Nat : \A q, c : Behind(im, s, q, c) => Done(m, q, c)}
<1>1. B \in Nat \ {0}
  BY UnitSizes
<1> PICK head : IsChain(im.fat, head, s) /\ \E l \in 0..BytesPerSector : f = FileFrom(im, head, l)
  BY DEF LiesIn
<1> PICK lastBytes \in 0..BytesPerSector : f = FileFrom(im, head, lastBytes)
  OBVIOUS
<1> im.fat[s[Len(s)]] # LastMark
  BY DEF LiesIn
<1>2. end \in Int
  <2> DEFINE c == Len(s) - 1
             l == im.fat[s[Len(s)]] - LastMark
  <2>1. c \in Int /\ l \in Int
    <3>1. Len(s) \in Nat
      BY ChainRange
    <3>2. im.fat[s[Len(s)]] \in Int
      BY LinkMarks DEF IsChain
    <3> QED BY <3>1, <3>2 DEF LastMark
  <2>2. end = c * BytesPerGranule + l * BytesPerSector
    BY DEF BytesInSectors
  <2> HIDE DEF c, l
  <2> QED BY <2>1, <2>2, UnitSizes
<1>3. ASSUME NEW m \in Nat, NEW q \in Sectors
      PROVE  /\ q.gran = AtEOF => from[m][q] = AtEnd
             /\ (q.gran # AtEOF /\ (m = 0 \/ ~CanRead(fails, q))) => from[m][q] = Unread
             /\ (q.gran # AtEOF /\ m > 0 /\ CanRead(fails, q)) =>
                    from[m][q] = [err   |-> from[m - 1][NextSector(im.fat, q)].err,
                                  bytes |-> SectorBytes(im, q) \o from[m - 1][NextSector(im.fat, q)].bytes]
  BY SectorsAt
<1> HIDE DEF from
<1>4. ASSUME NEW q, NEW c, Behind(im, s, q, c) PROVE ReadsInTurn(im, s, f, q, c) /\ q.gran # AtEOF
  <2>1. ReadsInTurn(im, s, f, q, c)
    BY <1>4, SectorsInTurn
  <2>2. q.gran \in Granules
    BY <2>1 DEF ReadsInTurn
  <2>3. AtEOF \notin Granules
    BY ONLY ImageAssumption DEF AtEOF, Granules, LastMark
  <2> QED BY <2>1, <2>2, <2>3
<1>5. Unread.err = 4 /\ AtEnd.err = 0 /\ AtEnd.bytes = <<>>
  BY DEF Unread, AtEnd
<1>6. 0 \in S
  <2> SUFFICES ASSUME NEW q, NEW c, Behind(im, s, q, c) PROVE Done(0, q, c)
    OBVIOUS
  <2>1. q \in Sectors /\ c \in Nat /\ c + B <= end /\ q.gran # AtEOF
    BY <1>4 DEF ReadsInTurn
  <2>2. from[0][q] = Unread
    BY <1>3, <2>1
  <2>3. ReadOn(from[0][q], f, c, end)
    BY <1>5, <2>2 DEF ReadOn
  <2>4. ~(end <= c + 0 * B)
    <3>1. 0 * B = 0
      BY <1>1
    <3> HIDE DEF B
    <3> QED BY <1>1, <2>1, <3>1, <1>2
  <2> QED BY <2>3, <2>4
<1>7. ASSUME NEW m \in Nat, m \in S PROVE m + 1 \in S
  <2> SUFFICES ASSUME NEW q, NEW c, Behind(im, s, q, c) PROVE Done(m + 1, q, c)
    OBVIOUS
  <2> DEFINE next == NextSector(im.fat, q)
             b == SectorBytes(im, q)
             here == from[m + 1][q]
             y == from[m][next]
             d == c + B
  <2> HIDE DEF next, b
  <2>1. /\ q \in Sectors /\ q.gran \in Granules /\ q.sec <= SectorsPerGranule /\ q.gran # AtEOF
        /\ Continues(f, c, b) /\ Len(b) = B /\ c \in Nat /\ d <= end
        /\ \/ next.gran = AtEOF /\ next \in Sectors /\ d = end
           \/ Behind(im, s, next, d)
    BY <1>4 DEF ReadsInTurn, next, b
  <2>2. m + 1 \in Nat /\ m + 1 > 0 /\ m + 1 # 0 /\ (m + 1) - 1 = m
    OBVIOUS
  <2>3. CASE ~CanRead(fails, q)
    <3>1. fails # {}
      BY <2>1, <2>3 DEF CanRead
    <3>2. here = Unread
      BY <1>3, <2>1, <2>2, <2>3
    <3>3. ReadOn(here, f, c, end)
      BY <1>5, <3>2 DEF ReadOn
    <3> QED BY <3>1, <3>3
  <2>4. CASE CanRead(fails, q)
    <3>1. here = [err |-> y.err, bytes |-> b \o y.bytes]
      <4> DEFINE k == m + 1
      <4> HIDE DEF k
      <4>1. k \in Nat /\ k > 0 /\ k - 1 = m
        BY <2>2 DEF k
      <4>2. from[k][q] = [err |-> from[k - 1][next].err, bytes |-> b \o from[k - 1][next].bytes]
        BY <1>3, <2>1, <2>4, <4>1 DEF next, b
      <4> QED BY <4>1, <4>2 DEF k
    <3>2. here.err = y.err /\ here.bytes = b \o y.bytes
      BY <3>1
    <3> HIDE DEF here
    <3>3. CASE next.gran = AtEOF /\ next \in Sectors /\ d = end
      <4>1. y = AtEnd
        BY <1>3, <3>3
      <4>2. here.err = 0 /\ here.bytes = b
        <5>1. b \o <<>> = b
          BY <2>1 DEF Continues
        <5> QED BY <1>5, <3>2, <4>1, <5>1
      <4>3. ReadOn(here, f, c, end)
        BY <2>1, <3>3, <4>2 DEF ReadOn
      <4> QED BY <4>2, <4>3 DEF here
    <3>4. CASE Behind(im, s, next, d)
      <4> HIDE DEF y, d
      <4>1. Done(m, next, d)
        BY <1>7, <3>4
      <4>2. ReadOn(y, f, d, end) /\ ((fails = {} /\ end <= d + m * B) => y.err = 0)
        BY <4>1 DEF y
      <4>3. ReadOn(here, f, c, end)
        <5>1. CASE y.err # 0
          BY <3>2, <4>2, <5>1 DEF ReadOn
        <5>2. CASE y.err = 0
          <6>1. Continues(f, d, y.bytes) /\ d + Len(y.bytes) = end /\ d = c + Len(b)
            BY <2>1, <4>2, <5>2 DEF ReadOn, d
          <6>2. Continues(f, c, b \o y.bytes) /\ c + Len(b \o y.bytes) = d + Len(y.bytes)
            BY ONLY <2>1, <6>1, ContinuesOn
          <6> QED BY <3>2, <4>2, <6>1, <6>2 DEF ReadOn
        <5> QED BY <5>1, <5>2
      <4>4. c + (m + 1) * B = d + m * B
        <5>1. (m + 1) * B = m * B + B /\ m * B \in Nat
          BY <1>1, Products
        <5> QED BY <1>1, <2>1, <5>1 DEF d
      <4>5. (fails = {} /\ end <= c + (m + 1) * B) => here.err = 0
        BY <3>2, <4>2, <4>4
      <4> QED BY <4>3, <4>5 DEF here
    <3> QED BY <2>1, <3>3, <3>4
  <2> QED BY <2>3, <2>4
<1>8. n \in S
  <2> HIDE DEF S
  <2> QED BY <1>6, <1>7, Induction
<1>9. Done(n, at, a)
  BY <1>8
<1> QED BY <1>9 DEF from, Reaches

\* The search for a file ends at its entry, or at one of another name.
LEMMA SearchEnds ==
    ASSUME NEW fat, NEW dir \in [DirEntries -> Entry], Sound(fat, dir), NEW n \in DirNames
    PROVE  /\ SearchEnd(dir, n) \in DirEntries
           /\ \A e \in DirEntries : dir[e].name = n => SearchEnd(dir, n) = e
<1> DEFINE T == Ends(dir, n)
           d == SearchEnd(dir, n)
<1>1. T \subseteq Nat /\ T \subseteq DirEntries
  BY DEF Ends, DirEntries
<1>2. CASE T = {}
  <2>1. d = NumDirEntries
    BY <1>2 DEF SearchEnd
  <2>2. d \in DirEntries
    BY <2>1, ImageAssumption DEF DirEntries
  <2>3. \A e \in DirEntries : dir[e].name # n
    BY <1>2 DEF Ends
  <2> QED BY <2>2, <2>3
<1>3. CASE T # {}
  <2>1. \E e \in T : \A f \in T : e <= f
    BY <1>1, <1>3, Least
  <2>2. d = CHOOSE e \in T : \A f \in T : e <= f
    BY <1>3 DEF SearchEnd
  <2> HIDE DEF T, d
  <2>3. d \in T /\ \A f \in T : d <= f
    BY <2>1, <2>2
  <2>4. d \in DirEntries /\ dir[d].name \in {n, NeverUsed}
    BY <1>1, <2>3 DEF Ends, T
  <2>5. ASSUME NEW e \in DirEntries, dir[e].name = n PROVE d = e
    <3>1. e \in T
      BY <2>5 DEF Ends, T
    <3>2. d <= e /\ InUse(dir[e]) /\ n # NeverUsed
      BY <2>3, <2>5, <3>1, ImageAssumption DEF InUse
    <3>3. CASE dir[d].name = n
      BY <2>4, <2>5, <3>2, <3>3 DEF Sound, DistinctNames
    <3>4. CASE dir[d].name = NeverUsed
      <4>1. d # e
        BY <2>5, <3>2, <3>4
      <4>2. d < e
        BY <2>4, <3>2, <4>1 DEF DirEntries
      <4>3. dir[e].name = NeverUsed
        BY <2>4, <3>4, <4>2 DEF Sound, NoFileBehindEnd
      <4> QED BY <2>5, <3>2, <4>3
    <3> QED BY <2>4, <3>3, <3>4
  <2> QED BY <2>4, <2>5 DEF d
<1> QED BY <1>2, <1>3

\* A file that has any bytes begins in its first granule, and all of it lies in sectors.
BeginsAt(im, e, s, f, end) ==
    /\ im.fat[s[Len(s)]] # LastMark
    /\ FirstGranule(im, e) = im.dir[e].gran
    /\ Behind(im, s, [gran |-> im.dir[e].gran, sec |-> 1], 0)
    /\ end \in Nat /\ end >= BytesPerSector
    /\ end <= (NumGranules * SectorsPerGranule) * BytesPerSector
    /\ Len(f) = end - BytesPerSector + im.dir[e].lastBytes

LEMMA FileBegins ==
    ASSUME NEW im \in Image, Sound(im.fat, im.dir), NEW e \in DirEntries, InUse(im.dir[e]),
           TidyFile(im, e), NEW s, s = ChainAt(im, e),
           NEW f, f = FileContents(im, e), f # <<>>,
           NEW end, end = BytesInSectors(im, s)
    PROVE  BeginsAt(im, e, s, f, end)
<1> DEFINE B == BytesPerSector
           G == BytesPerGranule
           N == SectorsPerGranule
           L == Len(s)
           head == im.dir[e].gran
           mark == im.fat[s[L]]
           lastBytes == im.dir[e].lastBytes
           z == BytesInLastGranule(mark, lastBytes)
           l == mark - LastMark
           w == (L - 1) * G
           size == w + z
<1>1. /\ B \in Nat \ {0} /\ N \in 1..9 /\ G \in Nat \ {0} /\ G = N * B /\ NumGranules \in Nat \ {0}
      /\ IsChain(im.fat, head, s) /\ L \in Nat \ {0} /\ L <= NumGranules
      /\ IsLast(mark) /\ lastBytes \in 0..B
  <2>1. IsChain(im.fat, head, s)
    BY ChainOf
  <2>2. lastBytes \in 0..B
    BY DEF Image, Entry
  <2>3. L \in Nat \ {0} /\ L <= NumGranules /\ IsLast(mark)
    <3>1. L \in 1..NumGranules /\ IsLast(mark)
      BY <2>1 DEF IsChain
    <3> HIDE DEF L, mark
    <3> QED BY <3>1, UnitSizes
  <2> QED BY <2>1, <2>2, <2>3, UnitSizes
<1>2. z \in 0..G /\ (mark # LastMark => z = (l - 1) * B + lastBytes) /\ (mark = LastMark => z = 0)
  <2>1. z \in 0..G /\ (mark # LastMark => z = (l - 1) * B + lastBytes)
    BY <1>1, LastGranuleFits
  <2>2. mark = LastMark => z = 0
    BY DEF BytesInLastGranule
  <2> QED BY <2>1, <2>2
<1>3. f \in Seq(Bytes) /\ Len(f) = size /\ Len(f) # 0
  <2>1. /\ f = FileFrom(im, head, lastBytes)
        /\ size = (Len(s) - 1) * BytesPerGranule + BytesInLastGranule(im.fat[s[Len(s)]], lastBytes)
    BY DEF FileContents
  <2> HIDE DEF head, lastBytes, size
  <2>2. f \in Seq(Bytes) /\ Len(f) = size
    BY <1>1, <2>1, FileOfChain
  <2> QED BY <2>2, f # <<>>
<1>4. L = SizeInGranules(Len(f)) /\ (mark = LastMark => lastBytes = 0)
  BY DEF TidyFile
<1>5. head = s[1]
  BY <1>1, ChainRange
<1> HIDE DEF B, G, N, L, mark, z, l, lastBytes
<1>6. w \in Nat /\ (L = 1 => w = 0) /\ w + G = L * G
  <2> DEFINE c == L - 1
  <2>1. c \in Nat /\ c + 1 = L /\ (L = 1 => c = 0)
    BY <1>1
  <2> HIDE DEF c
  <2>2. c * G \in Nat /\ (c + 1) * G = c * G + G /\ (c = 0 => c * G = 0)
    BY <1>1, <2>1, Products
  <2> QED BY <2>1, <2>2 DEF c
<1>7. mark # LastMark
  <2> SUFFICES ASSUME mark = LastMark PROVE FALSE
    OBVIOUS
  <2> DEFINE c == L - 1
  <2>1. Len(f) = w /\ c \in Nat /\ w = c * G
    BY <1>1, <1>2, <1>3, <1>6
  <2>2. L = RoundedUp(w, G)
    BY <1>3, <1>4, <2>1 DEF SizeInGranules, G
  <2> DEFINE r == G - 1
             x == w + G - 1
  <2>3. r \in 0..(G - 1) /\ x = c * G + r
    <3> HIDE DEF w, c
    <3> QED BY <1>1, <1>6, <2>1
  <2>4. RoundedUp(w, G) = x \div G
    BY DEF RoundedUp
  <2> HIDE DEF c, r, x, w
  <2>5. x \div G = c
    BY <1>1, <2>1, <2>3, DivModOf
  <2> QED BY <1>1, <2>2, <2>4, <2>5 DEF c
<1>8. l \in 1..N
  BY <1>1, <1>7 DEF IsLast, l, LastMark, N
<1> DEFINE v == l * B
<1>9. v \in Nat /\ (l - 1) * B = v - B /\ B <= v /\ v <= G
  <2> DEFINE c == l - 1
  <2>1. c \in Nat /\ c + 1 = l /\ l \in Nat /\ N \in Nat /\ l <= N
    BY <1>1, <1>8
  <2> HIDE DEF c
  <2>2. c * B \in Nat /\ (c + 1) * B = c * B + B /\ l * B \in Nat /\ l * B <= N * B
    BY <1>1, <2>1, Products
  <2>3. v = c * B + B
    BY <2>1, <2>2
  <2> HIDE DEF v
  <2>4. c * B = v - B
    BY <1>1, <2>2, <2>3
  <2> QED BY <1>1, <2>1, <2>2, <2>3, <2>4 DEF c, v
<1>10. end = w + v
  BY DEF BytesInSectors, L, l, mark, B, G
<1> HIDE DEF w, v
<1>11. end \in Nat /\ end >= B
  BY <1>1, <1>6, <1>9, <1>10
<1>12. Len(f) = end - B + lastBytes
  <2>1. z = (v - B) + lastBytes
    BY <1>2, <1>7, <1>9
  <2>2. lastBytes \in Nat
    BY <1>1
  <2> QED BY <1>1, <1>3, <1>6, <1>9, <1>10, <2>1, <2>2
<1>13. end <= (NumGranules * N) * B
  <2>1. L * G <= NumGranules * G
    BY <1>1, Products
  <2>2. NumGranules * G = (NumGranules * N) * B
    <3>1. NumGranules \in Int /\ N \in Int /\ B \in Int
      BY <1>1
    <3>2. NumGranules * (N * B) = (NumGranules * N) * B
      BY <3>1
    <3> QED BY <1>1, <3>2
  <2>3. end <= L * G /\ L * G \in Nat /\ NumGranules * G \in Nat
    <3>1. L * G \in Nat /\ NumGranules * G \in Nat
      BY <1>1, Products
    <3> QED BY <1>1, <1>6, <1>9, <1>10, <3>1
  <2> DEFINE p == L * G
             q == NumGranules * G
  <2> HIDE DEF p, q
  <2>4. end <= q
    BY <1>11, <2>1, <2>3 DEF p, q
  <2> QED BY <2>2, <2>4 DEF q
<1>14. FirstGranule(im, e) = head
  <2> SUFFICES ASSUME im.fat[head] = LastMark + 1, lastBytes = 0 PROVE FALSE
    BY DEF FirstGranule, lastBytes
  <2>1. IsLast(im.fat[head])
    <3>1. LastMark + 1 \in LastMark..(LastMark + SectorsPerGranule)
      BY UnitSizes DEF LastMark
    <3> QED BY <3>1 DEF IsLast
  <2>2. L = 1
    <3> DEFINE k == 1
               fat == im.fat
    <3>1. k \in 1..Len(s)
      BY <1>1, ChainRange
    <3>2. IsLast(fat[s[k]]) /\ IsChain(fat, head, s)
      BY <1>1, <1>5, <2>1
    <3> HIDE DEF k, fat, head
    <3>3. k = Len(s)
      BY <3>1, <3>2, AlongChain
    <3> QED BY <3>3 DEF k, L
  <2>3. mark = LastMark + 1
    BY <1>5, <2>2 DEF mark, L
  <2>4. l = 1
    BY <2>3 DEF l, LastMark
  <2>5. v = B
    BY <1>1, <2>4 DEF v
  <2> QED BY <1>1, <1>3, <1>6, <1>10, <1>12, <2>2, <2>5
<1>15. Behind(im, s, [gran |-> head, sec |-> 1], 0)
  <2>1. 0 \in 0..(L - 1) /\ 0 \in 0..(N - 1) /\ 0 + 1 = 1
    BY <1>1
  <2>2. 0 = 0 * G + 0 * B
    BY <1>1
  <2>3. 0 < l
    BY <1>8
  <2> HIDE DEF head
  <2> QED BY <1>5, <2>1, <2>2, <2>3 DEF Behind, L, N, B, G, l, mark
<1> QED BY <1>7, <1>11, <1>12, <1>13, <1>14, <1>15 DEF BeginsAt, B, N, L, mark, lastBytes

LEMMA TrimmedFile ==
    ASSUME NEW f, f \in Seq(Bytes), NEW y, Continues(f, 0, y), NEW end, Len(y) = end,
           end \in Nat, end >= BytesPerSector, NEW l, l \in 0..BytesPerSector,
           Len(f) = end - BytesPerSector + l
    PROVE  Trimmed(y, l) = f
<1>1. y \in Seq(Bytes) /\ \A i \in 1..Len(y) : 0 + i <= Len(f) => y[i] = f[0 + i]
  BY DEF Continues
<1>2. BytesPerSector \in Nat \ {0} /\ y # <<>> /\ Len(f) \in Nat /\ Len(f) <= Len(y)
  BY <1>1, UnitSizes
<1>3. Trimmed(y, l) = SubSeq(y, 1, Len(f))
  BY <1>2 DEF Trimmed
<1> DEFINE n == Len(f)
           t == SubSeq(y, 1, n)
<1> HIDE DEF n
<1>4. n \in Nat /\ n <= Len(y) /\ n = Len(f)
  BY <1>2 DEF n
<1>5. t \in Seq(Bytes) /\ Len(t) = n /\ \A i \in 1..n : t[i] = y[i]
  BY <1>1, <1>4
<1> HIDE DEF t
<1>6. \A i \in 1..Len(t) : t[i] = f[i]
  <2> SUFFICES ASSUME NEW i \in 1..n PROVE t[i] = f[i]
    BY <1>5
  <2>1. i \in 1..Len(y) /\ 0 + i <= Len(f) /\ 0 + i = i
    BY <1>1, <1>4
  <2> QED BY <1>1, <1>5, <2>1
<1>7. t = f
  BY <1>4, <1>5, <1>6, SeqEqual
<1> QED BY <1>3, <1>7 DEF t, n

\* What the sectors of a file hold is the file, and without a failure all are read.
LEMMA FileSectors ==
    ASSUME NEW im \in Image, Sound(im.fat, im.dir), NEW e \in DirEntries, InUse(im.dir[e]),
           TidyFile(im, e), NEW f, f = FileContents(im, e), f # <<>>, NEW fails,
           NEW x, x = SectorsFrom(im, fails)[NumGranules * SectorsPerGranule][
                          [gran |-> FirstGranule(im, e), sec |-> 1]]
    PROVE  /\ x.err = 0 => Trimmed(x.bytes, im.dir[e].lastBytes) = f
           /\ fails = {} => x.err = 0
<1> DEFINE s == ChainAt(im, e)
           end == BytesInSectors(im, s)
           head == im.dir[e].gran
           l == im.dir[e].lastBytes
           at == [gran |-> head, sec |-> 1]
           n == NumGranules * SectorsPerGranule
           a == 0
<1>1. IsChain(im.fat, head, s) /\ l \in 0..BytesPerSector /\ f = FileFrom(im, head, l)
  <2>1. IsChain(im.fat, head, s)
    BY ChainOf
  <2>2. l \in 0..BytesPerSector
    BY DEF Image, Entry
  <2> QED BY <2>1, <2>2 DEF FileContents
<1>2. BeginsAt(im, e, s, f, end)
  <2> HIDE DEF s, end
  <2>1. s = ChainAt(im, e) /\ end = BytesInSectors(im, s)
    BY DEF s, end
  <2> QED BY <2>1, FileBegins
<1>3. f \in Seq(Bytes)
  BY FileTyped
<1>4. end = BytesInSectors(im, s) /\ n \in Nat /\ x = SectorsFrom(im, fails)[n][at]
  <2>1. n \in Nat
    BY UnitSizes, Products
  <2> QED BY <1>2, <2>1 DEF BeginsAt
<1>5. /\ im.fat[s[Len(s)]] # LastMark /\ Behind(im, s, at, a)
      /\ end \in Nat /\ end >= BytesPerSector /\ end <= n * BytesPerSector
      /\ Len(f) = end - BytesPerSector + l
  BY <1>2 DEF BeginsAt
<1> HIDE DEF s, end, head, l, at, n, a
<1>6. ReadOn(x, f, a, end) /\ ((fails = {} /\ Reaches(a, n, end)) => x.err = 0)
  <2>1. LiesIn(im, s, f)
    BY <1>1, <1>5 DEF LiesIn
  <2> QED BY ONLY im \in Image, <1>4, <1>5, <2>1, ReadsOn
<1>7. fails = {} => x.err = 0
  <2> DEFINE m == n * BytesPerSector
  <2>1. m \in Nat
    BY <1>4, UnitSizes, Products
  <2> HIDE DEF m
  <2>2. end <= m => end <= a + m
    BY <1>5, <2>1 DEF a
  <2> QED BY <1>5, <1>6, <2>2 DEF m, Reaches
<1>8. ASSUME x.err = 0 PROVE Trimmed(x.bytes, l) = f
  <2> DEFINE y == x.bytes
  <2>1. Continues(f, 0, y) /\ 0 + Len(y) = end
    BY <1>6, <1>8 DEF ReadOn, a
  <2> HIDE DEF y
  <2>2. Len(y) = end
    BY <2>1 DEF Continues
  <2>3. Trimmed(y, l) = f
    BY <1>1, <1>3, <1>5, <2>1, <2>2, TrimmedFile
  <2> QED BY <2>3 DEF y
<1> QED BY <1>7, <1>8 DEF l

LEMMA ReadsFiles ==
    ASSUME NEW im \in Image, Sound(im.fat, im.dir), Tidy(im), None \notin Seq(Bytes),
           NEW n \in DirNames, NEW fails
    PROVE  /\ FilesOf(im)[n] = None => ReadDECBFile(im, {}, n).err = 2
           /\ (FilesOf(im)[n] # None /\ FilesOf(im)[n] # <<>>) =>
                  /\ ReadDECBFile(im, {}, n) = [err |-> 0, bytes |-> FilesOf(im)[n]]
                  /\ ReadDECBFile(im, fails, n).err = 0 =>
                         ReadDECBFile(im, fails, n).bytes = FilesOf(im)[n]
<1> DEFINE e == SearchEnd(im.dir, n)
           x(lost) == SectorsFrom(im, lost)[NumGranules * SectorsPerGranule][
                          [gran |-> FirstGranule(im, e), sec |-> 1]]
           l == im.dir[e].lastBytes
           file == FilesOf(im)[n]
<1>1. im.dir \in [DirEntries -> Entry]
  BY DEF Image
<1>2. e \in DirEntries /\ \A d \in DirEntries : im.dir[d].name = n => e = d
  BY <1>1, SearchEnds
<1>3. \A lost :
          ReadDECBFile(im, lost, n) =
              IF \E f \in 1..e : DirSector(f) \in lost THEN [err |-> 1, bytes |-> <<>>]
              ELSE IF im.dir[e].name # n THEN [err |-> 2, bytes |-> <<>>]
              ELSE IF TableSector \in lost THEN [err |-> 3, bytes |-> <<>>]
              ELSE IF x(lost).err # 0 THEN [err |-> x(lost).err, bytes |-> <<>>]
              ELSE [err |-> 0, bytes |-> Trimmed(x(lost).bytes, l)]
  BY DEF ReadDECBFile
<1> HIDE DEF e, x
<1>4. CASE im.dir[e].name # n
  <2>1. file = None
    <3>1. Matches(im.dir, n) = {}
      BY <1>2, <1>4 DEF Matches
    <3> QED BY <3>1, FileOfName
  <2>2. ReadDECBFile(im, {}, n) = [err |-> 2, bytes |-> <<>>]
    BY <1>3, <1>4
  <2> QED BY <2>1, <2>2
<1>5. CASE im.dir[e].name = n
  <2>1. InUse(im.dir[e]) /\ e \in Matches(im.dir, n)
    <3>1. Matches(im.dir, n) = {e}
      BY <1>1, <1>2, <1>5, EntryOfName
    <3> QED BY <1>5, <3>1 DEF InUse
  <2>2. file = FileContents(im, e) /\ file \in Seq(Bytes)
    BY <2>1, FileOfName
  <2>3. file # None
    BY <2>2
  <2>4. TidyFile(im, e)
    BY <1>2, <2>1 DEF Tidy
  <2>5. ASSUME file # <<>>, NEW lost
        PROVE  (x(lost).err = 0 => Trimmed(x(lost).bytes, l) = file) /\ (lost = {} => x(lost).err = 0)
    <3> DEFINE y == x(lost)
    <3>1. y = SectorsFrom(im, lost)[NumGranules * SectorsPerGranule][
                  [gran |-> FirstGranule(im, e), sec |-> 1]]
      BY DEF x
    <3> HIDE DEF y, file
    <3>2. /\ y.err = 0 => Trimmed(y.bytes, im.dir[e].lastBytes) = file
          /\ lost = {} => y.err = 0
      BY <1>2, <2>1, <2>2, <2>4, <2>5, <3>1, FileSectors
    <3> QED BY <3>2 DEF y
  <2> HIDE DEF l, file
  <2>6. ASSUME file # <<>> PROVE ReadDECBFile(im, {}, n) = [err |-> 0, bytes |-> file]
    <3>1. x({}).err = 0 /\ Trimmed(x({}).bytes, l) = file
      BY <2>5, <2>6
    <3> QED BY <1>3, <1>5, <3>1
  <2>7. ASSUME file # <<>>, ReadDECBFile(im, fails, n).err = 0
        PROVE  ReadDECBFile(im, fails, n).bytes = file
    <3>1. x(fails).err = 0 => Trimmed(x(fails).bytes, l) = file
      BY <2>5, <2>7
    <3>2. ReadDECBFile(im, fails, n) = [err |-> 0, bytes |-> Trimmed(x(fails).bytes, l)] /\ x(fails).err = 0
      BY <1>3, <1>5, <2>7
    <3> QED BY <3>1, <3>2
  <2> QED BY <2>3, <2>6, <2>7 DEF file
<1> QED BY <1>4, <1>5

(* Whatever commands a file came to the disk by, a program on the CoCo reads it *)
(* back as it was written; where sectors fail it says so, or has not needed     *)
(* them; and a file that is not there is not found.                             *)
THEOREM WrittenFilesAreRead == ASSUME TidyImages PROVE Spec => []FilesReadBack
<1>1. ASSUME IInv, StoreInv PROVE FilesReadBack
  <2> SUFFICES ASSUME pc = "idle", NEW n \in DirNames
               PROVE  LET file == FilesOf(disk)[n] IN
                      IF file = None THEN Reads({}, n).err = 2
                      ELSE file # <<>> =>
                          /\ Reads({}, n) = [err |-> 0, bytes |-> file]
                          /\ \A s \in AllSectors :
                                 Reads({s}, n).err = 0 => Reads({s}, n).bytes = file
    BY DEF FilesReadBack
  <2>1. disk \in Image /\ Sound(disk.fat, disk.dir) /\ Tidy(disk)
    BY <1>1 DEF IInv, TypeOK, DiskSound, StoreInv
  <2>2. None \notin Seq(Bytes)
    BY DEF TidyImages
  <2>3. \A fails :
            /\ FilesOf(disk)[n] = None => Reads({}, n).err = 2
            /\ (FilesOf(disk)[n] # None /\ FilesOf(disk)[n] # <<>>) =>
                   /\ Reads({}, n) = [err |-> 0, bytes |-> FilesOf(disk)[n]]
                   /\ Reads(fails, n).err = 0 => Reads(fails, n).bytes = FilesOf(disk)[n]
    BY <2>1, <2>2, ReadsFiles DEF Reads
  <2> QED BY <2>3
<1> QED BY <1>1, StoreInvariance, PTL
==============================================================================
