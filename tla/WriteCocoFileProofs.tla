------------------------- MODULE WriteCocoFileProofs --------------------------
(* Proofs that writecocofile keeps a sound file system on the image, for       *)
(* images of every geometry and every sequence of commands.                    *)
EXTENDS WriteCocoFile, FiniteSetTheorems, TLAPS

-----------------------------------------------------------------------------
(* Lemmas about the file system. *)

LEMMA Marks ==
    /\ IsLast(LastMark) /\ ~IsLink(FreeFatEntry) /\ ~IsLast(FreeFatEntry)
    /\ \A f : IsLast(f) => ~IsLink(f) /\ f # FreeFatEntry /\ f \in 0..255
    /\ \A g \in Granules : IsLink(g) /\ g \in 0..255 /\ g # FreeFatEntry
BY ImageAssumption DEF IsLast, IsLink, LastMark, FreeFatEntry, Granules

LEMMA LastMarkOf ==
    ASSUME NEW k \in 0..SectorsPerGranule
    PROVE  IsLast(LastMark + k) /\ LastMark + k \in 0..255
<1>1. SectorsPerGranule \in 1..9
  BY ImageAssumption
<1> QED BY <1>1 DEF IsLast, LastMark

\* killFile() frees the first granule of a chain and goes on to the second.
LEMMA UnlinkHead ==
    ASSUME NEW fat \in [Granules -> 0..255], NEW dir \in [DirEntries -> Entry],
           NEW e \in DirEntries, Sound(fat, dir), InUse(dir[e]), IsLink(fat[dir[e].gran])
    PROVE  Sound([fat EXCEPT ![dir[e].gran] = FreeFatEntry],
                 [dir EXCEPT ![e].gran = fat[dir[e].gran]])
<1> DEFINE g  == dir[e].gran
           F  == [fat EXCEPT ![g] = FreeFatEntry]
           D  == [dir EXCEPT ![e].gran = fat[g]]
<1>1. g \in Granules /\ fat[g] \in Granules /\ fat[fat[g]] # FreeFatEntry /\ fat[g] # g
  BY DEF Entry, Sound, LinksAllocated, NoCrossLinks
<1>2. /\ \A h \in Granules : F[h] = IF h = g THEN FreeFatEntry ELSE fat[h]
      /\ D[e].gran = fat[g] /\ D[e].name = dir[e].name
      /\ \A d \in DirEntries : d # e => D[d] = dir[d]
  BY <1>1 DEF Entry
<1>3. \A d \in DirEntries : D[d].name = dir[d].name /\ (InUse(D[d]) <=> InUse(dir[d]))
  BY <1>2 DEF InUse
<1>4. HeadsAllocated(F, D)
  BY <1>1, <1>2, <1>3 DEF Sound, HeadsAllocated, NoCrossLinks, Entry
<1>5. LinksAllocated(F)
  BY <1>1, <1>2, Marks DEF Sound, LinksAllocated, NoCrossLinks
<1>6. EndsMarked(F)
  BY <1>2 DEF Sound, EndsMarked
<1>7. NoCrossLinks(F, D)
  BY <1>1, <1>2, <1>3, Marks DEF Sound, NoCrossLinks
<1>8. NothingLost(F, D)
  BY <1>1, <1>2, <1>3 DEF Sound, NothingLost
<1>9. DistinctNames(D) /\ NoFileBehindEnd(D)
  BY <1>2, <1>3 DEF Sound, DistinctNames, NoFileBehindEnd
<1> QED BY <1>4, <1>5, <1>6, <1>7, <1>8, <1>9 DEF Sound

\* killFile() frees the last granule and erases the entry.
LEMMA FreeLast ==
    ASSUME NEW fat \in [Granules -> 0..255], NEW dir \in [DirEntries -> Entry],
           NEW e \in DirEntries, Sound(fat, dir), InUse(dir[e]), IsLast(fat[dir[e].gran])
    PROVE  Sound([fat EXCEPT ![dir[e].gran] = FreeFatEntry],
                 [dir EXCEPT ![e] = Unused(Killed)])
<1> DEFINE g  == dir[e].gran
           F  == [fat EXCEPT ![g] = FreeFatEntry]
           D  == [dir EXCEPT ![e] = Unused(Killed)]
<1>1. g \in Granules /\ ~IsLink(fat[g]) /\ fat[g] # FreeFatEntry
  BY Marks DEF Entry
<1>2. /\ \A h \in Granules : F[h] = IF h = g THEN FreeFatEntry ELSE fat[h]
      /\ D[e].name = Killed /\ ~InUse(D[e])
      /\ \A d \in DirEntries : d # e => D[d] = dir[d]
  BY <1>1, ImageAssumption DEF Unused, InUse
<1>3. \A h \in Granules : IsLink(F[h]) => h # g /\ F[h] = fat[h] /\ F[h] # g
  BY <1>1, <1>2, Marks DEF Sound, NoCrossLinks
<1>4. HeadsAllocated(F, D)
  BY <1>1, <1>2 DEF Sound, HeadsAllocated, NoCrossLinks, Entry
<1>5. LinksAllocated(F)
  BY <1>2, <1>3 DEF Sound, LinksAllocated
<1>6. EndsMarked(F)
  BY <1>2 DEF Sound, EndsMarked
<1>7. NoCrossLinks(F, D)
  <2>1. \A h, k \in Granules : (IsLink(F[h]) /\ F[h] = F[k]) => h = k
    BY <1>3 DEF Sound, NoCrossLinks
  <2>2. \A d, f \in DirEntries : (InUse(D[d]) /\ InUse(D[f]) /\ D[d].gran = D[f].gran) => d = f
    BY <1>2 DEF Sound, NoCrossLinks
  <2>3. \A d \in DirEntries, h \in Granules : (InUse(D[d]) /\ IsLink(F[h])) => F[h] # D[d].gran
    BY <1>2, <1>3 DEF Sound, NoCrossLinks
  <2> QED BY <2>1, <2>2, <2>3 DEF NoCrossLinks
<1>8. NothingLost(F, D)
  BY <1>1, <1>2, Marks DEF Sound, NothingLost
<1>9. DistinctNames(D)
  BY <1>2 DEF Sound, DistinctNames, InUse
<1>10. NoFileBehindEnd(D)
  BY <1>2, ImageAssumption DEF Sound, NoFileBehindEnd, InUse, Killed, NeverUsed
<1> QED BY <1>4, <1>5, <1>6, <1>7, <1>8, <1>9, <1>10 DEF Sound

\* The marks and counts that addFile() computes from the size of the file.
LEMMA Division ==
    ASSUME NEW n \in Nat, NEW d \in Nat \ {0}
    PROVE  n % d \in 0..(d - 1) /\ n \div d \in Nat
OBVIOUS

LEMMA BytesPerGranulePositive == BytesPerGranule \in Nat \ {0}
<1>1. ASSUME NEW b \in Nat \ {0}, NEW s \in 1..9 PROVE b * s \in Nat \ {0}
  BY <1>1
<1> QED BY <1>1, ImageAssumption DEF BytesPerGranule

LEMMA RoundedUpBound ==
    ASSUME NEW b \in Nat \ {0}, NEW s \in 1..9, NEW m \in 0..(b * s)
    PROVE  RoundedUp(m, b) \in 0..s
<1> DEFINE q == (m + b - 1) \div b
<1>1. q \in Nat /\ b * q <= m + b - 1
  OBVIOUS
<1>2. b * q < b * (s + 1)
  BY <1>1
<1>3. q < s + 1
  BY <1>1, <1>2
<1> QED BY <1>1, <1>3 DEF RoundedUp

LEMMA Sizes ==
    ASSUME NEW n \in Nat
    PROVE  /\ SizeInGranules(n) \in Nat \ {0}
           /\ BytesInLastSector(n) \in 0..BytesPerSector
           /\ SectorsInLastGranule(n) \in 0..SectorsPerGranule
<1>1. SizeInGranules(n) \in Nat \ {0}
  <2>1. ASSUME n # 0 PROVE (n + BytesPerGranule - 1) \div BytesPerGranule >= 1
    BY <2>1, BytesPerGranulePositive
  <2> QED BY <2>1, BytesPerGranulePositive DEF SizeInGranules, RoundedUp
<1>2. BytesInLastSector(n) \in 0..BytesPerSector
  BY Division, ImageAssumption DEF BytesInLastSector
<1>3. SectorsInLastGranule(n) \in 0..SectorsPerGranule
  <2> DEFINE m == IF n > 0 /\ n % BytesPerGranule = 0 THEN BytesPerGranule ELSE n % BytesPerGranule
  <2>1. m \in 0..BytesPerGranule
    BY Division, BytesPerGranulePositive
  <2> QED BY <2>1, RoundedUpBound, ImageAssumption DEF SectorsInLastGranule, BytesPerGranule
<1> QED BY <1>1, <1>2, <1>3

\* What allocateGranules() returns: free granules in ascending order.
Ascending(s) == \A j, k \in 1..Len(s) : j < k => s[j] < s[k]

LEMMA AscendingInjective ==
    ASSUME NEW s \in Seq(Granules), Ascending(s)
    PROVE  \A j, k \in 1..Len(s) : s[j] = s[k] => j = k
<1>1. \A k \in 1..Len(s) : s[k] \in Int
  BY ImageAssumption DEF Granules, LastMark
<1> QED BY <1>1 DEF Ascending

LEMMA LinkedAt ==
    ASSUME NEW fat \in [Granules -> 0..255], NEW s \in Seq(Granules), Ascending(s),
           NEW size \in Nat
    PROVE  /\ Linked(fat, s, size) \in [Granules -> 0..255]
           /\ \A k \in 1..Len(s) :
                  Linked(fat, s, size)[s[k]] = IF k = Len(s)
                                               THEN LastMark + SectorsInLastGranule(size)
                                               ELSE s[k + 1]
           /\ \A g \in Granules : (\A k \in 1..Len(s) : s[k] # g)
                                     => Linked(fat, s, size)[g] = fat[g]
<1> DEFINE F == Linked(fat, s, size)
<1>0. SectorsInLastGranule(size) \in 0..SectorsPerGranule
  BY Sizes
<1>1. \A j, k \in 1..Len(s) : s[j] = s[k] => j = k
  BY AscendingInjective
<1>2. ASSUME NEW k \in 1..Len(s)
      PROVE  F[s[k]] = IF k = Len(s) THEN LastMark + SectorsInLastGranule(size) ELSE s[k + 1]
  <2>1. s[k] \in Granules
    OBVIOUS
  <2>2. (CHOOSE j \in 1..Len(s) : s[j] = s[k]) = k
    BY <1>1
  <2> QED BY <2>1, <2>2 DEF Linked
<1>3. ASSUME NEW g \in Granules, \A k \in 1..Len(s) : s[k] # g PROVE F[g] = fat[g]
  BY <1>3 DEF Linked
<1> HIDE DEF F
<1>4. ASSUME NEW g \in Granules PROVE F[g] \in 0..255
  <2>1. CASE \E k \in 1..Len(s) : s[k] = g
    <3>1. PICK k \in 1..Len(s) : s[k] = g
      BY <2>1
    <3>2. CASE k = Len(s)
      <4>1. F[s[k]] = LastMark + SectorsInLastGranule(size)
        BY <3>2, <1>2
      <4>2. LastMark + SectorsInLastGranule(size) \in 0..255
        BY <1>0, LastMarkOf
      <4> QED BY <3>1, <4>1, <4>2
    <3>3. CASE k # Len(s)
      <4>1. s[k + 1] \in Granules
        BY <3>3
      <4> QED BY <3>1, <3>3, <4>1, <1>2, Marks
    <3> QED BY <3>2, <3>3
  <2>2. CASE \A k \in 1..Len(s) : s[k] # g
    BY <2>2, <1>3
  <2> QED BY <2>1, <2>2
<1>5. F \in [Granules -> 0..255]
  BY <1>4 DEF F, Linked
<1> QED BY <1>2, <1>3, <1>5 DEF F

\* addFile() links free granules and enters them under a name that no entry has.
LEMMA AddChain ==
    ASSUME NEW fat \in [Granules -> 0..255], NEW dir \in [DirEntries -> Entry],
           Sound(fat, dir),
           NEW s \in Seq(Granules), Len(s) > 0, Ascending(s),
           \A k \in 1..Len(s) : fat[s[k]] = FreeFatEntry,
           NEW e \in DirEntries, ~InUse(dir[e]), \A f \in 1..(e - 1) : InUse(dir[f]),
           NEW n \in DirNames, \A d \in DirEntries : dir[d].name # n,
           NEW size \in Nat, NEW l \in 0..BytesPerSector
    PROVE  Sound(Linked(fat, s, size),
                 [dir EXCEPT ![e] = [name |-> n, gran |-> s[1], lastBytes |-> l]])
<1> DEFINE F == Linked(fat, s, size)
           D == [dir EXCEPT ![e] = [name |-> n, gran |-> s[1], lastBytes |-> l]]
           In(g) == \E k \in 1..Len(s) : s[k] = g
<1>0. /\ F \in [Granules -> 0..255]
      /\ \A k \in 1..Len(s) : F[s[k]] = IF k = Len(s) THEN LastMark + SectorsInLastGranule(size)
                                          ELSE s[k + 1]
      /\ \A g \in Granules : (\A k \in 1..Len(s) : s[k] # g) => F[g] = fat[g]
  BY LinkedAt
<1> HIDE DEF F
<1>1. F \in [Granules -> 0..255] /\ \A g \in Granules : ~In(g) => F[g] = fat[g]
  BY <1>0
<1>2. \A k \in 1..Len(s) : k = Len(s) => IsLast(F[s[k]])
  <2>1. SectorsInLastGranule(size) \in 0..SectorsPerGranule
    BY Sizes
  <2>2. IsLast(LastMark + SectorsInLastGranule(size))
    BY <2>1, LastMarkOf
  <2> QED BY <1>0, <2>2
<1>3. \A k \in 1..Len(s) : k # Len(s) => F[s[k]] = s[k + 1]
  BY <1>0
<1>4. \A k \in 1..Len(s) : s[k] \in Granules /\ F[s[k]] # FreeFatEntry
  <2> TAKE k \in 1..Len(s)
  <2>1. s[k] \in Granules
    OBVIOUS
  <2>2. CASE k = Len(s)
    BY <2>1, <2>2, <1>2, Marks
  <2>3. CASE k # Len(s)
    <3>1. s[k + 1] \in Granules
      BY <2>3
    <3> QED BY <2>1, <2>3, <3>1, <1>3, Marks
  <2> QED BY <2>2, <2>3
<1>5. \A g \in Granules : In(g) => fat[g] = FreeFatEntry /\ F[g] # FreeFatEntry
  BY <1>4
<1>6. /\ D[e].name = n /\ InUse(D[e]) /\ D[e].gran = s[1] /\ s[1] \in Granules /\ In(s[1])
      /\ \A d \in DirEntries : d # e => D[d] = dir[d]
  BY DEF InUse
<1>7. \A d \in DirEntries : (d # e /\ InUse(D[d])) => InUse(dir[d]) /\ ~In(D[d].gran)
  BY <1>5, <1>6 DEF Sound, HeadsAllocated, Entry
<1>8. \A g \in Granules : (~In(g) /\ IsLink(F[g])) => fat[g] = F[g] /\ F[g] \in Granules /\ ~In(F[g])
  BY <1>1, <1>5 DEF Sound, LinksAllocated
<1>9. \A g \in Granules : (In(g) /\ IsLink(F[g])) =>
          \E k \in 1..Len(s) : k # Len(s) /\ s[k] = g /\ F[g] = s[k + 1] /\ k + 1 \in 1..Len(s)
  BY <1>2, <1>3, Marks
<1>10. HeadsAllocated(F, D)
  BY <1>1, <1>4, <1>6, <1>7 DEF Sound, HeadsAllocated, Entry
<1>11. LinksAllocated(F)
  <2> SUFFICES ASSUME NEW g \in Granules, IsLink(F[g])
               PROVE  F[g] \in Granules /\ F[F[g]] # FreeFatEntry
    BY DEF LinksAllocated
  <2>1. CASE In(g)
    BY <2>1, <1>4, <1>9
  <2>2. CASE ~In(g)
    BY <2>2, <1>1, <1>8 DEF Sound, LinksAllocated
  <2> QED BY <2>1, <2>2
<1>12. EndsMarked(F)
  BY <1>1, <1>2, <1>3, <1>4, Marks DEF Sound, EndsMarked
<1>13. NoCrossLinks(F, D)
  <2>1. \A j, k \in 1..Len(s) : s[j] = s[k] => j = k
    BY AscendingInjective
  <2>2. ASSUME NEW g \in Granules, NEW h \in Granules, IsLink(F[g]), F[g] = F[h]
        PROVE  g = h
    <3>1. CASE In(g) /\ In(h)
      <4>1. PICK j \in 1..Len(s) : s[j] = g /\ F[g] = s[j + 1] /\ j + 1 \in 1..Len(s)
        BY <2>2, <3>1, <1>9
      <4>2. PICK k \in 1..Len(s) : s[k] = h /\ F[h] = s[k + 1] /\ k + 1 \in 1..Len(s)
        BY <2>2, <3>1, <1>9
      <4>3. s[j + 1] = s[k + 1]
        BY <2>2, <4>1, <4>2
      <4>4. j + 1 = k + 1
        BY <2>1, <4>1, <4>2, <4>3
      <4>5. j = k
        BY <4>4
      <4> QED BY <4>1, <4>2, <4>5
    <3>2. CASE ~In(g) /\ ~In(h)
      BY <2>2, <3>2, <1>8 DEF Sound, NoCrossLinks
    <3>3. CASE In(g) # In(h)
      BY <2>2, <3>3, <1>8, <1>9
    <3> QED BY <3>1, <3>2, <3>3
  <2>3. ASSUME NEW d \in DirEntries, NEW f \in DirEntries, InUse(D[d]), InUse(D[f]),
               D[d].gran = D[f].gran
        PROVE  d = f
    BY <2>3, <1>6, <1>7 DEF Sound, NoCrossLinks
  <2>4. ASSUME NEW d \in DirEntries, NEW g \in Granules, InUse(D[d]), IsLink(F[g])
        PROVE  F[g] # D[d].gran
    <3>1. CASE In(g) /\ d = e
      <4>1. PICK k \in 1..Len(s) : k # Len(s) /\ F[g] = s[k + 1] /\ k + 1 \in 1..Len(s)
        BY <2>4, <3>1, <1>9
      <4>2. s[1] # s[k + 1]
        BY <4>1, <2>1
      <4> QED BY <3>1, <4>1, <4>2, <1>6
    <3>2. CASE In(g) /\ d # e
      BY <2>4, <3>2, <1>7, <1>9
    <3>3. CASE ~In(g) /\ d = e
      BY <2>4, <3>3, <1>6, <1>8
    <3>4. CASE ~In(g) /\ d # e
      BY <2>4, <3>4, <1>6, <1>7, <1>8 DEF Sound, NoCrossLinks
    <3> QED BY <3>1, <3>2, <3>3, <3>4
  <2> QED BY <2>2, <2>3, <2>4 DEF NoCrossLinks
<1>14. NothingLost(F, D)
  <2> SUFFICES ASSUME NEW g \in Granules \ BootGranules
               PROVE  \/ F[g] = FreeFatEntry
                      \/ \E d \in DirEntries : InUse(D[d]) /\ D[d].gran = g
                      \/ \E h \in Granules : F[h] = g
    BY DEF NothingLost
  <2>1. CASE In(g)
    <3>1. PICK k \in 1..Len(s) : s[k] = g
      BY <2>1
    <3>2. CASE k = 1
      BY <3>1, <3>2, <1>6
    <3>3. CASE k # 1
      <4>1. k - 1 \in 1..Len(s) /\ k - 1 # Len(s) /\ (k - 1) + 1 = k
        BY <3>3
      <4>2. F[s[k - 1]] = g /\ s[k - 1] \in Granules
        BY <3>1, <4>1, <1>3
      <4> QED BY <4>2
    <3> QED BY <3>2, <3>3
  <2>2. CASE ~In(g)
    <3>1. CASE fat[g] = FreeFatEntry
      BY <2>2, <3>1, <1>1
    <3>2. CASE \E d \in DirEntries : InUse(dir[d]) /\ dir[d].gran = g
      BY <3>2, <1>6
    <3>3. CASE \E h \in Granules : fat[h] = g
      BY <3>3, <1>1, <1>5, Marks
    <3> QED BY <3>1, <3>2, <3>3 DEF Sound, NothingLost
  <2> QED BY <2>1, <2>2
<1>15. DistinctNames(D)
  BY <1>6, <1>7 DEF Sound, DistinctNames
<1>16. NoFileBehindEnd(D)
  <2>1. n # NeverUsed /\ \A d \in DirEntries : d < e => dir[d].name # NeverUsed
    BY ImageAssumption DEF InUse, DirEntries
  <2> SUFFICES ASSUME NEW d \in DirEntries, NEW f \in DirEntries, d < f, D[d].name = NeverUsed
               PROVE  D[f].name = NeverUsed
    BY DEF NoFileBehindEnd
  <2>2. d # e /\ dir[d].name = NeverUsed
    BY <2>1, <1>6
  <2>3. f # e
    BY <2>1, <2>2
  <2>4. dir[f].name = NeverUsed
    BY <2>2 DEF Sound, NoFileBehindEnd
  <2> QED BY <2>3, <2>4, <1>6
<1> QED BY <1>10, <1>11, <1>12, <1>13, <1>14, <1>15, <1>16 DEF Sound, F

-----------------------------------------------------------------------------
(* The inductive invariant. *)

\* The entry of the file being killed, as if its chain started at granuleNo.
DirOfRest == [contents.dir EXCEPT ![entry].gran = granuleNo]

Named == DirNameOf[request.name]

Unnamed == \A d \in DirEntries : contents.dir[d].name # Named

Killing ==
    /\ granuleNo \in Granules
    /\ contents.dir[entry].name = Named /\ Named \in DirNames
    /\ Sound(contents.fat, DirOfRest)

Allocating ==
    /\ Len(fileGranules) <= SizeToAdd
    /\ Ascending(fileGranules)
    /\ \A k \in 1..Len(fileGranules) : /\ fileGranules[k] < granuleNo
                                       /\ contents.fat[fileGranules[k]] = FreeFatEntry

IInv ==
    /\ TypeOK
    /\ DiskSound
    /\ pc # "idle" => request \in Requests
    /\ pc \notin {"allocate", "commit", "torn"} => fileGranules = <<>>
    /\ pc \in {"find", "extract", "add", "allocate", "commit"} => Sound(contents.fat, contents.dir)
    /\ pc = "find" => request.op # "list"
    /\ pc = "kill" => Killing /\ request.op \in {"write", "kill"}
    /\ pc \in {"add", "allocate"} => request.op = "write" /\ Unnamed
    /\ pc = "allocate" => Allocating
    /\ pc = "extract" => granuleNo \in Granules /\ contents.fat[granuleNo] # FreeFatEntry

\* A search that fails has seen every entry of the name.
LEMMA SearchIsComplete ==
    ASSUME NEW fat, NEW dir \in [DirEntries -> Entry], Sound(fat, dir),
           NEW n \in DirNames, Matches(dir, n) = {}
    PROVE  \A d \in DirEntries : dir[d].name # n
<1> SUFFICES ASSUME NEW d \in DirEntries, dir[d].name = n PROVE FALSE
  OBVIOUS
<1>1. ASSUME NEW f \in 1..(d - 1) PROVE dir[f].name \notin {n, NeverUsed}
  <2>1. f \in DirEntries /\ f < d
    BY <1>1, ImageAssumption DEF DirEntries
  <2>2. dir[f].name # n
    BY <2>1 DEF Sound, DistinctNames, InUse
  <2>3. dir[f].name # NeverUsed
    BY <2>1, ImageAssumption DEF Sound, NoFileBehindEnd
  <2> QED BY <2>2, <2>3
<1>2. d \in Matches(dir, n)
  BY <1>1 DEF Matches
<1> QED BY <1>2

LEMMA BytesToAddTyped ==
    ASSUME NEW r \in Requests, r.op = "write"
    PROVE  BytesToAdd(r) \in Seq(Bytes)
<1>1. r.native \in Seq(Bytes) /\ CR \in Bytes
  BY RequestsAssumption
<1>2. \A s \in Seq(Bytes) : Converted(s) \in Seq(Bytes)
  BY <1>1 DEF Converted
<1>3. CompleteLinesWithCR(r.native) \in Seq(Bytes)
  <2> DEFINE n    == Cardinality(InCompleteLines(r.native))
             part == SubSeq(r.native, 1, n)
  <2>1. n \in 0..Len(r.native)
    <3>1. IsFiniteSet(1..Len(r.native)) /\ Cardinality(1..Len(r.native)) = Len(r.native)
      BY <1>1, FS_Interval
    <3>2. InCompleteLines(r.native) \subseteq 1..Len(r.native)
      BY DEF InCompleteLines
    <3> QED BY <3>1, <3>2, FS_Subset, FS_CardinalityType
  <2>2. part \in Seq(Bytes)
    BY <1>1, <2>1
  <2> HIDE DEF part
  <2>3. Converted(part) \in Seq(Bytes)
    BY <1>2, <2>2
  <2>4. <<CR>> \o Converted(part) \in Seq(Bytes)
    BY <1>1, <2>3
  <2> QED BY <2>4 DEF CompleteLinesWithCR, part
<1> QED BY <1>1, <1>2, <1>3 DEF BytesToAdd

LEMMA WithFileTyped ==
    ASSUME NEW im \in Image, NEW e \in DirEntries, NEW n \in DirNames,
           NEW s \in Seq(Granules), Len(s) > 0, Ascending(s), NEW bytes \in Seq(Bytes)
    PROVE  WithFile(im, e, n, s, bytes) \in Image
<1>0. /\ im.fat \in [Granules -> 0..255]
      /\ im.dir \in [DirEntries -> Entry]
      /\ im.gran \in [Granules -> [1..BytesPerGranule -> Bytes]]
      /\ Len(bytes) \in Nat
  BY DEF Image
<1>1. Linked(im.fat, s, Len(bytes)) \in [Granules -> 0..255]
  BY <1>0, LinkedAt
<1>2. [im.dir EXCEPT ![e] = [name |-> n, gran |-> s[1], lastBytes |-> BytesInLastSector(Len(bytes))]]
        \in [DirEntries -> Entry]
  <2>1. BytesInLastSector(Len(bytes)) \in 0..BytesPerSector
    BY <1>0, Sizes
  <2>2. [name |-> n, gran |-> s[1], lastBytes |-> BytesInLastSector(Len(bytes))] \in Entry
    BY <2>1 DEF Entry
  <2> QED BY <1>0, <2>2
<1>3. Stored(im.gran, s, bytes) \in [Granules -> [1..BytesPerGranule -> Bytes]]
  <2>1. ASSUME NEW g \in Granules, NEW k \in 1..Len(s)
        PROVE  [b \in 1..BytesPerGranule |->
                   LET at == (k - 1) * BytesPerGranule + b
                   IN  IF at <= Len(bytes) THEN bytes[at] ELSE im.gran[g][b]]
                 \in [1..BytesPerGranule -> Bytes]
    <3> SUFFICES ASSUME NEW b \in 1..BytesPerGranule,
                        (k - 1) * BytesPerGranule + b <= Len(bytes)
                 PROVE  bytes[(k - 1) * BytesPerGranule + b] \in Bytes
      BY <1>0
    <3>1. (k - 1) * BytesPerGranule + b \in 1..Len(bytes)
      BY BytesPerGranulePositive
    <3> QED BY <3>1
  <2>2. \A g \in Granules : (\E k \in 1..Len(s) : s[k] = g) =>
                                (CHOOSE k \in 1..Len(s) : s[k] = g) \in 1..Len(s)
    OBVIOUS
  <2> QED BY <1>0, <2>1, <2>2 DEF Stored
<1> QED BY <1>1, <1>2, <1>3 DEF WithFile, Image

-----------------------------------------------------------------------------
(* The steps. *)

LEMMA InitHolds == Init => IInv
<1> SUFFICES ASSUME Init PROVE IInv
  OBVIOUS
<1>1. disk \in Image /\ Sound(disk.fat, disk.dir) /\ contents = disk
  BY ImagesAssumption DEF Init
<1>2. 0 \in 0..NumGranules /\ 1 \in DirEntries
  BY ImageAssumption DEF DirEntries, LastMark
<1> QED BY <1>1, <1>2 DEF Init, IInv, TypeOK, DiskSound

\* A command that ends leaves nothing in memory.
LEMMA ExitKeeps ==
    ASSUME IInv, NEW exit, NEW output, Exit(exit, output),
           disk' \in Image, Sound(disk'.fat, disk'.dir)
    PROVE  IInv'
<1>1. 0 \in 0..NumGranules /\ 1 \in DirEntries
  BY ImageAssumption DEF DirEntries, LastMark
<1> QED BY <1>1 DEF IInv, TypeOK, DiskSound, Exit

LEMMA FailKeeps == ASSUME IInv, Fail, pc # "torn" PROVE IInv'
<1>1. disk' = disk /\ Exit("failure", None)
  BY DEF Fail
<1>2. disk' \in Image /\ Sound(disk'.fat, disk'.dir)
  BY <1>1 DEF IInv, TypeOK, DiskSound
<1> QED BY <1>1, <1>2, ExitKeeps

LEMMA StartKeeps == ASSUME IInv, Start PROVE IInv'
BY DEF IInv, TypeOK, DiskSound, Start

LEMMA OpenKeeps == ASSUME IInv, Open PROVE IInv'
<1>1. CASE Openable(request)
  BY <1>1 DEF IInv, TypeOK, DiskSound, Open
<1>2. CASE ~Openable(request)
  BY <1>2, FailKeeps DEF Open
<1> QED BY <1>1, <1>2

LEMMA NamedTyped == ASSUME IInv, pc # "idle", request.op # "list" PROVE Named \in DirNames
BY RequestsAssumption DEF IInv, Named

LEMMA FindToKillKeeps == ASSUME IInv, FindToKill PROVE IInv'
<1> DEFINE found == Matches(contents.dir, Named)
<1>1. /\ pc = "find" /\ request \in Requests /\ request.op \in {"write", "kill"}
      /\ contents \in Image /\ Sound(contents.fat, contents.dir) /\ Named \in DirNames
  BY NamedTyped DEF IInv, TypeOK, FindToKill
<1>2. contents.dir \in [DirEntries -> Entry]
  BY <1>1 DEF Image
<1>3. UNCHANGED <<disk, contents, request, fileGranules, fileContents, reply, Named>>
  BY DEF FindToKill, Named
<1>4. CASE found = {}
  <2>1. Unnamed
    BY <1>1, <1>2, <1>4, SearchIsComplete DEF Unnamed
  <2>2. pc' = AfterKill /\ UNCHANGED <<entry, granuleNo>>
    BY <1>4 DEF FindToKill, Named
  <2> QED BY <1>1, <1>3, <2>1, <2>2 DEF IInv, TypeOK, DiskSound, AfterKill, Unnamed
<1>5. CASE found # {}
  <2>1. pc' = "kill" /\ entry' \in found /\ granuleNo' = contents.dir[entry'].gran
    BY <1>5 DEF FindToKill, Named
  <2>2. entry' \in DirEntries /\ contents.dir[entry'].name = Named
    BY <2>1 DEF Matches
  <2>3. granuleNo' \in Granules /\ granuleNo' \in 0..NumGranules
    BY <1>2, <2>1, <2>2, ImageAssumption DEF Entry, Granules, LastMark
  <2>4. [contents.dir EXCEPT ![entry'].gran = granuleNo'] = contents.dir
    BY <1>2, <2>1, <2>2 DEF Entry
  <2>5. DirOfRest' = contents.dir
    BY <1>3, <2>4 DEF DirOfRest
  <2>6. Killing'
    BY <1>1, <1>3, <2>2, <2>3, <2>5 DEF Killing
  <2> QED BY <1>1, <1>3, <2>1, <2>2, <2>3, <2>6 DEF IInv, TypeOK, DiskSound
<1> QED BY <1>4, <1>5

LEMMA FreeGranuleKeeps == ASSUME IInv, FreeGranule PROVE IInv'
<1> DEFINE next == contents.fat[granuleNo]
           F    == [contents.fat EXCEPT ![granuleNo] = FreeFatEntry]
<1>1. /\ pc = "kill" /\ request \in Requests /\ request.op \in {"write", "kill"}
      /\ contents \in Image /\ Killing /\ entry \in DirEntries
  BY DEF IInv, TypeOK, FreeGranule
<1>2. /\ contents.fat \in [Granules -> 0..255]
      /\ contents.dir \in [DirEntries -> Entry]
      /\ granuleNo \in Granules /\ Named \in DirNames /\ contents.dir[entry].name = Named
      /\ Sound(contents.fat, DirOfRest)
  BY <1>1 DEF Image, Killing
<1>3. /\ DirOfRest \in [DirEntries -> Entry]
      /\ DirOfRest[entry].gran = granuleNo /\ DirOfRest[entry].name = Named
      /\ InUse(DirOfRest[entry])
      /\ \A d \in DirEntries : d # entry => DirOfRest[d] = contents.dir[d]
  BY <1>1, <1>2 DEF DirOfRest, Entry, InUse
<1>4. FreeFatEntry \in 0..255 /\ F \in [Granules -> 0..255]
  BY <1>2 DEF FreeFatEntry
<1>5. UNCHANGED <<disk, request, entry, fileGranules, fileContents, reply, Named>>
  BY DEF FreeGranule, Named
<1>6. CASE IsLast(next)
  <2> DEFINE D == [contents.dir EXCEPT ![entry] = Unused(Killed)]
  <2>1. pc' = AfterKill /\ UNCHANGED granuleNo
    BY <1>6 DEF FreeGranule
  <2>2. contents' = [contents EXCEPT !.fat = F, !.dir = D]
    BY <1>6 DEF FreeGranule
  <2>3. contents'.fat = F /\ contents'.dir = D /\ contents'.gran = contents.gran
    BY <1>1, <2>2 DEF Image
  <2>4. Unused(Killed) \in Entry
    BY <1>2, ImageAssumption DEF Unused, Entry, Granules, LastMark
  <2>5. contents' \in Image
    BY <1>1, <1>2, <1>4, <2>2, <2>4 DEF Image
  <2>6. [DirOfRest EXCEPT ![entry] = Unused(Killed)] = D
    BY <1>1, <1>2, <1>3
  <2>7. Sound(F, D)
    BY <1>1, <1>2, <1>3, <1>6, <2>6, FreeLast
  <2>8. Unnamed'
    <3>1. \A d \in DirEntries : d # entry => contents.dir[d].name # Named
      BY <1>1, <1>2, <1>3 DEF Sound, DistinctNames
    <3>2. D[entry].name # Named
      BY <1>1, <1>2, ImageAssumption DEF Unused
    <3> QED BY <1>2, <1>5, <2>3, <3>1, <3>2 DEF Unnamed
  <2> QED BY <1>1, <1>5, <2>1, <2>3, <2>5, <2>7, <2>8 DEF IInv, TypeOK, DiskSound, AfterKill
<1>7. CASE ~IsLast(next)
  <2>1. /\ UNCHANGED pc /\ granuleNo' = next
        /\ contents' = [contents EXCEPT !.fat = F]
    BY <1>7 DEF FreeGranule
  <2>2. contents'.fat = F /\ contents'.dir = contents.dir /\ contents' \in Image
    BY <1>1, <1>4, <2>1 DEF Image
  <2>3. IsLink(next) /\ next \in Granules
    BY <1>1, <1>2, <1>3, <1>7 DEF Sound, HeadsAllocated, EndsMarked, LinksAllocated
  <2>4. [DirOfRest EXCEPT ![entry].gran = next] = DirOfRest'
    BY <1>1, <1>2, <1>3, <1>5, <2>1, <2>2 DEF DirOfRest, Entry
  <2>5. Sound(F, DirOfRest')
    BY <1>1, <1>2, <1>3, <2>3, <2>4, UnlinkHead
  <2>6. Killing'
    BY <1>1, <1>2, <1>5, <2>1, <2>2, <2>3, <2>5 DEF Killing
  <2>7. next \in 0..NumGranules
    BY <2>3, ImageAssumption DEF Granules, LastMark
  <2> QED BY <1>1, <1>5, <2>1, <2>2, <2>6, <2>7 DEF IInv, TypeOK, DiskSound
<1> QED BY <1>6, <1>7

LEMMA BeginAddKeeps == ASSUME IInv, BeginAdd PROVE IInv'
<1>1. pc = "add"
  BY DEF BeginAdd
<1>2. CASE request.name \in LegalNames
  <2>1. /\ pc' = "allocate" /\ granuleNo' = 0
        /\ UNCHANGED <<disk, contents, request, entry, fileGranules, fileContents, reply>>
    BY <1>2 DEF BeginAdd
  <2>2. BytesToAdd(request) \in Seq(Bytes)
    BY <1>1, BytesToAddTyped DEF IInv
  <2>3. Len(<<>>) <= SizeToAdd
    BY <2>2, Sizes DEF SizeToAdd
  <2>4. SizeToAdd' = SizeToAdd
    BY <2>1 DEF SizeToAdd, BytesToAdd
  <2>5. fileGranules' = <<>>
    BY <1>1, <2>1 DEF IInv
  <2>6. Allocating'
    BY <2>3, <2>4, <2>5 DEF Allocating, Ascending
  <2>7. 0 \in 0..NumGranules
    BY ImageAssumption DEF LastMark
  <2> QED BY <1>1, <2>1, <2>6, <2>7 DEF IInv, TypeOK, DiskSound, Unnamed, Named
<1>3. CASE request.name \notin LegalNames
  BY <1>1, <1>3, FailKeeps DEF BeginAdd
<1> QED BY <1>2, <1>3

LEMMA AllocateGranuleKeeps == ASSUME IInv, AllocateGranule PROVE IInv'
<1>1. pc = "allocate" /\ UNCHANGED <<disk, contents, request, pc, entry, fileContents, reply>>
  BY DEF AllocateGranule
<1>2. PICK g \in Granules : /\ IsNextFree(g)
                            /\ fileGranules' = Append(fileGranules, g)
                            /\ granuleNo' = g + 1
  BY DEF AllocateGranule
<1>3. /\ fileGranules \in Seq(Granules) /\ granuleNo \in Int /\ NumGranules \in Nat
      /\ g \in Int /\ granuleNo <= g /\ g < NumGranules /\ contents.fat[g] = FreeFatEntry
  BY <1>2, ImageAssumption DEF IInv, TypeOK, IsNextFree, Granules, LastMark
<1>4. /\ fileGranules' \in Seq(Granules) /\ Len(fileGranules') = Len(fileGranules) + 1
      /\ fileGranules'[Len(fileGranules) + 1] = g
      /\ \A k \in 1..Len(fileGranules) : /\ fileGranules'[k] = fileGranules[k]
                                         /\ fileGranules[k] \in Int
  BY <1>2, <1>3 DEF Granules
<1>5. SizeToAdd' = SizeToAdd /\ SizeToAdd \in Int
  <2>1. BytesToAdd(request) \in Seq(Bytes)
    BY <1>1, BytesToAddTyped DEF IInv
  <2>2. SizeToAdd \in Int
    BY <2>1, Sizes DEF SizeToAdd
  <2>3. SizeToAdd' = SizeToAdd
    BY <1>1 DEF SizeToAdd, BytesToAdd
  <2> QED BY <2>2, <2>3
<1>6. Allocating
  BY <1>1 DEF IInv
<1>7. Allocating'
  <2>1. Len(fileGranules') <= SizeToAdd'
    BY <1>3, <1>4, <1>5 DEF AllocateGranule
  <2>2. Ascending(fileGranules')
    BY <1>3, <1>4, <1>6 DEF Allocating, Ascending
  <2>3. \A k \in 1..Len(fileGranules') : /\ fileGranules'[k] < granuleNo'
                                         /\ contents'.fat[fileGranules'[k]] = FreeFatEntry
    BY <1>1, <1>2, <1>3, <1>4, <1>6 DEF Allocating
  <2> QED BY <2>1, <2>2, <2>3 DEF Allocating
<1>8. granuleNo' \in 0..NumGranules
  BY <1>2, <1>3 DEF Granules
<1> QED BY <1>1, <1>4, <1>7, <1>8 DEF IInv, TypeOK, DiskSound, Unnamed, Named

LEMMA OutOfSpaceKeeps == ASSUME IInv, OutOfSpace PROVE IInv'
BY FailKeeps DEF OutOfSpace

LEMMA OutOfEntriesKeeps == ASSUME IInv, OutOfEntries PROVE IInv'
BY FailKeeps DEF OutOfEntries

LEMMA AddFileKeeps == ASSUME IInv, AddFile PROVE IInv'
<1> DEFINE bytes == BytesToAdd(request)
<1>1. /\ pc = "allocate" /\ pc' = "commit"
      /\ UNCHANGED <<disk, request, granuleNo, entry, fileGranules, fileContents, reply>>
      /\ Len(fileGranules) = SizeToAdd
  BY DEF AddFile
<1>2. PICK e \in DirEntries : /\ IsFirstUnused(e)
                              /\ contents' = WithFile(contents, e, Named, fileGranules, bytes)
  BY DEF AddFile, Named
<1>3. /\ contents \in Image /\ Sound(contents.fat, contents.dir) /\ Unnamed /\ Allocating
      /\ fileGranules \in Seq(Granules)
      /\ request \in Requests /\ request.op = "write" /\ Named \in DirNames
  BY <1>1, NamedTyped DEF IInv, TypeOK
<1>4. /\ contents.fat \in [Granules -> 0..255]
      /\ contents.dir \in [DirEntries -> Entry]
  BY <1>3 DEF Image
<1>5. bytes \in Seq(Bytes) /\ Len(bytes) \in Nat
  BY <1>3, BytesToAddTyped
<1>6. Len(fileGranules) > 0 /\ Ascending(fileGranules)
      /\ \A k \in 1..Len(fileGranules) : contents.fat[fileGranules[k]] = FreeFatEntry
  <2>1. SizeInGranules(Len(bytes)) \in Nat \ {0}
    BY <1>5, Sizes
  <2>2. Len(fileGranules) > 0
    BY <1>1, <2>1 DEF SizeToAdd
  <2> QED BY <1>3, <2>2 DEF Allocating
<1> HIDE DEF bytes
<1>7. contents' \in Image
  BY <1>2, <1>3, <1>5, <1>6, WithFileTyped
<1>8. Sound(contents'.fat, contents'.dir)
  <2>1. /\ contents'.fat = Linked(contents.fat, fileGranules, Len(bytes))
        /\ contents'.dir = [contents.dir EXCEPT ![e] =
                               [name |-> Named, gran |-> fileGranules[1],
                                lastBytes |-> BytesInLastSector(Len(bytes))]]
    BY <1>2 DEF WithFile
  <2>2. /\ ~InUse(contents.dir[e]) /\ \A f \in 1..(e - 1) : InUse(contents.dir[f])
        /\ \A d \in DirEntries : contents.dir[d].name # Named
    BY <1>2, <1>3 DEF IsFirstUnused, Unnamed
  <2>3. BytesInLastSector(Len(bytes)) \in 0..BytesPerSector
    BY <1>5, Sizes
  <2>4. Sound(Linked(contents.fat, fileGranules, Len(bytes)),
              [contents.dir EXCEPT ![e] = [name |-> Named, gran |-> fileGranules[1],
                                           lastBytes |-> BytesInLastSector(Len(bytes))]])
    BY <1>3, <1>4, <1>5, <1>6, <2>2, <2>3, AddChain
  <2> QED BY <2>1, <2>4
<1> QED BY <1>1, <1>3, <1>7, <1>8 DEF IInv, TypeOK, DiskSound

LEMMA CommitKeeps == ASSUME IInv, Commit PROVE IInv'
<1>1. disk' \in Image /\ Sound(disk'.fat, disk'.dir) /\ Exit("success", None)
  BY DEF IInv, TypeOK, Commit
<1> QED BY <1>1, ExitKeeps

LEMMA CommitFailsKeeps == ASSUME IInv, CommitFails PROVE IInv'
<1>1. /\ pc = "commit" /\ pc' = "torn"
      /\ UNCHANGED <<contents, request, granuleNo, entry, fileGranules, fileContents>>
      /\ contents \in Image /\ disk \in Image
  BY DEF IInv, TypeOK, CommitFails
<1>2. PICK n \in 0..(NumGranules + 1) : disk' = Torn(n)
  BY DEF CommitFails
<1>3. Torn(n) \in Image
  BY <1>1 DEF Torn, Image
<1> QED BY <1>1, <1>2, <1>3 DEF IInv, TypeOK, DiskSound

LEMMA FindToExtractKeeps == ASSUME IInv, FindToExtract PROVE IInv'
<1> DEFINE found == Matches(contents.dir, Named)
<1>1. /\ pc = "find" /\ request \in Requests /\ request.op = "read"
      /\ contents \in Image /\ Sound(contents.fat, contents.dir) /\ Named \in DirNames
  BY NamedTyped DEF IInv, TypeOK, FindToExtract
<1>2. CASE found = {}
  BY <1>1, <1>2, FailKeeps DEF FindToExtract, Named
<1>3. CASE found # {}
  <2>1. /\ pc' = "extract" /\ entry' \in found /\ granuleNo' = contents.dir[entry'].gran
        /\ UNCHANGED <<disk, contents, request, fileGranules, fileContents, reply>>
    BY <1>3 DEF FindToExtract, Named
  <2>2. entry' \in DirEntries /\ contents.dir[entry'].name = Named
    BY <2>1 DEF Matches
  <2>3. granuleNo' \in Granules /\ granuleNo' \in 0..NumGranules
    BY <1>1, <2>1, <2>2, ImageAssumption DEF Image, Entry, Granules, LastMark
  <2>4. contents.fat[granuleNo'] # FreeFatEntry
    BY <1>1, <2>1, <2>2 DEF Sound, HeadsAllocated, InUse
  <2> QED BY <1>1, <2>1, <2>2, <2>3, <2>4 DEF IInv, TypeOK, DiskSound
<1> QED BY <1>2, <1>3

LEMMA ExtractGranuleKeeps == ASSUME IInv, ExtractGranule PROVE IInv'
<1>1. /\ pc = "extract" /\ ~IsLast(contents.fat[granuleNo])
      /\ granuleNo' = contents.fat[granuleNo]
      /\ UNCHANGED <<disk, contents, request, pc, entry, fileGranules, reply>>
      /\ Sound(contents.fat, contents.dir)
      /\ granuleNo \in Granules /\ contents.fat[granuleNo] # FreeFatEntry
  BY DEF IInv, ExtractGranule
<1>2. granuleNo' \in Granules /\ contents.fat[granuleNo'] # FreeFatEntry
  BY <1>1 DEF Sound, EndsMarked, LinksAllocated
<1>3. granuleNo' \in 0..NumGranules
  BY <1>2, ImageAssumption DEF Granules, LastMark
<1>4. fileContents' \in Seq(Bytes)
  <2>1. contents.gran[granuleNo] \in Seq(Bytes)
    BY <1>1, BytesPerGranulePositive DEF IInv, TypeOK, Image
  <2> QED BY <2>1 DEF IInv, TypeOK, ExtractGranule
<1> QED BY <1>1, <1>2, <1>3, <1>4 DEF IInv, TypeOK, DiskSound

LEMMA ExtractLastGranuleKeeps == ASSUME IInv, ExtractLastGranule PROVE IInv'
<1>1. disk' = disk /\ disk' \in Image /\ Sound(disk'.fat, disk'.dir)
  BY DEF IInv, TypeOK, DiskSound, ExtractLastGranule
<1>2. PICK exit, output : Exit(exit, output)
  BY DEF ExtractLastGranule
<1> QED BY <1>1, <1>2, ExitKeeps

LEMMA ListDirectoryKeeps == ASSUME IInv, ListDirectory PROVE IInv'
<1>1. disk' = disk /\ disk' \in Image /\ Sound(disk'.fat, disk'.dir)
  BY DEF IInv, TypeOK, DiskSound, ListDirectory
<1>2. PICK exit, output : Exit(exit, output)
  BY DEF ListDirectory
<1> QED BY <1>1, <1>2, ExitKeeps

LEMMA StepKeeps == IInv /\ [Next]_vars => IInv'
<1> SUFFICES ASSUME IInv, [Next]_vars PROVE IInv'
  OBVIOUS
<1>1. CASE Step
  BY <1>1, OpenKeeps, FindToKillKeeps, FreeGranuleKeeps, BeginAddKeeps, AllocateGranuleKeeps,
     OutOfSpaceKeeps, AddFileKeeps, OutOfEntriesKeeps, CommitKeeps, CommitFailsKeeps,
     FindToExtractKeeps, ExtractGranuleKeeps, ExtractLastGranuleKeeps, ListDirectoryKeeps
     DEF Step
<1>2. CASE UNCHANGED vars
  BY <1>2 DEF vars, IInv, TypeOK, DiskSound, Killing, DirOfRest, Named, Unnamed, Allocating,
              SizeToAdd, BytesToAdd
<1> QED BY <1>1, <1>2, StartKeeps DEF Next

-----------------------------------------------------------------------------
(* The theorems. *)

LEMMA Invariance == Spec => []IInv
BY InitHolds, StepKeeps, PTL DEF Spec

(* In every state, memory and disk hold an image, and what a command points to *)
(* lies within it: the loops over granules and entries stay within their bounds. *)
THEOREM WriterTypeCorrect == Spec => []TypeOK
<1>1. IInv => TypeOK
  BY DEF IInv
<1> QED BY <1>1, Invariance, PTL

(* Whatever commands are run on images of whatever geometry, the disk holds a  *)
(* sound file system after each command that does not fail while it writes.    *)
THEOREM DiskStaysSound == Spec => []DiskSound
<1>1. IInv => DiskSound
  BY DEF IInv
<1> QED BY <1>1, Invariance, PTL
==============================================================================
