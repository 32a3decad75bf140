---------------------------- MODULE DiskFileProofs ----------------------------
(* Proofs that disk.c reads the files of a diskette as RandomAccessFiles says, *)
(* for diskettes of every geometry and programs with any number of files.      *)
EXTENDS DiskFile, DecbImageProofs

-----------------------------------------------------------------------------
(* The inductive invariant. *)

\* The descriptor is that of a file of its diskette.
OfAnEntry(d) ==
    /\ d.drive \in Drives
    /\ \E e \in DirEntries :
           LET entry == Disks[d.drive].dir[e]
           IN  InUse(entry) /\ d.firstGran = entry.gran /\ d.lastBytes = entry.lastBytes

ChainOf(d) == Chain(Disks[d.drive].fat, d.firstGran)

\* n bytes behind the first a.
Slice(s, a, n) == SubSeq(s, a + 1, a + n)

\* Where the sector in memory, or the one to be read, starts in the file.
Start(d) == d.offset - d.secOffset

SectorStart(k, c) == (k - 1) * BytesPerGranule + (c - 1) * BytesPerSector

\* The next sector to be read starts at p.
NextIsAt(d, p) ==
    \E k \in 1..Len(ChainOf(d)) :
        /\ d.curGran = ChainOf(d)[k]
        /\ d.curSec \in 1..SectorsOf(Disks[d.drive].fat[d.curGran])
        /\ SectorStart(k, d.curSec) = p

Positioned(d) ==
    /\ OfAnEntry(d)
    /\ d.length = Len(FileOf(d))
    /\ d.secOffset < BytesPerSector /\ d.secOffset <= d.offset /\ d.offset <= d.length
    /\ d.sector # <<>> =>
           /\ d.secOffset <= Len(d.sector) /\ Start(d) + Len(d.sector) <= d.length
           /\ d.sector = Slice(FileOf(d), Start(d), Len(d.sector))
    /\ IF d.curGran = AtEnd THEN Start(d) + Len(d.sector) = d.length
       ELSE /\ d.sector # <<>> => Len(d.sector) = BytesPerSector
            /\ NextIsAt(d, Start(d) + Len(d.sector))

\* The table in memory is that of the default drive.
TableInv == fatUpToDate => fat = Disks[curDriveNo].fat

\* What read() has delivered is what the file has before the position.
CallInv ==
    /\ ~Reading => call \in {NoCall, Stopped} /\ buf = <<>>
    /\ Reading =>
           /\ call = ReadCall(call.f, call.left)
           /\ fd[call.f] # None /\ Current.drive = curDriveNo
           /\ Len(buf) + call.left \in Sizes /\ Len(buf) <= Current.offset
           /\ buf = Slice(FileOf(Current), Current.offset - Len(buf), Len(buf))

Inv ==
    /\ TypeOK /\ fd \in [Fds -> FileDesc \cup {None}]
    /\ TableInv
    /\ CallInv
    /\ Working => \A f \in Fds : fd[f] # None => Positioned(fd[f])

-----------------------------------------------------------------------------
(* The file of a descriptor: its granules and sectors. *)

TableOf(d) == Disks[d.drive].fat
MarkOf(d)  == TableOf(d)[ChainOf(d)[Len(ChainOf(d))]]

LEMMA FileFacts ==
    ASSUME NEW d, OfAnEntry(d)
    PROVE  /\ Disks[d.drive] \in Image /\ d.lastBytes \in 0..BytesPerSector
           /\ d.firstGran \in Granules
           /\ IsChain(TableOf(d), d.firstGran, ChainOf(d))
           /\ MarkOf(d) \in (LastMark + 1)..(LastMark + SectorsPerGranule)
<1> DEFINE im == Disks[d.drive]
<1>1. PICK e \in DirEntries : /\ InUse(im.dir[e]) /\ d.firstGran = im.dir[e].gran
                              /\ d.lastBytes = im.dir[e].lastBytes
  BY DEF OfAnEntry
<1>2. /\ im \in Image /\ Sound(im.fat, im.dir)
      /\ \A g \in Granules : im.fat[g] # LastMark
  BY DisksAssumption DEF OfAnEntry
<1>3. im.fat \in [Granules -> 0..255] /\ im.dir \in [DirEntries -> Entry]
  BY <1>2 DEF Image
<1>4. d.firstGran \in Granules /\ d.lastBytes \in 0..BytesPerSector
  BY <1>1, <1>3 DEF Entry
<1>5. IsChain(im.fat, d.firstGran, ChainOf(d))
  BY <1>1, <1>2, <1>3, ChainOfEntry DEF ChainOf
<1>6. ChainOf(d)[Len(ChainOf(d))] \in Granules
  BY <1>5 DEF IsChain
<1>7. MarkOf(d) # LastMark /\ IsLast(MarkOf(d))
  BY <1>2, <1>5, <1>6 DEF IsChain, MarkOf, TableOf
<1>8. MarkOf(d) \in (LastMark + 1)..(LastMark + SectorsPerGranule)
  BY <1>7, ImageAssumption DEF IsLast, LastMark
<1> QED BY <1>2, <1>4, <1>5, <1>8 DEF TableOf

LEMMA ChainFacts ==
    ASSUME NEW d, OfAnEntry(d)
    PROVE  /\ Len(ChainOf(d)) \in 1..NumGranules /\ ChainOf(d)[1] = d.firstGran
           /\ \A k \in 1..Len(ChainOf(d)) :
                  /\ ChainOf(d)[k] \in Granules /\ ChainOf(d)[k] # AtEnd
                  /\ TableOf(d)[ChainOf(d)[k]] \in 0..255
                  /\ SectorsOf(TableOf(d)[ChainOf(d)[k]]) \in 1..SectorsPerGranule
                  /\ IF k = Len(ChainOf(d))
                     THEN /\ TableOf(d)[ChainOf(d)[k]] = MarkOf(d) /\ IsEnd(MarkOf(d))
                          /\ SectorsOf(MarkOf(d)) = MarkOf(d) - LastMark
                     ELSE /\ TableOf(d)[ChainOf(d)[k]] = ChainOf(d)[k + 1]
                          /\ ~IsEnd(TableOf(d)[ChainOf(d)[k]])
                          /\ SectorsOf(TableOf(d)[ChainOf(d)[k]]) = SectorsPerGranule
           /\ \A i, j \in 1..Len(ChainOf(d)) : ChainOf(d)[i] = ChainOf(d)[j] => i = j
<1>1. IsChain(TableOf(d), d.firstGran, ChainOf(d))
  BY FileFacts
<1>2. MarkOf(d) \in (LastMark + 1)..(LastMark + SectorsPerGranule)
  BY FileFacts
<1>3. /\ Len(ChainOf(d)) \in 1..NumGranules /\ ChainOf(d)[1] = d.firstGran
      /\ ChainOf(d) \in Seq(Granules)
      /\ \A i, j \in 1..Len(ChainOf(d)) : ChainOf(d)[i] = ChainOf(d)[j] => i = j
  BY <1>1 DEF IsChain
<1>4. TableOf(d) \in [Granules -> 0..255]
  BY FileFacts DEF Image, TableOf
<1>5. AtEnd \notin Granules
  BY ImageAssumption DEF AtEnd, Granules, LastMark
<1> SUFFICES ASSUME NEW k \in 1..Len(ChainOf(d))
             PROVE  /\ ChainOf(d)[k] \in Granules /\ ChainOf(d)[k] # AtEnd
                    /\ TableOf(d)[ChainOf(d)[k]] \in 0..255
                    /\ SectorsOf(TableOf(d)[ChainOf(d)[k]]) \in 1..SectorsPerGranule
                    /\ IF k = Len(ChainOf(d))
                       THEN /\ TableOf(d)[ChainOf(d)[k]] = MarkOf(d) /\ IsEnd(MarkOf(d))
                            /\ SectorsOf(MarkOf(d)) = MarkOf(d) - LastMark
                       ELSE /\ TableOf(d)[ChainOf(d)[k]] = ChainOf(d)[k + 1]
                            /\ ~IsEnd(TableOf(d)[ChainOf(d)[k]])
                            /\ SectorsOf(TableOf(d)[ChainOf(d)[k]]) = SectorsPerGranule
  BY <1>3
<1>6. ChainOf(d)[k] \in Granules /\ ChainOf(d)[k] # AtEnd /\ TableOf(d)[ChainOf(d)[k]] \in 0..255
  <2>1. ChainOf(d)[k] \in Granules
    BY <1>3
  <2> QED BY <1>4, <1>5, <2>1
<1>7. CASE k = Len(ChainOf(d))
  <2>1. TableOf(d)[ChainOf(d)[k]] = MarkOf(d)
    BY <1>7 DEF MarkOf
  <2>2. IsEnd(MarkOf(d)) /\ SectorsOf(MarkOf(d)) = MarkOf(d) - LastMark
    BY <1>2 DEF IsEnd, SectorsOf, LastMark
  <2>3. MarkOf(d) - LastMark \in 1..SectorsPerGranule
    BY <1>2, UnitSizes DEF LastMark
  <2> QED BY <1>6, <1>7, <2>1, <2>2, <2>3
<1>8. CASE k # Len(ChainOf(d))
  <2>1. k \in 1..(Len(ChainOf(d)) - 1)
    BY <1>3, <1>8
  <2>2. IsLink(TableOf(d)[ChainOf(d)[k]]) /\ ChainOf(d)[k + 1] = TableOf(d)[ChainOf(d)[k]]
    BY <1>1, <2>1 DEF IsChain
  <2>3. ~IsEnd(TableOf(d)[ChainOf(d)[k]])
    <3>1. \A g \in 0..255 : IsLink(g) => ~IsEnd(g)
      BY DEF IsEnd, IsLink, LastMark
    <3> QED BY <1>6, <2>2, <3>1
  <2>4. SectorsOf(TableOf(d)[ChainOf(d)[k]]) = SectorsPerGranule
    BY <2>3 DEF SectorsOf
  <2> QED BY <1>6, <1>8, <2>2, <2>3, <2>4, UnitSizes
<1> QED BY <1>7, <1>8

LEMMA FileBytes ==
    ASSUME NEW d, OfAnEntry(d)
    PROVE  /\ FileOf(d) \in Seq(Bytes)
           /\ Len(FileOf(d)) = SectorStart(Len(ChainOf(d)), MarkOf(d) - LastMark) + d.lastBytes
           /\ Len(FileOf(d)) \in Nat
           /\ ComputedLength(TableOf(d), d.firstGran, d.lastBytes) = Len(FileOf(d))
           /\ \A q \in 0..(Len(ChainOf(d)) - 1) : \A r \in 1..BytesPerGranule :
                  q * BytesPerGranule + r <= Len(FileOf(d)) =>
                      FileOf(d)[q * BytesPerGranule + r]
                          = Disks[d.drive].gran[ChainOf(d)[q + 1]][r]
<1> DEFINE s == ChainOf(d)
           size == (Len(s) - 1) * BytesPerGranule + BytesInLastGranule(MarkOf(d), d.lastBytes)
<1>1. /\ FileOf(d) \in Seq(Bytes) /\ Len(FileOf(d)) = size /\ size \in Nat
      /\ \A q \in 0..(Len(s) - 1) : \A r \in 1..BytesPerGranule :
             q * BytesPerGranule + r <= size =>
                 FileOf(d)[q * BytesPerGranule + r] = Disks[d.drive].gran[s[q + 1]][r]
  <2> DEFINE im == Disks[d.drive]
             F  == FileFrom(im, d.firstGran, d.lastBytes)
             z  == BytesInLastGranule(im.fat[s[Len(s)]], d.lastBytes)
  <2>1. im \in Image /\ d.lastBytes \in 0..BytesPerSector /\ IsChain(im.fat, d.firstGran, s)
    BY FileFacts DEF TableOf
  <2> DEFINE n == (Len(s) - 1) * BytesPerGranule + z
  <2>2. /\ F \in Seq(Bytes) /\ Len(F) = n /\ n \in Nat
        /\ \A q \in 0..(Len(s) - 1) : \A r \in 1..BytesPerGranule :
               q * BytesPerGranule + r <= n =>
                   F[q * BytesPerGranule + r] = im.gran[s[q + 1]][r]
    <3>1. F = FileFrom(im, d.firstGran, d.lastBytes)
      OBVIOUS
    <3>2. n = (Len(s) - 1) * BytesPerGranule + BytesInLastGranule(im.fat[s[Len(s)]], d.lastBytes)
      OBVIOUS
    <3> HIDE DEF im, s, n, F
    <3> QED BY <2>1, <3>1, <3>2, FileOfChain
  <2>3. z = BytesInLastGranule(MarkOf(d), d.lastBytes) /\ F = FileOf(d)
    BY DEF FileOf, TableOf, MarkOf
  <2> HIDE DEF s, z, F
  <2> QED BY <2>2, <2>3
<1>2. MarkOf(d) \in (LastMark + 1)..(LastMark + SectorsPerGranule) /\ d.lastBytes \in 0..BytesPerSector
  BY FileFacts
<1>3. IsLast(MarkOf(d)) /\ MarkOf(d) # LastMark
  BY <1>2 DEF IsLast, LastMark
<1>4. BytesInLastGranule(MarkOf(d), d.lastBytes)
        = (MarkOf(d) - LastMark - 1) * BytesPerSector + d.lastBytes
  BY <1>2, <1>3, LastGranuleFits
<1>5. /\ MarkOf(d) - LastMark - 1 = (MarkOf(d) - LastMark) - 1
      /\ MarkOf(d) - (LastMark + 1) = MarkOf(d) - LastMark - 1
  BY <1>2 DEF LastMark
<1> HIDE DEF s
<1>6. size = SectorStart(Len(s), MarkOf(d) - LastMark) + d.lastBytes
  <2>1. (Len(s) - 1) * BytesPerGranule \in Int /\ (MarkOf(d) - LastMark - 1) * BytesPerSector \in Int
    <3>1. Len(s) - 1 \in Int /\ BytesPerGranule \in Int /\ BytesPerSector \in Int
          /\ MarkOf(d) - LastMark - 1 \in Int
      BY <1>2, ChainFacts, UnitSizes DEF s, LastMark
    <3>2. \A x, y \in Int : x * y \in Int
      OBVIOUS
    <3> QED BY <3>1, <3>2
  <2> QED BY <1>2, <1>4, <1>5, <2>1 DEF SectorStart
<1>7. ComputedLength(TableOf(d), d.firstGran, d.lastBytes) = size
  <2>1. Chain(TableOf(d), d.firstGran) = s /\ TableOf(d)[s[Len(s)]] = MarkOf(d)
    BY DEF s, ChainOf, TableOf, MarkOf
  <2>2. (Len(s) - 1) * BytesPerGranule \in Int /\ (MarkOf(d) - LastMark - 1) * BytesPerSector \in Int
    <3>1. Len(s) - 1 \in Int /\ BytesPerGranule \in Int /\ BytesPerSector \in Int
          /\ MarkOf(d) - LastMark - 1 \in Int
      BY <1>2, ChainFacts, UnitSizes DEF s, LastMark
    <3>2. \A x, y \in Int : x * y \in Int
      OBVIOUS
    <3> QED BY <3>1, <3>2
  <2> QED BY <1>2, <1>4, <1>5, <2>1, <2>2 DEF ComputedLength
<1> QED BY <1>1, <1>6, <1>7 DEF s

LEMMA SliceLength ==
    ASSUME NEW S, NEW s \in Seq(S), NEW a \in Nat, NEW n \in Nat, a + n <= Len(s)
    PROVE  /\ Slice(s, a, n) \in Seq(S) /\ Len(Slice(s, a, n)) = n
           /\ \A j \in 1..n : Slice(s, a, n)[j] = s[a + j]
<1>1. \A i \in (a + 1)..(a + n) : s[i] \in S
  BY LenProperties
<1>2. a + 1 \in Int /\ a + n \in Int /\ (IF a + 1 <= a + n THEN (a + n) - (a + 1) + 1 ELSE 0) = n
  OBVIOUS
<1>3. /\ SubSeq(s, a + 1, a + n) \in Seq(S)
      /\ Len(SubSeq(s, a + 1, a + n)) = IF a + 1 <= a + n THEN (a + n) - (a + 1) + 1 ELSE 0
      /\ \A j \in 1..((a + n) - (a + 1) + 1) : SubSeq(s, a + 1, a + n)[j] = s[(a + 1) + j - 1]
  BY <1>1, <1>2, SubSeqProperties
<1>4. \A j \in 1..n : j \in 1..((a + n) - (a + 1) + 1) /\ (a + 1) + j - 1 = a + j
  OBVIOUS
<1> QED BY <1>2, <1>3, <1>4 DEF Slice

\* Two sequences that have the same n elements behind the first a, and the first b.
SameElements(s, a, t, b, n) == \A j \in 1..n : s[a + j] = t[b + j]

LEMMA SameSlice ==
    ASSUME NEW S, NEW s \in Seq(S), NEW t \in Seq(S), NEW a \in Nat, NEW b \in Nat, NEW n \in Nat,
           a + n <= Len(s), b + n <= Len(t), SameElements(s, a, t, b, n)
    PROVE  Slice(s, a, n) = Slice(t, b, n)
<1>1. /\ Slice(s, a, n) \in Seq(S) /\ Len(Slice(s, a, n)) = n
      /\ \A j \in 1..n : Slice(s, a, n)[j] = s[a + j]
  BY SliceLength
<1>2. /\ Slice(t, b, n) \in Seq(S) /\ Len(Slice(t, b, n)) = n
      /\ \A j \in 1..n : Slice(t, b, n)[j] = t[b + j]
  BY SliceLength
<1> QED BY <1>1, <1>2, SeqEqual DEF SameElements

\* The sectors of a file: where each starts, its bytes, and the one that follows it.
LEMMA SectorFacts ==
    ASSUME NEW d, OfAnEntry(d), NEW k \in 1..Len(ChainOf(d)),
           NEW mark, mark = TableOf(d)[ChainOf(d)[k]],
           NEW c \in 1..SectorsOf(mark),
           NEW n, n = IF IsEnd(mark) /\ c = mark - LastMark THEN d.lastBytes ELSE BytesPerSector,
           NEW p, p = SectorStart(k, c),
           NEW t, t = Slice(Disks[d.drive].gran[ChainOf(d)[k]], (c - 1) * BytesPerSector, n)
    PROVE  /\ p \in Nat /\ n \in 0..BytesPerSector /\ p + n <= Len(FileOf(d))
           /\ c \in 1..SectorsPerGranule
           /\ t = Slice(FileOf(d), p, n) /\ t \in Seq(Bytes) /\ Len(t) = n
           /\ IF c < SectorsOf(mark) THEN n = BytesPerSector /\ SectorStart(k, c + 1) = p + BytesPerSector
              ELSE IF IsEnd(mark) THEN p + n = Len(FileOf(d))
              ELSE /\ n = BytesPerSector /\ k + 1 \in 1..Len(ChainOf(d)) /\ mark = ChainOf(d)[k + 1]
                   /\ SectorStart(k + 1, 1) = p + BytesPerSector
<1> DEFINE B == BytesPerSector
           G == BytesPerGranule
           L == Len(ChainOf(d))
           z == MarkOf(d) - LastMark
           a == (k - 1) * G
           b == (c - 1) * B
           u == (L - 1) * G
           v == (z - 1) * B
           F == FileOf(d)
           g == Disks[d.drive].gran[ChainOf(d)[k]]
<1>1. /\ L \in Nat /\ k \in Nat /\ SectorsOf(mark) \in 1..SectorsPerGranule
      /\ IF k = L THEN mark = MarkOf(d) /\ IsEnd(mark) /\ SectorsOf(mark) = z
         ELSE mark = ChainOf(d)[k + 1] /\ ~IsEnd(mark) /\ SectorsOf(mark) = SectorsPerGranule
  BY ChainFacts
<1>2. /\ z \in 1..SectorsPerGranule /\ mark - LastMark = IF k = L THEN z ELSE mark - LastMark
      /\ d.lastBytes \in 0..B
  BY <1>1, FileFacts, UnitSizes DEF LastMark
<1>3. /\ B \in Nat \ {0} /\ G \in Nat \ {0} /\ SectorsPerGranule \in Nat /\ G = SectorsPerGranule * B
  BY UnitSizes
<1>4. c \in 1..SectorsPerGranule
  BY <1>1, <1>3
<1>5. n \in 0..B
  BY <1>2, <1>3
<1> HIDE DEF B, G, L, z
<1>6. c * B = b + B /\ k * G = a + G /\ (c = SectorsPerGranule => c * B = G)
  <2>1. k - 1 \in Nat /\ c - 1 \in Nat /\ (k - 1) + 1 = k /\ (c - 1) + 1 = c
    BY <1>1, <1>3, <1>4
  <2>2. k * G = a + G
    BY <1>3, <2>1, Products
  <2>3. c * B = b + B
    BY <1>3, <2>1, Products
  <2> QED BY <1>3, <2>2, <2>3
<1>7. /\ a \in Nat /\ b \in Nat /\ b + B <= G /\ u \in Nat /\ v \in Nat
      /\ (k < L => a + G <= u) /\ (c < z => b + B <= v)
      /\ (k = L => a = u) /\ (c = z => b = v)
  <2>1. /\ k - 1 \in Nat /\ c - 1 \in Nat /\ L - 1 \in Nat /\ z - 1 \in Nat
        /\ c - 1 < SectorsPerGranule
        /\ k < L => k - 1 < L - 1
        /\ c < z => c - 1 < z - 1
    BY <1>1, <1>2, <1>3, <1>4 DEF L
  <2>2. a \in Nat /\ u \in Nat /\ (k < L => a + G <= u)
    BY <1>3, <2>1, Products
  <2>3. b \in Nat /\ v \in Nat /\ b + B <= G /\ (c < z => b + B <= v)
    BY <1>3, <2>1, Products
  <2> QED BY <2>2, <2>3
<1> HIDE DEF a, b, u, v
<1>8. p = a + b /\ p \in Nat
  <2>1. p = a + b
    BY DEF SectorStart, a, b, G, B
  <2> QED BY <1>7, <2>1
<1>9. Len(F) = u + v + d.lastBytes /\ F \in Seq(Bytes)
  BY FileBytes DEF SectorStart, L, G, z, B, u, v
<1>10. IF c < SectorsOf(mark) THEN n = B
      ELSE IF IsEnd(mark) THEN c = z /\ k = L /\ n = d.lastBytes
      ELSE k < L /\ n = B
  BY <1>1, <1>2 DEF L, B
<1>11. p + n <= Len(F)
  <2>1. CASE k = L
    <3>1. CASE c < z
      <4>1. n = B
        BY <1>1, <1>10, <2>1, <3>1
      <4> QED BY <1>2, <1>3, <1>7, <1>8, <1>9, <2>1, <3>1, <4>1
    <3>2. CASE ~(c < z)
      <4>1. n = d.lastBytes /\ c = z
        BY <1>1, <1>10, <2>1, <3>2
      <4> QED BY <1>2, <1>3, <1>7, <1>8, <1>9, <2>1, <3>2, <4>1
    <3> QED BY <3>1, <3>2
  <2>2. CASE k # L
    <3>1. k < L
      BY <1>1, <2>2 DEF L
    <3> QED BY <1>2, <1>3, <1>5, <1>7, <1>8, <1>9, <3>1
  <2> QED BY <2>1, <2>2
<1>12. g \in Seq(Bytes) /\ Len(g) = G
  <2>1. Disks[d.drive] \in Image /\ ChainOf(d)[k] \in Granules
    BY FileFacts, ChainFacts
  <2> QED BY <2>1, GranuleBytes DEF G
<1>13. ASSUME NEW j \in 1..n PROVE g[b + j] = F[p + j]
  <2>1. k - 1 \in 0..(L - 1) /\ b + j \in 1..G /\ (k - 1) + 1 = k
    BY <1>1, <1>3, <1>5, <1>7 DEF L
  <2>2. (k - 1) * G + (b + j) = p + j /\ p + j <= Len(F)
    <3>1. (k - 1) * G = a
      BY DEF a
    <3>2. a + (b + j) = p + j /\ p + j <= Len(F)
      BY <1>3, <1>5, <1>7, <1>8, <1>9, <1>11
    <3> QED BY <3>1, <3>2
  <2>3. \A q \in 0..(L - 1) : \A r \in 1..G :
            q * G + r <= Len(F) => F[q * G + r] = Disks[d.drive].gran[ChainOf(d)[q + 1]][r]
    BY FileBytes DEF L, G
  <2>4. F[(k - 1) * G + (b + j)] = Disks[d.drive].gran[ChainOf(d)[(k - 1) + 1]][b + j]
    BY <2>1, <2>2, <2>3
  <2> QED BY <2>1, <2>2, <2>4
<1>14. t = Slice(F, p, n) /\ t \in Seq(Bytes) /\ Len(t) = n
  <2>1. t = Slice(g, b, n)
    BY DEF b, B
  <2>2. b + n <= Len(g) /\ n \in Nat
    BY <1>3, <1>5, <1>7, <1>12
  <2> HIDE DEF F, g
  <2>3. Slice(g, b, n) = Slice(F, p, n)
    <3>1. SameElements(g, b, F, p, n)
      BY <1>13 DEF SameElements
    <3> QED BY <1>7, <1>8, <1>9, <1>11, <1>12, <2>2, <3>1, SameSlice
  <2>4. Slice(g, b, n) \in Seq(Bytes) /\ Len(Slice(g, b, n)) = n
    BY <1>7, <1>12, <2>2, SliceLength
  <2> QED BY <2>1, <2>3, <2>4
<1>15. SectorStart(k, c + 1) = p + B /\ SectorStart(k + 1, 1) = a + G
  <2>1. (c + 1) - 1 = c /\ (k + 1) - 1 = k /\ 1 - 1 = 0 /\ 0 * B = 0
    BY <1>1, <1>3, <1>4
  <2>2. SectorStart(k, c + 1) = a + c * B /\ SectorStart(k + 1, 1) = k * G + 0 * B
    BY <2>1 DEF SectorStart, a, G, B
  <2> QED BY <1>3, <1>6, <1>7, <1>8, <2>1, <2>2
<1>16. CASE c < SectorsOf(mark)
  BY <1>4, <1>5, <1>8, <1>10, <1>11, <1>14, <1>15, <1>16 DEF B, F
<1>17. CASE ~(c < SectorsOf(mark)) /\ IsEnd(mark)
  <2>1. p + n = Len(F)
    BY <1>2, <1>3, <1>7, <1>8, <1>9, <1>10, <1>17
  <2> QED BY <1>4, <1>5, <1>8, <1>11, <1>14, <1>17, <2>1 DEF B, F
<1>18. CASE ~(c < SectorsOf(mark)) /\ ~IsEnd(mark)
  <2>1. k < L /\ n = B /\ c = SectorsPerGranule /\ mark = ChainOf(d)[k + 1]
    BY <1>1, <1>4, <1>10, <1>18
  <2>2. p + B = a + G
    <3>1. c * B = G
      BY <1>6, <2>1
    <3> QED BY <1>3, <1>6, <1>7, <1>8, <3>1
  <2>3. k + 1 \in 1..Len(ChainOf(d))
    BY <1>1, <2>1 DEF L
  <2> QED BY <1>4, <1>5, <1>8, <1>11, <1>14, <1>15, <1>18, <2>1, <2>2, <2>3 DEF B, F
<1> QED BY <1>16, <1>17, <1>18

-----------------------------------------------------------------------------
(* What the operations do to a descriptor. *)

Typed(d) ==
    /\ d \in FileDesc
    /\ Len(d.sector) <= BytesPerSector
    /\ d.curGran # AtEnd => d.curSec <= SectorsPerGranule

SameFile(d, e) ==
    /\ e.drive = d.drive /\ e.firstGran = d.firstGran
    /\ e.lastBytes = d.lastBytes /\ e.length = d.length

LEMMA SameFileFacts ==
    ASSUME NEW d, NEW e, SameFile(d, e)
    PROVE  /\ ChainOf(e) = ChainOf(d) /\ FileOf(e) = FileOf(d)
           /\ TableOf(e) = TableOf(d) /\ MarkOf(e) = MarkOf(d)
           /\ OfAnEntry(d) => OfAnEntry(e)
BY DEF SameFile, ChainOf, FileOf, TableOf, MarkOf, OfAnEntry

LEMMA DescriptorNumbers ==
    ASSUME NEW d \in FileDesc
    PROVE  /\ d.offset \in Nat /\ d.secOffset \in Nat /\ d.length \in Nat
           /\ d.sector \in Seq(Bytes) /\ Len(d.sector) \in Nat
           /\ d.curSec \in Nat \ {0}
           /\ d.sector = <<>> <=> Len(d.sector) = 0
<1>1. d.sector \in Seq(Bytes)
  BY DEF FileDesc
<1>2. Len(d.sector) \in Nat /\ (d.sector = <<>> <=> Len(d.sector) = 0)
  BY <1>1, EmptySeq
<1>3. d.curSec \in Nat \ {0}
  BY UnitSizes DEF FileDesc
<1>4. d.offset \in Nat /\ d.secOffset \in Nat /\ d.length \in Nat
  BY UnitSizes DEF FileDesc
<1> QED BY <1>1, <1>2, <1>3, <1>4

LEMMA Redescribed ==
    ASSUME NEW d \in FileDesc, NEW g \in Granules \cup {AtEnd}, NEW c \in 1..(SectorsPerGranule + 1),
           NEW o \in Nat, NEW so \in 0..BytesPerSector, NEW se \in Seq(Bytes)
    PROVE  [d EXCEPT !.curGran = g, !.curSec = c, !.offset = o, !.secOffset = so, !.sector = se]
               \in FileDesc
BY DEF FileDesc

\* rewind(): the first sector of the file is the next one.
LEMMA RewoundPositioned ==
    ASSUME NEW d \in FileDesc, OfAnEntry(d), d.length = Len(FileOf(d))
    PROVE  /\ Typed(Rewound(d)) /\ Positioned(Rewound(d))
           /\ SameFile(d, Rewound(d)) /\ Rewound(d).offset = 0
<1> DEFINE e == Rewound(d)
<1>1. /\ e.drive = d.drive /\ e.firstGran = d.firstGran
      /\ e.lastBytes = d.lastBytes /\ e.length = d.length
      /\ e.curGran = d.firstGran /\ e.curSec = 1 /\ e.offset = 0 /\ e.secOffset = 0
      /\ e.sector = <<>>
  BY DEF Rewound, FileDesc
<1>2. d.firstGran \in Granules
  BY FileFacts
<1>3. e \in FileDesc
  <2>1. /\ 1 \in 1..(SectorsPerGranule + 1) /\ 0 \in 0..BytesPerSector /\ 0 \in Nat
        /\ <<>> \in Seq(Bytes)
    BY UnitSizes
  <2> QED BY <1>2, <2>1, Redescribed DEF Rewound
<1>4. SameFile(d, e)
  BY <1>1 DEF SameFile
<1> HIDE DEF e
<1>5. OfAnEntry(e) /\ e.length = Len(FileOf(e)) /\ FileOf(e) = FileOf(d)
  BY <1>1, <1>4, SameFileFacts
<1>6. Start(e) = 0 /\ Len(e.sector) = 0 /\ Start(e) + Len(e.sector) = 0
  BY <1>1, EmptySeq DEF Start
<1>7. e.curGran # AtEnd /\ NextIsAt(e, 0)
  <2>1. /\ 1 \in 1..Len(ChainOf(e)) /\ ChainOf(e)[1] = e.firstGran /\ ChainOf(e)[1] # AtEnd
        /\ SectorsOf(TableOf(e)[ChainOf(e)[1]]) \in 1..SectorsPerGranule
    BY <1>5, ChainFacts, UnitSizes
  <2>2. 1 \in 1..SectorsOf(TableOf(e)[ChainOf(e)[1]])
    BY <2>1, UnitSizes
  <2>3. SectorStart(1, 1) = 0
    BY UnitSizes DEF SectorStart
  <2> QED BY <1>1, <2>1, <2>2, <2>3 DEF NextIsAt, TableOf
<1>8. Typed(e)
  BY <1>1, <1>3, <1>6, UnitSizes DEF Typed
<1>9. d.length \in Nat
  BY DescriptorNumbers
<1>10. Positioned(e)
  BY <1>1, <1>5, <1>6, <1>7, <1>9, UnitSizes DEF Positioned
<1> QED BY <1>1, <1>4, <1>8, <1>10 DEF e

LEMMA AvailableBytes ==
    ASSUME NEW d \in FileDesc, Positioned(d), Typed(d)
    PROVE  /\ Available(d) \in Seq(Bytes)
           /\ Len(Available(d)) = IF d.sector = <<>> THEN 0 ELSE Len(d.sector) - d.secOffset
           /\ Len(Available(d)) \in Nat
           /\ d.offset + Len(Available(d)) <= d.length
           /\ Available(d) = Slice(FileOf(d), d.offset, Len(Available(d)))
           /\ \A n \in 0..Len(Available(d)) :
                  SubSeq(Available(d), 1, n) = Slice(FileOf(d), d.offset, n)
           /\ d.curGran = AtEnd => d.offset + Len(Available(d)) = d.length
           /\ (d.curGran # AtEnd /\ d.sector # <<>>) => Available(d) # <<>>
<1> DEFINE m == Len(d.sector) - d.secOffset
           F == FileOf(d)
<1>1. /\ d.offset \in Nat /\ d.secOffset \in Nat /\ d.length \in Nat
      /\ d.sector \in Seq(Bytes) /\ Len(d.sector) \in Nat
      /\ d.sector = <<>> <=> Len(d.sector) = 0
      /\ BytesPerSector \in Nat
  BY DescriptorNumbers, UnitSizes
<1>2. F \in Seq(Bytes) /\ Len(F) = d.length
  BY FileBytes DEF Positioned
<1>3. CASE d.sector = <<>>
  <2>1. Available(d) = <<>>
    <3>1. d.secOffset + 1 \in Int /\ Len(d.sector) \in Int /\ Len(d.sector) < d.secOffset + 1
      BY <1>1, <1>3
    <3> QED BY <3>1, SubSeqEmpty DEF Available
  <2>2. Len(Available(d)) = 0 /\ Available(d) \in Seq(Bytes)
    BY <2>1, EmptySeq
  <2>3. \A n \in 0..0 : SubSeq(Available(d), 1, n) = <<>> /\ Slice(F, d.offset, n) = <<>>
    <3> SUFFICES ASSUME NEW n \in 0..0
                 PROVE  SubSeq(Available(d), 1, n) = <<>> /\ Slice(F, d.offset, n) = <<>>
      OBVIOUS
    <3>1. n < 1 /\ n \in Int /\ d.offset + n < d.offset + 1 /\ d.offset + n \in Int
      BY <1>1
    <3> QED BY <1>1, <3>1, SubSeqEmpty DEF Slice
  <2>4. d.offset <= d.length /\ (d.curGran = AtEnd => d.offset = d.length)
    <3>1. d.offset <= d.length /\ (d.curGran = AtEnd => Start(d) + Len(d.sector) = d.length)
      BY DEF Positioned
    <3> QED BY <1>1, <1>3, <3>1 DEF Start
  <2>5. Available(d) = Slice(F, d.offset, 0)
    BY <2>1, <2>3
  <2>6. /\ d.offset + 0 <= d.length /\ (d.curGran = AtEnd => d.offset + 0 = d.length)
    BY <1>1, <2>4
  <2> HIDE DEF F
  <2>7. \A n \in 0..Len(Available(d)) : SubSeq(Available(d), 1, n) = Slice(F, d.offset, n)
    BY <2>2, <2>3
  <2> QED BY <1>3, <2>2, <2>5, <2>6, <2>7 DEF F
<1>4. CASE d.sector # <<>>
  <2>1. /\ d.secOffset <= Len(d.sector) /\ Start(d) + Len(d.sector) <= d.length
        /\ d.sector = Slice(F, Start(d), Len(d.sector))
        /\ d.curGran = AtEnd => Start(d) + Len(d.sector) = d.length
        /\ d.curGran # AtEnd => Len(d.sector) = BytesPerSector
        /\ d.secOffset < BytesPerSector /\ d.secOffset <= d.offset
    BY <1>4 DEF Positioned
  <2>2. m \in Nat /\ Start(d) \in Nat /\ Start(d) + d.secOffset = d.offset
    BY <1>1, <2>1 DEF Start
  <2>3. Available(d) = Slice(d.sector, d.secOffset, m)
    <3>1. d.secOffset + m = Len(d.sector)
      BY <1>1
    <3> QED BY <3>1 DEF Available, Slice
  <2> HIDE DEF m, F
  <2>4. d.secOffset + m = Len(d.sector)
    BY <1>1 DEF m
  <2>5. /\ Available(d) \in Seq(Bytes) /\ Len(Available(d)) = m
        /\ \A j \in 1..m : Available(d)[j] = d.sector[d.secOffset + j]
    <3>1. /\ d.sector \in Seq(Bytes) /\ d.secOffset \in Nat /\ m \in Nat
          /\ d.secOffset + m <= Len(d.sector)
      BY <1>1, <2>2, <2>4
    <3>2. /\ Slice(d.sector, d.secOffset, m) \in Seq(Bytes)
          /\ Len(Slice(d.sector, d.secOffset, m)) = m
          /\ \A j \in 1..m : Slice(d.sector, d.secOffset, m)[j] = d.sector[d.secOffset + j]
      BY <3>1, SliceLength
    <3> QED BY <2>3, <3>2
  <2>6. \A j \in 1..Len(d.sector) : d.sector[j] = F[Start(d) + j]
    <3>1. /\ F \in Seq(Bytes) /\ Start(d) \in Nat /\ Len(d.sector) \in Nat
          /\ Start(d) + Len(d.sector) <= Len(F)
      BY <1>1, <1>2, <2>1, <2>2
    <3>2. \A j \in 1..Len(d.sector) :
              Slice(F, Start(d), Len(d.sector))[j] = F[Start(d) + j]
      BY <3>1, SliceLength
    <3> QED BY <2>1, <3>2
  <2>7. ASSUME NEW n \in 0..m PROVE SubSeq(Available(d), 1, n) = Slice(F, d.offset, n)
    <3>1. SubSeq(Available(d), 1, n) = Slice(Available(d), 0, n)
      BY <2>2 DEF Slice
    <3>2. SameElements(Available(d), 0, F, d.offset, n)
      <4> SUFFICES ASSUME NEW j \in 1..n PROVE Available(d)[0 + j] = F[d.offset + j]
        BY DEF SameElements
      <4>1. j \in 1..m /\ 0 + j = j /\ d.secOffset + j \in 1..Len(d.sector)
            /\ Start(d) + (d.secOffset + j) = d.offset + j
        BY <1>1, <2>2, <2>4
      <4>2. Available(d)[j] = d.sector[d.secOffset + j]
        BY <2>5, <4>1
      <4>3. d.sector[d.secOffset + j] = F[Start(d) + (d.secOffset + j)]
        BY <2>6, <4>1
      <4> QED BY <4>1, <4>2, <4>3
    <3>3. n \in Nat /\ 0 + n <= Len(Available(d)) /\ d.offset + n <= Len(F)
      <4>1. n \in Nat /\ n <= m
        BY <2>2
      <4>2. d.offset + m = Start(d) + Len(d.sector)
        BY <1>1, <2>2, <2>4
      <4>3. d.offset + m <= Len(F)
        BY <1>2, <2>1, <4>2
      <4> QED BY <1>1, <1>2, <2>2, <2>5, <4>1, <4>3
    <3> QED BY <1>1, <1>2, <2>5, <3>1, <3>2, <3>3, SameSlice
  <2>8. SubSeq(Available(d), 1, m) = Available(d)
    BY <2>5, SubSeqFull
  <2>9. d.offset + m = Start(d) + Len(d.sector)
    BY <1>1, <2>2, <2>4
  <2>10. d.curGran # AtEnd => m # 0
    BY <1>1, <2>1, <2>4
  <2>11. m \in 0..m
    BY <2>2
  <2>12. Available(d) = Slice(F, d.offset, m)
    BY <2>7, <2>8, <2>11
  <2>13. Available(d) = <<>> => m = 0
    BY <2>5, EmptySeq
  <2> QED BY <1>4, <2>1, <2>2, <2>5, <2>7, <2>9, <2>10, <2>12, <2>13 DEF m, F
<1> QED BY <1>3, <1>4

\* advanceOffset(): the position goes on behind the n bytes delivered.
LEMMA AdvancedPositioned ==
    ASSUME NEW d \in FileDesc, Positioned(d), Typed(d), NEW n \in 1..Len(Available(d))
    PROVE  /\ Typed(Advanced(d, n)) /\ Positioned(Advanced(d, n)) /\ SameFile(d, Advanced(d, n))
           /\ Advanced(d, n).offset = d.offset + n
           /\ Advanced(d, n).curGran = d.curGran
           /\ n = Len(Available(d)) => Advanced(d, n).sector = <<>>
<1> DEFINE e == Advanced(d, n)
           all == d.secOffset + n >= Len(d.sector)
<1>1. /\ d.offset \in Nat /\ d.secOffset \in Nat /\ d.length \in Nat
      /\ d.sector \in Seq(Bytes) /\ Len(d.sector) \in Nat
      /\ (d.sector = <<>> <=> Len(d.sector) = 0)
      /\ BytesPerSector \in Nat \ {0}
  BY DescriptorNumbers, UnitSizes
<1>2. /\ Len(Available(d)) \in Nat /\ d.offset + Len(Available(d)) <= d.length
      /\ Len(Available(d)) = IF d.sector = <<>> THEN 0 ELSE Len(d.sector) - d.secOffset
  BY AvailableBytes
<1>3. n \in Nat \ {0} /\ d.sector # <<>> /\ d.secOffset + n <= Len(d.sector) /\ d.offset + n <= d.length
  BY <1>1, <1>2
<1>4. /\ OfAnEntry(d) /\ d.length = Len(FileOf(d))
      /\ d.secOffset < BytesPerSector /\ d.secOffset <= d.offset
      /\ Start(d) + Len(d.sector) <= d.length
      /\ d.sector = Slice(FileOf(d), Start(d), Len(d.sector))
      /\ (d.curGran = AtEnd => Start(d) + Len(d.sector) = d.length)
      /\ (d.curGran # AtEnd => /\ Len(d.sector) = BytesPerSector
                               /\ NextIsAt(d, Start(d) + Len(d.sector)))
  BY <1>3 DEF Positioned
<1>5. /\ e.drive = d.drive /\ e.firstGran = d.firstGran
      /\ e.lastBytes = d.lastBytes /\ e.length = d.length
      /\ e.curGran = d.curGran /\ e.curSec = d.curSec
      /\ e.offset = d.offset + n
      /\ e.secOffset = (IF all THEN 0 ELSE d.secOffset + n)
      /\ e.sector = (IF all THEN <<>> ELSE d.sector)
  BY DEF FileDesc, Advanced
<1>6. e \in FileDesc
  <2>1. /\ d.offset + n \in Nat /\ 0 \in 0..BytesPerSector /\ <<>> \in Seq(Bytes)
        /\ (~all => d.secOffset + n \in 0..BytesPerSector)
    <3>1. Len(d.sector) <= BytesPerSector
      BY DEF Typed
    <3> QED BY <1>1, <1>3, <3>1
  <2>2. CASE all
    BY <2>1, <2>2 DEF Advanced, FileDesc
  <2>3. CASE ~all
    BY <2>1, <2>3 DEF Advanced, FileDesc
  <2> QED BY <2>2, <2>3
<1>7. SameFile(d, e)
  BY <1>5 DEF SameFile
<1> HIDE DEF e
<1>8. OfAnEntry(e) /\ FileOf(e) = FileOf(d) /\ ChainOf(e) = ChainOf(d) /\ TableOf(e) = TableOf(d)
  BY <1>4, <1>7, SameFileFacts
<1>9. \A p : NextIsAt(d, p) => NextIsAt(e, p)
  BY <1>5, <1>8 DEF NextIsAt, TableOf
<1>10. Typed(e)
  <2>1. Len(<<>>) = 0
    BY EmptySeq
  <2> QED BY <1>1, <1>5, <1>6, <2>1 DEF Typed
<1>11. Start(e) + Len(e.sector) = Start(d) + Len(d.sector)
  <2>1. CASE all
    <3>1. e.sector = <<>> /\ e.secOffset = 0 /\ e.offset = d.offset + n
      BY <1>5, <2>1
    <3>2. Len(e.sector) = 0
      BY <3>1, EmptySeq
    <3>3. d.secOffset + n = Len(d.sector)
      BY <1>1, <1>3, <2>1
    <3>4. Start(e) = d.offset + n /\ Start(d) = d.offset - d.secOffset
      BY <1>1, <1>3, <3>1 DEF Start
    <3> HIDE DEF all
    <3> QED BY <1>1, <1>3, <3>2, <3>3, <3>4
  <2>2. CASE ~all
    <3>1. e.sector = d.sector /\ e.secOffset = d.secOffset + n /\ e.offset = d.offset + n
      BY <1>5, <2>2
    <3> QED BY <1>1, <1>3, <3>1 DEF Start
  <2> QED BY <2>1, <2>2
<1>12. e.sector # <<>> =>
           /\ e.secOffset <= Len(e.sector) /\ Start(e) + Len(e.sector) <= e.length
           /\ e.sector = Slice(FileOf(e), Start(e), Len(e.sector))
  <2> SUFFICES ASSUME ~all
               PROVE  /\ e.secOffset <= Len(e.sector) /\ Start(e) + Len(e.sector) <= e.length
                      /\ e.sector = Slice(FileOf(e), Start(e), Len(e.sector))
    BY <1>5
  <2>1. e.sector = d.sector /\ e.secOffset = d.secOffset + n
    BY <1>5
  <2>2. Start(e) = Start(d)
    BY <1>1, <1>3, <1>5, <2>1 DEF Start
  <2> QED BY <1>3, <1>4, <1>5, <1>8, <2>1, <2>2
<1>13. e.secOffset < BytesPerSector /\ e.secOffset <= e.offset /\ e.offset <= e.length
  <2>1. Len(d.sector) <= BytesPerSector
    BY DEF Typed
  <2>2. CASE all
    BY <1>1, <1>3, <1>5, <2>2
  <2>3. CASE ~all
    BY <1>1, <1>3, <1>4, <1>5, <2>1, <2>3
  <2> QED BY <2>2, <2>3
<1>14. IF e.curGran = AtEnd THEN Start(e) + Len(e.sector) = e.length
       ELSE /\ e.sector # <<>> => Len(e.sector) = BytesPerSector
            /\ NextIsAt(e, Start(e) + Len(e.sector))
  BY <1>4, <1>5, <1>9, <1>11
<1>15. Positioned(e)
  BY <1>4, <1>5, <1>8, <1>12, <1>13, <1>14 DEF Positioned
<1>16. n = Len(Available(d)) => e.sector = <<>>
  BY <1>1, <1>2, <1>3, <1>5
<1> QED BY <1>5, <1>7, <1>10, <1>15, <1>16 DEF e

\* What is available is delivered before the next sector is read.
LEMMA EmptiedPositioned ==
    ASSUME NEW d \in FileDesc, Positioned(d), Typed(d)
    PROVE  /\ Typed(Emptied(d)) /\ Positioned(Emptied(d)) /\ SameFile(d, Emptied(d))
           /\ Emptied(d).offset = d.offset + Len(Available(d))
           /\ Emptied(d).curGran = d.curGran
           /\ d.curGran # AtEnd => Emptied(d).sector = <<>>
<1>1. /\ Available(d) \in Seq(Bytes) /\ Len(Available(d)) \in Nat
      /\ (d.curGran # AtEnd /\ d.sector # <<>>) => Available(d) # <<>>
  BY AvailableBytes
<1>2. CASE Available(d) = <<>>
  <2>1. Emptied(d) = d /\ Len(Available(d)) = 0 /\ d.offset \in Nat
    BY <1>2, EmptySeq, DescriptorNumbers DEF Emptied
  <2> QED BY <1>1, <1>2, <2>1 DEF SameFile
<1>3. CASE Available(d) # <<>>
  <2>1. Len(Available(d)) \in 1..Len(Available(d))
    BY <1>1, <1>3, EmptySeq
  <2>2. Emptied(d) = Advanced(d, Len(Available(d)))
    BY <1>3 DEF Emptied
  <2> QED BY <2>1, <2>2, AdvancedPositioned
<1> QED BY <1>2, <1>3

\* getNextSector(): the sector is that of the position, and the next one follows it.
LEMMA LoadedPositioned ==
    ASSUME NEW d \in FileDesc, Positioned(d), Typed(d), d.sector = <<>>, d.curGran # AtEnd,
           NEW mark, mark = TableOf(d)[d.curGran]
    PROVE  /\ Typed(Loaded(d, mark)) /\ Positioned(Loaded(d, mark))
           /\ SameFile(d, Loaded(d, mark))
           /\ Loaded(d, mark).offset = d.offset
<1> DEFINE e == Loaded(d, mark)
           c == d.curSec
           n == IF IsEnd(mark) /\ c = mark - LastMark THEN d.lastBytes ELSE BytesPerSector
           p == Start(d)
           t == FirstOfSector(d, n)
<1>1. /\ d.offset \in Nat /\ d.secOffset \in Nat /\ d.length \in Nat /\ c \in Nat \ {0}
      /\ Len(d.sector) = 0
      /\ BytesPerSector \in Nat \ {0} /\ SectorsPerGranule \in 1..9
  BY DescriptorNumbers, UnitSizes
<1>2. /\ OfAnEntry(d) /\ d.length = Len(FileOf(d))
      /\ d.secOffset < BytesPerSector /\ d.secOffset <= d.offset /\ d.offset <= d.length
      /\ NextIsAt(d, Start(d) + Len(d.sector))
  BY DEF Positioned
<1>3. p \in Nat /\ p + Len(d.sector) = p /\ p + d.secOffset = d.offset
  BY <1>1, <1>2 DEF Start
<1>4. PICK k \in 1..Len(ChainOf(d)) :
          d.curGran = ChainOf(d)[k] /\ c \in 1..SectorsOf(mark) /\ SectorStart(k, c) = p
  BY <1>2, <1>3 DEF NextIsAt, TableOf
<1>5. t = Slice(Disks[d.drive].gran[ChainOf(d)[k]], (c - 1) * BytesPerSector, n)
  BY <1>4 DEF FirstOfSector, Slice
<1> HIDE DEF n, t, p
<1>6. mark = TableOf(d)[ChainOf(d)[k]]
  BY <1>4
<1>7. /\ n \in 0..BytesPerSector /\ p + n <= Len(FileOf(d)) /\ c \in 1..SectorsPerGranule
      /\ t = Slice(FileOf(d), p, n) /\ t \in Seq(Bytes) /\ Len(t) = n
      /\ IF c < SectorsOf(mark)
         THEN n = BytesPerSector /\ SectorStart(k, c + 1) = p + BytesPerSector
         ELSE IF IsEnd(mark) THEN p + n = Len(FileOf(d))
         ELSE /\ n = BytesPerSector /\ k + 1 \in 1..Len(ChainOf(d)) /\ mark = ChainOf(d)[k + 1]
              /\ SectorStart(k + 1, 1) = p + BytesPerSector
  BY <1>2, <1>4, <1>5, <1>6, SectorFacts DEF n
<1>8. /\ e.drive = d.drive /\ e.firstGran = d.firstGran
      /\ e.lastBytes = d.lastBytes /\ e.length = d.length
      /\ e.offset = d.offset /\ e.secOffset = d.secOffset /\ e.sector = t
  BY DEF FileDesc, Loaded, AfterSector, n, t
<1>9. IF c < SectorsOf(mark) THEN e.curSec = c + 1 /\ e.curGran = d.curGran
      ELSE IF IsEnd(mark) THEN e.curSec = c + 1 /\ e.curGran = AtEnd
      ELSE e.curSec = 1 /\ e.curGran = mark
  BY DEF FileDesc, Loaded, AfterSector
<1>10. SectorsOf(mark) \in 1..SectorsPerGranule /\ d.curGran \in Granules
  BY <1>2, <1>4, <1>6, ChainFacts
<1>11. /\ e.curGran \in Granules \cup {AtEnd} /\ e.curSec \in 1..(SectorsPerGranule + 1)
       /\ e.curGran # AtEnd => e.curSec <= SectorsPerGranule
  <2>1. CASE c < SectorsOf(mark)
    <3>1. e.curGran \in Granules /\ e.curSec = c + 1
      BY <1>9, <1>10, <2>1
    <3>2. c + 1 <= SectorsPerGranule
      BY <1>1, <1>10, <2>1
    <3> QED BY <1>1, <3>1, <3>2
  <2>2. CASE ~(c < SectorsOf(mark)) /\ IsEnd(mark)
    BY <1>1, <1>7, <1>9, <2>2
  <2>3. CASE ~(c < SectorsOf(mark)) /\ ~IsEnd(mark)
    <3>1. mark \in Granules
      BY <1>2, <1>7, <2>3, ChainFacts
    <3> QED BY <1>1, <1>9, <2>3, <3>1
  <2> QED BY <2>1, <2>2, <2>3
<1>12. e \in FileDesc
  <2>1. CASE c < SectorsOf(mark)
    BY <1>7, <1>9, <1>11, <2>1 DEF FileDesc, Loaded, AfterSector, n, t
  <2>2. CASE ~(c < SectorsOf(mark)) /\ IsEnd(mark)
    BY <1>7, <1>9, <1>11, <2>2 DEF FileDesc, Loaded, AfterSector, n, t
  <2>3. CASE ~(c < SectorsOf(mark)) /\ ~IsEnd(mark)
    BY <1>7, <1>9, <1>11, <2>3 DEF FileDesc, Loaded, AfterSector, n, t
  <2> QED BY <2>1, <2>2, <2>3
<1>13. SameFile(d, e)
  BY <1>8 DEF SameFile
<1> HIDE DEF e
<1>14. OfAnEntry(e) /\ FileOf(e) = FileOf(d) /\ ChainOf(e) = ChainOf(d) /\ TableOf(e) = TableOf(d)
  BY <1>2, <1>13, SameFileFacts
<1>15. Typed(e)
  BY <1>1, <1>7, <1>8, <1>11, <1>12 DEF Typed
<1>16. Start(e) = p /\ Len(e.sector) = n
  BY <1>7, <1>8 DEF Start, p
<1>17. e.sector # <<>> =>
           /\ e.secOffset <= Len(e.sector) /\ Start(e) + Len(e.sector) <= e.length
           /\ e.sector = Slice(FileOf(e), Start(e), Len(e.sector))
  <2>1. d.secOffset <= n
    <3>1. CASE n = BytesPerSector
      BY <1>1, <1>2, <3>1
    <3>2. CASE n # BytesPerSector
      BY <1>1, <1>2, <1>3, <1>7, <3>2
    <3> QED BY <3>1, <3>2
  <2> QED BY <1>2, <1>7, <1>8, <1>14, <1>16, <2>1
<1>18. IF e.curGran = AtEnd THEN Start(e) + Len(e.sector) = e.length
       ELSE /\ e.sector # <<>> => Len(e.sector) = BytesPerSector
            /\ NextIsAt(e, Start(e) + Len(e.sector))
  <2>1. CASE c < SectorsOf(mark)
    <3>1. e.curGran = ChainOf(e)[k] /\ k \in 1..Len(ChainOf(e)) /\ e.curGran # AtEnd
          /\ e.curSec = c + 1 /\ TableOf(e)[e.curGran] = mark
      BY <1>4, <1>6, <1>9, <1>14, <2>1
    <3>2. e.curSec \in 1..SectorsOf(mark) /\ SectorStart(k, e.curSec) = p + n /\ n = BytesPerSector
      BY <1>1, <1>7, <1>10, <2>1, <3>1
    <3> QED BY <1>16, <3>1, <3>2 DEF NextIsAt, TableOf
  <2>2. CASE ~(c < SectorsOf(mark)) /\ IsEnd(mark)
    BY <1>2, <1>7, <1>8, <1>9, <1>16, <2>2
  <2>3. CASE ~(c < SectorsOf(mark)) /\ ~IsEnd(mark)
    <3>1. /\ k + 1 \in 1..Len(ChainOf(e)) /\ e.curGran = ChainOf(e)[k + 1] /\ e.curSec = 1
          /\ n = BytesPerSector /\ SectorStart(k + 1, 1) = p + n
      BY <1>7, <1>9, <1>14, <2>3
    <3>2. /\ e.curGran # AtEnd
          /\ SectorsOf(TableOf(e)[e.curGran]) \in 1..SectorsPerGranule
      BY <1>14, <3>1, ChainFacts
    <3>3. 1 \in 1..SectorsOf(TableOf(e)[e.curGran])
      BY <1>1, <3>2
    <3> QED BY <1>16, <3>1, <3>2, <3>3 DEF NextIsAt, TableOf
  <2> QED BY <2>1, <2>2, <2>3
<1>19. Positioned(e)
  BY <1>2, <1>8, <1>14, <1>17, <1>18 DEF Positioned
<1> QED BY <1>8, <1>13, <1>15, <1>19 DEF e

-----------------------------------------------------------------------------
(* seek() *)

LEMMA WalkFacts ==
    ASSUME NEW table \in [Granules -> 0..255], NEW g \in Granules
    PROVE  /\ Walk(table, g, 0) = g
           /\ \A k \in Nat : Walk(table, g, k) \in Granules =>
                  Walk(table, g, k + 1) = table[Walk(table, g, k)]
<1> DEFINE S == Granules \cup (0..255)
           h == [x \in S |-> IF x \in Granules THEN table[x] ELSE x]
           Is(f) == f = [j \in Nat |-> IF j = 0 THEN g
                                       ELSE IF f[j - 1] \in Granules THEN table[f[j - 1]]
                                       ELSE f[j - 1]]
           at == CHOOSE f : Is(f)
<1>1. g \in S /\ h \in [S -> S]
  OBVIOUS
<1>2. PICK f : Iterates(f, S, g, h)
  <2> HIDE DEF S, h
  <2> QED BY <1>1, Iterate
<1>3. ASSUME NEW j \in Nat
      PROVE  f[j] = IF j = 0 THEN g
                    ELSE IF f[j - 1] \in Granules THEN table[f[j - 1]] ELSE f[j - 1]
  <2>1. CASE j = 0
    BY <1>2, <2>1 DEF Iterates
  <2>2. CASE j # 0
    <3>1. j - 1 \in Nat /\ (j - 1) + 1 = j
      BY <2>2
    <3>2. f[j] = h[f[j - 1]] /\ f[j - 1] \in S
      BY <1>2, <3>1 DEF Iterates
    <3> QED BY <3>2, <2>2
  <2> QED BY <2>1, <2>2
<1>4. Is(f)
  BY <1>2, <1>3 DEF Iterates
<1>5. Is(at)
  BY <1>4
<1>6. \A k : Walk(table, g, k) = at[k]
  BY DEF Walk
<1> HIDE DEF at
<1>7. at[0] = g
  BY <1>5
<1>8. ASSUME NEW k \in Nat, at[k] \in Granules PROVE at[k + 1] = table[at[k]]
  <2>1. k + 1 \in Nat /\ k + 1 # 0 /\ (k + 1) - 1 = k
    OBVIOUS
  <2>2. at[k + 1] = IF at[k] \in Granules THEN table[at[k]] ELSE at[k]
    BY <1>5, <2>1
  <2> QED BY <1>8, <2>2
<1> QED BY <1>6, <1>7, <1>8

LEMMA WalkOfFile ==
    ASSUME NEW d, OfAnEntry(d)
    PROVE  \A k \in 0..(Len(ChainOf(d)) - 1) :
               Walk(TableOf(d), d.firstGran, k) = ChainOf(d)[k + 1]
<1> DEFINE W(k) == Walk(TableOf(d), d.firstGran, k)
           L == Len(ChainOf(d))
           M == {k \in Nat : k < L => W(k) = ChainOf(d)[k + 1]}
<1>1. TableOf(d) \in [Granules -> 0..255] /\ d.firstGran \in Granules
  BY FileFacts DEF Image, TableOf
<1>2. W(0) = d.firstGran /\ \A k \in Nat : W(k) \in Granules => W(k + 1) = TableOf(d)[W(k)]
  BY <1>1, WalkFacts
<1>3. /\ L \in Nat /\ ChainOf(d)[1] = d.firstGran
      /\ \A k \in 1..L : /\ ChainOf(d)[k] \in Granules
                         /\ k # L => TableOf(d)[ChainOf(d)[k]] = ChainOf(d)[k + 1]
  BY ChainFacts, UnitSizes
<1> HIDE DEF W, L
<1>4. 0 \in M
  BY <1>2, <1>3
<1>5. ASSUME NEW k \in Nat, k \in M PROVE k + 1 \in M
  <2> SUFFICES ASSUME k + 1 < L PROVE W(k + 1) = ChainOf(d)[(k + 1) + 1]
    OBVIOUS
  <2>1. W(k) = ChainOf(d)[k + 1] /\ k + 1 \in 1..L /\ k + 1 # L
    BY <1>3, <1>5
  <2> QED BY <1>2, <1>3, <2>1
<1>6. Nat \subseteq M
  <2> HIDE DEF M
  <2> QED BY <1>4, <1>5, Induction
<1>7. \A k \in 0..(L - 1) : k \in Nat /\ k < L
  BY <1>3
<1> QED BY <1>6, <1>7 DEF W, L

LEMMA DivMod ==
    ASSUME NEW a \in Nat, NEW b \in Nat \ {0}
    PROVE  a \div b \in Nat /\ a % b \in 0..(b - 1) /\ a = (a \div b) * b + (a % b)
<1>1. a = b * (a \div b) + (a % b) /\ 0 <= a % b /\ a % b < b /\ a \div b \in Int /\ a % b \in Int
  OBVIOUS
<1> DEFINE q == a \div b
           r == a % b
<1> HIDE DEF q, r
<1>2. a = b * q + r /\ 0 <= r /\ r < b /\ q \in Int /\ r \in Int
  BY <1>1 DEF q, r
<1>3. q >= 0
  <2>1. q < 0 => b * q <= 0 - b
    BY <1>2
  <2> QED BY <1>2, <2>1
<1>4. b * q = q * b
  <2>1. \A x, y \in Int : x * y = y * x
    OBVIOUS
  <2> QED BY <1>2, <2>1
<1> QED BY <1>2, <1>3, <1>4 DEF q, r

Divided(a, b, q, r) == q \in Nat /\ r \in 0..(b - 1) /\ a = q * b + r

LEMMA DivModUnique ==
    ASSUME NEW b \in Nat \ {0}, NEW q, NEW r, NEW a, Divided(a, b, q, r)
    PROVE  a % b = r /\ a \div b = q
<1> USE DEF Divided
<1>1. a \in Nat
  BY Products
<1> DEFINE p == a \div b
           t == a % b
<1>2. p \in Nat /\ t \in 0..(b - 1) /\ a = p * b + t
  BY <1>1, DivMod
<1> HIDE DEF p, t
<1>3. ~(p < q)
  <2>1. p < q => p * b + b <= q * b
    BY <1>2, Products
  <2>2. p * b \in Nat /\ q * b \in Nat
    BY <1>2, Products
  <2> QED BY <1>2, <2>1, <2>2
<1>4. ~(q < p)
  <2>1. q < p => q * b + b <= p * b
    BY <1>2, Products
  <2>2. p * b \in Nat /\ q * b \in Nat
    BY <1>2, Products
  <2> QED BY <1>2, <2>1, <2>2
<1>5. p = q
  BY <1>2, <1>3, <1>4
<1>6. t = r
  <2>1. q * b \in Nat
    BY Products
  <2> QED BY <1>2, <1>5, <2>1
<1> QED BY <1>5, <1>6 DEF p, t

\* So many bytes are whole sectors.
WholeSectors(n) == \E m \in Nat : n = m * BytesPerSector

LEMMA GranulesAndSectors ==
    ASSUME NEW i \in Nat, NEW j \in Nat
    PROVE  WholeSectors(i * BytesPerGranule + j * BytesPerSector)
<1> DEFINE m == i * SectorsPerGranule + j
<1>1. i * SectorsPerGranule \in Nat /\ BytesPerSector \in Nat /\ SectorsPerGranule \in Nat
  BY UnitSizes, Products
<1>2. \A a, b, c, e \in Nat : a * (b * c) + e * c = (a * b + e) * c
  OBVIOUS
<1>3. m \in Nat /\ i * BytesPerGranule + j * BytesPerSector = m * BytesPerSector
  BY <1>1, <1>2, UnitSizes
<1> HIDE DEF m
<1> QED BY <1>3 DEF WholeSectors

\* The granule, the sector and the byte of a position, as Seek computes them.
SoughtAt(p, q, c, w) ==
    /\ q = p \div BytesPerGranule
    /\ c = (p % BytesPerGranule) \div BytesPerSector + 1
    /\ w = p % BytesPerSector

\* A position in a file: its granule, its sector and the bytes before it there.
LEMMA SeekFacts ==
    ASSUME NEW d, OfAnEntry(d), NEW p \in Nat, p <= Len(FileOf(d)),
           p < Len(FileOf(d)) \/ ~(Len(FileOf(d)) > 0 /\ Len(FileOf(d)) % BytesPerSector = 0),
           NEW q, NEW c, NEW w, SoughtAt(p, q, c, w)
    PROVE  /\ q + 1 \in 1..Len(ChainOf(d)) /\ Walk(TableOf(d), d.firstGran, q) = ChainOf(d)[q + 1]
           /\ c \in 1..SectorsOf(TableOf(d)[ChainOf(d)[q + 1]])
           /\ w \in 0..(BytesPerSector - 1) /\ w <= p
           /\ SectorStart(q + 1, c) = p - w
<1> DEFINE B == BytesPerSector
           G == BytesPerGranule
           L == Len(ChainOf(d))
           z == MarkOf(d) - LastMark
           F == FileOf(d)
           x == p % G
           y == x \div B
           v == x % B
<1> USE DEF SoughtAt
<1>1. B \in Nat \ {0} /\ G \in Nat \ {0} /\ SectorsPerGranule \in Nat \ {0} /\ G = SectorsPerGranule * B
  BY UnitSizes
<1>2. /\ L \in Nat \ {0} /\ z \in 1..SectorsPerGranule /\ d.lastBytes \in 0..B
      /\ \A k \in 1..L : SectorsOf(TableOf(d)[ChainOf(d)[k]])
                             = IF k = L THEN z ELSE SectorsPerGranule
  <2>1. L \in 1..NumGranules /\ NumGranules \in Nat
    BY ChainFacts, UnitSizes
  <2>2. z \in 1..SectorsPerGranule /\ d.lastBytes \in 0..B
    BY <1>1, FileFacts DEF LastMark
  <2>3. \A k \in 1..L : SectorsOf(TableOf(d)[ChainOf(d)[k]])
                            = IF k = L THEN z ELSE SectorsPerGranule
    BY ChainFacts
  <2> HIDE DEF L, z
  <2> QED BY <2>1, <2>2, <2>3
<1>3. Len(F) = (L - 1) * G + (z - 1) * B + d.lastBytes /\ Len(F) \in Nat
  BY FileBytes DEF SectorStart
<1> HIDE DEF B, G, L, z, F
<1>4. q \in Nat /\ x \in 0..(G - 1) /\ p = q * G + x
  BY <1>1, DivMod DEF G
<1> HIDE DEF x
<1>5. y \in Nat /\ v \in 0..(B - 1) /\ x = y * B + v /\ c = y + 1
  <2>1. x \in Nat
    BY <1>1, <1>4
  <2>2. c = y + 1
    BY DEF x, y, G, B
  <2> QED BY <1>1, <2>1, <2>2, DivMod
<1> HIDE DEF y, v
<1> DEFINE qG == q * G
           yB == y * B
           lG == (L - 1) * G
           zB == (z - 1) * B
<1>6. qG \in Nat /\ yB \in Nat /\ lG \in Nat /\ zB \in Nat
  <2>1. L - 1 \in Nat /\ z - 1 \in Nat
    BY <1>1, <1>2
  <2> QED BY <1>1, <1>4, <1>5, <2>1, Products
<1>7. y < SectorsPerGranule
  <2>1. SectorsPerGranule <= y => SectorsPerGranule * B <= y * B
    BY <1>1, <1>5, Products
  <2> HIDE DEF yB
  <2>2. SectorsPerGranule <= y => G <= yB
    BY <1>1, <2>1 DEF yB
  <2>3. x = yB + v
    BY <1>5 DEF yB
  <2> QED BY <1>1, <1>4, <1>5, <1>6, <2>2, <2>3
<1>8. p = qG + yB + v
  <2>1. p = qG + x /\ x = yB + v
    BY <1>4, <1>5
  <2>2. qG \in Int /\ yB \in Int /\ v \in Int
    BY <1>1, <1>5, <1>6
  <2> HIDE DEF qG, yB
  <2> QED BY <2>1, <2>2
<1>9. WholeSectors(qG + yB)
  BY <1>4, <1>5, GranulesAndSectors DEF G, B
<1>10. w = v
  <2> HIDE DEF qG, yB
  <2>1. PICK m \in Nat : qG + yB = m * B
    BY <1>9 DEF WholeSectors, B
  <2>2. Divided(p, B, m, v)
    BY <1>5, <1>8, <2>1 DEF Divided
  <2> QED BY <1>1, <2>2, DivModUnique DEF B
\* A position at the end of a sector is not the end of the file.
<1>11. ASSUME WholeSectors(p), p > 0 PROVE p # Len(F)
  <2>1. PICK m \in Nat : p = m * B
    BY <1>11 DEF WholeSectors, B
  <2>2. Divided(p, B, m, 0)
    <3>1. m * B \in Nat /\ m * B = m * B + 0 /\ 0 \in 0..(B - 1)
      BY <1>1, Products
    <3> QED BY <2>1, <3>1 DEF Divided
  <2>3. p % B = 0
    BY <1>1, <2>2, DivModUnique
  <2>4. p < Len(F) \/ ~(Len(F) > 0 /\ Len(F) % B = 0)
    BY DEF F, B
  <2> QED BY <1>3, <1>11, <2>3, <2>4
<1>12. q < L
  <2> SUFFICES ASSUME L <= q PROVE FALSE
    BY <1>2, <1>4
  <2>1. L - 1 \in Nat /\ L - 1 < q /\ L = (L - 1) + 1
    BY <1>2, <1>4
  <2>2. lG + G <= qG
    BY <1>1, <1>4, <2>1, Products
  <2>3. zB + B <= G
    <3>1. z - 1 \in Nat /\ z - 1 < SectorsPerGranule
      BY <1>1, <1>2
    <3> QED BY <1>1, <3>1, Products
  <2>4. Len(F) = lG + zB + d.lastBytes /\ p <= Len(F)
    BY <1>3 DEF F
  <2> HIDE DEF qG, yB, lG, zB
  <2>5. p = Len(F) /\ p = qG + 0 /\ yB = 0 /\ p > 0
    BY <1>1, <1>2, <1>5, <1>6, <1>8, <2>2, <2>3, <2>4
  <2>6. p = qG + yB
    BY <1>6, <2>5
  <2> QED BY <1>9, <1>11, <2>5, <2>6
<1>13. q = L - 1 => y < z
  <2> SUFFICES ASSUME q = L - 1, z <= y PROVE FALSE
    BY <1>2, <1>5
  <2>1. z - 1 \in Nat /\ z - 1 < y
    BY <1>1, <1>2, <1>5
  <2>2. zB + B <= yB /\ qG = lG
    BY <1>1, <1>5, <2>1, Products
  <2>3. Len(F) = lG + zB + d.lastBytes /\ p <= Len(F)
    BY <1>3 DEF F
  <2> HIDE DEF qG, yB, lG, zB
  <2>4. p = Len(F) /\ p = qG + yB /\ p > 0
    BY <1>1, <1>2, <1>5, <1>6, <1>8, <2>2, <2>3
  <2> QED BY <1>9, <1>11, <2>4
<1>14. q + 1 \in 1..L /\ q \in 0..(L - 1)
  BY <1>2, <1>4, <1>12
<1>15. Walk(TableOf(d), d.firstGran, q) = ChainOf(d)[q + 1]
  BY <1>14, WalkOfFile DEF L
<1>16. c \in 1..SectorsOf(TableOf(d)[ChainOf(d)[q + 1]])
  <2>1. CASE q = L - 1
    <3>1. SectorsOf(TableOf(d)[ChainOf(d)[q + 1]]) = z
      BY <1>2, <1>4, <1>14, <2>1
    <3> QED BY <1>1, <1>2, <1>5, <1>13, <2>1, <3>1
  <2>2. CASE q # L - 1
    <3>1. SectorsOf(TableOf(d)[ChainOf(d)[q + 1]]) = SectorsPerGranule
      BY <1>2, <1>4, <1>14, <2>2
    <3> QED BY <1>1, <1>5, <1>7, <3>1
  <2> QED BY <2>1, <2>2
<1>17. SectorStart(q + 1, c) = p - w /\ w \in 0..(B - 1) /\ w <= p
  <2>1. (q + 1) - 1 = q /\ c - 1 = y
    BY <1>4, <1>5
  <2>2. SectorStart(q + 1, c) = qG + yB
    BY <2>1 DEF SectorStart, G, B
  <2> HIDE DEF qG, yB
  <2> QED BY <1>1, <1>5, <1>6, <1>8, <1>10, <2>2
<1> QED BY <1>14, <1>15, <1>16, <1>17 DEF L, B

LEMMA SoughtPositioned ==
    ASSUME NEW d \in FileDesc, Positioned(d), NEW p \in Nat, p <= d.length,
           p < d.length \/ ~EndsWithSector(d),
           NEW gran, gran = Walk(TableOf(d), d.firstGran, p \div BytesPerGranule)
    PROVE  /\ gran \in Granules
           /\ Typed(Sought(d, gran, p)) /\ Positioned(Sought(d, gran, p))
           /\ SameFile(d, Sought(d, gran, p)) /\ Sought(d, gran, p).offset = p
<1> DEFINE e == Sought(d, gran, p)
           q == p \div BytesPerGranule
           c == (p % BytesPerGranule) \div BytesPerSector + 1
           w == p % BytesPerSector
<1>1. OfAnEntry(d) /\ d.length = Len(FileOf(d)) /\ d.length \in Nat /\ BytesPerSector \in Nat
  BY DescriptorNumbers, UnitSizes DEF Positioned
<1>2. p < Len(FileOf(d)) \/ ~(Len(FileOf(d)) > 0 /\ Len(FileOf(d)) % BytesPerSector = 0)
  BY <1>1 DEF EndsWithSector
<1>3. /\ q + 1 \in 1..Len(ChainOf(d)) /\ gran = ChainOf(d)[q + 1]
      /\ c \in 1..SectorsOf(TableOf(d)[ChainOf(d)[q + 1]])
      /\ w \in 0..(BytesPerSector - 1) /\ w <= p
      /\ SectorStart(q + 1, c) = p - w
  <2> HIDE DEF q, c, w
  <2>1. SoughtAt(p, q, c, w) /\ gran = Walk(TableOf(d), d.firstGran, q) /\ p <= Len(FileOf(d))
    BY <1>1 DEF SoughtAt, q, c, w
  <2> QED BY <1>1, <1>2, <2>1, SeekFacts
<1>4. gran \in Granules /\ gran # AtEnd /\ SectorsOf(TableOf(d)[gran]) \in 1..SectorsPerGranule
  BY <1>1, <1>3, ChainFacts
<1>5. c \in 1..SectorsPerGranule
  <2>1. c \in 1..SectorsOf(TableOf(d)[gran])
    BY <1>3
  <2> HIDE DEF c, q
  <2> QED BY <1>4, <2>1, UnitSizes
<1>6. /\ e.drive = d.drive /\ e.firstGran = d.firstGran
      /\ e.lastBytes = d.lastBytes /\ e.length = d.length
      /\ e.curGran = gran /\ e.curSec = c /\ e.offset = p /\ e.secOffset = w /\ e.sector = <<>>
  BY DEF Sought, FileDesc
<1>7. e = [d EXCEPT !.curGran = gran, !.curSec = c, !.secOffset = w, !.sector = <<>>, !.offset = p]
  BY DEF Sought
<1> HIDE DEF e, c, w, q
<1>8. e \in FileDesc
  <2>1. c \in 1..(SectorsPerGranule + 1) /\ w \in 0..BytesPerSector /\ <<>> \in Seq(Bytes)
    BY <1>1, <1>3, <1>5, UnitSizes
  <2> QED BY <1>4, <1>7, <2>1 DEF FileDesc
<1>9. SameFile(d, e)
  BY <1>6 DEF SameFile
<1>10. OfAnEntry(e) /\ FileOf(e) = FileOf(d) /\ ChainOf(e) = ChainOf(d) /\ TableOf(e) = TableOf(d)
  BY <1>1, <1>9, SameFileFacts
<1>11. Len(e.sector) = 0 /\ Start(e) = p - w /\ Start(e) + Len(e.sector) = p - w
  <2>1. Len(e.sector) = 0 /\ Start(e) = p - w
    BY <1>6, EmptySeq DEF Start
  <2> QED BY <1>1, <1>3, <2>1
<1>12. Typed(e)
  BY <1>1, <1>5, <1>6, <1>8, <1>11, UnitSizes DEF Typed
<1>13. NextIsAt(e, p - w)
  BY <1>3, <1>6, <1>10 DEF NextIsAt, TableOf
<1>14. Positioned(e)
  BY <1>1, <1>3, <1>4, <1>6, <1>10, <1>11, <1>13 DEF Positioned
<1> QED BY <1>4, <1>6, <1>9, <1>12, <1>14 DEF e

-----------------------------------------------------------------------------
(* The invariant is inductive. *)

LEMMA TableRead ==
    ASSUME TypeOK, TableInv
    PROVE  /\ TheFAT = Disks[curDriveNo].fat
           /\ (UpdateFAT /\ curDriveNo' = curDriveNo) => TableInv'
           /\ UpdateFAT => fat' \in [Granules -> 0..255] /\ fatUpToDate' \in BOOLEAN
<1>1. curDriveNo \in Drives /\ fatUpToDate \in BOOLEAN
  BY DEF TypeOK
<1>2. Disks[curDriveNo].fat \in [Granules -> 0..255]
  BY <1>1, DisksAssumption DEF Image
<1>3. TheFAT = Disks[curDriveNo].fat
  BY <1>1 DEF TheFAT, TableInv
<1>4. UpdateFAT => fat' = Disks[curDriveNo].fat /\ fatUpToDate' = TRUE
  BY <1>3 DEF UpdateFAT
<1>5. (UpdateFAT /\ curDriveNo' = curDriveNo) => TableInv'
  BY <1>4 DEF TableInv
<1> QED BY <1>2, <1>3, <1>4, <1>5

\* A call that ends at once leaves the other descriptors as they are.
LEMMA OneDescriptorChanges ==
    ASSUME Inv, Idle, NEW f \in Fds, NEW e, Typed(e), Positioned(e),
           fd' = [fd EXCEPT ![f] = e],
           UpdateFAT, UNCHANGED <<curDriveNo, call, buf>>
    PROVE  Inv'
<1>1. TypeOK /\ TableInv /\ CallInv /\ fd \in [Fds -> FileDesc \cup {None}]
  BY DEF Inv
<1>2. Working /\ ~Reading /\ call' = call
  BY DEF Idle, Working, Reading
<1>3. \A g \in Fds : fd[g] # None => Typed(fd[g]) /\ Positioned(fd[g])
  BY <1>1, <1>2 DEF Inv, TypeOK, Typed
<1>4. \A g \in Fds : fd'[g] = IF g = f THEN e ELSE fd[g]
  BY <1>1
<1>5. \A g \in Fds : fd'[g] # None => Typed(fd'[g]) /\ Positioned(fd'[g])
  BY <1>3, <1>4
<1>6. fd' \in [Fds -> FileDesc \cup {None}]
  BY <1>1 DEF Typed
<1>7. TypeOK'
  BY <1>1, <1>2, <1>5, TableRead DEF TypeOK, Typed, Reading
<1>8. TableInv'
  BY <1>1, TableRead
<1>9. CallInv'
  BY <1>1, <1>2 DEF CallInv, Reading
<1> QED BY <1>5, <1>6, <1>7, <1>8, <1>9 DEF Inv

LEMMA InitInv == Init => Inv
<1> SUFFICES ASSUME Init PROVE Inv
  OBVIOUS
<1>1. call = NoCall /\ ~Reading /\ buf = <<>> /\ fatUpToDate = FALSE /\ fd = [f \in Fds |-> None]
  BY DEF Init, Reading, NoCall
<1>2. \A f \in Fds : fd[f] = None
  BY <1>1
<1>3. fat \in [Granules -> 0..255] /\ curDriveNo \in Drives /\ buf \in Seq(Bytes)
  BY <1>1, EmptySeq DEF Init
<1>4. TypeOK
  BY <1>1, <1>2, <1>3 DEF TypeOK, NoCall
<1>5. fd \in [Fds -> FileDesc \cup {None}]
  BY <1>1
<1> QED BY <1>1, <1>2, <1>4, <1>5 DEF Inv, TableInv, CallInv

\* Calls that change no descriptor.
LEMMA NoDescriptorChanges ==
    ASSUME Inv, UNCHANGED <<curDriveNo, fd, call, buf>>,
           UpdateFAT \/ UNCHANGED <<fat, fatUpToDate>>
    PROVE  Inv'
<1>1. TypeOK /\ TableInv /\ CallInv /\ fd \in [Fds -> FileDesc \cup {None}]
  BY DEF Inv
<1>2. TableInv' /\ fat' \in [Granules -> 0..255] /\ fatUpToDate' \in BOOLEAN
  <2>1. CASE UpdateFAT
    BY <1>1, <2>1, TableRead
  <2>2. CASE UNCHANGED <<fat, fatUpToDate>>
    BY <1>1, <2>2 DEF TableInv, TypeOK
  <2> QED BY <2>1, <2>2
<1>3. TypeOK'
  BY <1>1, <1>2 DEF TypeOK, Reading
<1>4. CallInv'
  BY <1>1 DEF CallInv, Reading, Current
<1>5. Working' => \A f \in Fds : fd'[f] # None => Positioned(fd'[f])
  BY DEF Inv, Working
<1> QED BY <1>1, <1>2, <1>3, <1>4, <1>5 DEF Inv

LEMMA SetDefaultDriveNoInv ==
    ASSUME Inv, NEW d \in Drives, SetDefaultDriveNo(d), ForgetsFAT = TRUE
    PROVE  Inv'
<1>1. TypeOK /\ CallInv /\ fd \in [Fds -> FileDesc \cup {None}] /\ Idle
  BY DEF Inv, SetDefaultDriveNo
<1>2. /\ curDriveNo' = d /\ fatUpToDate' = FALSE
      /\ fat' = fat /\ fd' = fd /\ call' = call /\ buf' = buf
  BY DEF SetDefaultDriveNo
<1>3. ~Reading /\ Working
  BY <1>1 DEF Idle, Reading, Working
<1>4. TypeOK'
  BY <1>1, <1>2 DEF TypeOK, Reading
<1>5. TableInv' /\ CallInv'
  BY <1>1, <1>2, <1>3 DEF TableInv, CallInv, Reading
<1>6. \A f \in Fds : fd'[f] # None => Positioned(fd'[f])
  BY <1>2, <1>3 DEF Inv
<1> QED BY <1>1, <1>2, <1>4, <1>5, <1>6 DEF Inv

\* The descriptors that a call finds.
LEMMA Found ==
    ASSUME Inv, Working, NEW f \in Fds, fd[f] # None
    PROVE  fd[f] \in FileDesc /\ Typed(fd[f]) /\ Positioned(fd[f])
BY DEF Inv, TypeOK, Typed

LEMMA RewindInv ==
    ASSUME Inv, NEW f \in Fds, Rewind(f)
    PROVE  Inv'
<1> DEFINE e == Rewound(fd[f])
<1>1. Idle /\ Working /\ fd[f] # None
  BY DEF Rewind, Usable, Idle, Working
<1>2. fd[f] \in FileDesc /\ OfAnEntry(fd[f]) /\ fd[f].length = Len(FileOf(fd[f]))
  BY <1>1, Found DEF Positioned
<1>3. Typed(e) /\ Positioned(e)
  BY <1>2, RewoundPositioned
<1>4. fd' = [fd EXCEPT ![f] = e] /\ UpdateFAT /\ UNCHANGED <<curDriveNo, call, buf>>
  BY DEF Rewind
<1> HIDE DEF e
<1> QED BY <1>1, <1>3, <1>4, OneDescriptorChanges

\* What a seek() finds.
LEMMA SeekPosition ==
    ASSUME Inv, SeeksEnds = FALSE, NEW f \in Fds, NEW p \in Positions, Seek(f, p)
    PROVE  \E e :
               /\ Idle /\ fd[f] # None /\ fd[f] \in FileDesc /\ Positioned(fd[f])
               /\ Typed(e) /\ Positioned(e) /\ SameFile(fd[f], e)
               /\ e.offset = IF p > fd[f].length THEN fd[f].length ELSE p
               /\ fd' = [fd EXCEPT ![f] = e] /\ UpdateFAT
               /\ UNCHANGED <<curDriveNo, call, buf>>
               /\ reply' = Done("seek", TRUE)
<1> DEFINE q    == IF p > fd[f].length THEN fd[f].length ELSE p
           gran == Walk(TheFAT, fd[f].firstGran, q \div BytesPerGranule)
           e    == Sought(fd[f], gran, q)
<1>1. Idle /\ Working /\ fd[f] # None /\ fd[f].drive = curDriveNo
  BY DEF Seek, Usable, Idle, Working
<1>2. fd[f] \in FileDesc /\ Positioned(fd[f]) /\ fd[f].length \in Nat
  BY <1>1, Found, DescriptorNumbers
<1>3. q \in Nat /\ q <= fd[f].length
  BY <1>2, DisksAssumption
<1>4. q < fd[f].length \/ ~EndsWithSector(fd[f])
  <2>1. p < fd[f].length \/ ~EndsWithSector(fd[f])
    BY DEF Seek
  <2>2. p < fd[f].length => q = p
    BY <1>2, DisksAssumption
  <2> QED BY <2>1, <2>2
<1>5. TheFAT = TableOf(fd[f])
  BY <1>1, TableRead DEF Inv, TableOf
<1>6. gran \in Granules /\ Typed(e) /\ Positioned(e) /\ SameFile(fd[f], e) /\ e.offset = q
  <2>1. gran = Walk(TableOf(fd[f]), fd[f].firstGran, q \div BytesPerGranule)
    BY <1>5
  <2> HIDE DEF q, gran
  <2> QED BY <1>2, <1>3, <1>4, <2>1, SoughtPositioned
<1>7. /\ fd' = [fd EXCEPT ![f] = e] /\ UpdateFAT /\ UNCHANGED <<curDriveNo, call, buf>>
      /\ reply' = Done("seek", TRUE)
  BY <1>6 DEF Seek
<1>8. e.offset = IF p > fd[f].length THEN fd[f].length ELSE p
  BY <1>6
<1> HIDE DEF e
<1> QED BY <1>1, <1>2, <1>6, <1>7, <1>8

LEMMA SeekInv ==
    ASSUME Inv, SeeksEnds = FALSE, NEW f \in Fds, NEW p \in Positions, Seek(f, p)
    PROVE  Inv'
<1>1. PICK e : /\ Idle /\ Typed(e) /\ Positioned(e)
               /\ fd' = [fd EXCEPT ![f] = e] /\ UpdateFAT /\ UNCHANGED <<curDriveNo, call, buf>>
  BY SeekPosition
<1> QED BY <1>1, OneDescriptorChanges

-----------------------------------------------------------------------------
(* open() *)

LEMMA OpenedDescriptor ==
    ASSUME Inv, NEW f \in Fds, NEW n \in DirNames, OpenFile(f, n)
    PROVE  \E e \in Matches(Disks[curDriveNo].dir, n) : \E d :
               /\ Typed(d) /\ Positioned(d) /\ d.offset = 0
               /\ d.drive = curDriveNo
               /\ d.firstGran = Disks[curDriveNo].dir[e].gran
               /\ d.lastBytes = Disks[curDriveNo].dir[e].lastBytes
               /\ Idle /\ fd' = [fd EXCEPT ![f] = d] /\ UpdateFAT
               /\ UNCHANGED <<curDriveNo, call, buf>>
               /\ reply' = Done("open", TRUE)
<1> DEFINE dir == Disks[curDriveNo].dir
           New(e) == [drive     |-> curDriveNo,
                      firstGran |-> dir[e].gran,
                      lastBytes |-> dir[e].lastBytes,
                      length    |-> ComputedLength(TheFAT, dir[e].gran, dir[e].lastBytes),
                      curGran   |-> AtEnd,
                      curSec    |-> 1,
                      offset    |-> 0,
                      secOffset |-> 0,
                      sector    |-> <<>>]
<1>1. PICK e \in Matches(dir, n) : fd' = [fd EXCEPT ![f] = Rewound(New(e))]
  BY DEF OpenFile
<1>2. /\ Idle /\ UpdateFAT /\ UNCHANGED <<curDriveNo, call, buf>>
      /\ reply' = Done("open", TRUE)
  BY DEF OpenFile
<1> DEFINE b == New(e)
           d == Rewound(b)
<1>3. curDriveNo \in Drives /\ TheFAT = Disks[curDriveNo].fat
  BY TableRead DEF Inv, TypeOK
<1>4. e \in DirEntries /\ InUse(dir[e])
  BY DEF Matches, InUse
<1>5. dir[e] \in Entry /\ dir[e].gran \in Granules /\ dir[e].lastBytes \in 0..BytesPerSector
  BY <1>3, <1>4, DisksAssumption DEF Image, Entry
<1>6. /\ b.drive = curDriveNo /\ b.firstGran = dir[e].gran /\ b.lastBytes = dir[e].lastBytes
      /\ b.length = ComputedLength(TheFAT, dir[e].gran, dir[e].lastBytes)
  OBVIOUS
<1>7. OfAnEntry(b)
  <2> HIDE DEF b
  <2> QED BY <1>3, <1>4, <1>6 DEF OfAnEntry
<1>8. b.length = Len(FileOf(b)) /\ b.length \in Nat
  <2>1. b.length = ComputedLength(TableOf(b), b.firstGran, b.lastBytes)
    BY <1>3, <1>6 DEF TableOf
  <2> HIDE DEF b
  <2> QED BY <1>7, <2>1, FileBytes
<1>9. b \in FileDesc
  <2>1. 1 \in 1..(SectorsPerGranule + 1) /\ 0 \in 0..BytesPerSector /\ 0 \in Nat /\ <<>> \in Seq(Bytes)
    BY UnitSizes, EmptySeq
  <2>2. ComputedLength(TheFAT, dir[e].gran, dir[e].lastBytes) \in Nat
    BY <1>6, <1>8
  <2> QED BY <1>3, <1>5, <2>1, <2>2 DEF FileDesc
<1>10. Typed(d) /\ Positioned(d) /\ SameFile(b, d) /\ d.offset = 0
  <2> HIDE DEF b
  <2> QED BY <1>7, <1>8, <1>9, RewoundPositioned
<1>11. d.drive = curDriveNo /\ d.firstGran = dir[e].gran /\ d.lastBytes = dir[e].lastBytes
  <2> HIDE DEF b, d
  <2> QED BY <1>6, <1>10 DEF SameFile
<1>12. fd' = [fd EXCEPT ![f] = d]
  BY <1>1
<1> HIDE DEF d
<1> QED BY <1>2, <1>10, <1>11, <1>12

LEMMA OpenFileInv ==
    ASSUME Inv, NEW f \in Fds, NEW n \in DirNames, OpenFile(f, n)
    PROVE  Inv'
<1>1. PICK d : /\ Idle /\ Typed(d) /\ Positioned(d)
               /\ fd' = [fd EXCEPT ![f] = d] /\ UpdateFAT /\ UNCHANGED <<curDriveNo, call, buf>>
  BY OpenedDescriptor
<1> QED BY <1>1, OneDescriptorChanges

-----------------------------------------------------------------------------
(* read() *)

\* Bytes and those that follow them.
LEMMA AdjacentSlices ==
    ASSUME NEW S, NEW s \in Seq(S), NEW a \in Nat, NEW m \in Nat, NEW n \in Nat,
           NEW b, b = a + m, b + n <= Len(s),
           NEW l, l = m + n
    PROVE  Slice(s, a, m) \o Slice(s, b, n) = Slice(s, a, l)
<1> DEFINE x == Slice(s, a, m)
           y == Slice(s, b, n)
           z == Slice(s, a, l)
<1>1. b \in Nat /\ l \in Nat /\ a + m <= Len(s) /\ a + l <= Len(s) /\ Len(s) \in Nat
  BY LenProperties
<1>2. x \in Seq(S) /\ Len(x) = m /\ \A j \in 1..m : x[j] = s[a + j]
  BY <1>1, SliceLength
<1>3. y \in Seq(S) /\ Len(y) = n /\ \A j \in 1..n : y[j] = s[b + j]
  BY <1>1, SliceLength
<1>4. z \in Seq(S) /\ Len(z) = l /\ \A j \in 1..l : z[j] = s[a + j]
  BY <1>1, SliceLength
<1> HIDE DEF x, y, z
<1> DEFINE r == x \o y
<1>5. /\ r \in Seq(S) /\ Len(r) = l
      /\ \A i \in 1..l : r[i] = IF i <= m THEN x[i] ELSE y[i - m]
  BY <1>2, <1>3, ConcatProperties
<1> HIDE DEF r
<1>6. ASSUME NEW i \in 1..l PROVE r[i] = z[i]
  <2>1. CASE i <= m
    <3>1. i \in 1..m
      BY <2>1
    <3>2. r[i] = x[i]
      BY <1>5, <2>1
    <3> QED BY <1>2, <1>4, <3>1, <3>2
  <2>2. CASE ~(i <= m)
    <3>1. i - m \in 1..n /\ b + (i - m) = a + i
      BY <1>1, <2>2
    <3>2. r[i] = y[i - m]
      BY <1>5, <2>2
    <3>3. y[i - m] = s[b + (i - m)]
      BY <1>3, <3>1
    <3> QED BY <1>4, <3>1, <3>2, <3>3
  <2> QED BY <2>1, <2>2
<1>7. x \o y = z
  BY <1>4, <1>5, <1>6, SeqEqual DEF r
<1> QED BY <1>7 DEF x, y, z

LEMMA BeginReadInv ==
    ASSUME Inv, NEW f \in Fds, NEW n \in Sizes, BeginRead(f, n)
    PROVE  Inv'
<1>1. TypeOK /\ TableInv /\ CallInv /\ fd \in [Fds -> FileDesc \cup {None}]
  BY DEF Inv
<1>2. /\ Idle /\ Working /\ ~Reading /\ fd[f] # None /\ fd[f].drive = curDriveNo
      /\ call' = ReadCall(f, n)
      /\ UNCHANGED <<curDriveNo, fat, fatUpToDate, fd, buf>>
  BY DEF BeginRead, Usable, Idle, Working, Reading
<1>3. call'.op = "read" /\ call'.f = f /\ call'.left = n
  BY <1>2 DEF ReadCall
<1>4. n \in Nat \ {0}
  BY DisksAssumption
<1>5. TypeOK'
  BY <1>1, <1>2, <1>3, <1>4 DEF TypeOK, Reading
<1>6. TableInv'
  BY <1>1, <1>2 DEF TableInv
<1>7. CallInv'
  <2>1. buf = <<>> /\ Len(buf) = 0
    BY <1>1, <1>2, EmptySeq DEF CallInv
  <2>2. fd[f] \in FileDesc /\ Positioned(fd[f]) /\ fd[f].offset \in Nat
    BY <1>2, Found, DescriptorNumbers
  <2>3. /\ FileOf(fd[f]) \in Seq(Bytes) /\ fd[f].length = Len(FileOf(fd[f]))
        /\ fd[f].offset <= Len(FileOf(fd[f])) /\ Len(FileOf(fd[f])) \in Nat
    BY <2>2, FileBytes DEF Positioned
  <2>4. Slice(FileOf(fd[f]), fd[f].offset, 0) = <<>>
    <3> DEFINE F == FileOf(fd[f])
               o == fd[f].offset
    <3> HIDE DEF F, o
    <3>1. F \in Seq(Bytes) /\ o \in Nat /\ o + 0 <= Len(F)
      BY <2>2, <2>3 DEF F, o
    <3>2. Len(Slice(F, o, 0)) = 0 /\ Slice(F, o, 0) \in Seq(Bytes)
      BY <3>1, SliceLength
    <3>3. Slice(F, o, 0) = <<>>
      BY <3>2, EmptySeq
    <3> QED BY <3>3 DEF F, o
  <2>5. Current' = fd[f]
    BY <1>2, <1>3 DEF Current
  <2>6. fd[f].offset - 0 = fd[f].offset /\ 0 + n = n /\ 0 <= fd[f].offset
    BY <1>4, <2>2
  <2>7. Reading' /\ call' = ReadCall(call'.f, call'.left)
    BY <1>2, <1>3 DEF Reading
  <2>8. buf' = Slice(FileOf(Current'), Current'.offset - Len(buf'), Len(buf'))
    BY <1>2, <2>1, <2>4, <2>5, <2>6
  <2> QED BY <1>2, <1>3, <2>1, <2>5, <2>6, <2>7, <2>8 DEF CallInv
<1> QED BY <1>1, <1>2, <1>5, <1>6, <1>7 DEF Inv, Working

\* What a read() that goes on has: its descriptor, and what is delivered next.
LEMMA ReadOn ==
    ASSUME Inv, Reading
    PROVE  /\ Working /\ call.f \in Fds /\ fd[call.f] = Current /\ Current # None
           /\ call = ReadCall(call.f, call.left)
           /\ Current \in FileDesc /\ Typed(Current) /\ Positioned(Current)
           /\ Current.drive = curDriveNo
           /\ call.left \in Nat \ {0} /\ Len(buf) \in Nat /\ Len(buf) <= Current.offset
           /\ Len(buf) + call.left \in Sizes
           /\ Current.offset \in Nat /\ Len(Available(Current)) \in Nat
           /\ Current.offset + Len(Available(Current)) <= Len(FileOf(Current))
           /\ FileOf(Current) \in Seq(Bytes) /\ Len(FileOf(Current)) \in Nat
           /\ \A k \in 0..Len(Available(Current)) :
                  /\ buf \o SubSeq(Available(Current), 1, k)
                       = Slice(FileOf(Current), Current.offset - Len(buf), Len(buf) + k)
                  /\ Current.offset + k <= Len(FileOf(Current))
           /\ Available(Current) = SubSeq(Available(Current), 1, Len(Available(Current)))
<1> DEFINE d == Current
           F == FileOf(d)
           o == d.offset
           a == Available(d)
           m == Len(buf)
<1>1. /\ Working /\ call.f \in Fds /\ d = fd[call.f] /\ d # None /\ call.left \in Nat \ {0}
      /\ buf \in Seq(Bytes)
  BY DEF Inv, TypeOK, Reading, Working, Current
<1>2. /\ call = ReadCall(call.f, call.left) /\ d.drive = curDriveNo
      /\ Len(buf) + call.left \in Sizes /\ m <= o /\ buf = Slice(F, o - m, m)
  BY DEF Inv, CallInv
<1>3. d \in FileDesc /\ Typed(d) /\ Positioned(d)
  BY <1>1, Found
<1>4. o \in Nat /\ d.length = Len(F) /\ F \in Seq(Bytes) /\ Len(F) \in Nat
  BY <1>3, DescriptorNumbers, FileBytes DEF Positioned
<1>5. /\ a \in Seq(Bytes) /\ Len(a) \in Nat /\ o + Len(a) <= Len(F)
      /\ \A k \in 0..Len(a) : SubSeq(a, 1, k) = Slice(F, o, k)
      /\ a = Slice(F, o, Len(a))
  BY <1>3, <1>4, AvailableBytes
<1>6. m \in Nat
  BY <1>1, LenProperties
<1> HIDE DEF d, F, o, a, m
<1>7. ASSUME NEW k \in 0..Len(a)
      PROVE  buf \o SubSeq(a, 1, k) = Slice(F, o - m, m + k) /\ o + k <= Len(F)
  <2>1. o - m \in Nat /\ o = (o - m) + m /\ k \in Nat /\ o + k <= Len(F)
    BY <1>2, <1>4, <1>5, <1>6
  <2> DEFINE b == o - m
             l == m + k
  <2>2. b \in Nat /\ o = b + m /\ k \in Nat /\ o + k <= Len(F) /\ l = m + k
    BY <2>1
  <2> HIDE DEF b, l
  <2>3. Slice(F, b, m) \o Slice(F, o, k) = Slice(F, b, l)
    BY <1>4, <1>6, <2>2, AdjacentSlices
  <2> QED BY <1>2, <1>5, <2>2, <2>3 DEF b, l
<1>8. a = SubSeq(a, 1, Len(a))
  <2>1. Len(a) \in 0..Len(a)
    BY <1>5
  <2> QED BY <1>5, <2>1
<1> QED BY <1>1, <1>2, <1>3, <1>4, <1>5, <1>6, <1>7, <1>8 DEF d, F, o, a, m

\* How read() returns: it has delivered k more bytes, as many as it was asked for
\* or as there are, or fewer where the disk fails.
Returned(e, k, failed) ==
    /\ k \in Nat /\ k <= call.left /\ Current.offset + k <= Len(FileOf(Current))
    /\ failed \in BOOLEAN
    /\ ~failed => k = call.left \/ Current.offset + k = Len(FileOf(Current))
    /\ e \in FileDesc /\ SameFile(Current, e) /\ e.offset = Current.offset + k
    /\ fd' = [fd EXCEPT ![call.f] = e]
    /\ reply' = [op |-> "read",
                 bytes |-> Slice(FileOf(Current), Current.offset - Len(buf), Len(buf) + k),
                 failed |-> failed]
    /\ buf' = <<>> /\ UNCHANGED <<curDriveNo, fat, fatUpToDate>>
    /\ call' \in {NoCall, Stopped} /\ Typed(e)
    /\ call' = NoCall => Positioned(e)

LEMMA ReadReturnsInv ==
    ASSUME Inv, Reading, NEW e, NEW k, NEW failed, Returned(e, k, failed)
    PROVE  Inv'
<1>1. TypeOK /\ TableInv /\ CallInv /\ fd \in [Fds -> FileDesc \cup {None}]
  BY DEF Inv
<1>2. /\ Working /\ call.f \in Fds
      /\ Typed(e) /\ fd' = [fd EXCEPT ![call.f] = e] /\ buf' = <<>>
      /\ UNCHANGED <<curDriveNo, fat, fatUpToDate>> /\ call' \in {NoCall, Stopped}
      /\ call' = NoCall => Positioned(e)
  BY ReadOn DEF Returned
<1>3. \A g \in Fds : fd[g] # None => Typed(fd[g]) /\ Positioned(fd[g])
  BY <1>2, Found
<1>4. \A g \in Fds : fd'[g] = IF g = call.f THEN e ELSE fd[g]
  BY <1>1, <1>2
<1>5. /\ \A g \in Fds : fd'[g] # None => Typed(fd'[g])
      /\ call' = NoCall => \A g \in Fds : fd'[g] # None => Positioned(fd'[g])
  BY <1>2, <1>3, <1>4
<1>6. fd' \in [Fds -> FileDesc \cup {None}]
  BY <1>1, <1>2 DEF Typed
<1>7. ~Reading' /\ (call' = Stopped => ~Working') /\ call'.op \in {"none", "stopped"}
  <2>1. CASE call' = NoCall
    BY <2>1 DEF NoCall, Stopped, Reading
  <2>2. CASE call' = Stopped
    BY <2>2 DEF Stopped, Reading, Working
  <2> QED BY <1>2, <2>1, <2>2
<1>8. buf' \in Seq(Bytes)
  BY <1>2, EmptySeq
<1>9. TypeOK'
  BY <1>1, <1>2, <1>5, <1>7, <1>8 DEF TypeOK, Typed
<1>10. TableInv'
  BY <1>1, <1>2 DEF TableInv
<1>11. CallInv'
  BY <1>2, <1>7 DEF CallInv
<1> QED BY <1>2, <1>5, <1>6, <1>7, <1>9, <1>10, <1>11 DEF Inv

LEMMA FinishReadReturns ==
    ASSUME Inv, FinishRead
    PROVE  \E e, k, failed : Returned(e, k, failed)
<1> DEFINE d == Current
           k == call.left
           e == Advanced(d, k)
<1>1. Reading /\ Enough
  BY DEF FinishRead
<1>2. /\ d \in FileDesc /\ Typed(d) /\ Positioned(d) /\ fd[call.f] = d
      /\ k \in Nat \ {0} /\ Len(Available(d)) \in Nat /\ k <= Len(Available(d))
  BY <1>1, ReadOn DEF Enough
<1>3. k \in 1..Len(Available(d)) /\ k \in 0..Len(Available(d)) /\ k \in Nat /\ k <= k
  BY <1>2
<1>4. /\ buf \o SubSeq(Available(d), 1, k) = Slice(FileOf(d), d.offset - Len(buf), Len(buf) + k)
      /\ d.offset + k <= Len(FileOf(d))
  BY <1>1, <1>3, ReadOn
<1>5. Typed(e) /\ Positioned(e) /\ SameFile(d, e) /\ e.offset = d.offset + k
  <2> HIDE DEF d, k
  <2> QED BY <1>2, <1>3, AdvancedPositioned
<1>6. /\ fd' = [fd EXCEPT ![call.f] = e] /\ call' = NoCall /\ buf' = <<>>
      /\ reply' = [op |-> "read", bytes |-> buf \o SubSeq(Available(d), 1, k), failed |-> FALSE]
      /\ UNCHANGED <<curDriveNo, fat, fatUpToDate>>
  BY <1>2 DEF FinishRead, ReturnRead
<1>7. e \in FileDesc
  BY <1>5 DEF Typed
<1> HIDE DEF e
<1>8. Returned(e, k, FALSE)
  BY <1>3, <1>4, <1>5, <1>6, <1>7 DEF Returned
<1> QED BY <1>8

\* Where read() gives up, it has delivered what was available.
LEMMA NotEnough ==
    ASSUME Inv, Reading, ~Enough
    PROVE  LET k == Len(Available(Current))
           IN  /\ k \in Nat /\ k < call.left /\ Current.offset + k <= Len(FileOf(Current))
               /\ buf \o Available(Current)
                    = Slice(FileOf(Current), Current.offset - Len(buf), Len(buf) + k)
               /\ Typed(Emptied(Current)) /\ Positioned(Emptied(Current))
               /\ SameFile(Current, Emptied(Current))
               /\ Emptied(Current).offset = Current.offset + k
               /\ Emptied(Current).curGran = Current.curGran
               /\ Current.curGran # AtEnd => Emptied(Current).sector = <<>>
               /\ Current.curGran = AtEnd => Current.offset + k = Len(FileOf(Current))
<1> DEFINE d == Current
           k == Len(Available(d))
<1>1. /\ d \in FileDesc /\ Typed(d) /\ Positioned(d)
      /\ call.left \in Nat \ {0} /\ k \in Nat /\ k < call.left
  BY ReadOn DEF Enough
<1>2. k \in 0..Len(Available(d))
  BY <1>1
<1>3. /\ buf \o SubSeq(Available(d), 1, k) = Slice(FileOf(d), d.offset - Len(buf), Len(buf) + k)
      /\ d.offset + k <= Len(FileOf(d))
      /\ Available(d) = SubSeq(Available(d), 1, k)
  BY <1>2, ReadOn
<1>4. /\ Typed(Emptied(d)) /\ Positioned(Emptied(d)) /\ SameFile(d, Emptied(d))
      /\ Emptied(d).offset = d.offset + k
      /\ Emptied(d).curGran = d.curGran
      /\ d.curGran # AtEnd => Emptied(d).sector = <<>>
  <2> HIDE DEF d
  <2> QED BY <1>1, EmptiedPositioned
<1>5. d.curGran = AtEnd => d.offset + k = Len(FileOf(d))
  <2> HIDE DEF d
  <2> QED BY <1>1, AvailableBytes DEF Positioned
<1> QED BY <1>1, <1>3, <1>4, <1>5

LEMMA GivingUpReturns ==
    ASSUME Inv, ReachEOF \/ SectorUnreadable
    PROVE  \E e, k, failed : Returned(e, k, failed)
<1> DEFINE d == Current
           k == Len(Available(d))
           e == Emptied(d)
<1>1. Reading /\ ~Enough
  BY DEF ReachEOF, SectorUnreadable
<1>2. /\ k \in Nat /\ k < call.left /\ d.offset + k <= Len(FileOf(d))
      /\ buf \o Available(d) = Slice(FileOf(d), d.offset - Len(buf), Len(buf) + k)
      /\ Typed(e) /\ Positioned(e) /\ SameFile(d, e) /\ e.offset = d.offset + k
      /\ d.curGran = AtEnd => d.offset + k = Len(FileOf(d))
  BY <1>1, NotEnough
<1>3. fd[call.f] = d /\ call.left \in Nat
  BY <1>1, ReadOn
<1>4. PICK failed \in BOOLEAN :
          /\ ReturnRead(buf \o Available(d), failed)
          /\ fd' = [fd EXCEPT ![call.f] = e]
          /\ UNCHANGED <<curDriveNo, fat, fatUpToDate>>
          /\ ~failed => d.curGran = AtEnd
  BY <1>3 DEF ReachEOF, SectorUnreadable
<1>5. e \in FileDesc /\ k <= call.left
  BY <1>2, <1>3 DEF Typed
<1> HIDE DEF e, k
<1>6. Returned(e, k, failed)
  BY <1>2, <1>4, <1>5 DEF Returned, ReturnRead
<1> QED BY <1>6

LEMMA TableLostReturns ==
    ASSUME Inv, TableLost
    PROVE  \E e, k, failed : Returned(e, k, failed)
<1> DEFINE k == Len(Available(Current))
           d == Emptied(Current)
           t == FirstOfSector(d, d.lastBytes)
           e == [d EXCEPT !.sector = t]
<1>1. Reading /\ ~Enough /\ Current.curGran # AtEnd
  BY DEF TableLost
<1>2. /\ k \in Nat /\ k < call.left /\ Current.offset + k <= Len(FileOf(Current))
      /\ buf \o Available(Current)
           = Slice(FileOf(Current), Current.offset - Len(buf), Len(buf) + k)
      /\ Typed(d) /\ SameFile(Current, d)
      /\ d.offset = Current.offset + k /\ d.curGran = Current.curGran
  BY <1>1, NotEnough
<1>3. /\ fd' = [fd EXCEPT ![call.f] = e] /\ call' = Stopped /\ buf' = <<>>
      /\ reply' = [op |-> "read", bytes |-> buf \o Available(Current), failed |-> TRUE]
      /\ UNCHANGED <<curDriveNo, fat, fatUpToDate>>
  BY DEF TableLost, TableFails
<1> HIDE DEF d
<1>4. t \in Seq(Bytes) /\ Len(t) <= BytesPerSector
  <2> DEFINE g == Disks[d.drive].gran[d.curGran]
             b == (d.curSec - 1) * BytesPerSector
  <2>1. /\ d \in FileDesc /\ d.curGran # AtEnd /\ d.curSec <= SectorsPerGranule
        /\ d.curSec \in Nat \ {0}
    BY <1>1, <1>2, DescriptorNumbers DEF Typed
  <2>2. /\ d.curGran \in Granules /\ d.drive \in Drives /\ d.lastBytes \in 0..BytesPerSector
    BY <2>1 DEF FileDesc
  <2>3. g \in Seq(Bytes) /\ Len(g) = BytesPerGranule
    <3>1. Disks[d.drive] \in Image
      BY <2>2, DisksAssumption
    <3> QED BY <2>2, <3>1, GranuleBytes
  <2>4. b \in Nat /\ b + BytesPerSector <= BytesPerGranule
    <3>1. /\ d.curSec - 1 \in Nat /\ d.curSec - 1 < SectorsPerGranule
          /\ SectorsPerGranule \in Nat /\ BytesPerSector \in Nat
      BY <2>1, UnitSizes
    <3> QED BY <3>1, Products, UnitSizes
  <2>5. t = Slice(g, b, d.lastBytes)
    BY DEF FirstOfSector, Slice
  <2> HIDE DEF g, b
  <2>6. d.lastBytes \in Nat /\ b + d.lastBytes <= Len(g) /\ d.lastBytes <= BytesPerSector
    BY <2>2, <2>3, <2>4, UnitSizes
  <2>7. t \in Seq(Bytes) /\ Len(t) = d.lastBytes
    BY <2>3, <2>4, <2>5, <2>6, SliceLength
  <2> QED BY <2>6, <2>7
<1> HIDE DEF t
<1>5. /\ e \in FileDesc /\ Len(e.sector) <= BytesPerSector
      /\ e.drive = d.drive /\ e.firstGran = d.firstGran
      /\ e.lastBytes = d.lastBytes /\ e.length = d.length
      /\ e.curGran = d.curGran /\ e.curSec = d.curSec /\ e.offset = d.offset
  BY <1>2, <1>4 DEF Typed, FileDesc
<1> HIDE DEF e, k
<1>6. Typed(e) /\ SameFile(Current, e) /\ e.offset = Current.offset + k
  BY <1>2, <1>5 DEF Typed, SameFile
<1>7. k <= call.left
  BY <1>1, <1>2, ReadOn
<1>8. Returned(e, k, TRUE)
  BY <1>2, <1>3, <1>5, <1>6, <1>7 DEF Returned, NoCall, Stopped
<1> QED BY <1>8

\* What is read of the next sector: nothing more is delivered, except what was
\* available already.
NextLoaded(e, k) ==
    /\ e \in FileDesc /\ Typed(e) /\ Positioned(e) /\ SameFile(Current, e)
    /\ k \in Nat /\ k < call.left
    /\ e.offset = Current.offset + k /\ e.offset <= Len(FileOf(Current))
    /\ fd' = [fd EXCEPT ![call.f] = e]
    /\ buf' = Slice(FileOf(Current), Current.offset - Len(buf), Len(buf) + k)
    /\ Len(buf') = Len(buf) + k
    /\ call' = ReadCall(call.f, call.left - k)
    /\ UpdateFAT /\ UNCHANGED <<curDriveNo, reply>>

LEMMA GetNextSectorLoads ==
    ASSUME Inv, GetNextSector
    PROVE  \E e, k : NextLoaded(e, k)
<1> DEFINE k == Len(Available(Current))
           d == Emptied(Current)
           e == Loaded(d, TheFAT[d.curGran])
<1>1. Reading /\ ~Enough /\ Current.curGran # AtEnd
  BY DEF GetNextSector
<1>2. /\ k \in Nat /\ k < call.left /\ Current.offset + k <= Len(FileOf(Current))
      /\ buf \o Available(Current)
           = Slice(FileOf(Current), Current.offset - Len(buf), Len(buf) + k)
      /\ Typed(d) /\ Positioned(d) /\ SameFile(Current, d)
      /\ d.offset = Current.offset + k /\ d.curGran # AtEnd /\ d.sector = <<>>
  BY <1>1, NotEnough
<1>3. /\ call.f \in Fds /\ fd[call.f] = Current /\ call = ReadCall(call.f, call.left)
      /\ Current.drive = curDriveNo
      /\ Len(buf) \in Nat /\ Len(buf) <= Current.offset /\ Current.offset \in Nat
      /\ FileOf(Current) \in Seq(Bytes)
  BY <1>1, ReadOn
<1>4. TheFAT = TableOf(d)
  BY <1>2, <1>3, TableRead DEF Inv, TableOf, SameFile
<1>5. Typed(e) /\ Positioned(e) /\ SameFile(d, e) /\ e.offset = d.offset
  <2>1. TheFAT[d.curGran] = TableOf(d)[d.curGran]
    BY <1>4
  <2> HIDE DEF d
  <2> QED BY <1>2, <2>1, LoadedPositioned DEF Typed
<1>6. /\ fd' = [fd EXCEPT ![call.f] = e] /\ buf' = buf \o Available(Current)
      /\ call' = [call EXCEPT !.left = call.left - k]
      /\ UpdateFAT /\ UNCHANGED <<curDriveNo, reply>>
  BY DEF GetNextSector
<1> HIDE DEF d, e, k
<1>7. call' = ReadCall(call.f, call.left - k)
  BY <1>3, <1>6 DEF ReadCall
<1>8. Len(buf') = Len(buf) + k
  <2> DEFINE b == Current.offset - Len(buf)
             l == Len(buf) + k
             F == FileOf(Current)
  <2>1. b \in Nat /\ l \in Nat /\ b + l <= Len(F) /\ F \in Seq(Bytes)
    BY <1>2, <1>3, LenProperties
  <2>2. buf' = Slice(F, b, l)
    BY <1>2, <1>6
  <2> HIDE DEF b, l, F
  <2>3. Len(buf') = l
    BY <2>1, <2>2, SliceLength
  <2> QED BY <2>3 DEF l
<1>9. SameFile(Current, e) /\ e \in FileDesc
  BY <1>2, <1>5 DEF SameFile, Typed
<1>10. e.offset = Current.offset + k /\ e.offset <= Len(FileOf(Current))
  BY <1>2, <1>5
<1>11. buf' = Slice(FileOf(Current), Current.offset - Len(buf), Len(buf) + k)
  BY <1>2, <1>6
<1>12. NextLoaded(e, k)
  BY <1>2, <1>5, <1>6, <1>7, <1>8, <1>9, <1>10, <1>11 DEF NextLoaded
<1> QED BY <1>12

LEMMA GetNextSectorInv ==
    ASSUME Inv, GetNextSector
    PROVE  Inv'
<1>1. PICK e, k : NextLoaded(e, k)
  BY GetNextSectorLoads
<1>2. Reading /\ TypeOK /\ TableInv /\ fd \in [Fds -> FileDesc \cup {None}]
  BY DEF GetNextSector, Inv
<1>3. /\ Working /\ call.f \in Fds /\ call.left \in Nat
      /\ Len(buf) \in Nat /\ Len(buf) + call.left \in Sizes /\ Len(buf) <= Current.offset
      /\ Current.offset \in Nat /\ FileOf(Current) \in Seq(Bytes) /\ Current.drive = curDriveNo
      /\ Len(FileOf(Current)) \in Nat
  BY <1>2, ReadOn
<1>4. /\ e \in FileDesc /\ Typed(e) /\ Positioned(e) /\ SameFile(Current, e)
      /\ k \in Nat /\ k < call.left
      /\ e.offset = Current.offset + k /\ e.offset <= Len(FileOf(Current))
      /\ fd' = [fd EXCEPT ![call.f] = e]
      /\ buf' = Slice(FileOf(Current), Current.offset - Len(buf), Len(buf) + k)
      /\ Len(buf') = Len(buf) + k
      /\ call' = ReadCall(call.f, call.left - k)
      /\ UpdateFAT /\ UNCHANGED <<curDriveNo, reply>>
  BY <1>1 DEF NextLoaded
<1>5. /\ call'.op = "read" /\ call'.f = call.f /\ call'.left = call.left - k
      /\ call'.left \in Nat \ {0} /\ Reading'
  BY <1>3, <1>4 DEF ReadCall, Reading
<1>6. \A g \in Fds : fd'[g] = IF g = call.f THEN e ELSE fd[g]
  BY <1>2, <1>4
<1>7. \A g \in Fds : fd[g] # None => Typed(fd[g]) /\ Positioned(fd[g])
  BY <1>3, Found
<1>8. \A g \in Fds : fd'[g] # None => Typed(fd'[g]) /\ Positioned(fd'[g])
  BY <1>4, <1>6, <1>7
<1>9. fd' \in [Fds -> FileDesc \cup {None}]
  BY <1>2, <1>4
<1>10. Current' = e /\ fd'[call'.f] # None
  BY <1>3, <1>4, <1>5, <1>6, DisksAssumption DEF Current
<1>11. FileOf(e) = FileOf(Current) /\ e.drive = curDriveNo
  BY <1>3, <1>4, SameFileFacts DEF SameFile
<1> DEFINE b == Current.offset - Len(buf)
           l == Len(buf) + k
           F == FileOf(Current)
<1>12. b \in Nat /\ l \in Nat /\ b + l = e.offset /\ e.offset - l = b
  BY <1>3, <1>4
<1>13. buf' = Slice(F, b, l) /\ Len(buf') = l
  BY <1>4
<1>14. buf' \in Seq(Bytes)
  <2>1. F \in Seq(Bytes) /\ b + l <= Len(F)
    BY <1>3, <1>4, <1>12
  <2> HIDE DEF b, l, F
  <2> QED BY <1>12, <1>13, <2>1, SliceLength
<1>15. TypeOK'
  BY <1>2, <1>4, <1>5, <1>8, <1>10, <1>14, TableRead DEF TypeOK, Typed
<1>16. TableInv'
  BY <1>2, <1>4, TableRead
<1>17. CallInv'
  <2>1. call' = ReadCall(call'.f, call'.left)
    BY <1>4, <1>5
  <2>2. Len(buf') + call'.left \in Sizes
    <3>1. Len(buf') = Len(buf) + k /\ call'.left = call.left - k
      BY <1>4, <1>5
    <3>2. (Len(buf) + k) + (call.left - k) = Len(buf) + call.left
      BY <1>3, <1>4
    <3> QED BY <1>3, <3>1, <3>2
  <2>3. Len(buf') <= Current'.offset
    BY <1>10, <1>12, <1>13
  <2>4. buf' = Slice(FileOf(Current'), Current'.offset - Len(buf'), Len(buf'))
    BY <1>10, <1>11, <1>12, <1>13
  <2>5. Current'.drive = curDriveNo'
    BY <1>4, <1>10, <1>11
  <2> QED BY <1>5, <1>10, <2>1, <2>2, <2>3, <2>4, <2>5 DEF CallInv
<1> QED BY <1>8, <1>9, <1>15, <1>16, <1>17 DEF Inv

LEMMA Inductive ==
    ASSUME ForgetsFAT = TRUE, SeeksEnds = FALSE, Inv, [Next]_vars
    PROVE  Inv'
<1>1. ASSUME NEW d \in Drives, SetDefaultDriveNo(d) PROVE Inv'
  BY <1>1, SetDefaultDriveNoInv
<1>2. CASE OpenFileFails
  BY <1>2, NoDescriptorChanges DEF OpenFileFails
<1>3. ASSUME NEW f \in Fds, NEW n \in DirNames, OpenFile(f, n) PROVE Inv'
  BY <1>3, OpenFileInv
<1>4. ASSUME NEW f \in Fds, NEW n \in Sizes, BeginRead(f, n) PROVE Inv'
  BY <1>4, BeginReadInv
<1>5. ASSUME NEW f \in Fds, NEW p \in Positions, Seek(f, p) PROVE Inv'
  BY <1>5, SeekInv
<1>6. ASSUME NEW f \in Fds, Rewind(f) PROVE Inv'
  BY <1>6, RewindInv
<1>7. ASSUME NEW f \in Fds, GetFileLength(f) PROVE Inv'
  BY <1>7, NoDescriptorChanges DEF GetFileLength
<1>8. ASSUME NEW f \in Fds, TableUnreadable(f) PROVE Inv'
  BY <1>8, NoDescriptorChanges DEF TableUnreadable, TableFails
<1>9. CASE FinishRead
  BY <1>9, FinishReadReturns, ReadReturnsInv DEF FinishRead
<1>10. CASE ReachEOF \/ SectorUnreadable
  BY <1>10, GivingUpReturns, ReadReturnsInv DEF ReachEOF, SectorUnreadable
<1>11. CASE GetNextSector
  BY <1>11, GetNextSectorInv
<1>12. CASE TableLost
  BY <1>12, TableLostReturns, ReadReturnsInv DEF TableLost
<1>13. CASE UNCHANGED vars
  BY <1>13, NoDescriptorChanges DEF vars
<1> QED BY <1>1, <1>2, <1>3, <1>4, <1>5, <1>6, <1>7, <1>8, <1>9, <1>10, <1>11, <1>12, <1>13
        DEF Next, ReadStep

THEOREM Invariance ==
    ASSUME ForgetsFAT = TRUE, SeeksEnds = FALSE
    PROVE  Spec => []Inv
<1>1. Init => Inv
  BY InitInv
<1>2. Inv /\ [Next]_vars => Inv'
  BY Inductive
<1> QED BY <1>1, <1>2, PTL DEF Spec

-----------------------------------------------------------------------------
(* What the invariant implies. *)

\* The sector that follows is found in the chain at one place.
LEMMA NextSectorFound ==
    ASSUME NEW d, OfAnEntry(d), NEW p, NextIsAt(d, p)
    PROVE  NextSectorAt(d) = p
<1> DEFINE s == ChainOf(d)
           Is(k) == k \in 1..Len(s) /\ s[k] = d.curGran
           j == CHOOSE k \in 1..Len(s) : s[k] = d.curGran
<1>1. PICK k \in 1..Len(s) : d.curGran = s[k] /\ SectorStart(k, d.curSec) = p
  BY DEF NextIsAt
<1>2. j \in 1..Len(s) /\ s[j] = d.curGran
  BY <1>1
<1>3. j = k
  BY <1>1, <1>2, ChainFacts
<1>4. NextSectorAt(d) = SectorStart(j, d.curSec)
  BY DEF NextSectorAt, SectorStart, ChainOf
<1> QED BY <1>1, <1>3, <1>4

LEMMA DescriptorAtPosition ==
    ASSUME NEW d \in FileDesc, Typed(d), Positioned(d),
           NEW held, held = Available(d),
           NEW ends, ends = d.offset + Len(held)
    PROVE  /\ d.length = Len(FileOf(d))
           /\ ends <= d.length /\ held = SubSeq(FileOf(d), d.offset + 1, ends)
           /\ IF d.curGran = AtEnd THEN ends = d.length
              ELSE NextSectorAt(d) = d.offset - d.secOffset
                                       + (IF d.sector = <<>> THEN 0 ELSE BytesPerSector)
<1>1. /\ d.offset \in Nat /\ d.secOffset \in Nat /\ d.length \in Nat /\ Len(d.sector) \in Nat
      /\ d.sector = <<>> <=> Len(d.sector) = 0
      /\ BytesPerSector \in Nat
  BY DescriptorNumbers, UnitSizes
<1>2. d.length = Len(FileOf(d)) /\ OfAnEntry(d)
  BY DEF Positioned
<1>3. /\ held = Slice(FileOf(d), d.offset, Len(held)) /\ ends <= d.length
      /\ d.curGran = AtEnd => ends = d.length
  BY AvailableBytes
<1>4. held = SubSeq(FileOf(d), d.offset + 1, ends)
  BY <1>3 DEF Slice
<1>5. ASSUME d.curGran # AtEnd
      PROVE  NextSectorAt(d) = d.offset - d.secOffset
                                 + (IF d.sector = <<>> THEN 0 ELSE BytesPerSector)
  <2>1. NextIsAt(d, Start(d) + Len(d.sector)) /\ (d.sector # <<>> => Len(d.sector) = BytesPerSector)
    BY <1>5 DEF Positioned
  <2>2. NextSectorAt(d) = Start(d) + Len(d.sector)
    BY <1>2, <2>1, NextSectorFound
  <2> QED BY <1>1, <2>1, <2>2 DEF Start
<1> QED BY <1>2, <1>3, <1>4, <1>5

LEMMA InvSectorAtPosition ==
    ASSUME Inv PROVE SectorAtPosition
<1>1. ASSUME NEW f \in Fds, Working, fd[f] # None
      PROVE  LET d    == fd[f]
                 held == Available(d)
                 ends == d.offset + Len(held)
             IN  /\ d.length = Len(FileOf(d))
                 /\ ends <= d.length /\ held = SubSeq(FileOf(d), d.offset + 1, ends)
                 /\ IF d.curGran = AtEnd THEN ends = d.length
                    ELSE NextSectorAt(d) = d.offset - d.secOffset
                                             + (IF d.sector = <<>> THEN 0 ELSE BytesPerSector)
  <2> DEFINE d    == fd[f]
             held == Available(d)
             ends == d.offset + Len(held)
  <2>1. d \in FileDesc /\ Typed(d) /\ Positioned(d)
    BY <1>1, Found
  <2>2. held = Available(d) /\ ends = d.offset + Len(held)
    OBVIOUS
  <2> HIDE DEF d, held, ends
  <2>3. /\ d.length = Len(FileOf(d))
        /\ ends <= d.length /\ held = SubSeq(FileOf(d), d.offset + 1, ends)
        /\ IF d.curGran = AtEnd THEN ends = d.length
           ELSE NextSectorAt(d) = d.offset - d.secOffset
                                    + (IF d.sector = <<>> THEN 0 ELSE BytesPerSector)
    BY <2>1, <2>2, DescriptorAtPosition
  <2> QED BY <2>3 DEF d, held, ends
<1>2. TypeOK
  BY DEF Inv
<1> QED BY <1>1, <1>2 DEF SectorAtPosition

LEMMA InvNoFailedAssert ==
    ASSUME Inv PROVE NoFailedAssert
<1>1. call.op # "failed assert"
  <2>1. CASE Reading
    BY <2>1 DEF Reading
  <2>2. CASE ~Reading
    <3>1. call \in {NoCall, Stopped}
      BY <2>2 DEF Inv, CallInv
    <3>2. CASE call = NoCall
      BY <3>2 DEF NoCall
    <3>3. CASE call = Stopped
      BY <3>3 DEF Stopped
    <3> QED BY <3>1, <3>2, <3>3
  <2> QED BY <2>1, <2>2
<1>2. ASSUME NEW f \in Fds, Working, fd[f] # None, fd[f].sector # <<>>
      PROVE  fd[f].secOffset <= Len(fd[f].sector)
  BY <1>2, Found DEF Positioned
<1> QED BY <1>1, <1>2 DEF NoFailedAssert

(* However reads, seeks, rewinds and changes of the drive come together, and   *)
(* whatever the disk refuses, what a descriptor holds of a sector is what the  *)
(* file has at its position, and the sector to be read next follows in it.     *)
THEOREM SectorsAtPositions ==
    ASSUME ForgetsFAT = TRUE, SeeksEnds = FALSE
    PROVE  Spec => []SectorAtPosition
<1>1. Inv => SectorAtPosition
  BY InvSectorAtPosition
<1> QED BY <1>1, Invariance, PTL

(* No assert() of disk.c fails.                                                *)
THEOREM AssertsHold ==
    ASSUME ForgetsFAT = TRUE, SeeksEnds = FALSE
    PROVE  Spec => []NoFailedAssert
<1>1. Inv => NoFailedAssert
  BY InvNoFailedAssert
<1> QED BY <1>1, Invariance, PTL

-----------------------------------------------------------------------------
(* The files are those of RandomAccessFiles. *)

OpenBytes == [f \in Fds |-> IF fd[f] = None THEN None ELSE FileOf(fd[f])]
Places    == [f \in Fds |-> PosOf(f)]

\* The bytes of a file are not the value that stands for no file.
LEMMA FileIsNotNone ==
    ASSUME NEW d, OfAnEntry(d)
    PROVE  FileOf(d) # None
<1> DEFINE L == Len(ChainOf(d))
           z == MarkOf(d) - LastMark
           F == FileOf(d)
           u == (L - 1) * BytesPerGranule
           v == (z - 1) * BytesPerSector
           all == NumGranules * BytesPerGranule
<1>1. /\ L \in 1..NumGranules /\ NumGranules \in Nat /\ BytesPerGranule \in Nat
      /\ BytesPerSector \in Nat /\ SectorsPerGranule \in Nat
      /\ BytesPerGranule = SectorsPerGranule * BytesPerSector
  BY ChainFacts, UnitSizes
<1>2. z \in 1..SectorsPerGranule /\ d.lastBytes \in 0..BytesPerSector
  BY <1>1, FileFacts DEF LastMark
<1>3. F \in Seq(Bytes) /\ Len(F) \in Nat /\ Len(F) = u + v + d.lastBytes
  BY FileBytes DEF SectorStart
<1> HIDE DEF L, z, F
<1>4. u \in Nat /\ u + BytesPerGranule <= all
  <2>1. L - 1 \in Nat /\ L - 1 < NumGranules
    BY <1>1
  <2> QED BY <1>1, <2>1, Products
<1>5. v \in Nat /\ v + BytesPerSector <= BytesPerGranule
  <2>1. z - 1 \in Nat /\ z - 1 < SectorsPerGranule
    BY <1>1, <1>2
  <2> QED BY <1>1, <2>1, Products
<1>6. \A n \in 0..all : None \notin [1..n -> Bytes]
  BY DisksAssumption
<1>7. all \in Nat
  BY <1>1, Products
<1> HIDE DEF u, v, all
<1>8. Len(F) \in 0..all
  BY <1>1, <1>2, <1>3, <1>4, <1>5, <1>7
<1>9. F \in [1..Len(F) -> Bytes]
  BY <1>3, LenProperties
<1>10. F # None
  BY <1>6, <1>8, <1>9
<1> QED BY <1>10 DEF F

\* A name matches one entry: the first of the directory.
LEMMA OneMatch ==
    ASSUME NEW dir, NEW n, NEW d \in Matches(dir, n), NEW e \in Matches(dir, n)
    PROVE  d = e
<1>1. /\ d \in DirEntries /\ e \in DirEntries /\ dir[d].name = n /\ dir[e].name = n
      /\ \A f \in 1..(d - 1) : dir[f].name # n
      /\ \A f \in 1..(e - 1) : dir[f].name # n
  BY DEF Matches
<1>2. d \in Nat \ {0} /\ e \in Nat \ {0}
  BY <1>1, ImageAssumption DEF DirEntries
<1>3. ~(d < e)
  <2>1. d < e => d \in 1..(e - 1)
    BY <1>2
  <2> QED BY <1>1, <2>1
<1>4. ~(e < d)
  <2>1. e < d => e \in 1..(d - 1)
    BY <1>2
  <2> QED BY <1>1, <2>1
<1> QED BY <1>2, <1>3, <1>4

\* A call that changes one descriptor, and no read().
LEMMA OneFileMoves ==
    ASSUME Inv, Idle, NEW f \in Fds, NEW e \in FileDesc,
           fd' = [fd EXCEPT ![f] = e], UNCHANGED <<call, buf>>
    PROVE  /\ OpenBytes' = [OpenBytes EXCEPT ![f] = FileOf(e)]
           /\ Places' = [Places EXCEPT ![f] = e.offset]
           /\ (fd[f] # None /\ SameFile(fd[f], e)) => OpenBytes' = OpenBytes
<1>1. ~Reading /\ ~Reading' /\ e # None
  BY DisksAssumption DEF Idle, Reading
<1>2. \A g \in Fds : fd'[g] = IF g = f THEN e ELSE fd[g]
  BY DEF Inv
<1>3. e.offset - 0 = e.offset
  BY DescriptorNumbers
<1>4. Places = [g \in Fds |-> IF fd[g] = None THEN 0 ELSE fd[g].offset - 0]
  BY <1>1 DEF Places, PosOf
<1>5. Places' = [Places EXCEPT ![f] = e.offset]
  <2>1. Places' = [g \in Fds |-> IF fd'[g] = None THEN 0 ELSE fd'[g].offset - 0]
    BY <1>1 DEF Places, PosOf
  <2> QED BY <1>1, <1>2, <1>3, <1>4, <2>1
<1>6. OpenBytes' = [OpenBytes EXCEPT ![f] = FileOf(e)]
  <2>1. OpenBytes' = [g \in Fds |-> IF fd'[g] = None THEN None ELSE FileOf(fd'[g])]
    BY DEF OpenBytes, FileOf
  <2>2. [OpenBytes EXCEPT ![f] = FileOf(e)]
          = [g \in Fds |-> IF fd'[g] = None THEN None ELSE FileOf(fd'[g])]
    BY <1>1, <1>2 DEF OpenBytes
  <2> QED BY <2>1, <2>2
<1>7. (fd[f] # None /\ SameFile(fd[f], e)) => OpenBytes' = OpenBytes
  <2> SUFFICES ASSUME fd[f] # None, SameFile(fd[f], e) PROVE OpenBytes' = OpenBytes
    OBVIOUS
  <2>1. FileOf(e) = FileOf(fd[f])
    BY SameFileFacts
  <2>2. \A g \in Fds : (IF fd'[g] = None THEN None ELSE FileOf(fd'[g]))
                          = IF fd[g] = None THEN None ELSE FileOf(fd[g])
    BY <1>1, <1>2, <2>1
  <2> QED BY <2>2 DEF OpenBytes
<1> QED BY <1>5, <1>6, <1>7

LEMMA NoFileMoves ==
    ASSUME UNCHANGED <<fd, call, buf>>
    PROVE  OpenBytes' = OpenBytes /\ Places' = Places
BY DEF OpenBytes, Places, PosOf, Reading

LEMMA SetDefaultDriveNoRefines ==
    ASSUME NEW d \in Drives, SetDefaultDriveNo(d)
    PROVE  Files!SetDrive(d)
<1>1. OpenBytes' = OpenBytes /\ Places' = Places
  BY NoFileMoves DEF SetDefaultDriveNo
<1> QED BY <1>1 DEF SetDefaultDriveNo, Files!SetDrive, OpenBytes, Places, Done

LEMMA OpenFileRefines ==
    ASSUME Inv, NEW f \in Fds, NEW n \in DirNames, OpenFile(f, n)
    PROVE  Files!Open(f, n)
<1> DEFINE Opens(e, d) ==
               /\ Typed(d) /\ Positioned(d) /\ d.offset = 0
               /\ d.drive = curDriveNo
               /\ d.firstGran = Disks[curDriveNo].dir[e].gran
               /\ d.lastBytes = Disks[curDriveNo].dir[e].lastBytes
               /\ Idle /\ fd' = [fd EXCEPT ![f] = d] /\ UpdateFAT
               /\ UNCHANGED <<curDriveNo, call, buf>>
               /\ reply' = Done("open", TRUE)
<1>0. PICK e \in Matches(Disks[curDriveNo].dir, n) : \E d : Opens(e, d)
  BY OpenedDescriptor
<1>1. PICK d : Opens(e, d)
  BY <1>0
<1>2. FileOn(curDriveNo, n) = FileOf(d)
  <2>1. (CHOOSE x \in Matches(Disks[curDriveNo].dir, n) : TRUE) = e
    BY OneMatch
  <2> QED BY <1>1, <2>1 DEF FileOn, FileOf, FileContents
<1>3. FileOf(d) # None /\ d \in FileDesc
  BY <1>1, FileIsNotNone DEF Positioned, Typed
<1>4. OpenBytes' = [OpenBytes EXCEPT ![f] = FileOf(d)] /\ Places' = [Places EXCEPT ![f] = 0]
  BY <1>1, <1>3, OneFileMoves
<1>5. reply' = [op |-> "open", ok |-> TRUE] /\ curDriveNo' = curDriveNo
  BY <1>1 DEF Done
<1> QED BY <1>2, <1>3, <1>4, <1>5 DEF Files!Open, OpenBytes, Places

\* An open file, to the program.
LEMMA OpenFileFacts ==
    ASSUME Inv, Working, NEW f \in Fds, fd[f] # None
    PROVE  /\ OpenBytes[f] = FileOf(fd[f]) /\ OpenBytes[f] # None
           /\ Len(OpenBytes[f]) = fd[f].length
           /\ ComputedLength(TableOf(fd[f]), fd[f].firstGran, fd[f].lastBytes) = fd[f].length
<1>1. Positioned(fd[f])
  BY Found
<1>2. OpenBytes[f] = FileOf(fd[f])
  BY DEF OpenBytes
<1> QED BY <1>1, <1>2, FileIsNotNone, FileBytes DEF Positioned

LEMMA RewindRefines ==
    ASSUME Inv, NEW f \in Fds, Rewind(f)
    PROVE  Files!Rewind(f)
<1> DEFINE e == Rewound(fd[f])
<1>1. Idle /\ Working /\ fd[f] # None
  BY DEF Rewind, Usable, Idle, Working
<1>2. fd[f] \in FileDesc /\ OfAnEntry(fd[f]) /\ fd[f].length = Len(FileOf(fd[f]))
  BY <1>1, Found DEF Positioned
<1>3. e \in FileDesc /\ SameFile(fd[f], e) /\ e.offset = 0
  BY <1>2, RewoundPositioned DEF Typed
<1>4. /\ fd' = [fd EXCEPT ![f] = e] /\ UNCHANGED <<curDriveNo, call, buf>>
      /\ reply' = [op |-> "rewind", ok |-> TRUE]
  BY DEF Rewind, Done
<1> HIDE DEF e
<1>5. OpenBytes' = OpenBytes /\ Places' = [Places EXCEPT ![f] = 0]
  BY <1>1, <1>3, <1>4, OneFileMoves
<1>6. OpenBytes[f] # None
  BY <1>1, OpenFileFacts
<1> QED BY <1>4, <1>5, <1>6 DEF Files!Rewind, OpenBytes, Places

LEMMA SeekRefines ==
    ASSUME Inv, SeeksEnds = FALSE, NEW f \in Fds, NEW p \in Positions, Seek(f, p)
    PROVE  Files!Seek(f, p)
<1>1. PICK e :
          /\ Idle /\ fd[f] # None /\ SameFile(fd[f], e) /\ Typed(e)
          /\ e.offset = IF p > fd[f].length THEN fd[f].length ELSE p
          /\ fd' = [fd EXCEPT ![f] = e]
          /\ UNCHANGED <<curDriveNo, call, buf>>
          /\ reply' = Done("seek", TRUE)
  BY SeekPosition
<1>2. Working /\ e \in FileDesc /\ reply' = [op |-> "seek", ok |-> TRUE]
  BY <1>1 DEF Idle, Working, Typed, Done
<1>3. OpenBytes[f] # None /\ Len(OpenBytes[f]) = fd[f].length
  BY <1>1, <1>2, OpenFileFacts
<1>4. OpenBytes' = OpenBytes /\ Places' = [Places EXCEPT ![f] = e.offset]
  BY <1>1, <1>2, OneFileMoves
<1>5. Places' = [Places EXCEPT ![f] = IF p > Len(OpenBytes[f]) THEN Len(OpenBytes[f]) ELSE p]
  BY <1>1, <1>3, <1>4
<1>6. curDriveNo' = curDriveNo
  BY <1>1
<1> QED BY <1>2, <1>3, <1>4, <1>5, <1>6 DEF Files!Seek, OpenBytes, Places

LEMMA GetFileLengthRefines ==
    ASSUME Inv, NEW f \in Fds, GetFileLength(f)
    PROVE  Files!Length(f)
<1>1. Working /\ fd[f] # None /\ fd[f].drive = curDriveNo
  BY DEF GetFileLength, Usable, Idle, Working
<1>2. TheFAT = TableOf(fd[f])
  BY <1>1, TableRead DEF Inv, TableOf
<1>3. OpenBytes[f] # None /\ reply' = [op |-> "length", length |-> Len(OpenBytes[f])]
  BY <1>1, <1>2, OpenFileFacts DEF GetFileLength
<1>4. OpenBytes' = OpenBytes /\ Places' = Places /\ curDriveNo' = curDriveNo
  BY NoFileMoves DEF GetFileLength
<1> QED BY <1>3, <1>4 DEF Files!Length, OpenBytes, Places

LEMMA TableUnreadableRefines ==
    ASSUME Inv, NEW f \in Fds, TableUnreadable(f)
    PROVE  Files!NothingDone(f)
<1>1. Working /\ fd[f] # None
  BY DEF TableUnreadable, Usable, Idle, Working
<1>2. OpenBytes[f] # None
  BY <1>1, OpenFileFacts
<1>3. OpenBytes' = OpenBytes /\ Places' = Places /\ curDriveNo' = curDriveNo
  BY NoFileMoves DEF TableUnreadable
<1>4. reply' \in {[op |-> "rewind", ok |-> TRUE], [op |-> "seek", ok |-> FALSE],
                  [op |-> "length", ok |-> FALSE]}
  BY DEF TableUnreadable, Done
<1> QED BY <1>2, <1>3, <1>4 DEF Files!NothingDone, OpenBytes, Places

LEMMA OpenFileFailsRefines ==
    ASSUME OpenFileFails
    PROVE  Files!OpenFails
<1>1. OpenBytes' = OpenBytes /\ Places' = Places /\ curDriveNo' = curDriveNo
  BY NoFileMoves DEF OpenFileFails
<1> QED BY <1>1 DEF OpenFileFails, Done, Files!OpenFails, OpenBytes, Places

\* The program sees a read() when it returns.
LEMMA BeginReadStutters ==
    ASSUME Inv, NEW f \in Fds, NEW n \in Sizes, BeginRead(f, n)
    PROVE  UNCHANGED <<curDriveNo, OpenBytes, Places, reply>>
<1>1. /\ ~Reading /\ Working /\ fd[f] # None /\ Reading' /\ call'.f = f
      /\ UNCHANGED <<curDriveNo, fd, buf, reply>>
  BY DEF BeginRead, Usable, Idle, Working, Reading, ReadCall
<1>2. buf = <<>> /\ Len(buf) = 0
  BY <1>1, EmptySeq DEF Inv, CallInv
<1>3. fd[f].offset \in Nat
  BY <1>1, Found, DescriptorNumbers
<1>4. Places = [g \in Fds |-> IF fd[g] = None THEN 0 ELSE fd[g].offset - 0]
  BY <1>1 DEF Places, PosOf
<1>5. Places' = [g \in Fds |-> IF fd[g] = None THEN 0 ELSE fd[g].offset - 0]
  BY <1>1, <1>2 DEF Places, PosOf
<1>6. OpenBytes' = OpenBytes
  BY <1>1 DEF OpenBytes
<1> QED BY <1>1, <1>4, <1>5, <1>6

LEMMA GetNextSectorStutters ==
    ASSUME Inv, GetNextSector
    PROVE  UNCHANGED <<curDriveNo, OpenBytes, Places, reply>>
<1>1. PICK e, k : NextLoaded(e, k)
  BY GetNextSectorLoads
<1>2. /\ Reading /\ call.f \in Fds /\ Current # None /\ fd[call.f] = Current
      /\ Len(buf) \in Nat /\ Current.offset \in Nat
  BY ReadOn DEF GetNextSector
<1>3. /\ e \in FileDesc /\ SameFile(Current, e) /\ k \in Nat
      /\ e.offset = Current.offset + k /\ Len(buf') = Len(buf) + k
      /\ fd' = [fd EXCEPT ![call.f] = e]
      /\ Reading' /\ call'.f = call.f
      /\ UNCHANGED <<curDriveNo, reply>>
  BY <1>1 DEF NextLoaded, ReadCall, Reading
<1>4. \A g \in Fds : fd'[g] = IF g = call.f THEN e ELSE fd[g]
  BY <1>3 DEF Inv
<1>5. e # None
  BY <1>3, DisksAssumption
<1>6. OpenBytes' = OpenBytes
  <2>1. FileOf(e) = FileOf(Current)
    BY <1>3, SameFileFacts
  <2>2. OpenBytes' = [g \in Fds |-> IF fd'[g] = None THEN None ELSE FileOf(fd'[g])]
    BY DEF OpenBytes, FileOf
  <2>3. OpenBytes = [g \in Fds |-> IF fd'[g] = None THEN None ELSE FileOf(fd'[g])]
    BY <1>2, <1>4, <1>5, <2>1 DEF OpenBytes
  <2> QED BY <2>2, <2>3
<1>7. Places' = Places
  <2>1. e.offset - Len(buf') = Current.offset - Len(buf)
    BY <1>2, <1>3
  <2>2. Places' = [g \in Fds |-> IF fd'[g] = None THEN 0
                                 ELSE fd'[g].offset - (IF g = call.f THEN Len(buf') ELSE 0)]
    BY <1>3 DEF Places, PosOf
  <2>3. Places = [g \in Fds |-> IF fd[g] = None THEN 0
                                ELSE fd[g].offset - (IF g = call.f THEN Len(buf) ELSE 0)]
    BY <1>2 DEF Places, PosOf
  <2>4. \A g \in Fds : (IF fd'[g] = None THEN 0
                        ELSE fd'[g].offset - (IF g = call.f THEN Len(buf') ELSE 0))
                     = (IF fd[g] = None THEN 0
                        ELSE fd[g].offset - (IF g = call.f THEN Len(buf) ELSE 0))
    <3> SUFFICES ASSUME NEW g \in Fds
                 PROVE  (IF fd'[g] = None THEN 0
                         ELSE fd'[g].offset - (IF g = call.f THEN Len(buf') ELSE 0))
                      = (IF fd[g] = None THEN 0
                         ELSE fd[g].offset - (IF g = call.f THEN Len(buf) ELSE 0))
      OBVIOUS
    <3>1. CASE g = call.f
      BY <1>2, <1>4, <1>5, <2>1, <3>1
    <3>2. CASE g # call.f
      BY <1>4, <3>2
    <3> QED BY <3>1, <3>2
  <2> QED BY <2>2, <2>3, <2>4
<1> QED BY <1>3, <1>6, <1>7

\* The first n elements of t are those of s behind the first a.
StartsAs(t, s, a, n) == \A j \in 1..n : t[j] = s[a + j]

LEMMA SamePrefix ==
    ASSUME NEW S, NEW s \in Seq(S), NEW t \in Seq(S), NEW a \in Nat, NEW n \in Nat,
           n <= Len(t), a + n <= Len(s), StartsAs(t, s, a, n)
    PROVE  SubSeq(t, 1, n) = Slice(s, a, n)
<1> DEFINE z == 0
<1>1. z \in Nat /\ z + n <= Len(t) /\ z + 1 = 1 /\ z + n = n /\ \A j \in 1..n : z + j = j
  OBVIOUS
<1> HIDE DEF z
<1>2. SameElements(t, z, s, a, n)
  BY <1>1 DEF SameElements, StartsAs
<1>3. Slice(t, z, n) = Slice(s, a, n)
  BY <1>1, <1>2, SameSlice
<1> QED BY <1>1, <1>3 DEF Slice

\* The bytes from a position on, and the first k of them.
LEMMA RestOfFile ==
    ASSUME NEW S, NEW s \in Seq(S), NEW a \in Nat, a <= Len(s),
           NEW rest, rest = SubSeq(s, a + 1, Len(s))
    PROVE  /\ Len(rest) \in Nat /\ a + Len(rest) = Len(s)
           /\ \A k \in 0..Len(rest) : SubSeq(rest, 1, k) = Slice(s, a, k)
<1> DEFINE m == Len(s) - a
<1>1. m \in Nat /\ a + m = Len(s) /\ Len(s) \in Nat
  BY LenProperties
<1>2. rest = Slice(s, a, m)
  BY <1>1 DEF Slice
<1> HIDE DEF m
<1>3. rest \in Seq(S) /\ Len(rest) = m /\ \A j \in 1..m : rest[j] = s[a + j]
  <2>1. a + m <= Len(s) /\ m \in Nat
    BY <1>1
  <2>2. Slice(s, a, m) \in Seq(S) /\ Len(Slice(s, a, m)) = m
    BY <2>1, SliceLength
  <2>3. \A j \in 1..m : Slice(s, a, m)[j] = s[a + j]
    BY <2>1, SliceLength
  <2> QED BY <1>2, <2>2, <2>3
<1>4. ASSUME NEW k \in 0..m PROVE SubSeq(rest, 1, k) = Slice(s, a, k)
  <2>1. k \in Nat /\ k <= Len(rest) /\ a + k <= Len(s)
    BY <1>1, <1>3
  <2>2. StartsAs(rest, s, a, k)
    <3>1. \A j \in 1..k : j \in 1..m
      BY <1>1
    <3> QED BY <1>3, <3>1 DEF StartsAs
  <2> QED BY <1>3, <2>1, <2>2, SamePrefix
<1> QED BY <1>1, <1>3, <1>4

LEMMA ReadRefines ==
    ASSUME Inv, Reading, NEW e, NEW k, NEW failed, Returned(e, k, failed)
    PROVE  \E f \in Fds, n \in Sizes : Files!Read(f, n)
<1> DEFINE d    == Current
           F    == FileOf(d)
           m    == Len(buf)
           at   == d.offset - m
           all  == m + k
           f    == call.f
           n    == m + call.left
           rest == SubSeq(F, at + 1, Len(F))
<1>1. /\ Working /\ f \in Fds /\ fd[f] = d /\ d # None
      /\ call.left \in Nat /\ m \in Nat /\ m <= d.offset /\ d.offset \in Nat /\ n \in Sizes
      /\ F \in Seq(Bytes) /\ Len(F) \in Nat
  BY ReadOn
<1>2. /\ k \in Nat /\ k <= call.left /\ d.offset + k <= Len(F) /\ failed \in BOOLEAN
      /\ ~failed => k = call.left \/ d.offset + k = Len(F)
      /\ e \in FileDesc /\ SameFile(d, e) /\ e.offset = d.offset + k
      /\ fd' = [fd EXCEPT ![f] = e]
      /\ reply' = [op |-> "read", bytes |-> Slice(F, at, all), failed |-> failed]
      /\ curDriveNo' = curDriveNo
      /\ call' \in {NoCall, Stopped}
  BY DEF Returned
<1>3. ~Reading' /\ e # None
  <2>1. CASE call' = NoCall
    BY <2>1, <1>2, DisksAssumption DEF NoCall, Reading
  <2>2. CASE call' = Stopped
    BY <2>2, <1>2, DisksAssumption DEF Stopped, Reading
  <2> QED BY <1>2, <2>1, <2>2
<1>4. \A g \in Fds : fd'[g] = IF g = f THEN e ELSE fd[g]
  BY <1>2 DEF Inv
<1>5. FileOf(e) = F
  BY <1>2, SameFileFacts
<1>6. OpenBytes[f] = F /\ F # None
  BY <1>1, OpenFileFacts
<1>7. Places[f] = at
  BY <1>1 DEF Places, PosOf, Reading
<1> HIDE DEF d, F
<1>8. OpenBytes' = OpenBytes
  <2>1. OpenBytes' = [g \in Fds |-> IF fd'[g] = None THEN None ELSE FileOf(fd'[g])]
    BY DEF OpenBytes, FileOf
  <2>2. OpenBytes = [g \in Fds |-> IF fd'[g] = None THEN None ELSE FileOf(fd'[g])]
    BY <1>1, <1>3, <1>4, <1>5 DEF OpenBytes, F
  <2> QED BY <2>1, <2>2
<1>9. Places' = [Places EXCEPT ![f] = Places[f] + all]
  <2>1. at + all = e.offset - 0
    BY <1>1, <1>2
  <2>2. Places' = [g \in Fds |-> IF fd'[g] = None THEN 0 ELSE fd'[g].offset - 0]
    BY <1>3 DEF Places, PosOf
  <2>3. Places = [g \in Fds |-> IF fd[g] = None THEN 0
                                ELSE fd[g].offset - (IF g = f THEN m ELSE 0)]
    BY DEF Places, PosOf, Reading
  <2> HIDE DEF at, all, m, f
  <2>4. ASSUME NEW g \in Fds
        PROVE  (IF fd'[g] = None THEN 0 ELSE fd'[g].offset - 0)
                 = IF g = f THEN at + all
                   ELSE IF fd[g] = None THEN 0 ELSE fd[g].offset - (IF g = f THEN m ELSE 0)
    <3>1. CASE g = f
      <4>1. fd'[g] = e
        BY <1>4, <3>1
      <4> QED BY <1>3, <2>1, <3>1, <4>1
    <3>2. CASE g # f
      <4>1. fd'[g] = fd[g]
        BY <1>4, <3>2
      <4> QED BY <3>2, <4>1
    <3> QED BY <3>1, <3>2
  <2>5. Places' = [g \in Fds |-> IF g = f THEN at + all
                                 ELSE IF fd[g] = None THEN 0
                                 ELSE fd[g].offset - (IF g = f THEN m ELSE 0)]
    BY <2>2, <2>4
  <2> QED BY <1>1, <1>7, <2>3, <2>5
<1>10. at \in Nat /\ at <= Len(F) /\ all \in Nat /\ at + all <= Len(F) /\ all <= n
  BY <1>1, <1>2
<1>11. /\ Len(rest) \in Nat /\ at + Len(rest) = Len(F)
       /\ \A j \in 0..Len(rest) : SubSeq(rest, 1, j) = Slice(F, at, j)
  <2>1. rest = SubSeq(F, at + 1, Len(F))
    OBVIOUS
  <2> HIDE DEF rest, at
  <2> QED BY <1>1, <1>10, <2>1, RestOfFile
<1>12. all \in 0..Len(rest) /\ (failed \/ all = n \/ all = Len(rest))
  <2> HIDE DEF rest
  <2>1. all <= Len(rest)
    BY <1>10, <1>11
  <2>2. k = call.left => all = n
    OBVIOUS
  <2>3. d.offset + k = Len(F) => all = Len(rest)
    BY <1>1, <1>2, <1>11
  <2> QED BY <1>2, <1>10, <1>11, <2>1, <2>2, <2>3
<1>13. reply' = [op |-> "read", bytes |-> SubSeq(rest, 1, all), failed |-> failed]
  BY <1>2, <1>11, <1>12
<1> HIDE DEF at, all, n, f
<1>14. rest = SubSeq(OpenBytes[f], Places[f] + 1, Len(OpenBytes[f]))
  BY <1>6, <1>7
<1> HIDE DEF rest
<1>15. Files!Read(f, n)
  <2>1. rest = Files!Rest(f)
    BY <1>14 DEF Files!Rest, OpenBytes, Places
  <2>2. OpenBytes[f] # None
    BY <1>6
  <2>3. /\ failed \in BOOLEAN /\ all \in 0..Len(Files!Rest(f)) /\ all <= n
        /\ failed \/ all = n \/ all = Len(Files!Rest(f))
        /\ reply' = [op |-> "read", bytes |-> SubSeq(Files!Rest(f), 1, all), failed |-> failed]
    BY <1>2, <1>10, <1>12, <1>13, <2>1
  <2> QED BY <1>2, <1>8, <1>9, <2>2, <2>3 DEF Files!Read, OpenBytes, Places
<1> QED BY <1>1, <1>15 DEF f, n

LEMMA StutterRefines ==
    ASSUME UNCHANGED <<curDriveNo, OpenBytes, Places, reply>>
    PROVE  UNCHANGED Files!fileVars
BY DEF Files!fileVars, OpenBytes, Places

LEMMA StepRefines ==
    ASSUME ForgetsFAT = TRUE, SeeksEnds = FALSE, Inv, [Next]_vars
    PROVE  [Files!FileNext]_(Files!fileVars)
<1> USE DEF Files!FileNext
<1>1. ASSUME NEW d \in Drives, SetDefaultDriveNo(d) PROVE Files!FileNext
  BY <1>1, SetDefaultDriveNoRefines
<1>2. CASE OpenFileFails
  BY <1>2, OpenFileFailsRefines
<1>3. ASSUME NEW f \in Fds, NEW n \in DirNames, OpenFile(f, n) PROVE Files!FileNext
  BY <1>3, OpenFileRefines
<1>4. ASSUME NEW f \in Fds, NEW n \in Sizes, BeginRead(f, n) PROVE UNCHANGED Files!fileVars
  BY <1>4, BeginReadStutters, StutterRefines
<1>5. ASSUME NEW f \in Fds, NEW p \in Positions, Seek(f, p) PROVE Files!FileNext
  BY <1>5, SeekRefines
<1>6. ASSUME NEW f \in Fds, Rewind(f) PROVE Files!FileNext
  BY <1>6, RewindRefines
<1>7. ASSUME NEW f \in Fds, GetFileLength(f) PROVE Files!FileNext
  BY <1>7, GetFileLengthRefines
<1>8. ASSUME NEW f \in Fds, TableUnreadable(f) PROVE Files!FileNext
  BY <1>8, TableUnreadableRefines
<1>9. CASE FinishRead \/ ReachEOF \/ SectorUnreadable \/ TableLost
  <2>1. Reading
    BY <1>9 DEF FinishRead, ReachEOF, SectorUnreadable, TableLost
  <2>2. \E e, k, failed : Returned(e, k, failed)
    BY <1>9, FinishReadReturns, GivingUpReturns, TableLostReturns
  <2>3. \E f \in Fds, n \in Sizes : Files!Read(f, n)
    BY <2>1, <2>2, ReadRefines
  <2> QED BY <2>3
<1>10. CASE GetNextSector
  BY <1>10, GetNextSectorStutters, StutterRefines
<1>11. CASE UNCHANGED vars
  <2>1. UNCHANGED <<curDriveNo, OpenBytes, Places, reply>>
    BY <1>11, NoFileMoves DEF vars
  <2> QED BY <2>1, StutterRefines
<1> QED BY <1>1, <1>2, <1>3, <1>4, <1>5, <1>6, <1>7, <1>8, <1>9, <1>10, <1>11 DEF Next, ReadStep

(* To the program, the open files are those of RandomAccessFiles: a read(), of *)
(* as many sectors as it takes, returns the bytes from the position on, up to  *)
(* the end of the file or where the disk fails, and moves the position by as   *)
(* many; seek() and rewind() set the position, and no call touches another     *)
(* file.                                                                       *)
THEOREM ImplementsRandomAccess ==
    ASSUME ForgetsFAT = TRUE, SeeksEnds = FALSE
    PROVE  Spec => IsRandomAccess
<1>1. Inv /\ [Next]_vars => [Files!FileNext]_(Files!fileVars)
  BY StepRefines
<1> QED BY <1>1, Invariance, PTL DEF Spec, IsRandomAccess
==============================================================================
