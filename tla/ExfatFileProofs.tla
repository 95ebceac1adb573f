-------------------------- MODULE ExfatFileProofs --------------------------
(***************************************************************************)
(* Theorems about the files of an exFAT directory, for any volume, number  *)
(* of files and slots, and bounds on their sizes: what the cluster         *)
(* allocator does, the inductive invariant of the two records of a file    *)
(* and its chain, the properties that follow from it, and that the driver  *)
(* implements ExfatFileSpec.  They are about files that are not used after *)
(* they are unlinked and about copies of entries that do not fail          *)
(* (Ordinary): with either the model violates the invariant.               *)
(*                                                                         *)
(* What a walk along the FAT visits is proved without induction: a         *)
(* position at which it leaves the chain would have a least one.           *)
(***************************************************************************)
EXTENDS ExfatFile, FiniteSetTheorems, SequenceTheorems, WellFoundedInduction, TLAPS

-------------------------------------------------------------------------------
(* The walk along the FAT *)

LEMMA MinIsLeast ==
  ASSUME NEW S, S \subseteq Nat, S # {}
  PROVE  Min(S) \in S /\ \A y \in S : Min(S) <= y
  <1> DEFINE R == {ss \in Nat \X Nat : ss[1] < ss[2]}
  <1>1. OpToRel(<, Nat) = R
    BY DEF OpToRel
  <1>2. IsWellFoundedOn(R, Nat)
    BY <1>1, NatLessThanWellFounded
  <1> HIDE DEF R
  <1>3. \E x \in S : \A y \in S : ~(<<y, x>> \in R)
    BY <1>2, WFMin
  <1>4. PICK x \in S : \A y \in S : ~(<<y, x>> \in R)
    BY <1>3
  <1>5. ASSUME NEW y \in S PROVE x <= y
    <2>1. x \in Nat /\ y \in Nat /\ <<y, x>> \notin R
      BY <1>4, <1>5
    <2>2. <<y, x>> \in Nat \X Nat /\ <<y, x>>[1] = y /\ <<y, x>>[2] = x
      BY <2>1
    <2>3. ~(y < x)
      BY <2>1, <2>2 DEF R
    <2> QED BY <2>1, <2>3
  <1> QED BY <1>5 DEF Min

\* The recursion of Walk has a solution, so that Walk is one.
LEMMA WalkIs ==
  ASSUME NEW t, NEW c
  PROVE  Walk(t, c) = [k \in 0 .. NumClusters |->
                         IF k = 0 THEN c ELSE FAT_read(t, Walk(t, c)[k - 1])]
  <1> DEFINE Loop(w) == [k \in 0 .. NumClusters |-> IF k = 0 THEN c ELSE FAT_read(t, w[k - 1])]
             Goes(w, n) == \A k \in 0 .. n : w[k] = IF k = 0 THEN c ELSE FAT_read(t, w[k - 1])
             Bad == {n \in Nat : ~ \E w : Goes(w, n)}
  <1>1. Bad = {}
    <2> SUFFICES ASSUME Bad # {} PROVE FALSE
      OBVIOUS
    <2>1. PICK m \in Bad : \A n \in Bad : m <= n
      BY MinIsLeast
    <2>2. CASE m = 0
      <3>1. Goes([k \in {0} |-> c], 0)
        OBVIOUS
      <3> QED BY <2>1, <2>2, <3>1
    <2>3. CASE m # 0
      <3>1. m - 1 \in Nat /\ m - 1 \notin Bad
        BY <2>1, <2>3
      <3>2. PICK w : Goes(w, m - 1)
        BY <3>1
      <3> DEFINE v == [k \in 0 .. m |-> IF k = m THEN FAT_read(t, w[m - 1]) ELSE w[k]]
      <3>3. \A k \in 0 .. m : v[k] = IF k = 0 THEN c ELSE FAT_read(t, v[k - 1])
        BY <2>1, <2>3, <3>1, <3>2
      <3> QED BY <2>1, <3>3
    <2> QED BY <2>2, <2>3
  <1>2. NumClusters \in Nat
    BY ClustersAssumption
  <1>3. PICK w : Goes(w, NumClusters)
    BY <1>1, <1>2
  <1> DEFINE v == [k \in 0 .. NumClusters |-> w[k]]
  <1>4. v = Loop(v)
    BY <1>2, <1>3
  <1> HIDE DEF v
  <1>5. Walk(t, c) = CHOOSE x : x = Loop(x)
    BY DEF Walk
  <1> HIDE DEF Loop
  <1>6. Walk(t, c) = Loop(Walk(t, c))
    BY <1>4, <1>5
  <1> QED BY <1>6 DEF Loop

LEMMA WalkSteps ==
  ASSUME NEW t, NEW c
  PROVE  /\ Walk(t, c)[0] = c
         /\ \A k \in 0 .. (NumClusters - 1) : Walk(t, c)[k + 1] = FAT_read(t, Walk(t, c)[k])
  <1> DEFINE w == Walk(t, c)
  <1>1. NumClusters \in Nat
    BY ClustersAssumption
  <1>2. w = [k \in 0 .. NumClusters |-> IF k = 0 THEN c ELSE FAT_read(t, w[k - 1])]
    BY WalkIs
  <1> HIDE DEF w
  <1>3. \A k \in 0 .. NumClusters : w[k] = IF k = 0 THEN c ELSE FAT_read(t, w[k - 1])
    BY <1>2
  <1>4. w[0] = c
    BY <1>1, <1>3
  <1>5. ASSUME NEW k \in 0 .. (NumClusters - 1)
        PROVE  w[k + 1] = FAT_read(t, w[k])
    <2>1. k + 1 \in 0 .. NumClusters /\ k + 1 # 0 /\ (k + 1) - 1 = k
      BY <1>1, <1>5
    <2> QED BY <1>3, <2>1
  <1> QED BY <1>4, <1>5 DEF w

\* Whatever is linked from c is what is walked.
Follows(t, s, n) == \A k \in 0 .. (n - 1) : s[k + 1] = FAT_read(t, s[k])

LEMMA WalkFollows ==
  ASSUME NEW t, NEW s, NEW n \in 0 .. NumClusters, Follows(t, s, n)
  PROVE  \A k \in 0 .. n : Walk(t, s[0])[k] = s[k]
  <1> DEFINE Bad == {k \in 0 .. n : Walk(t, s[0])[k] # s[k]}
  <1>0. NumClusters \in Nat
    BY ClustersAssumption
  <1> SUFFICES ASSUME Bad # {} PROVE FALSE
    OBVIOUS
  <1>1. PICK m \in Bad : \A k \in Bad : m <= k
    <2>1. Bad \subseteq Nat
      BY <1>0
    <2> HIDE DEF Bad
    <2> QED BY <2>1, MinIsLeast
  <1>2. m # 0
    BY <1>1, WalkSteps
  <1>3. m - 1 \in 0 .. n /\ m - 1 \notin Bad /\ m - 1 \in 0 .. (n - 1) /\ (m - 1) + 1 = m
        /\ m - 1 \in 0 .. (NumClusters - 1)
    BY <1>0, <1>1, <1>2
  <1>4. Walk(t, s[0])[m - 1] = s[m - 1]
    BY <1>3
  <1>5. Walk(t, s[0])[m] = FAT_read(t, Walk(t, s[0])[m - 1])
    BY <1>3, WalkSteps
  <1>6. s[m] = FAT_read(t, s[m - 1])
    BY <1>3 DEF Follows
  <1> QED BY <1>1, <1>4, <1>5, <1>6

LEMMA WalkSuffix ==
  ASSUME NEW t, NEW c, NEW m \in 0 .. NumClusters, NEW k \in 0 .. (NumClusters - m)
  PROVE  Walk(t, Walk(t, c)[m])[k] = Walk(t, c)[m + k]
  <1>0. NumClusters \in Nat
    BY ClustersAssumption
  <1> DEFINE s == [j \in 0 .. (NumClusters - m) |-> Walk(t, c)[m + j]]
  <1>1. NumClusters - m \in 0 .. NumClusters
    BY <1>0
  <1>a. ASSUME NEW j \in 0 .. ((NumClusters - m) - 1)
        PROVE  s[j + 1] = FAT_read(t, s[j])
    <2>1. /\ j \in 0 .. (NumClusters - m) /\ j + 1 \in 0 .. (NumClusters - m)
          /\ m + j \in 0 .. (NumClusters - 1) /\ m + (j + 1) = (m + j) + 1
      BY <1>0, <1>a
    <2> QED BY <2>1, WalkSteps
  <1>2. Follows(t, s, NumClusters - m)
    BY <1>a DEF Follows
  <1>3. s[0] = Walk(t, c)[m] /\ s[k] = Walk(t, c)[m + k]
    BY <1>0
  <1> HIDE DEF s
  <1>4. \A j \in 0 .. (NumClusters - m) : Walk(t, s[0])[j] = s[j]
    BY <1>1, <1>2, WalkFollows
  <1> QED BY <1>3, <1>4

LEMMA WalkTyped ==
  ASSUME NEW t \in [Clusters -> Clusters \cup {0, Eof}], NEW c \in Clusters
  PROVE  \A k \in 0 .. NumClusters : Walk(t, c)[k] \in Clusters \cup {0, Eof}
  <1>0. NumClusters \in Nat
    BY ClustersAssumption
  <1>1. ASSUME NEW k \in 0 .. NumClusters, k # 0
        PROVE  Walk(t, c)[k] \in Clusters \cup {0, Eof}
    <2>1. k - 1 \in 0 .. (NumClusters - 1) /\ (k - 1) + 1 = k
      BY <1>0, <1>1
    <2>2. Walk(t, c)[k] = FAT_read(t, Walk(t, c)[k - 1])
      BY <2>1, WalkSteps
    <2> QED BY <2>2 DEF FAT_read
  <1> QED BY <1>1, WalkSteps

-------------------------------------------------------------------------------
(* What an inode and its chain must be *)

\* What a lookup makes of an entry.
FromEntry(slot) ==
  LET e == entry[slot]
  IN [Absent("cached", slot) EXCEPT
        !.isize = e.size, !.mmu = e.size,
        !.flags = IF e.size = 0 THEN Contiguous ELSE e.flags,
        !.start = IF e.size = 0 THEN Eof ELSE e.clu0]

\* The inode of a file, or the one a lookup would make.
Inode(f) == IF ino[f].st = "evicted" THEN FromEntry(ino[f].slot) ELSE ino[f]

\* The k-th cluster of a chain, how many it has, and which.
Cell(t, i, k) == IF i.flags = Contiguous THEN i.start + k ELSE Walk(t, i.start)[k]
Has(t, i) ==
  IF i.start = Eof THEN 0
  ELSE IF i.flags = Contiguous THEN IF i.mmu = 0 THEN 1 ELSE i.mmu
  ELSE IF Walk(t, i.start)[i.isize] = Eof THEN i.isize ELSE i.isize + 1
Held(t, i) == {Cell(t, i, k) : k \in 0 .. (Has(t, i) - 1)}

\* A chain is as long as the file, or longer by one cluster that a failed write
\* has left; its clusters differ; a linked one ends behind the last.  The write
\* in progress, the pages and the hint of a linked chain name its clusters.
Sound(t, i) ==
  /\ i.mmu = i.isize + (IF i.at = Eof THEN 0 ELSE 1)
  /\ i.start = Eof => i.isize = 0 /\ i.at = Eof /\ i.flags = Contiguous
  /\ Held(t, i) \subseteq Clusters
  /\ \A j, k \in 0 .. (Has(t, i) - 1) : Cell(t, i, j) = Cell(t, i, k) => j = k
  /\ i.flags = Linked => /\ i.isize > 0 /\ Has(t, i) < NumClusters
                         /\ Walk(t, i.start)[Has(t, i)] = Eof
  /\ i.at # Eof => i.isize < Has(t, i) /\ i.at = Cell(t, i, i.isize)
  /\ \A p \in i.pages : p[1] < i.isize /\ p[2] = Cell(t, i, p[1])
  /\ i.flags = Linked /\ i.hoff > 0 => i.hoff < Has(t, i) /\ i.hclu = Cell(t, i, i.hoff)

\* While a cut is under way the chain is still that of the size before.
Whole(i) == IF i.cut = NoSize THEN i ELSE [i EXCEPT !.isize = i.cut]
Chain(f) == Whole(Inode(f))

\* What an entry says, or will say when the write under way is done, is what the
\* inode was last written to say; the first cluster and the kind of chain are
\* always up to date.  A cut under way has dropped the pages past the new size.
Agrees(e, i, max) ==
  /\ e.size <= max /\ i.wrote <= max
  /\ ~i.dirty /\ i.cut = NoSize => i.isize = IF i.wrote = NoSize THEN e.size ELSE i.wrote
  /\ i.start # Eof => e.clu0 = i.start /\ e.flags = i.flags
  /\ i.cut # NoSize => i.isize < i.cut /\ i.at = Eof /\ \A p \in i.pages : p[1] < i.isize

\* Every file's entry is its own and agrees with its inode.
Placed(f) ==
  /\ ino[f].st = "absent" => ino[f] = Absent("absent", NoEntry)
  /\ ino[f].st = "evicted" => ino[f] = Absent("evicted", ino[f].slot)
  /\ ino[f].st \in {"cached", "evicted"} =>
       ino[f].slot \in Slots /\ entry[ino[f].slot] # NoEntry /\ entry[ino[f].slot].file = f
  /\ ino[f].st = "cached" => Agrees(entry[ino[f].slot], ino[f], MaxSize[f])
  /\ Inode(f).mmu <= MaxSize[f]

Chained ==
  \A f \in Files :
    /\ Sound(fat, Chain(f))
    /\ Held(fat, Chain(f)) \subseteq taken \ Reserved
    /\ \A g \in Files \ {f} : Held(fat, Chain(f)) \cap Held(fat, Chain(g)) = {}

Entries == [file : Files, clu0 : Clusters \cup {0, Eof}, flags : {Linked, Contiguous}, size : Nat]
Inodes == [st : {"absent", "cached", "evicted"}, slot : Slots \cup {NoEntry},
           start : Clusters \cup {Eof}, flags : {Linked, Contiguous},
           isize : Nat, mmu : Nat, hoff : Nat \cup {-1}, hclu : Clusters \cup {Eof},
           dirty : BOOLEAN, wrote : Nat \cup {NoSize}, at : Clusters \cup {Eof},
           cut : Nat \cup {NoSize}, pages : SUBSET (Nat \X Clusters)]

LEMMA Numbers ==
  /\ NumClusters \in Nat /\ NumClusters > 2 /\ Clusters \subseteq Nat
  /\ Eof \notin Clusters /\ 0 \notin Clusters /\ Eof \notin Nat /\ Linked # Contiguous
  /\ Linked \in Nat /\ Contiguous \in Nat /\ Unknown \notin Nat
  /\ Eof \in Int /\ \A c \in Clusters : c \in Int /\ c >= 2
  /\ \A c \in Clusters : c < NumClusters /\ (c + 1 \in Clusters \/ c + 1 = NumClusters)
  /\ \A c \in Int : c \in Clusters <=> 2 <= c /\ c < NumClusters
  BY ClustersAssumption DEF Clusters, Eof, Linked, Contiguous, Unknown

LEMMA ClustersFinite ==
  IsFiniteSet(Clusters) /\ Cardinality(Clusters) = NumClusters - 2
  <1>1. NumClusters - 1 \in Int /\ 2 \in Int /\ NumClusters \in Nat /\ NumClusters > 2
    BY ClustersAssumption
  <1>2. /\ IsFiniteSet(2 .. (NumClusters - 1))
        /\ Cardinality(2 .. (NumClusters - 1)) =
             IF 2 > NumClusters - 1 THEN 0 ELSE (NumClusters - 1) - 2 + 1
    BY <1>1, FS_Interval
  <1> QED BY <1>1, <1>2 DEF Clusters

\* Clusters that differ are no more than the volume has.
LEMMA ChainFits ==
  ASSUME NEW n \in Nat, NEW s, \A k \in 0 .. (n - 1) : s[k] \in Clusters,
         \A j, k \in 0 .. (n - 1) : s[j] = s[k] => j = k
  PROVE  n <= NumClusters - 2
  <1> DEFINE S == 0 .. (n - 1)
             h == [k \in S |-> s[k]]
  <1>1. h \in Injection(S, Clusters)
    BY DEF Injection, IsInjective
  <1>2. Cardinality(S) <= Cardinality(Clusters)
    <2> HIDE DEF h, S
    <2> QED BY <1>1, ClustersFinite, FS_Injection
  <1>3. Cardinality(S) = n
    <2>1. 0 \in Int /\ n - 1 \in Int
      OBVIOUS
    <2>2. Cardinality(0 .. (n - 1)) = IF 0 > n - 1 THEN 0 ELSE (n - 1) - 0 + 1
      BY <2>1, FS_Interval
    <2> QED BY <2>2
  <1> QED BY <1>2, <1>3, ClustersFinite

LEMMA HasNat ==
  ASSUME NEW t, NEW i, i.isize \in Nat, i.mmu \in Nat
  PROVE  Has(t, i) \in Nat
  BY DEF Has

\* What the clusters of a sound chain are, and how many.
LEMMA SoundFacts ==
  ASSUME NEW t, NEW i, i.isize \in Nat, i.start \in Int, Sound(t, i), i.flags \in {Linked, Contiguous}
  PROVE  /\ Has(t, i) \in Nat /\ i.mmu \in Nat
         /\ i.isize <= Has(t, i) /\ i.mmu <= Has(t, i)
         /\ i.start # Eof => /\ Has(t, i) > 0 /\ i.start = Cell(t, i, 0)
                             /\ i.start \in Clusters
         /\ \A k \in 0 .. (Has(t, i) - 1) : Cell(t, i, k) \in Clusters
         /\ Has(t, i) < NumClusters
  <1>1. i.mmu \in Nat /\ i.mmu \in {i.isize, i.isize + 1}
    BY DEF Sound
  <1>2. Has(t, i) \in Nat
    BY <1>1, HasNat
  <1>3. \A k \in 0 .. (Has(t, i) - 1) : Cell(t, i, k) \in Clusters
    BY DEF Sound, Held
  <1>4. Has(t, i) < NumClusters
    <2> DEFINE s == [k \in 0 .. (Has(t, i) - 1) |-> Cell(t, i, k)]
    <2>1. \A k \in 0 .. (Has(t, i) - 1) : s[k] \in Clusters
      BY <1>3
    <2>2. \A j, k \in 0 .. (Has(t, i) - 1) : s[j] = s[k] => j = k
      BY DEF Sound
    <2> HIDE DEF s
    <2>3. Has(t, i) <= NumClusters - 2
      BY <1>2, <2>1, <2>2, ChainFits
    <2> QED BY <1>2, <2>3, Numbers
  <1>5. i.isize <= Has(t, i) /\ i.mmu <= Has(t, i)
    <2>1. CASE i.start = Eof
      BY <1>1, <2>1 DEF Sound, Has
    <2>2. CASE i.start # Eof /\ i.flags = Contiguous
      BY <1>1, <2>2 DEF Sound, Has
    <2>3. CASE i.start # Eof /\ i.flags = Linked
      <3>1. Has(t, i) \in {i.isize, i.isize + 1}
        BY <2>3, Numbers DEF Has
      <3>2. i.at # Eof => i.isize < Has(t, i)
        BY DEF Sound
      <3> QED BY <1>1, <1>2, <3>1, <3>2 DEF Sound
    <2> QED BY <2>1, <2>2, <2>3
  <1>6. i.start # Eof => Has(t, i) > 0
    <2>1. CASE i.start # Eof /\ i.flags = Contiguous
      BY <1>1, <2>1 DEF Has
    <2>2. CASE i.start # Eof /\ i.flags = Linked
      <3>1. i.isize > 0
        BY <2>2 DEF Sound
      <3> QED BY <1>2, <1>5, <3>1
    <2> QED BY <2>1, <2>2
  <1>7. i.start # Eof => i.start = Cell(t, i, 0) /\ i.start \in Clusters
    <2> SUFFICES ASSUME i.start # Eof
                 PROVE  i.start = Cell(t, i, 0) /\ i.start \in Clusters
      OBVIOUS
    <2>1. Cell(t, i, 0) \in Clusters
      BY <1>2, <1>3, <1>6
    <2>2. CASE i.flags = Linked
      BY <2>1, <2>2, WalkSteps, Numbers DEF Cell
    <2>3. CASE i.flags = Contiguous
      <3>1. i.start + 0 \in Clusters
        BY <2>1, <2>3 DEF Cell
      <3>2. i.start = Cell(t, i, 0)
        BY <2>3 DEF Cell
      <3> QED BY <2>1, <3>2
    <2> QED BY <2>2, <2>3
  <1> QED BY <1>1, <1>2, <1>3, <1>4, <1>5, <1>6, <1>7

\* What the lemmas about one inode need of its types.
Shape(i) ==
  /\ i.isize \in Nat /\ i.mmu \in Nat /\ i.start \in Int /\ i.flags \in {Linked, Contiguous}
  /\ i.hoff \in Int /\ \A p \in i.pages : p[1] \in Nat

LEMMA ChainLinks ==
  ASSUME NEW t, NEW i, Shape(i), Sound(t, i), i.flags = Linked
  PROVE  \A k \in 0 .. (Has(t, i) - 1) :
           t[Cell(t, i, k)] = IF k + 1 < Has(t, i) THEN Cell(t, i, k + 1) ELSE Eof
  <1> SUFFICES ASSUME NEW k \in 0 .. (Has(t, i) - 1)
               PROVE  t[Cell(t, i, k)] = IF k + 1 < Has(t, i) THEN Cell(t, i, k + 1) ELSE Eof
    OBVIOUS
  <1>1. Has(t, i) \in Nat /\ Has(t, i) < NumClusters /\ Cell(t, i, k) \in Clusters
    BY SoundFacts DEF Shape
  <1>2. k \in 0 .. (NumClusters - 1) /\ k + 1 \in Nat
    BY <1>1, Numbers
  <1>3. \A m : Cell(t, i, m) = Walk(t, i.start)[m]
    BY Numbers DEF Cell
  <1>4. Cell(t, i, k + 1) = FAT_read(t, Cell(t, i, k))
    BY <1>2, <1>3, WalkSteps
  <1>5. Cell(t, i, k + 1) = t[Cell(t, i, k)]
    BY <1>1, <1>4 DEF FAT_read
  <1>6. CASE k + 1 < Has(t, i)
    BY <1>5, <1>6
  <1>7. CASE ~(k + 1 < Has(t, i))
    <2>1. k + 1 = Has(t, i)
      BY <1>1, <1>7
    <2> QED BY <1>3, <1>5, <1>7, <2>1 DEF Sound
  <1> QED BY <1>6, <1>7

\* What is walked along the clusters s, linked in that order.
LEMMA WalkOf ==
  ASSUME NEW t, NEW n \in Nat, n < NumClusters, NEW s,
         \A k \in 0 .. (n - 1) : s[k] \in Clusters,
         \A k \in 0 .. (n - 1) : t[s[k]] = IF k + 1 < n THEN s[k + 1] ELSE Eof,
         n > 0
  PROVE  /\ Walk(t, s[0])[n] = Eof
         /\ \A k \in 0 .. (n - 1) : Walk(t, s[0])[k] = s[k]
  <1> DEFINE v == [k \in 0 .. n |-> IF k < n THEN s[k] ELSE Eof]
  <1>1. ASSUME NEW k \in 0 .. (n - 1)
        PROVE  v[k + 1] = FAT_read(t, v[k])
    <2>1. v[k] = s[k] /\ s[k] \in Clusters
      OBVIOUS
    <2>2. k + 1 \in 0 .. n /\ v[k + 1] = IF k + 1 < n THEN s[k + 1] ELSE Eof
      OBVIOUS
    <2> QED BY <2>1, <2>2 DEF FAT_read
  <1>2. v[0] = s[0] /\ v[n] = Eof /\ \A k \in 0 .. (n - 1) : v[k] = s[k]
    OBVIOUS
  <1>3. n \in 0 .. NumClusters
    BY Numbers
  <1> HIDE DEF v
  <1>5. Follows(t, v, n)
    BY <1>1 DEF Follows
  <1>4. \A k \in 0 .. n : Walk(t, v[0])[k] = v[k]
    BY <1>3, <1>5, WalkFollows
  <1> QED BY <1>2, <1>4

\* The n clusters s, linked or in a row, are a sound chain of the inode.
Spells(t, i, s, n) ==
  /\ i.start # Eof /\ s[0] = i.start
  /\ \A k \in 0 .. (n - 1) : s[k] \in Clusters
  /\ \A j, k \in 0 .. (n - 1) : s[j] = s[k] => j = k
  /\ i.flags = Contiguous => /\ n = IF i.mmu = 0 THEN 1 ELSE i.mmu
                             /\ \A k \in 0 .. (n - 1) : s[k] = i.start + k
  /\ i.flags = Linked =>
       /\ i.isize \in {n - 1, n} /\ i.isize > 0
       /\ \A k \in 0 .. (n - 1) : t[s[k]] = IF k + 1 < n THEN s[k + 1] ELSE Eof
       /\ i.hoff > 0 => i.hoff < n /\ i.hclu = s[i.hoff]
  /\ i.mmu = i.isize + (IF i.at = Eof THEN 0 ELSE 1)
  /\ i.at # Eof => i.isize < n /\ i.at = s[i.isize]
  /\ \A p \in i.pages : p[1] < i.isize /\ p[2] = s[p[1]]

LEMMA SoundFrom ==
  ASSUME NEW t, NEW i, Shape(i), NEW n \in Nat \ {0}, NEW s, Spells(t, i, s, n)
  PROVE  /\ Sound(t, i) /\ Has(t, i) = n
         /\ \A k \in 0 .. (n - 1) : Cell(t, i, k) = s[k]
         /\ Held(t, i) = {s[k] : k \in 0 .. (n - 1)}
  <1>0. /\ i.start # Eof /\ s[0] = i.start
        /\ \A k \in 0 .. (n - 1) : s[k] \in Clusters
        /\ \A j, k \in 0 .. (n - 1) : s[j] = s[k] => j = k
        /\ i.flags = Contiguous => /\ n = IF i.mmu = 0 THEN 1 ELSE i.mmu
                                   /\ \A k \in 0 .. (n - 1) : s[k] = i.start + k
        /\ i.flags = Linked =>
             /\ i.isize \in {n - 1, n} /\ i.isize > 0
             /\ \A k \in 0 .. (n - 1) : t[s[k]] = IF k + 1 < n THEN s[k + 1] ELSE Eof
             /\ i.hoff > 0 => i.hoff < n /\ i.hclu = s[i.hoff]
        /\ i.mmu = i.isize + (IF i.at = Eof THEN 0 ELSE 1)
        /\ i.at # Eof => i.isize < n /\ i.at = s[i.isize]
        /\ \A p \in i.pages : p[1] < i.isize /\ p[2] = s[p[1]]
    BY DEF Spells
  <1>1. n <= NumClusters - 2 /\ n < NumClusters
    BY <1>0, ChainFits, Numbers
  <1>2. i.flags = Linked => /\ Has(t, i) = n /\ Walk(t, i.start)[n] = Eof
                            /\ \A k \in 0 .. (n - 1) : Walk(t, i.start)[k] = s[k]
    <2> SUFFICES ASSUME i.flags = Linked
                 PROVE  /\ Has(t, i) = n /\ Walk(t, i.start)[n] = Eof
                        /\ \A k \in 0 .. (n - 1) : Walk(t, i.start)[k] = s[k]
      BY <1>0
    <2>5. Walk(t, i.start)[n] = Eof /\ \A k \in 0 .. (n - 1) : Walk(t, i.start)[k] = s[k]
      BY <1>0, <1>1, WalkOf
    <2>6. Has(t, i) = n
      <3>1. CASE i.isize = n
        BY <1>0, <2>5, <3>1, Numbers DEF Has
      <3>2. CASE i.isize = n - 1
        <4>1. Walk(t, i.start)[i.isize] # Eof
          BY <1>0, <2>5, <3>2, Numbers
        <4> QED BY <1>0, <3>2, <4>1, Numbers DEF Has
      <3> QED BY <1>0, <3>1, <3>2
    <2> QED BY <1>0, <2>5, <2>6
  <1>3. Has(t, i) = n
    BY <1>0, <1>2 DEF Has, Shape
  <1>4. \A k \in 0 .. (n - 1) : Cell(t, i, k) = s[k]
    BY <1>0, <1>2 DEF Cell, Shape
  <1>5. Held(t, i) = {s[k] : k \in 0 .. (n - 1)}
    BY <1>0, <1>3, <1>4 DEF Held
  <1>6. i.isize <= n
    <2>1. CASE i.flags = Contiguous
      BY <1>0, <2>1 DEF Shape
    <2>2. CASE i.flags = Linked
      BY <1>0, <2>2 DEF Shape
    <2> QED BY <1>0, <2>1, <2>2 DEF Shape
  <1>7. Sound(t, i)
    <2>1. Held(t, i) \subseteq Clusters
      BY <1>0, <1>5
    <2>2. \A j, k \in 0 .. (Has(t, i) - 1) : Cell(t, i, j) = Cell(t, i, k) => j = k
      BY <1>0, <1>3, <1>4
    <2>3. i.flags = Linked => /\ i.isize > 0 /\ Has(t, i) < NumClusters
                              /\ Walk(t, i.start)[Has(t, i)] = Eof
      BY <1>0, <1>1, <1>2, <1>3
    <2>4. i.at # Eof => i.isize < Has(t, i) /\ i.at = Cell(t, i, i.isize)
      <3>1. ASSUME i.at # Eof PROVE i.isize < Has(t, i) /\ i.at = Cell(t, i, i.isize)
        <4>1. i.isize \in 0 .. (n - 1)
          BY <1>0, <3>1 DEF Shape
        <4> QED BY <1>0, <1>3, <1>4, <3>1, <4>1
      <3> QED BY <1>0, <3>1
    <2>5. \A p \in i.pages : p[1] < i.isize /\ p[2] = Cell(t, i, p[1])
      <3>1. ASSUME NEW p \in i.pages PROVE p[1] < i.isize /\ p[2] = Cell(t, i, p[1])
        <4>1. p[1] < i.isize /\ p[2] = s[p[1]] /\ p[1] \in Nat
          BY <1>0 DEF Shape
        <4>2. p[1] \in 0 .. (n - 1)
          BY <1>0, <1>6, <4>1 DEF Shape
        <4> QED BY <1>0, <1>4, <4>1, <4>2
      <3> QED BY <1>0, <3>1
    <2>6. i.flags = Linked /\ i.hoff > 0 => i.hoff < Has(t, i) /\ i.hclu = Cell(t, i, i.hoff)
      <3>1. ASSUME i.flags = Linked, i.hoff > 0
            PROVE  i.hoff < Has(t, i) /\ i.hclu = Cell(t, i, i.hoff)
        <4>1. i.hoff < n /\ i.hclu = s[i.hoff] /\ i.hoff \in 0 .. (n - 1)
          BY <1>0, <3>1 DEF Shape
        <4> QED BY <1>0, <1>3, <1>4, <4>1
      <3> QED BY <1>0, <3>1
    <2> QED BY <1>0, <2>1, <2>2, <2>3, <2>4, <2>5, <2>6 DEF Sound
  <1> QED BY <1>0, <1>3, <1>4, <1>5, <1>7

\* A FAT that says the same of the clusters of a chain says the same chain.
LEMMA SoundStays ==
  ASSUME NEW t, NEW t2, NEW i, Shape(i), Sound(t, i),
         \A c \in Held(t, i) : t2[c] = t[c]
  PROVE  /\ Sound(t2, i) /\ Has(t2, i) = Has(t, i) /\ Held(t2, i) = Held(t, i)
         /\ \A k \in 0 .. (Has(t, i) - 1) : Cell(t2, i, k) = Cell(t, i, k)
  <1> DEFINE n == Has(t, i)
             s == [k \in 0 .. (n - 1) |-> Cell(t, i, k)]
  <1>1. CASE i.start = Eof
    <2>1. Has(t, i) = 0 /\ Has(t2, i) = 0 /\ i.flags = Contiguous /\ i.isize = 0 /\ i.at = Eof
      BY <1>1 DEF Has, Sound
    <2>2. Held(t, i) = {} /\ Held(t2, i) = {}
      BY <2>1 DEF Held
    <2>3. i.pages = {}
      BY <2>1 DEF Sound, Shape
    <2> QED BY <1>1, <2>1, <2>2, <2>3, Numbers DEF Sound, Shape
  <1>2. CASE i.start # Eof
    <2>1. /\ n \in Nat /\ n > 0 /\ i.start = Cell(t, i, 0) /\ i.isize <= n
          /\ \A k \in 0 .. (n - 1) : Cell(t, i, k) \in Clusters
      BY <1>2, SoundFacts DEF Shape
    <2>2. s[0] = i.start /\ \A k \in 0 .. (n - 1) : s[k] \in Clusters
      BY <2>1
    <2>3. \A j, k \in 0 .. (n - 1) : s[j] = s[k] => j = k
      BY DEF Sound
    <2>4. i.flags = Contiguous => /\ n = IF i.mmu = 0 THEN 1 ELSE i.mmu
                                  /\ \A k \in 0 .. (n - 1) : s[k] = i.start + k
      BY <1>2 DEF Has, Cell
    <2>5. i.flags = Linked =>
           /\ i.isize \in {n - 1, n} /\ i.isize > 0
           /\ \A k \in 0 .. (n - 1) : t2[s[k]] = IF k + 1 < n THEN s[k + 1] ELSE Eof
           /\ i.hoff > 0 => i.hoff < n /\ i.hclu = s[i.hoff]
      <3> SUFFICES ASSUME i.flags = Linked
                   PROVE /\ i.isize \in {n - 1, n} /\ i.isize > 0
                         /\ \A k \in 0 .. (n - 1) : t2[s[k]] = IF k + 1 < n THEN s[k + 1] ELSE Eof
                         /\ i.hoff > 0 => i.hoff < n /\ i.hclu = s[i.hoff]
        OBVIOUS
      <3>1. i.isize \in {n - 1, n}
        BY <1>2, Numbers DEF Has, Shape
      <3>2. i.isize > 0
        BY DEF Sound
      <3>3. i.hoff > 0 => i.hoff < n /\ i.hclu = s[i.hoff]
        BY <2>1 DEF Sound, Shape
      <3>4. ASSUME NEW k \in 0 .. (n - 1)
            PROVE  t2[s[k]] = IF k + 1 < n THEN s[k + 1] ELSE Eof
        <4>1. Cell(t, i, k) \in Held(t, i)
          BY DEF Held
        <4>2. t[Cell(t, i, k)] = IF k + 1 < n THEN Cell(t, i, k + 1) ELSE Eof
          BY ChainLinks
        <4>3. k + 1 < n => s[k + 1] = Cell(t, i, k + 1)
          BY <2>1
        <4> QED BY <4>1, <4>2, <4>3
      <3> QED BY <3>1, <3>2, <3>3, <3>4
    <2>6. i.mmu = i.isize + (IF i.at = Eof THEN 0 ELSE 1)
      BY DEF Sound
    <2>7. i.at # Eof => i.isize < n /\ i.at = s[i.isize]
      BY <2>1 DEF Sound, Shape
    <2>8. \A p \in i.pages : p[1] < i.isize /\ p[2] = s[p[1]]
      BY <2>1 DEF Sound, Shape
    <2>9. n \in Nat \ {0} /\ {s[k] : k \in 0 .. (n - 1)} = Held(t, i)
      BY <2>1 DEF Held
    <2>10. \A k \in 0 .. (n - 1) : s[k] = Cell(t, i, k)
      OBVIOUS
    <2>12. Spells(t2, i, s, n)
      BY <1>2, <2>2, <2>3, <2>4, <2>5, <2>6, <2>7, <2>8 DEF Spells
    <2> HIDE DEF s, n
    <2>11. /\ Sound(t2, i) /\ Has(t2, i) = n
           /\ \A k \in 0 .. (n - 1) : Cell(t2, i, k) = s[k]
           /\ Held(t2, i) = {s[k] : k \in 0 .. (n - 1)}
      BY <2>9, <2>12, SoundFrom
    <2> QED BY <2>9, <2>10, <2>11 DEF n
  <1> QED BY <1>1, <1>2

-------------------------------------------------------------------------------
(* The clusters *)

\* The bitmap and the FAT as exfat_alloc_cluster finds them.
Volume ==
  /\ taken \subseteq Clusters
  /\ fat \in [Clusters -> Clusters \cup {0, Eof}]
  /\ srch \in Clusters
  /\ used \in Nat \cup {Unknown}

\* What statfs is told is what the bitmap says.
Counted(u, t) == u # Unknown => u = Cardinality(t)

\* What the scan returns is a cluster whose bit is clear, and the cluster it was
\* asked about whenever that one is free.
LEMMA ScanFindsFree ==
  ASSUME NEW clu \in Clusters, taken \subseteq Clusters
  PROVE  /\ test_alloc_bitmap(clu) \in (Clusters \ taken) \cup {Eof}
         /\ clu \notin taken => test_alloc_bitmap(clu) = clu
  <1> DEFINE first   == (clu - 2) \div ByteBits
             byte(k) == (first + k) % NumBytes
             free(k) == {c \in Clusters \ taken : /\ (c - 2) \div ByteBits = byte(k)
                                                  /\ k = 0 => c >= clu}
             hits    == {k \in 0 .. (NumBytes - 1) : free(k) # {}}
  <1> HIDE DEF free
  <1>1. test_alloc_bitmap(clu) = IF hits = {} THEN Eof ELSE Min(free(Min(hits)))
    BY DEF test_alloc_bitmap, free
  <1>2. \A k : free(k) \subseteq Clusters \ taken
    BY DEF free
  <1>3. Clusters \subseteq Nat /\ NumBytes \in Int /\ hits \subseteq Nat
    BY ClustersAssumption DEF Clusters, NumBytes
  <1>4. hits # {} => test_alloc_bitmap(clu) \in Clusters \ taken
    <2> SUFFICES ASSUME hits # {} PROVE test_alloc_bitmap(clu) \in Clusters \ taken
      OBVIOUS
    <2>1. Min(hits) \in hits
      BY <1>3, MinIsLeast
    <2>2. Min(free(Min(hits))) \in free(Min(hits))
      BY <1>2, <1>3, <2>1, MinIsLeast
    <2> QED BY <1>1, <1>2, <2>2
  <1>5. ASSUME clu \notin taken PROVE test_alloc_bitmap(clu) = clu
    <2>1. first \in Nat /\ first < NumBytes
      BY ClustersAssumption DEF Clusters, NumBytes
    <2>2. byte(0) = first /\ 0 \in 0 .. (NumBytes - 1)
      BY <2>1, <1>3
    <2>3. clu \in free(0)
      BY <1>5, <2>2, ClustersAssumption DEF free, Clusters
    <2>4. Min(hits) = 0
      <3>1. 0 \in hits
        BY <2>2, <2>3
      <3>2. Min(hits) \in hits /\ Min(hits) <= 0
        BY <1>3, <3>1, MinIsLeast
      <3> QED BY <1>3, <3>2
    <2>5. Min(free(0)) \in free(0) /\ Min(free(0)) <= clu
      BY <1>2, <1>3, <2>3, MinIsLeast
    <2>6. Min(free(0)) >= clu /\ Min(free(0)) \in Nat
      BY <1>2, <1>3, <2>5 DEF free
    <2>7. 0 \in hits
      BY <2>2, <2>3
    <2>8. test_alloc_bitmap(clu) = Min(free(0))
      BY <1>1, <2>4, <2>7
    <2> QED BY <1>3, <2>5, <2>6, <2>8
  <1>6. hits = {} => test_alloc_bitmap(clu) = Eof
    BY <1>1
  <1> QED BY <1>4, <1>5, <1>6

LEMMA TakenFinite == Volume => IsFiniteSet(taken)
  <1>1. NumClusters - 1 \in Int /\ 2 \in Int
    BY ClustersAssumption
  <1>2. IsFiniteSet(2 .. (NumClusters - 1))
    BY <1>1, FS_Interval
  <1> QED BY <1>2, FS_Subset DEF Volume, Clusters

LEMMA HintTyped ==
  ASSUME Volume, NEW dir \in Clusters \cup {Eof, NumClusters}
  PROVE  Hint(dir) \in Clusters \cup {Eof}
  <1>1. 2 \in Clusters /\ test_alloc_bitmap(srch) \in Clusters \cup {Eof}
    BY ScanFindsFree, ClustersAssumption DEF Volume, Clusters
  <1> QED BY <1>1, ClustersAssumption DEF Hint, Clusters, Eof

\* A cluster that is handed out was nobody's: its bit was clear, and the bitmap,
\* the FAT and the count of used clusters change for that cluster alone.  A chain
\* may stay contiguous only when the cluster is the one right behind it.  A call
\* that hands out nothing changes nothing but where the next search begins, and
\* never leaves the cluster it was asked for free.
THEOREM AllocatedWasFree ==
  ASSUME Volume, NEW dir \in Clusters \cup {Eof, NumClusters},
         NEW flags \in {Linked, Contiguous}
  PROVE  LET new == exfat_alloc_cluster(dir, flags)
         IN /\ new.srch \in Clusters
            /\ new.n = 1 =>
                 /\ new.dir \in Clusters \ taken
                 /\ new.taken = taken \cup {new.dir}
                 /\ \A c \in Clusters \ {new.dir} : new.fat[c] = fat[c]
                 /\ new.flags = Linked => new.fat[new.dir] = Eof
                 /\ new.flags = Contiguous /\ dir # Eof => new.dir = dir
                 /\ new.flags = Contiguous => flags = Contiguous /\ new.fat = fat
                 /\ dir = Eof => new.flags = flags
                 /\ new.flags \in {Linked, Contiguous}
                 /\ new.used \in Nat \cup {Unknown}
                 /\ new.fat \in [Clusters -> Clusters \cup {0, Eof}]
                 /\ Counted(used, taken) => Counted(new.used, new.taken)
            /\ new.n # 1 => /\ new.n = 0 /\ new.taken = taken /\ new.fat = fat /\ new.used = used
                            /\ dir \in Clusters => dir \in taken
  <1> DEFINE hint   == Hint(dir)
             flags1 == IF dir # Eof /\ dir >= NumClusters THEN Linked ELSE flags
             found  == test_alloc_bitmap(hint)
             linked == IF found # hint THEN Linked ELSE flags1
             new    == exfat_alloc_cluster(dir, flags)
  <1>1. hint \in Clusters \cup {Eof}
    BY HintTyped
  <1>2. Eof \notin Clusters /\ Linked # Contiguous /\ srch \in Clusters
    BY DEF Eof, Clusters, Linked, Contiguous, Volume
  <1>3. CASE hint = Eof
    <2>1. /\ new.n = 0 /\ new.taken = taken /\ new.fat = fat /\ new.used = used
          /\ new.srch = srch
      BY <1>3 DEF exfat_alloc_cluster
    <2>2. dir \notin Clusters
      BY <1>2, <1>3, ClustersAssumption DEF Hint, Eof, Clusters
    <2> QED BY <1>2, <2>1, <2>2
  <1>4. CASE hint # Eof /\ found = Eof
    <2>1. /\ new.n = 0 /\ new.taken = taken /\ new.fat = fat /\ new.used = used
          /\ new.srch = hint
      BY <1>4 DEF exfat_alloc_cluster
    <2>2. dir \in Clusters => hint = dir
      BY <1>2, ClustersAssumption DEF Hint, Clusters
    <2>3. hint \in taken
      BY <1>1, <1>4, ScanFindsFree DEF Volume
    <2> QED BY <1>1, <1>4, <2>1, <2>2, <2>3
  <1>5. CASE hint # Eof /\ found # Eof
    <2>1. /\ new.n = 1 /\ new.dir = found /\ new.flags = linked
          /\ new.taken = taken \cup {found}
          /\ new.fat = IF linked = Linked THEN [fat EXCEPT ![found] = Eof] ELSE fat
          /\ new.srch = hint
          /\ new.used = IF used = Unknown THEN used ELSE used + 1
      BY <1>5 DEF exfat_alloc_cluster
    <2>2. found \in Clusters \ taken
      BY <1>1, <1>5, ScanFindsFree DEF Volume
    <2>3. /\ \A c \in Clusters \ {found} : new.fat[c] = fat[c]
          /\ linked = Linked => new.fat[found] = Eof
      BY <2>1, <2>2 DEF Volume
    <2>4. linked = Contiguous /\ dir # Eof => found = dir
      BY <1>2, ClustersAssumption DEF Hint, Clusters, Eof
    <2>6. /\ linked = Contiguous => flags = Contiguous /\ new.fat = fat
          /\ linked \in {Linked, Contiguous}
          /\ new.used \in Nat \cup {Unknown}
      BY <1>2, <2>1 DEF Volume
    <2>7. new.fat \in [Clusters -> Clusters \cup {0, Eof}]
      BY <2>1 DEF Volume
    <2>8. dir = Eof => linked = flags
      <3> SUFFICES ASSUME dir = Eof PROVE linked = flags
        OBVIOUS
      <3>1. hint = test_alloc_bitmap(srch)
        BY DEF Hint
      <3>2. hint \in Clusters \ taken
        BY <1>2, <1>5, <3>1, ScanFindsFree DEF Volume
      <3>3. found = hint
        BY <3>2, ScanFindsFree DEF Volume
      <3> QED BY <3>3
    <2>5. Counted(used, taken) => Counted(new.used, new.taken)
      <3>1. IsFiniteSet(taken)
        BY TakenFinite
      <3>2. Cardinality(taken \cup {found}) = Cardinality(taken) + 1
        BY <2>2, <3>1, FS_AddElement
      <3>3. used # Unknown => used \in Nat /\ used + 1 # Unknown
        BY DEF Volume, Unknown
      <3>4. CASE used = Unknown
        BY <2>1, <3>4 DEF Counted
      <3>5. CASE used # Unknown
        BY <2>1, <3>2, <3>3, <3>5 DEF Counted
      <3> QED BY <3>4, <3>5
    <2> QED BY <1>1, <1>5, <2>1, <2>2, <2>3, <2>4, <2>5, <2>6, <2>7, <2>8
  <1> QED BY <1>3, <1>4, <1>5

\* Freeing a chain keeps the count true if every cluster of the chain was taken:
\* nothing else a call may be given can make statfs lie.
THEOREM FreeingKeepsTheCount ==
  ASSUME Volume, Counted(used, taken), NEW table, NEW dir, NEW size, NEW flags,
         Visited(table, dir, size, flags) \subseteq taken,
         exfat_free_cluster(table, dir, size, flags)
  PROVE  Counted(used', taken') /\ taken' \subseteq Clusters
  <1> DEFINE gone == Visited(table, dir, size, flags)
  <1> HIDE DEF gone
  <1>1. /\ taken' = taken \ gone
        /\ used' = IF used = Unknown THEN used ELSE used - Cardinality(gone)
    BY DEF exfat_free_cluster, gone
  <1>2. IsFiniteSet(taken) /\ gone \subseteq taken
    BY TakenFinite DEF gone
  <1>3. Cardinality(taken \ gone) = Cardinality(taken) - Cardinality(gone)
    <2>1. taken \cap gone = gone
      BY <1>2
    <2> QED BY <1>2, <2>1, FS_Difference
  <1>4. taken' \subseteq Clusters
    BY <1>1 DEF Volume
  <1>5. used # Unknown => used' = Cardinality(taken')
    BY <1>1, <1>3 DEF Counted
  <1>6. used = Unknown => used' = Unknown
    BY <1>1
  <1> QED BY <1>4, <1>5, <1>6 DEF Counted

-------------------------------------------------------------------------------
(* Chains that stay, grow and are cut *)

\* The same chain, or the front of a contiguous one, under an inode that says
\* other things of it.
Renews(t, i, i2, n) ==
  /\ i2.start = i.start /\ i2.start # Eof /\ i2.flags = i.flags
  /\ n > 0 /\ n <= Has(t, i)
  /\ i.flags = Contiguous => n = IF i2.mmu = 0 THEN 1 ELSE i2.mmu
  /\ i.flags = Linked => /\ n = Has(t, i) /\ i2.isize \in {n - 1, n} /\ i2.isize > 0
                         /\ i2.hoff > 0 => i2.hoff < n /\ i2.hclu = Cell(t, i, i2.hoff)
  /\ i2.mmu = i2.isize + (IF i2.at = Eof THEN 0 ELSE 1)
  /\ i2.at # Eof => i2.isize < n /\ i2.at = Cell(t, i, i2.isize)
  /\ \A p \in i2.pages : p[1] < i2.isize /\ p[2] = Cell(t, i, p[1])

LEMMA SizeIsHeld ==
  ASSUME NEW t, NEW i, NEW i2, Shape(i), Shape(i2), NEW n \in Nat, Renews(t, i, i2, n)
  PROVE  i2.isize <= n
  <1>1. CASE i.flags = Linked
    BY <1>1 DEF Renews, Shape
  <1>2. CASE i.flags = Contiguous
    <2>1. n = IF i2.mmu = 0 THEN 1 ELSE i2.mmu
      BY <1>2 DEF Renews
    <2>2. i2.isize <= i2.mmu /\ i2.isize \in Nat /\ i2.mmu \in Nat
      BY DEF Renews, Shape
    <2> QED BY <2>1, <2>2
  <1> QED BY <1>1, <1>2 DEF Shape

LEMMA SoundAs ==
  ASSUME NEW t, NEW i, NEW i2, Shape(i), Shape(i2), Sound(t, i),
         NEW n \in Nat, Renews(t, i, i2, n)
  PROVE  /\ Sound(t, i2) /\ Has(t, i2) = n /\ Held(t, i2) \subseteq Held(t, i)
         /\ \A k \in 0 .. (n - 1) : Cell(t, i2, k) = Cell(t, i, k)
  <1> DEFINE s == [k \in 0 .. n |-> Cell(t, i, k)]
  <1>1. /\ Has(t, i) \in Nat /\ n > 0 /\ n <= Has(t, i)
        /\ i.start = Cell(t, i, 0) /\ i.start # Eof /\ i2.start = i.start
        /\ \A k \in 0 .. (Has(t, i) - 1) : Cell(t, i, k) \in Clusters
    BY SoundFacts DEF Shape, Renews
  <1>2. s[0] = i2.start /\ i2.start # Eof /\ \A k \in 0 .. (n - 1) : s[k] \in Clusters
    BY <1>1
  <1>3. \A j, k \in 0 .. (n - 1) : s[j] = s[k] => j = k
    BY <1>1 DEF Sound
  <1>4. i2.flags = Contiguous => /\ n = IF i2.mmu = 0 THEN 1 ELSE i2.mmu
                                 /\ \A k \in 0 .. (n - 1) : s[k] = i2.start + k
    BY DEF Renews, Cell
  <1>5. i2.flags = Linked =>
           /\ i2.isize \in {n - 1, n} /\ i2.isize > 0
           /\ \A k \in 0 .. (n - 1) : t[s[k]] = IF k + 1 < n THEN s[k + 1] ELSE Eof
           /\ i2.hoff > 0 => i2.hoff < n /\ i2.hclu = s[i2.hoff]
    <2> SUFFICES ASSUME i2.flags = Linked
                 PROVE /\ i2.isize \in {n - 1, n} /\ i2.isize > 0
                       /\ \A k \in 0 .. (n - 1) : t[s[k]] = IF k + 1 < n THEN s[k + 1] ELSE Eof
                       /\ i2.hoff > 0 => i2.hoff < n /\ i2.hclu = s[i2.hoff]
      OBVIOUS
    <2>1. i.flags = Linked /\ n = Has(t, i) /\ i2.isize \in {n - 1, n} /\ i2.isize > 0
      BY DEF Renews
    <2>2. i2.hoff > 0 => i2.hoff < n /\ i2.hclu = s[i2.hoff]
      BY <2>1 DEF Renews, Shape
    <2>3. ASSUME NEW k \in 0 .. (n - 1)
          PROVE  t[s[k]] = IF k + 1 < n THEN s[k + 1] ELSE Eof
      <3>1. t[Cell(t, i, k)] = IF k + 1 < n THEN Cell(t, i, k + 1) ELSE Eof
        BY <2>1, ChainLinks
      <3> QED BY <3>1
    <2> QED BY <2>1, <2>2, <2>3
  <1>6. i2.mmu = i2.isize + (IF i2.at = Eof THEN 0 ELSE 1)
    BY DEF Renews
  <1>7. i2.isize <= n
    BY SizeIsHeld
  <1>8. i2.at # Eof => i2.isize < n /\ i2.at = s[i2.isize]
    BY DEF Renews, Shape
  <1>9. \A p \in i2.pages : p[1] < i2.isize /\ p[2] = s[p[1]]
    <2>1. ASSUME NEW p \in i2.pages PROVE p[1] < i2.isize /\ p[2] = s[p[1]]
      <3>1. p[1] \in Nat /\ p[1] < i2.isize /\ p[2] = Cell(t, i, p[1]) /\ i2.isize \in Nat
        BY DEF Renews, Shape
      <3>2. p[1] \in 0 .. n
        BY <1>7, <3>1
      <3> QED BY <3>1, <3>2
    <2> QED BY <2>1
  <1>10. Spells(t, i2, s, n)
    BY <1>2, <1>3, <1>4, <1>5, <1>6, <1>8, <1>9 DEF Spells
  <1>11. n \in Nat \ {0} /\ {s[k] : k \in 0 .. (n - 1)} \subseteq Held(t, i)
    <2>1. ASSUME NEW k \in 0 .. (n - 1) PROVE s[k] \in Held(t, i)
      <3>1. k \in 0 .. (Has(t, i) - 1) /\ s[k] = Cell(t, i, k)
        BY <1>1
      <3> QED BY <3>1 DEF Held
    <2> HIDE DEF s
    <2>2. {s[k] : k \in 0 .. (n - 1)} \subseteq Held(t, i)
      BY <2>1
    <2>3. n \in Nat \ {0}
      BY <1>1
    <2> QED BY <2>2, <2>3
  <1>12. \A k \in 0 .. (n - 1) : s[k] = Cell(t, i, k)
    OBVIOUS
  <1> HIDE DEF s
  <1>13. /\ Sound(t, i2) /\ Has(t, i2) = n
         /\ \A k \in 0 .. (n - 1) : Cell(t, i2, k) = s[k]
         /\ Held(t, i2) = {s[k] : k \in 0 .. (n - 1)}
    BY <1>10, <1>11, SoundFrom
  <1> QED BY <1>11, <1>12, <1>13

\* An inode without a cluster.
Bare(i) == /\ i.start = Eof /\ i.flags = Contiguous /\ i.isize = 0 /\ i.mmu = 0
           /\ i.at = Eof /\ i.pages = {}

LEMMA BareIsSound ==
  ASSUME NEW t, NEW i, Bare(i)
  PROVE  Sound(t, i) /\ Has(t, i) = 0 /\ Held(t, i) = {}
  <1>1. Has(t, i) = 0
    BY DEF Has, Bare
  <1>2. Held(t, i) = {}
    BY <1>1 DEF Held
  <1> QED BY <1>1, <1>2, Numbers DEF Sound, Bare

LEMMA StartedOrBare ==
  ASSUME NEW t, NEW i, Shape(i), Sound(t, i), i.start = Eof
  PROVE  Bare(i)
  <1>1. i.isize = 0 /\ i.at = Eof /\ i.flags = Contiguous /\ i.mmu = 0
    BY DEF Sound, Shape
  <1>2. i.pages = {}
    BY <1>1 DEF Sound, Shape
  <1> QED BY <1>1, <1>2 DEF Bare

\* Where ffsMapCluster's search ends, by the hint or without it.
LEMMA LocatedIs ==
  ASSUME NEW i, Shape(i), Sound(fat, i), NEW off \in Nat, off <= i.isize
  PROVE  /\ off < Has(fat, i) => Located(i, off).clu = Cell(fat, i, off)
         /\ off = Has(fat, i) =>
              /\ Located(i, off).clu = Eof
              /\ Located(i, off).last = IF off = 0 THEN Eof ELSE Cell(fat, i, off - 1)
  <1>1. /\ Has(fat, i) \in Nat /\ i.isize <= Has(fat, i) /\ i.mmu <= Has(fat, i)
        /\ i.start # Eof => Has(fat, i) > 0 /\ i.start = Cell(fat, i, 0)
        /\ Has(fat, i) < NumClusters /\ i.mmu \in Nat /\ i.isize \in Nat
        /\ \A k \in 0 .. (Has(fat, i) - 1) : Cell(fat, i, k) \in Clusters
    BY SoundFacts DEF Shape
  <1>2. i.mmu = i.isize \/ i.mmu = i.isize + 1
    BY DEF Sound, Shape
  <1>3. CASE i.start = Eof
    <2>1. Has(fat, i) = 0 /\ i.flags = Contiguous /\ off = 0
      BY <1>1, <1>3 DEF Sound, Has
    <2> QED BY <1>3, <2>1 DEF Located
  <1>4. CASE i.start # Eof /\ i.flags = Contiguous
    <2>1. Has(fat, i) = IF i.mmu = 0 THEN 1 ELSE i.mmu
      BY <1>4 DEF Has
    <2>2. \A k : Cell(fat, i, k) = i.start + k
      BY <1>4 DEF Cell
    <2>3. CASE off = 0
      BY <1>1, <1>4, <2>2, <2>3 DEF Located
    <2>4. CASE off > 0
      <3>1. Located(i, off) = [last |-> i.start + off - 1,
                               clu  |-> IF off = i.mmu THEN Eof ELSE i.start + off]
        BY <1>4, <2>4 DEF Located
      <3>2. off < Has(fat, i) => off # i.mmu
        BY <1>1, <1>2, <2>1, <2>4
      <3>3. off = Has(fat, i) => off = i.mmu
        BY <1>1, <1>2, <2>1, <2>4
      <3>4. i.start + off - 1 = i.start + (off - 1)
        BY DEF Shape
      <3> QED BY <2>2, <2>4, <3>1, <3>2, <3>3, <3>4
    <2> QED BY <2>3, <2>4
  <1>5. CASE i.start # Eof /\ i.flags = Linked
    <2> DEFINE hinted == off > 0 /\ i.hoff > 0 /\ off >= i.hoff
               nth    == Walk(fat, IF hinted THEN i.hclu ELSE i.start)
               steps  == IF hinted THEN off - i.hoff ELSE off
               stop   == Min({steps} \cup {k \in 0 .. steps : nth[k] = Eof})
               base   == IF hinted THEN i.hoff ELSE 0
    <2>1. Located(i, off) = [last |-> IF stop = 0 THEN i.start ELSE nth[stop - 1],
                             clu |-> nth[stop]]
      BY <1>5, Numbers DEF Located
    <2>2. \A k : Cell(fat, i, k) = Walk(fat, i.start)[k]
      BY <1>5, Numbers DEF Cell
    <2>3. steps \in Nat /\ base \in Nat /\ base + steps = off
      BY DEF Shape
    <2>4. base < Has(fat, i) /\ (IF hinted THEN i.hclu ELSE i.start) = Cell(fat, i, base)
      BY <1>1, <1>5 DEF Sound, Shape
    <2>5. Eof \notin Clusters /\ NumClusters \in Nat
      BY Numbers
    <2> HIDE DEF steps, base
    <2>6. \A k \in 0 .. steps : nth[k] = Cell(fat, i, base + k)
      <3> SUFFICES ASSUME NEW k \in 0 .. steps PROVE nth[k] = Cell(fat, i, base + k)
        OBVIOUS
      <3>1. nth = Walk(fat, Walk(fat, i.start)[base])
        BY <2>2, <2>4
      <3>2. base \in 0 .. NumClusters /\ k \in 0 .. (NumClusters - base)
        BY <1>1, <2>3, <2>4, <2>5
      <3>3. Walk(fat, Walk(fat, i.start)[base])[k] = Walk(fat, i.start)[base + k]
        BY <3>2, WalkSuffix
      <3> QED BY <2>2, <3>1, <3>3
    <2>7. Cell(fat, i, Has(fat, i)) = Eof
      BY <1>5, <2>2 DEF Sound
    <2>8. off <= Has(fat, i) => stop = steps
      <3> DEFINE S == {steps} \cup {k \in 0 .. steps : nth[k] = Eof}
      <3>1. S \subseteq Nat /\ S # {} /\ steps \in S
        BY <2>3
      <3> HIDE DEF nth
      <3>2. \A k \in S : off <= Has(fat, i) => ~ (k < steps)
        <4> SUFFICES ASSUME NEW k \in S, off <= Has(fat, i), k < steps PROVE FALSE
          OBVIOUS
        <4>1. nth[k] = Eof /\ k \in 0 .. steps
          BY <2>3
        <4>2. base + k \in 0 .. (Has(fat, i) - 1)
          BY <1>1, <2>3, <4>1
        <4> QED BY <1>1, <2>5, <2>6, <4>1, <4>2
      <3>3. Min(S) \in S
        <4> HIDE DEF S
        <4> QED BY <3>1, MinIsLeast
      <3>4. Min(S) \in Nat /\ Min(S) <= steps
        BY <2>3, <3>3
      <3> QED BY <2>3, <3>2, <3>3, <3>4
    <2> HIDE DEF nth, stop
    <2>9. nth[steps] = Cell(fat, i, off)
      BY <2>3, <2>6
    <2>10. CASE off < Has(fat, i)
      BY <1>1, <2>1, <2>8, <2>9, <2>10
    <2>11. CASE off = Has(fat, i)
      <3>1. steps # 0 /\ steps - 1 \in 0 .. steps /\ base + (steps - 1) = off - 1 /\ off # 0
        BY <1>1, <2>3, <2>4, <2>11
      <3>2. nth[steps - 1] = Cell(fat, i, off - 1)
        BY <2>6, <3>1
      <3> QED BY <1>1, <2>1, <2>7, <2>8, <2>9, <2>11, <3>1, <3>2
    <2> QED BY <1>1, <2>10, <2>11
  <1> QED BY <1>3, <1>4, <1>5 DEF Shape

\* The state the driver is always in: the volume and its count of used clusters,
\* the two records of every file and its chain.
VolumeOK == Volume /\ Counted(used, taken) /\ Reserved \subseteq taken
Records == entry \in [Slots -> Entries \cup {NoEntry}] /\ ino \in [Files -> Inodes]
IInv == VolumeOK /\ Records /\ (\A f \in Files : Placed(f)) /\ Chained

LEMMA InodeFields ==
  ASSUME NEW i \in Inodes
  PROVE  /\ i.isize \in Nat /\ i.mmu \in Nat /\ i.hoff \in Nat \cup {-1}
         /\ i.start \in Clusters \cup {Eof} /\ i.flags \in {Linked, Contiguous}
         /\ i.at \in Clusters \cup {Eof} /\ i.hclu \in Clusters \cup {Eof}
         /\ i.pages \subseteq Nat \X Clusters /\ i.dirty \in BOOLEAN
         /\ i.slot \in Slots \cup {NoEntry} /\ i.st \in {"absent", "cached", "evicted"}
         /\ i.wrote \in Nat \cup {NoSize} /\ i.cut \in Nat \cup {NoSize}
  BY DEF Inodes

LEMMA InodeShape ==
  ASSUME NEW i \in Inodes
  PROVE  Shape(i)
  <1>1. i.isize \in Nat /\ i.mmu \in Nat /\ i.hoff \in Int /\ i.flags \in {Linked, Contiguous}
    BY InodeFields
  <1>2. i.start \in Int
    BY InodeFields, Numbers
  <1>3. \A p \in i.pages : p[1] \in Nat
    BY InodeFields
  <1> QED BY <1>1, <1>2, <1>3 DEF Shape

\* The chain that an inode in memory holds, whether or not it is being cut.
LEMMA WholeFields ==
  ASSUME NEW i \in Inodes
  PROVE  /\ Whole(i) \in Inodes /\ Shape(Whole(i))
         /\ Whole(i).isize = (IF i.cut = NoSize THEN i.isize ELSE i.cut)
         /\ Whole(i).start = i.start /\ Whole(i).flags = i.flags /\ Whole(i).mmu = i.mmu
         /\ Whole(i).at = i.at /\ Whole(i).pages = i.pages
         /\ Whole(i).hoff = i.hoff /\ Whole(i).hclu = i.hclu
         /\ i.cut = NoSize => Whole(i) = i
  <1>1. CASE i.cut = NoSize
    BY <1>1, InodeShape DEF Whole
  <1>2. CASE i.cut # NoSize
    <2> DEFINE w == [i EXCEPT !.isize = i.cut]
    <2>1. w \in Inodes
      <3>1. i.cut \in Nat
        BY <1>2, InodeFields
      <3> QED BY <3>1 DEF Inodes
    <2>2. /\ w.isize = i.cut /\ w.start = i.start /\ w.flags = i.flags /\ w.mmu = i.mmu
          /\ w.at = i.at /\ w.pages = i.pages /\ w.hoff = i.hoff /\ w.hclu = i.hclu
      BY DEF Inodes
    <2>3. Whole(i) = w
      BY <1>2 DEF Whole
    <2> HIDE DEF w
    <2> QED BY <1>2, <2>1, <2>2, <2>3, InodeShape
  <1> QED BY <1>1, <1>2

\* exfat_chain_cont_cluster links len clusters in a row, and no others.
RowFits(c, len) == c \in Clusters /\ len \in Nat \ {0} /\ c + len - 1 \in Clusters
InARow(t, t2, c, len) ==
  /\ \A k \in 0 .. (len - 1) : t2[c + k] = IF k + 1 < len THEN c + (k + 1) ELSE Eof
  /\ \A d \in Clusters : d < c \/ d > c + len - 1 => t2[d] = t[d]
  /\ DOMAIN t2 = Clusters

LEMMA LinksTheRow ==
  ASSUME NEW t, NEW c, NEW len, RowFits(c, len)
  PROVE  InARow(t, exfat_chain_cont_cluster(t, c, len), c, len)
  <1> DEFINE t2 == exfat_chain_cont_cluster(t, c, len)
  <1>0. c \in Clusters /\ len \in Nat \ {0} /\ c + len - 1 \in Clusters
    BY DEF RowFits
  <1>1. t2 = [d \in Clusters |-> IF d \in c .. (c + len - 2) THEN d + 1
                                 ELSE IF len > 0 /\ d = c + len - 1 THEN Eof ELSE t[d]]
    BY DEF exfat_chain_cont_cluster
  <1> HIDE DEF t2
  <1>2. c \in Nat /\ 2 <= c /\ c + len - 1 < NumClusters /\ len \in Nat \ {0}
    BY <1>0, Numbers
  <1>3. ASSUME NEW k \in 0 .. (len - 1)
        PROVE  t2[c + k] = IF k + 1 < len THEN c + (k + 1) ELSE Eof
    <2>1. c + k \in Clusters
      BY <1>2, Numbers
    <2>2. CASE k + 1 < len
      <3>1. c + k \in c .. (c + len - 2) /\ (c + k) + 1 = c + (k + 1)
        BY <1>2, <2>2
      <3> QED BY <1>1, <2>1, <2>2, <3>1
    <2>3. CASE ~(k + 1 < len)
      <3>1. c + k \notin c .. (c + len - 2) /\ c + k = c + len - 1
        BY <1>2, <2>3
      <3>2. c + k \notin c .. (c + len - 2) /\ len > 0
        BY <1>2, <3>1
      <3>3. t2[c + k] = Eof
        BY <1>1, <2>1, <3>1, <3>2
      <3> QED BY <2>3, <3>3
    <2> QED BY <2>2, <2>3
  <1>4. ASSUME NEW d \in Clusters, d < c \/ d > c + len - 1
        PROVE  t2[d] = t[d]
    <2>1. d \in Nat /\ d \notin c .. (c + len - 2) /\ d # c + len - 1
      BY <1>2, <1>4, Numbers
    <2> QED BY <1>1, <2>1
  <1>5. DOMAIN t2 = Clusters
    BY <1>1
  <1> QED BY <1>3, <1>4, <1>5 DEF InARow, t2

\* What writing the cluster behind the last one does to inode, chain and FAT.
Grown(i, new, i2) ==
  /\ i2.flags = IF new.flags = Linked THEN Linked ELSE i.flags
  /\ i2.start = IF i.isize = 0 THEN new.dir ELSE i.start
  /\ i2.isize = i.isize /\ i2.mmu = i.isize + 1 /\ i2.at = new.dir
  /\ i2.hoff = i.isize /\ i2.hclu = new.dir /\ i2.pages = i.pages

GrownFat(i, new, last) ==
  LET chained == IF i.isize > 0 /\ new.flags # i.flags
                 THEN exfat_chain_cont_cluster(new.fat, i.start, i.mmu) ELSE new.fat
  IN IF i.isize > 0 /\ new.flags = Linked THEN [chained EXCEPT ![last] = new.dir] ELSE chained

LEMMA ChainGrows ==
  ASSUME Volume, NEW i \in Inodes, NEW i2, NEW new, NEW last,
         Sound(fat, i), Held(fat, i) \subseteq taken,
         i.at = Eof, Has(fat, i) = i.isize, Shape(i2), Grown(i, new, i2),
         last = IF i.isize = 0 THEN Eof ELSE Cell(fat, i, i.isize - 1),
         new = exfat_alloc_cluster(IF last = Eof THEN Eof ELSE last + 1, i.flags),
         new.n = 1
  PROVE  LET t2 == GrownFat(i, new, last)
         IN /\ t2 \in [Clusters -> Clusters \cup {0, Eof}]
            /\ \A c \in taken \ Held(fat, i) : t2[c] = fat[c]
            /\ Sound(t2, i2) /\ Has(t2, i2) = i.isize + 1
            /\ \A k \in 0 .. (i.isize - 1) : Cell(t2, i2, k) = Cell(fat, i, k)
            /\ Cell(t2, i2, i.isize) = new.dir
            /\ Held(t2, i2) = Held(fat, i) \cup {new.dir}
  <1> DEFINE n  == i.isize
             t2 == GrownFat(i, new, last)
             s  == [k \in 0 .. n |-> IF k < n THEN Cell(fat, i, k) ELSE new.dir]
  <1>1. /\ n \in Nat /\ i.mmu = n /\ Has(fat, i) = n /\ Shape(i)
        /\ i.flags \in {Linked, Contiguous}
        /\ \A k \in 0 .. (n - 1) : Cell(fat, i, k) \in Clusters
        /\ i.start = Eof <=> n = 0
        /\ n > 0 => i.start \in Clusters /\ i.start = Cell(fat, i, 0)
    <2>1. Shape(i) /\ n \in Nat /\ i.mmu = n /\ i.flags \in {Linked, Contiguous}
      BY InodeShape, InodeFields DEF Sound
    <2>2. /\ \A k \in 0 .. (n - 1) : Cell(fat, i, k) \in Clusters
          /\ i.start # Eof => n > 0 /\ i.start = Cell(fat, i, 0) /\ i.start \in Clusters
      BY <2>1, SoundFacts DEF Shape
    <2>3. i.start = Eof => n = 0
      BY DEF Sound
    <2> QED BY <2>1, <2>2, <2>3
  <1>2. n > 0 => last \in Clusters /\ last = Cell(fat, i, n - 1)
    BY <1>1
  <1>3. last = Eof <=> n = 0
    BY <1>1, <1>2, Numbers
  <1>4. /\ new.dir \in Clusters \ taken
        /\ \A c \in Clusters \ {new.dir} : new.fat[c] = fat[c]
        /\ new.flags = Linked => new.fat[new.dir] = Eof
        /\ new.flags = Contiguous /\ n > 0 => new.dir = last + 1
        /\ new.flags = Contiguous => i.flags = Contiguous /\ new.fat = fat
        /\ n = 0 => new.flags = i.flags
        /\ new.flags \in {Linked, Contiguous}
        /\ new.fat \in [Clusters -> Clusters \cup {0, Eof}]
    <2> DEFINE dir == IF last = Eof THEN Eof ELSE last + 1
    <2>1. dir \in Clusters \cup {Eof, NumClusters} /\ (dir = Eof <=> n = 0)
      <3>1. CASE n = 0
        BY <1>3, <3>1
      <3>2. CASE n # 0
        <4>1. last \in Clusters /\ last # Eof
          BY <1>1, <1>2, <1>3, <3>2
        <4>2. last + 1 \in Clusters \cup {NumClusters} /\ last + 1 # Eof
          BY <4>1, Numbers DEF Eof
        <4> QED BY <3>2, <4>1, <4>2
      <3> QED BY <3>1, <3>2
    <2>2. n > 0 => dir = last + 1
      BY <1>3
    <2> HIDE DEF dir
    <2>3. new = exfat_alloc_cluster(dir, i.flags)
      BY DEF dir
    <2> QED BY <1>1, <2>1, <2>2, <2>3, AllocatedWasFree
  <1>5. \A k \in 0 .. (n - 1) : Cell(fat, i, k) \in Held(fat, i) /\ Cell(fat, i, k) # new.dir
    BY <1>1, <1>4 DEF Held
  <1>6. Linked # Contiguous /\ Eof \notin Clusters /\ NumClusters \in Nat
    BY Numbers
  <1>16. \A p \in i2.pages : p[1] < i2.isize /\ p[2] = s[p[1]]
    <2> SUFFICES ASSUME NEW p \in i.pages PROVE p[1] < n /\ p[2] = s[p[1]]
      BY DEF Grown
    <2>1. p[1] < n /\ p[2] = Cell(fat, i, p[1]) /\ p[1] \in Nat
      BY <1>1 DEF Sound, Shape
    <2> QED BY <1>1, <2>1
  <1>7. n = 0 => i.flags = Contiguous
    BY <1>1 DEF Sound
  <1>10. /\ Spells(t2, i2, s, n + 1)
         /\ t2 \in [Clusters -> Clusters \cup {0, Eof}]
         /\ \A c \in taken \ Held(fat, i) : t2[c] = fat[c]
    \* The first cluster, and one more of a contiguous chain: the FAT is not used.
    <2>1. CASE new.flags = Contiguous
      <3>1. t2 = fat
        BY <1>4, <1>6, <2>1 DEF GrownFat
      <3>2. i2.flags = Contiguous /\ i.flags = Contiguous
        BY <1>4, <1>6, <2>1 DEF Grown
      <3>3. \A k : Cell(fat, i, k) = i.start + k
        BY <3>2 DEF Cell
      <3>4. \A k \in 0 .. n : s[k] = i2.start + k
        <4> SUFFICES ASSUME NEW k \in 0 .. n PROVE s[k] = i2.start + k
          OBVIOUS
        <4>1. CASE n = 0
          <5>1. k = 0 /\ s[k] = new.dir
            BY <1>1, <4>1
          <5>2. i2.start = new.dir
            BY <4>1 DEF Grown
          <5>3. new.dir \in Int
            BY <1>4, Numbers
          <5> QED BY <5>1, <5>2, <5>3
        <4>2. CASE n > 0
          <5>1. i2.start = i.start /\ i.start \in Clusters /\ i.start \in Int
            BY <1>1, <4>2, Numbers DEF Grown
          <5>2. new.dir = (i.start + (n - 1)) + 1
            BY <1>2, <1>4, <2>1, <3>3, <4>2
          <5>3. CASE k < n
            BY <3>3, <5>1, <5>3
          <5>4. CASE k = n
            BY <1>1, <5>1, <5>2, <5>4
          <5> QED BY <1>1, <5>3, <5>4
        <4> QED BY <1>1, <4>1, <4>2
      <3>5. Spells(t2, i2, s, n + 1)
        <4>1. i2.start # Eof /\ s[0] = i2.start
          BY <1>1, <1>4, <1>6 DEF Grown
        <4>2. \A k \in 0 .. ((n + 1) - 1) : s[k] \in Clusters
          BY <1>1, <1>4
        <4>3. \A j, k \in 0 .. ((n + 1) - 1) : s[j] = s[k] => j = k
          <5> SUFFICES ASSUME NEW j \in 0 .. ((n + 1) - 1), NEW k \in 0 .. ((n + 1) - 1),
                              s[j] = s[k]
                       PROVE  j = k
            OBVIOUS
          <5>1. j \in 0 .. n /\ k \in 0 .. n
            BY <1>1
          <5>2. i2.start + j = i2.start + k
            BY <3>4, <5>1
          <5>3. i2.start \in Int
            BY DEF Shape
          <5> QED BY <1>1, <5>1, <5>2, <5>3
        <4>4. i2.flags = Contiguous => /\ n + 1 = IF i2.mmu = 0 THEN 1 ELSE i2.mmu
                                       /\ \A k \in 0 .. ((n + 1) - 1) : s[k] = i2.start + k
          BY <1>1, <3>4 DEF Grown
        <4>5. i2.mmu = i2.isize + (IF i2.at = Eof THEN 0 ELSE 1)
          BY <1>4, <1>6 DEF Grown
        <4>6. i2.at # Eof => i2.isize < n + 1 /\ i2.at = s[i2.isize]
          BY <1>1 DEF Grown
        <4>7. \A p \in i2.pages : p[1] < i2.isize /\ p[2] = s[p[1]]
          BY <1>16
        <4> QED BY <1>6, <3>2, <4>1, <4>2, <4>3, <4>4, <4>5, <4>6, <4>7 DEF Spells
      <3>6. t2 \in [Clusters -> Clusters \cup {0, Eof}]
        BY <3>1 DEF Volume
      <3>7. \A c \in taken \ Held(fat, i) : t2[c] = fat[c]
        BY <3>1
      <3> QED BY <3>5, <3>6, <3>7
    \* One more of a linked chain, or of one that is linked for it.
    <2>2. CASE new.flags = Linked
      <3>1. n > 0 /\ i2.flags = Linked /\ i2.start = i.start
        BY <1>1, <1>4, <1>6, <1>7, <2>2 DEF Grown
      <3> DEFINE was == IF i.flags = Linked THEN new.fat
                        ELSE exfat_chain_cont_cluster(new.fat, i.start, n)
      <3>2. t2 = [was EXCEPT ![last] = new.dir]
        BY <1>1, <1>6, <2>2, <3>1 DEF GrownFat
      <3>3. /\ \A k \in 0 .. (n - 1) :
                 k + 1 < n => was[Cell(fat, i, k)] = Cell(fat, i, k + 1)
            /\ \A c \in Clusters \ Held(fat, i) : was[c] = new.fat[c]
            /\ DOMAIN was = Clusters
        <4>1. CASE i.flags = Linked
          <5>1. ASSUME NEW k \in 0 .. (n - 1), k + 1 < n
                PROVE  was[Cell(fat, i, k)] = Cell(fat, i, k + 1)
            <6>1. fat[Cell(fat, i, k)] = Cell(fat, i, k + 1)
              BY <1>1, <4>1, <5>1, ChainLinks
            <6>2. new.fat[Cell(fat, i, k)] = fat[Cell(fat, i, k)]
              BY <1>1, <1>4, <1>5
            <6> QED BY <4>1, <6>1, <6>2
          <5> QED BY <1>4, <4>1, <5>1
        <4>2. CASE i.flags = Contiguous
          <5>1. was = exfat_chain_cont_cluster(new.fat, i.start, n)
            BY <1>6, <4>2
          <5>2. \A k : Cell(fat, i, k) = i.start + k
            BY <4>2 DEF Cell
          <5> HIDE DEF was
          <5>3. i.start + n - 1 = i.start + (n - 1) /\ n - 1 \in 0 .. (n - 1)
            BY <1>1, <3>1, Numbers
          <5>4. i.start + n - 1 \in Clusters /\ i.start \in Clusters /\ n \in Nat \ {0}
            BY <1>1, <3>1, <5>2, <5>3
          <5>5. /\ \A k \in 0 .. (n - 1) : was[i.start + k] =
                     IF k + 1 < n THEN i.start + (k + 1) ELSE Eof
                /\ \A d \in Clusters : d < i.start \/ d > i.start + n - 1 => was[d] = new.fat[d]
                /\ DOMAIN was = Clusters
            <6>1. RowFits(i.start, n)
              BY <5>4 DEF RowFits
            <6>2. InARow(new.fat, was, i.start, n)
              BY <5>1, <6>1, LinksTheRow
            <6> QED BY <6>2 DEF InARow
          <5>6. ASSUME NEW c \in Clusters \ Held(fat, i)
                PROVE  c < i.start \/ c > i.start + n - 1
            <6>0. c \in Int /\ i.start \in Int /\ n \in Int
              <7>1. c \in Clusters /\ i.start \in Clusters /\ n \in Int
                BY <1>1, <5>4
              <7> QED BY <7>1, Numbers
            <6> SUFFICES ASSUME c >= i.start, c <= i.start + n - 1 PROVE FALSE
              BY <6>0
            <6>1. c - i.start \in 0 .. (n - 1) /\ c = i.start + (c - i.start)
              BY <6>0
            <6>2. c = Cell(fat, i, c - i.start)
              BY <5>2, <6>1
            <6>3. c \in Held(fat, i)
              BY <1>1, <6>1, <6>2 DEF Held
            <6> QED BY <6>3
          <5> QED BY <5>2, <5>5, <5>6
        <4> QED BY <1>1, <4>1, <4>2
      <3> HIDE DEF was
      <3>4. \A k \in 0 .. ((n + 1) - 1) :
               t2[s[k]] = IF k + 1 < n + 1 THEN s[k + 1] ELSE Eof
        <4> SUFFICES ASSUME NEW k \in 0 .. ((n + 1) - 1)
                     PROVE  t2[s[k]] = IF k + 1 < n + 1 THEN s[k + 1] ELSE Eof
          OBVIOUS
        <4>0. k \in 0 .. n
          BY <1>1
        <4>1. CASE k = n
          <5>1. new.dir # last /\ new.dir \notin Held(fat, i)
            BY <1>1, <1>2, <1>4, <1>5, <3>1
          <5>2. t2[new.dir] = was[new.dir] /\ was[new.dir] = new.fat[new.dir]
            BY <1>4, <3>2, <3>3, <5>1
          <5> QED BY <1>1, <4>0, <1>4, <2>2, <4>1, <5>2
        <4>2. CASE k = n - 1
          <5>1. s[k] = last /\ s[k + 1] = new.dir
            BY <1>1, <4>0, <1>2, <3>1, <4>2
          <5>2. t2[last] = new.dir
            BY <1>2, <3>1, <3>2, <3>3
          <5> QED BY <1>1, <4>0, <4>2, <5>1, <5>2
        <4>3. CASE k + 1 < n
          <5>1. s[k] = Cell(fat, i, k) /\ s[k + 1] = Cell(fat, i, k + 1)
            BY <1>1, <4>0, <4>3
          <5>2. k \in 0 .. (Has(fat, i) - 1) /\ n - 1 \in 0 .. (Has(fat, i) - 1) /\ k # n - 1
            BY <1>1, <4>0, <4>3
          <5>3. Cell(fat, i, k) # last
            BY <1>2, <3>1, <5>2 DEF Sound
          <5>4. t2[Cell(fat, i, k)] = was[Cell(fat, i, k)]
            BY <1>1, <3>2, <3>3, <5>2, <5>3
          <5>5. was[Cell(fat, i, k)] = Cell(fat, i, k + 1)
            BY <1>1, <3>3, <4>0, <4>3
          <5> QED BY <1>1, <4>3, <5>1, <5>4, <5>5
        <4> QED BY <1>1, <4>0, <4>1, <4>2, <4>3
      <3>5. Spells(t2, i2, s, n + 1)
        <4>1. i2.start # Eof /\ s[0] = i2.start
          BY <1>1, <1>6, <3>1
        <4>2. \A k \in 0 .. ((n + 1) - 1) : s[k] \in Clusters
          BY <1>1, <1>4
        <4>3. \A j, k \in 0 .. ((n + 1) - 1) : s[j] = s[k] => j = k
          BY <1>1, <1>5 DEF Sound
        <4>4. /\ i2.isize \in {(n + 1) - 1, n + 1} /\ i2.isize > 0
              /\ i2.hoff > 0 => i2.hoff < n + 1 /\ i2.hclu = s[i2.hoff]
          BY <1>1, <3>1 DEF Grown
        <4>5. i2.mmu = i2.isize + (IF i2.at = Eof THEN 0 ELSE 1)
          BY <1>4, <1>6 DEF Grown
        <4>6. i2.at # Eof => i2.isize < n + 1 /\ i2.at = s[i2.isize]
          BY <1>1 DEF Grown
        <4>7. \A p \in i2.pages : p[1] < i2.isize /\ p[2] = s[p[1]]
          BY <1>16
        <4>8. i2.flags # Contiguous
          BY <1>6, <3>1
        <4> HIDE DEF s, t2, n
        <4> QED BY <3>4, <4>1, <4>2, <4>3, <4>4, <4>5, <4>6, <4>7, <4>8 DEF Spells
      <3>6. t2 \in [Clusters -> Clusters \cup {0, Eof}]
        <4>1. was \in [Clusters -> Clusters \cup {0, Eof}]
          <5>1. CASE i.flags = Linked
            BY <1>4, <5>1 DEF was
          <5>2. CASE i.flags = Contiguous
            <6>1. was = exfat_chain_cont_cluster(new.fat, i.start, n)
              BY <1>6, <5>2 DEF was
            <6>2. \A k : Cell(fat, i, k) = i.start + k
              BY <5>2 DEF Cell
            <6>3. ASSUME NEW c \in Clusters, c \in i.start .. (i.start + n - 2)
                  PROVE  c + 1 \in Clusters
              <7>0. c \in Int /\ i.start \in Int /\ n \in Int
                <8>1. i.start \in Clusters /\ n \in Int
                  BY <1>1, <3>1
                <8> QED BY <8>1, Numbers
              <7>1. c + 1 = i.start + ((c + 1) - i.start) /\ (c + 1) - i.start \in 0 .. (n - 1)
                BY <6>3, <7>0
              <7> QED BY <1>1, <6>2, <7>1
            <6> QED BY <1>4, <6>1, <6>3 DEF exfat_chain_cont_cluster
          <5> QED BY <1>1, <5>1, <5>2
        <4> QED BY <1>4, <3>2, <4>1
      <3>7. \A c \in taken \ Held(fat, i) : t2[c] = fat[c]
        <4> SUFFICES ASSUME NEW c \in taken \ Held(fat, i) PROVE t2[c] = fat[c]
          OBVIOUS
        <4>1. c \in Clusters /\ c # new.dir
          BY <1>4 DEF Volume
        <4>2. c # last
          BY <1>1, <1>2, <1>5, <3>1
        <4>3. t2[c] = was[c]
          BY <3>2, <3>3, <4>1, <4>2
        <4> QED BY <1>4, <3>3, <4>1, <4>3
      <3> QED BY <3>5, <3>6, <3>7
    <2> QED BY <1>4, <2>1, <2>2
  <1>11. n + 1 \in Nat \ {0} /\ \A k \in 0 .. n : s[k] = IF k < n THEN Cell(fat, i, k) ELSE new.dir
    BY <1>1
  <1> HIDE DEF s, t2, n
  <1>12. /\ Sound(t2, i2) /\ Has(t2, i2) = n + 1
         /\ \A k \in 0 .. ((n + 1) - 1) : Cell(t2, i2, k) = s[k]
         /\ Held(t2, i2) = {s[k] : k \in 0 .. ((n + 1) - 1)}
    BY <1>10, <1>11, SoundFrom
  <1>13. {s[k] : k \in 0 .. ((n + 1) - 1)} = Held(fat, i) \cup {new.dir}
    <2>1. ASSUME NEW k \in 0 .. ((n + 1) - 1) PROVE s[k] \in Held(fat, i) \cup {new.dir}
      BY <1>1, <1>5, <1>11
    <2>2. ASSUME NEW c \in Held(fat, i) PROVE \E k \in 0 .. ((n + 1) - 1) : c = s[k]
      <3>1. PICK k \in 0 .. (n - 1) : c = Cell(fat, i, k)
        BY <1>1 DEF Held
      <3>2. k \in 0 .. ((n + 1) - 1) /\ s[k] = c
        BY <1>1, <1>11, <3>1
      <3> QED BY <3>2
    <2>3. n \in 0 .. ((n + 1) - 1) /\ s[n] = new.dir
      BY <1>1, <1>11
    <2> QED BY <2>1, <2>2, <2>3
  <1>14. \A k \in 0 .. (n - 1) : Cell(t2, i2, k) = Cell(fat, i, k)
    BY <1>1, <1>11, <1>12
  <1>15. Cell(t2, i2, n) = new.dir
    BY <1>1, <1>11, <1>12
  <1> QED BY <1>10, <1>12, <1>13, <1>14, <1>15 DEF n, t2

\* exfat_free_cluster visits what is linked from where it begins.
Links(t, s, n) ==
  /\ \A k \in 0 .. (n - 1) : s[k] \in Clusters
  /\ \A j, k \in 0 .. (n - 1) : s[j] = s[k] => j = k
  /\ \A k \in 0 .. (n - 1) : t[s[k]] = IF k + 1 < n THEN s[k + 1] ELSE Eof

LEMMA VisitedLinked ==
  ASSUME NEW t, NEW s, NEW n \in Nat \ {0}, Links(t, s, n), NEW size \in Nat, size > 0
  PROVE  Visited(t, s[0], size, Linked) = {s[k] : k \in 0 .. (n - 1)}
  <1>1. /\ \A k \in 0 .. (n - 1) : s[k] \in Clusters
        /\ \A j, k \in 0 .. (n - 1) : s[j] = s[k] => j = k
        /\ \A k \in 0 .. (n - 1) : t[s[k]] = IF k + 1 < n THEN s[k + 1] ELSE Eof
    BY DEF Links
  <1>2. n <= NumClusters - 2 /\ n < NumClusters /\ NumClusters \in Nat
    BY <1>1, ChainFits, Numbers
  <1> DEFINE nth  == Walk(t, s[0])
             ends == {k \in 1 .. NumClusters : nth[k] \in {0, Eof}}
  <1>3. nth[n] = Eof /\ \A k \in 0 .. (n - 1) : nth[k] = s[k]
    BY <1>1, <1>2, WalkOf
  <1> HIDE DEF nth
  <1>4. n \in ends
    BY <1>2, <1>3
  <1>5. ASSUME NEW k \in ends PROVE n <= k
    <2> SUFFICES ASSUME k < n PROVE FALSE
      BY <1>2
    <2>1. k \in 0 .. (n - 1) /\ nth[k] \in {0, Eof}
      BY <1>2
    <2> QED BY <1>1, <1>3, <2>1, Numbers
  <1>6. Min(ends) = n
    <2>1. ends \subseteq Nat /\ ends # {}
      BY <1>2, <1>4
    <2> HIDE DEF ends
    <2>2. Min(ends) \in ends /\ Min(ends) <= n
      BY <1>4, <2>1, MinIsLeast
    <2>3. n <= Min(ends) /\ Min(ends) \in Nat
      BY <1>5, <2>1, <2>2
    <2> QED BY <2>2, <2>3
  <1>7. s[0] \in Clusters /\ s[0] \notin {0, Eof} /\ ~(size <= 0) /\ ends # {}
    BY <1>1, <1>4, Numbers
  <1>8. Visited(t, s[0], size, Linked) =
          {nth[k] : k \in 0 .. ((IF ends = {} THEN NumClusters ELSE Min(ends)) - 1)}
    <2>1. Linked # Contiguous
      BY Numbers
    <2> QED BY <1>7, <2>1 DEF Visited, nth
  <1>9. Visited(t, s[0], size, Linked) = {nth[k] : k \in 0 .. (n - 1)}
    BY <1>6, <1>7, <1>8
  <1> HIDE DEF ends
  <1> QED BY <1>3, <1>9

\* From the m-th cluster of a linked chain on.
LEMMA TailVisited ==
  ASSUME NEW t, NEW i, Shape(i), Sound(t, i), i.flags = Linked,
         NEW m \in Nat, m < Has(t, i), NEW t2,
         \A k \in m .. (Has(t, i) - 1) : t2[Cell(t, i, k)] = t[Cell(t, i, k)],
         NEW size \in Nat, size > 0
  PROVE  Visited(t2, Cell(t, i, m), size, Linked) =
           {Cell(t, i, k) : k \in m .. (Has(t, i) - 1)}
  <1> DEFINE h == Has(t, i)
             n == h - m
             s == [k \in 0 .. n |-> Cell(t, i, m + k)]
  <1>1. h \in Nat /\ n \in Nat \ {0} /\ \A k \in 0 .. (h - 1) : Cell(t, i, k) \in Clusters
    BY SoundFacts DEF Shape
  <1>2. Links(t2, s, n)
    <2>1. \A k \in 0 .. (n - 1) : s[k] \in Clusters
      BY <1>1
    <2>2. \A j, k \in 0 .. (n - 1) : s[j] = s[k] => j = k
      <3> SUFFICES ASSUME NEW j \in 0 .. (n - 1), NEW k \in 0 .. (n - 1), s[j] = s[k]
                   PROVE  j = k
        OBVIOUS
      <3>1. m + j \in 0 .. (h - 1) /\ m + k \in 0 .. (h - 1) /\ Cell(t, i, m + j) = Cell(t, i, m + k)
        BY <1>1
      <3>2. m + j = m + k
        BY <3>1 DEF Sound
      <3> QED BY <1>1, <3>2
    <2>3. ASSUME NEW k \in 0 .. (n - 1)
          PROVE  t2[s[k]] = IF k + 1 < n THEN s[k + 1] ELSE Eof
      <3>1. m + k \in 0 .. (h - 1) /\ m + k \in m .. (h - 1) /\ s[k] = Cell(t, i, m + k)
            /\ (m + k) + 1 = m + (k + 1) /\ (k + 1 < n <=> (m + k) + 1 < h)
        BY <1>1
      <3>2. k + 1 < n => s[k + 1] = Cell(t, i, (m + k) + 1)
        BY <1>1, <3>1
      <3>3. t[Cell(t, i, m + k)] = IF (m + k) + 1 < h THEN Cell(t, i, (m + k) + 1) ELSE Eof
        BY <3>1, ChainLinks
      <3>4. t2[Cell(t, i, m + k)] = t[Cell(t, i, m + k)]
        BY <3>1
      <3> HIDE DEF n, h, s
      <3> QED BY <3>1, <3>2, <3>3, <3>4
    <2> HIDE DEF s, n
    <2> QED BY <2>1, <2>2, <2>3 DEF Links
  <1>3. s[0] = Cell(t, i, m)
    BY <1>1
  <1>4. ASSUME NEW k \in 0 .. (n - 1) PROVE \E j \in m .. (h - 1) : s[k] = Cell(t, i, j)
    <2>1. m + k \in m .. (h - 1) /\ s[k] = Cell(t, i, m + k)
      BY <1>1
    <2> QED BY <2>1
  <1>5. ASSUME NEW j \in m .. (h - 1) PROVE \E k \in 0 .. (n - 1) : s[k] = Cell(t, i, j)
    <2>1. j - m \in 0 .. (n - 1) /\ m + (j - m) = j
      BY <1>1
    <2>2. s[j - m] = Cell(t, i, j)
      BY <1>1, <2>1
    <2> QED BY <2>1, <2>2
  <1> HIDE DEF s, n
  <1>6. Visited(t2, s[0], size, Linked) = {s[k] : k \in 0 .. (n - 1)}
    <2>1. n \in Nat \ {0}
      BY <1>1
    <2> QED BY <1>2, <2>1, VisitedLinked, Zenon
  <1> QED BY <1>3, <1>4, <1>5, <1>6

\* Freeing the chain of an inode reaches no cluster but its own.
LEMMA VisitedHeld ==
  ASSUME NEW t, NEW i, Shape(i), Sound(t, i)
  PROVE  Visited(t, i.start, i.isize, i.flags) \subseteq Held(t, i)
  <1>1. /\ Has(t, i) \in Nat /\ i.isize <= Has(t, i) /\ i.isize \in Nat /\ i.start \in Int
        /\ i.start # Eof => Has(t, i) > 0 /\ i.start = Cell(t, i, 0)
        /\ i.flags \in {Linked, Contiguous}
    BY SoundFacts DEF Shape
  <1>2. CASE i.start = Eof \/ i.isize = 0
    BY <1>2 DEF Visited
  <1>3. CASE i.start # Eof /\ i.isize # 0 /\ i.flags = Contiguous
    <2>1. Visited(t, i.start, i.isize, i.flags) \subseteq i.start .. (i.start + i.isize - 1)
      BY <1>3 DEF Visited
    <2>2. ASSUME NEW c \in i.start .. (i.start + i.isize - 1) PROVE c \in Held(t, i)
      <3>1. c - i.start \in 0 .. (Has(t, i) - 1) /\ i.start + (c - i.start) = c
        BY <1>1
      <3>2. Cell(t, i, c - i.start) = c
        BY <1>3, <3>1 DEF Cell
      <3> QED BY <3>1, <3>2 DEF Held
    <2> QED BY <2>1, <2>2
  <1>4. CASE i.start # Eof /\ i.isize # 0 /\ i.flags = Linked
    <2>1. 0 \in Nat /\ 0 < Has(t, i) /\ i.isize > 0
      BY <1>1, <1>4
    <2>2. Visited(t, Cell(t, i, 0), i.isize, Linked) = {Cell(t, i, k) : k \in 0 .. (Has(t, i) - 1)}
      BY <1>1, <1>4, <2>1, TailVisited
    <2> QED BY <1>1, <1>4, <2>2 DEF Held
  <1> QED BY <1>1, <1>2, <1>3, <1>4

\* What cutting a file at a smaller size does to inode, chain and FAT.
CutAt(i, i2, size) ==
  /\ i2.isize = size /\ i2.mmu = size /\ i2.at = Eof /\ i2.hoff = -1
  /\ i2.pages = {p \in i.pages : p[1] < size}
  /\ i2.flags = IF size = 0 THEN Contiguous ELSE i.flags
  /\ i2.start = IF size = 0 THEN Eof ELSE i.start
CutFat(t, i, size) ==
  IF i.flags = Linked /\ size > 0 THEN [t EXCEPT ![Walk(t, i.start)[size - 1]] = Eof] ELSE t
CutFrom(t, i, size) == IF i.flags = Contiguous THEN i.start + size ELSE Walk(t, i.start)[size]
CutLeft(i, size) == IF i.flags = Contiguous THEN i.isize - size ELSE i.isize
Cutoff(t, i, size) == Visited(CutFat(t, i, size), CutFrom(t, i, size), CutLeft(i, size), i.flags)

LEMMA ChainIsCut ==
  ASSUME NEW t \in [Clusters -> Clusters \cup {0, Eof}], NEW i, Shape(i), Sound(t, i), i.at = Eof,
         NEW size \in Nat, size < i.isize, NEW i2, Shape(i2), CutAt(i, i2, size)
  PROVE  LET t2 == CutFat(t, i, size)
             gone == Cutoff(t, i, size)
         IN /\ t2 \in [Clusters -> Clusters \cup {0, Eof}]
            /\ \A c \in Clusters \ Held(t, i) : t2[c] = t[c]
            /\ gone \subseteq Held(t, i)
            /\ Sound(t2, i2) /\ Has(t2, i2) = size
            /\ Held(t2, i2) \subseteq Held(t, i) \ gone
            /\ \A k \in 0 .. (size - 1) : Cell(t2, i2, k) = Cell(t, i, k)
  <1> DEFINE t2 == CutFat(t, i, size)
             gone == Cutoff(t, i, size)
             h == Has(t, i)
  <1>1. /\ h \in Nat /\ i.isize <= h /\ i.isize \in Nat /\ i.start \in Int
        /\ \A k \in 0 .. (h - 1) : Cell(t, i, k) \in Clusters
        /\ i.start # Eof => Has(t, i) > 0 /\ i.start = Cell(t, i, 0) /\ i.start \in Clusters
        /\ i.flags \in {Linked, Contiguous}
    BY SoundFacts DEF Shape
  <1>2. i.start # Eof /\ i.mmu = i.isize /\ size < h
    BY <1>1 DEF Sound
  <1>3. Linked # Contiguous /\ Eof \notin Clusters /\ 0 \notin Clusters
    BY Numbers
  <1>4. CASE size = 0
    <2>1. t2 = t
      BY <1>4 DEF CutFat
    <2>2. CutFrom(t, i, size) = i.start /\ CutLeft(i, size) = i.isize
      <3>1. CASE i.flags = Contiguous
        BY <1>1, <1>4, <3>1 DEF CutFrom, CutLeft
      <3>2. CASE i.flags = Linked
        BY <1>3, <1>4, <3>2, WalkSteps DEF CutFrom, CutLeft
      <3> QED BY <1>1, <3>1, <3>2
    <2>3. gone \subseteq Held(t, i)
      BY <2>1, <2>2, VisitedHeld DEF Cutoff
    <2>4. Bare(i2)
      <3>1. i2.pages = {}
        BY <1>4 DEF CutAt, Shape
      <3> QED BY <1>4, <3>1 DEF CutAt, Bare
    <2>5. Sound(t2, i2) /\ Has(t2, i2) = 0 /\ Held(t2, i2) = {}
      BY <2>4, BareIsSound
    <2> HIDE DEF t2, gone
    <2> QED BY <1>4, <2>1, <2>3, <2>5 DEF t2, gone
  <1>5. CASE size > 0 /\ i.flags = Contiguous
    <2>1. t2 = t
      BY <1>3, <1>5 DEF CutFat
    <2>2. Renews(t, i, i2, size)
      <3>1. \A p \in i2.pages : p[1] < i2.isize /\ p[2] = Cell(t, i, p[1])
        BY DEF CutAt, Sound
      <3> QED BY <1>1, <1>2, <1>3, <1>5, <3>1 DEF Renews, CutAt
    <2>3. /\ Sound(t, i2) /\ Has(t, i2) = size /\ Held(t, i2) \subseteq Held(t, i)
          /\ \A k \in 0 .. (size - 1) : Cell(t, i2, k) = Cell(t, i, k)
      BY <2>2, SoundAs
    <2>4. \A k : Cell(t, i, k) = i.start + k
      BY <1>5 DEF Cell
    <2>5. gone \subseteq (i.start + size) .. (i.start + i.isize - 1)
      <3>1. (i.start + size) + (i.isize - size) - 1 = i.start + i.isize - 1
        BY <1>1
      <3> QED BY <1>5, <2>1, <3>1 DEF Cutoff, CutFrom, CutLeft, Visited
    <2>6. ASSUME NEW c \in gone PROVE c \in Held(t, i)
      <3>0. c \in (i.start + size) .. (i.start + i.isize - 1)
        BY <2>5
      <3>1. c - i.start \in 0 .. (h - 1) /\ i.start + (c - i.start) = c
        BY <1>1, <3>0
      <3> QED BY <2>4, <3>1 DEF Held
    <2>7. ASSUME NEW c \in Held(t, i2), c \in gone PROVE FALSE
      <3>1. PICK k \in 0 .. (size - 1) : c = Cell(t, i2, k)
        BY <2>3 DEF Held
      <3>2. c = i.start + k
        BY <2>3, <2>4, <3>1
      <3>3. c \in (i.start + size) .. (i.start + i.isize - 1)
        BY <2>5, <2>7
      <3> QED BY <1>1, <3>1, <3>2, <3>3
    <2> HIDE DEF t2, gone
    <2> QED BY <2>1, <2>3, <2>6, <2>7 DEF t2, gone
  <1>6. CASE size > 0 /\ i.flags = Linked
    <2>1. \A k : Cell(t, i, k) = Walk(t, i.start)[k]
      BY <1>3, <1>6 DEF Cell
    <2> DEFINE last == Cell(t, i, size - 1)
    <2>2. t2 = [t EXCEPT ![last] = Eof]
      BY <1>6, <2>1 DEF CutFat
    <2>3. size - 1 \in 0 .. (h - 1) /\ last \in Clusters
      BY <1>1, <1>2, <1>6
    <2>4. \A k \in 0 .. (h - 1) : k # size - 1 => t2[Cell(t, i, k)] = t[Cell(t, i, k)]
      <3> SUFFICES ASSUME NEW k \in 0 .. (h - 1), k # size - 1
                   PROVE  t2[Cell(t, i, k)] = t[Cell(t, i, k)]
        OBVIOUS
      <3>1. Cell(t, i, k) # last
        BY <2>3 DEF Sound
      <3>2. Cell(t, i, k) \in Clusters
        BY <1>1
      <3> HIDE DEF last
      <3> QED BY <2>2, <3>1, <3>2
    <2>5. t2[last] = Eof
      BY <2>2, <2>3
    <2>6. gone = {Cell(t, i, k) : k \in size .. (h - 1)}
      <3>1. gone = Visited(t2, Cell(t, i, size), i.isize, Linked)
        BY <1>3, <1>6, <2>1 DEF Cutoff, CutFrom, CutLeft
      <3>2. \A k \in size .. (h - 1) : t2[Cell(t, i, k)] = t[Cell(t, i, k)]
        BY <2>4
      <3>3. i.isize > 0
        BY <1>1
      <3> HIDE DEF t2, gone
      <3> QED BY <1>1, <1>2, <1>6, <3>1, <3>2, <3>3, TailVisited
    <2> DEFINE s == [k \in 0 .. size |-> Cell(t, i, k)]
    <2>7. Spells(t2, i2, s, size)
      <3>1. i2.start # Eof /\ s[0] = i2.start /\ i2.flags = Linked
        BY <1>1, <1>2, <1>6 DEF CutAt
      <3>2. \A k \in 0 .. (size - 1) : s[k] \in Clusters
        BY <1>1, <1>2
      <3>3. \A j, k \in 0 .. (size - 1) : s[j] = s[k] => j = k
        BY <1>1, <1>2 DEF Sound
      <3>4. i2.isize \in {size - 1, size} /\ i2.isize > 0 /\ ~(i2.hoff > 0)
        BY <1>6 DEF CutAt
      <3>5. ASSUME NEW k \in 0 .. (size - 1)
            PROVE  t2[s[k]] = IF k + 1 < size THEN s[k + 1] ELSE Eof
        <4>1. k \in 0 .. (h - 1) /\ s[k] = Cell(t, i, k)
          BY <1>1, <1>2
        <4>2. CASE k = size - 1
          BY <2>5, <4>1, <4>2
        <4>3. CASE k # size - 1
          <5>1. k + 1 < size /\ k + 1 < h /\ s[k + 1] = Cell(t, i, k + 1)
            BY <1>1, <1>2, <4>3
          <5>2. t[Cell(t, i, k)] = Cell(t, i, k + 1)
            BY <1>6, <4>1, <5>1, ChainLinks
          <5>3. t2[Cell(t, i, k)] = t[Cell(t, i, k)]
            BY <2>4, <4>1, <4>3
          <5> QED BY <4>1, <5>1, <5>2, <5>3
        <4> QED BY <4>2, <4>3
      <3>6. i2.mmu = i2.isize + (IF i2.at = Eof THEN 0 ELSE 1) /\ i2.at = Eof
        BY DEF CutAt
      <3>7. \A p \in i2.pages : p[1] < i2.isize /\ p[2] = s[p[1]]
        <4> SUFFICES ASSUME NEW p \in i.pages, p[1] < size PROVE p[2] = s[p[1]]
          BY DEF CutAt
        <4>1. p[1] \in Nat /\ p[2] = Cell(t, i, p[1])
          BY DEF Sound, Shape
        <4> QED BY <4>1
      <3> HIDE DEF s, t2
      <3> QED BY <1>3, <3>1, <3>2, <3>3, <3>4, <3>5, <3>6, <3>7 DEF Spells
    <2>8. size \in Nat \ {0}
      BY <1>6
    <2>9. \A k \in 0 .. (size - 1) : s[k] = Cell(t, i, k)
      OBVIOUS
    <2>10. t2 \in [Clusters -> Clusters \cup {0, Eof}]
      BY <2>2
    <2>11. \A c \in Clusters \ Held(t, i) : t2[c] = t[c]
      <3>1. last \in Held(t, i)
        BY <2>3 DEF Held
      <3> HIDE DEF last
      <3> QED BY <2>2, <3>1
    <2>12. gone \subseteq Held(t, i)
      <3> HIDE DEF gone
      <3>1. ASSUME NEW k \in size .. (h - 1) PROVE Cell(t, i, k) \in Held(t, i)
        BY <1>1 DEF Held
      <3> QED BY <2>6, <3>1
    <2> HIDE DEF s, t2, gone, h
    <2>13. /\ Sound(t2, i2) /\ Has(t2, i2) = size
           /\ \A k \in 0 .. (size - 1) : Cell(t2, i2, k) = s[k]
           /\ Held(t2, i2) = {s[k] : k \in 0 .. (size - 1)}
      BY <2>7, <2>8, SoundFrom
    <2>14. ASSUME NEW k \in 0 .. (size - 1) PROVE s[k] \in Held(t, i) \ gone
      <3>1. k \in 0 .. (h - 1)
        BY <1>1, <1>2
      <3>2. s[k] \in Held(t, i)
        BY <2>9, <3>1 DEF Held, h
      <3>3. ASSUME s[k] \in gone PROVE FALSE
        <4>1. PICK j \in size .. (h - 1) : s[k] = Cell(t, i, j)
          BY <2>6, <3>3
        <4>2. j \in 0 .. (h - 1) /\ j # k
          BY <1>1, <3>1, <4>1
        <4>3. Cell(t, i, j) = Cell(t, i, k)
          BY <2>9, <4>1
        <4> QED BY <3>1, <4>2, <4>3 DEF Sound, h
      <3> QED BY <3>2, <3>3
    <2>15. Held(t2, i2) \subseteq Held(t, i) \ gone
      BY <2>13, <2>14
    <2> QED BY <2>9, <2>10, <2>11, <2>12, <2>13, <2>15 DEF t2, gone
  <1> QED BY <1>1, <1>4, <1>5, <1>6

-------------------------------------------------------------------------------
(* The operations, one lemma each: the inductive invariant is kept *)

\* What this module proves is about a driver whose users let go of a file before
\* it is unlinked and that finds memory for the copy of an entry: with either
\* left out the model loses clusters of other files.
Ordinary == HoldOpen = {} /\ EntryFails = FALSE

LEMMA EntryFields ==
  ASSUME NEW e \in Entries
  PROVE  /\ e.file \in Files /\ e.clu0 \in Clusters \cup {0, Eof} /\ e.clu0 \in Int
         /\ e.flags \in {Linked, Contiguous} /\ e.size \in Nat
  <1>1. /\ e.file \in Files /\ e.clu0 \in Clusters \cup {0, Eof}
        /\ e.flags \in {Linked, Contiguous} /\ e.size \in Nat
    BY DEF Entries
  <1>2. \A c \in Clusters \cup {0, Eof} : c \in Int
    BY Numbers
  <1>3. e.clu0 \in Int
    BY <1>1, <1>2
  <1> QED BY <1>1, <1>3

LEMMA AbsentIsBare ==
  ASSUME NEW st, NEW slot
  PROVE  Bare(Absent(st, slot)) /\ Shape(Absent(st, slot))
  BY Numbers DEF Bare, Absent, Shape

LEMMA AbsentTyped ==
  ASSUME NEW st \in {"absent", "cached", "evicted"}, NEW slot \in Slots \cup {NoEntry}
  PROVE  Absent(st, slot) \in Inodes
  <1>1. /\ 0 \in Nat /\ -1 \in Nat \cup {-1} /\ {} \in SUBSET (Nat \X Clusters)
        /\ FALSE \in BOOLEAN /\ NoSize \in Nat \cup {NoSize}
    OBVIOUS
  <1> QED BY <1>1 DEF Absent, Inodes

LEMMA FromEntryFields ==
  ASSUME NEW slot, entry[slot] \in Entries
  PROVE  LET i == FromEntry(slot)
             e == entry[slot]
         IN /\ i.isize = e.size /\ i.mmu = e.size /\ i.at = Eof /\ i.pages = {} /\ i.hoff = -1
            /\ i.hclu = Eof /\ i.st = "cached" /\ i.slot = slot /\ i.dirty = FALSE
            /\ i.cut = NoSize /\ i.wrote = NoSize
            /\ i.flags = (IF e.size = 0 THEN Contiguous ELSE e.flags)
            /\ i.start = (IF e.size = 0 THEN Eof ELSE e.clu0)
            /\ Shape(i)
  <1> DEFINE i == FromEntry(slot)
             e == entry[slot]
  <1>1. /\ i.isize = e.size /\ i.mmu = e.size /\ i.at = Eof /\ i.pages = {} /\ i.hoff = -1
        /\ i.hclu = Eof /\ i.st = "cached" /\ i.slot = slot /\ i.dirty = FALSE
        /\ i.cut = NoSize /\ i.wrote = NoSize
        /\ i.flags = (IF e.size = 0 THEN Contiguous ELSE e.flags)
        /\ i.start = (IF e.size = 0 THEN Eof ELSE e.clu0)
    BY DEF FromEntry, Absent
  <1> HIDE DEF i
  <1>2. e.size \in Nat /\ e.flags \in {Linked, Contiguous} /\ e.clu0 \in Int
    BY EntryFields
  <1>3. Shape(i)
    BY <1>1, <1>2, Numbers DEF Shape
  <1> QED BY <1>1, <1>3 DEF i

\* What is known of one file.
LEMMA FileFacts ==
  ASSUME IInv, NEW f \in Files
  PROVE  /\ ino[f] \in Inodes /\ Placed(f) /\ Shape(Inode(f))
         /\ Sound(fat, Chain(f)) /\ Shape(Chain(f))
         /\ Held(fat, Chain(f)) \subseteq taken \ Reserved
         /\ Chain(f).start = Inode(f).start /\ Chain(f).flags = Inode(f).flags
         /\ Chain(f).mmu = Inode(f).mmu /\ Inode(f).isize <= Chain(f).isize
         /\ Inode(f).cut = NoSize => Chain(f) = Inode(f)
         /\ ino[f].st # "evicted" => Inode(f) = ino[f]
         /\ ino[f].st = "evicted" => Inode(f) = FromEntry(ino[f].slot)
         /\ ino[f].st # "cached" => Chain(f) = Inode(f) /\ Inode(f).cut = NoSize
         /\ ino[f].st # "absent" => /\ ino[f].slot \in Slots /\ entry[ino[f].slot] \in Entries
                                    /\ entry[ino[f].slot].file = f
                                    /\ entry[ino[f].slot] # NoEntry
  <1>1. ino[f] \in Inodes /\ Placed(f) /\ Sound(fat, Chain(f))
        /\ Held(fat, Chain(f)) \subseteq taken \ Reserved
    BY DEF IInv, Records, Chained
  <1>2. /\ ino[f].st # "evicted" => Inode(f) = ino[f]
        /\ ino[f].st = "evicted" => Inode(f) = FromEntry(ino[f].slot)
    BY DEF Inode
  <1>3. ino[f].st # "absent" => /\ ino[f].slot \in Slots /\ entry[ino[f].slot] \in Entries
                                /\ entry[ino[f].slot].file = f
                                /\ entry[ino[f].slot] # NoEntry
    <2> SUFFICES ASSUME ino[f].st # "absent"
                 PROVE  /\ ino[f].slot \in Slots /\ entry[ino[f].slot] \in Entries
                        /\ entry[ino[f].slot].file = f /\ entry[ino[f].slot] # NoEntry
      OBVIOUS
    <2>1. ino[f].st \in {"cached", "evicted"}
      BY <1>1, InodeFields
    <2>2. ino[f].slot \in Slots /\ entry[ino[f].slot].file = f /\ entry[ino[f].slot] # NoEntry
      BY <1>1, <2>1 DEF Placed
    <2>3. entry \in [Slots -> Entries \cup {NoEntry}]
      BY DEF IInv, Records
    <2> QED BY <2>2, <2>3
  <1>4. Inode(f).cut = NoSize => Chain(f) = Inode(f)
    BY DEF Chain, Whole
  <1>5. ino[f].st # "cached" => Inode(f).cut = NoSize
    <2>1. CASE ino[f].st = "evicted"
      BY <1>2, <2>1 DEF FromEntry, Absent
    <2>2. CASE ino[f].st = "absent"
      BY <1>1, <1>2, <2>2 DEF Placed, Absent
    <2> QED BY <1>1, <2>1, <2>2, InodeFields
  <1>6. Shape(Inode(f))
    <2>1. CASE ino[f].st = "evicted"
      BY <1>2, <1>3, <2>1, FromEntryFields
    <2>2. CASE ino[f].st # "evicted"
      BY <1>1, <1>2, <2>2, InodeShape
    <2> QED BY <2>1, <2>2
  <1>7. /\ Shape(Chain(f)) /\ Chain(f).start = Inode(f).start /\ Chain(f).flags = Inode(f).flags
        /\ Chain(f).mmu = Inode(f).mmu /\ Inode(f).isize <= Chain(f).isize
    <2>1. CASE Inode(f).cut = NoSize
      BY <1>4, <1>6, <2>1 DEF Shape
    <2>2. CASE Inode(f).cut # NoSize
      <3>1. ino[f].st = "cached" /\ Inode(f) = ino[f]
        BY <1>2, <1>5, <2>2
      <3>2. ino[f].isize < ino[f].cut /\ ino[f].cut \in Nat /\ ino[f].isize \in Nat
        BY <1>1, <2>2, <3>1, InodeFields DEF Placed, Agrees
      <3>3. Chain(f) = Whole(ino[f])
        BY <3>1 DEF Chain
      <3> QED BY <1>1, <2>2, <3>1, <3>2, <3>3, WholeFields
    <2> QED BY <2>1, <2>2
  <1> QED BY <1>1, <1>2, <1>3, <1>4, <1>5, <1>6, <1>7

LEMMA SlotsDiffer ==
  ASSUME IInv, NEW f \in Files, NEW g \in Files, f # g,
         ino[f].st # "absent", ino[g].st # "absent"
  PROVE  ino[f].slot # ino[g].slot
  BY FileFacts

\* Only the chain of one file moves, and only to clusters that were free.
LEMMA ChainedAgain ==
  ASSUME IInv, NEW f \in Files,
         Sound(fat', Chain(f)'), Held(fat', Chain(f)') \subseteq taken',
         Held(fat', Chain(f)') \subseteq Held(fat, Chain(f)) \cup (Clusters \ taken),
         \A g \in Files \ {f} : /\ Sound(fat', Chain(g)')
                                /\ Held(fat', Chain(g)') \subseteq Held(fat, Chain(g))
                                /\ Held(fat', Chain(g)') \subseteq taken'
  PROVE  Chained'
  <1>1. \A g \in Files : /\ Held(fat, Chain(g)) \subseteq taken \ Reserved
                         /\ \A h \in Files \ {g} : Held(fat, Chain(g)) \cap Held(fat, Chain(h)) = {}
    BY DEF IInv, Chained
  <1>2. Reserved \subseteq taken
    BY DEF IInv, VolumeOK
  <1>3. ASSUME NEW g \in Files
        PROVE  Sound(fat', Chain(g)') /\ Held(fat', Chain(g)') \subseteq taken' \ Reserved
    <2>1. CASE g = f
      BY <1>1, <1>2, <2>1
    <2>2. CASE g # f
      BY <1>1, <2>2
    <2> QED BY <2>1, <2>2
  <1>4. ASSUME NEW g \in Files, NEW h \in Files \ {g}
        PROVE  Held(fat', Chain(g)') \cap Held(fat', Chain(h)') = {}
    <2> DEFINE G == Held(fat, Chain(g))
               H == Held(fat, Chain(h))
               G2 == Held(fat', Chain(g)')
               H2 == Held(fat', Chain(h)')
    <2>1. G \cap H = {} /\ G \subseteq taken /\ H \subseteq taken
      BY <1>1
    <2>2. (G2 \subseteq G \/ g = f) /\ (H2 \subseteq H \/ h = f)
      OBVIOUS
    <2>3. G2 \subseteq G \cup (Clusters \ taken) /\ H2 \subseteq H \cup (Clusters \ taken)
      OBVIOUS
    <2> HIDE DEF G, H, G2, H2
    <2>4. G2 \cap H2 = {}
      <3>1. CASE g = f
        BY <2>1, <2>2, <2>3, <3>1
      <3>2. CASE g # f
        BY <2>1, <2>2, <2>3, <3>2
      <3> QED BY <3>1, <3>2
    <2> QED BY <2>4 DEF G2, H2
  <1>5. ASSUME NEW g \in Files
        PROVE /\ Sound(fat', Chain(g)')
              /\ Held(fat', Chain(g)') \subseteq taken' \ Reserved
              /\ \A h \in Files \ {g} : Held(fat', Chain(g)') \cap Held(fat', Chain(h)') = {}
    BY <1>3, <1>4
  <1> QED BY <1>5 DEF Chained

\* A file none of whose records and clusters a call touches.
LEMMA Untouched ==
  ASSUME IInv, NEW g \in Files, ino'[g] = ino[g],
         ino[g].st # "absent" => entry'[ino[g].slot] = entry[ino[g].slot],
         \A c \in Held(fat, Chain(g)) : c \in taken' /\ fat'[c] = fat[c]
  PROVE  /\ Inode(g)' = Inode(g) /\ Chain(g)' = Chain(g) /\ Placed(g)'
         /\ Sound(fat', Chain(g)') /\ Held(fat', Chain(g)') = Held(fat, Chain(g))
         /\ Held(fat', Chain(g)') \subseteq taken'
         /\ Has(fat', Chain(g)') = Has(fat, Chain(g))
         /\ \A k \in 0 .. (Has(fat, Chain(g)) - 1) :
              Cell(fat', Chain(g)', k) = Cell(fat, Chain(g), k)
  <1>1. Placed(g) /\ Sound(fat, Chain(g)) /\ Shape(Chain(g))
    BY FileFacts
  <1>2. Inode(g)' = Inode(g)
    <2>1. CASE ino[g].st = "evicted"
      BY <2>1 DEF Inode, FromEntry
    <2>2. CASE ino[g].st # "evicted"
      BY <2>2 DEF Inode
    <2> QED BY <2>1, <2>2
  <1>3. Chain(g)' = Chain(g)
    BY <1>2 DEF Chain
  <1>4. Placed(g)'
    <2>1. ino[g].st \in {"cached", "evicted"} => entry'[ino[g].slot] = entry[ino[g].slot]
      OBVIOUS
    <2> QED BY <1>1, <1>2, <2>1 DEF Placed
  <1>5. /\ Sound(fat', Chain(g)) /\ Has(fat', Chain(g)) = Has(fat, Chain(g))
        /\ Held(fat', Chain(g)) = Held(fat, Chain(g))
        /\ \A k \in 0 .. (Has(fat, Chain(g)) - 1) : Cell(fat', Chain(g), k) = Cell(fat, Chain(g), k)
    <2>1. \A c \in Held(fat, Chain(g)) : fat'[c] = fat[c]
      OBVIOUS
    <2> QED BY <1>1, <2>1, SoundStays
  <1> QED BY <1>2, <1>3, <1>4, <1>5

\* What a call on one file does to the others: nothing.
OthersKept(f) ==
  /\ \A g \in Files \ {f} : /\ ino'[g] = ino[g]
                            /\ ino[g].st # "absent" => entry'[ino[g].slot] = entry[ino[g].slot]
  /\ \A c \in taken \ Held(fat, Chain(f)) : c \in taken' /\ fat'[c] = fat[c]

LEMMA OthersUntouched ==
  ASSUME IInv, NEW f \in Files, OthersKept(f), NEW g \in Files, g # f
  PROVE  /\ Inode(g)' = Inode(g) /\ Chain(g)' = Chain(g) /\ Placed(g)'
         /\ Sound(fat', Chain(g)') /\ Held(fat', Chain(g)') = Held(fat, Chain(g))
         /\ Held(fat', Chain(g)') \subseteq taken'
         /\ Has(fat', Chain(g)') = Has(fat, Chain(g))
         /\ \A k \in 0 .. (Has(fat, Chain(g)) - 1) :
              Cell(fat', Chain(g)', k) = Cell(fat, Chain(g), k)
  <1>1. Held(fat, Chain(g)) \subseteq taken \ Held(fat, Chain(f))
    BY DEF IInv, Chained
  <1>2. /\ ino'[g] = ino[g]
        /\ ino[g].st # "absent" => entry'[ino[g].slot] = entry[ino[g].slot]
        /\ \A c \in Held(fat, Chain(g)) : c \in taken' /\ fat'[c] = fat[c]
    BY <1>1 DEF OthersKept
  <1> QED BY <1>2, Untouched

LEMMA OneFileMoves ==
  ASSUME IInv, NEW f \in Files, OthersKept(f), VolumeOK', Records', Placed(f)',
         Sound(fat', Chain(f)'), Held(fat', Chain(f)') \subseteq taken',
         Held(fat', Chain(f)') \subseteq Held(fat, Chain(f)) \cup (Clusters \ taken)
  PROVE  IInv'
  <1>1. \A g \in Files \ {f} : /\ Sound(fat', Chain(g)') /\ Placed(g)'
                               /\ Held(fat', Chain(g)') \subseteq Held(fat, Chain(g))
                               /\ Held(fat', Chain(g)') \subseteq taken'
    BY OthersUntouched
  <1>2. Chained'
    BY <1>1, ChainedAgain
  <1>3. \A g \in Files : Placed(g)'
    BY <1>1
  <1> QED BY <1>2, <1>3 DEF IInv

LEMMA EntryIsThere == NoEntry \notin Entries
  <1> SUFFICES ASSUME NoEntry \in Entries PROVE FALSE
    OBVIOUS
  <1>1. \A c \in Clusters \cup {0, Eof} : c \in Int
    BY Numbers
  <1>2. NoEntry \in [file : Files, clu0 : Int, flags : {Linked, Contiguous}, size : Nat]
    BY <1>1 DEF Entries
  <1> QED BY <1>2, FilesAssumption

\* An inode that differs in nothing a chain depends on, but may have fewer pages.
SameChainOf(i, i2) ==
  /\ i2.start = i.start /\ i2.flags = i.flags /\ i2.isize = i.isize /\ i2.mmu = i.mmu
  /\ i2.at = i.at /\ i2.pages \subseteq i.pages /\ i2.hoff = i.hoff /\ i2.hclu = i.hclu

LEMMA SameChain ==
  ASSUME NEW t, NEW i, NEW i2, Sound(t, i), SameChainOf(i, i2)
  PROVE  /\ Sound(t, i2) /\ Has(t, i2) = Has(t, i) /\ Held(t, i2) = Held(t, i)
         /\ \A k : Cell(t, i2, k) = Cell(t, i, k)
  <1>1. Has(t, i2) = Has(t, i)
    BY DEF Has, SameChainOf
  <1>2. \A k : Cell(t, i2, k) = Cell(t, i, k)
    BY DEF Cell, SameChainOf
  <1>3. Held(t, i2) = Held(t, i)
    BY <1>1, <1>2 DEF Held
  <1>4. Sound(t, i2)
    BY <1>1, <1>2, <1>3 DEF Sound, SameChainOf
  <1> QED BY <1>1, <1>2, <1>3, <1>4

LEMMA StartTyped ==
  ASSUME NEW t, NEW i, Shape(i), Sound(t, i)
  PROVE  i.start \in Clusters \cup {Eof}
  BY SoundFacts DEF Shape

\* A call that allocates and frees nothing.
LEMMA InodeMoves ==
  ASSUME IInv, NEW f \in Files, UNCHANGED clusterVars, Records', Placed(f)',
         \A g \in Files \ {f} : /\ ino'[g] = ino[g]
                                /\ ino[g].st # "absent" => entry'[ino[g].slot] = entry[ino[g].slot],
         Sound(fat, Chain(f)'), Held(fat, Chain(f)') \subseteq Held(fat, Chain(f))
  PROVE  IInv'
  <1>1. taken' = taken /\ fat' = fat /\ srch' = srch /\ used' = used
    BY DEF clusterVars
  <1>2. VolumeOK'
    BY <1>1 DEF IInv, VolumeOK, Volume, Counted
  <1>3. OthersKept(f)
    BY <1>1 DEF OthersKept
  <1>4. Held(fat, Chain(f)) \subseteq taken
    BY FileFacts
  <1>5. /\ Sound(fat', Chain(f)') /\ Held(fat', Chain(f)') \subseteq taken'
        /\ Held(fat', Chain(f)') \subseteq Held(fat, Chain(f)) \cup (Clusters \ taken)
    BY <1>1, <1>4
  <1> QED BY <1>2, <1>3, <1>5, OneFileMoves

LEMMA CreateKeeps ==
  ASSUME IInv, NEW f \in Files, NEW s \in Slots, exfat_create(f, s)
  PROVE  IInv'
  <1> DEFINE e == [file |-> f, clu0 |-> 0, flags |-> Linked, size |-> 0]
  <1>1. /\ ino[f].st = "absent" /\ entry[s] = NoEntry /\ UNCHANGED clusterVars
        /\ entry' = [entry EXCEPT ![s] = e] /\ ino' = [ino EXCEPT ![f] = Absent("cached", s)]
    BY DEF exfat_create, FreeSlot
  <1>2. e \in Entries
    BY DEF Entries
  <1>3. entry \in [Slots -> Entries \cup {NoEntry}] /\ ino \in [Files -> Inodes]
    BY DEF IInv, Records
  <1>4. ino'[f] = Absent("cached", s) /\ entry'[s] = e
    BY <1>1, <1>3
  <1>5. Absent("cached", s) \in Inodes
    BY AbsentTyped
  <1>6. Records'
    <2> HIDE DEF e
    <2> QED BY <1>1, <1>2, <1>3, <1>5 DEF Records
  <1>7. Inode(f)' = Absent("cached", s) /\ Chain(f)' = Absent("cached", s)
    <2>1. Inode(f)' = Absent("cached", s)
      BY <1>4 DEF Inode, Absent
    <2> QED BY <2>1 DEF Chain, Whole, Absent
  <1>8. Bare(Inode(f)') /\ Bare(Chain(f)')
    BY <1>7, AbsentIsBare
  <1>9. Sound(fat, Chain(f)') /\ Held(fat, Chain(f)') = {}
    BY <1>8, BareIsSound
  <1>10. Placed(f)'
    <2>1. /\ ino'[f].st = "cached" /\ ino'[f].slot = s /\ ino'[f].start = Eof
          /\ ino'[f].isize = 0 /\ ino'[f].wrote = NoSize /\ ino'[f].cut = NoSize
      BY <1>4 DEF Absent
    <2>2. entry'[s] # NoEntry /\ entry'[s].file = f /\ entry'[s].size = 0
      BY <1>2, <1>4, EntryIsThere
    <2>3. Inode(f)'.mmu <= MaxSize[f]
      BY <1>8, FilesAssumption DEF Bare
    <2>4. MaxSize[f] \in Nat /\ NoSize <= MaxSize[f]
      BY FilesAssumption DEF NoSize
    <2>5. Agrees(entry'[s], ino'[f], MaxSize[f])
      BY <2>1, <2>2, <2>4 DEF Agrees
    <2> QED BY <2>1, <2>2, <2>3, <2>5 DEF Placed
  <1>11. ASSUME NEW g \in Files \ {f}
         PROVE  /\ ino'[g] = ino[g]
                /\ ino[g].st # "absent" => entry'[ino[g].slot] = entry[ino[g].slot]
    <2>1. ino[g].st # "absent" => ino[g].slot \in Slots /\ entry[ino[g].slot] # NoEntry
      BY FileFacts
    <2> QED BY <1>1, <1>3, <2>1
  <1> QED BY <1>1, <1>6, <1>9, <1>10, <1>11, InodeMoves

LEMMA LookupKeeps ==
  ASSUME IInv, NEW f \in Files, exfat_lookup(f)
  PROVE  IInv' /\ Inode(f)' = Inode(f)
  <1> DEFINE i == FromEntry(ino[f].slot)
             e == entry[ino[f].slot]
  <1>1. /\ ino[f].st = "evicted" /\ UNCHANGED clusterVars /\ entry' = entry
        /\ ino' = [ino EXCEPT ![f] = i]
    BY DEF exfat_lookup, FromEntry
  <1>2. /\ Inode(f) = i /\ ino[f].slot \in Slots /\ e \in Entries
        /\ e.file = f /\ e # NoEntry /\ Sound(fat, i) /\ Shape(i)
        /\ Chain(f) = i
    BY <1>1, FileFacts
  <1>3. /\ i.isize = e.size /\ i.mmu = e.size /\ i.at = Eof /\ i.pages = {} /\ i.hoff = -1
        /\ i.hclu = Eof /\ i.st = "cached" /\ i.slot = ino[f].slot /\ i.dirty = FALSE
        /\ i.cut = NoSize /\ i.wrote = NoSize
        /\ i.flags = (IF e.size = 0 THEN Contiguous ELSE e.flags)
        /\ i.start = (IF e.size = 0 THEN Eof ELSE e.clu0)
    BY <1>2, FromEntryFields
  <1>4. e.size \in Nat /\ e.flags \in {Linked, Contiguous}
    BY <1>2, EntryFields
  <1>5. i.start \in Clusters \cup {Eof}
    BY <1>2, StartTyped
  <1>7. i \in Inodes
    <2> DEFINE r == Absent("cached", ino[f].slot)
               flags == IF e.size = 0 THEN Contiguous ELSE e.flags
               start == IF e.size = 0 THEN Eof ELSE e.clu0
               size == e.size
    <2>1. r \in Inodes
      BY <1>2, AbsentTyped
    <2>2. i = [r EXCEPT !.isize = size, !.mmu = size, !.flags = flags, !.start = start]
      BY DEF FromEntry
    <2>3. flags \in {Linked, Contiguous} /\ start \in Clusters \cup {Eof} /\ size \in Nat
      BY <1>3, <1>4, <1>5
    <2> HIDE DEF r, flags, start, size
    <2> QED BY <2>1, <2>2, <2>3 DEF Inodes
  <1>8. entry \in [Slots -> Entries \cup {NoEntry}] /\ ino \in [Files -> Inodes]
    BY DEF IInv, Records
  <1> HIDE DEF i
  <1>9. ino'[f] = i /\ \A g \in Files \ {f} : ino'[g] = ino[g]
    BY <1>1, <1>8
  <1>10. Records'
    BY <1>1, <1>7, <1>8 DEF Records
  <1>11. Inode(f)' = i /\ Chain(f)' = i
    <2>1. Inode(f)' = i
      BY <1>3, <1>9 DEF Inode
    <2> QED BY <1>3, <2>1 DEF Chain, Whole
  <1>12. Inode(f)'.mmu <= MaxSize[f]
    BY <1>2, <1>11, FileFacts DEF Placed
  <1>13. Placed(f)'
    <2>1. MaxSize[f] \in Nat /\ NoSize <= MaxSize[f]
      BY FilesAssumption DEF NoSize
    <2>2. Agrees(e, i, MaxSize[f])
      BY <1>2, <1>3, <1>4, <1>11, <1>12, <2>1 DEF Agrees
    <2> QED BY <1>1, <1>2, <1>3, <1>4, <1>9, <1>12, <2>2 DEF Placed
  <1>14. IInv'
    BY <1>1, <1>2, <1>9, <1>10, <1>11, <1>13, InodeMoves
  <1> QED BY <1>2, <1>11, <1>14

\* What is known of a file whose inode is in memory.
LEMMA LiveFacts ==
  ASSUME IInv, NEW f \in Files, ino[f].st = "cached"
  PROVE  /\ Inode(f) = ino[f] /\ Chain(f) = Whole(ino[f])
         /\ ino[f] \in Inodes /\ Shape(ino[f])
         /\ Shape(Whole(ino[f])) /\ Sound(fat, Whole(ino[f]))
         /\ Held(fat, Whole(ino[f])) \subseteq taken \ Reserved
         /\ ino[f].slot \in Slots /\ entry[ino[f].slot] \in Entries
         /\ entry[ino[f].slot] # NoEntry /\ entry[ino[f].slot].file = f
         /\ Agrees(entry[ino[f].slot], ino[f], MaxSize[f])
         /\ ino[f].start # Eof => /\ entry[ino[f].slot].clu0 = ino[f].start
                                  /\ entry[ino[f].slot].flags = ino[f].flags
         /\ ino[f].mmu <= MaxSize[f] /\ MaxSize[f] \in Nat
         /\ ino[f].isize \in Nat /\ ino[f].isize <= ino[f].mmu
         /\ ino[f].flags \in {Linked, Contiguous} /\ ino[f].mmu \in Nat
  <1>1. /\ Inode(f) = ino[f] /\ ino[f] \in Inodes /\ Shape(ino[f])
        /\ Sound(fat, Chain(f)) /\ Shape(Chain(f))
        /\ Held(fat, Chain(f)) \subseteq taken \ Reserved
        /\ ino[f].slot \in Slots /\ entry[ino[f].slot] \in Entries
        /\ entry[ino[f].slot] # NoEntry /\ entry[ino[f].slot].file = f /\ Placed(f)
        /\ Chain(f).mmu = ino[f].mmu /\ ino[f].isize <= Chain(f).isize
    BY FileFacts
  <1>2. /\ Agrees(entry[ino[f].slot], ino[f], MaxSize[f]) /\ ino[f].mmu <= MaxSize[f]
    BY <1>1 DEF Placed
  <1>3. Chain(f) = Whole(ino[f])
    BY <1>1 DEF Chain
  <1>4. MaxSize[f] \in Nat
    BY FilesAssumption
  <1>5. ino[f].isize \in Nat /\ ino[f].isize <= ino[f].mmu /\ ino[f].mmu \in Nat
        /\ ino[f].flags \in {Linked, Contiguous}
    BY <1>1 DEF Sound, Shape
  <1>6. ino[f].start # Eof => /\ entry[ino[f].slot].clu0 = ino[f].start
                              /\ entry[ino[f].slot].flags = ino[f].flags
    BY <1>2 DEF Agrees
  <1> QED BY <1>1, <1>2, <1>3, <1>4, <1>5, <1>6

\* ... and is not being cut.
LEMMA UncutFacts ==
  ASSUME IInv, NEW f \in Files, ino[f].st = "cached", ino[f].cut = NoSize
  PROVE  /\ Chain(f) = ino[f] /\ Whole(ino[f]) = ino[f] /\ Sound(fat, ino[f])
         /\ Held(fat, ino[f]) \subseteq taken \ Reserved
  <1>1. Whole(ino[f]) = ino[f]
    BY DEF Whole
  <1> QED BY <1>1, LiveFacts

LEMMA UsableIsLive ==
  ASSUME Ordinary, NEW f, Usable(f)
  PROVE  ino[f].st = "cached"
  BY DEF Ordinary, Usable, Live

LEMMA WritingIsLive ==
  ASSUME IInv, NEW f \in Files, ino[f].at # Eof
  PROVE  ino[f].st = "cached" /\ ino[f].cut = NoSize
  <1>1. ino[f] \in Inodes /\ Placed(f)
    BY FileFacts
  <1>2. ino[f].st # "absent" /\ ino[f].st # "evicted"
    BY <1>1 DEF Placed, Absent
  <1>3. ino[f].st = "cached"
    BY <1>1, <1>2, InodeFields
  <1>4. Agrees(entry[ino[f].slot], ino[f], MaxSize[f])
    BY <1>3, LiveFacts
  <1> QED BY <1>3, <1>4 DEF Agrees

LEMMA CuttingIsLive ==
  ASSUME IInv, NEW f \in Files, ino[f].cut # NoSize
  PROVE  ino[f].st = "cached" /\ ino[f].at = Eof
  <1>1. ino[f] \in Inodes /\ Placed(f)
    BY FileFacts
  <1>2. ino[f].st # "absent" /\ ino[f].st # "evicted"
    BY <1>1 DEF Placed, Absent
  <1>3. ino[f].st = "cached"
    BY <1>1, <1>2, InodeFields
  <1>4. Agrees(entry[ino[f].slot], ino[f], MaxSize[f])
    BY <1>3, LiveFacts
  <1> QED BY <1>3, <1>4 DEF Agrees

\* The inode of a live file changes, and nothing else.
LEMMA OnlyInode ==
  ASSUME IInv, NEW f \in Files, ino[f].st = "cached", UNCHANGED clusterVars, entry' = entry,
         NEW j \in Inodes, ino' = [ino EXCEPT ![f] = j],
         j.st = "cached", j.slot = ino[f].slot, j.mmu <= MaxSize[f],
         Agrees(entry[ino[f].slot], j, MaxSize[f]),
         Sound(fat, Whole(j)), Held(fat, Whole(j)) \subseteq Held(fat, Whole(ino[f]))
  PROVE  IInv' /\ Inode(f)' = j
  <1>1. entry \in [Slots -> Entries \cup {NoEntry}] /\ ino \in [Files -> Inodes]
    BY DEF IInv, Records
  <1>2. ino'[f] = j /\ \A g \in Files \ {f} : ino'[g] = ino[g]
    BY <1>1
  <1>3. Records'
    BY <1>1 DEF Records
  <1>4. Inode(f)' = j
    BY <1>2 DEF Inode
  <1>5. Placed(f)'
    <2>1. /\ Inode(f) = ino[f] /\ ino[f].slot \in Slots
          /\ entry[ino[f].slot] # NoEntry /\ entry[ino[f].slot].file = f
      BY LiveFacts
    <2>2. Inode(f)'.mmu <= MaxSize[f]
      BY <1>4
    <2> QED BY <1>2, <2>1, <2>2 DEF Placed
  <1>6. Sound(fat, Chain(f)') /\ Held(fat, Chain(f)') \subseteq Held(fat, Chain(f))
    BY <1>4, LiveFacts DEF Chain
  <1>7. IInv'
    BY <1>2, <1>3, <1>5, <1>6, InodeMoves
  <1> QED BY <1>4, <1>7

\* One more cluster of a file that is being written is now part of it.
LEMMA WriteEndKeeps ==
  ASSUME IInv, NEW f \in Files, exfat_write_end(f)
  PROVE  /\ IInv' /\ ino[f].st = "cached" /\ Inode(f)'.isize = ino[f].isize + 1
         /\ Cell(fat', Inode(f)', ino[f].isize) = ino[f].at
         /\ \A k \in 0 .. (ino[f].isize - 1) : Cell(fat', Inode(f)', k) = Cell(fat, ino[f], k)
         /\ ino'[f].st = "cached"
  <1> DEFINE i == ino[f]
             j == [i EXCEPT !.isize = @ + 1, !.dirty = TRUE, !.at = Eof,
                            !.pages = @ \cup {<<i.isize, i.at>>}]
  <1>1. /\ i.at # Eof /\ ino' = [ino EXCEPT ![f] = j]
        /\ UNCHANGED clusterVars /\ entry' = entry /\ fat' = fat
    BY DEF exfat_write_end, clusterVars
  <1>2. i.st = "cached" /\ i.cut = NoSize
    BY <1>1, WritingIsLive
  <1>3. /\ i \in Inodes /\ Shape(i) /\ Sound(fat, i) /\ i.isize \in Nat
        /\ Agrees(entry[i.slot], i, MaxSize[f]) /\ i.mmu <= MaxSize[f] /\ Whole(i) = i
    BY <1>2, LiveFacts, UncutFacts
  <1>4. i.at \in Clusters
    BY <1>1, <1>3, InodeFields
  <1>5. /\ j.isize = i.isize + 1 /\ j.dirty = TRUE /\ j.at = Eof
        /\ j.pages = i.pages \cup {<<i.isize, i.at>>}
        /\ j.st = i.st /\ j.slot = i.slot /\ j.start = i.start /\ j.flags = i.flags
        /\ j.mmu = i.mmu /\ j.hoff = i.hoff /\ j.hclu = i.hclu
        /\ j.wrote = i.wrote /\ j.cut = i.cut
    BY <1>3 DEF Inodes
  <1>6. j \in Inodes
    <2>1. i.isize + 1 \in Nat /\ Eof \in Clusters \cup {Eof} /\ TRUE \in BOOLEAN
          /\ i.pages \cup {<<i.isize, i.at>>} \in SUBSET (Nat \X Clusters)
      BY <1>3, <1>4, InodeFields
    <2> QED BY <1>3, <2>1 DEF Inodes
  <1> HIDE DEF j
  <1>7. /\ Has(fat, i) \in Nat /\ i.isize < Has(fat, i) /\ i.at = Cell(fat, i, i.isize)
        /\ i.mmu = i.isize + 1 /\ i.start # Eof
    BY <1>1, <1>3, SoundFacts DEF Shape, Sound
  <1>8. Renews(fat, i, j, Has(fat, i))
    <2>1. i.flags = Contiguous => Has(fat, i) = IF j.mmu = 0 THEN 1 ELSE j.mmu
      BY <1>5, <1>7 DEF Has
    <2>2. i.flags = Linked => /\ j.isize \in {Has(fat, i) - 1, Has(fat, i)} /\ j.isize > 0
                              /\ j.hoff > 0 => j.hoff < Has(fat, i) /\ j.hclu = Cell(fat, i, j.hoff)
      <3>1. i.flags = Linked => Has(fat, i) = i.isize \/ Has(fat, i) = i.isize + 1
        BY <1>7, Numbers DEF Has
      <3> QED BY <1>3, <1>5, <1>7, <3>1 DEF Sound
    <2>3. \A p \in j.pages : p[1] < j.isize /\ p[2] = Cell(fat, i, p[1])
      <3> SUFFICES ASSUME NEW p \in j.pages PROVE p[1] < j.isize /\ p[2] = Cell(fat, i, p[1])
        OBVIOUS
      <3>1. CASE p \in i.pages
        <4>1. p[1] < i.isize /\ p[2] = Cell(fat, i, p[1]) /\ p[1] \in Nat
          BY <1>3, <3>1 DEF Sound, Shape
        <4> QED BY <1>3, <1>5, <4>1
      <3>2. CASE p = <<i.isize, i.at>>
        BY <1>3, <1>5, <1>7, <3>2
      <3> QED BY <1>5, <3>1, <3>2
    <2> QED BY <1>3, <1>5, <1>7, <2>1, <2>2, <2>3 DEF Renews
  <1>9. /\ Sound(fat, j) /\ Held(fat, j) \subseteq Held(fat, i)
        /\ \A k \in 0 .. (Has(fat, i) - 1) : Cell(fat, j, k) = Cell(fat, i, k)
    <2>1. Shape(i) /\ Shape(j) /\ Sound(fat, i) /\ Has(fat, i) \in Nat
      BY <1>3, <1>6, InodeShape, SoundFacts DEF Shape
    <2> HIDE DEF i
    <2> QED BY <1>8, <2>1, SoundAs, Zenon
  <1>10. /\ j.st = "cached" /\ j.mmu <= MaxSize[f] /\ Agrees(entry[i.slot], j, MaxSize[f])
         /\ Whole(j) = j
    BY <1>2, <1>3, <1>5 DEF Agrees, Whole
  <1>11. IInv' /\ Inode(f)' = j
    BY <1>1, <1>2, <1>3, <1>5, <1>6, <1>9, <1>10, OnlyInode
  <1>12. ino'[f] = j
    BY <1>1 DEF IInv, Records
  <1> QED BY <1>1, <1>2, <1>3, <1>5, <1>7, <1>9, <1>11, <1>12

LEMMA WriteFailedKeeps ==
  ASSUME IInv, NEW f \in Files, exfat_write_failed(f)
  PROVE  /\ IInv' /\ ino[f].st = "cached" /\ Inode(f)'.isize = ino[f].isize
         /\ \A k \in 0 .. (ino[f].isize - 1) : Cell(fat', Inode(f)', k) = Cell(fat, ino[f], k)
         /\ ino'[f].st = "cached"
  <1> DEFINE i == ino[f]
             j == [i EXCEPT !.mmu = i.isize, !.at = Eof, !.dirty = TRUE]
             n == IF i.flags = Linked THEN Has(fat, i) ELSE IF i.isize = 0 THEN 1 ELSE i.isize
  <1>1. /\ i.at # Eof /\ ino' = [ino EXCEPT ![f] = j]
        /\ UNCHANGED clusterVars /\ entry' = entry /\ fat' = fat
    BY DEF exfat_write_failed, clusterVars
  <1>2. i.st = "cached" /\ i.cut = NoSize
    BY <1>1, WritingIsLive
  <1>3. /\ i \in Inodes /\ Shape(i) /\ Sound(fat, i) /\ i.isize \in Nat /\ MaxSize[f] \in Nat
        /\ Agrees(entry[i.slot], i, MaxSize[f]) /\ i.isize <= i.mmu /\ i.mmu <= MaxSize[f]
        /\ i.flags \in {Linked, Contiguous} /\ i.mmu \in Nat /\ Whole(i) = i
    BY <1>2, LiveFacts, UncutFacts
  <1>5. /\ j.isize = i.isize /\ j.dirty = TRUE /\ j.at = Eof
        /\ j.pages = i.pages
        /\ j.st = i.st /\ j.slot = i.slot /\ j.start = i.start /\ j.flags = i.flags
        /\ j.mmu = i.isize /\ j.hoff = i.hoff /\ j.hclu = i.hclu
        /\ j.wrote = i.wrote /\ j.cut = i.cut
    BY <1>3 DEF Inodes
  <1>6. j \in Inodes
    <2>1. i.isize \in Nat /\ Eof \in Clusters \cup {Eof} /\ TRUE \in BOOLEAN
      BY <1>3
    <2> QED BY <1>3, <2>1 DEF Inodes
  <1> HIDE DEF j
  <1>7. /\ Has(fat, i) \in Nat /\ i.isize < Has(fat, i)
        /\ i.mmu = i.isize + 1 /\ i.start # Eof
    BY <1>1, <1>3, SoundFacts DEF Shape, Sound
  <1>8. n \in Nat /\ n > 0 /\ n <= Has(fat, i) /\ i.isize <= n
    <2>1. CASE i.flags = Linked
      BY <1>3, <1>7, <2>1
    <2>2. CASE i.flags = Contiguous
      BY <1>3, <1>7, <2>2, Numbers
    <2> QED BY <1>3, <2>1, <2>2
  <1>9. Renews(fat, i, j, n)
    <2>1. i.flags = Contiguous => n = IF j.mmu = 0 THEN 1 ELSE j.mmu
      BY <1>5, Numbers
    <2>2. i.flags = Linked => /\ n = Has(fat, i) /\ j.isize \in {n - 1, n} /\ j.isize > 0
                              /\ j.hoff > 0 => j.hoff < n /\ j.hclu = Cell(fat, i, j.hoff)
      <3>1. i.flags = Linked => Has(fat, i) = i.isize \/ Has(fat, i) = i.isize + 1
        BY <1>7, Numbers DEF Has
      <3> QED BY <1>3, <1>5, <1>7, <3>1 DEF Sound
    <2>3. \A p \in j.pages : p[1] < j.isize /\ p[2] = Cell(fat, i, p[1])
      BY <1>3, <1>5 DEF Sound
    <2> HIDE DEF n
    <2> QED BY <1>3, <1>5, <1>7, <1>8, <2>1, <2>2, <2>3 DEF Renews
  <1>10. /\ Sound(fat, j) /\ Held(fat, j) \subseteq Held(fat, i)
         /\ \A k \in 0 .. (n - 1) : Cell(fat, j, k) = Cell(fat, i, k)
    <2> HIDE DEF n
    <2> QED BY <1>3, <1>6, <1>8, <1>9, InodeShape, SoundAs
  <1>11. /\ j.st = "cached" /\ j.mmu <= MaxSize[f] /\ Agrees(entry[i.slot], j, MaxSize[f])
         /\ Whole(j) = j
    BY <1>2, <1>3, <1>5 DEF Agrees, Whole
  <1>12. IInv' /\ Inode(f)' = j
    BY <1>1, <1>2, <1>3, <1>5, <1>6, <1>10, <1>11, OnlyInode
  <1>13. ino'[f] = j
    BY <1>1 DEF IInv, Records
  <1>14. \A k \in 0 .. (i.isize - 1) : Cell(fat, j, k) = Cell(fat, i, k)
    <2> HIDE DEF n
    <2> QED BY <1>3, <1>8, <1>10
  <1> QED BY <1>1, <1>2, <1>5, <1>12, <1>13, <1>14

\* A chain that is being cut is found in as it was.
LEMMA LocatedInWhole ==
  ASSUME NEW i \in Inodes, NEW off
  PROVE  /\ Located(Whole(i), off) = Located(i, off)
         /\ \A t, k : Cell(t, Whole(i), k) = Cell(t, i, k)
  <1>1. /\ Whole(i).start = i.start /\ Whole(i).flags = i.flags /\ Whole(i).mmu = i.mmu
        /\ Whole(i).hoff = i.hoff /\ Whole(i).hclu = i.hclu
    BY WholeFields
  <1>2. Located(Whole(i), off) = Located(i, off)
    BY <1>1 DEF Located
  <1>3. \A t, k : Cell(t, Whole(i), k) = Cell(t, i, k)
    BY <1>1 DEF Cell
  <1> QED BY <1>2, <1>3

\* A block inside a file is found, never allocated; the hint moves, and the page
\* keeps the cluster.
LEMMA BlockIsFound ==
  ASSUME Ordinary, IInv, NEW f \in Files, NEW off \in Nat, NEW copied,
         exfat_get_block(f, off, copied)
  PROVE  /\ IInv' /\ ino[f].st = "cached" /\ UNCHANGED clusterVars /\ entry' = entry
         /\ ino'[f].hoff = off
         /\ \A k \in 0 .. (ino[f].isize - 1) : Cell(fat', Inode(f)', k) = Cell(fat, ino[f], k)
         /\ Inode(f)'.isize = ino[f].isize /\ ino'[f].st = "cached"
  <1> DEFINE i == ino[f]
             w == Whole(i)
             m == ffsMapCluster(f, off, copied)
             clu == Located(i, off).clu
             more == i.pages \cup {<<off, clu>>}
             j == [i EXCEPT !.hoff = off, !.hclu = clu, !.pages = more]
             v == Whole(j)
  <1>1. /\ Usable(f) /\ off < i.isize /\ Take(m)
        /\ ino' = [ino EXCEPT ![f] = [m.ino EXCEPT !.pages = @ \cup Mapped(f, off, m)]]
    BY DEF exfat_get_block, MapsPage
  <1>2. i.st = "cached"
    BY <1>1, UsableIsLive
  <1>3. /\ i \in Inodes /\ Shape(i) /\ Sound(fat, w) /\ Shape(w) /\ i.isize \in Nat
        /\ Agrees(entry[i.slot], i, MaxSize[f]) /\ i.mmu <= MaxSize[f]
        /\ i.flags \in {Linked, Contiguous}
    BY <1>2, LiveFacts
  <1>w. /\ w.isize = (IF i.cut = NoSize THEN i.isize ELSE i.cut)
        /\ w.start = i.start /\ w.flags = i.flags /\ w.mmu = i.mmu
        /\ w.at = i.at /\ w.pages = i.pages /\ w.hoff = i.hoff /\ w.hclu = i.hclu
        /\ w.isize \in Nat /\ i.isize <= w.isize
        /\ Located(i, off) = Located(w, off) /\ \A t, k : Cell(t, w, k) = Cell(t, i, k)
    <2>1. /\ w.isize = (IF i.cut = NoSize THEN i.isize ELSE i.cut)
          /\ w.start = i.start /\ w.flags = i.flags /\ w.mmu = i.mmu
          /\ w.at = i.at /\ w.pages = i.pages /\ w.hoff = i.hoff /\ w.hclu = i.hclu
      BY <1>3, WholeFields
    <2>2. i.cut # NoSize => i.isize < i.cut
      BY <1>3 DEF Agrees
    <2>3. w.isize \in Nat
      BY <1>3 DEF Shape
    <2>4. i.isize <= w.isize
      BY <1>3, <2>1, <2>2, <2>3
    <2>5. Located(i, off) = Located(w, off) /\ \A t, k : Cell(t, w, k) = Cell(t, i, k)
      BY <1>3, LocatedInWhole
    <2> QED BY <2>1, <2>3, <2>4, <2>5
  <1> HIDE DEF w
  <1>4. /\ Has(fat, w) \in Nat /\ w.isize <= Has(fat, w) /\ i.start # Eof
        /\ \A k \in 0 .. (Has(fat, w) - 1) : Cell(fat, w, k) \in Clusters
    <2>1. i.start # Eof
      <3>1. w.start = Eof => w.isize = 0
        BY <1>3 DEF Sound
      <3> QED BY <1>1, <1>3, <1>w, <3>1
    <2> QED BY <1>3, <1>w, <2>1, SoundFacts DEF Shape
  <1>5. off < Has(fat, w) /\ off < w.isize /\ clu = Cell(fat, w, off)
    <2>1. off < Has(fat, w) /\ off <= w.isize /\ off < w.isize
      BY <1>1, <1>3, <1>4, <1>w
    <2> QED BY <1>3, <1>w, <2>1, LocatedIs
  <1>6. clu \in Clusters /\ clu # Eof
    BY <1>4, <1>5, Numbers
  <1>7. /\ m.ino = [i EXCEPT !.hoff = off, !.hclu = clu] /\ m.taken = taken /\ m.fat = fat
        /\ m.srch = srch /\ m.used = used /\ m.entry = entry /\ m.ok = TRUE /\ m.clu = clu
    BY <1>6 DEF ffsMapCluster
  <1> HIDE DEF m
  <1>8. UNCHANGED clusterVars /\ entry' = entry /\ ino' = [ino EXCEPT ![f] = j] /\ fat' = fat
    <2>1. Mapped(f, off, m) = {<<off, clu>>}
      BY <1>6, <1>7 DEF Mapped
    <2>2. [m.ino EXCEPT !.pages = @ \cup Mapped(f, off, m)] = j
      BY <1>3, <1>7, <2>1 DEF Inodes
    <2> QED BY <1>1, <1>7, <2>2 DEF Take, clusterVars
  <1> HIDE DEF clu
  <1>9. /\ j.isize = i.isize /\ j.dirty = i.dirty /\ j.at = i.at
        /\ j.pages = i.pages \cup {<<off, clu>>} /\ j.wrote = i.wrote /\ j.cut = i.cut
        /\ j.st = i.st /\ j.slot = i.slot /\ j.start = i.start /\ j.flags = i.flags
        /\ j.mmu = i.mmu /\ j.hoff = off /\ j.hclu = clu
    BY <1>3 DEF Inodes
  <1>10. j \in Inodes
    <2>1. /\ off \in Nat \cup {-1} /\ clu \in Clusters \cup {Eof}
          /\ more \in SUBSET (Nat \X Clusters)
      BY <1>3, <1>6, InodeFields
    <2> HIDE DEF more
    <2> QED BY <1>3, <2>1 DEF Inodes
  <1> HIDE DEF j
  <1>v. /\ v.isize = w.isize /\ v.at = w.at /\ v.pages = w.pages \cup {<<off, clu>>}
        /\ v.start = w.start /\ v.flags = w.flags
        /\ v.mmu = w.mmu /\ v.hoff = off /\ v.hclu = clu /\ Shape(v)
    BY <1>9, <1>10, <1>w, WholeFields
  <1> HIDE DEF v
  <1>11. Renews(fat, w, v, Has(fat, w))
    <2>1. w.flags = Contiguous => Has(fat, w) = IF v.mmu = 0 THEN 1 ELSE v.mmu
      BY <1>4, <1>v, <1>w DEF Has
    <2>2. w.flags = Linked => /\ v.isize \in {Has(fat, w) - 1, Has(fat, w)} /\ v.isize > 0
                              /\ v.hoff > 0 => v.hoff < Has(fat, w) /\ v.hclu = Cell(fat, w, v.hoff)
      <3>1. w.flags = Linked => Has(fat, w) = w.isize \/ Has(fat, w) = w.isize + 1
        BY <1>4, <1>w, Numbers DEF Has
      <3> QED BY <1>3, <1>4, <1>5, <1>v, <1>w, <3>1 DEF Sound
    <2>3. \A p \in v.pages : p[1] < v.isize /\ p[2] = Cell(fat, w, p[1])
      <3>1. \A p \in w.pages : p[1] < w.isize /\ p[2] = Cell(fat, w, p[1])
        BY <1>3 DEF Sound
      <3> QED BY <1>5, <1>v, <3>1
    <2>4. v.mmu = v.isize + (IF v.at = Eof THEN 0 ELSE 1)
      BY <1>3, <1>v DEF Sound
    <2>5. v.at # Eof => v.isize < Has(fat, w) /\ v.at = Cell(fat, w, v.isize)
      BY <1>3, <1>v DEF Sound
    <2>6. Has(fat, w) > 0
      BY <1>4, <1>5
    <2> QED BY <1>4, <1>v, <1>w, <2>1, <2>2, <2>3, <2>4, <2>5, <2>6 DEF Renews
  <1>12. /\ Sound(fat, v) /\ Held(fat, v) \subseteq Held(fat, w)
         /\ \A k \in 0 .. (Has(fat, w) - 1) : Cell(fat, v, k) = Cell(fat, w, k)
    BY <1>3, <1>4, <1>v, <1>11, SoundAs
  <1>13. IInv' /\ Inode(f)' = j
    <2>1. j.mmu <= MaxSize[f] /\ j.st = "cached" /\ j.slot = i.slot
      BY <1>2, <1>3, <1>9
    <2>2. Agrees(entry[i.slot], j, MaxSize[f])
      <3>1. i.cut # NoSize => \A p \in j.pages : p[1] < i.isize
        BY <1>1, <1>3, <1>9 DEF Agrees
      <3> QED BY <1>3, <1>9, <3>1 DEF Agrees
    <2> QED BY <1>2, <1>8, <1>10, <1>12, <2>1, <2>2, OnlyInode DEF v, w
  <1>14. ino'[f] = j
    BY <1>8 DEF IInv, Records
  <1>15. \A k \in 0 .. (i.isize - 1) : Cell(fat, j, k) = Cell(fat, i, k)
    BY <1>9 DEF Cell
  <1> QED BY <1>2, <1>8, <1>9, <1>13, <1>14, <1>15

\* Only what is written back of an inode changes, not its chain.
WritesBack(i, j) ==
  /\ SameChainOf(i, j) /\ j.pages = i.pages /\ j.st = i.st /\ j.slot = i.slot /\ j.cut = i.cut

LEMMA WholeWritesBack ==
  ASSUME NEW i \in Inodes, NEW j \in Inodes, WritesBack(i, j)
  PROVE  SameChainOf(Whole(i), Whole(j))
  <1>1. /\ Whole(i).isize = (IF i.cut = NoSize THEN i.isize ELSE i.cut)
        /\ Whole(i).start = i.start /\ Whole(i).flags = i.flags /\ Whole(i).mmu = i.mmu
        /\ Whole(i).at = i.at /\ Whole(i).pages = i.pages
        /\ Whole(i).hoff = i.hoff /\ Whole(i).hclu = i.hclu
    BY WholeFields
  <1>2. /\ Whole(j).isize = (IF j.cut = NoSize THEN j.isize ELSE j.cut)
        /\ Whole(j).start = j.start /\ Whole(j).flags = j.flags /\ Whole(j).mmu = j.mmu
        /\ Whole(j).at = j.at /\ Whole(j).pages = j.pages
        /\ Whole(j).hoff = j.hoff /\ Whole(j).hclu = j.hclu
    BY WholeFields
  <1> QED BY <1>1, <1>2 DEF SameChainOf, WritesBack

LEMMA MarkDirtyKeeps ==
  ASSUME Ordinary, IInv, NEW f \in Files, mark_inode_dirty(f)
  PROVE  /\ IInv' /\ UNCHANGED clusterVars /\ entry' = entry /\ ino[f].st = "cached"
         /\ SameChainOf(ino[f], Inode(f)')
  <1> DEFINE i == ino[f]
             j == [i EXCEPT !.dirty = TRUE]
  <1>1. Usable(f) /\ ino' = [ino EXCEPT ![f].dirty = TRUE] /\ UNCHANGED clusterVars
        /\ entry' = entry
    BY DEF mark_inode_dirty
  <1>2. i.st = "cached"
    BY <1>1, UsableIsLive
  <1>3. /\ i \in Inodes /\ i.mmu <= MaxSize[f] /\ Sound(fat, Whole(i))
        /\ Agrees(entry[i.slot], i, MaxSize[f])
    BY <1>2, LiveFacts
  <1>4. ino' = [ino EXCEPT ![f] = j]
    BY <1>1 DEF IInv, Records
  <1>5. /\ j.isize = i.isize /\ j.dirty = TRUE /\ j.wrote = i.wrote /\ WritesBack(i, j)
        /\ j.start = i.start /\ j.flags = i.flags /\ j.mmu = i.mmu /\ j.at = i.at
        /\ j.st = "cached" /\ j.slot = i.slot /\ j.cut = i.cut /\ j.pages = i.pages
    BY <1>2, <1>3 DEF Inodes, WritesBack, SameChainOf
  <1>6. j \in Inodes
    BY <1>3 DEF Inodes
  <1> HIDE DEF j
  <1>7. Agrees(entry[i.slot], j, MaxSize[f])
    BY <1>3, <1>5 DEF Agrees
  <1>8. Sound(fat, Whole(j)) /\ Held(fat, Whole(j)) = Held(fat, Whole(i))
    BY <1>3, <1>5, <1>6, WholeWritesBack, SameChain
  <1>9. IInv' /\ Inode(f)' = j
    BY <1>1, <1>2, <1>3, <1>4, <1>5, <1>6, <1>7, <1>8, OnlyInode
  <1> QED BY <1>1, <1>2, <1>5, <1>9 DEF WritesBack

\* The size to be written is read.
LEMMA WriteInodeKeeps ==
  ASSUME Ordinary, IInv, NEW f \in Files, exfat_write_inode(f)
  PROVE  /\ IInv' /\ UNCHANGED clusterVars /\ entry' = entry /\ ino[f].st = "cached"
         /\ SameChainOf(ino[f], Inode(f)')
  <1> DEFINE i == ino[f]
             j == [i EXCEPT !.dirty = FALSE, !.wrote = i.isize]
  <1>1. Usable(f) /\ ino' = [ino EXCEPT ![f].dirty = FALSE, ![f].wrote = i.isize]
        /\ UNCHANGED clusterVars /\ entry' = entry
    BY DEF exfat_write_inode
  <1>2. i.st = "cached"
    BY <1>1, UsableIsLive
  <1>3. /\ i \in Inodes /\ i.mmu <= MaxSize[f] /\ Sound(fat, Whole(i))
        /\ Agrees(entry[i.slot], i, MaxSize[f]) /\ i.isize <= i.mmu /\ MaxSize[f] \in Nat
        /\ i.isize \in Nat /\ i.mmu \in Nat
    BY <1>2, LiveFacts
  <1>4. ino' = [ino EXCEPT ![f] = j]
    BY <1>1 DEF IInv, Records
  <1>5. /\ j.isize = i.isize /\ j.dirty = FALSE /\ j.wrote = i.isize /\ WritesBack(i, j)
        /\ j.start = i.start /\ j.flags = i.flags /\ j.mmu = i.mmu /\ j.at = i.at
        /\ j.st = "cached" /\ j.slot = i.slot /\ j.cut = i.cut /\ j.pages = i.pages
    BY <1>2, <1>3 DEF Inodes, WritesBack, SameChainOf
  <1>6. j \in Inodes
    BY <1>3 DEF Inodes
  <1> HIDE DEF j
  <1>7. Agrees(entry[i.slot], j, MaxSize[f])
    <2>1. j.wrote <= MaxSize[f] /\ j.wrote # NoSize
      BY <1>3, <1>5 DEF NoSize
    <2> QED BY <1>3, <1>5, <2>1 DEF Agrees
  <1>8. Sound(fat, Whole(j)) /\ Held(fat, Whole(j)) = Held(fat, Whole(i))
    BY <1>3, <1>5, <1>6, WholeWritesBack, SameChain
  <1>9. IInv' /\ Inode(f)' = j
    BY <1>1, <1>2, <1>3, <1>4, <1>5, <1>6, <1>7, <1>8, OnlyInode
  <1> QED BY <1>1, <1>2, <1>5, <1>9 DEF WritesBack

\* It goes to the entry, whatever the size is by then.
LEMMA WriteStatKeeps ==
  ASSUME Ordinary, IInv, NEW f \in Files, FsWriteStat(f)
  PROVE  /\ IInv' /\ UNCHANGED clusterVars /\ ino[f].st = "cached" /\ ino'[f].st = "cached"
         /\ SameChainOf(ino[f], Inode(f)')
         /\ \A g \in Files \ {f} : /\ ino'[g] = ino[g]
                                   /\ ino[g].st # "absent" => entry'[ino[g].slot] = entry[ino[g].slot]
  <1> DEFINE i == ino[f]
             j == [i EXCEPT !.wrote = NoSize]
             e == entry[i.slot]
  <1>1. i.wrote # NoSize /\ ino' = [ino EXCEPT ![f].wrote = NoSize] /\ UNCHANGED clusterVars
        /\ entry' = IF FreeSlot(i.slot) THEN entry ELSE [entry EXCEPT ![i.slot].size = i.wrote]
    BY DEF FsWriteStat
  <1>2. i.st = "cached"
    <2>1. i \in Inodes /\ Placed(f)
      BY FileFacts
    <2>2. i.st # "absent" /\ i.st # "evicted"
      BY <1>1, <2>1 DEF Placed, Absent
    <2> QED BY <2>1, <2>2, InodeFields
  <1>3. /\ i \in Inodes /\ Sound(fat, Whole(i)) /\ i.slot \in Slots
        /\ e \in Entries /\ e # NoEntry /\ e.file = f /\ i.mmu <= MaxSize[f]
        /\ Agrees(e, i, MaxSize[f]) /\ MaxSize[f] \in Nat
        /\ Inode(f) = i /\ Chain(f) = Whole(i)
    BY <1>2, LiveFacts
  <1>4. entry' = [entry EXCEPT ![i.slot].size = i.wrote] /\ i.wrote \in Nat
    BY <1>1, <1>3, InodeFields DEF FreeSlot
  <1>5. entry \in [Slots -> Entries \cup {NoEntry}] /\ ino \in [Files -> Inodes]
    BY DEF IInv, Records
  <1>6. ino' = [ino EXCEPT ![f] = j]
    BY <1>1, <1>5
  <1>7. /\ j.isize = i.isize /\ j.dirty = i.dirty /\ j.wrote = NoSize /\ WritesBack(i, j)
        /\ j.start = i.start /\ j.flags = i.flags /\ j.mmu = i.mmu /\ j.at = i.at
        /\ j.st = "cached" /\ j.slot = i.slot /\ j.cut = i.cut /\ j.pages = i.pages
    BY <1>2, <1>3 DEF Inodes, WritesBack, SameChainOf
  <1>8. j \in Inodes
    BY <1>3 DEF Inodes
  <1> HIDE DEF j
  <1> DEFINE e2 == [e EXCEPT !.size = i.wrote]
  <1>9. e2 \in Entries /\ e2.size = i.wrote /\ e2.file = e.file /\ e2.clu0 = e.clu0
        /\ e2.flags = e.flags
    BY <1>3, <1>4 DEF Entries
  <1>10. entry' = [entry EXCEPT ![i.slot] = e2]
    BY <1>4, <1>5
  <1> HIDE DEF e2
  <1>11. Records'
    BY <1>5, <1>6, <1>8, <1>9, <1>10 DEF Records
  <1>12. entry'[i.slot] = e2 /\ ino'[f] = j /\ Inode(f)' = j
    <2>1. entry'[i.slot] = e2 /\ ino'[f] = j
      BY <1>3, <1>5, <1>6, <1>10
    <2> QED BY <1>2, <1>7, <2>1 DEF Inode
  <1>13. Placed(f)'
    <2>1. e2 # NoEntry
      BY <1>9, EntryIsThere
    <2>2. Inode(f)'.mmu <= MaxSize[f]
      BY <1>3, <1>7, <1>12
    <2>3. Agrees(e2, j, MaxSize[f])
      <3>1. j.wrote <= MaxSize[f]
        BY <1>3, <1>7 DEF NoSize
      <3> QED BY <1>1, <1>3, <1>7, <1>9, <3>1 DEF Agrees
    <2> QED BY <1>2, <1>3, <1>7, <1>9, <1>12, <2>1, <2>2, <2>3 DEF Placed
  <1>14. ASSUME NEW g \in Files \ {f}
         PROVE  /\ ino'[g] = ino[g]
                /\ ino[g].st # "absent" => entry'[ino[g].slot] = entry[ino[g].slot]
    <2>1. ino[g].st # "absent" => ino[g].slot # i.slot
      BY <1>2, SlotsDiffer
    <2> QED BY <1>5, <1>6, <1>10, <2>1, FileFacts
  <1>15. Sound(fat, Chain(f)') /\ Held(fat, Chain(f)') \subseteq Held(fat, Chain(f))
    <2>1. Chain(f)' = Whole(j)
      BY <1>12 DEF Chain
    <2>2. Sound(fat, Whole(j)) /\ Held(fat, Whole(j)) = Held(fat, Whole(i))
      BY <1>3, <1>7, <1>8, WholeWritesBack, SameChain
    <2> QED BY <1>3, <2>1, <2>2
  <1>16. IInv'
    BY <1>1, <1>11, <1>13, <1>14, <1>15, InodeMoves
  <1> QED BY <1>1, <1>2, <1>7, <1>12, <1>14, <1>16 DEF WritesBack

\* An inode that was written may be dropped: its entry says the same chain.
LEMMA EvictKeeps ==
  ASSUME Ordinary, IInv, NEW f \in Files, exfat_evict_inode(f)
  PROVE  /\ IInv' /\ UNCHANGED clusterVars /\ ino[f].st = "cached" /\ ino'[f].st = "evicted"
         /\ Inode(f)'.isize = ino[f].isize
         /\ \A k \in 0 .. (ino[f].isize - 1) : Cell(fat', Inode(f)', k) = Cell(fat, ino[f], k)
         /\ entry' = entry /\ \A g \in Files \ {f} : ino'[g] = ino[g]
  <1> DEFINE i == ino[f]
             e == entry[i.slot]
             j == FromEntry(i.slot)
  <1>1. /\ i.st \in {"cached", "gone"} /\ i.at = Eof /\ (Live(f) => ~i.dirty)
        /\ i.cut = NoSize /\ i.wrote = NoSize
        /\ UNCHANGED clusterVars /\ entry' = entry /\ fat' = fat
        /\ ino' = [ino EXCEPT ![f] = IF Live(f) THEN Absent("evicted", i.slot)
                                     ELSE Absent("absent", NoEntry)]
    BY DEF exfat_evict_inode, Unlocked, clusterVars, IInv, Records
  <1>2. i.st = "cached"
    BY <1>1, FileFacts, InodeFields
  <1>3. /\ i \in Inodes /\ Shape(i) /\ Sound(fat, i) /\ i.slot \in Slots
        /\ e \in Entries /\ e # NoEntry /\ e.file = f /\ i.mmu <= MaxSize[f]
        /\ i.start # Eof => e.clu0 = i.start /\ e.flags = i.flags
        /\ Inode(f) = i /\ e.size = i.isize /\ i.isize \in Nat /\ i.mmu = i.isize
        /\ i.flags \in {Linked, Contiguous} /\ Chain(f) = i
    <2>1. /\ i \in Inodes /\ Shape(i) /\ Sound(fat, i) /\ i.slot \in Slots
          /\ e \in Entries /\ e # NoEntry /\ e.file = f /\ i.mmu <= MaxSize[f]
          /\ i.start # Eof => e.clu0 = i.start /\ e.flags = i.flags
          /\ Inode(f) = i /\ Agrees(e, i, MaxSize[f]) /\ Chain(f) = i
      BY <1>1, <1>2, LiveFacts, UncutFacts
    <2>2. e.size = i.isize
      BY <1>1, <1>2, <2>1 DEF Agrees, Live
    <2> QED BY <1>1, <2>1, <2>2 DEF Shape, Sound
  <1>4. ino' = [ino EXCEPT ![f] = Absent("evicted", i.slot)]
    BY <1>1, <1>2 DEF Live
  <1>5. entry \in [Slots -> Entries \cup {NoEntry}] /\ ino \in [Files -> Inodes]
    BY DEF IInv, Records
  <1>6. Absent("evicted", i.slot) \in Inodes
    BY <1>3, AbsentTyped
  <1>7. Records'
    BY <1>1, <1>4, <1>5, <1>6 DEF Records
  <1>8. ino'[f] = Absent("evicted", i.slot) /\ ino'[f].st = "evicted" /\ ino'[f].slot = i.slot
    BY <1>4, <1>5 DEF Absent
  <1>9. Inode(f)' = j
    <2>1. Inode(f)' = FromEntry(ino[f].slot)'
      BY <1>8 DEF Inode
    <2>2. entry'[ino'[f].slot] = e /\ ino'[f].slot = i.slot
      BY <1>1, <1>8
    <2> HIDE DEF e
    <2>3. FromEntry(ino[f].slot)' = FromEntry(i.slot)
      BY <2>2 DEF FromEntry, e
    <2> QED BY <2>1, <2>3
  <1>10. /\ j.isize = e.size /\ j.mmu = e.size /\ j.at = Eof /\ j.pages = {} /\ j.hoff = -1
         /\ j.flags = (IF e.size = 0 THEN Contiguous ELSE e.flags)
         /\ j.start = (IF e.size = 0 THEN Eof ELSE e.clu0)
         /\ Shape(j) /\ j.cut = NoSize /\ Chain(f)' = j
    <2>1. j.cut = NoSize
      BY DEF FromEntry, Absent
    <2> HIDE DEF j
    <2>2. Chain(f)' = j
      BY <1>9, <2>1 DEF Chain, Whole
    <2> QED BY <1>3, <2>1, <2>2, FromEntryFields DEF j
  <1> HIDE DEF j
  <1>11. /\ Sound(fat, j) /\ Held(fat, j) \subseteq Held(fat, i)
         /\ \A k \in 0 .. (i.isize - 1) : Cell(fat, j, k) = Cell(fat, i, k)
    <2>1. CASE i.isize = 0
      <3>1. Bare(j)
        BY <1>3, <1>10, <2>1 DEF Bare
      <3> QED BY <1>3, <2>1, <3>1, BareIsSound
    <2>2. CASE i.isize # 0
      <3>1. /\ j.isize = i.isize /\ j.mmu = i.isize /\ j.flags = i.flags /\ j.start = i.start
            /\ i.start # Eof
        <4>1. i.start # Eof
          BY <1>3, <2>2 DEF Sound
        <4> QED BY <1>3, <1>10, <2>2, <4>1
      <3>2. Has(fat, i) \in Nat /\ i.isize <= Has(fat, i)
        BY <1>3, SoundFacts DEF Shape
      <3>3. Renews(fat, i, j, Has(fat, i))
        <4>1. i.flags = Contiguous => Has(fat, i) = IF j.mmu = 0 THEN 1 ELSE j.mmu
          BY <1>3, <3>1 DEF Has
        <4>2. i.flags = Linked => j.isize \in {Has(fat, i) - 1, Has(fat, i)} /\ j.isize > 0
          <5>1. i.flags = Linked => Has(fat, i) = i.isize \/ Has(fat, i) = i.isize + 1
            BY <3>1, Numbers DEF Has
          <5> QED BY <1>3, <2>2, <3>1, <3>2, <5>1
        <4>3. ~(j.hoff > 0) /\ \A p \in j.pages : FALSE
          BY <1>10
        <4> QED BY <1>3, <1>10, <2>2, <3>1, <3>2, <4>1, <4>2, <4>3 DEF Renews
      <3>4. /\ Sound(fat, j) /\ Held(fat, j) \subseteq Held(fat, i)
            /\ \A k \in 0 .. (Has(fat, i) - 1) : Cell(fat, j, k) = Cell(fat, i, k)
        BY <1>3, <1>10, <3>2, <3>3, SoundAs
      <3> QED BY <1>3, <3>2, <3>4
    <2> QED BY <2>1, <2>2
  <1>12. Placed(f)'
    <2>1. Inode(f)'.mmu <= MaxSize[f]
      BY <1>3, <1>9, <1>10
    <2> QED BY <1>1, <1>3, <1>8, <2>1 DEF Placed
  <1>13. \A g \in Files \ {f} : ino'[g] = ino[g]
    BY <1>4, <1>5
  <1>14. IInv'
    BY <1>1, <1>3, <1>7, <1>9, <1>10, <1>11, <1>12, <1>13, InodeMoves
  <1> QED BY <1>1, <1>2, <1>3, <1>8, <1>9, <1>10, <1>11, <1>13, <1>14

\* What a rename does to the records of a file that takes slot s.
InSlot(i, s) == [i EXCEPT !.slot = s, !.dirty = TRUE]
TakesSlot(f, s) ==
  /\ ino[f].st = "cached" /\ ino'[f] = InSlot(ino[f], s)
  /\ entry'[s] = entry[ino[f].slot]

LEMMA MovedTo ==
  ASSUME IInv, NEW f \in Files, NEW s \in Slots, TakesSlot(f, s)
  PROVE  LET j == InSlot(ino[f], s) IN
         /\ j \in Inodes /\ SameChainOf(ino[f], j) /\ j.st = "cached" /\ Inode(f)' = j
         /\ Placed(f)' /\ Chain(f)' = Whole(j)
         /\ Sound(fat, Whole(j)) /\ Held(fat, Whole(j)) = Held(fat, Chain(f))
  <1> DEFINE i == ino[f]
             j == InSlot(i, s)
  <1>0. i.st = "cached" /\ ino'[f] = j /\ entry'[s] = entry[i.slot]
    BY DEF TakesSlot
  <1>1. /\ i \in Inodes /\ Sound(fat, Whole(i)) /\ i.slot \in Slots /\ Chain(f) = Whole(i)
        /\ entry[i.slot] # NoEntry /\ entry[i.slot].file = f /\ i.mmu <= MaxSize[f]
        /\ Agrees(entry[i.slot], i, MaxSize[f])
    BY <1>0, LiveFacts
  <1>2. j \in Inodes
    BY <1>1 DEF Inodes, InSlot
  <1>3. /\ j.st = i.st /\ j.slot = s /\ j.dirty = TRUE /\ SameChainOf(i, j)
        /\ j.start = i.start /\ j.flags = i.flags /\ j.isize = i.isize /\ j.mmu = i.mmu
        /\ j.cut = i.cut /\ j.wrote = i.wrote /\ j.at = i.at /\ j.pages = i.pages
    BY <1>1 DEF Inodes, SameChainOf, InSlot
  <1> HIDE DEF j
  <1>4. Inode(f)' = j /\ Chain(f)' = Whole(j)
    <2>1. Inode(f)' = j
      BY <1>0, <1>3 DEF Inode
    <2> QED BY <2>1 DEF Chain
  <1>5. Placed(f)'
    <2>1. Inode(f)'.mmu <= MaxSize[f]
      BY <1>1, <1>3, <1>4
    <2>2. Agrees(entry[i.slot], j, MaxSize[f])
      BY <1>1, <1>3 DEF Agrees
    <2> QED BY <1>0, <1>1, <1>3, <2>1, <2>2 DEF Placed
  <1>6. Sound(fat, Whole(j)) /\ Held(fat, Whole(j)) = Held(fat, Chain(f))
    <2>1. /\ Whole(i).isize = (IF i.cut = NoSize THEN i.isize ELSE i.cut)
          /\ Whole(i).start = i.start /\ Whole(i).flags = i.flags /\ Whole(i).mmu = i.mmu
          /\ Whole(i).at = i.at /\ Whole(i).pages = i.pages
          /\ Whole(i).hoff = i.hoff /\ Whole(i).hclu = i.hclu
      BY <1>1, WholeFields
    <2>2. /\ Whole(j).isize = (IF j.cut = NoSize THEN j.isize ELSE j.cut)
          /\ Whole(j).start = j.start /\ Whole(j).flags = j.flags /\ Whole(j).mmu = j.mmu
          /\ Whole(j).at = j.at /\ Whole(j).pages = j.pages
          /\ Whole(j).hoff = j.hoff /\ Whole(j).hclu = j.hclu
      BY <1>2, WholeFields
    <2>3. SameChainOf(Whole(i), Whole(j))
      BY <1>3, <2>1, <2>2 DEF SameChainOf
    <2> QED BY <1>1, <2>3, SameChain
  <1> QED BY <1>0, <1>2, <1>3, <1>4, <1>5, <1>6 DEF j

LEMMA RenameKeeps ==
  ASSUME Ordinary, IInv, NEW f \in Files, NEW s \in Slots, exfat_rename(f, s)
  PROVE  /\ IInv' /\ UNCHANGED clusterVars /\ ino[f].st = "cached" /\ ino'[f].st = "cached"
         /\ SameChainOf(ino[f], Inode(f)')
         /\ \A g \in Files \ {f} : /\ ino'[g] = ino[g]
                                   /\ ino[g].st # "absent" => entry'[ino[g].slot] = entry[ino[g].slot]
  <1> DEFINE i == ino[f]
             j == InSlot(i, s)
  <1>1. /\ i.st = "cached" /\ (s = i.slot \/ entry[s] = NoEntry) /\ UNCHANGED clusterVars
        /\ entry' = [entry EXCEPT ![i.slot] = NoEntry, ![s] = entry[i.slot]]
        /\ ino' = [ino EXCEPT ![f].slot = s, ![f].dirty = TRUE]
    BY DEF exfat_rename, Live, FreeSlot
  <1>2. entry \in [Slots -> Entries \cup {NoEntry}] /\ ino \in [Files -> Inodes]
    BY DEF IInv, Records
  <1>3. i.slot \in Slots
    BY <1>1, LiveFacts
  <1>4. ino' = [ino EXCEPT ![f] = j]
    BY <1>1, <1>2 DEF InSlot
  <1>5. ino'[f] = j /\ entry'[s] = entry[i.slot]
    BY <1>1, <1>2, <1>3, <1>4
  <1> HIDE DEF j
  <1>6. /\ j \in Inodes /\ SameChainOf(i, j) /\ j.st = "cached" /\ Inode(f)' = j
        /\ Placed(f)' /\ Sound(fat, Chain(f)') /\ Held(fat, Chain(f)') = Held(fat, Chain(f))
    <2>1. TakesSlot(f, s)
      BY <1>1, <1>5 DEF TakesSlot, j
    <2> QED BY <2>1, MovedTo DEF j
  <1>7. Records'
    <2>1. entry' \in [Slots -> Entries \cup {NoEntry}]
      BY <1>1, <1>2, <1>3
    <2>2. ino' \in [Files -> Inodes]
      BY <1>2, <1>4, <1>6
    <2> QED BY <2>1, <2>2 DEF Records
  <1>8. ASSUME NEW g \in Files \ {f}
        PROVE  /\ ino'[g] = ino[g]
               /\ ino[g].st # "absent" => entry'[ino[g].slot] = entry[ino[g].slot]
    <2>1. ino[g].st # "absent" => /\ ino[g].slot # i.slot /\ ino[g].slot \in Slots
                                  /\ entry[ino[g].slot] # NoEntry
      BY <1>1, SlotsDiffer, FileFacts
    <2> QED BY <1>1, <1>2, <1>4, <2>1
  <1>9. IInv'
    BY <1>1, <1>6, <1>7, <1>8, InodeMoves
  <1> QED BY <1>1, <1>5, <1>6, <1>8, <1>9

\* The file whose name is taken is gone with its chain; the other moves.
LEMMA ReplaceKeeps ==
  ASSUME Ordinary, IInv, NEW f \in Files, NEW g \in Files, NEW s \in Slots,
         exfat_replace(f, g, s)
  PROVE  /\ IInv' /\ UNCHANGED clusterVars /\ f # g
         /\ ino[f].st = "cached" /\ ino'[f].st = "cached" /\ SameChainOf(ino[f], Inode(f)')
         /\ ino[g].st = "cached" /\ ino'[g].st = "absent"
         /\ \A h \in Files \ {f, g} : /\ ino'[h] = ino[h]
                                      /\ ino[h].st # "absent" => entry'[ino[h].slot] = entry[ino[h].slot]
  <1> DEFINE i == ino[f]
             j == InSlot(i, s)
             a == Absent("absent", NoEntry)
  <1>1. /\ i.st = "cached" /\ ino[g].st = "cached" /\ f # g
        /\ (s = i.slot \/ entry[s] = NoEntry) /\ UNCHANGED clusterVars
        /\ entry' = [entry EXCEPT ![i.slot] = NoEntry, ![ino[g].slot] = NoEntry,
                                  ![s] = entry[i.slot]]
        /\ ino' = [ino EXCEPT ![f].slot = s, ![f].dirty = TRUE, ![g] = a]
    BY DEF exfat_replace, Live, FreeSlot, Ordinary
  <1>2. entry \in [Slots -> Entries \cup {NoEntry}] /\ ino \in [Files -> Inodes]
    BY DEF IInv, Records
  <1>3. i.slot \in Slots /\ ino[g].slot \in Slots /\ i.slot # ino[g].slot
        /\ entry[ino[g].slot] # NoEntry /\ s # ino[g].slot /\ taken' = taken /\ fat' = fat
    <2>1. i.slot \in Slots /\ ino[g].slot \in Slots /\ entry[ino[g].slot] # NoEntry
      BY <1>1, LiveFacts
    <2>2. i.slot # ino[g].slot
      BY <1>1, SlotsDiffer
    <2> QED BY <1>1, <2>1, <2>2 DEF clusterVars
  <1>4. a \in Inodes
    BY AbsentTyped
  <1> HIDE DEF a
  <1>5. ino' = [ino EXCEPT ![f] = j, ![g] = a]
    BY <1>1, <1>2 DEF InSlot
  <1>6. ino'[f] = j /\ entry'[s] = entry[i.slot] /\ ino'[g] = a
    BY <1>1, <1>2, <1>3, <1>5
  <1> HIDE DEF j
  <1>7. /\ j \in Inodes /\ SameChainOf(i, j) /\ j.st = "cached" /\ Inode(f)' = j
        /\ Placed(f)' /\ Sound(fat, Chain(f)') /\ Held(fat, Chain(f)') = Held(fat, Chain(f))
    <2>1. TakesSlot(f, s)
      BY <1>1, <1>6 DEF TakesSlot, j
    <2> QED BY <2>1, MovedTo DEF j
  <1>8. Records'
    <2>1. entry' \in [Slots -> Entries \cup {NoEntry}]
      BY <1>1, <1>2, <1>3
    <2>2. ino' \in [Files -> Inodes]
      BY <1>2, <1>4, <1>5, <1>7
    <2> QED BY <2>1, <2>2 DEF Records
  <1>9. /\ Chain(g)' = a /\ Placed(g)' /\ Sound(fat, a) /\ Held(fat, a) = {}
        /\ ino'[g].st = "absent"
    <2>1. ino'[g].st = "absent" /\ a.mmu = 0 /\ a.cut = NoSize
      BY <1>6 DEF a, Absent
    <2>2. Inode(g)' = a /\ Chain(g)' = a
      <3>1. Inode(g)' = a
        BY <1>6, <2>1 DEF Inode
      <3> QED BY <2>1, <3>1 DEF Chain, Whole
    <2>3. Placed(g)'
      BY <1>6, <2>1, <2>2, FilesAssumption DEF Placed, a
    <2> QED BY <2>1, <2>2, <2>3, AbsentIsBare, BareIsSound DEF a
  <1>10. ASSUME NEW h \in Files \ {f, g}
         PROVE  /\ ino'[h] = ino[h]
                /\ ino[h].st # "absent" => entry'[ino[h].slot] = entry[ino[h].slot]
    <2>1. ino[h].st # "absent" => /\ ino[h].slot # i.slot /\ ino[h].slot \in Slots
                                  /\ entry[ino[h].slot] # NoEntry
                                  /\ ino[h].slot # ino[g].slot
      BY <1>1, SlotsDiffer, FileFacts
    <2> QED BY <1>1, <1>2, <1>5, <2>1
  <1>11. ASSUME NEW h \in Files \ {f, g}
         PROVE  /\ Placed(h)' /\ Sound(fat', Chain(h)')
                /\ Held(fat', Chain(h)') = Held(fat, Chain(h))
    <2>1. \A c \in Held(fat, Chain(h)) : c \in taken' /\ fat'[c] = fat[c]
      BY <1>3, FileFacts
    <2> QED BY <1>10, <2>1, Untouched
  <1>12. \A h \in Files : /\ Placed(h)' /\ Sound(fat', Chain(h)')
                          /\ Held(fat', Chain(h)') \subseteq Held(fat, Chain(h))
                          /\ Held(fat', Chain(h)') \subseteq taken'
    <2> SUFFICES ASSUME NEW h \in Files
                 PROVE  /\ Placed(h)' /\ Sound(fat', Chain(h)')
                        /\ Held(fat', Chain(h)') \subseteq Held(fat, Chain(h))
                        /\ Held(fat', Chain(h)') \subseteq taken'
      OBVIOUS
    <2>1. Held(fat, Chain(h)) \subseteq taken
      BY FileFacts
    <2>2. CASE h = f
      BY <1>3, <1>7, <2>1, <2>2
    <2>3. CASE h = g
      BY <1>3, <1>9, <2>3
    <2>4. CASE h \notin {f, g}
      BY <1>3, <1>11, <2>1, <2>4
    <2> QED BY <2>2, <2>3, <2>4
  <1>13. Chained'
    BY <1>12, ChainedAgain
  <1>14. VolumeOK'
    BY <1>1 DEF IInv, VolumeOK, Volume, Counted, clusterVars
  <1>15. IInv'
    BY <1>8, <1>12, <1>13, <1>14 DEF IInv
  <1> QED BY <1>1, <1>6, <1>7, <1>9, <1>10, <1>15

LEMMA StatfsKeeps ==
  ASSUME IInv, exfat_statfs
  PROVE  /\ IInv' /\ fat' = fat /\ taken' = taken /\ entry' = entry /\ ino' = ino
         /\ \A g \in Files : Inode(g)' = Inode(g)
  <1>1. /\ used' = Cardinality(taken) /\ taken' = taken /\ fat' = fat /\ srch' = srch
        /\ entry' = entry /\ ino' = ino
    BY DEF exfat_statfs, ffsGetVolInfo
  <1>2. Cardinality(taken) \in Nat
    BY TakenFinite, FS_CardinalityType DEF IInv, VolumeOK
  <1>3. VolumeOK'
    BY <1>1, <1>2 DEF IInv, VolumeOK, Volume, Counted
  <1>4. \A g \in Files : Inode(g)' = Inode(g)
    BY <1>1 DEF Inode, FromEntry
  <1>7. \A g \in Files : Chain(g)' = Chain(g)
    BY <1>4 DEF Chain
  <1>5. Records' /\ (\A g \in Files : Placed(g)')
    BY <1>1, <1>4 DEF IInv, Records, Placed
  <1>6. Chained'
    BY <1>1, <1>7 DEF IInv, Chained
  <1> QED BY <1>1, <1>3, <1>4, <1>5, <1>6 DEF IInv

LEMMA InitKeeps ==
  ASSUME Init
  PROVE  IInv
  <1>1. /\ taken = Reserved /\ fat = [c \in Clusters |-> 0] /\ srch = 2 /\ used = Unknown
        /\ entry = [s \in Slots |-> NoEntry]
        /\ ino = [f \in Files |-> Absent("absent", NoEntry)]
    BY DEF Init, ClustersInit
  <1>2. VolumeOK
    <2>1. 2 \in Clusters
      BY Numbers
    <2> QED BY <1>1, <2>1, FilesAssumption DEF VolumeOK, Volume, Counted
  <1>3. Records
    <2>1. Absent("absent", NoEntry) \in Inodes
      BY AbsentTyped
    <2> QED BY <1>1, <2>1 DEF Records
  <1>4. ASSUME NEW f \in Files
        PROVE  /\ Placed(f) /\ Sound(fat, Chain(f)) /\ Held(fat, Chain(f)) = {}
    <2>1. ino[f] = Absent("absent", NoEntry) /\ ino[f].st = "absent" /\ ino[f].mmu = 0
          /\ ino[f].cut = NoSize
      BY <1>1 DEF Absent
    <2>2. Inode(f) = ino[f] /\ Chain(f) = ino[f]
      <3>1. Inode(f) = ino[f]
        BY <2>1 DEF Inode
      <3> QED BY <2>1, <3>1 DEF Chain, Whole
    <2>3. Placed(f)
      BY <2>1, <2>2, FilesAssumption DEF Placed
    <2> QED BY <2>1, <2>2, <2>3, AbsentIsBare, BareIsSound
  <1>5. Chained
    BY <1>4 DEF Chained
  <1> QED BY <1>2, <1>3, <1>4, <1>5 DEF IInv

LEMMA FreeKeepsVolume ==
  ASSUME VolumeOK, NEW table \in [Clusters -> Clusters \cup {0, Eof}], NEW dir, NEW size, NEW flags,
         Visited(table, dir, size, flags) \subseteq taken \ Reserved,
         exfat_free_cluster(table, dir, size, flags)
  PROVE  VolumeOK' /\ taken' = taken \ Visited(table, dir, size, flags) /\ fat' = table
  <1>1. Volume /\ Counted(used, taken) /\ Reserved \subseteq taken
        /\ Visited(table, dir, size, flags) \subseteq taken
    BY DEF VolumeOK
  <1>2. Counted(used', taken') /\ taken' \subseteq Clusters
    BY <1>1, FreeingKeepsTheCount
  <1>3. /\ taken' = taken \ Visited(table, dir, size, flags) /\ fat' = table /\ srch' = srch
        /\ used = Unknown => used' = Unknown
    BY DEF exfat_free_cluster
  <1>4. Cardinality(taken') \in Nat
    <2>1. IsFiniteSet(taken')
      BY <1>2, ClustersFinite, FS_Subset
    <2> QED BY <2>1, FS_CardinalityType
  <1>5. used' \in Nat \cup {Unknown}
    BY <1>2, <1>4 DEF Counted
  <1>6. Volume'
    BY <1>1, <1>2, <1>3, <1>5 DEF Volume
  <1>7. Counted(used, taken)'
    BY <1>2 DEF Counted
  <1> QED BY <1>1, <1>3, <1>6, <1>7 DEF VolumeOK

\* A cut begins: the size is the new one, the chain still the old.
LEMMA SetattrKeeps ==
  ASSUME Ordinary, IInv, NEW f \in Files, NEW size \in Nat, exfat_setattr(f, size)
  PROVE  /\ IInv' /\ UNCHANGED clusterVars /\ entry' = entry
         /\ ino[f].st = "cached" /\ ino'[f].st = "cached"
         /\ size < ino[f].isize /\ Inode(f)'.isize = size
         /\ \A k : Cell(fat', Inode(f)', k) = Cell(fat, ino[f], k)
  <1> DEFINE i == ino[f]
             below == {p \in i.pages : p[1] < size}
             j == [i EXCEPT !.isize = size, !.cut = i.isize, !.pages = below]
             v == Whole(j)
  <1>1. /\ Usable(f) /\ i.at = Eof /\ i.cut = NoSize /\ size < i.isize
        /\ UNCHANGED clusterVars /\ entry' = entry /\ fat' = fat
        /\ ino' = [ino EXCEPT ![f].isize = size, ![f].cut = i.isize,
                              ![f].pages = {p \in @ : p[1] < size}]
    BY DEF exfat_setattr, Unlocked, PagesBelow, clusterVars
  <1>2. i.st = "cached"
    BY <1>1, UsableIsLive
  <1>3. /\ i \in Inodes /\ i.mmu <= MaxSize[f] /\ Sound(fat, i) /\ Whole(i) = i
        /\ Agrees(entry[i.slot], i, MaxSize[f]) /\ i.isize \in Nat
    BY <1>1, <1>2, LiveFacts, UncutFacts
  <1>4. ino' = [ino EXCEPT ![f] = j]
    BY <1>1 DEF IInv, Records
  <1>5. /\ j.isize = size /\ j.cut = i.isize /\ j.pages = below /\ j.wrote = i.wrote
        /\ j.start = i.start /\ j.flags = i.flags /\ j.mmu = i.mmu /\ j.at = i.at
        /\ j.st = "cached" /\ j.slot = i.slot /\ j.hoff = i.hoff /\ j.hclu = i.hclu
    BY <1>2, <1>3 DEF Inodes
  <1>6. j \in Inodes
    <2>1. below \in SUBSET (Nat \X Clusters) /\ i.isize \in Nat \cup {NoSize}
      BY <1>3, InodeFields
    <2> HIDE DEF below
    <2> QED BY <1>3, <2>1 DEF Inodes
  <1> HIDE DEF j
  <1>7. j.cut # NoSize
    BY <1>3, <1>5 DEF NoSize
  <1>8. Agrees(entry[i.slot], j, MaxSize[f])
    BY <1>1, <1>3, <1>5, <1>7 DEF Agrees
  <1>9. SameChainOf(i, v)
    BY <1>1, <1>5, <1>6, <1>7, WholeFields DEF SameChainOf
  <1> HIDE DEF v
  <1>10. Sound(fat, v) /\ Held(fat, v) = Held(fat, i)
    BY <1>3, <1>9, SameChain
  <1>11. IInv' /\ Inode(f)' = j
    BY <1>1, <1>2, <1>3, <1>4, <1>5, <1>6, <1>8, <1>10, OnlyInode DEF v
  <1>12. ino'[f] = j
    BY <1>4 DEF IInv, Records
  <1>13. \A k : Cell(fat, j, k) = Cell(fat, i, k)
    BY <1>5 DEF Cell
  <1> QED BY <1>1, <1>2, <1>5, <1>11, <1>12, <1>13

\* It ends: the clusters past the size are freed.
LEMMA TruncateKeeps ==
  ASSUME Ordinary, IInv, NEW f \in Files, exfat_truncate(f)
  PROVE  /\ IInv' /\ OthersKept(f) /\ ino[f].st = "cached" /\ ino'[f].st = "cached"
         /\ Inode(f)'.isize = ino[f].isize
         /\ \A k \in 0 .. (ino[f].isize - 1) : Cell(fat', Inode(f)', k) = Cell(fat, ino[f], k)
  <1> DEFINE i == ino[f]
             w == Whole(i)
             size == i.isize
             e == entry[i.slot]
             zero == size = 0
             j == [i EXCEPT !.mmu = Min({@, size}),
                            !.flags = IF zero THEN Contiguous ELSE @,
                            !.start = IF zero THEN Eof ELSE @,
                            !.hoff = -1, !.dirty = TRUE, !.cut = NoSize]
             e2 == [e EXCEPT !.size = size, !.flags = IF zero THEN Linked ELSE @,
                             !.clu0 = IF zero THEN 0 ELSE @]
  <1>1. i.cut # NoSize
    BY DEF exfat_truncate
  <1>2. i.st = "cached" /\ i.at = Eof
    BY <1>1, CuttingIsLive
  <1>3. /\ i \in Inodes /\ Shape(w) /\ Sound(fat, w) /\ i.slot \in Slots
        /\ Held(fat, w) \subseteq taken \ Reserved
        /\ e \in Entries /\ e # NoEntry /\ e.file = f /\ i.mmu <= MaxSize[f]
        /\ i.start # Eof => e.clu0 = i.start /\ e.flags = i.flags
        /\ Inode(f) = i /\ Chain(f) = w /\ size \in Nat /\ MaxSize[f] \in Nat /\ i.mmu \in Nat
        /\ Agrees(e, i, MaxSize[f])
    BY <1>2, LiveFacts
  <1>w. /\ w.isize = i.cut /\ size < w.isize /\ i.cut \in Nat
        /\ w.start = i.start /\ w.flags = i.flags /\ w.mmu = i.mmu
        /\ w.at = Eof /\ w.pages = i.pages /\ \A p \in i.pages : p[1] < size
    BY <1>1, <1>2, <1>3, WholeFields, InodeFields DEF Agrees
  <1>4. /\ ino' = [ino EXCEPT ![f] = j]
        /\ entry' = [entry EXCEPT ![i.slot].size = size,
                                  ![i.slot].flags = IF zero THEN Linked ELSE @,
                                  ![i.slot].clu0 = IF zero THEN 0 ELSE @]
        /\ exfat_free_cluster(CutFat(fat, w, size), CutFrom(fat, w, size), CutLeft(w, size), w.flags)
    <2> HIDE DEF w
    <2> QED BY <1>3, <1>w DEF exfat_truncate, FreeSlot, HintAfterCut, CutFat, CutFrom, CutLeft
  <1> HIDE DEF w
  <1>5. entry \in [Slots -> Entries \cup {NoEntry}] /\ ino \in [Files -> Inodes]
        /\ fat \in [Clusters -> Clusters \cup {0, Eof}] /\ VolumeOK
    BY DEF IInv, Records, VolumeOK, Volume
  <1>6. Min({i.mmu, size}) = size
    <2>1. i.mmu = w.isize
      BY <1>3, <1>w DEF Sound
    <2>2. {i.mmu, size} \subseteq Nat /\ {i.mmu, size} # {}
      BY <1>3
    <2>3. Min({i.mmu, size}) \in {i.mmu, size} /\ Min({i.mmu, size}) <= size
      BY <2>2, MinIsLeast
    <2> QED BY <1>3, <1>w, <2>1, <2>3
  <1>7. /\ j.isize = size /\ j.mmu = size /\ j.at = Eof /\ j.hoff = -1 /\ j.dirty = TRUE
        /\ j.pages = i.pages /\ j.st = i.st /\ j.slot = i.slot
        /\ j.wrote = i.wrote /\ j.cut = NoSize
        /\ j.flags = (IF size = 0 THEN Contiguous ELSE i.flags)
        /\ j.start = (IF size = 0 THEN Eof ELSE i.start)
    BY <1>2, <1>3, <1>6 DEF Inodes
  <1>8. j \in Inodes
    <2>1. /\ size \in Nat /\ Min({i.mmu, size}) \in Nat /\ -1 \in Nat \cup {-1} /\ TRUE \in BOOLEAN
          /\ NoSize \in Nat \cup {NoSize}
          /\ (IF zero THEN Contiguous ELSE i.flags) \in {Linked, Contiguous}
          /\ (IF zero THEN Eof ELSE i.start) \in Clusters \cup {Eof}
      BY <1>3, <1>6, InodeFields
    <2> DEFINE mmu   == Min({i.mmu, size})
               flags == IF zero THEN Contiguous ELSE i.flags
               start == IF zero THEN Eof ELSE i.start
    <2>2. j = [i EXCEPT !.mmu = mmu, !.flags = flags, !.start = start,
                        !.hoff = -1, !.dirty = TRUE, !.cut = NoSize]
      OBVIOUS
    <2>3. /\ mmu \in Nat /\ flags \in {Linked, Contiguous}
          /\ start \in Clusters \cup {Eof}
      BY <2>1
    <2> HIDE DEF mmu, flags, start, zero, i, j
    <2> QED BY <1>3, <2>1, <2>2, <2>3 DEF Inodes
  <1> HIDE DEF j
  <1>9. CutAt(w, j, size) /\ Shape(j)
    <2>1. {p \in i.pages : p[1] < size} = i.pages
      BY <1>w
    <2> QED BY <1>7, <1>8, <1>w, <2>1, InodeShape DEF CutAt
  <1> DEFINE t2 == CutFat(fat, w, size)
             gone == Cutoff(fat, w, size)
  <1>10. /\ t2 \in [Clusters -> Clusters \cup {0, Eof}]
         /\ \A c \in Clusters \ Held(fat, w) : t2[c] = fat[c]
         /\ gone \subseteq Held(fat, w)
         /\ Sound(t2, j) /\ Has(t2, j) = size
         /\ Held(t2, j) \subseteq Held(fat, w) \ gone
         /\ \A k \in 0 .. (size - 1) : Cell(t2, j, k) = Cell(fat, w, k)
    BY <1>3, <1>5, <1>9, <1>w, ChainIsCut
  <1>11. gone = Visited(t2, CutFrom(fat, w, size), CutLeft(w, size), w.flags)
    BY DEF Cutoff
  <1> HIDE DEF t2, gone
  <1>12. VolumeOK' /\ taken' = taken \ gone /\ fat' = t2
    <2>1. Visited(t2, CutFrom(fat, w, size), CutLeft(w, size), w.flags) \subseteq taken \ Reserved
      BY <1>3, <1>10, <1>11
    <2>2. exfat_free_cluster(t2, CutFrom(fat, w, size), CutLeft(w, size), w.flags)
      BY <1>4 DEF t2
    <2> QED BY <1>5, <1>10, <1>11, <2>1, <2>2, FreeKeepsVolume
  <1>13. e2 \in Entries /\ e2.size = size /\ e2.file = e.file
         /\ (size # 0 => e2.clu0 = e.clu0 /\ e2.flags = e.flags)
    <2>1. Linked \in {Linked, Contiguous}
      OBVIOUS
    <2> QED BY <1>3, <2>1 DEF Entries
  <1>14. entry' = [entry EXCEPT ![i.slot] = e2]
    BY <1>4, <1>5
  <1> HIDE DEF e2, zero
  <1>15. Records'
    <2>1. entry' \in [Slots -> Entries \cup {NoEntry}]
      BY <1>5, <1>13, <1>14
    <2>2. ino' \in [Files -> Inodes]
      BY <1>4, <1>5, <1>8
    <2> QED BY <2>1, <2>2 DEF Records
  <1>16. entry'[i.slot] = e2 /\ ino'[f] = j /\ Inode(f)' = j /\ Chain(f)' = j
    <2>1. entry'[i.slot] = e2 /\ ino'[f] = j
      BY <1>3, <1>4, <1>5, <1>14
    <2>2. Inode(f)' = j
      BY <1>2, <1>7, <2>1 DEF Inode
    <2> QED BY <1>7, <2>1, <2>2 DEF Chain, Whole
  <1>17. Placed(f)'
    <2>1. e2 # NoEntry
      BY <1>13, EntryIsThere
    <2>2. Inode(f)'.mmu <= MaxSize[f]
      <3>1. i.mmu = w.isize
        BY <1>3, <1>w DEF Sound
      <3> QED BY <1>3, <1>7, <1>16, <1>w, <3>1
    <2>3. j.start # Eof => e2.clu0 = j.start /\ e2.flags = j.flags
      BY <1>3, <1>7, <1>13
    <2>4. e2.size <= MaxSize[f]
      BY <1>7, <1>13, <1>16, <2>2
    <2>5. Agrees(e2, j, MaxSize[f])
      BY <1>3, <1>7, <2>3, <2>4 DEF Agrees
    <2> QED BY <1>2, <1>3, <1>7, <1>13, <1>16, <2>1, <2>2, <2>5 DEF Placed
  <1>18. OthersKept(f)
    <2>1. ASSUME NEW g \in Files \ {f}
          PROVE  /\ ino'[g] = ino[g]
                 /\ ino[g].st # "absent" => entry'[ino[g].slot] = entry[ino[g].slot]
      <3>1. ino[g].st # "absent" => ino[g].slot # i.slot
        BY <1>2, SlotsDiffer
      <3> QED BY <1>4, <1>5, <1>14, <3>1, FileFacts
    <2>2. ASSUME NEW c \in taken \ Held(fat, Chain(f)) PROVE c \in taken' /\ fat'[c] = fat[c]
      <3>1. c \in Clusters
        BY <1>5 DEF VolumeOK, Volume
      <3> QED BY <1>3, <1>10, <1>12, <3>1
    <2> QED BY <2>1, <2>2 DEF OthersKept
  <1>19. /\ Sound(fat', Chain(f)') /\ Held(fat', Chain(f)') \subseteq taken'
         /\ Held(fat', Chain(f)') \subseteq Held(fat, Chain(f)) \cup (Clusters \ taken)
    BY <1>3, <1>10, <1>12, <1>16
  <1>20. IInv'
    BY <1>12, <1>15, <1>17, <1>18, <1>19, OneFileMoves
  <1>21. \A k \in 0 .. (size - 1) : Cell(t2, j, k) = Cell(fat, i, k)
    <2>1. \A k : Cell(fat, w, k) = Cell(fat, i, k)
      BY <1>w DEF Cell
    <2> QED BY <1>10, <2>1
  <1> QED BY <1>2, <1>7, <1>12, <1>16, <1>18, <1>20, <1>21

LEMMA UnlinkKeeps ==
  ASSUME Ordinary, IInv, NEW f \in Files, exfat_unlink(f)
  PROVE  /\ IInv' /\ OthersKept(f) /\ ino[f].st = "cached" /\ ino'[f].st = "absent"
  <1> DEFINE i == ino[f]
             a == Absent("absent", NoEntry)
  <1>1. /\ i.st = "cached" /\ i.at = Eof /\ i.cut = NoSize /\ entry' = [entry EXCEPT ![i.slot] = NoEntry]
        /\ exfat_free_cluster(fat, i.start, i.isize, i.flags)
        /\ ino' = [ino EXCEPT ![f] = a]
    BY DEF exfat_unlink, Unlocked, Live, Ordinary
  <1>2. /\ i \in Inodes /\ Shape(i) /\ Sound(fat, i) /\ i.slot \in Slots
        /\ Held(fat, i) \subseteq taken \ Reserved /\ Chain(f) = i /\ MaxSize[f] \in Nat
    BY <1>1, LiveFacts, UncutFacts
  <1>3. entry \in [Slots -> Entries \cup {NoEntry}] /\ ino \in [Files -> Inodes]
        /\ fat \in [Clusters -> Clusters \cup {0, Eof}] /\ VolumeOK
    BY DEF IInv, Records, VolumeOK, Volume
  <1>4. a \in Inodes /\ a.mmu = 0 /\ a.st = "absent" /\ a.cut = NoSize
    <2>1. a \in Inodes
      BY AbsentTyped
    <2> QED BY <2>1 DEF Absent
  <1> HIDE DEF a
  <1> DEFINE gone == Visited(fat, i.start, i.isize, i.flags)
  <1>5. gone \subseteq Held(fat, i)
    BY <1>2, VisitedHeld
  <1>6. VolumeOK' /\ taken' = taken \ gone /\ fat' = fat
    <2>1. Visited(fat, i.start, i.isize, i.flags) \subseteq taken \ Reserved
      BY <1>2, <1>5
    <2> QED BY <1>1, <1>3, <2>1, FreeKeepsVolume
  <1> HIDE DEF gone
  <1>7. Records'
    BY <1>1, <1>3, <1>4 DEF Records
  <1>8. ino'[f] = a /\ Inode(f)' = a /\ Chain(f)' = a
    <2>1. ino'[f] = a
      BY <1>1, <1>3
    <2>2. Inode(f)' = a
      BY <1>4, <2>1 DEF Inode
    <2> QED BY <1>4, <2>1, <2>2 DEF Chain, Whole
  <1>9. Placed(f)'
    <2>1. Inode(f)'.mmu <= MaxSize[f]
      BY <1>2, <1>4, <1>8
    <2> QED BY <1>4, <1>8, <2>1 DEF Placed, a
  <1>10. Sound(fat', Chain(f)') /\ Held(fat', Chain(f)') = {}
    BY <1>8, AbsentIsBare, BareIsSound DEF a
  <1>11. OthersKept(f)
    <2>1. ASSUME NEW g \in Files \ {f}
          PROVE  /\ ino'[g] = ino[g]
                 /\ ino[g].st # "absent" => entry'[ino[g].slot] = entry[ino[g].slot]
      <3>1. ino[g].st # "absent" => ino[g].slot # i.slot
        BY <1>1, SlotsDiffer
      <3> QED BY <1>1, <1>3, <3>1, FileFacts
    <2>2. ASSUME NEW c \in taken \ Held(fat, Chain(f)) PROVE c \in taken' /\ fat'[c] = fat[c]
      BY <1>2, <1>5, <1>6
    <2> QED BY <2>1, <2>2 DEF OthersKept
  <1>12. IInv'
    BY <1>6, <1>7, <1>9, <1>10, <1>11, OneFileMoves
  <1> QED BY <1>1, <1>4, <1>8, <1>11, <1>12

\* What the beginning of a write leaves of what the file has.
Begun(f) ==
  /\ IInv' /\ OthersKept(f) /\ ino'[f].st = "cached" /\ Inode(f)'.isize = ino[f].isize
  /\ \A k \in 0 .. (ino[f].isize - 1) : Cell(fat', Inode(f)', k) = Cell(fat, ino[f], k)
  /\ ino'[f].hoff \in {ino[f].hoff, ino[f].isize} /\ ino'[f].slot = ino[f].slot
  /\ \A g \in Files \ {f} : ino'[g] = ino[g]
  /\ \A s \in Slots \ {ino[f].slot} : entry'[s] = entry[s]

LEMMA KeptIsOthersKept ==
  ASSUME NEW f, UNCHANGED clusterVars,
         \A g \in Files \ {f} : /\ ino'[g] = ino[g]
                                /\ ino[g].st # "absent" => entry'[ino[g].slot] = entry[ino[g].slot]
  PROVE  OthersKept(f)
  BY DEF OthersKept, clusterVars

\* A cluster that an earlier write left behind is used again.
LEMMA WriteFindsCluster ==
  ASSUME Ordinary, IInv, NEW f \in Files, exfat_write_begin(f, TRUE), ino[f].st = "cached",
         ino[f].isize < Has(fat, ino[f])
  PROVE  Begun(f)
  <1> DEFINE i == ino[f]
             off == i.isize
             m == ffsMapCluster(f, off, TRUE)
             clu == Located(i, off).clu
             j == [i EXCEPT !.hoff = off, !.hclu = clu, !.mmu = @ + 1, !.at = clu]
  <1>1. /\ i.at = Eof /\ i.cut = NoSize /\ i.isize < MaxSize[f] /\ Take(m)
        /\ ino' = [ino EXCEPT ![f] = IF m.ok THEN [m.ino EXCEPT !.mmu = @ + 1, !.at = m.clu]
                                     ELSE [m.ino EXCEPT !.mmu = i.isize, !.dirty = TRUE]]
    BY DEF exfat_write_begin, BeginsWith, Unlocked
  <1>2. /\ i \in Inodes /\ Shape(i) /\ Sound(fat, i) /\ i.isize \in Nat /\ MaxSize[f] \in Nat
        /\ Agrees(entry[i.slot], i, MaxSize[f]) /\ Whole(i) = i
        /\ i.flags \in {Linked, Contiguous} /\ i.mmu = i.isize
    <2>1. /\ i \in Inodes /\ Shape(i) /\ Sound(fat, i) /\ i.isize \in Nat /\ MaxSize[f] \in Nat
          /\ Agrees(entry[i.slot], i, MaxSize[f]) /\ Whole(i) = i /\ i.flags \in {Linked, Contiguous}
      BY <1>1, LiveFacts, UncutFacts
    <2> QED BY <1>1, <2>1 DEF Sound
  <1>3. /\ Has(fat, i) \in Nat /\ i.start # Eof
        /\ \A k \in 0 .. (Has(fat, i) - 1) : Cell(fat, i, k) \in Clusters
    <2>1. i.start # Eof
      BY <1>2 DEF Has
    <2> QED BY <1>2, <2>1, SoundFacts DEF Shape
  <1>4. clu = Cell(fat, i, off) /\ clu \in Clusters /\ clu # Eof
    <2>1. off \in Nat /\ off <= i.isize /\ off < Has(fat, i)
      BY <1>2
    <2>2. clu = Cell(fat, i, off)
      BY <1>2, <2>1, LocatedIs
    <2>3. clu \in Clusters
      BY <1>2, <1>3, <2>1, <2>2
    <2> QED BY <2>2, <2>3, Numbers
  <1>5. /\ m.ino = [i EXCEPT !.hoff = off, !.hclu = clu] /\ m.ok = TRUE /\ m.clu = clu
        /\ m.taken = taken /\ m.fat = fat /\ m.srch = srch /\ m.used = used /\ m.entry = entry
    BY <1>4 DEF ffsMapCluster
  <1> HIDE DEF m, clu
  <1>6. UNCHANGED clusterVars /\ entry' = entry /\ fat' = fat
    BY <1>1, <1>5 DEF Take, clusterVars
  <1>7. [m.ino EXCEPT !.mmu = @ + 1, !.at = m.clu] = j
    BY <1>2, <1>5 DEF Inodes
  <1>8. ino' = [ino EXCEPT ![f] = j]
    BY <1>1, <1>5, <1>7
  <1>9. /\ j.isize = i.isize /\ j.dirty = i.dirty /\ j.at = clu
        /\ j.pages = i.pages
        /\ j.st = i.st /\ j.slot = i.slot /\ j.start = i.start /\ j.flags = i.flags
        /\ j.mmu = i.isize + 1 /\ j.hoff = off /\ j.hclu = clu
        /\ j.wrote = i.wrote /\ j.cut = NoSize
    BY <1>1, <1>2 DEF Inodes
  <1>10. j \in Inodes
    <2>1. i.mmu + 1 \in Nat /\ off \in Nat \cup {-1} /\ clu \in Clusters \cup {Eof}
      BY <1>2, <1>4
    <2> QED BY <1>2, <2>1 DEF Inodes
  <1> HIDE DEF j
  <1>11. Renews(fat, i, j, Has(fat, i))
    <2>1. i.flags = Contiguous => Has(fat, i) = IF j.mmu = 0 THEN 1 ELSE j.mmu
      BY <1>2, <1>3, <1>9 DEF Has
    <2>2. i.flags = Linked => /\ j.isize \in {Has(fat, i) - 1, Has(fat, i)} /\ j.isize > 0
                              /\ j.hoff > 0 => j.hoff < Has(fat, i) /\ j.hclu = Cell(fat, i, j.hoff)
      <3>1. i.flags = Linked => Has(fat, i) = i.isize \/ Has(fat, i) = i.isize + 1
        BY <1>3, Numbers DEF Has
      <3> QED BY <1>2, <1>3, <1>4, <1>9, <3>1 DEF Sound
    <2>3. \A p \in j.pages : p[1] < j.isize /\ p[2] = Cell(fat, i, p[1])
      BY <1>2, <1>9 DEF Sound
    <2>4. Has(fat, i) > 0
      BY <1>2, <1>3
    <2> QED BY <1>2, <1>3, <1>4, <1>9, <2>1, <2>2, <2>3, <2>4 DEF Renews
  <1>12. /\ Sound(fat, j) /\ Held(fat, j) \subseteq Held(fat, i)
         /\ \A k \in 0 .. (Has(fat, i) - 1) : Cell(fat, j, k) = Cell(fat, i, k)
    BY <1>2, <1>3, <1>10, <1>11, InodeShape, SoundAs
  <1>13. IInv' /\ Inode(f)' = j
    <2>1. j.mmu <= MaxSize[f]
      BY <1>1, <1>2, <1>9
    <2>2. Agrees(entry[i.slot], j, MaxSize[f]) /\ Whole(j) = j
      BY <1>1, <1>2, <1>9 DEF Agrees, Whole
    <2> QED BY <2>2, <1>2, <1>6, <1>8, <1>9, <1>10, <1>12, <2>1, OnlyInode
  <1>14. ino'[f] = j /\ \A g \in Files \ {f} : ino'[g] = ino[g]
    BY <1>8 DEF IInv, Records
  <1>15. OthersKept(f)
    BY <1>6, <1>14, KeptIsOthersKept
  <1>16. \A k \in 0 .. (i.isize - 1) : Cell(fat, j, k) = Cell(fat, i, k)
    BY <1>2, <1>3, <1>12
  <1> QED BY <1>6, <1>9, <1>13, <1>14, <1>15, <1>16 DEF Begun

\* The file has no cluster at its end: one is allocated, or there is none.
LEMMA WriteAllocates ==
  ASSUME Ordinary, IInv, NEW f \in Files, exfat_write_begin(f, TRUE), ino[f].st = "cached",
         ino[f].isize = Has(fat, ino[f])
  PROVE  Begun(f)
  <1> DEFINE i == ino[f]
             e == entry[i.slot]
             off == i.isize
             m == ffsMapCluster(f, off, TRUE)
             last == Located(i, off).last
             first == last = Eof
             new == exfat_alloc_cluster(IF last = Eof THEN Eof ELSE last + 1, i.flags)
             j == [m.ino EXCEPT !.mmu = @ + 1, !.at = m.clu]
  <1>1. /\ i.at = Eof /\ i.cut = NoSize /\ i.isize < MaxSize[f] /\ Take(m)
        /\ ino' = [ino EXCEPT ![f] = IF m.ok THEN j
                                     ELSE [m.ino EXCEPT !.mmu = i.isize, !.dirty = TRUE]]
    BY DEF exfat_write_begin, BeginsWith, Unlocked
  <1>2. /\ i \in Inodes /\ Shape(i) /\ Sound(fat, i) /\ i.isize \in Nat /\ MaxSize[f] \in Nat
        /\ Held(fat, i) \subseteq taken \ Reserved /\ Chain(f) = i /\ Whole(i) = i
        /\ i.slot \in Slots /\ e \in Entries /\ e # NoEntry /\ e.file = f
        /\ i.start # Eof => e.clu0 = i.start /\ e.flags = i.flags
        /\ i.flags \in {Linked, Contiguous} /\ i.mmu = i.isize /\ Agrees(e, i, MaxSize[f])
    <2>1. /\ i \in Inodes /\ Shape(i) /\ Sound(fat, i) /\ i.isize \in Nat /\ MaxSize[f] \in Nat
          /\ Held(fat, i) \subseteq taken \ Reserved /\ Chain(f) = i /\ Whole(i) = i
          /\ i.slot \in Slots /\ e \in Entries /\ e # NoEntry /\ e.file = f
          /\ i.start # Eof => e.clu0 = i.start /\ e.flags = i.flags
          /\ i.flags \in {Linked, Contiguous} /\ Agrees(e, i, MaxSize[f])
      BY <1>1, LiveFacts, UncutFacts
    <2> QED BY <1>1, <2>1 DEF Sound
  <1>3. entry \in [Slots -> Entries \cup {NoEntry}] /\ ino \in [Files -> Inodes]
        /\ Volume /\ Counted(used, taken) /\ Reserved \subseteq taken
    BY DEF IInv, Records, VolumeOK
  <1>4. /\ Located(i, off).clu = Eof
        /\ last = IF i.isize = 0 THEN Eof ELSE Cell(fat, i, i.isize - 1)
    <2>1. off \in Nat /\ off <= i.isize /\ off = Has(fat, i)
      BY <1>2
    <2> QED BY <1>2, <2>1, LocatedIs
  <1>5. /\ i.isize > 0 => last \in Clusters
        /\ last = Eof <=> i.isize = 0
        /\ i.start = Eof <=> i.isize = 0
    <2>1. ASSUME i.isize > 0 PROVE last \in Clusters /\ i.start # Eof
      <3>1. i.isize - 1 \in 0 .. (Has(fat, i) - 1) /\ last = Cell(fat, i, i.isize - 1)
        BY <1>2, <1>4, <2>1
      <3>2. last \in Clusters
        BY <1>2, <3>1, SoundFacts DEF Shape
      <3>3. i.start # Eof
        BY <1>2, <2>1 DEF Sound
      <3> QED BY <3>2, <3>3
    <2>2. ASSUME i.isize = 0 PROVE last = Eof /\ i.start = Eof
      <3>1. last = Eof
        BY <1>4, <2>2
      <3>2. i.start # Eof => Has(fat, i) > 0
        BY <1>2, SoundFacts DEF Shape
      <3> QED BY <2>2, <3>1, <3>2
    <2> QED BY <1>2, <2>1, <2>2, Numbers
  <1> HIDE DEF last
  <1> DEFINE dir == IF last = Eof THEN Eof ELSE last + 1
  <1>6. dir \in Clusters \cup {Eof, NumClusters}
    <2>1. CASE i.isize = 0
      BY <1>5, <2>1
    <2>2. CASE i.isize > 0
      <3>1. last + 1 \in Clusters \cup {NumClusters} /\ dir = last + 1
        BY <1>5, <2>2, Numbers
      <3> QED BY <3>1
    <2> QED BY <1>2, <2>1, <2>2
  <1>7. /\ new.srch \in Clusters
        /\ new.n = 1 =>
             /\ new.dir \in Clusters \ taken
             /\ new.taken = taken \cup {new.dir}
             /\ new.flags \in {Linked, Contiguous}
             /\ new.flags = Contiguous => i.flags = Contiguous
             /\ new.used \in Nat \cup {Unknown}
             /\ Counted(used, taken) => Counted(new.used, new.taken)
        /\ new.n # 1 => new.n = 0
    <2> HIDE DEF dir
    <2>1. new = exfat_alloc_cluster(dir, i.flags)
      BY DEF dir
    <2> HIDE DEF new
    <2> QED BY <1>2, <1>3, <1>6, <2>1, AllocatedWasFree
  <1>8. CASE new.n # 1
    <2> DEFINE b == [i EXCEPT !.mmu = i.isize, !.dirty = TRUE]
    <2>1. new.n = 0
      BY <1>7, <1>8
    <2>2. /\ m.ok = FALSE /\ m.ino = i /\ m.srch = new.srch
          /\ m.taken = taken /\ m.fat = fat /\ m.used = used /\ m.entry = entry
      BY <1>4, <2>1 DEF ffsMapCluster, last
    <2> HIDE DEF m, new
    <2>3. /\ taken' = taken /\ fat' = fat /\ used' = used /\ entry' = entry
          /\ srch' = new.srch /\ ino' = [ino EXCEPT ![f] = b]
      BY <1>1, <2>2 DEF Take
    <2>4. /\ b.st = i.st /\ b.slot = i.slot /\ b.dirty = TRUE /\ SameChainOf(i, b)
          /\ b.start = i.start /\ b.flags = i.flags /\ b.isize = i.isize /\ b.mmu = i.mmu
          /\ b.hoff = i.hoff /\ b.wrote = i.wrote /\ b.cut = NoSize
      BY <1>1, <1>2 DEF Inodes, SameChainOf
    <2>5. b \in Inodes
      BY <1>2 DEF Inodes
    <2> HIDE DEF b
    <2>6. /\ ino'[f] = b /\ Inode(f)' = b /\ Chain(f)' = b
          /\ \A g \in Files \ {f} : ino'[g] = ino[g]
      <3>1. ino'[f] = b /\ \A g \in Files \ {f} : ino'[g] = ino[g]
        BY <1>3, <2>3
      <3>2. Inode(f)' = b
        BY <2>4, <3>1 DEF Inode
      <3> QED BY <2>4, <3>1, <3>2 DEF Chain, Whole
    <2>7. Records'
      BY <1>3, <2>3, <2>5 DEF Records
    <2>8. VolumeOK'
      BY <1>3, <1>7, <2>3 DEF VolumeOK, Volume, Counted
    <2>9. Placed(f)'
      <3>1. Inode(f)'.mmu <= MaxSize[f]
        BY <1>1, <1>2, <2>4, <2>6
      <3>2. Agrees(e, b, MaxSize[f])
        BY <1>2, <2>4 DEF Agrees
      <3> QED BY <1>2, <2>3, <2>4, <2>6, <3>1, <3>2 DEF Placed
    <2>10. /\ Sound(fat, b) /\ Held(fat, b) = Held(fat, i)
           /\ \A k : Cell(fat, b, k) = Cell(fat, i, k)
      BY <1>2, <2>4, SameChain
    <2>11. OthersKept(f)
      BY <2>3, <2>6 DEF OthersKept
    <2>12. IInv'
      <3>1. /\ Sound(fat', Chain(f)') /\ Held(fat', Chain(f)') \subseteq taken'
            /\ Held(fat', Chain(f)') \subseteq Held(fat, Chain(f)) \cup (Clusters \ taken)
        BY <1>2, <2>3, <2>6, <2>10
      <3> QED BY <2>7, <2>8, <2>9, <2>11, <3>1, OneFileMoves
    <2> QED BY <2>3, <2>4, <2>6, <2>10, <2>11, <2>12 DEF Begun
  <1>9. CASE new.n = 1
    <2> DEFINE turned == ~first /\ new.flags # i.flags
               j2 == [i EXCEPT !.flags = IF new.flags = Linked THEN Linked ELSE @,
                               !.start = IF first THEN new.dir ELSE @,
                               !.hoff = off, !.hclu = new.dir, !.mmu = i.isize + 1,
                               !.at = new.dir]
               t2 == GrownFat(i, new, last)
               flags2 == IF new.flags = Linked THEN Linked ELSE i.flags
               start2 == IF first THEN new.dir ELSE i.start
    <2>1. /\ m.ok = TRUE /\ m.clu = new.dir
          /\ m.ino = [[i EXCEPT !.flags = IF new.flags = Linked THEN Linked ELSE @,
                                !.start = IF first THEN new.dir ELSE @]
                         EXCEPT !.hoff = off, !.hclu = new.dir]
          /\ m.taken = new.taken /\ m.srch = new.srch /\ m.used = new.used
      BY <1>2, <1>4, <1>9 DEF ffsMapCluster, last, FreeSlot
    <2>2. m.fat = t2
      <3>1. ~first <=> i.isize > 0
        BY <1>2, <1>5
      <3>2. m.fat = LET chained == IF turned THEN exfat_chain_cont_cluster(new.fat, i.start, i.mmu)
                                   ELSE new.fat
                    IN IF ~first /\ new.flags = Linked
                       THEN [chained EXCEPT ![last] = new.dir] ELSE chained
        BY <1>2, <1>4, <1>9 DEF ffsMapCluster, last, FreeSlot
      <3> HIDE DEF new, m, first
      <3> QED BY <3>1, <3>2 DEF GrownFat
    <2>3. m.entry = IF first \/ turned
                    THEN [entry EXCEPT ![i.slot].flags = flags2, ![i.slot].clu0 = start2]
                    ELSE entry
      <3>1. m.entry = IF Modified(first, turned)
                      THEN [entry EXCEPT ![i.slot].flags =
                                           [i EXCEPT !.flags = IF new.flags = Linked THEN Linked ELSE @,
                                                     !.start = IF first THEN new.dir ELSE @].flags,
                                         ![i.slot].clu0 =
                                           [i EXCEPT !.flags = IF new.flags = Linked THEN Linked ELSE @,
                                                     !.start = IF first THEN new.dir ELSE @].start]
                      ELSE entry
        BY <1>2, <1>4, <1>9 DEF ffsMapCluster, last, FreeSlot
      <3>2. /\ [i EXCEPT !.flags = IF new.flags = Linked THEN Linked ELSE @,
                         !.start = IF first THEN new.dir ELSE @].flags = flags2
            /\ [i EXCEPT !.flags = IF new.flags = Linked THEN Linked ELSE @,
                         !.start = IF first THEN new.dir ELSE @].start = start2
        <4> HIDE DEF new, first
        <4> QED BY <1>2 DEF Inodes
      <3> HIDE DEF new, m, first, turned, flags2, start2
      <3> QED BY <3>1, <3>2 DEF Modified
    <2> HIDE DEF m, new
    <2>4. j = j2
      <3> HIDE DEF first
      <3> QED BY <1>2, <2>1 DEF Inodes
    <2> HIDE DEF j
    <2>5. /\ j2.flags = flags2 /\ j2.start = start2 /\ j2.isize = i.isize
          /\ j2.mmu = i.isize + 1 /\ j2.at = new.dir /\ j2.hoff = i.isize
          /\ j2.hclu = new.dir /\ j2.pages = i.pages /\ j2.st = i.st /\ j2.slot = i.slot
          /\ j2.dirty = i.dirty /\ j2.wrote = i.wrote /\ j2.cut = NoSize
      <3> HIDE DEF first
      <3> QED BY <1>1, <1>2 DEF Inodes
    <2>6. new.dir \in Clusters \ taken /\ flags2 \in {Linked, Contiguous}
          /\ start2 \in Clusters /\ (i.isize = 0 <=> first)
      <3>1. new.dir \in Clusters \ taken /\ flags2 \in {Linked, Contiguous}
        BY <1>2, <1>7, <1>9
      <3>2. i.start \in Clusters \cup {Eof}
        BY <1>2, InodeFields
      <3> QED BY <1>5, <3>1, <3>2
    <2>7. j2 \in Inodes
      <3>1. /\ new.dir \in Clusters \cup {Eof} /\ i.isize + 1 \in Nat /\ off \in Nat \cup {-1}
            /\ start2 \in Clusters \cup {Eof}
        BY <1>2, <2>6
      <3> DEFINE fl == IF new.flags = Linked THEN Linked ELSE i.flags
                 st == IF first THEN new.dir ELSE i.start
      <3>2. j2 = [i EXCEPT !.flags = fl, !.start = st, !.hoff = off, !.hclu = new.dir,
                           !.mmu = i.isize + 1, !.at = new.dir]
        BY <1>2 DEF Inodes
      <3>3. fl \in {Linked, Contiguous} /\ st \in Clusters \cup {Eof}
        BY <2>6
      <3> HIDE DEF fl, st, j2
      <3> QED BY <1>2, <2>6, <3>1, <3>2, <3>3 DEF Inodes
    <2> HIDE DEF j2
    <2>8. Grown(i, new, j2) /\ Shape(j2)
      BY <2>5, <2>6, <2>7, InodeShape DEF Grown
    <2> HIDE DEF t2
    <2>9. /\ t2 \in [Clusters -> Clusters \cup {0, Eof}]
          /\ \A c \in taken \ Held(fat, i) : t2[c] = fat[c]
          /\ Sound(t2, j2) /\ Has(t2, j2) = i.isize + 1
          /\ \A k \in 0 .. (i.isize - 1) : Cell(t2, j2, k) = Cell(fat, i, k)
          /\ Held(t2, j2) = Held(fat, i) \cup {new.dir}
      <3>1. Held(fat, i) \subseteq taken
        BY <1>2
      <3>2. new = exfat_alloc_cluster(IF last = Eof THEN Eof ELSE last + 1, i.flags)
        BY DEF new
      <3> QED BY <1>1, <1>2, <1>3, <1>4, <1>9, <2>8, <3>1, <3>2, ChainGrows DEF t2
    <2>10. /\ taken' = taken \cup {new.dir} /\ fat' = t2 /\ srch' = new.srch
           /\ used' = new.used /\ entry' = m.entry /\ ino' = [ino EXCEPT ![f] = j2]
      BY <1>1, <1>7, <1>9, <2>1, <2>2, <2>4 DEF Take
    <2>11. VolumeOK'
      <3>1. Volume'
        BY <1>3, <1>7, <1>9, <2>6, <2>9, <2>10 DEF Volume
      <3>2. Counted(used, taken)'
        BY <1>3, <1>7, <1>9, <2>10 DEF Counted
      <3> QED BY <1>3, <2>10, <3>1, <3>2 DEF VolumeOK
    <2> DEFINE e2 == [e EXCEPT !.flags = flags2, !.clu0 = start2]
    <2>12. /\ \E en \in Entries : /\ entry' = [entry EXCEPT ![i.slot] = en]
                                 /\ en.file = f /\ en.size = e.size
                                 /\ en.clu0 = start2 /\ en.flags = flags2
      <3>1. CASE first \/ turned
        <4>1. e2 \in Entries /\ e2.file = f /\ e2.size = e.size /\ e2.clu0 = start2
              /\ e2.flags = flags2
          <5>1. start2 \in Clusters \cup {0, Eof}
            BY <2>6
          <5> HIDE DEF start2, flags2
          <5> QED BY <1>2, <2>6, <5>1 DEF Entries
        <4>2. entry' = [entry EXCEPT ![i.slot] = e2]
          <5> HIDE DEF start2, flags2, first, turned
          <5> QED BY <1>2, <1>3, <2>3, <2>10, <3>1
        <4> QED BY <4>1, <4>2
      <3>2. CASE ~(first \/ turned)
        <4>1. start2 = i.start /\ flags2 = i.flags /\ i.start # Eof
          BY <1>5, <2>6, <3>2
        <4>2. entry' = entry
          <5> HIDE DEF start2, flags2, first, turned
          <5> QED BY <2>3, <2>10, <3>2
        <4>3. entry' = [entry EXCEPT ![i.slot] = e]
          BY <1>2, <1>3, <4>2
        <4> QED BY <1>2, <4>1, <4>3
      <3> QED BY <3>1, <3>2
    <2>13. PICK en \in Entries : /\ entry' = [entry EXCEPT ![i.slot] = en]
                                 /\ en.file = f /\ en.size = e.size
                                 /\ en.clu0 = start2 /\ en.flags = flags2
      BY <2>12
    <2> HIDE DEF start2, flags2, first
    <2>14. Records'
      BY <1>3, <2>7, <2>10, <2>13 DEF Records
    <2>15. /\ entry'[i.slot] = en /\ ino'[f] = j2 /\ Inode(f)' = j2 /\ Chain(f)' = j2
           /\ \A g \in Files \ {f} : ino'[g] = ino[g]
      <3>1. entry'[i.slot] = en /\ ino'[f] = j2 /\ \A g \in Files \ {f} : ino'[g] = ino[g]
        BY <1>2, <1>3, <2>10, <2>13
      <3>2. Inode(f)' = j2
        BY <2>5, <3>1 DEF Inode
      <3> QED BY <2>5, <3>1, <3>2 DEF Chain, Whole
    <2>16. Placed(f)'
      <3>1. Inode(f)'.mmu <= MaxSize[f]
        BY <1>1, <1>2, <2>5, <2>15
      <3>2. en # NoEntry
        BY EntryIsThere
      <3>3. Agrees(en, j2, MaxSize[f])
        BY <1>1, <1>2, <2>5, <2>13 DEF Agrees
      <3> QED BY <1>2, <2>5, <2>13, <2>15, <3>1, <3>2, <3>3 DEF Placed
    <2>17. OthersKept(f)
      <3>1. ASSUME NEW g \in Files \ {f}
            PROVE  /\ ino'[g] = ino[g]
                   /\ ino[g].st # "absent" => entry'[ino[g].slot] = entry[ino[g].slot]
        <4>1. ino[g].st # "absent" => ino[g].slot # i.slot
          BY SlotsDiffer
        <4> QED BY <1>3, <2>13, <2>15, <4>1, FileFacts
      <3>2. \A c \in taken \ Held(fat, Chain(f)) : c \in taken' /\ fat'[c] = fat[c]
        BY <1>2, <2>9, <2>10
      <3> QED BY <3>1, <3>2 DEF OthersKept
    <2>18. IInv'
      <3>1. /\ Sound(fat', Chain(f)') /\ Held(fat', Chain(f)') \subseteq taken'
            /\ Held(fat', Chain(f)') \subseteq Held(fat, Chain(f)) \cup (Clusters \ taken)
        BY <1>2, <2>6, <2>9, <2>10, <2>15
      <3> QED BY <2>11, <2>14, <2>16, <2>17, <3>1, OneFileMoves
    <2>19. \A s \in Slots \ {i.slot} : entry'[s] = entry[s]
      BY <1>3, <2>13
    <2> QED BY <2>5, <2>9, <2>10, <2>15, <2>17, <2>18, <2>19 DEF Begun
  <1> QED BY <1>8, <1>9

LEMMA WriteBeginKeeps ==
  ASSUME Ordinary, IInv, NEW f \in Files, NEW copied \in Copied, exfat_write_begin(f, copied)
  PROVE  Begun(f) /\ ino[f].st = "cached"
  <1>1. copied = TRUE
    BY DEF Copied, Ordinary
  <1>2. ino[f].st = "cached"
    <2>1. Usable(f)
      BY DEF exfat_write_begin, BeginsWith
    <2> QED BY <2>1, UsableIsLive
  <1>3. ino[f].isize \in Nat /\ Has(fat, ino[f]) \in Nat /\ ino[f].isize <= Has(fat, ino[f])
    <2>1. ino[f].cut = NoSize
      BY DEF exfat_write_begin, BeginsWith, Unlocked
    <2>2. Shape(ino[f]) /\ Sound(fat, ino[f])
      BY <1>2, <2>1, LiveFacts, UncutFacts
    <2> QED BY <2>2, SoundFacts DEF Shape
  <1>4. CASE ino[f].isize < Has(fat, ino[f])
    BY <1>1, <1>2, <1>4, WriteFindsCluster
  <1>5. CASE ino[f].isize = Has(fat, ino[f])
    BY <1>1, <1>2, <1>5, WriteAllocates
  <1> QED BY <1>3, <1>4, <1>5

-------------------------------------------------------------------------------
(* Every step *)

\* What a step may do to a file's data: nothing, cut its end, or add the
\* cluster of the write in progress.
Stays(f) ==
  /\ Inode(f)'.isize = Inode(f).isize
  /\ \A k \in 0 .. (Inode(f).isize - 1) : Cell(fat', Inode(f)', k) = Cell(fat, Inode(f), k)
Shrinks(f) ==
  /\ Inode(f)'.isize < Inode(f).isize
  /\ \A k \in 0 .. (Inode(f)'.isize - 1) : Cell(fat', Inode(f)', k) = Cell(fat, Inode(f), k)
Gains(f) ==
  /\ ino[f].at # Eof /\ ino[f].st = "cached"
  /\ Inode(f)'.isize = Inode(f).isize + 1
  /\ Cell(fat', Inode(f)', Inode(f).isize) = ino[f].at
  /\ \A k \in 0 .. (Inode(f).isize - 1) : Cell(fat', Inode(f)', k) = Cell(fat, Inode(f), k)
OneFile(f) ==
  /\ IInv'
  /\ \A g \in Files \ {f} : Stays(g)
  /\ Stays(f) \/ Shrinks(f) \/ Gains(f)

LEMMA UntouchedStays ==
  ASSUME IInv, NEW g \in Files, Inode(g)' = Inode(g), Chain(g)' = Chain(g),
         \A k \in 0 .. (Has(fat, Chain(g)) - 1) :
              Cell(fat', Chain(g)', k) = Cell(fat, Chain(g), k)
  PROVE  Stays(g)
  <1> DEFINE i == Inode(g)
             w == Chain(g)
  <1>1. /\ Sound(fat, w) /\ Shape(w) /\ Shape(i) /\ i.isize <= w.isize
        /\ w.start = i.start /\ w.flags = i.flags
    BY FileFacts
  <1>2. \A k \in 0 .. (Has(fat, w) - 1) : Cell(fat', w, k) = Cell(fat, w, k)
    OBVIOUS
  <1> HIDE DEF i, w
  <1>3. i.isize \in Nat /\ Has(fat, w) \in Nat /\ i.isize <= Has(fat, w)
    BY <1>1, SoundFacts DEF Shape
  <1>4. \A k : Cell(fat', w, k) = Cell(fat', i, k) /\ Cell(fat, w, k) = Cell(fat, i, k)
    BY <1>1 DEF Cell
  <1>5. \A k \in 0 .. (i.isize - 1) : Cell(fat', i, k) = Cell(fat, i, k)
    BY <1>2, <1>3, <1>4
  <1> QED BY <1>5 DEF Stays, i

LEMMA OthersStay ==
  ASSUME IInv, NEW f \in Files, OthersKept(f)
  PROVE  \A g \in Files \ {f} : Stays(g)
  <1> SUFFICES ASSUME NEW g \in Files, g # f PROVE Stays(g)
    OBVIOUS
  <1>1. /\ Inode(g)' = Inode(g) /\ Chain(g)' = Chain(g)
        /\ \A k \in 0 .. (Has(fat, Chain(g)) - 1) :
              Cell(fat', Chain(g)', k) = Cell(fat, Chain(g), k)
    BY OthersUntouched
  <1> QED BY <1>1, UntouchedStays

LEMMA SameChainStays ==
  ASSUME NEW f \in Files, fat' = fat, SameChainOf(Inode(f), Inode(f)')
  PROVE  Stays(f)
  <1> DEFINE i == Inode(f)
             j == Inode(f)'
  <1>1. j.isize = i.isize /\ j.start = i.start /\ j.flags = i.flags
    BY DEF SameChainOf
  <1> HIDE DEF i, j
  <1>2. \A k : Cell(fat, j, k) = Cell(fat, i, k)
    BY <1>1 DEF Cell
  <1> QED BY <1>1, <1>2 DEF Stays, i, j

\* A call that leaves every inode but one alone.
LEMMA CallStays ==
  ASSUME Ordinary, IInv, NEW f \in Files
  PROVE  /\ \A s \in Slots : exfat_create(f, s) => OneFile(f)
         /\ exfat_lookup(f) => OneFile(f)
         /\ \A s \in Slots : exfat_rename(f, s) => OneFile(f)
         /\ mark_inode_dirty(f) => OneFile(f)
         /\ exfat_write_inode(f) => OneFile(f)
         /\ FsWriteStat(f) => OneFile(f)
         /\ exfat_evict_inode(f) => OneFile(f)
  <1>1. ASSUME NEW s \in Slots, exfat_create(f, s)
        PROVE  OneFile(f)
    <2>1. IInv'
      BY <1>1, CreateKeeps
    <2>2. /\ UNCHANGED clusterVars /\ ino[f].st = "absent" /\ ino'[f] = Absent("cached", s)
          /\ \A g \in Files \ {f} : ino'[g] = ino[g]
          /\ \A r \in Slots \ {s} : entry'[r] = entry[r]
          /\ entry[s] = NoEntry
      BY <1>1 DEF exfat_create, FreeSlot, IInv, Records
    <2>3. OthersKept(f)
      <3>1. \A g \in Files \ {f} : ino[g].st # "absent" => ino[g].slot \in Slots \ {s}
        BY <2>2, FileFacts
      <3> QED BY <2>2, <3>1, KeptIsOthersKept
    <2>4. Stays(f)
      <3>1. Inode(f) = ino[f] /\ Placed(f)
        BY <2>2, FileFacts
      <3>2. ino[f] = Absent("absent", NoEntry)
        BY <2>2, <3>1 DEF Placed
      <3>3. Inode(f).isize = 0
        BY <3>1, <3>2 DEF Absent
      <3>4. Inode(f)' = ino'[f]
        BY <2>2 DEF Inode, Absent
      <3>5. Inode(f)'.isize = 0
        BY <2>2, <3>4 DEF Absent
      <3> QED BY <3>3, <3>5 DEF Stays
    <2> QED BY <2>1, <2>3, <2>4, OthersStay DEF OneFile
  <1>2. ASSUME exfat_lookup(f)
        PROVE  OneFile(f)
    <2>1. IInv' /\ Inode(f)' = Inode(f) /\ Chain(f)' = Chain(f)
      <3>1. IInv' /\ Inode(f)' = Inode(f)
        BY <1>2, LookupKeeps
      <3> QED BY <3>1 DEF Chain
    <2>2. UNCHANGED clusterVars /\ entry' = entry /\ \A g \in Files \ {f} : ino'[g] = ino[g]
      BY <1>2 DEF exfat_lookup, IInv, Records
    <2>3. OthersKept(f)
      BY <2>2, KeptIsOthersKept
    <2>4. Stays(f)
      BY <2>1, <2>2, UntouchedStays DEF clusterVars
    <2> QED BY <2>1, <2>3, <2>4, OthersStay DEF OneFile
  <1>3. ASSUME NEW s \in Slots, exfat_rename(f, s)
        PROVE  OneFile(f)
    <2>1. /\ IInv' /\ UNCHANGED clusterVars /\ ino[f].st = "cached"
          /\ SameChainOf(ino[f], Inode(f)')
          /\ \A g \in Files \ {f} : /\ ino'[g] = ino[g]
                                    /\ ino[g].st # "absent" => entry'[ino[g].slot] = entry[ino[g].slot]
      BY <1>3, RenameKeeps
    <2>2. OthersKept(f)
      BY <2>1, KeptIsOthersKept
    <2>3. Inode(f) = ino[f] /\ fat' = fat
      BY <2>1, LiveFacts DEF clusterVars
    <2>4. Stays(f)
      BY <2>1, <2>3, SameChainStays
    <2> QED BY <2>1, <2>2, <2>4, OthersStay DEF OneFile
  <1>4. ASSUME exfat_write_inode(f)
        PROVE  OneFile(f)
    <2>1. /\ IInv' /\ UNCHANGED clusterVars /\ entry' = entry /\ ino[f].st = "cached"
          /\ SameChainOf(ino[f], Inode(f)')
      BY <1>4, WriteInodeKeeps
    <2>5. \A g \in Files \ {f} : ino'[g] = ino[g]
      BY <1>4 DEF exfat_write_inode, IInv, Records
    <2>2. OthersKept(f)
      BY <2>1, <2>5, KeptIsOthersKept
    <2>3. Inode(f) = ino[f] /\ fat' = fat
      BY <2>1, LiveFacts DEF clusterVars
    <2>4. Stays(f)
      BY <2>1, <2>3, SameChainStays
    <2> QED BY <2>1, <2>2, <2>4, OthersStay DEF OneFile
  <1>6. ASSUME mark_inode_dirty(f)
        PROVE  OneFile(f)
    <2>1. /\ IInv' /\ UNCHANGED clusterVars /\ entry' = entry /\ ino[f].st = "cached"
          /\ SameChainOf(ino[f], Inode(f)')
      BY <1>6, MarkDirtyKeeps
    <2>5. \A g \in Files \ {f} : ino'[g] = ino[g]
      BY <1>6 DEF mark_inode_dirty, IInv, Records
    <2>2. OthersKept(f)
      BY <2>1, <2>5, KeptIsOthersKept
    <2>3. Inode(f) = ino[f] /\ fat' = fat
      BY <2>1, LiveFacts DEF clusterVars
    <2>4. Stays(f)
      BY <2>1, <2>3, SameChainStays
    <2> QED BY <2>1, <2>2, <2>4, OthersStay DEF OneFile
  <1>7. ASSUME FsWriteStat(f)
        PROVE  OneFile(f)
    <2>1. /\ IInv' /\ UNCHANGED clusterVars /\ ino[f].st = "cached"
          /\ SameChainOf(ino[f], Inode(f)')
          /\ \A g \in Files \ {f} : /\ ino'[g] = ino[g]
                                    /\ ino[g].st # "absent" => entry'[ino[g].slot] = entry[ino[g].slot]
      BY <1>7, WriteStatKeeps
    <2>2. OthersKept(f)
      BY <2>1, KeptIsOthersKept
    <2>3. Inode(f) = ino[f] /\ fat' = fat
      BY <2>1, LiveFacts DEF clusterVars
    <2>4. Stays(f)
      BY <2>1, <2>3, SameChainStays
    <2> QED BY <2>1, <2>2, <2>4, OthersStay DEF OneFile
  <1>5. ASSUME exfat_evict_inode(f)
        PROVE  OneFile(f)
    <2>1. /\ IInv' /\ UNCHANGED clusterVars /\ ino[f].st = "cached"
          /\ Inode(f)'.isize = ino[f].isize
          /\ \A k \in 0 .. (ino[f].isize - 1) : Cell(fat', Inode(f)', k) = Cell(fat, ino[f], k)
          /\ entry' = entry /\ \A g \in Files \ {f} : ino'[g] = ino[g]
      BY <1>5, EvictKeeps
    <2>2. OthersKept(f)
      BY <2>1, KeptIsOthersKept
    <2>3. Inode(f) = ino[f]
      BY <2>1, LiveFacts
    <2>4. Stays(f)
      BY <2>1, <2>3 DEF Stays
    <2> QED BY <2>1, <2>2, <2>4, OthersStay DEF OneFile
  <1> QED BY <1>1, <1>2, <1>3, <1>4, <1>5, <1>6, <1>7

\* A file whose inode goes away has no data left.
LEMMA GoneShrinks ==
  ASSUME IInv, IInv', NEW f \in Files, ino[f].st = "cached", ino'[f].st = "absent"
  PROVE  Stays(f) \/ Shrinks(f)
  <1>1. Inode(f) = ino[f] /\ ino[f].isize \in Nat
    BY LiveFacts
  <1>2. Inode(f)' = ino'[f]
    BY DEF Inode
  <1>3. Placed(f)'
    BY DEF IInv
  <1>4. ino'[f] = Absent("absent", NoEntry)
    BY <1>3 DEF Placed
  <1>5. Inode(f)'.isize = 0
    BY <1>2, <1>4 DEF Absent
  <1>6. CASE ino[f].isize = 0
    BY <1>1, <1>5, <1>6 DEF Stays
  <1>7. CASE ino[f].isize # 0
    BY <1>1, <1>5, <1>7 DEF Shrinks
  <1> QED BY <1>6, <1>7

\* A call that writes to a file, cuts it or takes it away.
LEMMA CallWrites ==
  ASSUME Ordinary, IInv, NEW f \in Files
  PROVE  /\ \A copied \in Copied : exfat_write_begin(f, copied) => OneFile(f)
         /\ exfat_write_end(f) => OneFile(f)
         /\ exfat_write_failed(f) => OneFile(f)
         /\ \A off \in Nat, copied \in Copied : exfat_get_block(f, off, copied) => OneFile(f)
         /\ \A size \in Nat : exfat_setattr(f, size) => OneFile(f)
         /\ exfat_truncate(f) => OneFile(f)
         /\ exfat_unlink(f) => OneFile(f)
  <1>1. ASSUME NEW copied \in Copied, exfat_write_begin(f, copied)
        PROVE  OneFile(f)
    <2>1. Begun(f) /\ ino[f].st = "cached"
      BY <1>1, WriteBeginKeeps
    <2>2. Inode(f) = ino[f]
      BY <2>1, LiveFacts
    <2>3. Stays(f)
      BY <2>1, <2>2 DEF Stays, Begun
    <2>4. IInv' /\ OthersKept(f)
      BY <2>1 DEF Begun
    <2> QED BY <2>3, <2>4, OthersStay DEF OneFile
  <1>2. ASSUME exfat_write_end(f)
        PROVE  OneFile(f)
    <2>1. /\ IInv' /\ ino[f].st = "cached" /\ Inode(f)'.isize = ino[f].isize + 1
          /\ Cell(fat', Inode(f)', ino[f].isize) = ino[f].at
          /\ \A k \in 0 .. (ino[f].isize - 1) : Cell(fat', Inode(f)', k) = Cell(fat, ino[f], k)
      BY <1>2, WriteEndKeeps
    <2>2. /\ ino[f].at # Eof /\ UNCHANGED clusterVars /\ entry' = entry
          /\ \A g \in Files \ {f} : ino'[g] = ino[g]
      BY <1>2 DEF exfat_write_end, IInv, Records
    <2>3. OthersKept(f)
      BY <2>2, KeptIsOthersKept
    <2>4. Inode(f) = ino[f]
      BY <2>1, LiveFacts
    <2>5. Gains(f)
      BY <2>1, <2>2, <2>4 DEF Gains
    <2> QED BY <2>1, <2>3, <2>5, OthersStay DEF OneFile
  <1>3. ASSUME exfat_write_failed(f)
        PROVE  OneFile(f)
    <2>1. /\ IInv' /\ ino[f].st = "cached" /\ Inode(f)'.isize = ino[f].isize
          /\ \A k \in 0 .. (ino[f].isize - 1) : Cell(fat', Inode(f)', k) = Cell(fat, ino[f], k)
      BY <1>3, WriteFailedKeeps
    <2>2. /\ UNCHANGED clusterVars /\ entry' = entry
          /\ \A g \in Files \ {f} : ino'[g] = ino[g]
      BY <1>3 DEF exfat_write_failed, IInv, Records
    <2>3. OthersKept(f)
      BY <2>2, KeptIsOthersKept
    <2>4. Inode(f) = ino[f]
      BY <2>1, LiveFacts
    <2>5. Stays(f)
      BY <2>1, <2>4 DEF Stays
    <2> QED BY <2>1, <2>3, <2>5, OthersStay DEF OneFile
  <1>4. ASSUME NEW off \in Nat, NEW copied \in Copied, exfat_get_block(f, off, copied)
        PROVE  OneFile(f)
    <2>1. /\ IInv' /\ ino[f].st = "cached" /\ UNCHANGED clusterVars /\ entry' = entry
          /\ \A k \in 0 .. (ino[f].isize - 1) : Cell(fat', Inode(f)', k) = Cell(fat, ino[f], k)
          /\ Inode(f)'.isize = ino[f].isize
      BY <1>4, BlockIsFound
    <2>2. \A g \in Files \ {f} : ino'[g] = ino[g]
      BY <1>4 DEF exfat_get_block, MapsPage, IInv, Records
    <2>3. OthersKept(f)
      BY <2>1, <2>2, KeptIsOthersKept
    <2>4. Inode(f) = ino[f]
      BY <2>1, LiveFacts
    <2>5. Stays(f)
      BY <2>1, <2>4 DEF Stays
    <2> QED BY <2>1, <2>3, <2>5, OthersStay DEF OneFile
  <1>5. ASSUME NEW size \in Nat, exfat_setattr(f, size)
        PROVE  OneFile(f)
    <2>1. /\ IInv' /\ UNCHANGED clusterVars /\ entry' = entry /\ ino[f].st = "cached"
          /\ size < ino[f].isize /\ Inode(f)'.isize = size
          /\ \A k : Cell(fat', Inode(f)', k) = Cell(fat, ino[f], k)
      BY <1>5, SetattrKeeps
    <2>2. \A g \in Files \ {f} : ino'[g] = ino[g]
      BY <1>5 DEF exfat_setattr, IInv, Records
    <2>3. OthersKept(f)
      BY <2>1, <2>2, KeptIsOthersKept
    <2>4. Inode(f) = ino[f]
      BY <2>1, LiveFacts
    <2>5. Shrinks(f)
      BY <2>1, <2>4 DEF Shrinks
    <2> QED BY <2>1, <2>3, <2>5, OthersStay DEF OneFile
  <1>7. ASSUME exfat_truncate(f)
        PROVE  OneFile(f)
    <2>1. /\ IInv' /\ OthersKept(f) /\ ino[f].st = "cached"
          /\ Inode(f)'.isize = ino[f].isize
          /\ \A k \in 0 .. (ino[f].isize - 1) : Cell(fat', Inode(f)', k) = Cell(fat, ino[f], k)
      BY <1>7, TruncateKeeps
    <2>2. Inode(f) = ino[f]
      BY <2>1, LiveFacts
    <2>3. Stays(f)
      BY <2>1, <2>2 DEF Stays
    <2> QED BY <2>1, <2>3, OthersStay DEF OneFile
  <1>6. ASSUME exfat_unlink(f)
        PROVE  OneFile(f)
    <2>1. IInv' /\ OthersKept(f) /\ ino[f].st = "cached" /\ ino'[f].st = "absent"
      BY <1>6, UnlinkKeeps
    <2>2. Stays(f) \/ Shrinks(f)
      BY <2>1, GoneShrinks
    <2> QED BY <2>1, <2>2, OthersStay DEF OneFile
  <1> QED BY <1>1, <1>2, <1>3, <1>4, <1>5, <1>6, <1>7

\* Replacing a file: the one that is moved keeps its data, the other goes.
LEMMA ReplaceStays ==
  ASSUME Ordinary, IInv, NEW f \in Files, NEW g \in Files, NEW s \in Slots,
         exfat_replace(f, g, s)
  PROVE  OneFile(g)
  <1>1. /\ IInv' /\ UNCHANGED clusterVars /\ f # g
        /\ ino[f].st = "cached" /\ SameChainOf(ino[f], Inode(f)')
        /\ ino[g].st = "cached" /\ ino'[g].st = "absent"
        /\ \A h \in Files \ {f, g} : /\ ino'[h] = ino[h]
                                     /\ ino[h].st # "absent" => entry'[ino[h].slot] = entry[ino[h].slot]
    BY ReplaceKeeps
  <1>2. Stays(g) \/ Shrinks(g)
    BY <1>1, GoneShrinks
  <1>3. Stays(f)
    <2>1. Inode(f) = ino[f] /\ fat' = fat
      BY <1>1, LiveFacts DEF clusterVars
    <2> QED BY <1>1, <2>1, SameChainStays
  <1>4. ASSUME NEW h \in Files, h # f, h # g
        PROVE  Stays(h)
    <2>1. fat' = fat /\ taken' = taken
      BY <1>1 DEF clusterVars
    <2>2. \A c \in Held(fat, Chain(h)) : c \in taken' /\ fat'[c] = fat[c]
      BY <1>4, <2>1, FileFacts
    <2>4. h \in Files \ {f, g}
      BY <1>4
    <2>5. ino'[h] = ino[h] /\ (ino[h].st # "absent" => entry'[ino[h].slot] = entry[ino[h].slot])
      BY <1>1, <2>4
    <2>3. /\ Inode(h)' = Inode(h) /\ Chain(h)' = Chain(h)
          /\ \A k \in 0 .. (Has(fat, Chain(h)) - 1) :
               Cell(fat', Chain(h)', k) = Cell(fat, Chain(h), k)
      BY <2>2, <2>5, Untouched
    <2> QED BY <1>4, <2>3, UntouchedStays
  <1> QED BY <1>1, <1>2, <1>3, <1>4 DEF OneFile

\* What every step is: it keeps the invariant and is a call that changes the
\* data of at most one file.
LEMMA StepIsACall ==
  ASSUME Ordinary, IInv, [Next]_vars
  PROVE  /\ IInv'
         /\ (\A g \in Files : Stays(g)) \/ (\E f \in Files : OneFile(f))
  <1>1. CASE UNCHANGED vars
    <2>2. /\ fat' = fat /\ taken' = taken /\ entry' = entry /\ ino' = ino
          /\ srch' = srch /\ used' = used
          /\ \A g \in Files : Inode(g)' = Inode(g) /\ Chain(g)' = Chain(g)
      BY <1>1 DEF vars, clusterVars, Inode, FromEntry, Chain
    <2>1. IInv'
      <3>1. VolumeOK' /\ Records'
        BY <2>2 DEF IInv, VolumeOK, Volume, Counted, Records
      <3>2. \A g \in Files : Placed(g)'
        BY <2>2 DEF IInv, Placed
      <3>3. Chained'
        BY <2>2 DEF IInv, Chained
      <3> QED BY <3>1, <3>2, <3>3 DEF IInv
    <2>3. \A g \in Files : Stays(g)
      BY <2>2, UntouchedStays
    <2> QED BY <2>1, <2>3
  <1>2. CASE exfat_statfs
    <2>1. IInv' /\ fat' = fat /\ \A g \in Files : Inode(g)' = Inode(g) /\ Chain(g)' = Chain(g)
      BY <1>2, StatfsKeeps DEF Chain
    <2>2. \A g \in Files : Stays(g)
      BY <2>1, UntouchedStays
    <2> QED BY <2>1, <2>2
  <1>3. CASE \E f \in Files : OneFile(f)
    BY <1>3 DEF OneFile
  <1>4. ASSUME NEW f \in Files,
          \/ \E s \in Slots : exfat_create(f, s) \/ exfat_rename(f, s)
          \/ \E g \in Files, s \in Slots : exfat_replace(f, g, s)
          \/ \E size \in 0 .. (MaxSize[f] - 1) : exfat_setattr(f, size)
          \/ exfat_truncate(f)
          \/ \E off \in 0 .. (MaxSize[f] - 1), copied \in Copied : exfat_get_block(f, off, copied)
          \/ \E copied \in Copied : exfat_write_begin(f, copied)
          \/ exfat_lookup(f) \/ exfat_unlink(f) \/ exfat_evict_inode(f)
          \/ exfat_write_end(f) \/ exfat_write_failed(f) \/ mark_inode_dirty(f)
          \/ exfat_write_inode(f) \/ FsWriteStat(f)
        PROVE  \E h \in Files : OneFile(h)
    <2>1. \A n \in 0 .. (MaxSize[f] - 1) : n \in Nat
      OBVIOUS
    <2>2. (\E g \in Files, s \in Slots : exfat_replace(f, g, s)) => \E h \in Files : OneFile(h)
      BY ReplaceStays
    <2>3. (\E size \in 0 .. (MaxSize[f] - 1) : exfat_setattr(f, size)) => OneFile(f)
      BY <2>1, CallWrites
    <2>4. (\E off \in 0 .. (MaxSize[f] - 1), copied \in Copied : exfat_get_block(f, off, copied))
            => OneFile(f)
      BY <2>1, CallWrites
    <2> QED BY <1>4, <2>2, <2>3, <2>4, CallStays, CallWrites
  <1> QED BY <1>1, <1>2, <1>3, <1>4 DEF Next

\* The inductive invariant: the chain of every file is its own, and its entry
\* says, or will say when the write under way is done, what the inode was last
\* written to say, whatever calls, writes of inodes and evictions come in what
\* order and between the two halves of a write and of a cut.
THEOREM RecordsAgree ==
  ASSUME Ordinary
  PROVE  Spec => []IInv
  <1>1. Init => IInv
    BY InitKeeps
  <1>2. IInv /\ [Next]_vars => IInv'
    BY StepIsACall
  <1> QED BY <1>1, <1>2, PTL DEF Spec

-------------------------------------------------------------------------------
(* What follows from the invariant *)

\* The data of a chain: as many of its clusters as the file is long.
DataOf(t, i) == [k \in 1 .. i.isize |-> Cell(t, i, k - 1)]

LEMMA SequenceOf ==
  ASSUME NEW S, NEW n \in Nat, NEW s \in [1 .. n -> S]
  PROVE  s \in Seq(S) /\ Len(s) = n /\ DOMAIN s = 1 .. n
  OBVIOUS

LEMMA PrefixIs ==
  ASSUME NEW S, NEW s \in Seq(S), NEW t \in Seq(S), Len(s) <= Len(t),
         \A k \in 1 .. Len(s) : s[k] = t[k]
  PROVE  IsPrefix(s, t)
  <1> DEFINE n == Len(s)
             a == SubSeq(s, 1, n)
             b == SubSeq(t, 1, n)
  <1>1. n \in Nat /\ Len(t) \in Nat /\ n <= Len(t) /\ 1 \in Int /\ n \in Int
    BY LenProperties
  <1>2. /\ \A k \in 1 .. n : s[k] \in S
        /\ \A k \in 1 .. n : t[k] \in S
    BY <1>1, ElementOfSeq
  <1>3. /\ a \in Seq(S) /\ Len(a) = (IF 1 <= n THEN n - 1 + 1 ELSE 0)
        /\ \A k \in 1 .. n - 1 + 1 : a[k] = s[1 + k - 1]
    <2> HIDE DEF n
    <2> QED BY <1>1, <1>2, SubSeqProperties
  <1>4. /\ b \in Seq(S) /\ Len(b) = (IF 1 <= n THEN n - 1 + 1 ELSE 0)
        /\ \A k \in 1 .. n - 1 + 1 : b[k] = t[1 + k - 1]
    <2> HIDE DEF n
    <2> QED BY <1>1, <1>2, SubSeqProperties
  <1>5. Len(a) = n /\ Len(b) = n
    BY <1>1, <1>3, <1>4
  <1>6. \A k \in 1 .. n : a[k] = b[k]
    BY <1>1, <1>3, <1>4
  <1>7. a = b
    <2> HIDE DEF a, b, n
    <2> QED BY <1>3, <1>4, <1>5, <1>6, SeqEqual
  <1> QED BY <1>1, <1>7 DEF IsPrefix

LEMMA DataIsChain ==
  ASSUME NEW t, NEW i, NEW w, Shape(i), Shape(w), Sound(t, w), i.isize <= w.isize,
         w.start = i.start, w.flags = i.flags
  PROVE  /\ DataOf(t, i) \in Seq(Clusters) /\ Len(DataOf(t, i)) = i.isize /\ i.isize \in Nat
         /\ DOMAIN DataOf(t, i) = 1 .. i.isize
         /\ \A k \in 1 .. i.isize : DataOf(t, i)[k] = Cell(t, i, k - 1)
         /\ IsInjective(DataOf(t, i))
         /\ ToSet(DataOf(t, i)) \subseteq Held(t, w)
         /\ ToSet(DataOf(t, i)) = {Cell(t, i, k) : k \in 0 .. (i.isize - 1)}
  <1> DEFINE d == DataOf(t, i)
             n == i.isize
  <1>0. \A k : Cell(t, w, k) = Cell(t, i, k)
    BY DEF Cell
  <1>1. /\ n \in Nat /\ Has(t, w) \in Nat /\ n <= Has(t, w)
        /\ \A k \in 0 .. (Has(t, w) - 1) : Cell(t, i, k) \in Clusters
    <2>1. /\ n \in Nat /\ w.isize \in Nat /\ Has(t, w) \in Nat /\ w.isize <= Has(t, w)
          /\ \A k \in 0 .. (Has(t, w) - 1) : Cell(t, w, k) \in Clusters
      BY SoundFacts DEF Shape
    <2> QED BY <1>0, <2>1
  <1>2. \A k \in 1 .. n : k - 1 \in 0 .. (n - 1) /\ k - 1 \in 0 .. (Has(t, w) - 1)
    BY <1>1
  <1>3. DOMAIN d = 1 .. n /\ \A k \in 1 .. n : d[k] = Cell(t, i, k - 1)
    BY DEF DataOf
  <1>4. d \in [1 .. n -> Clusters]
    BY <1>1, <1>2 DEF DataOf
  <1>5. d \in Seq(Clusters) /\ Len(d) = n
    <2> HIDE DEF d, n
    <2> QED BY <1>1, <1>4, SequenceOf
  <1>6. IsInjective(d)
    <2> SUFFICES ASSUME NEW a \in 1 .. n, NEW b \in 1 .. n, d[a] = d[b]
                 PROVE  a = b
      BY <1>3 DEF IsInjective
    <2>1. Cell(t, i, a - 1) = Cell(t, i, b - 1)
      BY <1>3
    <2>2. a - 1 = b - 1
      <3>1. Cell(t, w, a - 1) = Cell(t, w, b - 1)
        BY <1>0, <2>1
      <3> QED BY <1>2, <3>1 DEF Sound
    <2> QED BY <2>2, <1>1
  <1>7. ToSet(d) = {Cell(t, i, k) : k \in 0 .. (n - 1)}
    <2>1. ASSUME NEW c \in ToSet(d)
          PROVE  c \in {Cell(t, i, k) : k \in 0 .. (n - 1)}
      <3>1. PICK k \in 1 .. n : c = d[k]
        BY <2>1, <1>3 DEF ToSet
      <3>2. c = Cell(t, i, k - 1) /\ k - 1 \in 0 .. (n - 1)
        BY <3>1, <1>2, <1>3
      <3> QED BY <3>2
    <2>2. ASSUME NEW k \in 0 .. (n - 1)
          PROVE  Cell(t, i, k) \in ToSet(d)
      <3>1. k + 1 \in 1 .. n /\ (k + 1) - 1 = k
        BY <1>1
      <3>2. d[k + 1] = Cell(t, i, k)
        BY <3>1, <1>3
      <3> QED BY <3>1, <3>2, <1>3 DEF ToSet
    <2> QED BY <2>1, <2>2
  <1>8. ToSet(d) \subseteq Held(t, w)
    <2>1. \A k \in 0 .. (n - 1) : k \in 0 .. (Has(t, w) - 1)
      BY <1>1
    <2> QED BY <1>0, <1>7, <2>1 DEF Held
  <1> QED BY <1>1, <1>3, <1>5, <1>6, <1>7, <1>8

\* What Data makes of an inode's or an entry's chain.
LEMMA DataMakes ==
  ASSUME NEW i, i.start \in Int
  PROVE  Data(i.start, i.flags, i.isize) = DataOf(fat, i)
  <1>1. CASE i.flags = Contiguous
    BY <1>1 DEF Data, DataOf, Cell
  <1>2. CASE i.flags # Contiguous
    BY <1>2 DEF Data, DataOf, Cell
  <1> QED BY <1>1, <1>2

\* What is said of the data of every file is said of its inode's chain.
LEMMA FileDataIs ==
  ASSUME IInv, NEW f \in Files
  PROVE  FileData(f) = DataOf(fat, Inode(f))
  <1>1. /\ ino[f] \in Inodes /\ Placed(f) /\ Shape(Inode(f))
        /\ ino[f].st # "evicted" => Inode(f) = ino[f]
        /\ ino[f].st = "evicted" => Inode(f) = FromEntry(ino[f].slot)
        /\ ino[f].st # "absent" => entry[ino[f].slot] \in Entries
    BY FileFacts
  <1>2. CASE ino[f].st = "cached"
    <2>1. Inode(f) = ino[f] /\ ino[f].start \in Int
      BY <1>1, <1>2 DEF Shape
    <2>2. FileData(f) = InMemory(f)
      BY <1>2 DEF FileData, Live
    <2> QED BY <2>1, <2>2, DataMakes DEF InMemory
  <1>3. CASE ino[f].st = "evicted"
    <2> DEFINE e == entry[ino[f].slot]
               i == FromEntry(ino[f].slot)
    <2>1. /\ i.isize = e.size /\ Inode(f) = i /\ i.start \in Int /\ e.size \in Nat
          /\ i.flags = (IF e.size = 0 THEN Contiguous ELSE e.flags)
          /\ i.start = (IF e.size = 0 THEN Eof ELSE e.clu0)
      BY <1>1, <1>3, FromEntryFields, EntryFields DEF Shape
    <2>2. FileData(f) = OnVolume(f)
      BY <1>3 DEF FileData, Live
    <2>3. CASE e.size = 0
      <3>1. OnVolume(f) = <<>>
        BY <2>3 DEF OnVolume
      <3>2. DataOf(fat, i) = <<>>
        <4>1. i.isize = 0
          BY <2>1, <2>3
        <4> HIDE DEF i
        <4>2. DataOf(fat, i) = [k \in 1 .. 0 |-> Cell(fat, i, k - 1)]
          BY <4>1 DEF DataOf
        <4> QED BY <4>2
      <3> QED BY <2>1, <2>2, <3>1, <3>2
    <2>4. CASE e.size # 0
      <3>1. OnVolume(f) = Data(e.clu0, e.flags, e.size)
        BY <2>4 DEF OnVolume
      <3>2. e.clu0 = i.start /\ e.flags = i.flags /\ e.size = i.isize
        BY <2>1, <2>4
      <3>3. OnVolume(f) = Data(i.start, i.flags, i.isize)
        BY <3>1, <3>2
      <3> HIDE DEF i
      <3> QED BY <2>1, <2>2, <3>3, DataMakes
    <2> QED BY <2>3, <2>4
  <1>4. CASE ino[f].st = "absent"
    <2>1. FileData(f) = <<>>
      BY <1>4 DEF FileData, Live
    <2>2. Inode(f) = ino[f] /\ ino[f] = Absent("absent", NoEntry)
      BY <1>1, <1>4 DEF Placed
    <2>3. Inode(f).isize = 0
      BY <2>2 DEF Absent
    <2>4. DataOf(fat, Inode(f)) = [k \in 1 .. 0 |-> Cell(fat, Inode(f), k - 1)]
      BY <2>3 DEF DataOf
    <2> QED BY <2>1, <2>4
  <1>5. ino[f].st \in {"absent", "cached", "evicted"}
    BY <1>1, InodeFields
  <1> QED BY <1>2, <1>3, <1>4, <1>5

LEMMA OwnData ==
  ASSUME IInv
  PROVE  DataIsItsOwn
  <1> DEFINE data == [f \in Files |-> FileData(f)]
  <1>1. ASSUME NEW f \in Files
        PROVE  /\ data[f] = DataOf(fat, Inode(f))
               /\ IsInjective(data[f])
               /\ ToSet(data[f]) \subseteq Held(fat, Chain(f))
               /\ Held(fat, Chain(f)) \subseteq taken \ Reserved
    <2>1. data[f] = DataOf(fat, Inode(f))
      BY FileDataIs
    <2>2. /\ Shape(Inode(f)) /\ Shape(Chain(f)) /\ Sound(fat, Chain(f))
          /\ Inode(f).isize <= Chain(f).isize
          /\ Chain(f).start = Inode(f).start /\ Chain(f).flags = Inode(f).flags
          /\ Held(fat, Chain(f)) \subseteq taken \ Reserved
      BY FileFacts
    <2>3. /\ IsInjective(DataOf(fat, Inode(f)))
          /\ ToSet(DataOf(fat, Inode(f))) \subseteq Held(fat, Chain(f))
      BY <2>2, DataIsChain
    <2> HIDE DEF data
    <2> QED BY <2>1, <2>2, <2>3
  <1>2. ASSUME NEW f \in Files, NEW g \in Files \ {f}
        PROVE  ToSet(data[f]) \cap ToSet(data[g]) = {}
    <2>1. Held(fat, Chain(f)) \cap Held(fat, Chain(g)) = {}
      BY DEF IInv, Chained
    <2>2. /\ ToSet(data[f]) \subseteq Held(fat, Chain(f))
          /\ ToSet(data[g]) \subseteq Held(fat, Chain(g))
      BY <1>1
    <2> HIDE DEF data
    <2> QED BY <2>1, <2>2
  <1>3. \A f \in Files :
          /\ ToSet(data[f]) \subseteq taken \ Reserved
          /\ IsInjective(data[f])
          /\ \A g \in Files \ {f} : ToSet(data[f]) \cap ToSet(data[g]) = {}
    <2> HIDE DEF data
    <2>1. \A f \in Files : ToSet(data[f]) \subseteq taken \ Reserved /\ IsInjective(data[f])
      BY <1>1
    <2> QED BY <2>1, <1>2
  <1> QED BY <1>3 DEF DataIsItsOwn

\* When the inode is written and nothing is under way, the entry of a live file
\* names its chain.
LEMMA EntryIsFile ==
  ASSUME IInv, NEW f \in Files, Live(f), Settled(ino[f])
  PROVE  OnVolume(f) = InMemory(f)
  <1> DEFINE i == ino[f]
             e == entry[i.slot]
  <1>1. /\ Shape(i) /\ Sound(fat, i)
        /\ i.isize = e.size /\ i.isize \in Nat
        /\ i.start # Eof => e.clu0 = i.start /\ e.flags = i.flags
    <2>1. ino[f].st = "cached" /\ i.cut = NoSize /\ i.wrote = NoSize /\ ~i.dirty
      BY DEF Live, Settled
    <2>2. Shape(i) /\ Sound(fat, i) /\ Agrees(e, i, MaxSize[f])
      BY <2>1, LiveFacts, UncutFacts
    <2> HIDE DEF i, e
    <2>3. i.isize = e.size
      BY <2>1, <2>2 DEF Agrees
    <2> QED BY <2>2, <2>3 DEF Agrees, Shape
  <1>2. InMemory(f) = Data(i.start, i.flags, i.isize)
    BY DEF InMemory
  <1>3. OnVolume(f) = IF e.size = 0 THEN <<>> ELSE Data(e.clu0, e.flags, e.size)
    BY DEF OnVolume
  <1> HIDE DEF i, e
  <1>4. CASE i.isize = 0
    <2>1. Data(i.start, i.flags, 0) = <<>>
      <3>1. CASE i.flags = Contiguous
        <4>1. Data(i.start, i.flags, 0) = [k \in 1 .. 0 |-> i.start + k - 1]
          BY <3>1 DEF Data
        <4> QED BY <4>1
      <3>2. CASE i.flags # Contiguous
        <4>1. Data(i.start, i.flags, 0) = [k \in 1 .. 0 |-> Walk(fat, i.start)[k - 1]]
          BY <3>2 DEF Data
        <4> QED BY <4>1
      <3> QED BY <3>1, <3>2
    <2> QED BY <1>1, <1>2, <1>3, <1>4, <2>1
  <1>5. CASE i.isize # 0
    <2>1. i.start # Eof
      BY <1>1, <1>5 DEF Sound
    <2> QED BY <1>1, <1>2, <1>3, <1>5, <2>1
  <1> QED BY <1>4, <1>5

LEMMA LookupFinds ==
  ASSUME IInv
  PROVE  LookupFindsTheFile
  <1> SUFFICES ASSUME NEW f \in Files, Live(f)
               PROVE  /\ entry[ino[f].slot] # NoEntry /\ entry[ino[f].slot].file = f
                      /\ Settled(ino[f]) => OnVolume(f) = InMemory(f)
    BY DEF LookupFindsTheFile
  <1>1. entry[ino[f].slot] # NoEntry /\ entry[ino[f].slot].file = f
    BY LiveFacts DEF Live
  <1> QED BY <1>1, EntryIsFile

LEMMA PagesAreHome ==
  ASSUME IInv
  PROVE  PagesGoHome
  <1> SUFFICES ASSUME NEW f \in Files, Live(f), NEW p \in ino[f].pages
               PROVE  p[1] < Len(InMemory(f)) /\ InMemory(f)[p[1] + 1] = p[2]
    BY DEF PagesGoHome
  <1> DEFINE i == ino[f]
             w == Whole(i)
  <1>1. /\ i \in Inodes /\ Shape(i) /\ Shape(w) /\ Sound(fat, w)
        /\ Agrees(entry[i.slot], i, MaxSize[f]) /\ i.st = "cached"
    BY LiveFacts DEF Live
  <1>2. InMemory(f) = DataOf(fat, i)
    BY <1>1, DataMakes DEF InMemory, Shape
  <1>3. /\ w.start = i.start /\ w.flags = i.flags /\ w.pages = i.pages
        /\ w.isize = IF i.cut = NoSize THEN i.isize ELSE i.cut
    BY <1>1, WholeFields
  <1> HIDE DEF w
  <1>4. i.isize <= w.isize
    <2>1. i.isize \in Nat /\ w.isize \in Nat
      BY <1>1 DEF Shape
    <2> HIDE DEF i
    <2> QED BY <1>1, <1>3, <2>1 DEF Agrees
  <1>5. /\ Len(DataOf(fat, i)) = i.isize /\ i.isize \in Nat
        /\ \A k \in 1 .. i.isize : DataOf(fat, i)[k] = Cell(fat, i, k - 1)
    BY <1>1, <1>3, <1>4, DataIsChain
  <1>6. p \in w.pages /\ p[1] \in Nat /\ p[2] = Cell(fat, w, p[1]) /\ p[1] < w.isize
    BY <1>1, <1>3 DEF Sound, Shape
  <1>7. p[1] < i.isize /\ p[2] = Cell(fat, i, p[1])
    <2>1. p \in i.pages
      OBVIOUS
    <2>2. Cell(fat, w, p[1]) = Cell(fat, i, p[1])
      BY <1>3 DEF Cell
    <2> HIDE DEF i
    <2> QED BY <1>1, <1>3, <1>6, <2>1, <2>2 DEF Agrees
  <1>8. p[1] + 1 \in 1 .. i.isize /\ (p[1] + 1) - 1 = p[1]
    BY <1>5, <1>6, <1>7
  <1> HIDE DEF i
  <1>9. DataOf(fat, i)[p[1] + 1] = Cell(fat, i, p[1])
    BY <1>5, <1>8
  <1> QED BY <1>2, <1>5, <1>7, <1>9

LEMMA CountedIsUsed ==
  ASSUME IInv
  PROVE  UsedIsCounted
  BY DEF IInv, VolumeOK, Counted, UsedIsCounted

\* A file's data lies in clusters that are taken and that are no other file's
\* (DataIsItsOwn), for every volume, number of files and bound on their sizes.
THEOREM DataIsSafe ==
  ASSUME Ordinary
  PROVE  Spec => []DataIsItsOwn
  <1>1. IInv => DataIsItsOwn
    BY OwnData
  <1> QED BY <1>1, RecordsAgree, PTL

\* Every file's entry stays its own, and once its inode is written and nothing is
\* under way a lookup would read what is in memory, whatever cuts came between
\* the reading of a size and its writing (LookupFindsTheFile).
THEOREM LookupsAgree ==
  ASSUME Ordinary
  PROVE  Spec => []LookupFindsTheFile
  <1>1. IInv => LookupFindsTheFile
    BY LookupFinds
  <1> QED BY <1>1, RecordsAgree, PTL

\* A page still to be written goes to the cluster that holds that part of the
\* file (PagesGoHome).
THEOREM PagesStayHome ==
  ASSUME Ordinary
  PROVE  Spec => []PagesGoHome
  <1>1. IInv => PagesGoHome
    BY PagesAreHome
  <1> QED BY <1>1, RecordsAgree, PTL

\* The free space told to statfs is what the bitmap says (UsedIsCounted).
THEOREM FreeSpaceIsTold ==
  ASSUME Ordinary
  PROVE  Spec => []UsedIsCounted
  <1>1. IInv => UsedIsCounted
    BY CountedIsUsed
  <1> QED BY <1>1, RecordsAgree, PTL

-------------------------------------------------------------------------------
(* The driver implements ExfatFileSpec *)

\* The data of every file is that of its inode's chain: a state predicate, for
\* the next state as much as for this one.
DataKept ==
  \A f \in Files :
    /\ FileData(f) = DataOf(fat, Inode(f)) /\ Shape(Inode(f)) /\ Shape(Chain(f))
    /\ Inode(f).isize <= Chain(f).isize
    /\ Chain(f).start = Inode(f).start /\ Chain(f).flags = Inode(f).flags

LEMMA DataIsKept ==
  ASSUME IInv
  PROVE  DataKept
  BY FileDataIs, FileFacts DEF DataKept

LEMMA StaysSame ==
  ASSUME DataKept, DataKept', NEW g \in Files, Stays(g)
  PROVE  FileData(g)' = FileData(g)
  <1> DEFINE i == Inode(g)
             j == Inode(g)'
             t2 == fat'
  <1>1. FileData(g) = DataOf(fat, i) /\ FileData(g)' = DataOf(t2, j) /\ i.isize \in Nat
    BY DEF DataKept, Shape
  <1>2. j.isize = i.isize /\ \A k \in 0 .. (i.isize - 1) : Cell(t2, j, k) = Cell(fat, i, k)
    BY DEF Stays
  <1> HIDE DEF i, j, t2
  <1>3. \A k \in 1 .. i.isize : k - 1 \in 0 .. (i.isize - 1)
    BY <1>1
  <1>4. DataOf(t2, j) = DataOf(fat, i)
    BY <1>2, <1>3 DEF DataOf
  <1> QED BY <1>1, <1>4

\* What is known of a file's data on both sides of a step.
LEMMA BothData ==
  ASSUME IInv, IInv', DataKept, DataKept', NEW f \in Files
  PROVE  /\ FileData(f) \in Seq(Clusters) /\ Len(FileData(f)) = Inode(f).isize
         /\ FileData(f)' \in Seq(Clusters) /\ Len(FileData(f)') = Inode(f)'.isize
         /\ Inode(f).isize \in Nat /\ Inode(f)'.isize \in Nat
         /\ \A k \in 1 .. Inode(f).isize : FileData(f)[k] = Cell(fat, Inode(f), k - 1)
         /\ \A k \in 1 .. Inode(f)'.isize : FileData(f)'[k] = Cell(fat', Inode(f)', k - 1)
         /\ ToSet(FileData(f)) = {Cell(fat, Inode(f), k) : k \in 0 .. (Inode(f).isize - 1)}
         /\ ToSet(FileData(f)) \subseteq Held(fat, Chain(f))
  <1>1. /\ Sound(fat, Chain(f)) /\ Shape(Inode(f)) /\ FileData(f) = DataOf(fat, Inode(f))
        /\ Shape(Chain(f)) /\ Inode(f).isize <= Chain(f).isize
        /\ Chain(f).start = Inode(f).start /\ Chain(f).flags = Inode(f).flags
    BY DEF IInv, Chained, DataKept
  <1>2. /\ Sound(fat', Chain(f)') /\ Shape(Inode(f)') /\ FileData(f)' = DataOf(fat', Inode(f)')
        /\ Shape(Chain(f)') /\ Inode(f)'.isize <= Chain(f)'.isize
        /\ Chain(f)'.start = Inode(f)'.start /\ Chain(f)'.flags = Inode(f)'.flags
    BY DEF IInv, Chained, DataKept
  <1> DEFINE j == Inode(f)'
             t2 == fat'
             d2 == FileData(f)'
             i == Inode(f)
             d == FileData(f)
             v == Chain(f)'
             w == Chain(f)
  <1> HIDE DEF j, t2, d2, i, d, v, w
  <1>3. /\ Sound(t2, v) /\ Shape(j) /\ d2 = DataOf(t2, j) /\ Shape(v) /\ j.isize <= v.isize
        /\ v.start = j.start /\ v.flags = j.flags
    BY <1>2 DEF j, t2, d2, v
  <1>4. /\ Sound(fat, w) /\ Shape(i) /\ d = DataOf(fat, i) /\ Shape(w) /\ i.isize <= w.isize
        /\ w.start = i.start /\ w.flags = i.flags
    BY <1>1 DEF i, d, w
  <1>5. /\ d2 \in Seq(Clusters) /\ Len(d2) = j.isize /\ j.isize \in Nat
        /\ \A k \in 1 .. j.isize : d2[k] = Cell(t2, j, k - 1)
    BY <1>3, DataIsChain
  <1>6. /\ d \in Seq(Clusters) /\ Len(d) = i.isize /\ i.isize \in Nat
        /\ \A k \in 1 .. i.isize : d[k] = Cell(fat, i, k - 1)
        /\ ToSet(d) = {Cell(fat, i, k) : k \in 0 .. (i.isize - 1)}
        /\ ToSet(d) \subseteq Held(fat, w)
    BY <1>4, DataIsChain
  <1> QED BY <1>5, <1>6 DEF i, j, t2, d, d2, v, w

LEMMA ShrinksIsCut ==
  ASSUME IInv, IInv', DataKept, DataKept', NEW f \in Files, Shrinks(f)
  PROVE  IsStrictPrefix(FileData(f)', FileData(f))
  <1> DEFINE i == Inode(f)
             j == Inode(f)'
             t2 == fat'
             d == FileData(f)
             d2 == FileData(f)'
  <1>1. /\ d \in Seq(Clusters) /\ Len(d) = i.isize /\ d2 \in Seq(Clusters) /\ Len(d2) = j.isize
        /\ i.isize \in Nat /\ j.isize \in Nat
        /\ \A k \in 1 .. i.isize : d[k] = Cell(fat, i, k - 1)
        /\ \A k \in 1 .. j.isize : d2[k] = Cell(t2, j, k - 1)
    BY BothData
  <1>2. j.isize < i.isize /\ \A k \in 0 .. (j.isize - 1) : Cell(t2, j, k) = Cell(fat, i, k)
    BY DEF Shrinks
  <1> HIDE DEF i, j, t2, d, d2
  <1>3. \A k \in 1 .. j.isize : k - 1 \in 0 .. (j.isize - 1) /\ k \in 1 .. i.isize
    BY <1>1, <1>2
  <1>4. \A k \in 1 .. Len(d2) : d2[k] = d[k]
    BY <1>1, <1>2, <1>3
  <1>5. Len(d2) <= Len(d) /\ d2 # d
    BY <1>1, <1>2
  <1>6. IsPrefix(d2, d)
    BY <1>1, <1>4, <1>5, PrefixIs
  <1>7. IsStrictPrefix(d2, d)
    BY <1>5, <1>6 DEF IsStrictPrefix
  <1> QED BY <1>7 DEF d, d2

LEMMA GainsIsGrown ==
  ASSUME IInv, IInv', DataKept, DataKept', NEW f \in Files, Gains(f)
  PROVE  /\ Len(FileData(f)') = Len(FileData(f)) + 1
         /\ ino[f].at \in Clusters \ UNION {ToSet(FileData(g)) : g \in Files}
         /\ FileData(f)' = Append(FileData(f), ino[f].at)
  <1> DEFINE i == Inode(f)
             j == Inode(f)'
             t2 == fat'
             d == FileData(f)
             d2 == FileData(f)'
             c == ino[f].at
             n == i.isize
  <1>1. /\ d \in Seq(Clusters) /\ Len(d) = n /\ d2 \in Seq(Clusters) /\ Len(d2) = j.isize
        /\ n \in Nat /\ j.isize \in Nat
        /\ \A k \in 1 .. n : d[k] = Cell(fat, i, k - 1)
        /\ \A k \in 1 .. j.isize : d2[k] = Cell(t2, j, k - 1)
        /\ ToSet(d) = {Cell(fat, i, k) : k \in 0 .. (n - 1)}
    BY BothData
  <1>2. /\ j.isize = n + 1 /\ Cell(t2, j, n) = c
        /\ \A k \in 0 .. (n - 1) : Cell(t2, j, k) = Cell(fat, i, k)
    BY DEF Gains
  <1>3. /\ i = ino[f] /\ c # Eof /\ Sound(fat, i) /\ Shape(i)
        /\ Held(fat, i) \subseteq taken \ Reserved /\ Chain(f) = i
    <2>1. c # Eof /\ ino[f].st = "cached"
      BY DEF Gains
    <2>2. ino[f].cut = NoSize
      BY <2>1, WritingIsLive
    <2> QED BY <2>1, <2>2, LiveFacts, UncutFacts
  <1>4. n < Has(fat, i) /\ c = Cell(fat, i, n) /\ Has(fat, i) \in Nat
    BY <1>3, SoundFacts DEF Sound, Shape
  <1>5. c \in Held(fat, i) /\ c \in Clusters
    <2>1. n \in 0 .. (Has(fat, i) - 1)
      BY <1>1, <1>4
    <2>2. c \in Held(fat, i)
      BY <1>4, <2>1 DEF Held
    <2>3. Held(fat, i) \subseteq Clusters
      BY <1>3 DEF Sound
    <2> QED BY <2>2, <2>3
  <1>6. ASSUME NEW g \in Files
        PROVE  c \notin ToSet(FileData(g))
    <2>1. CASE g = f
      <3>1. \A k \in 0 .. (n - 1) : k \in 0 .. (Has(fat, i) - 1) /\ n \in 0 .. (Has(fat, i) - 1) /\ k # n
        BY <1>1, <1>4
      <3>2. \A k \in 0 .. (n - 1) : Cell(fat, i, k) # Cell(fat, i, n)
        BY <1>3, <3>1 DEF Sound
      <3> QED BY <1>1, <1>4, <2>1, <3>2
    <2>2. CASE g # f
      <3>1. Held(fat, i) \cap Held(fat, Chain(g)) = {}
        BY <1>3, <2>2 DEF IInv, Chained
      <3>2. ToSet(FileData(g)) \subseteq Held(fat, Chain(g))
        BY BothData
      <3> QED BY <1>5, <3>1, <3>2
    <2> QED BY <2>1, <2>2
  <1>7. d2 = Append(d, c)
    <2> HIDE DEF i, j, t2, d, d2, c, n
    <2>1. /\ Append(d, c) \in Seq(Clusters) /\ Len(Append(d, c)) = n + 1
          /\ \A k \in 1 .. n : Append(d, c)[k] = d[k]
          /\ Append(d, c)[n + 1] = c
      BY <1>1, <1>5, AppendProperties
    <2>2. ASSUME NEW k \in 1 .. Len(d2)
          PROVE  d2[k] = Append(d, c)[k]
      <3>1. CASE k = n + 1
        <4>1. d2[n + 1] = Cell(t2, j, n)
          <5>1. n + 1 \in 1 .. j.isize /\ (n + 1) - 1 = n
            BY <1>1, <1>2
          <5> QED BY <1>1, <5>1
        <4> QED BY <1>2, <2>1, <3>1, <4>1
      <3>2. CASE k # n + 1
        <4>1. k \in 1 .. n /\ k - 1 \in 0 .. (n - 1) /\ k \in 1 .. j.isize
          BY <1>1, <1>2, <3>2
        <4>2. d2[k] = Cell(t2, j, k - 1) /\ d[k] = Cell(fat, i, k - 1)
          BY <1>1, <4>1
        <4> QED BY <1>2, <2>1, <4>1, <4>2
      <3> QED BY <3>1, <3>2
    <2>3. Len(d2) = Len(Append(d, c))
      BY <1>1, <1>2, <2>1
    <2> QED BY <1>1, <2>1, <2>2, <2>3, SeqEqual
  <1>8. Len(d2) = Len(d) + 1
    BY <1>1, <1>2
  <1>9. c \in Clusters \ UNION {ToSet(FileData(g)) : g \in Files}
    BY <1>5, <1>6
  <1> QED BY <1>7, <1>8, <1>9

LEMMA StepRefines ==
  ASSUME Ordinary, IInv, IInv', DataKept, DataKept', [Next]_vars
  PROVE  [FileAbstraction!Next]_([f \in Files |-> FileData(f)])
  <1> DEFINE was == [f \in Files |-> FileData(f)]
             now == [f \in Files |-> FileData(f)']
  <1>1. was' = now
    OBVIOUS
  <1>2. ASSUME \A g \in Files : Stays(g)
        PROVE  was' = was
    <2>1. \A g \in Files : FileData(g)' = FileData(g)
      BY <1>2, StaysSame
    <2>2. now = was
      BY <2>1
    <2> QED BY <1>1, <2>2
  <1>3. ASSUME NEW f \in Files, OneFile(f)
        PROVE  was' = was \/ FileAbstraction!OneCall(was, was')
    <2>1. ASSUME NEW g \in Files \ {f}
          PROVE  now[g] = was[g]
      BY <1>3, StaysSame DEF OneFile
    <2>2. CASE Stays(f)
      <3>1. now[f] = was[f]
        BY <2>2, StaysSame
      <3>2. \A g \in Files : FileData(g)' = FileData(g)
        BY <2>1, <3>1
      <3>3. now = was
        BY <3>2
      <3> QED BY <1>1, <3>3
    <2>3. CASE Shrinks(f)
      <3>1. IsStrictPrefix(now[f], was[f])
        BY <2>3, ShrinksIsCut
      <3>2. FileAbstraction!WasCut(f, was, now)
        BY <3>1 DEF FileAbstraction!WasCut, FileAbstraction!IsStrictPrefix,
                      FileAbstraction!IsPrefix, IsStrictPrefix, IsPrefix
      <3>4. now[f] # was[f]
        BY <3>1 DEF IsStrictPrefix
      <3> HIDE DEF was, now
      <3>3. FileAbstraction!OneCall(was, now)
        BY <2>1, <3>2, <3>4 DEF FileAbstraction!OneCall
      <3> QED BY <1>1, <3>3
    <2>4. CASE Gains(f)
      <3> DEFINE c == ino[f].at
      <3>1. /\ Len(now[f]) = Len(was[f]) + 1 /\ now[f] = Append(was[f], c)
            /\ c \in Clusters \ UNION {ToSet(FileData(g)) : g \in Files}
        BY <2>4, GainsIsGrown
      <3>6. Len(was[f]) \in Nat
        <4>1. was[f] \in Seq(Clusters)
          BY BothData
        <4> HIDE DEF was
        <4> QED BY <4>1, LenProperties
      <3>2. {ToSet(FileData(g)) : g \in Files} = {ToSet(was[g]) : g \in Files}
        OBVIOUS
      <3> HIDE DEF was, now, c
      <3>3. FileAbstraction!Grew(f, was, now)
        BY <3>1, <3>2 DEF FileAbstraction!Grew, FileAbstraction!ToSet, ToSet
      <3>5. now[f] # was[f]
        BY <3>1, <3>6
      <3>4. FileAbstraction!OneCall(was, now)
        BY <2>1, <3>3, <3>5 DEF FileAbstraction!OneCall
      <3> QED BY <1>1, <3>4
    <2> QED BY <1>3, <2>2, <2>3, <2>4 DEF OneFile
  <1>4. was' = was \/ FileAbstraction!OneCall(was, was')
    <2>1. (\A g \in Files : Stays(g)) \/ (\E f \in Files : OneFile(f))
      BY StepIsACall
    <2>2. (\A g \in Files : Stays(g)) => was' = was
      BY <1>2
    <2> QED BY <1>3, <2>1, <2>2
  <1> QED BY <1>4 DEF FileAbstraction!Next

\* Every call is one step of the abstract file system or none of its business
\* (RefinesFileSpec): one file grows by a cluster that was nobody's, is cut at
\* its end, or goes away, and the data of every other file stays.
THEOREM FilesRefine ==
  ASSUME Ordinary
  PROVE  Spec => RefinesFileSpec
  <1>1. Init => FileAbstraction!Init
    <2> SUFFICES ASSUME Init PROVE FileAbstraction!Init
      OBVIOUS
    <2>1. \A f \in Files : FileData(f) = <<>>
      BY DEF Init, Absent, FileData, Live
    <2> QED BY <2>1 DEF FileAbstraction!Init
  <1>2. IInv => DataKept
    BY DataIsKept
  <1>3. IInv /\ IInv' /\ DataKept /\ DataKept' /\ [Next]_vars
          => [FileAbstraction!Next]_([f \in Files |-> FileData(f)])
    BY StepRefines
  <1> QED BY <1>1, <1>2, <1>3, RecordsAgree, PTL DEF Spec, RefinesFileSpec, FileAbstraction!Spec

-------------------------------------------------------------------------------
(* Types and bounds *)

\* The bounds of the sizes and hints, which are those of the files.
Bounds ==
  /\ \A s \in Slots : entry[s] # NoEntry => entry[s].size <= MaxSize[entry[s].file]
  /\ \A f \in Files : ino[f].hoff <= MaxSize[f]

\* What a file's own entry names is within its bound: part of IInv, stated by
\* itself for the state after a step.
EntryFits ==
  \A f \in Files : ino[f].st # "absent" =>
    entry[ino[f].slot].file = f /\ entry[ino[f].slot].size <= MaxSize[f]

LEMMA InodeFits ==
  ASSUME IInv, NEW f \in Files
  PROVE  /\ Inode(f).isize <= Inode(f).mmu /\ Inode(f).mmu <= MaxSize[f]
         /\ Inode(f).isize \in Nat /\ Inode(f).mmu \in Nat /\ MaxSize[f] \in Nat
  <1>1. /\ Placed(f) /\ Sound(fat, Chain(f)) /\ Shape(Inode(f)) /\ Shape(Chain(f))
        /\ Inode(f).isize <= Chain(f).isize /\ Chain(f).mmu = Inode(f).mmu
    BY FileFacts
  <1>2. MaxSize[f] \in Nat
    BY FilesAssumption
  <1>3. /\ Inode(f).isize \in Nat /\ Inode(f).mmu \in Nat
        /\ Chain(f).isize \in Nat /\ Chain(f).isize <= Chain(f).mmu
    BY <1>1 DEF Shape, Sound
  <1>4. Inode(f).isize <= Inode(f).mmu
    BY <1>1, <1>3
  <1>5. Inode(f).mmu <= MaxSize[f]
    BY <1>1 DEF Placed
  <1> QED BY <1>2, <1>3, <1>4, <1>5

LEMMA EntriesFit ==
  ASSUME IInv
  PROVE  EntryFits
  <1> SUFFICES ASSUME NEW f \in Files, ino[f].st # "absent"
               PROVE  entry[ino[f].slot].file = f /\ entry[ino[f].slot].size <= MaxSize[f]
    BY DEF EntryFits
  <1> DEFINE e == entry[ino[f].slot]
  <1>1. e \in Entries /\ e.file = f /\ ino[f] \in Inodes
    BY FileFacts
  <1>2. e.size \in Nat
    BY <1>1, EntryFields
  <1>3. CASE ino[f].st = "cached"
    <2>1. Agrees(e, ino[f], MaxSize[f])
      BY <1>3, LiveFacts
    <2> QED BY <1>1, <2>1 DEF Agrees
  <1>4. CASE ino[f].st = "evicted"
    <2>1. Inode(f).mmu = e.size
      BY <1>1, <1>4, FromEntryFields DEF Inode
    <2> QED BY <1>1, <1>2, <2>1, InodeFits
  <1> QED BY <1>1, <1>3, <1>4, InodeFields

\* A step changes an entry by taking it away or by writing a file's own, and a
\* hint only to an offset of the file.
Moves(f) ==
  /\ \A s \in Slots :
       \/ entry'[s] \in {entry[s], NoEntry}
       \/ ino'[f].st # "absent" /\ ino'[f].slot = s
  /\ \A g \in Files : ino'[g].hoff \in {ino[g].hoff, -1} \/ ino'[g].hoff <= MaxSize[g]

LEMMA RecordsMove ==
  ASSUME Ordinary, IInv, NEW f \in Files
  PROVE  /\ \A s \in Slots : exfat_create(f, s) => Moves(f)
         /\ exfat_lookup(f) => Moves(f)
         /\ \A s \in Slots : exfat_rename(f, s) => Moves(f)
         /\ \A g \in Files, s \in Slots : exfat_replace(f, g, s) => Moves(f)
         /\ exfat_unlink(f) => Moves(f)
         /\ exfat_evict_inode(f) => Moves(f)
         /\ exfat_write_end(f) => Moves(f)
         /\ exfat_write_failed(f) => Moves(f)
         /\ mark_inode_dirty(f) => Moves(f)
         /\ exfat_write_inode(f) => Moves(f)
         /\ FsWriteStat(f) => Moves(f)
  <1> USE DEF Records
  <1>0. ino \in [Files -> Inodes] /\ entry \in [Slots -> Entries \cup {NoEntry}]
    BY DEF IInv
  <1>1. ASSUME NEW s \in Slots, exfat_create(f, s)
        PROVE  Moves(f)
    BY <1>0, <1>1 DEF exfat_create, Moves, Absent
  <1>2. ASSUME exfat_lookup(f)
        PROVE  Moves(f)
    <2>1. ino' = [ino EXCEPT ![f] = FromEntry(ino[f].slot)] /\ entry' = entry
      BY <1>2 DEF exfat_lookup, FromEntry
    <2>2. FromEntry(ino[f].slot).hoff = -1
      BY DEF FromEntry, Absent
    <2> QED BY <1>0, <2>1, <2>2 DEF Moves
  <1>3. ASSUME NEW s \in Slots, exfat_rename(f, s)
        PROVE  Moves(f)
    <2>1. ino[f].st = "cached"
      BY <1>3 DEF exfat_rename, Live
    <2>2. ino'[f] = [ino[f] EXCEPT !.slot = s, !.dirty = TRUE]
      BY <1>0, <1>3 DEF exfat_rename
    <2>3. ino'[f].st = "cached" /\ ino'[f].slot = s /\ ino'[f].hoff = ino[f].hoff
      <3>1. ino[f] \in Inodes
        BY <1>0
      <3> QED BY <2>1, <2>2, <3>1 DEF Inodes
    <2>4. \A g \in Files \ {f} : ino'[g] = ino[g]
      BY <1>0, <1>3 DEF exfat_rename
    <2>5. \A r \in Slots \ {s} : entry'[r] \in {entry[r], NoEntry}
      BY <1>0, <1>3 DEF exfat_rename
    <2> QED BY <2>3, <2>4, <2>5 DEF Moves
  <1>4. ASSUME NEW g \in Files, NEW s \in Slots, exfat_replace(f, g, s)
        PROVE  Moves(f)
    <2>1. ino[f].st = "cached" /\ f # g
      BY <1>4 DEF exfat_replace, Live
    <2>2. ino'[f] = [ino[f] EXCEPT !.slot = s, !.dirty = TRUE]
      BY <1>0, <1>4, <2>1 DEF exfat_replace
    <2>3. ino'[f].st = "cached" /\ ino'[f].slot = s /\ ino'[f].hoff = ino[f].hoff
      <3>1. ino[f] \in Inodes
        BY <1>0
      <3> QED BY <2>1, <2>2, <3>1 DEF Inodes
    <2>4. \A h \in Files \ {f, g} : ino'[h] = ino[h]
      BY <1>0, <1>4 DEF exfat_replace
    <2>5. ino'[g].hoff = -1
      <3>1. ino'[g] = Absent("absent", NoEntry)
        BY <1>0, <1>4 DEF exfat_replace, Ordinary
      <3> QED BY <3>1 DEF Absent
    <2>6. \A r \in Slots \ {s} : entry'[r] \in {entry[r], NoEntry}
      BY <1>0, <1>4 DEF exfat_replace
    <2> QED BY <2>3, <2>4, <2>5, <2>6 DEF Moves
  <1>5. ASSUME exfat_unlink(f)
        PROVE  Moves(f)
    <2>1. ino'[f] = Absent("absent", NoEntry) /\ \A g \in Files \ {f} : ino'[g] = ino[g]
      BY <1>0, <1>5 DEF exfat_unlink, Ordinary
    <2>2. \A r \in Slots : entry'[r] \in {entry[r], NoEntry}
      BY <1>0, <1>5 DEF exfat_unlink
    <2> QED BY <2>1, <2>2 DEF Moves, Absent
  <1>6. ASSUME exfat_evict_inode(f)
        PROVE  Moves(f)
    <2>1. ino'[f].hoff = -1 /\ (\A g \in Files \ {f} : ino'[g] = ino[g]) /\ entry' = entry
      BY <1>0, <1>6 DEF exfat_evict_inode, Absent
    <2> QED BY <2>1 DEF Moves
  <1>7. ASSUME exfat_write_end(f)
        PROVE  Moves(f)
    <2>1. ino'[f].hoff = ino[f].hoff /\ (\A g \in Files \ {f} : ino'[g] = ino[g]) /\ entry' = entry
      BY <1>0, <1>7 DEF exfat_write_end, Inodes
    <2> QED BY <2>1 DEF Moves
  <1>8. ASSUME exfat_write_failed(f)
        PROVE  Moves(f)
    <2>1. ino'[f].hoff = ino[f].hoff /\ (\A g \in Files \ {f} : ino'[g] = ino[g]) /\ entry' = entry
      BY <1>0, <1>8 DEF exfat_write_failed, Inodes
    <2> QED BY <2>1 DEF Moves
  <1>9. ASSUME mark_inode_dirty(f)
        PROVE  Moves(f)
    <2>1. ino'[f].hoff = ino[f].hoff /\ (\A g \in Files \ {f} : ino'[g] = ino[g]) /\ entry' = entry
      BY <1>0, <1>9 DEF mark_inode_dirty, Inodes
    <2> QED BY <2>1 DEF Moves
  <1>10. ASSUME exfat_write_inode(f)
         PROVE  Moves(f)
    <2>1. ino'[f].hoff = ino[f].hoff /\ (\A g \in Files \ {f} : ino'[g] = ino[g]) /\ entry' = entry
      BY <1>0, <1>10 DEF exfat_write_inode, Inodes
    <2> QED BY <2>1 DEF Moves
  <1>11. ASSUME FsWriteStat(f)
         PROVE  Moves(f)
    <2>1. ino'[f].st = "cached"
      BY <1>11, WriteStatKeeps
    <2>2. /\ ino'[f].hoff = ino[f].hoff /\ ino'[f].slot = ino[f].slot
          /\ \A g \in Files \ {f} : ino'[g] = ino[g]
      BY <1>0, <1>11 DEF FsWriteStat, Inodes
    <2>3. \A r \in Slots \ {ino[f].slot} : entry'[r] = entry[r]
      BY <1>0, <1>11 DEF FsWriteStat
    <2> QED BY <2>1, <2>2, <2>3 DEF Moves
  <1> QED BY <1>1, <1>2, <1>3, <1>4, <1>5, <1>6, <1>7, <1>8, <1>9, <1>10, <1>11

LEMMA MapsMove ==
  ASSUME Ordinary, IInv, NEW f \in Files
  PROVE  /\ \A copied \in Copied : exfat_write_begin(f, copied) => Moves(f)
         /\ \A off \in 0 .. (MaxSize[f] - 1), copied \in Copied :
              exfat_get_block(f, off, copied) => Moves(f)
         /\ \A size \in Nat : exfat_setattr(f, size) => Moves(f)
         /\ exfat_truncate(f) => Moves(f)
  <1>0. ino \in [Files -> Inodes] /\ entry \in [Slots -> Entries \cup {NoEntry}]
    BY DEF IInv, Records
  <1>1. ASSUME NEW copied \in Copied, exfat_write_begin(f, copied)
        PROVE  Moves(f)
    <2>1. Begun(f) /\ ino[f].st = "cached"
      BY <1>1, WriteBeginKeeps
    <2>2. ino[f].isize <= MaxSize[f]
      <3>1. Inode(f) = ino[f]
        BY <2>1, LiveFacts
      <3> QED BY <3>1, InodeFits
    <2>3. /\ ino'[f].hoff \in {ino[f].hoff, ino[f].isize} /\ ino'[f].slot = ino[f].slot
          /\ ino'[f].st = "cached"
          /\ \A g \in Files \ {f} : ino'[g] = ino[g]
          /\ \A s \in Slots \ {ino[f].slot} : entry'[s] = entry[s]
      BY <2>1 DEF Begun
    <2> QED BY <2>2, <2>3 DEF Moves
  <1>2. ASSUME NEW off \in 0 .. (MaxSize[f] - 1), NEW copied \in Copied,
               exfat_get_block(f, off, copied)
        PROVE  Moves(f)
    <2>1. off \in Nat /\ off <= MaxSize[f]
      BY FilesAssumption
    <2>2. ino'[f].hoff = off /\ entry' = entry
      BY <1>2, <2>1, BlockIsFound
    <2>3. \A g \in Files \ {f} : ino'[g] = ino[g]
      BY <1>0, <1>2 DEF exfat_get_block, MapsPage
    <2> QED BY <2>1, <2>2, <2>3 DEF Moves
  <1>3. ASSUME NEW size \in Nat, exfat_setattr(f, size)
        PROVE  Moves(f)
    <2>1. ino'[f].hoff = ino[f].hoff /\ (\A g \in Files \ {f} : ino'[g] = ino[g]) /\ entry' = entry
      BY <1>0, <1>3 DEF exfat_setattr, Inodes
    <2> QED BY <2>1 DEF Moves
  <1>4. ASSUME exfat_truncate(f)
        PROVE  Moves(f)
    <2> DEFINE i == ino[f]
    <2>1. i \in Inodes /\ ino'[f].st = "cached"
      BY <1>0, <1>4, TruncateKeeps
    <2>2. \E fl, stt, mm :
            ino' = [ino EXCEPT ![f] = [i EXCEPT !.mmu = mm, !.flags = fl, !.start = stt,
                                                !.hoff = HintAfterCut(i), !.dirty = TRUE,
                                                !.cut = NoSize]]
      BY <1>4 DEF exfat_truncate
    <2>3. /\ ino'[f].hoff = HintAfterCut(i) /\ ino'[f].slot = i.slot
          /\ \A g \in Files \ {f} : ino'[g] = ino[g]
      BY <1>0, <2>1, <2>2 DEF Inodes
    <2>4. HintAfterCut(i) \in {i.hoff, -1}
      BY DEF HintAfterCut
    <2>5. \A r \in Slots \ {i.slot} : entry'[r] = entry[r]
      BY <1>0, <1>4 DEF exfat_truncate
    <2> QED BY <2>1, <2>3, <2>4, <2>5 DEF Moves
  <1> QED BY <1>1, <1>2, <1>3, <1>4

LEMMA StepMoves ==
  ASSUME Ordinary, IInv, [Next]_vars
  PROVE  (entry' = entry /\ ino' = ino) \/ (\E f \in Files : Moves(f))
  <1>1. CASE UNCHANGED vars
    BY <1>1 DEF vars
  <1>2. CASE exfat_statfs
    BY <1>2 DEF exfat_statfs
  <1>3. ASSUME NEW f \in Files,
          \/ \E s \in Slots : exfat_create(f, s) \/ exfat_rename(f, s)
          \/ \E g \in Files, s \in Slots : exfat_replace(f, g, s)
          \/ \E size \in 0 .. (MaxSize[f] - 1) : exfat_setattr(f, size)
          \/ exfat_truncate(f)
          \/ \E off \in 0 .. (MaxSize[f] - 1), copied \in Copied : exfat_get_block(f, off, copied)
          \/ \E copied \in Copied : exfat_write_begin(f, copied)
          \/ exfat_lookup(f) \/ exfat_unlink(f) \/ exfat_evict_inode(f)
          \/ exfat_write_end(f) \/ exfat_write_failed(f) \/ mark_inode_dirty(f)
          \/ exfat_write_inode(f) \/ FsWriteStat(f)
        PROVE  Moves(f)
    <2>1. \A n \in 0 .. (MaxSize[f] - 1) : n \in Nat
      OBVIOUS
    <2>2. /\ (\E size \in 0 .. (MaxSize[f] - 1) : exfat_setattr(f, size)) => Moves(f)
          /\ exfat_truncate(f) => Moves(f)
      BY <2>1, MapsMove
    <2>3. (\E g \in Files, s \in Slots : exfat_replace(f, g, s)) => Moves(f)
      BY RecordsMove
    <2>4. (\E off \in 0 .. (MaxSize[f] - 1), copied \in Copied : exfat_get_block(f, off, copied))
            => Moves(f)
      BY MapsMove
    <2>5. (\E s \in Slots : exfat_create(f, s) \/ exfat_rename(f, s)) => Moves(f)
      BY RecordsMove
    <2>6. (\E copied \in Copied : exfat_write_begin(f, copied)) => Moves(f)
      BY MapsMove
    <2> QED BY <1>3, <2>2, <2>3, <2>4, <2>5, <2>6, RecordsMove
  <1> QED BY <1>1, <1>2, <1>3 DEF Next

LEMMA BoundsStay ==
  ASSUME Ordinary, IInv, Bounds, EntryFits', [Next]_vars
  PROVE  Bounds'
  <1>1. CASE entry' = entry /\ ino' = ino
    BY <1>1 DEF Bounds
  <1>2. ASSUME NEW f \in Files, Moves(f)
        PROVE  Bounds'
    <2>1. ASSUME NEW s \in Slots, entry'[s] # NoEntry
          PROVE  entry'[s].size <= MaxSize[entry'[s].file]
      <3>1. CASE entry'[s] \in {entry[s], NoEntry}
        BY <2>1, <3>1 DEF Bounds
      <3>2. CASE ino'[f].st # "absent" /\ ino'[f].slot = s
        BY <3>2 DEF EntryFits
      <3> QED BY <1>2, <3>1, <3>2 DEF Moves
    <2>2. ASSUME NEW g \in Files
          PROVE  ino'[g].hoff <= MaxSize[g]
      <3>1. MaxSize[g] \in Nat /\ -1 <= MaxSize[g]
        BY FilesAssumption
      <3> QED BY <1>2, <3>1 DEF Moves, Bounds
    <2> QED BY <2>1, <2>2 DEF Bounds
  <1> QED BY <1>1, <1>2, StepMoves

LEMMA BoundsStart ==
  ASSUME Init
  PROVE  Bounds
  <1>1. \A f \in Files : MaxSize[f] \in Nat
    BY FilesAssumption
  <1> QED BY <1>1 DEF Init, Absent, Bounds

\* No entry names more clusters than its file may have, and no hint lies past
\* them.
THEOREM SizesAreBounded ==
  ASSUME Ordinary
  PROVE  Spec => []Bounds
  <1>1. Init => Bounds
    BY BoundsStart
  <1>2. IInv => EntryFits
    BY EntriesFit
  <1>3. IInv /\ Bounds /\ EntryFits' /\ [Next]_vars => Bounds'
    BY BoundsStay
  <1> QED BY <1>1, <1>2, <1>3, RecordsAgree, PTL DEF Spec

\* Sizes of finitely many files have an upper bound, and the least one is the
\* size of a file.
LEMMA SizesHaveABound ==
  \E u \in Nat : \A f \in Files : MaxSize[f] <= u
  <1> DEFINE n == Cardinality(Files)
             Bounded(h, k) == \E u \in Nat : \A j \in 1 .. k : MaxSize[h[j]] <= u
  <1>1. IsFiniteSet(Files) /\ MaxSize \in [Files -> Nat]
    BY FilesAssumption
  <1>2. n \in Nat /\ ExistsBijection(1 .. n, Files)
    BY <1>1, FS_CardinalityType
  <1> HIDE DEF n
  <1>3. PICK h \in [1 .. n -> Files] : \A f \in Files : \E j \in 1 .. n : h[j] = f
    BY <1>2 DEF ExistsBijection, Bijection, Injection, Surjection
  <1>4. Bounded(h, n)
    <2> SUFFICES ASSUME ~Bounded(h, n)
                 PROVE  FALSE
      OBVIOUS
    <2> DEFINE bad == {k \in 0 .. n : ~Bounded(h, k)}
    <2>1. n \in bad /\ bad \subseteq Nat
      BY <1>2
    <2> DEFINE k == Min(bad)
    <2> HIDE DEF bad
    <2>2. k \in bad /\ \A j \in bad : k <= j
      BY <2>1, MinIsLeast
    <2> HIDE DEF k
    <2>3. k \in 0 .. n /\ ~Bounded(h, k)
      BY <2>2 DEF bad
    <2>4. k # 0
      <3>1. Bounded(h, 0)
        <4>1. 0 \in Nat /\ \A j \in 1 .. 0 : MaxSize[h[j]] <= 0
          OBVIOUS
        <4> QED BY <4>1
      <3> QED BY <2>3, <3>1
    <2>5. k - 1 \in 0 .. n /\ k \in 1 .. n
      BY <1>2, <2>3, <2>4
    <2>6. Bounded(h, k - 1)
      <3>1. k - 1 \notin bad
        BY <2>1, <2>2, <2>3
      <3> QED BY <2>5, <3>1 DEF bad
    <2>7. PICK u \in Nat : \A j \in 1 .. (k - 1) : MaxSize[h[j]] <= u
      BY <2>6
    <2>8. MaxSize[h[k]] \in Nat
      BY <1>1, <1>3, <2>5
    <2> HIDE DEF Bounded
    <2> DEFINE v == IF MaxSize[h[k]] <= u THEN u ELSE MaxSize[h[k]]
    <2>9. v \in Nat /\ u <= v /\ MaxSize[h[k]] <= v
      BY <2>7, <2>8
    <2> HIDE DEF v
    <2>10. ASSUME NEW j \in 1 .. k
           PROVE  MaxSize[h[j]] <= v
      <3>1. CASE j = k
        BY <2>9, <3>1
      <3>2. CASE j # k
        <4>1. j \in 1 .. (k - 1) /\ j \in 1 .. n
          BY <1>2, <2>5, <3>2
        <4>2. MaxSize[h[j]] <= u /\ MaxSize[h[j]] \in Nat
          BY <1>1, <1>3, <2>7, <4>1
        <4> QED BY <2>7, <2>9, <4>2
      <3> QED BY <3>1, <3>2
    <2> QED BY <2>3, <2>9, <2>10 DEF Bounded
  <1>5. PICK u \in Nat : \A j \in 1 .. n : MaxSize[h[j]] <= u
    BY <1>4
  <1> QED BY <1>3, <1>5

LEMMA LargestBounds ==
  ASSUME NEW f \in Files
  PROVE  Largest \in Nat /\ MaxSize[f] <= Largest
  <1> DEFINE S == {MaxSize[g] : g \in Files}
             U == {u \in Nat : \A g \in Files : MaxSize[g] <= u}
             m == Min(U)
  <1>1. \A g \in Files : MaxSize[g] \in Nat
    BY FilesAssumption
  <1>2. U \subseteq Nat /\ U # {}
    BY SizesHaveABound
  <1> HIDE DEF U
  <1>3. m \in U /\ \A u \in U : m <= u
    BY <1>2, MinIsLeast
  <1> HIDE DEF m
  <1>4. m \in Nat /\ \A g \in Files : MaxSize[g] <= m
    BY <1>3 DEF U
  <1>5. \E g \in Files : MaxSize[g] = m
    <2> SUFFICES ASSUME \A g \in Files : MaxSize[g] # m
                 PROVE  FALSE
      OBVIOUS
    <2>1. \A g \in Files : MaxSize[g] <= m - 1
      BY <1>1, <1>4
    <2>2. m - 1 \in Nat
      BY <1>1, <1>4, <2>1
    <2>3. m - 1 \in U
      BY <2>1, <2>2 DEF U
    <2> QED BY <1>3, <1>4, <2>3
  <1>6. m \in S /\ \A x \in S : x \in Nat /\ m >= x
    BY <1>1, <1>4, <1>5
  <1>7. \A x \in S : (\A y \in S : x >= y) => x = m
    BY <1>4, <1>6
  <1>8. Max(S) = m
    <2> HIDE DEF S
    <2> QED BY <1>6, <1>7 DEF Max
  <1> QED BY <1>4, <1>8 DEF Largest

LEMMA TakenIsFew ==
  ASSUME Volume, Counted(used, taken)
  PROVE  used \in 0 .. NumClusters \cup {Unknown}
  <1>1. taken \in SUBSET Clusters /\ used \in Nat \cup {Unknown}
    BY DEF Volume
  <1>2. Cardinality(taken) <= Cardinality(Clusters)
    BY <1>1, ClustersFinite, FS_Subset
  <1>3. Cardinality(taken) \in Nat
    BY TakenFinite, FS_CardinalityType
  <1>4. used # Unknown => used = Cardinality(taken)
    BY DEF Counted
  <1> QED BY <1>1, <1>2, <1>3, <1>4, ClustersFinite, Numbers

LEMMA InodeIsTyped ==
  ASSUME IInv, Bounds, NEW f \in Files
  PROVE  ino[f] \in [st : {"absent", "cached", "evicted", "gone"}, slot : Slots \cup {NoEntry},
                     start : Clusters \cup {Eof}, flags : {Linked, Contiguous},
                     isize : 0 .. Largest, mmu : 0 .. Largest, hoff : -1 .. Largest,
                     hclu : Clusters \cup {Eof}, dirty : BOOLEAN, wrote : NoSize .. Largest,
                     at : Clusters \cup {Eof}, cut : NoSize .. Largest,
                     pages : SUBSET ((0 .. Largest) \X Clusters)]
  <1> DEFINE i == ino[f]
  <1>1. i \in Inodes /\ Placed(f)
    BY FileFacts
  <1>2. Largest \in Nat /\ MaxSize[f] <= Largest /\ MaxSize[f] \in Nat
    BY LargestBounds, FilesAssumption
  <1>3. /\ i.isize \in Nat /\ i.mmu \in Nat /\ i.hoff \in Nat \cup {-1}
        /\ i.pages \subseteq Nat \X Clusters /\ i.st \in {"absent", "cached", "evicted"}
        /\ i.wrote \in Nat \cup {NoSize} /\ i.cut \in Nat \cup {NoSize}
    BY <1>1, InodeFields
  <1>4. /\ i.isize <= MaxSize[f] /\ i.mmu <= MaxSize[f]
        /\ i.wrote <= MaxSize[f] /\ i.cut <= MaxSize[f]
        /\ \A p \in i.pages : p[1] < i.isize
    <2>1. CASE i.st \in {"absent", "evicted"}
      <3>1. \E st, slot : i = Absent(st, slot)
        BY <1>1, <2>1 DEF Placed
      <3>2. i.isize = 0 /\ i.mmu = 0 /\ i.pages = {} /\ i.wrote = NoSize /\ i.cut = NoSize
        BY <3>1 DEF Absent
      <3> HIDE DEF i
      <3> QED BY <1>2, <3>2 DEF NoSize
    <2>2. CASE i.st = "cached"
      <3> DEFINE w == Whole(i)
      <3>1. /\ Sound(fat, w) /\ Shape(w) /\ Agrees(entry[i.slot], i, MaxSize[f])
            /\ i.mmu <= MaxSize[f] /\ i.isize <= i.mmu
        BY <2>2, LiveFacts
      <3>2. /\ w.isize = (IF i.cut = NoSize THEN i.isize ELSE i.cut)
            /\ w.mmu = i.mmu /\ w.pages = i.pages
        BY <1>1, WholeFields
      <3> HIDE DEF i, w
      <3>3. w.isize <= w.mmu /\ w.isize \in Nat /\ \A p \in w.pages : p[1] < w.isize
        BY <3>1 DEF Sound, Shape
      <3>4. i.cut <= MaxSize[f] /\ i.wrote <= MaxSize[f]
        BY <1>2, <1>3, <3>1, <3>2, <3>3 DEF Agrees, NoSize
      <3>5. \A p \in i.pages : p[1] < i.isize
        BY <3>1, <3>2, <3>3 DEF Agrees
      <3> QED BY <1>2, <1>3, <3>1, <3>4, <3>5
    <2> QED BY <1>3, <2>1, <2>2
  <1>5. i.hoff <= MaxSize[f]
    BY DEF Bounds
  <1> HIDE DEF i
  <1>6. i.isize \in 0 .. Largest /\ i.mmu \in 0 .. Largest /\ i.hoff \in -1 .. Largest
        /\ i.wrote \in NoSize .. Largest /\ i.cut \in NoSize .. Largest
    BY <1>2, <1>3, <1>4, <1>5 DEF NoSize
  <1>7. i.pages \subseteq (0 .. Largest) \X Clusters
    <2> SUFFICES ASSUME NEW p \in i.pages PROVE p \in (0 .. Largest) \X Clusters
      OBVIOUS
    <2>1. p \in Nat \X Clusters /\ p[1] < i.isize
      BY <1>3, <1>4
    <2>2. p[1] \in 0 .. Largest /\ p[2] \in Clusters /\ p = <<p[1], p[2]>>
      BY <1>2, <1>3, <1>4, <2>1
    <2> QED BY <2>2
  <1>8. i.st \in {"absent", "cached", "evicted", "gone"}
    BY <1>3
  <1>9. i \in [st : {"absent", "cached", "evicted", "gone"}, slot : Slots \cup {NoEntry},
               start : Clusters \cup {Eof}, flags : {Linked, Contiguous},
               isize : 0 .. Largest, mmu : 0 .. Largest, hoff : -1 .. Largest,
               hclu : Clusters \cup {Eof}, dirty : BOOLEAN, wrote : NoSize .. Largest,
               at : Clusters \cup {Eof}, cut : NoSize .. Largest,
               pages : SUBSET ((0 .. Largest) \X Clusters)]
    <2> DEFINE z == 0 .. Largest
               w == -1 .. Largest
               y == NoSize .. Largest
               P == SUBSET ((0 .. Largest) \X Clusters)
    <2>1. i.isize \in z /\ i.mmu \in z /\ i.hoff \in w /\ i.pages \in P
          /\ i.wrote \in y /\ i.cut \in y
      BY <1>6, <1>7
    <2> HIDE DEF z, w, y, P
    <2>2. i \in [st : {"absent", "cached", "evicted", "gone"}, slot : Slots \cup {NoEntry},
                 start : Clusters \cup {Eof}, flags : {Linked, Contiguous},
                 isize : z, mmu : z, hoff : w, hclu : Clusters \cup {Eof}, dirty : BOOLEAN,
                 wrote : y, at : Clusters \cup {Eof}, cut : y, pages : P]
      BY <1>1, <1>8, <2>1 DEF Inodes
    <2> QED BY <2>2 DEF z, w, y, P
  <1> QED BY <1>9 DEF i

LEMMA EntryIsTyped ==
  ASSUME IInv, Bounds, NEW s \in Slots
  PROVE  entry[s] \in [file : Files, clu0 : Clusters \cup {0, Eof},
                       flags : {Linked, Contiguous}, size : 0 .. Largest] \cup {NoEntry}
  <1> DEFINE e == entry[s]
  <1> SUFFICES ASSUME e # NoEntry
               PROVE  e \in [file : Files, clu0 : Clusters \cup {0, Eof},
                             flags : {Linked, Contiguous}, size : 0 .. Largest]
    OBVIOUS
  <1>1. e \in Entries
    BY DEF IInv, Records
  <1>2. e.file \in Files /\ e.size \in Nat
    BY <1>1, EntryFields
  <1>3. e.size <= MaxSize[e.file]
    BY DEF Bounds
  <1>4. Largest \in Nat /\ MaxSize[e.file] <= Largest /\ MaxSize[e.file] \in Nat
    BY <1>2, LargestBounds, FilesAssumption
  <1> HIDE DEF e
  <1>5. e.size \in 0 .. Largest
    BY <1>2, <1>3, <1>4
  <1> QED BY <1>1, <1>5 DEF Entries

LEMMA Typed ==
  ASSUME IInv, Bounds
  PROVE  TypeOK
  <1>1. VolumeOK /\ Records
    BY DEF IInv
  <1>2. /\ taken \subseteq Clusters /\ fat \in [Clusters -> Clusters \cup {0, Eof}]
        /\ srch \in Clusters
    BY <1>1 DEF VolumeOK, Volume
  <1>3. used \in 0 .. NumClusters \cup {Unknown}
    BY <1>1, TakenIsFew DEF VolumeOK
  <1>4. entry \in [Slots -> [file : Files, clu0 : Clusters \cup {0, Eof},
                             flags : {Linked, Contiguous}, size : 0 .. Largest] \cup {NoEntry}]
    BY <1>1, EntryIsTyped DEF Records
  <1>5. ino \in [Files ->
          [st : {"absent", "cached", "evicted", "gone"}, slot : Slots \cup {NoEntry},
           start : Clusters \cup {Eof}, flags : {Linked, Contiguous},
           isize : 0 .. Largest, mmu : 0 .. Largest, hoff : -1 .. Largest,
           hclu : Clusters \cup {Eof}, dirty : BOOLEAN, wrote : NoSize .. Largest,
           at : Clusters \cup {Eof}, cut : NoSize .. Largest,
           pages : SUBSET ((0 .. Largest) \X Clusters)]]
    BY <1>1, InodeIsTyped DEF Records
  <1> QED BY <1>2, <1>3, <1>4, <1>5 DEF TypeOK

\* The variables have their types, sizes and hints their bounds (TypeOK).
THEOREM TypeCorrect ==
  ASSUME Ordinary
  PROVE  Spec => []TypeOK
  <1>1. IInv /\ Bounds => TypeOK
    BY Typed
  <1> QED BY <1>1, RecordsAgree, SizesAreBounded, PTL

\* A block of a file that is mapped without create, for a read or for the
\* writeback of a page, allocates nothing (ReadAllocatesNothing).
THEOREM ReadsAllocateNothing ==
  ASSUME Ordinary
  PROVE  Spec => ReadAllocatesNothing
  <1>1. ASSUME IInv, NEW f \in Files, NEW copied \in Copied,
               NEW off \in 0 .. (MaxSize[f] - 1), exfat_get_block(f, off, copied)
        PROVE  taken' = taken
    <2>1. off \in Nat
      OBVIOUS
    <2>2. UNCHANGED clusterVars
      BY <1>1, <2>1, BlockIsFound
    <2> QED BY <2>2 DEF clusterVars
  <1>2. IInv => \A f \in Files, copied \in Copied : \A off \in 0 .. (MaxSize[f] - 1) :
                  exfat_get_block(f, off, copied) => taken' = taken
    BY <1>1
  <1> QED BY <1>2, RecordsAgree, PTL DEF ReadAllocatesNothing
=============================================================================
