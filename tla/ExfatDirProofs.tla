---------------------------- MODULE ExfatDirProofs ----------------------------
(***************************************************************************)
(* Theorems about the directories of an exFAT volume, for any volume and   *)
(* any number of directories, files and entries: the inductive invariant   *)
(* of the entries, the inodes' copies of a directory's chain and the hint, *)
(* and the properties of ExfatDir that follow from it.  They are about     *)
(* renames that do not turn their own directory into a linked chain and    *)
(* refusals that do not leave the hint at another one (Ordinary): with     *)
(* either the model violates them (ExfatDir_turned, ExfatDir_spoiled).     *)
(*                                                                         *)
(* The argument is about a View: for each directory the function from      *)
(* positions to entries that a scan of it sees.  cells are the clusters of *)
(* each directory, in order, and at is where in it each file's set begins; *)
(* neither is a variable, and the invariant says that there are some.      *)
(*   - A call that writes through any chain that leads to a set changes    *)
(*     the view at the set's positions and nowhere else (WrittenIs).       *)
(*   - On views, a set put where there is room and a set that is dropped   *)
(*     keep what every other set needs (Put, Drop); a rename is both, in   *)
(*     either order (OverSwaps, OverShorter).                              *)
(*   - The search finds room, in the directory or in its next cluster, if  *)
(*     the hint keeps its promise (HintOK, SearchIs, RoomFound); and a     *)
(*     directory that grows keeps all it holds (Extended).                 *)
(* What ExfatClusters does is proved here from its definitions, as in      *)
(* ExfatFileProofs: the two extend modules that cannot be extended at once.*)
(***************************************************************************)
EXTENDS ExfatDir, FiniteSetTheorems, SequenceTheorems, WellFoundedInduction, TLAPS

-------------------------------------------------------------------------------
(* The walk along the FAT *)

LEMMA MinIsLeast ==
  ASSUME NEW S, S \subseteq Nat, S # {}
  PROVE  Min(S) \in S /\ \A y \in S : Min(S) <= y
  <1> DEFINE R == {ss \in Nat \X Nat : ss[1] < ss[2]}
  <1>1. OpToRel(<, Nat) = R
    BY DEF OpToRel
  <1>2. IsWellFoundedOn(R, Nat)
    BY <1>1, NatLessThanWellFounded
  <1> HIDE DEF R
  <1>3. \E x \in S : \A y \in S : ~(<<y, x>> \in R)
    BY <1>2, WFMin
  <1>4. PICK x \in S : \A y \in S : ~(<<y, x>> \in R)
    BY <1>3
  <1>5. ASSUME NEW y \in S PROVE x <= y
    <2>1. x \in Nat /\ y \in Nat /\ <<y, x>> \notin R
      BY <1>4, <1>5
    <2>2. <<y, x>> \in Nat \X Nat /\ <<y, x>>[1] = y /\ <<y, x>>[2] = x
      BY <2>1
    <2>3. ~(y < x)
      BY <2>1, <2>2 DEF R
    <2> QED BY <2>1, <2>3
  <1> QED BY <1>5 DEF Min

\* The recursion of Walk has a solution, so that Walk is one.
LEMMA WalkIs ==
  ASSUME NEW t, NEW c
  PROVE  Walk(t, c) = [k \in 0 .. NumClusters |->
                         IF k = 0 THEN c ELSE FAT_read(t, Walk(t, c)[k - 1])]
  <1> DEFINE Loop(w) == [k \in 0 .. NumClusters |-> IF k = 0 THEN c ELSE FAT_read(t, w[k - 1])]
             Goes(w, n) == \A k \in 0 .. n : w[k] = IF k = 0 THEN c ELSE FAT_read(t, w[k - 1])
             Bad == {n \in Nat : ~ \E w : Goes(w, n)}
  <1>1. Bad = {}
    <2> SUFFICES ASSUME Bad # {} PROVE FALSE
      OBVIOUS
    <2>1. PICK m \in Bad : \A n \in Bad : m <= n
      BY MinIsLeast
    <2>2. CASE m = 0
      <3>1. Goes([k \in {0} |-> c], 0)
        OBVIOUS
      <3> QED BY <2>1, <2>2, <3>1
    <2>3. CASE m # 0
      <3>0. m \in Nat
        OBVIOUS
      <3>a. m - 1 \in Nat /\ ~(m <= m - 1)
        BY <2>3, <3>0
      <3>1. m - 1 \in Nat /\ m - 1 \notin Bad
        BY <2>1, <3>a
      <3>2. PICK w : Goes(w, m - 1)
        BY <3>1
      <3> DEFINE v == [k \in 0 .. m |-> IF k = m THEN FAT_read(t, w[m - 1]) ELSE w[k]]
      <3>3. \A k \in 0 .. m : v[k] = IF k = 0 THEN c ELSE FAT_read(t, v[k - 1])
        BY <2>1, <2>3, <3>1, <3>2
      <3> QED BY <2>1, <3>3
    <2> QED BY <2>2, <2>3
  <1>2. NumClusters \in Nat
    BY ClustersAssumption
  <1>3. PICK w : Goes(w, NumClusters)
    BY <1>1, <1>2
  <1> DEFINE v == [k \in 0 .. NumClusters |-> w[k]]
  <1>4. v = Loop(v)
    BY <1>2, <1>3
  <1> HIDE DEF v
  <1>5. Walk(t, c) = CHOOSE x : x = Loop(x)
    BY DEF Walk
  <1> HIDE DEF Loop
  <1>6. Walk(t, c) = Loop(Walk(t, c))
    BY <1>4, <1>5
  <1> QED BY <1>6 DEF Loop

LEMMA WalkSteps ==
  ASSUME NEW t, NEW c
  PROVE  /\ Walk(t, c)[0] = c
         /\ \A k \in 0 .. (NumClusters - 1) : Walk(t, c)[k + 1] = FAT_read(t, Walk(t, c)[k])
  <1> DEFINE w == Walk(t, c)
  <1>1. NumClusters \in Nat
    BY ClustersAssumption
  <1>2. w = [k \in 0 .. NumClusters |-> IF k = 0 THEN c ELSE FAT_read(t, w[k - 1])]
    BY WalkIs
  <1> HIDE DEF w
  <1>3. \A k \in 0 .. NumClusters : w[k] = IF k = 0 THEN c ELSE FAT_read(t, w[k - 1])
    BY <1>2
  <1>4. w[0] = c
    BY <1>1, <1>3
  <1>5. ASSUME NEW k \in 0 .. (NumClusters - 1)
        PROVE  w[k + 1] = FAT_read(t, w[k])
    <2>1. k + 1 \in 0 .. NumClusters /\ k + 1 # 0 /\ (k + 1) - 1 = k
      BY <1>1, <1>5
    <2> QED BY <1>3, <2>1
  <1> QED BY <1>4, <1>5 DEF w

\* Whatever is linked from c is what is walked.
Follows(t, s, n) == \A k \in 0 .. (n - 1) : s[k + 1] = FAT_read(t, s[k])

LEMMA WalkFollows ==
  ASSUME NEW t, NEW s, NEW n \in 0 .. NumClusters, Follows(t, s, n)
  PROVE  \A k \in 0 .. n : Walk(t, s[0])[k] = s[k]
  <1> DEFINE Bad == {k \in 0 .. n : Walk(t, s[0])[k] # s[k]}
  <1>0. NumClusters \in Nat
    BY ClustersAssumption
  <1> SUFFICES ASSUME Bad # {} PROVE FALSE
    OBVIOUS
  <1>1. PICK m \in Bad : \A k \in Bad : m <= k
    <2>1. Bad \subseteq Nat
      BY <1>0
    <2> HIDE DEF Bad
    <2> QED BY <2>1, MinIsLeast
  <1>2. m # 0
    BY <1>1, WalkSteps
  <1>3. m - 1 \in 0 .. n /\ m - 1 \notin Bad /\ m - 1 \in 0 .. (n - 1) /\ (m - 1) + 1 = m
        /\ m - 1 \in 0 .. (NumClusters - 1)
    BY <1>0, <1>1, <1>2
  <1>4. Walk(t, s[0])[m - 1] = s[m - 1]
    BY <1>3
  <1>5. Walk(t, s[0])[m] = FAT_read(t, Walk(t, s[0])[m - 1])
    BY <1>3, WalkSteps
  <1>6. s[m] = FAT_read(t, s[m - 1])
    BY <1>3 DEF Follows
  <1> QED BY <1>1, <1>4, <1>5, <1>6

LEMMA Numbers ==
  /\ NumClusters \in Nat /\ NumClusters > 2 /\ Clusters \subseteq Nat
  /\ Eof \notin Clusters /\ 0 \notin Clusters /\ Eof \notin Nat /\ Linked # Contiguous
  /\ Linked \in Nat /\ Contiguous \in Nat /\ Unknown \notin Nat
  /\ Eof \in Int /\ \A c \in Clusters : c \in Int /\ c >= 2
  /\ \A c \in Clusters : c < NumClusters /\ (c + 1 \in Clusters \/ c + 1 = NumClusters)
  /\ \A c \in Int : c \in Clusters <=> 2 <= c /\ c < NumClusters
  BY ClustersAssumption DEF Clusters, Eof, Linked, Contiguous, Unknown

LEMMA ClustersFinite ==
  IsFiniteSet(Clusters) /\ Cardinality(Clusters) = NumClusters - 2
  <1>1. NumClusters - 1 \in Int /\ 2 \in Int /\ NumClusters \in Nat /\ NumClusters > 2
    BY ClustersAssumption
  <1>2. /\ IsFiniteSet(2 .. (NumClusters - 1))
        /\ Cardinality(2 .. (NumClusters - 1)) =
             IF 2 > NumClusters - 1 THEN 0 ELSE (NumClusters - 1) - 2 + 1
    BY <1>1, FS_Interval
  <1> QED BY <1>1, <1>2 DEF Clusters

\* Clusters that differ are no more than the volume has.
LEMMA ChainFits ==
  ASSUME NEW n \in Nat, NEW s, \A k \in 0 .. (n - 1) : s[k] \in Clusters,
         \A j, k \in 0 .. (n - 1) : s[j] = s[k] => j = k
  PROVE  n <= NumClusters - 2
  <1> DEFINE S == 0 .. (n - 1)
             h == [k \in S |-> s[k]]
  <1>1. h \in Injection(S, Clusters)
    BY DEF Injection, IsInjective
  <1>2. Cardinality(S) <= Cardinality(Clusters)
    <2> HIDE DEF h, S
    <2> QED BY <1>1, ClustersFinite, FS_Injection
  <1>3. Cardinality(S) = n
    <2>1. 0 \in Int /\ n - 1 \in Int
      OBVIOUS
    <2>2. Cardinality(0 .. (n - 1)) = IF 0 > n - 1 THEN 0 ELSE (n - 1) - 0 + 1
      BY <2>1, FS_Interval
    <2> QED BY <2>2
  <1> QED BY <1>2, <1>3, ClustersFinite

\* The n clusters s are linked in that order.
Links(t, s, n) ==
  /\ \A k \in 0 .. (n - 1) : s[k] \in Clusters
  /\ \A j, k \in 0 .. (n - 1) : s[j] = s[k] => j = k
  /\ \A k \in 0 .. (n - 1) : t[s[k]] = IF k + 1 < n THEN s[k + 1] ELSE Eof

\* What is walked along them.
LEMMA WalkOf ==
  ASSUME NEW t, NEW s, NEW n \in Nat \ {0}, Links(t, s, n)
  PROVE  /\ Walk(t, s[0])[n] = Eof /\ n <= NumClusters - 2 /\ n < NumClusters
         /\ \A k \in 0 .. (n - 1) : Walk(t, s[0])[k] = s[k]
  <1>a. /\ \A k \in 0 .. (n - 1) : s[k] \in Clusters
        /\ \A j, k \in 0 .. (n - 1) : s[j] = s[k] => j = k
        /\ \A k \in 0 .. (n - 1) : t[s[k]] = IF k + 1 < n THEN s[k + 1] ELSE Eof
    BY DEF Links
  <1>b. n <= NumClusters - 2 /\ n < NumClusters /\ NumClusters \in Nat
    BY <1>a, ChainFits, Numbers
  <1> DEFINE v == [k \in 0 .. n |-> IF k < n THEN s[k] ELSE Eof]
  <1>1. ASSUME NEW k \in 0 .. (n - 1)
        PROVE  v[k + 1] = FAT_read(t, v[k])
    <2>1. v[k] = s[k] /\ s[k] \in Clusters
      BY <1>a
    <2>2. k + 1 \in 0 .. n /\ v[k + 1] = IF k + 1 < n THEN s[k + 1] ELSE Eof
      OBVIOUS
    <2> QED BY <1>a, <2>1, <2>2 DEF FAT_read
  <1>2. v[0] = s[0] /\ v[n] = Eof /\ \A k \in 0 .. (n - 1) : v[k] = s[k]
    OBVIOUS
  <1>3. n \in 0 .. NumClusters
    BY <1>b
  <1> HIDE DEF v
  <1>5. Follows(t, v, n)
    BY <1>1 DEF Follows
  <1>4. \A k \in 0 .. n : Walk(t, v[0])[k] = v[k]
    BY <1>3, <1>5, WalkFollows
  <1> QED BY <1>2, <1>4, <1>b

LEMMA VisitedLinked ==
  ASSUME NEW t, NEW s, NEW n \in Nat \ {0}, Links(t, s, n), NEW size \in Nat, size > 0
  PROVE  Visited(t, s[0], size, Linked) = {s[k] : k \in 0 .. (n - 1)}
  <1>1. /\ \A k \in 0 .. (n - 1) : s[k] \in Clusters
        /\ \A j, k \in 0 .. (n - 1) : s[j] = s[k] => j = k
        /\ \A k \in 0 .. (n - 1) : t[s[k]] = IF k + 1 < n THEN s[k + 1] ELSE Eof
    BY DEF Links
  <1>2. n <= NumClusters - 2 /\ n < NumClusters /\ NumClusters \in Nat
    BY WalkOf, Numbers
  <1> DEFINE nth  == Walk(t, s[0])
             ends == {k \in 1 .. NumClusters : nth[k] \in {0, Eof}}
  <1>3. nth[n] = Eof /\ \A k \in 0 .. (n - 1) : nth[k] = s[k]
    BY WalkOf
  <1> HIDE DEF nth
  <1>4. n \in ends
    BY <1>2, <1>3
  <1>5. ASSUME NEW k \in ends PROVE n <= k
    <2> SUFFICES ASSUME k < n PROVE FALSE
      BY <1>2
    <2>1. k \in 0 .. (n - 1) /\ nth[k] \in {0, Eof}
      BY <1>2
    <2> QED BY <1>1, <1>3, <2>1, Numbers
  <1>6. Min(ends) = n
    <2>1. ends \subseteq Nat /\ ends # {}
      BY <1>2, <1>4
    <2> HIDE DEF ends
    <2>2. Min(ends) \in ends /\ Min(ends) <= n
      BY <1>4, <2>1, MinIsLeast
    <2>3. n <= Min(ends) /\ Min(ends) \in Nat
      BY <1>5, <2>1, <2>2
    <2> QED BY <2>2, <2>3
  <1>7. s[0] \in Clusters /\ s[0] \notin {0, Eof} /\ ~(size <= 0) /\ ends # {}
    BY <1>1, <1>4, Numbers
  <1>8. Visited(t, s[0], size, Linked) =
          {nth[k] : k \in 0 .. ((IF ends = {} THEN NumClusters ELSE Min(ends)) - 1)}
    <2>1. Linked # Contiguous
      BY Numbers
    <2> QED BY <1>7, <2>1 DEF Visited, nth
  <1>9. Visited(t, s[0], size, Linked) = {nth[k] : k \in 0 .. (n - 1)}
    BY <1>6, <1>7, <1>8
  <1> HIDE DEF ends
  <1> QED BY <1>3, <1>9

\* From the m-th cluster of a linked chain on.
\* exfat_chain_cont_cluster links len clusters in a row, and no others.
RowFits(c, len) == c \in Clusters /\ len \in Nat \ {0} /\ c + len - 1 \in Clusters
InARow(t, t2, c, len) ==
  /\ \A k \in 0 .. (len - 1) : t2[c + k] = IF k + 1 < len THEN c + (k + 1) ELSE Eof
  /\ \A d \in Clusters : d < c \/ d > c + len - 1 => t2[d] = t[d]
  /\ DOMAIN t2 = Clusters

LEMMA LinksTheRow ==
  ASSUME NEW t, NEW c, NEW len, RowFits(c, len)
  PROVE  InARow(t, exfat_chain_cont_cluster(t, c, len), c, len)
  <1> DEFINE t2 == exfat_chain_cont_cluster(t, c, len)
  <1>0. c \in Clusters /\ len \in Nat \ {0} /\ c + len - 1 \in Clusters
    BY DEF RowFits
  <1>1. t2 = [d \in Clusters |-> IF d \in c .. (c + len - 2) THEN d + 1
                                 ELSE IF len > 0 /\ d = c + len - 1 THEN Eof ELSE t[d]]
    BY DEF exfat_chain_cont_cluster
  <1> HIDE DEF t2
  <1>2. c \in Nat /\ 2 <= c /\ c + len - 1 < NumClusters /\ len \in Nat \ {0}
    BY <1>0, Numbers
  <1>3. ASSUME NEW k \in 0 .. (len - 1)
        PROVE  t2[c + k] = IF k + 1 < len THEN c + (k + 1) ELSE Eof
    <2>1. c + k \in Clusters
      BY <1>2, Numbers
    <2>2. CASE k + 1 < len
      <3>1. c + k \in c .. (c + len - 2) /\ (c + k) + 1 = c + (k + 1)
        BY <1>2, <2>2
      <3> QED BY <1>1, <2>1, <2>2, <3>1
    <2>3. CASE ~(k + 1 < len)
      <3>1. c + k \notin c .. (c + len - 2) /\ c + k = c + len - 1
        BY <1>2, <2>3
      <3>2. c + k \notin c .. (c + len - 2) /\ len > 0
        BY <1>2, <3>1
      <3>3. t2[c + k] = Eof
        BY <1>1, <2>1, <3>1, <3>2
      <3> QED BY <2>3, <3>3
    <2> QED BY <2>2, <2>3
  <1>4. ASSUME NEW d \in Clusters, d < c \/ d > c + len - 1
        PROVE  t2[d] = t[d]
    <2>1. d \in Nat /\ d \notin c .. (c + len - 2) /\ d # c + len - 1
      BY <1>2, <1>4, Numbers
    <2> QED BY <1>1, <2>1
  <1>5. DOMAIN t2 = Clusters
    BY <1>1
  <1> QED BY <1>3, <1>4, <1>5 DEF InARow, t2

-------------------------------------------------------------------------------
(* The clusters *)

\* The bitmap and the FAT as exfat_alloc_cluster finds them; nothing of what is
\* modelled here asks how many clusters are in use.
Volume ==
  /\ taken \subseteq Clusters
  /\ fat \in [Clusters -> Clusters \cup {0, Eof}]
  /\ srch \in Clusters
  /\ used = Unknown

\* What the scan returns is a cluster whose bit is clear, and the cluster it was
\* asked about whenever that one is free.
LEMMA ScanFindsFree ==
  ASSUME NEW clu \in Clusters, taken \subseteq Clusters
  PROVE  /\ test_alloc_bitmap(clu) \in (Clusters \ taken) \cup {Eof}
         /\ clu \notin taken => test_alloc_bitmap(clu) = clu
  <1> DEFINE first   == (clu - 2) \div ByteBits
             byte(k) == (first + k) % NumBytes
             free(k) == {c \in Clusters \ taken : /\ (c - 2) \div ByteBits = byte(k)
                                                  /\ k = 0 => c >= clu}
             hits    == {k \in 0 .. (NumBytes - 1) : free(k) # {}}
  <1> HIDE DEF free
  <1>1. test_alloc_bitmap(clu) = IF hits = {} THEN Eof ELSE Min(free(Min(hits)))
    BY DEF test_alloc_bitmap, free
  <1>2. \A k : free(k) \subseteq Clusters \ taken
    BY DEF free
  <1>3. Clusters \subseteq Nat /\ NumBytes \in Int /\ hits \subseteq Nat
    BY ClustersAssumption DEF Clusters, NumBytes
  <1>4. hits # {} => test_alloc_bitmap(clu) \in Clusters \ taken
    <2> SUFFICES ASSUME hits # {} PROVE test_alloc_bitmap(clu) \in Clusters \ taken
      OBVIOUS
    <2>1. Min(hits) \in hits
      BY <1>3, MinIsLeast
    <2>2. Min(free(Min(hits))) \in free(Min(hits))
      BY <1>2, <1>3, <2>1, MinIsLeast
    <2> QED BY <1>1, <1>2, <2>2
  <1>5. ASSUME clu \notin taken PROVE test_alloc_bitmap(clu) = clu
    <2>1. first \in Nat /\ first < NumBytes
      BY ClustersAssumption DEF Clusters, NumBytes
    <2>2. byte(0) = first /\ 0 \in 0 .. (NumBytes - 1)
      BY <2>1, <1>3
    <2>3. clu \in free(0)
      BY <1>5, <2>2, ClustersAssumption DEF free, Clusters
    <2>4. Min(hits) = 0
      <3>1. 0 \in hits
        BY <2>2, <2>3
      <3>2. Min(hits) \in hits /\ Min(hits) <= 0
        BY <1>3, <3>1, MinIsLeast
      <3> QED BY <1>3, <3>2
    <2>5. Min(free(0)) \in free(0) /\ Min(free(0)) <= clu
      BY <1>2, <1>3, <2>3, MinIsLeast
    <2>6. Min(free(0)) >= clu /\ Min(free(0)) \in Nat
      BY <1>2, <1>3, <2>5 DEF free
    <2>7. 0 \in hits
      BY <2>2, <2>3
    <2>8. test_alloc_bitmap(clu) = Min(free(0))
      BY <1>1, <2>4, <2>7
    <2> QED BY <1>3, <2>5, <2>6, <2>8
  <1>6. hits = {} => test_alloc_bitmap(clu) = Eof
    BY <1>1
  <1> QED BY <1>4, <1>5, <1>6

LEMMA HintTyped ==
  ASSUME Volume, NEW after \in Clusters \cup {Eof, NumClusters}
  PROVE  Hint(after) \in Clusters \cup {Eof}
  <1>1. 2 \in Clusters /\ test_alloc_bitmap(srch) \in Clusters \cup {Eof}
    BY ScanFindsFree, ClustersAssumption DEF Volume, Clusters
  <1> QED BY <1>1, ClustersAssumption DEF Hint, Clusters, Eof

\* A cluster that is handed out was free, and the bitmap and the FAT change for it
\* alone; the chain it is to follow stays contiguous only if it is the next one.
Allocated(new, after, flags) ==
  /\ new.srch \in Clusters /\ new.used = Unknown
  /\ new.n # 0 =>
       /\ new.n = 1
       /\ new.dir \in Clusters \ taken
       /\ new.taken = taken \cup {new.dir}
       /\ new.fat \in [Clusters -> Clusters \cup {0, Eof}]
       /\ \A c \in Clusters \ {new.dir} : new.fat[c] = fat[c]
       /\ new.flags \in {Linked, Contiguous}
       /\ new.flags = Linked => new.fat[new.dir] = Eof
       /\ new.flags = Contiguous => flags = Contiguous /\ new.fat = fat
       /\ new.flags = Contiguous /\ after # Eof => new.dir = after
  /\ new.n = 0 => new.taken = taken /\ new.fat = fat

LEMMA AllocIs ==
  ASSUME Volume, NEW after \in Clusters \cup {Eof, NumClusters},
         NEW flags \in {Linked, Contiguous}
  PROVE  Allocated(exfat_alloc_cluster(after, flags), after, flags)
  <1> DEFINE hint   == Hint(after)
             flags1 == IF after # Eof /\ after >= NumClusters THEN Linked ELSE flags
             found  == test_alloc_bitmap(hint)
             linked == IF found # hint THEN Linked ELSE flags1
             new    == exfat_alloc_cluster(after, flags)
  <1>1. hint \in Clusters \cup {Eof}
    BY HintTyped
  <1>2. Eof \notin Clusters /\ Linked # Contiguous /\ srch \in Clusters
    BY DEF Eof, Clusters, Linked, Contiguous, Volume
  <1>3. CASE hint = Eof
    <2>1. /\ new.n = 0 /\ new.taken = taken /\ new.fat = fat /\ new.used = used
          /\ new.srch = srch
      BY <1>3 DEF exfat_alloc_cluster
    <2> QED BY <1>2, <2>1 DEF Allocated, Volume
  <1>4. CASE hint # Eof /\ found = Eof
    <2>1. /\ new.n = 0 /\ new.taken = taken /\ new.fat = fat /\ new.used = used
          /\ new.srch = hint
      BY <1>4 DEF exfat_alloc_cluster
    <2> QED BY <1>1, <1>4, <2>1 DEF Allocated, Volume
  <1>5. CASE hint # Eof /\ found # Eof
    <2>1. /\ new.n = 1 /\ new.dir = found /\ new.flags = linked
          /\ new.taken = taken \cup {found}
          /\ new.fat = IF linked = Linked THEN [fat EXCEPT ![found] = Eof] ELSE fat
          /\ new.srch = hint
          /\ new.used = Unknown
      BY <1>5 DEF exfat_alloc_cluster, Volume
    <2>2. found \in Clusters \ taken
      BY <1>1, <1>5, ScanFindsFree DEF Volume
    <2>3. /\ \A c \in Clusters \ {found} : new.fat[c] = fat[c]
          /\ linked = Linked => new.fat[found] = Eof
      BY <2>1, <2>2 DEF Volume
    <2>4. linked = Contiguous /\ after # Eof => found = after
      BY <1>2, ClustersAssumption DEF Hint, Clusters, Eof
    <2>5. /\ linked = Contiguous => flags = Contiguous /\ new.fat = fat
          /\ linked \in {Linked, Contiguous}
      BY <1>2, <2>1
    <2>6. new.fat \in [Clusters -> Clusters \cup {0, Eof}]
      BY <2>1 DEF Volume
    <2>7. hint \in Clusters
      BY <1>1, <1>5
    <2> HIDE DEF hint, found, linked, new
    <2>8. Allocated(new, after, flags)
      BY <2>1, <2>2, <2>3, <2>4, <2>5, <2>6, <2>7 DEF Allocated
    <2> QED BY <2>8 DEF new
  <1> QED BY <1>3, <1>4, <1>5

-------------------------------------------------------------------------------
(* Positions: the entry p is in the cluster Page(p) of its directory, at Place(p) *)

Page(p) == p \div PerCluster
Place(p) == p % PerCluster

LEMMA PageIs ==
  ASSUME NEW p \in Nat
  PROVE  Page(p) \in Nat /\ Place(p) \in 0 .. (PerCluster - 1) /\ p = Page(p) * PerCluster + Place(p)
  BY DirAssumption, SMTT(30) DEF Page, Place

LEMMA PageOf ==
  ASSUME NEW k \in Nat, NEW i \in 0 .. (PerCluster - 1)
  PROVE  k * PerCluster + i \in Nat /\ Page(k * PerCluster + i) = k /\ Place(k * PerCluster + i) = i
  BY DirAssumption, SMTT(30) DEF Page, Place

LEMMA PageBelow ==
  ASSUME NEW n \in Nat, NEW p \in Nat
  PROVE  p < n * PerCluster <=> Page(p) < n
  BY DirAssumption, SMTT(30) DEF Page, Place

LEMMA SpanIs ==
  ASSUME NEW n \in Nat
  PROVE  n * PerCluster \in Nat /\ (n + 1) * PerCluster = n * PerCluster + PerCluster
         /\ PerCluster \in Nat \ {0} /\ (n = 0 => n * PerCluster = 0) /\ (n > 0 => n * PerCluster > 0)
  BY DirAssumption, SMTT(30)

LEMMA SpanGrows ==
  ASSUME NEW n \in Nat, NEW m \in Nat, n <= m
  PROVE  n * PerCluster <= m * PerCluster
  BY DirAssumption, SMTT(30)

\* Two positions of one cluster and place are one.
LEMMA PlaceTells ==
  ASSUME NEW p \in Nat, NEW q \in Nat, Page(p) = Page(q), Place(p) = Place(q)
  PROVE  p = q
  BY PageIs, Zenon

\* Where a scan that begins with the m-th cluster has what it sees.
LEMMA PageShift ==
  ASSUME NEW m \in Nat, NEW p \in Nat, m * PerCluster <= p
  PROVE  /\ p - m * PerCluster \in Nat
         /\ Page(p - m * PerCluster) = Page(p) - m
         /\ Place(p - m * PerCluster) = Place(p)
  <1>1. Page(p) \in Nat /\ Place(p) \in 0 .. (PerCluster - 1) /\ p = Page(p) * PerCluster + Place(p)
    BY PageIs
  <1>2. Page(p) >= m
    <2>1. p >= m * PerCluster => ~(Page(p) < m)
      BY PageBelow, SpanIs
    <2> QED BY <1>1, <2>1
  <1>3. p - m * PerCluster = (Page(p) - m) * PerCluster + Place(p)
    BY <1>1, DirAssumption, SMTT(30)
  <1>4. Page(p) - m \in Nat
    BY <1>1, <1>2
  <1> QED BY <1>1, <1>3, <1>4, PageOf

LEMMA BaseIs ==
  ASSUME NEW p \in Nat
  PROVE  p - (p % PerCluster) = Page(p) * PerCluster
  BY PageIs, SpanIs DEF Place

LEMMA MaxIs ==
  ASSUME NEW S, NEW x \in S, S \subseteq Int, \A y \in S : y <= x
  PROVE  Max(S) = x
  <1>1. x \in S /\ \A y \in S : x >= y
    OBVIOUS
  <1>2. Max(S) \in S /\ \A y \in S : Max(S) >= y
    BY <1>1, Zenon DEF Max
  <1>3. Max(S) \in Int /\ x \in Int /\ Max(S) >= x /\ Max(S) <= x
    BY <1>2
  <1> QED BY <1>3

LEMMA MinIs ==
  ASSUME NEW S, NEW x \in S, S \subseteq Nat, \A y \in S : x <= y
  PROVE  Min(S) = x
  <1>1. Min(S) \in S /\ Min(S) <= x
    BY MinIsLeast
  <1>2. Min(S) \in Nat /\ x \in Nat /\ Min(S) <= x /\ x <= Min(S)
    BY <1>1
  <1> QED BY <1>2

-------------------------------------------------------------------------------
(* The clusters of a chain and the entries in them *)

\* The n clusters s are the chain's: linked in that order, or in a row.  (The
\* size of a linked chain that a hint keeps is not looked at.)
Row(t, ch, s, n) ==
  /\ n \in Nat \ {0} /\ s[0] = ch.dir
  /\ \A k \in 0 .. (n - 1) : s[k] \in Clusters
  /\ \A j, k \in 0 .. (n - 1) : s[j] = s[k] => j = k
  /\ ch.flags \in {Linked, Contiguous}
  /\ ch.flags = Contiguous => ch.size = n /\ \A k \in 0 .. (n - 1) : s[k] = ch.dir + k
  /\ ch.flags = Linked => Links(t, s, n)

\* The entry at a position of them.
Seen(en, s, p) == en[s[Page(p)]][Place(p)]

LEMMA RowIsBounded ==
  ASSUME NEW t, NEW ch, NEW s, NEW n, Row(t, ch, s, n)
  PROVE  /\ n \in Nat \ {0} /\ n <= NumClusters - 2 /\ n < NumClusters /\ NumClusters \in Nat
         /\ s[0] \in Clusters /\ ch.dir = s[0]
  <1>1. n \in Nat \ {0} /\ \A k \in 0 .. (n - 1) : s[k] \in Clusters
    BY DEF Row
  <1>2. n <= NumClusters - 2
    <2>1. n \in Nat /\ \A j, k \in 0 .. (n - 1) : s[j] = s[k] => j = k
      BY DEF Row
    <2> QED BY <1>1, <2>1, ChainFits
  <1>3. s[0] \in Clusters
    BY <1>1
  <1>4. ch.dir = s[0]
    BY DEF Row
  <1> QED BY <1>1, <1>2, <1>3, <1>4, Numbers

LEMMA LinkedWalk ==
  ASSUME NEW t, NEW ch, NEW s, NEW n, Row(t, ch, s, n), ch.flags = Linked
  PROVE  Walk(t, ch.dir)[n] = Eof /\ \A k \in 0 .. (n - 1) : Walk(t, ch.dir)[k] = s[k]
  BY WalkOf DEF Row

LEMMA ScanIs ==
  ASSUME NEW t, NEW ch, NEW s, NEW n, Row(t, ch, s, n)
  PROVE  ScanOf(t, ch) = [k \in 1 .. n |-> s[k - 1]]
  <1>1. n \in Nat /\ n > 0 /\ n < NumClusters /\ NumClusters \in Nat
    BY RowIsBounded
  <1>2. CASE ch.flags = Contiguous
    <2>1. ch.size = n /\ \A k \in 0 .. (n - 1) : s[k] = ch.dir + k
      BY <1>2 DEF Row
    <2>a. n \in {n, 1} /\ {n, 1} \subseteq Int /\ \A y \in {n, 1} : y <= n
      BY <1>1
    <2>2. Max({n, 1}) = n
      BY <2>a, MaxIs
    <2>3. ScanOf(t, ch) = [k \in 1 .. n |-> ch.dir + k - 1]
      BY <1>2, <2>1, <2>2 DEF ScanOf
    <2>4. ch.dir \in Int
      BY RowIsBounded, Numbers
    <2>5. ASSUME NEW k \in 1 .. n PROVE ch.dir + k - 1 = s[k - 1]
      <3>1. k - 1 \in 0 .. (n - 1) /\ ch.dir + k - 1 = ch.dir + (k - 1)
        BY <1>1, <2>4
      <3> QED BY <2>1, <3>1
    <2> QED BY <2>3, <2>5
  <1>3. CASE ch.flags = Linked
    <2> DEFINE nth  == Walk(t, ch.dir)
               ends == {k \in 1 .. NumClusters : nth[k] = Eof} \cup {NumClusters}
    <2>1. nth[n] = Eof /\ \A k \in 0 .. (n - 1) : nth[k] = s[k]
      BY <1>3, LinkedWalk
    <2>2. ScanOf(t, ch) = [k \in 1 .. Min(ends) |-> nth[k - 1]]
      BY <1>3, Numbers DEF ScanOf
    <2> HIDE DEF nth
    <2>3. n \in ends /\ ends \subseteq Nat
      BY <1>1, <2>1
    <2>4. ASSUME NEW y \in ends PROVE n <= y
      <3> SUFFICES ASSUME y < n PROVE FALSE
        BY <1>1
      <3>1. y \in 0 .. (n - 1) /\ nth[y] = Eof
        BY <1>1
      <3>2. s[y] \in Clusters
        BY <3>1 DEF Row
      <3> QED BY <2>1, <3>1, <3>2, Numbers
    <2> HIDE DEF ends
    <2>5. Min(ends) = n
      BY <2>3, <2>4, MinIs
    <2>6. \A k \in 1 .. n : nth[k - 1] = s[k - 1]
      BY <1>1, <2>1
    <2> QED BY <2>2, <2>5, <2>6
  <1> QED BY <1>2, <1>3 DEF Row

LEMMA EntriesAre ==
  ASSUME NEW t, NEW en, NEW ch, NEW s, NEW n, Row(t, ch, s, n)
  PROVE  EntriesOf(t, en, ch) = [p \in 0 .. (n * PerCluster - 1) |-> Seen(en, s, p)]
  <1> DEFINE clu == ScanOf(t, ch)
  <1>1. clu = [k \in 1 .. n |-> s[k - 1]] /\ n \in Nat \ {0}
    BY ScanIs, RowIsBounded
  <1>2. EntriesOf(t, en, ch) =
          [p \in 0 .. (Len(clu) * PerCluster - 1) |->
             LET c == clu[Page(p) + 1] IN IF c \in Clusters THEN en[c][Place(p)] ELSE Contents]
    BY DEF EntriesOf, Page, Place
  <1> HIDE DEF clu
  <1>3. Len(clu) = n
    BY <1>1
  <1>4. ASSUME NEW p \in 0 .. (n * PerCluster - 1)
        PROVE  (LET c == clu[Page(p) + 1] IN IF c \in Clusters THEN en[c][Place(p)] ELSE Contents)
                 = Seen(en, s, p)
    <2>1. p \in Nat /\ n * PerCluster \in Nat /\ p < n * PerCluster
      BY <1>1, SpanIs
    <2>2. Page(p) \in Nat /\ Page(p) < n
      BY <1>1, <2>1, PageIs, PageBelow
    <2>3. Page(p) + 1 \in 1 .. n /\ Page(p) \in 0 .. (n - 1) /\ (Page(p) + 1) - 1 = Page(p)
      BY <1>1, <2>2
    <2>4. clu[Page(p) + 1] = s[Page(p)] /\ s[Page(p)] \in Clusters
      BY <1>1, <2>3 DEF Row
    <2> QED BY <2>4 DEF Seen
  <1> QED BY <1>2, <1>3, <1>4

\* What a chain says of the cluster of a position.
Finds(t, ch, s, p, len) ==
  \A q \in p .. (p + len - 1) : find_location(t, ch, q) = s[Page(q)]

LEMMA FindIs ==
  ASSUME NEW t, NEW ch, NEW s, NEW n, Row(t, ch, s, n)
  PROVE  \A q \in 0 .. (n * PerCluster - 1) : find_location(t, ch, q) = s[Page(q)]
  <1> SUFFICES ASSUME NEW q \in 0 .. (n * PerCluster - 1)
               PROVE  find_location(t, ch, q) = s[Page(q)]
    OBVIOUS
  <1>1. n \in Nat /\ n < NumClusters /\ NumClusters \in Nat
    BY RowIsBounded
  <1>2. q \in Nat /\ q < n * PerCluster
    BY <1>1, SpanIs
  <1>3. Page(q) \in 0 .. (n - 1)
    BY <1>1, <1>2, PageIs, PageBelow
  <1>4. CASE ch.flags = Contiguous
    BY <1>3, <1>4 DEF Row, find_location, Page
  <1>5. CASE ch.flags = Linked
    <2> DEFINE S == {Page(q), NumClusters}
    <2>1. Page(q) \in S /\ S \subseteq Nat /\ \A y \in S : Page(q) <= y
      BY <1>1, <1>3
    <2> HIDE DEF S
    <2>2. Min(S) = Page(q)
      BY <2>1, MinIs
    <2>3. find_location(t, ch, q) = Walk(t, ch.dir)[Min(S)]
      BY <1>5, Numbers DEF find_location, Page, S
    <2> QED BY <1>3, <1>5, <2>2, <2>3, LinkedWalk
  <1> QED BY <1>4, <1>5 DEF Row

\* A copy of the chain of a directory whose clusters are s leads to the entries
\* at p: it begins where the chain does, and is not still contiguous where the
\* clusters no longer are in a row.
Leads(copy, flags, s, p, len) ==
  /\ copy.dir = s[0] /\ copy.flags \in {Linked, Contiguous}
  /\ copy.flags = Linked => flags = Linked
  /\ copy.flags = Contiguous =>
       \A q \in p .. (p + len - 1) : s[Page(q)] = copy.dir + Page(q)

LEMMA LeadsFinds ==
  ASSUME NEW t, NEW ch, NEW s, NEW n, Row(t, ch, s, n), NEW p \in Nat, NEW len \in Nat,
         p + len <= n * PerCluster, NEW copy, Leads(copy, ch.flags, s, p, len)
  PROVE  Finds(t, copy, s, p, len)
  <1> SUFFICES ASSUME NEW q \in p .. (p + len - 1)
               PROVE  find_location(t, copy, q) = s[Page(q)]
    BY DEF Finds
  <1>1. CASE copy.flags = Contiguous
    BY <1>1 DEF Leads, find_location, Page
  <1>2. CASE copy.flags = Linked
    <2>1. ch.flags = Linked /\ copy.dir = ch.dir
      BY <1>2, RowIsBounded DEF Leads
    <2>2. q \in 0 .. (n * PerCluster - 1)
      BY RowIsBounded, SpanIs
    <2>3. find_location(t, ch, q) = find_location(t, copy, q)
      BY <1>2, <2>1 DEF find_location
    <2> QED BY <2>2, <2>3, FindIs
  <1> QED BY <1>1, <1>2 DEF Leads

\* The chain itself leads everywhere.
LEMMA ChainLeads ==
  ASSUME NEW t, NEW ch, NEW s, NEW n, Row(t, ch, s, n), NEW p \in Nat, NEW len \in Nat,
         p + len <= n * PerCluster
  PROVE  Leads(ch, ch.flags, s, p, len)
  <1>1. ASSUME NEW q \in p .. (p + len - 1) PROVE Page(q) \in 0 .. (n - 1)
    <2>1. q \in Nat /\ q < n * PerCluster /\ n \in Nat
      BY RowIsBounded, SpanIs
    <2> QED BY <2>1, PageIs, PageBelow
  <1> QED BY <1>1 DEF Row, Leads

-------------------------------------------------------------------------------
(* The directories side by side *)

Span(ch) == ch.size * PerCluster

\* The clusters cells[d] are those of the directory d: taken, and nobody else's.
Laid(t, D, cells, tk, ot) ==
  /\ ot \subseteq tk /\ tk \subseteq Clusters
  /\ \A d \in Dirs : D[d] # NoChain =>
       /\ Row(t, D[d], cells[d], D[d].size)
       /\ \A k \in 0 .. (D[d].size - 1) : cells[d][k] \in tk \ ot
       /\ \A e \in Dirs \ {d} : D[e] # NoChain =>
            \A k \in 0 .. (D[d].size - 1), j \in 0 .. (D[e].size - 1) : cells[d][k] # cells[e][j]

\* The entries of each directory, in the order of a scan.
View(en, D, cells) ==
  [d \in Dirs |-> [p \in 0 .. (Span(D[d]) - 1) |-> Seen(en, cells[d], p)]]

\* The same with some of one directory's written anew.
Over(v, d, A) ==
  [v EXCEPT ![d] = [p \in DOMAIN v[d] |-> IF p \in DOMAIN A THEN A[p] ELSE v[d][p]]]

Entries == [type : {"unused", "deleted", "data", "file", "ext"}, of : Files \cup {NoFile},
            n : 0 .. PerCluster]
DentsType == [Clusters -> [0 .. (PerCluster - 1) -> Entries]]

LEMMA SpanNat ==
  ASSUME NEW ch, ch.size \in Nat
  PROVE  Span(ch) \in Nat /\ (ch.size > 0 => Span(ch) > 0)
  <1> DEFINE n == ch.size
  <1>1. n \in Nat
    OBVIOUS
  <1> HIDE DEF n
  <1>2. n * PerCluster \in Nat /\ (n > 0 => n * PerCluster > 0)
    BY <1>1, SpanIs
  <1> QED BY <1>2 DEF n, Span

LEMMA LaidRow ==
  ASSUME NEW t, NEW D, NEW cells, NEW tk, NEW ot, Laid(t, D, cells, tk, ot),
         NEW d \in Dirs, D[d] # NoChain
  PROVE  /\ Row(t, D[d], cells[d], D[d].size)
         /\ D[d].size \in Nat \ {0} /\ D[d].size <= NumClusters - 2
         /\ Span(D[d]) \in Nat /\ Span(D[d]) > 0
         /\ D[d].dir \in Clusters /\ cells[d][0] = D[d].dir
         /\ \A p \in 0 .. (Span(D[d]) - 1) : /\ p \in Nat /\ Page(p) \in 0 .. (D[d].size - 1)
                                             /\ cells[d][Page(p)] \in Clusters
                                             /\ Place(p) \in 0 .. (PerCluster - 1)
  <1>1. Row(t, D[d], cells[d], D[d].size)
    BY DEF Laid
  <1>2. /\ D[d].size \in Nat \ {0} /\ D[d].size <= NumClusters - 2
        /\ D[d].dir \in Clusters /\ cells[d][0] = D[d].dir
    BY <1>1, RowIsBounded
  <1>3. Span(D[d]) \in Nat /\ Span(D[d]) > 0
    BY <1>2, SpanNat
  <1>4. ASSUME NEW p \in 0 .. (Span(D[d]) - 1)
        PROVE  /\ p \in Nat /\ Page(p) \in 0 .. (D[d].size - 1)
               /\ cells[d][Page(p)] \in Clusters
               /\ Place(p) \in 0 .. (PerCluster - 1)
    <2>1. p \in Nat /\ p < D[d].size * PerCluster
      BY <1>3 DEF Span
    <2>2. Page(p) \in Nat /\ Place(p) \in 0 .. (PerCluster - 1) /\ Page(p) < D[d].size
      BY <1>2, <2>1, PageIs, PageBelow
    <2>3. Page(p) \in 0 .. (D[d].size - 1)
      BY <1>2, <2>2
    <2>4. cells[d][Page(p)] \in Clusters
      BY <1>1, <2>3 DEF Row
    <2> QED BY <2>1, <2>2, <2>3, <2>4
  <1> QED BY <1>1, <1>2, <1>3, <1>4

LEMMA CellsDiffer ==
  ASSUME NEW t, NEW D, NEW cells, NEW tk, NEW ot, Laid(t, D, cells, tk, ot),
         NEW d \in Dirs, D[d] # NoChain, NEW e \in Dirs, D[e] # NoChain,
         NEW p \in 0 .. (Span(D[d]) - 1), NEW q \in 0 .. (Span(D[e]) - 1),
         cells[d][Page(p)] = cells[e][Page(q)], Place(p) = Place(q)
  PROVE  d = e /\ p = q
  <1>1. /\ p \in Nat /\ Page(p) \in 0 .. (D[d].size - 1)
        /\ q \in Nat /\ Page(q) \in 0 .. (D[e].size - 1)
    BY LaidRow
  <1>2. d = e
    BY <1>1 DEF Laid
  <1>3. \A j, k \in 0 .. (D[d].size - 1) : cells[d][j] = cells[d][k] => j = k
    BY LaidRow DEF Row
  <1>4. Page(p) = Page(q)
    BY <1>1, <1>2, <1>3
  <1> QED BY <1>1, <1>2, <1>4, PlaceTells

NoSpan == Span(NoChain) = 0
LEMMA NoChainHasNone == NoSpan
  <1>1. NoChain.size = 0
    BY DEF NoChain
  <1> QED BY <1>1, SpanIs DEF NoSpan, Span

\* What is written, by whatever chain finds the place.
WrittenBy(t, ch, s, n, A) ==
  /\ DOMAIN A \subseteq 0 .. (n - 1)
  /\ \A p \in DOMAIN A : find_location(t, ch, p) = s[Page(p)] /\ A[p] \in Entries

LEMMA WrittenIs ==
  ASSUME NEW t, NEW D, NEW cells, NEW tk, NEW ot, Laid(t, D, cells, tk, ot),
         NEW en \in DentsType, NEW d \in Dirs, D[d] # NoChain, NEW ch, NEW A,
         WrittenBy(t, ch, cells[d], Span(D[d]), A)
  PROVE  /\ Written(t, en, ch, A) \in DentsType
         /\ View(Written(t, en, ch, A), D, cells) = Over(View(en, D, cells), d, A)
  <1> DEFINE W == Written(t, en, ch, A)
             here(c, i) == {p \in DOMAIN A : find_location(t, ch, p) = c /\ Place(p) = i}
  <1>1. /\ \A p \in DOMAIN A : p \in 0 .. (Span(D[d]) - 1)
        /\ \A p \in DOMAIN A : find_location(t, ch, p) = cells[d][Page(p)] /\ A[p] \in Entries
    BY DEF WrittenBy
  <1>2. W = [c \in Clusters |-> [i \in 0 .. (PerCluster - 1) |->
              IF here(c, i) = {} THEN en[c][i] ELSE A[Max(here(c, i))]]]
    BY DEF Written, Place
  <1>3. ASSUME NEW c \in Clusters, NEW i \in 0 .. (PerCluster - 1), NEW p \in here(c, i)
        PROVE  W[c][i] = A[p] /\ p \in DOMAIN A
    <2>1. p \in DOMAIN A /\ find_location(t, ch, p) = c /\ Place(p) = i
      OBVIOUS
    <2>2. ASSUME NEW q \in here(c, i) PROVE q = p
      <3>1. q \in DOMAIN A /\ find_location(t, ch, q) = c /\ Place(q) = i
        OBVIOUS
      <3>2. cells[d][Page(q)] = cells[d][Page(p)] /\ Place(q) = Place(p)
            /\ q \in 0 .. (Span(D[d]) - 1) /\ p \in 0 .. (Span(D[d]) - 1)
        BY <1>1, <2>1, <3>1
      <3> QED BY <3>2, CellsDiffer
    <2>3. here(c, i) = {p}
      <3> HIDE DEF here
      <3> QED BY <2>2, <1>3
    <2>4. p \in Nat
      BY <1>1, <2>1, LaidRow
    <2> HIDE DEF here
    <2> DEFINE S == {p}
    <2>5. p \in S /\ S \subseteq Int /\ \A y \in S : y <= p
      BY <2>4
    <2> HIDE DEF S
    <2>6. Max(S) = p
      BY <2>5, MaxIs
    <2>7. Max(here(c, i)) = p /\ here(c, i) # {}
      BY <2>3, <2>6 DEF S
    <2>8. W[c][i] = IF here(c, i) = {} THEN en[c][i] ELSE A[Max(here(c, i))]
      BY <1>2
    <2> QED BY <2>1, <2>7, <2>8
  <1>4. ASSUME NEW c \in Clusters, NEW i \in 0 .. (PerCluster - 1), here(c, i) = {}
        PROVE  W[c][i] = en[c][i]
    BY <1>2, <1>4
  <1>5. W \in DentsType
    <2>1. ASSUME NEW c \in Clusters, NEW i \in 0 .. (PerCluster - 1) PROVE W[c][i] \in Entries
      <3>1. CASE here(c, i) = {}
        BY <1>4, <3>1 DEF DentsType
      <3>2. CASE here(c, i) # {}
        <4>1. PICK p : p \in here(c, i)
          BY <3>2
        <4> HIDE DEF here
        <4> QED BY <1>1, <1>3, <4>1
      <3> QED BY <3>1, <3>2
    <2>2. W = [c \in Clusters |-> [i \in 0 .. (PerCluster - 1) |-> W[c][i]]]
      BY <1>2
    <2> HIDE DEF W
    <2> QED BY <2>1, <2>2 DEF DentsType
  <1>6. ASSUME NEW e \in Dirs, NEW p \in 0 .. (Span(D[e]) - 1)
        PROVE  Seen(W, cells[e], p) =
                 IF e = d /\ p \in DOMAIN A THEN A[p] ELSE Seen(en, cells[e], p)
    <2> DEFINE c == cells[e][Page(p)]
               i == Place(p)
    <2>1. D[e] # NoChain
      <3> SUFFICES ASSUME D[e] = NoChain PROVE FALSE
        OBVIOUS
      <3>1. Span(D[e]) = 0
        BY NoChainHasNone DEF NoSpan
      <3> QED BY <3>1
    <2>2. c \in Clusters /\ i \in 0 .. (PerCluster - 1)
      BY <2>1, LaidRow
    <2>3. CASE e = d /\ p \in DOMAIN A
      <3>1. p \in here(c, i)
        BY <1>1, <2>3
      <3> HIDE DEF W, here, c, i
      <3>2. W[c][i] = A[p]
        BY <1>3, <2>2, <3>1
      <3> QED BY <2>3, <3>2 DEF Seen, c, i
    <2>4. CASE ~(e = d /\ p \in DOMAIN A)
      <3>1. here(c, i) = {}
        <4> SUFFICES ASSUME NEW q \in here(c, i) PROVE FALSE
          OBVIOUS
        <4>1. q \in DOMAIN A /\ find_location(t, ch, q) = c /\ Place(q) = i
          OBVIOUS
        <4>2. q \in 0 .. (Span(D[d]) - 1) /\ cells[d][Page(q)] = cells[e][Page(p)]
              /\ Place(q) = Place(p)
          BY <1>1, <4>1
        <4>3. d = e /\ q = p
          BY <2>1, <4>2, CellsDiffer
        <4> QED BY <2>4, <4>1, <4>3
      <3> HIDE DEF W, here, c, i
      <3>2. W[c][i] = en[c][i]
        BY <1>4, <2>2, <3>1
      <3> QED BY <2>4, <3>2 DEF Seen, c, i
    <2> QED BY <2>3, <2>4
  <1> HIDE DEF W
  <1>7. View(W, D, cells) = Over(View(en, D, cells), d, A)
    BY <1>6 DEF View, Over
  <1> QED BY <1>5, <1>7 DEF W

-------------------------------------------------------------------------------
(* The sets in the directories *)

IsView(v, D) ==
  /\ DOMAIN v = Dirs
  /\ \A d \in Dirs : Span(D[d]) \in Nat /\ DOMAIN v[d] = 0 .. (Span(D[d]) - 1)

\* No set can lie behind the first unused entry.
UnusedLast(es, n) ==
  \A p, q \in 0 .. (n - 1) : p < q /\ es[p].type = "unused" => es[q].type = "unused"

\* A file's set is whole, and whoever has the inode in memory finds it.
Stands(v, D, cells, x, f, at) ==
  /\ x.in \in Dirs /\ D[x.in] # NoChain /\ x.len \in Lengths /\ at \in Nat
  /\ at + x.len <= Span(D[x.in])
  /\ \A k \in 0 .. (x.len - 1) : v[x.in][at + k] = EntryOf(f, k, x.len)
  /\ x.st = "cached" =>
       x.entry = at /\ Leads(x.dir, D[x.in].flags, cells[x.in], at, x.len)

\* Every entry that is not empty is some file's.
Tidy(v, D, F, at, d) ==
  /\ \A p \in 0 .. (Span(D[d]) - 1) : ~IsEmpty(v[d][p]) =>
       \E f \in Files : F[f].st # "absent" /\ F[f].in = d /\ p \in at[f] .. (at[f] + F[f].len - 1)
  /\ UnusedLast(v[d], Span(D[d]))

Holding(v, D, cells, F, at) ==
  /\ \A f \in Files : F[f].st # "absent" => Stands(v, D, cells, F[f], f, at[f])
  /\ \A d \in Dirs : D[d] # NoChain => Tidy(v, D, F, at, d)

\* Room for a set: empty entries, and no unused one before them.
Room(v, D, d, p, len) ==
  /\ p \in Nat /\ p + len <= Span(D[d])
  /\ \A q \in p .. (p + len - 1) : IsEmpty(v[d][q])
  /\ \A q \in 0 .. (p - 1) : v[d][q].type # "unused"

SetOf(f, p, len) == [q \in p .. (p + len - 1) |-> EntryOf(f, q - p, len)]
Gone(first, last) == [q \in first .. last |-> Deleted]

LEMMA EntryKinds ==
  /\ \A f, k, len : EntryOf(f, k, len).of = f /\ EntryOf(f, k, len).type \in {"file", "ext"}
                    /\ ~IsEmpty(EntryOf(f, k, len)) /\ EntryOf(f, k, len).type # "unused"
  /\ IsEmpty(Deleted) /\ Deleted.type = "deleted" /\ Deleted.type # "unused"
  /\ IsEmpty(Unused) /\ Unused.type = "unused"
  /\ \A e : e.type = "unused" => IsEmpty(e)
  /\ \A e : ~IsEmpty(e) => e.type # "unused"
  BY DEF EntryOf, IsEmpty, Deleted, Unused

LEMMA LengthsNat ==
  /\ PerCluster \in Nat \ {0}
  /\ \A len \in Lengths : len \in Nat \ {0} /\ len <= PerCluster
  BY DirAssumption

LEMMA OverIs ==
  ASSUME NEW v, NEW D, IsView(v, D), NEW d \in Dirs, NEW A
  PROVE  /\ IsView(Over(v, d, A), D)
         /\ \A e \in Dirs \ {d} : Over(v, d, A)[e] = v[e]
         /\ \A p \in 0 .. (Span(D[d]) - 1) :
              Over(v, d, A)[d][p] = IF p \in DOMAIN A THEN A[p] ELSE v[d][p]
  BY DEF IsView, Over

\* Whatever an inode becomes that stands for the same set.
LEMMA Renoded ==
  ASSUME NEW v, NEW D, NEW cells, NEW F, NEW at, Holding(v, D, cells, F, at), DOMAIN F = Files,
         NEW f \in Files, F[f].st # "absent",
         NEW x, x.st # "absent", x.in = F[f].in, x.len = F[f].len,
         x.st = "cached" => x.entry = at[f]
                            /\ Leads(x.dir, D[x.in].flags, cells[x.in], at[f], x.len)
  PROVE  Holding(v, D, cells, [F EXCEPT ![f] = x], at)
  <1> DEFINE F2 == [F EXCEPT ![f] = x]
  <1>1. F2[f] = x /\ \A g \in Files \ {f} : F2[g] = F[g]
    OBVIOUS
  <1> HIDE DEF F2
  <1>2. ASSUME NEW g \in Files, F2[g].st # "absent" PROVE Stands(v, D, cells, F2[g], g, at[g])
    <2>1. CASE g = f
      <3>1. Stands(v, D, cells, F[f], f, at[f])
        BY DEF Holding
      <3>2. Stands(v, D, cells, x, f, at[f])
        BY <3>1 DEF Stands
      <3> QED BY <1>1, <2>1, <3>2
    <2>2. CASE g # f
      BY <1>1, <1>2, <2>2 DEF Holding
    <2> QED BY <2>1, <2>2
  <1>3. ASSUME NEW d \in Dirs, D[d] # NoChain PROVE Tidy(v, D, F2, at, d)
    <2>1. Tidy(v, D, F, at, d)
      BY <1>3 DEF Holding
    <2>2. \A g \in Files : F[g].st # "absent" => F2[g].st # "absent" /\ F2[g].in = F[g].in
                                                /\ F2[g].len = F[g].len
      BY <1>1
    <2> QED BY <2>1, <2>2 DEF Tidy
  <1> QED BY <1>2, <1>3 DEF Holding, F2

\* A set is written where there is room.
LEMMA Put ==
  ASSUME NEW v, NEW D, NEW cells, NEW F, NEW at, Holding(v, D, cells, F, at),
         IsView(v, D), DOMAIN F = Files, DOMAIN at = Files,
         NEW f \in Files, F[f].st = "absent", NEW d \in Dirs, D[d] # NoChain,
         NEW len \in Lengths, NEW p, Room(v, D, d, p, len), NEW x,
         x.st = "cached", x.in = d, x.len = len, x.entry = p,
         Leads(x.dir, D[d].flags, cells[d], p, len)
  PROVE  Holding(Over(v, d, SetOf(f, p, len)), D, cells, [F EXCEPT ![f] = x], [at EXCEPT ![f] = p])
  <1> DEFINE F2 == [F EXCEPT ![f] = x]
             at2 == [at EXCEPT ![f] = p]
             A == SetOf(f, p, len)
             v2 == Over(v, d, A)
  <1>1. F2[f] = x /\ at2[f] = p /\ \A g \in Files \ {f} : F2[g] = F[g] /\ at2[g] = at[g]
    OBVIOUS
  <1>2. /\ DOMAIN A = p .. (p + len - 1)
        /\ \A q \in p .. (p + len - 1) : A[q] = EntryOf(f, q - p, len)
    BY DEF SetOf
  <1>3. len \in Nat \ {0} /\ p \in Nat /\ p + len <= Span(D[d]) /\ Span(D[d]) \in Nat
    BY LengthsNat DEF Room, IsView
  <1> HIDE DEF F2, at2, A
  <1>4. /\ \A e \in Dirs \ {d} : v2[e] = v[e]
        /\ \A q \in 0 .. (Span(D[d]) - 1) : v2[d][q] = IF q \in p .. (p + len - 1)
                                                       THEN EntryOf(f, q - p, len) ELSE v[d][q]
    <2>1. /\ \A e \in Dirs \ {d} : v2[e] = v[e]
          /\ \A q \in 0 .. (Span(D[d]) - 1) : v2[d][q] = IF q \in DOMAIN A THEN A[q] ELSE v[d][q]
      BY OverIs
    <2> QED BY <1>2, <2>1
  <1> HIDE DEF v2
  <1>5. ASSUME NEW g \in Files, F2[g].st # "absent" PROVE Stands(v2, D, cells, F2[g], g, at2[g])
    <2>1. CASE g = f
      <3>1. ASSUME NEW k \in 0 .. (len - 1) PROVE v2[d][p + k] = EntryOf(f, k, len)
        <4>1. p + k \in 0 .. (p + len - 1) /\ p + k \in p .. (p + len - 1) /\ (p + k) - p = k
          BY <1>3
        <4>2. p + k \in 0 .. (Span(D[d]) - 1)
          BY <1>3, <4>1
        <4> QED BY <1>4, <4>1, <4>2
      <3> QED BY <1>1, <1>3, <2>1, <3>1 DEF Stands
    <2>2. CASE g # f
      <3> DEFINE n == F[g].len
      <3>1. F2[g] = F[g] /\ at2[g] = at[g] /\ Stands(v, D, cells, F[g], g, at[g])
        BY <1>1, <1>5, <2>2 DEF Holding
      <3>2. /\ F[g].in \in Dirs /\ n \in Nat /\ at[g] \in Nat /\ at[g] + n <= Span(D[F[g].in])
            /\ \A k \in 0 .. (n - 1) : v[F[g].in][at[g] + k] = EntryOf(g, k, n)
        BY <3>1, LengthsNat DEF Stands
      <3> HIDE DEF n
      <3>3. ASSUME NEW k \in 0 .. (n - 1) PROVE v2[F[g].in][at[g] + k] = EntryOf(g, k, n)
        <4>1. CASE F[g].in # d
          BY <1>4, <3>2, <4>1
        <4>2. CASE F[g].in = d
          <5>1. at[g] + k \in 0 .. (Span(D[d]) - 1)
            BY <1>3, <3>2, <4>2
          <5>2. at[g] + k \notin p .. (p + len - 1)
            BY <3>2, <4>2, EntryKinds DEF Room
          <5> QED BY <1>4, <3>2, <4>2, <5>1, <5>2
        <4> QED BY <4>1, <4>2
      <3> QED BY <3>1, <3>3 DEF Stands, n
    <2> QED BY <2>1, <2>2
  <1>6. ASSUME NEW e \in Dirs, D[e] # NoChain PROVE Tidy(v2, D, F2, at2, e)
    <2>1. Tidy(v, D, F, at, e)
      BY <1>6 DEF Holding
    <2>2. ASSUME NEW q \in 0 .. (Span(D[e]) - 1), ~IsEmpty(v2[e][q])
          PROVE  \E g \in Files : F2[g].st # "absent" /\ F2[g].in = e
                                  /\ q \in at2[g] .. (at2[g] + F2[g].len - 1)
      <3>1. CASE e = d /\ q \in p .. (p + len - 1)
        <4>1. F2[f].st # "absent" /\ F2[f].in = e /\ q \in at2[f] .. (at2[f] + F2[f].len - 1)
          BY <1>1, <3>1
        <4> QED BY <4>1
      <3>2. CASE ~(e = d /\ q \in p .. (p + len - 1))
        <4>1. v2[e][q] = v[e][q]
          BY <1>4, <3>2
        <4>2. PICK g \in Files : F[g].st # "absent" /\ F[g].in = e
                                 /\ q \in at[g] .. (at[g] + F[g].len - 1)
          BY <2>1, <2>2, <4>1 DEF Tidy
        <4>3. g # f
          BY <4>2
        <4> QED BY <1>1, <4>2, <4>3
      <3> QED BY <3>1, <3>2
    <2>3. ASSUME NEW i \in 0 .. (Span(D[e]) - 1), NEW j \in 0 .. (Span(D[e]) - 1), i < j,
                 v2[e][i].type = "unused"
          PROVE  v2[e][j].type = "unused"
      <3>1. CASE e # d
        BY <1>4, <2>1, <2>3, <3>1 DEF Tidy, UnusedLast
      <3>2. CASE e = d
        <4>1. i \notin p .. (p + len - 1) /\ v[d][i].type = "unused"
          BY <1>4, <2>3, <3>2, EntryKinds
        <4>2. v[d][j].type = "unused"
          BY <2>1, <2>3, <3>2, <4>1 DEF Tidy, UnusedLast
        <4>3. i \notin 0 .. (p - 1)
          BY <4>1 DEF Room
        <4>4. j \notin p .. (p + len - 1)
          <5>1. i \in Nat /\ j \in Nat
            BY DEF IsView
          <5> QED BY <1>3, <2>3, <4>1, <4>3, <5>1
        <4> QED BY <1>4, <3>2, <4>2, <4>4
      <3> QED BY <3>1, <3>2
    <2> QED BY <2>2, <2>3 DEF Tidy, UnusedLast
  <1>7. Holding(v2, D, cells, F2, at2)
    BY <1>5, <1>6 DEF Holding
  <1> QED BY <1>7 DEF v2, F2, at2, A

\* A set is deleted.
LEMMA Drop ==
  ASSUME NEW v, NEW D, NEW cells, NEW F, NEW at, Holding(v, D, cells, F, at),
         IsView(v, D), DOMAIN F = Files, NEW f \in Files, F[f].st # "absent",
         NEW x, x.st = "absent"
  PROVE  Holding(Over(v, F[f].in, Gone(at[f], at[f] + F[f].len - 1)), D, cells,
                 [F EXCEPT ![f] = x], at)
  <1> DEFINE F2 == [F EXCEPT ![f] = x]
             d == F[f].in
             p == at[f]
             len == F[f].len
             A == Gone(p, p + len - 1)
             v2 == Over(v, d, A)
  <1>1. F2[f] = x /\ \A g \in Files \ {f} : F2[g] = F[g]
    OBVIOUS
  <1>2. DOMAIN A = p .. (p + len - 1) /\ \A q \in p .. (p + len - 1) : A[q] = Deleted
    BY DEF Gone
  <1>3. /\ d \in Dirs /\ len \in Nat \ {0} /\ p \in Nat /\ p + len <= Span(D[d])
        /\ Span(D[d]) \in Nat
        /\ \A k \in 0 .. (len - 1) : v[d][p + k] = EntryOf(f, k, len)
    BY LengthsNat DEF Holding, Stands, IsView
  <1> HIDE DEF F2, A, d, p, len
  <1>a. \A q \in p .. (p + len - 1) : v[d][q].of = f /\ v[d][q].type # "unused"
    <2> TAKE q \in p .. (p + len - 1)
    <2>1. q - p \in 0 .. (len - 1) /\ p + (q - p) = q
      BY <1>3
    <2> QED BY <1>3, <2>1, EntryKinds
  <1>4. /\ \A e \in Dirs \ {d} : v2[e] = v[e]
        /\ \A q \in 0 .. (Span(D[d]) - 1) :
             v2[d][q] = IF q \in p .. (p + len - 1) THEN Deleted ELSE v[d][q]
    BY <1>2, <1>3, OverIs
  <1> HIDE DEF v2
  <1>5. ASSUME NEW g \in Files, F2[g].st # "absent" PROVE Stands(v2, D, cells, F2[g], g, at[g])
    <2>2. g # f
      BY <1>1, <1>5
    <2> DEFINE n == F[g].len
    <2>3. F2[g] = F[g] /\ Stands(v, D, cells, F[g], g, at[g])
      BY <1>1, <1>5, <2>2 DEF Holding
    <2>4. /\ F[g].in \in Dirs /\ n \in Nat /\ at[g] \in Nat /\ at[g] + n <= Span(D[F[g].in])
          /\ \A k \in 0 .. (n - 1) : v[F[g].in][at[g] + k] = EntryOf(g, k, n)
      BY <2>3, LengthsNat DEF Stands
    <2> HIDE DEF n
    <2>5. ASSUME NEW k \in 0 .. (n - 1) PROVE v2[F[g].in][at[g] + k] = EntryOf(g, k, n)
      <3>1. CASE F[g].in # d
        BY <1>4, <2>4, <3>1
      <3>2. CASE F[g].in = d
        <4>1. at[g] + k \in 0 .. (Span(D[d]) - 1)
          BY <1>3, <2>4, <3>2
        <4>2. at[g] + k \notin p .. (p + len - 1)
          BY <1>a, <2>2, <2>4, <3>2, EntryKinds
        <4> QED BY <1>4, <2>4, <3>2, <4>1, <4>2
      <3> QED BY <3>1, <3>2
    <2> QED BY <2>3, <2>5 DEF Stands, n
  <1>6. ASSUME NEW e \in Dirs, D[e] # NoChain PROVE Tidy(v2, D, F2, at, e)
    <2>1. Tidy(v, D, F, at, e)
      BY <1>6 DEF Holding
    <2>2. ASSUME NEW q \in 0 .. (Span(D[e]) - 1), ~IsEmpty(v2[e][q])
          PROVE  \E g \in Files : F2[g].st # "absent" /\ F2[g].in = e
                                  /\ q \in at[g] .. (at[g] + F2[g].len - 1)
      <3>1. ~(e = d /\ q \in p .. (p + len - 1))
        BY <1>4, <2>2, EntryKinds
      <3>2. v2[e][q] = v[e][q]
        BY <1>4, <3>1
      <3>3. PICK g \in Files : F[g].st # "absent" /\ F[g].in = e
                               /\ q \in at[g] .. (at[g] + F[g].len - 1)
        BY <2>1, <2>2, <3>2 DEF Tidy
      <3>4. g # f
        BY <3>1, <3>3 DEF d, p, len
      <3> QED BY <1>1, <3>3, <3>4
    <2>3. ASSUME NEW i \in 0 .. (Span(D[e]) - 1), NEW j \in 0 .. (Span(D[e]) - 1), i < j,
                 v2[e][i].type = "unused"
          PROVE  v2[e][j].type = "unused"
      <3>1. CASE e # d
        BY <1>4, <2>1, <2>3, <3>1 DEF Tidy, UnusedLast
      <3>2. CASE e = d
        <4>1. i \notin p .. (p + len - 1) /\ v[d][i].type = "unused"
          BY <1>4, <2>3, <3>2, EntryKinds
        <4>2. v[d][j].type = "unused"
          BY <2>1, <2>3, <3>2, <4>1 DEF Tidy, UnusedLast
        <4>3. j \notin p .. (p + len - 1)
          BY <1>a, <4>2
        <4> QED BY <1>4, <3>2, <4>2, <4>3
      <3> QED BY <3>1, <3>2
    <2> QED BY <2>2, <2>3 DEF Tidy, UnusedLast
  <1>7. Holding(v2, D, cells, F2, at)
    BY <1>5, <1>6 DEF Holding
  <1> QED BY <1>7 DEF v2, F2, A, d, p, len

\* A directory that grows keeps what it holds.
Extends(v, D, cells, v2, D2, cells2, d) ==
  /\ \A e \in Dirs \ {d} : D2[e] = D[e] /\ cells2[e] = cells[e] /\ v2[e] = v[e]
  /\ D[d] # NoChain /\ D2[d] # NoChain /\ Span(D[d]) <= Span(D2[d])
  /\ D[d].flags = Linked => D2[d].flags = Linked
  /\ cells2[d][0] = cells[d][0]
  /\ \A p \in 0 .. (Span(D[d]) - 1) :
       v2[d][p] = v[d][p] /\ cells2[d][Page(p)] = cells[d][Page(p)]
  /\ \A p \in Span(D[d]) .. (Span(D2[d]) - 1) : v2[d][p].type = "unused"

LEMMA Extended ==
  ASSUME NEW v, NEW D, NEW cells, NEW F, NEW at, Holding(v, D, cells, F, at), IsView(v, D),
         NEW v2, NEW D2, NEW cells2, IsView(v2, D2), NEW d \in Dirs,
         Extends(v, D, cells, v2, D2, cells2, d)
  PROVE  Holding(v2, D2, cells2, F, at)
  <1>1. /\ \A e \in Dirs \ {d} : D2[e] = D[e] /\ cells2[e] = cells[e] /\ v2[e] = v[e]
        /\ D[d] # NoChain /\ D2[d] # NoChain /\ Span(D[d]) <= Span(D2[d])
        /\ D[d].flags = Linked => D2[d].flags = Linked
        /\ cells2[d][0] = cells[d][0]
        /\ \A p \in 0 .. (Span(D[d]) - 1) :
             v2[d][p] = v[d][p] /\ cells2[d][Page(p)] = cells[d][Page(p)]
        /\ \A p \in Span(D[d]) .. (Span(D2[d]) - 1) : v2[d][p].type = "unused"
    BY DEF Extends
  <1>2. Span(D[d]) \in Nat /\ Span(D2[d]) \in Nat
    BY DEF IsView
  <1>3. ASSUME NEW f \in Files, F[f].st # "absent" PROVE Stands(v2, D2, cells2, F[f], f, at[f])
    <2>1. Stands(v, D, cells, F[f], f, at[f])
      BY <1>3 DEF Holding
    <2>2. CASE F[f].in # d
      BY <1>1, <2>1, <2>2 DEF Stands
    <2>3. CASE F[f].in = d
      <3> DEFINE p == at[f]
                 len == F[f].len
      <3>1. /\ len \in Nat \ {0} /\ p \in Nat /\ p + len <= Span(D[d])
            /\ \A k \in 0 .. (len - 1) : v[d][p + k] = EntryOf(f, k, len)
            /\ F[f].st = "cached" => Leads(F[f].dir, D[d].flags, cells[d], p, len)
        BY <2>1, <2>3, LengthsNat DEF Stands
      <3> HIDE DEF p, len
      <3>2. \A k \in 0 .. (len - 1) : v2[d][p + k] = EntryOf(f, k, len)
        <4> TAKE k \in 0 .. (len - 1)
        <4>1. p + k \in 0 .. (Span(D[d]) - 1)
          BY <1>2, <3>1
        <4> QED BY <1>1, <3>1, <4>1
      <3>3. p + len <= Span(D2[d])
        BY <1>1, <1>2, <3>1
      <3>4. F[f].st = "cached" => Leads(F[f].dir, D2[d].flags, cells2[d], p, len)
        <4> SUFFICES ASSUME F[f].st = "cached"
                     PROVE  Leads(F[f].dir, D2[d].flags, cells2[d], p, len)
          OBVIOUS
        <4>1. Leads(F[f].dir, D[d].flags, cells[d], p, len)
          BY <3>1
        <4>2. \A q \in p .. (p + len - 1) : cells2[d][Page(q)] = cells[d][Page(q)]
          <5> TAKE q \in p .. (p + len - 1)
          <5>1. q \in 0 .. (Span(D[d]) - 1)
            BY <1>2, <3>1
          <5> QED BY <1>1, <5>1
        <4> QED BY <1>1, <4>1, <4>2 DEF Leads
      <3> QED BY <1>1, <2>1, <2>3, <3>2, <3>3, <3>4 DEF Stands, p, len
    <2> QED BY <2>2, <2>3
  <1>4. ASSUME NEW e \in Dirs, D2[e] # NoChain PROVE Tidy(v2, D2, F, at, e)
    <2>1. CASE e # d
      BY <1>1, <1>4, <2>1 DEF Holding, Tidy
    <2>2. CASE e = d
      <3>1. Tidy(v, D, F, at, d)
        BY <1>1 DEF Holding
      <3>2. ASSUME NEW p \in 0 .. (Span(D2[d]) - 1), ~IsEmpty(v2[d][p])
            PROVE  \E f \in Files : F[f].st # "absent" /\ F[f].in = d
                                    /\ p \in at[f] .. (at[f] + F[f].len - 1)
        <4>1. p \notin Span(D[d]) .. (Span(D2[d]) - 1)
          BY <1>1, <3>2, EntryKinds
        <4>2. p \in 0 .. (Span(D[d]) - 1)
          BY <1>2, <4>1
        <4> QED BY <1>1, <3>1, <3>2, <4>2 DEF Tidy
      <3>3. ASSUME NEW i \in 0 .. (Span(D2[d]) - 1), NEW j \in 0 .. (Span(D2[d]) - 1), i < j,
                   v2[d][i].type = "unused"
            PROVE  v2[d][j].type = "unused"
        <4>1. CASE j \in Span(D[d]) .. (Span(D2[d]) - 1)
          BY <1>1, <4>1
        <4>2. CASE j \notin Span(D[d]) .. (Span(D2[d]) - 1)
          <5>1. j \in 0 .. (Span(D[d]) - 1) /\ i \in 0 .. (Span(D[d]) - 1)
            BY <1>2, <3>3, <4>2
          <5> QED BY <1>1, <3>1, <3>3, <5>1 DEF Tidy, UnusedLast
        <4> QED BY <4>1, <4>2
      <3> QED BY <2>2, <3>2, <3>3 DEF Tidy, UnusedLast
    <2> QED BY <2>1, <2>2
  <1> QED BY <1>3, <1>4 DEF Holding

\* A directory that no file is in comes or goes.
Replaces(v, D, cells, v2, D2, cells2, d) ==
  /\ \A e \in Dirs \ {d} : D2[e] = D[e] /\ cells2[e] = cells[e] /\ v2[e] = v[e]
  /\ D2[d] # NoChain => \A p \in 0 .. (Span(D2[d]) - 1) : v2[d][p].type = "unused"

LEMMA ReplacedElsewhere ==
  ASSUME NEW v, NEW D, NEW cells, NEW F, NEW at, Holding(v, D, cells, F, at),
         NEW v2, NEW D2, NEW cells2, NEW d \in Dirs,
         Replaces(v, D, cells, v2, D2, cells2, d),
         \A f \in Files : F[f].st # "absent" => F[f].in # d
  PROVE  Holding(v2, D2, cells2, F, at)
  <1>1. ASSUME NEW f \in Files, F[f].st # "absent" PROVE Stands(v2, D2, cells2, F[f], f, at[f])
    <2>1. Stands(v, D, cells, F[f], f, at[f]) /\ F[f].in # d /\ F[f].in \in Dirs
      BY <1>1 DEF Holding, Stands
    <2> QED BY <2>1 DEF Stands, Replaces
  <1>2. ASSUME NEW e \in Dirs, D2[e] # NoChain PROVE Tidy(v2, D2, F, at, e)
    <2>1. CASE e # d
      BY <1>2, <2>1 DEF Holding, Tidy, Replaces
    <2>2. CASE e = d
      BY <1>2, <2>2, EntryKinds DEF Tidy, UnusedLast, Replaces
    <2> QED BY <2>1, <2>2
  <1> QED BY <1>1, <1>2 DEF Holding

\* The place of a set that is deleted is room, and so is what was room before.
LEMMA RoomLeft ==
  ASSUME NEW v, NEW D, NEW cells, NEW F, NEW at, Holding(v, D, cells, F, at), IsView(v, D),
         NEW f \in Files, F[f].st # "absent"
  PROVE  LET v2 == Over(v, F[f].in, Gone(at[f], at[f] + F[f].len - 1))
         IN /\ \A len \in Lengths : len <= F[f].len => Room(v2, D, F[f].in, at[f], len)
            /\ \A e \in Dirs, p \in Nat, len \in Lengths : Room(v, D, e, p, len) =>
                 /\ Room(v2, D, e, p, len)
                 /\ e = F[f].in => \A q \in p .. (p + len - 1) :
                                     q \notin at[f] .. (at[f] + F[f].len - 1)
  <1> DEFINE d == F[f].in
             b == at[f]
             n == F[f].len
             A == Gone(b, b + n - 1)
             v2 == Over(v, d, A)
  <1>1. DOMAIN A = b .. (b + n - 1) /\ \A q \in b .. (b + n - 1) : A[q] = Deleted
    BY DEF Gone
  <1>2. /\ d \in Dirs /\ n \in Nat \ {0} /\ b \in Nat /\ b + n <= Span(D[d])
        /\ Span(D[d]) \in Nat /\ D[d] # NoChain
        /\ \A k \in 0 .. (n - 1) : v[d][b + k] = EntryOf(f, k, n)
    BY LengthsNat DEF Holding, Stands, IsView
  <1>3. UnusedLast(v[d], Span(D[d]))
    BY <1>2 DEF Holding, Tidy
  <1> HIDE DEF A, d, b, n
  <1>4. \A q \in b .. (b + n - 1) : ~IsEmpty(v[d][q]) /\ v[d][q].type # "unused"
    <2> TAKE q \in b .. (b + n - 1)
    <2>1. q - b \in 0 .. (n - 1) /\ b + (q - b) = q
      BY <1>2
    <2> QED BY <1>2, <2>1, EntryKinds
  <1>5. /\ \A e \in Dirs \ {d} : v2[e] = v[e]
        /\ \A q \in 0 .. (Span(D[d]) - 1) :
             v2[d][q] = IF q \in b .. (b + n - 1) THEN Deleted ELSE v[d][q]
    <2>1. /\ \A e \in Dirs \ {d} : v2[e] = v[e]
          /\ \A q \in 0 .. (Span(D[d]) - 1) : v2[d][q] = IF q \in DOMAIN A THEN A[q] ELSE v[d][q]
      BY <1>2, OverIs
    <2> QED BY <1>1, <2>1
  <1> HIDE DEF v2
  <1>6. ASSUME NEW len \in Lengths, len <= n PROVE Room(v2, D, d, b, len)
    <2>1. len \in Nat \ {0} /\ b + len <= Span(D[d])
      BY <1>2, <1>6, LengthsNat
    <2>2. ASSUME NEW q \in b .. (b + len - 1) PROVE IsEmpty(v2[d][q])
      <3>1. q \in 0 .. (Span(D[d]) - 1) /\ q \in b .. (b + n - 1)
        BY <1>2, <1>6, <2>1
      <3> QED BY <1>5, <3>1, EntryKinds
    <2>3. ASSUME NEW q \in 0 .. (b - 1) PROVE v2[d][q].type # "unused"
      <3>1. /\ q \in 0 .. (Span(D[d]) - 1) /\ q \notin b .. (b + n - 1)
            /\ b \in 0 .. (Span(D[d]) - 1) /\ q < b /\ b \in b .. (b + n - 1)
        BY <1>2
      <3>2. v[d][q].type # "unused"
        BY <1>3, <1>4, <3>1 DEF UnusedLast
      <3> QED BY <1>5, <3>1, <3>2
    <2> QED BY <1>2, <2>1, <2>2, <2>3 DEF Room
  <1>7. ASSUME NEW e \in Dirs, NEW p \in Nat, NEW len \in Lengths, Room(v, D, e, p, len)
        PROVE  /\ Room(v2, D, e, p, len)
               /\ e = d => \A q \in p .. (p + len - 1) : q \notin b .. (b + n - 1)
    <2>1. e = d => \A q \in p .. (p + len - 1) : q \notin b .. (b + n - 1)
      BY <1>4, <1>7 DEF Room
    <2>2. /\ len \in Nat \ {0} /\ p + len <= Span(D[e]) /\ Span(D[e]) \in Nat
          /\ \A q \in p .. (p + len - 1) : IsEmpty(v[e][q])
          /\ \A q \in 0 .. (p - 1) : v[e][q].type # "unused"
      BY <1>7, LengthsNat DEF Room, IsView
    <2>3. \A q \in 0 .. (p + len - 1) : q \in 0 .. (Span(D[e]) - 1)
      BY <2>2
    <2>4. ASSUME NEW q \in p .. (p + len - 1) PROVE IsEmpty(v2[e][q])
      <3>1. q \in 0 .. (Span(D[e]) - 1) /\ IsEmpty(v[e][q])
        BY <2>2
      <3> QED BY <1>5, <3>1, EntryKinds
    <2>5. ASSUME NEW q \in 0 .. (p - 1) PROVE v2[e][q].type # "unused"
      <3>1. q \in 0 .. (Span(D[e]) - 1) /\ v[e][q].type # "unused"
        BY <2>2
      <3> QED BY <1>5, <3>1, EntryKinds
    <2> QED BY <2>1, <2>2, <2>4, <2>5 DEF Room
  <1> QED BY <1>6, <1>7 DEF v2, A, d, b, n

LEMMA OverSwaps ==
  ASSUME NEW v, NEW d, NEW e, NEW A, NEW B, d # e \/ DOMAIN A \cap DOMAIN B = {}
  PROVE  Over(Over(v, d, A), e, B) = Over(Over(v, e, B), d, A)
  <1>1. CASE d # e
    <2> DEFINE a == [p \in DOMAIN v[d] |-> IF p \in DOMAIN A THEN A[p] ELSE v[d][p]]
               b == [p \in DOMAIN v[e] |-> IF p \in DOMAIN B THEN B[p] ELSE v[e][p]]
    <2>1. Over(v, d, A) = [v EXCEPT ![d] = a] /\ Over(v, e, B) = [v EXCEPT ![e] = b]
      BY DEF Over
    <2>2. Over(v, d, A)[e] = v[e] \/ e \notin DOMAIN v
      BY <1>1, <2>1
    <2>3. Over(v, e, B)[d] = v[d] \/ d \notin DOMAIN v
      BY <1>1, <2>1
    <2>4. Over(Over(v, d, A), e, B) = [[v EXCEPT ![d] = a] EXCEPT ![e] = b]
      BY <1>1, <2>1, <2>2 DEF Over
    <2>5. Over(Over(v, e, B), d, A) = [[v EXCEPT ![e] = b] EXCEPT ![d] = a]
      BY <1>1, <2>1, <2>3 DEF Over
    <2> HIDE DEF a, b
    <2> QED BY <1>1, <2>4, <2>5
  <1>2. CASE d = e /\ DOMAIN A \cap DOMAIN B = {}
    BY <1>2 DEF Over
  <1> QED BY <1>1, <1>2

\* A set that is shortened where it stands.
LEMMA OverShorter ==
  ASSUME NEW v, NEW d, NEW f, NEW p \in Nat, NEW len \in Nat, NEW n \in Nat, len <= n
  PROVE  Over(Over(v, d, SetOf(f, p, len)), d, Gone(p + len, p + n - 1)) =
           Over(Over(v, d, Gone(p, p + n - 1)), d, SetOf(f, p, len))
  <1> DEFINE A == SetOf(f, p, len)
             B == Gone(p + len, p + n - 1)
             C == Gone(p, p + n - 1)
  <1>1. /\ DOMAIN A = p .. (p + len - 1) /\ DOMAIN B = (p + len) .. (p + n - 1)
        /\ DOMAIN C = p .. (p + n - 1)
        /\ \A q \in DOMAIN B : B[q] = Deleted
        /\ \A q \in DOMAIN C : C[q] = Deleted
    BY DEF SetOf, Gone
  <1> HIDE DEF A, B, C
  <1>2. \A q : q \in DOMAIN B => q \notin DOMAIN A /\ q \in DOMAIN C
    BY <1>1
  <1>3. \A q : q \in DOMAIN C /\ q \notin DOMAIN A => q \in DOMAIN B
    BY <1>1
  <1>4. \A q : (IF q \in DOMAIN B THEN B[q] ELSE IF q \in DOMAIN A THEN A[q] ELSE v[d][q])
               = (IF q \in DOMAIN A THEN A[q] ELSE IF q \in DOMAIN C THEN C[q] ELSE v[d][q])
    BY <1>1, <1>2, <1>3
  <1>5. Over(Over(v, d, A), d, B) = Over(Over(v, d, C), d, A)
    BY <1>4 DEF Over
  <1> QED BY <1>5 DEF A, B, C

-------------------------------------------------------------------------------
(* A set read and written through a chain that leads to it *)

LEMMA ViewIs ==
  ASSUME NEW t, NEW D, NEW cells, NEW tk, NEW ot, Laid(t, D, cells, tk, ot), NEW en
  PROVE  /\ IsView(View(en, D, cells), D)
         /\ \A d \in Dirs : \A p \in 0 .. (Span(D[d]) - 1) :
              View(en, D, cells)[d][p] = Seen(en, cells[d], p)
  <1>1. ASSUME NEW d \in Dirs PROVE Span(D[d]) \in Nat
    <2>1. CASE D[d] = NoChain
      BY <2>1, NoChainHasNone DEF NoSpan
    <2>2. CASE D[d] # NoChain
      BY <2>2, LaidRow
    <2> QED BY <2>1, <2>2
  <1> QED BY <1>1 DEF IsView, View

LEMMA StandsFacts ==
  ASSUME NEW v, NEW D, NEW cells, NEW F, NEW at, Holding(v, D, cells, F, at),
         NEW f \in Files, F[f].st # "absent"
  PROVE  /\ F[f].in \in Dirs /\ D[F[f].in] # NoChain /\ F[f].len \in Lengths
         /\ F[f].len \in Nat \ {0} /\ F[f].len <= PerCluster /\ at[f] \in Nat
         /\ at[f] + F[f].len <= Span(D[F[f].in])
         /\ \A k \in 0 .. (F[f].len - 1) : v[F[f].in][at[f] + k] = EntryOf(f, k, F[f].len)
         /\ F[f].st = "cached" =>
              /\ F[f].entry = at[f]
              /\ Leads(F[f].dir, D[F[f].in].flags, cells[F[f].in], at[f], F[f].len)
  BY LengthsNat DEF Holding, Stands

LEMMA SetIsRead ==
  ASSUME NEW t, NEW D, NEW cells, NEW tk, NEW ot, Laid(t, D, cells, tk, ot),
         NEW en, NEW F, NEW at, Holding(View(en, D, cells), D, cells, F, at),
         NEW f \in Files, F[f].st # "absent", NEW ch,
         Leads(ch, D[F[f].in].flags, cells[F[f].in], at[f], F[f].len)
  PROVE  /\ Finds(t, ch, cells[F[f].in], at[f], F[f].len)
         /\ \A k \in 0 .. (F[f].len - 1) :
              get_entry_in_dir(t, en, ch, at[f] + k) = EntryOf(f, k, F[f].len)
         /\ NumEntries(t, en, ch, at[f]) = F[f].len
  <1> DEFINE d == F[f].in
             p == at[f]
             len == F[f].len
             got(k) == get_entry_in_dir(t, en, ch, k)
  <1>1. /\ d \in Dirs /\ D[d] # NoChain /\ len \in Nat \ {0} /\ p \in Nat
        /\ p + len <= Span(D[d])
        /\ \A k \in 0 .. (len - 1) : View(en, D, cells)[d][p + k] = EntryOf(f, k, len)
    BY StandsFacts
  <1>a. Leads(ch, D[d].flags, cells[d], p, len)
    OBVIOUS
  <1> HIDE DEF d, p, len
  <1>2. /\ Row(t, D[d], cells[d], D[d].size) /\ Span(D[d]) \in Nat
        /\ \A q \in 0 .. (Span(D[d]) - 1) : cells[d][Page(q)] \in Clusters
    BY <1>1, LaidRow
  <1>3. Finds(t, ch, cells[d], p, len)
    <2>1. p + len <= D[d].size * PerCluster /\ len \in Nat
      BY <1>1 DEF Span
    <2> QED BY <1>1, <1>2, <1>a, <2>1, LeadsFinds
  <1>4. ASSUME NEW k \in 0 .. (len - 1) PROVE got(p + k) = EntryOf(f, k, len)
    <2>1. p + k \in p .. (p + len - 1) /\ p + k \in 0 .. (Span(D[d]) - 1)
      BY <1>1, <1>2
    <2>2. find_location(t, ch, p + k) = cells[d][Page(p + k)] /\ cells[d][Page(p + k)] \in Clusters
      BY <1>2, <1>3, <2>1 DEF Finds
    <2>3. got(p + k) = Seen(en, cells[d], p + k)
      BY <2>2 DEF get_entry_in_dir, Seen, Place
    <2> QED BY <1>1, <2>1, <2>3, ViewIs
  <1>5. exfat_count_ext_entries(t, en, ch, p) = len - 1
    <2> DEFINE S == {k \in 0 .. got(p).n : k = got(p).n \/ got(p + 1 + k).type # "ext"}
    <2>1. exfat_count_ext_entries(t, en, ch, p) = Min(S)
      BY DEF exfat_count_ext_entries
    <2> HIDE DEF got
    <2>2. got(p).n = len - 1
      <3>1. 0 \in 0 .. (len - 1) /\ p + 0 = p
        BY <1>1
      <3>2. got(p) = EntryOf(f, 0, len)
        BY <1>4, <3>1
      <3> QED BY <3>2 DEF EntryOf
    <2>3. ASSUME NEW k \in 0 .. (len - 1), k < len - 1 PROVE got(p + 1 + k).type = "ext"
      <3>1. k + 1 \in 0 .. (len - 1) /\ p + (k + 1) = p + 1 + k /\ k + 1 # 0
        BY <1>1, <2>3
      <3>2. got(p + 1 + k) = EntryOf(f, k + 1, len)
        BY <1>4, <3>1
      <3> QED BY <3>1, <3>2 DEF EntryOf
    <2>4. S = {len - 1}
      BY <1>1, <2>2, <2>3
    <2>5. len - 1 \in S /\ S \subseteq Nat /\ \A y \in S : len - 1 <= y
      BY <1>1, <2>4
    <2> HIDE DEF S
    <2> QED BY <2>1, <2>5, MinIs
  <1>6. NumEntries(t, en, ch, p) = len
    BY <1>1, <1>5 DEF NumEntries
  <1> QED BY <1>3, <1>4, <1>6 DEF got, d, p, len

LEMMA GoneTyped == Deleted \in Entries /\ Unused \in Entries /\ Contents \in Entries
  BY DirAssumption DEF Deleted, Unused, Contents, Entries

LEMMA SetTyped ==
  ASSUME NEW f \in Files, NEW len \in Lengths, NEW k \in 0 .. (len - 1)
  PROVE  EntryOf(f, k, len) \in Entries
  <1>1. len \in Nat \ {0} /\ len <= PerCluster /\ PerCluster \in Nat
    BY LengthsNat
  <1>2. len - 1 \in 0 .. PerCluster /\ k \in 0 .. PerCluster
    BY <1>1
  <1> QED BY <1>2 DEF EntryOf, Entries

\* Entries of a set that are deleted, through a chain that leads to it.
LEMMA SetIsDeleted ==
  ASSUME NEW t, NEW D, NEW cells, NEW tk, NEW ot, Laid(t, D, cells, tk, ot),
         NEW en \in DentsType, NEW d \in Dirs, D[d] # NoChain, NEW p \in Nat, NEW len \in Nat,
         p + len <= Span(D[d]), NEW ch, Finds(t, ch, cells[d], p, len),
         NEW order \in 0 .. len, NEW W, W = exfat_delete_dir_entry(t, en, ch, p, order, len)
  PROVE  /\ W \in DentsType
         /\ View(W, D, cells) = Over(View(en, D, cells), d, Gone(p + order, p + len - 1))
  <1> DEFINE A == Gone(p + order, p + len - 1)
  <1>1. W = Written(t, en, ch, A)
    BY DEF exfat_delete_dir_entry, Gone
  <1>2. Span(D[d]) \in Nat
    BY LaidRow
  <1>3. DOMAIN A = (p + order) .. (p + len - 1) /\ \A q \in DOMAIN A : A[q] = Deleted
    BY DEF Gone
  <1> HIDE DEF A
  <1>4. \A q \in DOMAIN A : q \in p .. (p + len - 1) /\ q \in 0 .. (Span(D[d]) - 1)
    BY <1>2, <1>3
  <1>5. WrittenBy(t, ch, cells[d], Span(D[d]), A)
    BY <1>3, <1>4, GoneTyped DEF WrittenBy, Finds
  <1>6. /\ Written(t, en, ch, A) \in DentsType
        /\ View(Written(t, en, ch, A), D, cells) = Over(View(en, D, cells), d, A)
    BY <1>5, WrittenIs
  <1> QED BY <1>1, <1>6 DEF A

LEMMA SetIsWritten ==
  ASSUME NEW t, NEW D, NEW cells, NEW tk, NEW ot, Laid(t, D, cells, tk, ot),
         NEW en \in DentsType, NEW d \in Dirs, D[d] # NoChain, NEW p \in Nat, NEW len \in Lengths,
         p + len <= Span(D[d]), NEW f \in Files, NEW W,
         W = exfat_init_ext_entry(t, en, D[d], p, f, len)
  PROVE  /\ W \in DentsType
         /\ View(W, D, cells) = Over(View(en, D, cells), d, SetOf(f, p, len))
  <1> DEFINE A == SetOf(f, p, len)
  <1>1. W = Written(t, en, D[d], A)
    BY DEF exfat_init_ext_entry, SetOf
  <1>2. Span(D[d]) \in Nat /\ Row(t, D[d], cells[d], D[d].size) /\ len \in Nat
    BY LaidRow, LengthsNat
  <1>3. DOMAIN A = p .. (p + len - 1) /\ \A q \in DOMAIN A : A[q] = EntryOf(f, q - p, len)
    BY DEF SetOf
  <1> HIDE DEF A
  <1>4. \A q \in DOMAIN A : q - p \in 0 .. (len - 1) /\ q \in 0 .. (Span(D[d]) - 1)
    BY <1>2, <1>3
  <1>5. \A q \in DOMAIN A : A[q] \in Entries
    BY <1>3, <1>4, SetTyped
  <1>6. \A q \in DOMAIN A : find_location(t, D[d], q) = cells[d][Page(q)]
    BY <1>2, <1>4, FindIs DEF Span
  <1>7. WrittenBy(t, D[d], cells[d], Span(D[d]), A)
    BY <1>4, <1>5, <1>6 DEF WrittenBy
  <1>8. /\ Written(t, en, D[d], A) \in DentsType
        /\ View(Written(t, en, D[d], A), D, cells) = Over(View(en, D, cells), d, A)
    BY <1>7, WrittenIs
  <1> QED BY <1>1, <1>8 DEF A

LEMMA SetIsRemoved ==
  ASSUME NEW t, NEW D, NEW cells, NEW tk, NEW ot, Laid(t, D, cells, tk, ot),
         NEW en \in DentsType, NEW F, NEW at, Holding(View(en, D, cells), D, cells, F, at),
         NEW f \in Files, F[f].st # "absent", NEW ch,
         Leads(ch, D[F[f].in].flags, cells[F[f].in], at[f], F[f].len),
         NEW W, W = remove_file(t, en, ch, at[f])
  PROVE  /\ W \in DentsType
         /\ View(W, D, cells) =
              Over(View(en, D, cells), F[f].in, Gone(at[f], at[f] + F[f].len - 1))
  <1> DEFINE d == F[f].in
             p == at[f]
             len == F[f].len
  <1>1. /\ d \in Dirs /\ D[d] # NoChain /\ len \in Nat \ {0} /\ p \in Nat
        /\ p + len <= Span(D[d])
    BY StandsFacts
  <1>2. Finds(t, ch, cells[d], p, len) /\ NumEntries(t, en, ch, p) = len
    BY SetIsRead
  <1>3. W = exfat_delete_dir_entry(t, en, ch, p, 0, len)
    BY <1>2 DEF remove_file
  <1> HIDE DEF d, p, len
  <1>4. 0 \in 0 .. len /\ len \in Nat /\ p + 0 = p
    BY <1>1
  <1>5. /\ W \in DentsType
        /\ View(W, D, cells) = Over(View(en, D, cells), d, Gone(p + 0, p + len - 1))
    BY <1>1, <1>2, <1>3, <1>4, SetIsDeleted
  <1> QED BY <1>4, <1>5 DEF d, p, len

-------------------------------------------------------------------------------
(* Looking for room *)

\* What a chain's clusters from the m-th on spell.
RestOf(ch, s, n, m, c) ==
  /\ m \in 0 .. (n - 1) /\ c.dir = s[m] /\ c.flags = ch.flags
  /\ c.flags = Contiguous => c.size = n - m

LEMMA RowRest ==
  ASSUME NEW t, NEW ch, NEW s, NEW n, Row(t, ch, s, n), NEW m, NEW c, RestOf(ch, s, n, m, c)
  PROVE  Row(t, c, [k \in 0 .. (n - m - 1) |-> s[m + k]], n - m)
  <1> DEFINE r == [k \in 0 .. (n - m - 1) |-> s[m + k]]
  <1>1. /\ n \in Nat \ {0} /\ s[0] = ch.dir
        /\ \A k \in 0 .. (n - 1) : s[k] \in Clusters
        /\ \A j, k \in 0 .. (n - 1) : s[j] = s[k] => j = k
        /\ ch.flags \in {Linked, Contiguous}
        /\ ch.flags = Contiguous => \A k \in 0 .. (n - 1) : s[k] = ch.dir + k
        /\ ch.flags = Linked =>
             \A k \in 0 .. (n - 1) : t[s[k]] = IF k + 1 < n THEN s[k + 1] ELSE Eof
    BY DEF Row, Links
  <1>2. /\ m \in Nat /\ m < n /\ n - m \in Nat \ {0} /\ c.dir = s[m] /\ c.flags = ch.flags
        /\ c.flags = Contiguous => c.size = n - m
    BY <1>1 DEF RestOf
  <1>3. \A k \in 0 .. (n - m - 1) : r[k] = s[m + k] /\ m + k \in 0 .. (n - 1)
    BY <1>1, <1>2
  <1>4. 0 \in 0 .. (n - m - 1) /\ m + 0 = m
    BY <1>1, <1>2
  <1> HIDE DEF r
  <1>5. r[0] = c.dir /\ \A k \in 0 .. (n - m - 1) : r[k] \in Clusters
    BY <1>1, <1>2, <1>3, <1>4
  <1>6. \A j, k \in 0 .. (n - m - 1) : r[j] = r[k] => j = k
    <2> TAKE j, k \in 0 .. (n - m - 1)
    <2>1. r[j] = r[k] => m + j = m + k
      BY <1>1, <1>3
    <2> QED BY <1>2, <2>1
  <1>7. c.flags = Contiguous => \A k \in 0 .. (n - m - 1) : r[k] = c.dir + k
    <2> SUFFICES ASSUME c.flags = Contiguous, NEW k \in 0 .. (n - m - 1) PROVE r[k] = c.dir + k
      OBVIOUS
    <2>1. r[k] = ch.dir + (m + k) /\ c.dir = ch.dir + m /\ m \in 0 .. (n - 1)
      BY <1>1, <1>2, <1>3
    <2>2. ch.dir \in Int
      BY RowIsBounded, Numbers
    <2> QED BY <1>2, <2>1, <2>2
  <1>8. c.flags = Linked => Links(t, r, n - m)
    <2> SUFFICES ASSUME c.flags = Linked PROVE Links(t, r, n - m)
      OBVIOUS
    <2>1. ASSUME NEW k \in 0 .. (n - m - 1)
          PROVE  t[r[k]] = IF k + 1 < n - m THEN r[k + 1] ELSE Eof
      <3>1. r[k] = s[m + k] /\ m + k \in 0 .. (n - 1)
        BY <1>3
      <3>2. t[r[k]] = IF (m + k) + 1 < n THEN s[(m + k) + 1] ELSE Eof
        BY <1>1, <1>2, <3>1
      <3>3. CASE k + 1 < n - m
        <4>1. k + 1 \in 0 .. (n - m - 1) /\ (m + k) + 1 = m + (k + 1) /\ (m + k) + 1 < n
          BY <1>1, <1>2, <3>3
        <4> QED BY <1>3, <3>2, <3>3, <4>1
      <3>4. CASE ~(k + 1 < n - m)
        <4>1. ~((m + k) + 1 < n)
          BY <1>1, <1>2, <3>4
        <4> QED BY <3>2, <3>4, <4>1
      <3> QED BY <3>3, <3>4
    <2> QED BY <1>5, <1>6, <2>1 DEF Links
  <1> QED BY <1>1, <1>2, <1>5, <1>6, <1>7, <1>8 DEF Row, r

\* A scan that begins with the m-th cluster.
LEMMA ScanFrom ==
  ASSUME NEW t, NEW ch, NEW s, NEW n, Row(t, ch, s, n), NEW m, NEW c, RestOf(ch, s, n, m, c),
         NEW en
  PROVE  /\ Max(DOMAIN EntriesOf(t, en, c)) = n * PerCluster - m * PerCluster - 1
         /\ \A p \in (m * PerCluster) .. (n * PerCluster - 1) :
              EntriesOf(t, en, c)[p - m * PerCluster] = Seen(en, s, p)
  <1> DEFINE r == [k \in 0 .. (n - m - 1) |-> s[m + k]]
             l == n - m
             es == EntriesOf(t, en, c)
  <1>1. n \in Nat \ {0} /\ m \in Nat /\ m < n /\ l \in Nat \ {0}
    BY RowIsBounded DEF RestOf
  <1>2. Row(t, c, r, l)
    BY RowRest
  <1>3. es = [p \in 0 .. (l * PerCluster - 1) |-> Seen(en, r, p)]
    <2> HIDE DEF r, l
    <2> QED BY <1>2, EntriesAre
  <1>4. l * PerCluster = n * PerCluster - m * PerCluster
    BY <1>1, DirAssumption, SMTT(30)
  <1>5. l * PerCluster \in Nat \ {0} /\ n * PerCluster \in Nat /\ m * PerCluster \in Nat
    <2> HIDE DEF l
    <2>1. l \in Nat /\ l > 0 /\ n \in Nat /\ m \in Nat
      BY <1>1
    <2>2. l * PerCluster \in Nat /\ l * PerCluster > 0
      BY <2>1, SpanIs
    <2>3. n * PerCluster \in Nat /\ m * PerCluster \in Nat
      BY <2>1, SpanIs
    <2> QED BY <2>2, <2>3
  <1> HIDE DEF es
  <1>6. Max(DOMAIN es) = l * PerCluster - 1
    <2> DEFINE S == 0 .. (l * PerCluster - 1)
    <2>1. l * PerCluster - 1 \in S /\ S \subseteq Int /\ \A y \in S : y <= l * PerCluster - 1
      BY <1>5
    <2>2. DOMAIN es = S
      BY <1>3
    <2> HIDE DEF S, l
    <2> QED BY <2>1, <2>2, MaxIs
  <1>7. ASSUME NEW p \in (m * PerCluster) .. (n * PerCluster - 1)
        PROVE  es[p - m * PerCluster] = Seen(en, s, p)
    <2>1. p \in Nat /\ m * PerCluster <= p /\ p < n * PerCluster
      BY <1>5
    <2>2. p - m * PerCluster \in 0 .. (l * PerCluster - 1)
      BY <1>4, <1>5, <2>1
    <2>3. es[p - m * PerCluster] = Seen(en, r, p - m * PerCluster)
      BY <1>3, <2>2
    <2>4. /\ p - m * PerCluster \in Nat
          /\ Page(p - m * PerCluster) = Page(p) - m /\ Place(p - m * PerCluster) = Place(p)
      BY <1>1, <2>1, PageShift
    <2>5. Page(p) \in Nat /\ Page(p) < n /\ Page(p - m * PerCluster) \in Nat
      BY <1>1, <2>1, <2>4, PageIs, PageBelow
    <2>6. Page(p) - m \in 0 .. (n - m - 1) /\ m + (Page(p) - m) = Page(p)
      BY <1>1, <2>4, <2>5
    <2>7. r[Page(p) - m] = s[Page(p)]
      BY <2>6
    <2> QED BY <2>3, <2>4, <2>7 DEF Seen
  <1> QED BY <1>4, <1>6, <1>7 DEF es, l

LEMMA RestIs ==
  ASSUME NEW t, NEW ch \in ChainType, NEW s, Row(t, ch, s, ch.size), NEW p \in 0 .. (Span(ch) - 1)
  PROVE  /\ RestFrom(t, ch, p) \in ChainType
         /\ RestOf(ch, s, ch.size, Page(p), RestFrom(t, ch, p))
         /\ RestFrom(t, ch, p).size < NumClusters - 1
         /\ Page(p) \in 0 .. (ch.size - 1)
  <1>1. ch.size \in Nat \ {0} /\ ch.size <= NumClusters - 2 /\ NumClusters \in Nat
    BY RowIsBounded
  <1>2. p \in Nat /\ p < ch.size * PerCluster
    BY <1>1, SpanNat DEF Span
  <1>3. Page(p) \in 0 .. (ch.size - 1)
    BY <1>1, <1>2, PageIs, PageBelow
  <1>4. ScanOf(t, ch) = [k \in 1 .. ch.size |-> s[k - 1]]
    BY ScanIs
  <1>5. ScanOf(t, ch)[Page(p) + 1] = s[Page(p)]
    <2>1. Page(p) + 1 \in 1 .. ch.size /\ (Page(p) + 1) - 1 = Page(p)
      BY <1>1, <1>3
    <2> QED BY <1>4, <2>1
  <1>6. s[Page(p)] \in Clusters
    BY <1>3 DEF Row
  <1>7. RestFrom(t, ch, p) = [ch EXCEPT !.dir = s[Page(p)],
                                        !.size = IF ch.flags = Contiguous THEN @ - Page(p) ELSE @]
    BY <1>5 DEF RestFrom, Page
  <1>8. ch.size - Page(p) \in 0 .. NumClusters /\ ch.size - Page(p) < NumClusters - 1
        /\ ch.size \in 0 .. NumClusters /\ ch.size < NumClusters - 1
    BY <1>1, <1>3
  <1> HIDE DEF ChainType
  <1>9. /\ RestFrom(t, ch, p).dir = s[Page(p)] /\ RestFrom(t, ch, p).flags = ch.flags
        /\ RestFrom(t, ch, p).size = IF ch.flags = Contiguous THEN ch.size - Page(p) ELSE ch.size
        /\ RestFrom(t, ch, p) \in ChainType
    BY <1>6, <1>7, <1>8 DEF ChainType
  <1> QED BY <1>1, <1>3, <1>8, <1>9 DEF RestOf

\* What the hint promises to a search in the directory it is about: that all
\* before its entry are taken, and that its chain is the rest of the directory's.
HintOK(h, ch, s, es) ==
  h.dir = ch.dir =>
    /\ h.entry = -1 => \A p \in 0 .. (Span(ch) - 1) : es[p].type # "unused"
    /\ h.entry # -1 =>
         /\ h.entry \in 0 .. (Span(ch) - 1)
         /\ \A p \in 0 .. (h.entry - 1) : es[p].type # "unused"
         /\ RestOf(ch, s, ch.size, Page(h.entry), h.clu)

HintType == [dir : Clusters \cup {Eof}, entry : {-1} \cup Positions, clu : ChainType]
HintFits(h) == h \in HintType /\ h.clu.size < NumClusters - 1

\* What a scan of a directory sees.
SeenAll(en, s, ch) == [p \in 0 .. (Span(ch) - 1) |-> Seen(en, s, p)]

LEMMA NoChainTyped == NoChain \in ChainType /\ NoChain.size = 0 /\ NoChain.dir = Eof
  BY Numbers DEF NoChain, ChainType

LEMMA NoHintFits ==
  /\ HintFits(NoHint) /\ NoHint.dir = Eof /\ NoHint.entry = -1
  /\ \A c \in Clusters \cup {Eof} : HintFits([NoHint EXCEPT !.dir = c]) /\ [NoHint EXCEPT !.dir = c].dir = c
                         /\ [NoHint EXCEPT !.dir = c].entry = -1
  <1>1. NoChain \in ChainType /\ NoChain.size = 0 /\ NumClusters \in Nat /\ NumClusters > 2
    BY NoChainTyped, Numbers
  <1>2. NoHint = [dir |-> Eof, entry |-> -1, clu |-> NoChain]
    BY DEF NoHint
  <1> HIDE DEF NoHint, ChainType, NoChain
  <1> QED BY <1>1, <1>2 DEF HintFits, HintType

LEMMA SpanFits ==
  ASSUME NEW ch, NEW t, NEW s, Row(t, ch, s, ch.size)
  PROVE  /\ Span(ch) \in Nat /\ Span(ch) > 0
         /\ \A p \in 0 .. (Span(ch) - 1) : p \in Nat /\ p \in Positions
         /\ Span(ch) \in Positions
  <1> DEFINE n == ch.size
  <1>1. n \in Nat \ {0} /\ n <= NumClusters /\ NumClusters \in Nat
    BY RowIsBounded
  <1>2. Span(ch) \in Nat /\ Span(ch) > 0
    BY <1>1, SpanNat
  <1>3. Span(ch) = n * PerCluster
    BY DEF Span
  <1> HIDE DEF n
  <1>4. n * PerCluster <= NumClusters * PerCluster /\ NumClusters * PerCluster \in Nat
    BY <1>1, SpanGrows, SpanIs
  <1> QED BY <1>2, <1>3, <1>4 DEF Positions

LEMMA RestHint ==
  ASSUME NEW t, NEW ch \in ChainType, NEW s, Row(t, ch, s, ch.size), NEW es,
         NEW p \in 0 .. (Span(ch) - 1), \A q \in 0 .. (p - 1) : es[q].type # "unused",
         NEW h, h = [dir |-> ch.dir, entry |-> p, clu |-> RestFrom(t, ch, p)]
  PROVE  HintOK(h, ch, s, es) /\ HintFits(h) /\ h.dir = ch.dir /\ h.entry # -1
  <1>1. /\ RestFrom(t, ch, p) \in ChainType
        /\ RestOf(ch, s, ch.size, Page(p), RestFrom(t, ch, p))
        /\ RestFrom(t, ch, p).size < NumClusters - 1
    BY RestIs
  <1>2. p \in Nat /\ p \in Positions /\ p # -1
    <2>1. p \in Nat /\ p \in Positions
      BY SpanFits
    <2> QED BY <2>1
  <1>3. ch.dir \in Clusters
    BY RowIsBounded
  <1>4. h.dir = ch.dir /\ h.entry = p /\ h.clu = RestFrom(t, ch, p)
    OBVIOUS
  <1>5. h \in HintType
    BY <1>1, <1>2, <1>3 DEF HintType
  <1> HIDE DEF ChainType, HintType
  <1> QED BY <1>1, <1>2, <1>4, <1>5 DEF HintOK, HintFits

LEMMA LookedUp ==
  ASSUME NEW ch \in ChainType, NEW s, Row(fat, ch, s, ch.size), NEW len, NEW h,
         h = HintOfLookup(ch, len)
  PROVE  HintOK(h, ch, s, SeenAll(dents, s, ch)) /\ HintFits(h)
  <1> DEFINE es     == SeenAll(dents, s, ch)
             unused == {p \in DOMAIN es : es[p].type = "unused"}
             stop   == Min(unused \cup {Max(DOMAIN es)})
             runs   == {p \in 0 .. stop :
                          /\ p > 0 => ~IsEmpty(es[p - 1])
                          /\ \E q \in p .. stop : /\ \A r \in p .. q : IsEmpty(es[r])
                                                  /\ q - p + 1 >= len \/ q \in unused}
             n == Span(ch)
  <1>1. es = EntriesOf(fat, dents, ch)
    BY EntriesAre DEF SeenAll, Span
  <1>2. h = IF runs = {} THEN [NoHint EXCEPT !.dir = ch.dir]
            ELSE [dir |-> ch.dir, entry |-> Min(runs), clu |-> RestFrom(fat, ch, Min(runs))]
    BY <1>1, Zenon DEF HintOfLookup
  <1>3. DOMAIN es = 0 .. (n - 1)
    BY DEF SeenAll
  <1> HIDE DEF es
  <1>4. n \in Nat /\ n > 0 /\ ch.dir \in Clusters
    BY SpanFits, RowIsBounded
  <1> HIDE DEF n
  <1>5. Max(DOMAIN es) = n - 1
    <2> DEFINE S == 0 .. (n - 1)
    <2>1. n - 1 \in S /\ S \subseteq Int /\ \A y \in S : y <= n - 1
      BY <1>4
    <2> HIDE DEF S
    <2>2. Max(S) = n - 1
      BY <2>1, MaxIs
    <2> QED BY <1>3, <2>2 DEF S
  <1>6. /\ stop \in 0 .. (n - 1) /\ \A p \in unused : stop <= p
        /\ unused # {} => stop \in unused
    <2> DEFINE S == unused \cup {n - 1}
    <2>1. S \subseteq Nat /\ S # {} /\ n - 1 \in S
      BY <1>3, <1>4
    <2> HIDE DEF S
    <2>2. Min(S) \in S /\ \A y \in S : Min(S) <= y
      BY <2>1, MinIsLeast
    <2>3. stop = Min(S)
      BY <1>5 DEF S
    <2> HIDE DEF stop
    <2>4. unused \subseteq 0 .. (n - 1)
      BY <1>3
    <2> HIDE DEF unused
    <2>5. stop \in unused \cup {n - 1} /\ \A p \in unused : stop <= p
      BY <2>2, <2>3 DEF S
    <2>6. ASSUME NEW u \in unused PROVE stop \in unused
      <3>1. stop <= u /\ u \in 0 .. (n - 1)
        BY <2>4, <2>5
      <3>2. stop = n - 1 => stop = u
        BY <1>4, <3>1
      <3> QED BY <2>5, <3>2
    <2>7. stop \in 0 .. (n - 1)
      <3>1. n - 1 \in 0 .. (n - 1)
        BY <1>4
      <3> QED BY <2>4, <2>5, <3>1
    <2>8. unused # {} => stop \in unused
      BY <2>6
    <2> QED BY <2>5, <2>7, <2>8
  <1> HIDE DEF stop
  <1>7. CASE runs = {}
    <2>1. unused = {}
      <3> SUFFICES ASSUME unused # {} PROVE FALSE
        OBVIOUS
      <3>1. stop \in unused
        BY <1>6
      <3> DEFINE S == {p \in 0 .. stop : \A r \in p .. stop : IsEmpty(es[r])}
      <3>2. stop \in S
        <4>1. stop \in 0 .. stop /\ \A r \in stop .. stop : r = stop
          BY <1>6
        <4>2. IsEmpty(es[stop])
          BY <3>1, EntryKinds
        <4> QED BY <4>1, <4>2
      <3>3. PICK m \in S : \A y \in S : m <= y
        <4>1. S \subseteq Nat /\ S # {}
          BY <3>2
        <4> HIDE DEF S
        <4>2. Min(S) \in S /\ \A y \in S : Min(S) <= y
          BY <4>1, MinIsLeast
        <4> QED BY <4>2
      <3>4. m \in 0 .. stop /\ \A r \in m .. stop : IsEmpty(es[r])
        OBVIOUS
      <3>5. ASSUME m > 0, IsEmpty(es[m - 1]) PROVE FALSE
        <4>1. m - 1 \in 0 .. stop /\ \A r \in (m - 1) .. stop : r = m - 1 \/ r \in m .. stop
          BY <1>6, <3>4, <3>5
        <4>2. m - 1 \in S
          BY <3>4, <3>5, <4>1
        <4>3. m \in Nat
          BY <1>6, <3>4
        <4> HIDE DEF S
        <4>4. m <= m - 1
          BY <3>3, <4>2
        <4> QED BY <4>3, <4>4
      <3>6. stop \in m .. stop
        BY <1>6, <3>4
      <3> HIDE DEF S, unused
      <3>7. m \in runs
        BY <3>1, <3>4, <3>5, <3>6
      <3> QED BY <1>7, <3>7
    <2>2. h = [NoHint EXCEPT !.dir = ch.dir]
      BY <1>2, <1>7
    <2>3. HintFits(h) /\ h.dir = ch.dir /\ h.entry = -1
      BY <1>4, <2>2, NoHintFits
    <2>4. \A p \in 0 .. (n - 1) : es[p].type # "unused"
      BY <1>3, <2>1
    <2> QED BY <2>3, <2>4 DEF HintOK, n, es
  <1>8. CASE runs # {}
    <2>1. Min(runs) \in runs
      <3>1. runs \subseteq Nat
        BY <1>6
      <3> HIDE DEF runs
      <3> QED BY <1>8, <3>1, MinIsLeast
    <2> DEFINE e == Min(runs)
    <2>2. e \in 0 .. stop
      <3> HIDE DEF unused
      <3> QED BY <2>1
    <2>3. h = [dir |-> ch.dir, entry |-> e, clu |-> RestFrom(fat, ch, e)]
      BY <1>2, <1>8
    <2> HIDE DEF e, runs
    <2>4. e \in 0 .. (n - 1)
      <3>1. stop \in 0 .. (n - 1)
        BY <1>6
      <3> QED BY <1>4, <2>2, <3>1
    <2>5. \A q \in 0 .. (e - 1) : es[q].type # "unused"
      <3> TAKE q \in 0 .. (e - 1)
      <3>1. q \in 0 .. (n - 1) /\ ~(stop <= q)
        BY <1>4, <1>6, <2>2
      <3> QED BY <1>3, <1>6, <3>1
    <2>6. HintOK(h, ch, s, es) /\ HintFits(h)
      BY <2>3, <2>4, <2>5, RestHint DEF n
    <2> QED BY <2>6 DEF es
  <1> QED BY <1>7, <1>8

\* What a search finds, or what it leaves as the hint.
Searched(r, ch, s, es, len) ==
  /\ r.entry # -1 =>
       /\ r.hint = NoHint /\ r.entry \in Nat /\ r.entry + len <= Span(ch)
       /\ \A q \in r.entry .. (r.entry + len - 1) : IsEmpty(es[q])
       /\ \A q \in 0 .. (r.entry - 1) : es[q].type # "unused"
  /\ r.entry = -1 =>
       /\ HintOK(r.hint, ch, s, es)
       /\ r.hint.entry = -1 => \A p \in 0 .. (Span(ch) - 1) : es[p].type # "unused"
       /\ r.hint.entry # -1 => r.hint.dir = ch.dir

LEMMA SearchIs ==
  ASSUME NEW t, NEW en, NEW ch \in ChainType, NEW s, Row(t, ch, s, ch.size),
         UnusedLast(SeenAll(en, s, ch), Span(ch)),
         NEW h, h.dir \in Clusters \cup {Eof}, HintOK(h, ch, s, SeenAll(en, s, ch)),
         NEW len \in Lengths
  PROVE  LET r == search_deleted_or_unused_entry(t, en, ch, h, len)
         IN /\ Searched(r, ch, s, SeenAll(en, s, ch), len)
            /\ r.entry = -1 /\ HintFits(h) => HintFits(r.hint)
            /\ h.dir = ch.dir /\ h.entry # -1 =>
                 \A p \in Nat : /\ h.entry <= p /\ p + len <= Span(ch)
                                /\ \A q \in p .. (p + len - 1) : IsEmpty(SeenAll(en, s, ch)[q])
                                => r.entry # -1
  <1> DEFINE all   == SeenAll(en, s, ch)
             n     == Span(ch)
             mine  == h.dir = ch.dir
             start == IF mine THEN h.entry ELSE 0
             base  == start - (start % PerCluster)
             c     == IF mine THEN h.clu ELSE ch
             es    == EntriesOf(t, en, c)
             stop  == base + Max(DOMAIN es)
             fits  == {p \in start .. (stop - len + 1) :
                         \A q \in p .. (p + len - 1) : IsEmpty(es[q - base])}
             fresh == {p \in start .. stop : es[p - base].type = "unused"}
             r     == search_deleted_or_unused_entry(t, en, ch, h, len)
  <1>1. r = IF mine /\ start = -1 THEN [entry |-> -1, hint |-> h]
            ELSE IF fits # {} THEN [entry |-> Min(fits), hint |-> NoHint]
            ELSE [entry |-> -1,
                  hint  |-> IF mine THEN h
                            ELSE IF fresh = {} THEN [NoHint EXCEPT !.dir = h.dir]
                            ELSE [dir |-> ch.dir, entry |-> Min(fresh),
                                  clu |-> RestFrom(t, ch, Min(fresh))]]
    BY Zenon DEF search_deleted_or_unused_entry
  <1>2. /\ n \in Nat /\ n > 0 /\ ch.dir \in Clusters /\ len \in Nat \ {0}
        /\ ch.size \in Nat \ {0} /\ n = ch.size * PerCluster
    <2>1. n \in Nat /\ n > 0 /\ len \in Nat \ {0}
      BY SpanFits, LengthsNat
    <2>2. ch.dir \in Clusters /\ ch.size \in Nat \ {0}
      BY RowIsBounded
    <2> QED BY <2>1, <2>2 DEF Span
  <1>3. \A q \in 0 .. (n - 1) : all[q] = Seen(en, s, q)
    BY DEF SeenAll
  <1> HIDE DEF all, n, r
  <1>4. CASE mine /\ start = -1
    <2>1. r.entry = -1 /\ r.hint = h /\ h.entry = -1
      BY <1>1, <1>4
    <2>2. \A p \in 0 .. (n - 1) : all[p].type # "unused"
      BY <1>4, <2>1 DEF HintOK, n, all
    <2>3. Searched(r, ch, s, all, len)
      BY <2>1, <2>2 DEF Searched, n, all
    <2> QED BY <2>1, <2>3 DEF r, all
  <1>5. CASE ~(mine /\ start = -1)
    <2>1. /\ start \in 0 .. (n - 1) /\ start \in Nat
          /\ \A q \in 0 .. (start - 1) : all[q].type # "unused"
          /\ RestOf(ch, s, ch.size, Page(start), c)
      <3>1. CASE mine
        <4>1. h.entry # -1 /\ h.dir = ch.dir /\ start = h.entry /\ c = h.clu
          BY <1>5, <3>1
        <4> QED BY <1>2, <4>1 DEF HintOK, n, all
      <3>2. CASE ~mine
        <4>1. start = 0 /\ c = ch
          BY <3>2
        <4>2. Page(0) = 0
          <5>1. 0 \in Nat /\ 0 \in 0 .. (PerCluster - 1) /\ 0 * PerCluster + 0 = 0
            BY LengthsNat
          <5> QED BY <5>1, PageOf
        <4>3. RestOf(ch, s, ch.size, 0, ch)
          BY <1>2 DEF RestOf, Row
        <4> QED BY <1>2, <4>1, <4>2, <4>3
      <3> QED BY <3>1, <3>2
    <2> DEFINE m == Page(start)
    <2>2. base = m * PerCluster /\ base \in Nat /\ base <= start
      <3>1. base = m * PerCluster
        BY <2>1, BaseIs
      <3>2. m \in Nat /\ start = m * PerCluster + Place(start) /\ Place(start) \in 0 .. (PerCluster - 1)
        BY <2>1, PageIs
      <3>3. m * PerCluster \in Nat
        BY <3>2, SpanIs
      <3> HIDE DEF m, start, base
      <3> QED BY <3>1, <3>2, <3>3, LengthsNat
    <2>3. /\ Max(DOMAIN es) = n - base - 1
          /\ \A p \in base .. (n - 1) : es[p - base] = all[p]
      <3>1. /\ Max(DOMAIN EntriesOf(t, en, c)) = ch.size * PerCluster - m * PerCluster - 1
            /\ \A p \in (m * PerCluster) .. (ch.size * PerCluster - 1) :
                 EntriesOf(t, en, c)[p - m * PerCluster] = Seen(en, s, p)
        <4> HIDE DEF m, c
        <4> QED BY <2>1, ScanFrom DEF m
      <3>2. base \in Nat /\ n \in Nat
        BY <1>2, <2>2
      <3> HIDE DEF m, base, c
      <3> QED BY <1>2, <1>3, <2>2, <3>1, <3>2
    <2> HIDE DEF m, base, es
    <2>4. stop = n - 1
      BY <1>2, <2>2, <2>3
    <2> HIDE DEF stop
    <2>5. fits = {p \in start .. (n - len) : \A q \in p .. (p + len - 1) : IsEmpty(all[q])}
      <3>1. stop - len + 1 = n - len
        BY <1>2, <2>4
      <3>2. ASSUME NEW p \in start .. (n - len), NEW q \in p .. (p + len - 1)
            PROVE  es[q - base] = all[q]
        <4>1. q \in base .. (n - 1)
          <5> HIDE DEF start
          <5> QED BY <1>2, <2>1, <2>2, <3>2
        <4> QED BY <2>3, <4>1
      <3> HIDE DEF start
      <3> QED BY <3>1, <3>2
    <2>6. fresh = {p \in start .. (n - 1) : all[p].type = "unused"}
      <3>1. ASSUME NEW p \in start .. (n - 1) PROVE es[p - base] = all[p]
        <4>1. p \in base .. (n - 1)
          <5> HIDE DEF start
          <5> QED BY <1>2, <2>1, <2>2, <3>1
        <4> QED BY <2>3, <4>1
      <3> HIDE DEF start
      <3> QED BY <2>4, <3>1
    <2> HIDE DEF fits, fresh, start
    <2>7. CASE fits # {}
      <3> DEFINE e == Min(fits)
      <3>1. r.entry = e /\ r.hint = NoHint
        BY <1>1, <1>5, <2>7
      <3>2. e \in fits /\ \A y \in fits : e <= y
        <4>1. fits \subseteq Nat
          BY <1>2, <2>1, <2>5
        <4> QED BY <2>7, <4>1, MinIsLeast
      <3> HIDE DEF e
      <3>3. /\ e \in Nat /\ start <= e /\ e + len <= n
            /\ \A q \in e .. (e + len - 1) : IsEmpty(all[q])
        BY <1>2, <2>1, <2>5, <3>2
      <3>4. ASSUME NEW q \in 0 .. (e - 1) PROVE all[q].type # "unused"
        <4>1. CASE q < start
          BY <2>1, <4>1
        <4>2. CASE start <= q
          <5> SUFFICES ASSUME all[q].type = "unused" PROVE FALSE
            OBVIOUS
          <5>1. q \in 0 .. (n - 1) /\ q \in start .. (n - len) /\ ~(e <= q)
            BY <1>2, <2>1, <3>3, <4>2
          <5>2. ASSUME NEW i \in q .. (q + len - 1) PROVE IsEmpty(all[i])
            <6>1. i \in 0 .. (n - 1) /\ (i = q \/ q < i)
              BY <1>2, <5>1
            <6>2. all[i].type = "unused"
              BY <5>1, <6>1 DEF UnusedLast, n, all
            <6> QED BY <6>2, EntryKinds
          <5>3. q \in fits
            BY <2>5, <5>1, <5>2
          <5> QED BY <3>2, <5>1, <5>3
        <4> QED BY <2>1, <4>1, <4>2
      <3>5. e # -1
        BY <3>3
      <3>6. Searched(r, ch, s, all, len)
        BY <3>1, <3>3, <3>4, <3>5 DEF Searched, n
      <3> QED BY <3>1, <3>5, <3>6 DEF r, all
    <2>8. CASE fits = {}
      <3>1. /\ r.entry = -1
            /\ r.hint = IF mine THEN h
                        ELSE IF fresh = {} THEN [NoHint EXCEPT !.dir = h.dir]
                        ELSE [dir |-> ch.dir, entry |-> Min(fresh),
                              clu |-> RestFrom(t, ch, Min(fresh))]
        BY <1>1, <1>5, <2>8
      <3>2. Searched(r, ch, s, all, len) /\ (HintFits(h) => HintFits(r.hint))
        <4>1. CASE mine
          <5>1. r.hint = h /\ h.dir = ch.dir /\ (h.entry = -1 => start = -1)
            BY <3>1, <4>1 DEF start
          <5>2. h.entry # -1
            BY <1>5, <4>1, <5>1
          <5> QED BY <3>1, <5>1, <5>2 DEF Searched, all
        <4>2. CASE ~mine /\ fresh = {}
          <5>1. r.hint = [NoHint EXCEPT !.dir = h.dir]
            BY <3>1, <4>2
          <5>2. h.dir \in Clusters \cup {Eof}
            OBVIOUS
          <5>3. HintFits(r.hint) /\ r.hint.dir # ch.dir /\ r.hint.entry = -1
            BY <4>2, <5>1, <5>2, NoHintFits
          <5>4. start = 0
            BY <4>2 DEF start
          <5>5. \A p \in 0 .. (n - 1) : all[p].type # "unused"
            BY <2>6, <4>2, <5>4
          <5> QED BY <3>1, <5>3, <5>5 DEF Searched, HintOK, n
        <4>3. CASE ~mine /\ fresh # {}
          <5> DEFINE e == Min(fresh)
          <5>1. r.hint = [dir |-> ch.dir, entry |-> e, clu |-> RestFrom(t, ch, e)]
            BY <3>1, <4>3
          <5>2. e \in fresh /\ \A y \in fresh : e <= y
            <6>1. fresh \subseteq Nat
              BY <1>2, <2>1, <2>6
            <6> QED BY <4>3, <6>1, MinIsLeast
          <5> HIDE DEF e
          <5>3. start = 0
            BY <4>3 DEF start
          <5>4. e \in 0 .. (n - 1)
            BY <2>6, <5>2, <5>3
          <5>5. \A q \in 0 .. (e - 1) : all[q].type # "unused"
            <6> TAKE q \in 0 .. (e - 1)
            <6>1. q \in 0 .. (n - 1) /\ ~(e <= q)
              BY <1>2, <5>4
            <6> QED BY <2>6, <5>2, <5>3, <6>1
          <5>6. HintOK(r.hint, ch, s, all) /\ HintFits(r.hint) /\ r.hint.dir = ch.dir
                /\ r.hint.entry # -1
            BY <5>1, <5>4, <5>5, RestHint DEF n
          <5> QED BY <3>1, <5>6 DEF Searched
        <4> QED BY <4>1, <4>2, <4>3
      <3>3. ASSUME mine, h.entry # -1, NEW p \in Nat, h.entry <= p, p + len <= n,
                   \A q \in p .. (p + len - 1) : IsEmpty(all[q])
            PROVE  FALSE
        <4>1. start = h.entry
          BY <3>3 DEF start
        <4>2. p \in start .. (n - len)
          BY <1>2, <2>1, <3>3, <4>1
        <4> QED BY <2>5, <2>8, <3>3, <4>2
      <3> QED BY <3>2, <3>3 DEF r, all, n
    <2> QED BY <2>7, <2>8
  <1> QED BY <1>4, <1>5

-------------------------------------------------------------------------------
(* A directory that grows *)

LEMMA LastIs ==
  ASSUME NEW ch, NEW s, NEW n, Row(fat, ch, s, n)
  PROVE  find_last_cluster(ch) = s[n - 1]
  <1>1. ScanOf(fat, ch) = [k \in 1 .. n |-> s[k - 1]] /\ n \in Nat \ {0}
    BY ScanIs, RowIsBounded
  <1>2. Len(ScanOf(fat, ch)) = n /\ n \in 1 .. n
    BY <1>1
  <1> QED BY <1>1, <1>2 DEF find_last_cluster, Last

\* The FAT when the cluster new is linked behind the chain's last one.
LinkedTo(ch, last, new) ==
  LET chained == IF new.flags # ch.flags
                 THEN exfat_chain_cont_cluster(new.fat, ch.dir, ch.size) ELSE new.fat
  IN IF new.flags = Linked THEN [chained EXCEPT ![last] = new.dir] ELSE chained

Longer(ch, new) == [ch EXCEPT !.size = @ + 1, !.flags = new.flags]

LEMMA Chained ==
  ASSUME Volume, NEW ch, NEW s, NEW n, Row(fat, ch, s, n), ch.size = n,
         NEW new, new.fat \in [Clusters -> Clusters \cup {0, Eof}],
         new.flags = Linked, \A k \in 0 .. (n - 1) : s[k] # new.dir,
         \A x \in Clusters \ {new.dir} : new.fat[x] = fat[x],
         new.dir \in Clusters, new.fat[new.dir] = Eof
  PROVE  LET chained == IF new.flags # ch.flags
                        THEN exfat_chain_cont_cluster(new.fat, ch.dir, ch.size) ELSE new.fat
         IN /\ chained \in [Clusters -> Clusters \cup {0, Eof}]
            /\ \A k \in 0 .. (n - 2) : chained[s[k]] = s[k + 1]
            /\ chained[new.dir] = Eof
            /\ \A x \in Clusters \ {new.dir} : (\A k \in 0 .. (n - 1) : s[k] # x) =>
                 chained[x] = fat[x]
  <1>1. /\ n \in Nat \ {0} /\ s[0] = ch.dir
        /\ \A k \in 0 .. (n - 1) : s[k] \in Clusters
        /\ ch.flags \in {Linked, Contiguous}
        /\ ch.flags = Contiguous => \A k \in 0 .. (n - 1) : s[k] = ch.dir + k
        /\ ch.flags = Linked =>
             \A k \in 0 .. (n - 1) : fat[s[k]] = IF k + 1 < n THEN s[k + 1] ELSE Eof
    BY DEF Row, Links
  <1>2. CASE ch.flags = Linked
    <2>1. \A k \in 0 .. (n - 2) : new.fat[s[k]] = s[k + 1]
      <3> TAKE k \in 0 .. (n - 2)
      <3>1. k \in 0 .. (n - 1) /\ k + 1 < n
        BY <1>1
      <3>2. s[k] \in Clusters \ {new.dir}
        BY <1>1, <3>1
      <3> QED BY <1>1, <1>2, <3>1, <3>2
    <2> QED BY <1>2, <2>1
  <1>3. CASE ch.flags = Contiguous
    <2> DEFINE t2 == exfat_chain_cont_cluster(new.fat, ch.dir, n)
    <2>1. new.flags # ch.flags
      BY <1>3, Numbers
    <2>2. ch.dir \in Clusters /\ ch.dir \in Int
      BY RowIsBounded, Numbers
    <2>3. RowFits(ch.dir, n)
      <3>1. n - 1 \in 0 .. (n - 1)
        BY <1>1
      <3>2. ch.dir + (n - 1) \in Clusters
        BY <1>1, <1>3, <3>1
      <3>3. ch.dir + (n - 1) = ch.dir + n - 1
        BY <1>1, <2>2
      <3> QED BY <1>1, <2>2, <3>2, <3>3 DEF RowFits
    <2>4. InARow(new.fat, t2, ch.dir, n)
      BY <2>3, LinksTheRow
    <2>5. t2 = [c \in Clusters |-> t2[c]]
      BY DEF exfat_chain_cont_cluster
    <2> HIDE DEF t2
    <2>6. /\ \A k \in 0 .. (n - 1) : t2[ch.dir + k] = IF k + 1 < n THEN ch.dir + (k + 1) ELSE Eof
          /\ \A d \in Clusters : d < ch.dir \/ d > ch.dir + n - 1 => t2[d] = new.fat[d]
      BY <2>4 DEF InARow
    <2>7. \A k \in 0 .. (n - 1) : t2[s[k]] = IF k + 1 < n THEN s[k + 1] ELSE Eof
      <3> TAKE k \in 0 .. (n - 1)
      <3>1. t2[s[k]] = IF k + 1 < n THEN ch.dir + (k + 1) ELSE Eof
        BY <1>1, <1>3, <2>6
      <3>2. k + 1 < n => k + 1 \in 0 .. (n - 1)
        BY <1>1
      <3> QED BY <1>1, <1>3, <3>1, <3>2
    <2>8. ASSUME NEW d \in Clusters, \A k \in 0 .. (n - 1) : s[k] # d
          PROVE  t2[d] = new.fat[d]
      <3>1. d < ch.dir \/ d > ch.dir + n - 1
        <4> SUFFICES ASSUME ~(d < ch.dir \/ d > ch.dir + n - 1) PROVE FALSE
          OBVIOUS
        <4>1. d \in Int /\ n \in Int
          BY <1>1, Numbers
        <4>2. d - ch.dir \in 0 .. (n - 1) /\ d = ch.dir + (d - ch.dir)
          BY <2>2, <4>1
        <4>3. s[d - ch.dir] = d
          BY <1>1, <1>3, <4>2
        <4> QED BY <2>8, <4>2, <4>3
      <3> QED BY <2>6, <3>1
    <2>9. \A c \in Clusters : t2[c] \in Clusters \cup {0, Eof}
      <3> TAKE c \in Clusters
      <3>1. CASE \E k \in 0 .. (n - 1) : s[k] = c
        <4>1. PICK k \in 0 .. (n - 1) : s[k] = c
          BY <3>1
        <4>2. k + 1 < n => k + 1 \in 0 .. (n - 1)
          BY <1>1
        <4> QED BY <1>1, <2>7, <4>1, <4>2
      <3>2. CASE ~ \E k \in 0 .. (n - 1) : s[k] = c
        BY <2>8, <3>2
      <3> QED BY <3>1, <3>2
    <2>10. \A k \in 0 .. (n - 2) : t2[s[k]] = s[k + 1]
      <3> TAKE k \in 0 .. (n - 2)
      <3>1. k \in 0 .. (n - 1) /\ k + 1 < n
        BY <1>1
      <3> QED BY <2>7, <3>1
    <2>11. t2 \in [Clusters -> Clusters \cup {0, Eof}]
      BY <2>5, <2>9
    <2>12. t2[new.dir] = Eof
      BY <2>8
    <2> QED BY <2>1, <2>8, <2>10, <2>11, <2>12 DEF t2
  <1> QED BY <1>1, <1>2, <1>3

LEMMA Lengthened ==
  ASSUME Volume, NEW ch \in ChainType, NEW s, Row(fat, ch, s, ch.size),
         \A k \in 0 .. (ch.size - 1) : s[k] \in taken,
         NEW new, Allocated(new, s[ch.size - 1] + 1, ch.flags), new.n # 0,
         NEW s2, s2 = [k \in 0 .. ch.size |-> IF k < ch.size THEN s[k] ELSE new.dir]
  PROVE  /\ Row(LinkedTo(ch, s[ch.size - 1], new), Longer(ch, new), s2, ch.size + 1)
         /\ Longer(ch, new) \in ChainType /\ Longer(ch, new).size = ch.size + 1
         /\ Longer(ch, new).dir = ch.dir /\ Longer(ch, new).flags = new.flags
         /\ ch.flags = Linked => new.flags = Linked
         /\ LinkedTo(ch, s[ch.size - 1], new) \in [Clusters -> Clusters \cup {0, Eof}]
         /\ \A x \in Clusters \ {new.dir} : (\A k \in 0 .. (ch.size - 1) : s[k] # x) =>
              LinkedTo(ch, s[ch.size - 1], new)[x] = fat[x]
  <1> DEFINE n == ch.size
             last == s[n - 1]
             long == Longer(ch, new)
             chained == IF new.flags # ch.flags
                        THEN exfat_chain_cont_cluster(new.fat, ch.dir, n) ELSE new.fat
             t2 == LinkedTo(ch, last, new)
  <1>1. /\ new.dir \in Clusters \ taken
        /\ new.fat \in [Clusters -> Clusters \cup {0, Eof}]
        /\ \A c \in Clusters \ {new.dir} : new.fat[c] = fat[c]
        /\ new.flags \in {Linked, Contiguous}
        /\ new.flags = Linked => new.fat[new.dir] = Eof
        /\ new.flags = Contiguous => ch.flags = Contiguous /\ new.fat = fat
        /\ new.flags = Contiguous /\ last + 1 # Eof => new.dir = last + 1
    BY DEF Allocated
  <1>2. /\ n \in Nat \ {0} /\ n <= NumClusters - 2 /\ NumClusters \in Nat /\ ch.dir \in Clusters
        /\ s[0] = ch.dir
    BY RowIsBounded
  <1>3. /\ \A k \in 0 .. (n - 1) : s[k] \in Clusters /\ s[k] # new.dir
        /\ \A j, k \in 0 .. (n - 1) : s[j] = s[k] => j = k
        /\ ch.flags \in {Linked, Contiguous}
        /\ ch.flags = Contiguous => \A k \in 0 .. (n - 1) : s[k] = ch.dir + k
    BY <1>1 DEF Row
  <1>4. n - 1 \in 0 .. (n - 1) /\ last \in Clusters /\ last \in Int /\ last + 1 # Eof
        /\ (n - 1) + 1 = n /\ 0 \in 0 .. (n - 1) /\ 0 \in 0 .. n /\ n \in 0 .. n /\ 0 < n
    <2>1. n - 1 \in 0 .. (n - 1) /\ (n - 1) + 1 = n /\ 0 \in 0 .. (n - 1) /\ 0 \in 0 .. n /\ n \in 0 .. n
          /\ 0 < n
      BY <1>2
    <2>2. last \in Clusters
      BY <1>3, <2>1
    <2>3. last \in Int /\ last >= 2 /\ Eof = -1
      BY <2>2, Numbers DEF Eof
    <2> QED BY <2>1, <2>2, <2>3
  <1>5. /\ \A k \in 0 .. (n - 1) : s2[k] = s[k]
        /\ s2[n] = new.dir /\ s2[0] = ch.dir
    BY <1>2, <1>4
  <1> HIDE DEF n, last
  <1>6. /\ long.size = n + 1 /\ long.dir = ch.dir /\ long.flags = new.flags /\ long \in ChainType
    <2>1. n + 1 \in 0 .. NumClusters
      BY <1>2
    <2>2. long = [ch EXCEPT !.size = n + 1, !.flags = new.flags]
      BY DEF Longer, n
    <2> QED BY <1>1, <2>1, <2>2 DEF ChainType
  <1> HIDE DEF long
  <1>7. new.flags = Linked =>
          /\ chained \in [Clusters -> Clusters \cup {0, Eof}]
          /\ \A k \in 0 .. (n - 2) : chained[s[k]] = s[k + 1]
          /\ chained[new.dir] = Eof
          /\ \A x \in Clusters \ {new.dir} : (\A k \in 0 .. (n - 1) : s[k] # x) =>
               chained[x] = fat[x]
    <2> SUFFICES ASSUME new.flags = Linked
                 PROVE  /\ chained \in [Clusters -> Clusters \cup {0, Eof}]
                        /\ \A k \in 0 .. (n - 2) : chained[s[k]] = s[k + 1]
                        /\ chained[new.dir] = Eof
                        /\ \A x \in Clusters \ {new.dir} : (\A k \in 0 .. (n - 1) : s[k] # x) =>
                             chained[x] = fat[x]
      OBVIOUS
    <2>1. /\ \A k \in 0 .. (n - 1) : s[k] # new.dir
          /\ new.dir \in Clusters /\ new.fat[new.dir] = Eof /\ Row(fat, ch, s, n) /\ ch.size = n
      BY <1>1, <1>3 DEF n
    <2> QED BY <1>1, <2>1, Chained
  <1>8. t2 = IF new.flags = Linked THEN [chained EXCEPT ![last] = new.dir] ELSE chained
    BY DEF LinkedTo, n
  <1> HIDE DEF t2, chained
  <1>9. CASE new.flags = Linked
    <2>1. t2 = [chained EXCEPT ![last] = new.dir] /\ chained \in [Clusters -> Clusters \cup {0, Eof}]
      BY <1>7, <1>8, <1>9
    <2>2. t2 \in [Clusters -> Clusters \cup {0, Eof}]
      BY <1>1, <2>1
    <2>3. ASSUME NEW k \in 0 .. (n - 1) PROVE t2[s[k]] = s2[k + 1]
      <3>1. CASE k = n - 1
        <4>1. s[k] = last /\ k + 1 = n
          BY <1>4, <3>1 DEF last
        <4> QED BY <1>4, <1>5, <2>1, <4>1
      <3>2. CASE k # n - 1
        <4>1. k \in 0 .. (n - 2) /\ k + 1 \in 0 .. (n - 1)
          BY <1>2, <3>2
        <4>2. s[k] # last
          BY <1>3, <1>4, <3>2 DEF last
        <4> QED BY <1>3, <1>5, <1>7, <1>9, <2>1, <4>1, <4>2
      <3> QED BY <3>1, <3>2
    <2>4. t2[s2[n]] = Eof
      <3>1. new.dir # last
        BY <1>3, <1>4 DEF last
      <3> QED BY <1>5, <1>7, <1>9, <2>1, <3>1
    <2>5. \A x \in Clusters \ {new.dir} : (\A k \in 0 .. (n - 1) : s[k] # x) => t2[x] = fat[x]
      <3> SUFFICES ASSUME NEW x \in Clusters \ {new.dir}, \A k \in 0 .. (n - 1) : s[k] # x
                   PROVE  t2[x] = fat[x]
        OBVIOUS
      <3>1. x # last
        BY <1>4 DEF last
      <3> QED BY <1>7, <1>9, <2>1, <3>1
    <2>6. /\ \A k \in 0 .. n : s2[k] \in Clusters
          /\ \A j, k \in 0 .. n : s2[j] = s2[k] => j = k
      <3>1. \A k \in 0 .. n : k \in 0 .. (n - 1) \/ k = n
        BY <1>2
      <3>2. \A k \in 0 .. n : s2[k] \in Clusters
        BY <1>1, <1>3, <1>5, <3>1
      <3>3. ASSUME NEW j \in 0 .. n, NEW k \in 0 .. n, s2[j] = s2[k] PROVE j = k
        <4>1. CASE j = n \/ k = n
          BY <1>3, <1>5, <3>1, <3>3, <4>1
        <4>2. CASE ~(j = n \/ k = n)
          <5>1. j \in 0 .. (n - 1) /\ k \in 0 .. (n - 1)
            BY <3>1, <4>2
          <5> QED BY <1>3, <1>5, <3>3, <5>1
        <4> QED BY <4>1, <4>2
      <3> QED BY <3>2, <3>3
    <2>7. Links(t2, s2, n + 1)
      <3>1. (n + 1) - 1 = n
        BY <1>2
      <3>2. ASSUME NEW k \in 0 .. n
            PROVE  t2[s2[k]] = IF k + 1 < n + 1 THEN s2[k + 1] ELSE Eof
        <4>1. CASE k \in 0 .. (n - 1)
          <5>1. k + 1 < n + 1
            BY <1>2, <4>1
          <5> QED BY <1>5, <2>3, <4>1, <5>1
        <4>2. CASE k \notin 0 .. (n - 1)
          <5>1. k = n /\ ~(k + 1 < n + 1)
            BY <1>2, <4>2
          <5> QED BY <2>4, <5>1
        <4> QED BY <4>1, <4>2
      <3> QED BY <2>6, <3>1, <3>2 DEF Links
    <2>8. Row(t2, long, s2, n + 1)
      <3>1. (n + 1) - 1 = n /\ n + 1 \in Nat \ {0}
        BY <1>2
      <3> QED BY <1>5, <1>6, <1>9, <2>6, <2>7, <3>1, Numbers DEF Row
    <2> QED BY <1>6, <1>9, <2>2, <2>5, <2>8 DEF n, last, long, t2
  <1>10. CASE new.flags = Contiguous
    <2>1. ch.flags = Contiguous /\ new.fat = fat /\ new.dir = last + 1 /\ chained = fat /\ t2 = fat
      <3>1. new.flags # Linked
        BY <1>10, Numbers
      <3> QED BY <1>1, <1>4, <1>8, <1>10, <3>1 DEF chained
    <2>2. last = ch.dir + (n - 1) /\ ch.dir \in Int
      BY <1>2, <1>3, <1>4, <2>1, Numbers DEF last
    <2>3. \A k \in 0 .. n : s2[k] = ch.dir + k /\ s2[k] \in Clusters
      <3> TAKE k \in 0 .. n
      <3>1. CASE k \in 0 .. (n - 1)
        BY <1>3, <1>5, <2>1, <3>1
      <3>2. CASE k \notin 0 .. (n - 1)
        <4>1. k = n
          BY <1>2, <3>2
        <4>2. (ch.dir + (n - 1)) + 1 = ch.dir + n
          BY <1>2, <2>2
        <4> QED BY <1>1, <1>5, <2>1, <2>2, <4>1, <4>2
      <3> QED BY <3>1, <3>2
    <2>4. \A j, k \in 0 .. n : s2[j] = s2[k] => j = k
      <3> TAKE j, k \in 0 .. n
      <3>1. s2[j] = ch.dir + j /\ s2[k] = ch.dir + k
        BY <2>3
      <3> QED BY <1>2, <2>2, <3>1
    <2>5. Row(t2, long, s2, n + 1)
      <3>1. (n + 1) - 1 = n /\ n + 1 \in Nat \ {0}
        BY <1>2
      <3>2. long.flags # Linked
        BY <1>6, <1>10, Numbers
      <3> QED BY <1>5, <1>6, <1>10, <2>3, <2>4, <3>1, <3>2 DEF Row
    <2>6. t2 \in [Clusters -> Clusters \cup {0, Eof}]
      BY <2>1 DEF Volume
    <2>7. ch.flags # Linked
      BY <2>1, Numbers
    <2> QED BY <1>6, <2>1, <2>5, <2>6, <2>7 DEF n, last, long, t2
  <1> QED BY <1>1, <1>9, <1>10

\* What a call may rely on when it looks for room.
Ready(cells) ==
  /\ Volume /\ dents \in DentsType /\ dir \in [Dirs -> ChainType]
  /\ Laid(fat, dir, cells, taken, others)
  /\ HintFits(hint_uentry)
  /\ \A d \in Dirs : Present(d) =>
       /\ HintOK(hint_uentry, dir[d], cells[d], View(dents, dir, cells)[d])
       /\ UnusedLast(View(dents, dir, cells)[d], Span(dir[d]))

\* The FAT of a chain is not touched: nor is the chain.
LEMMA RowKept ==
  ASSUME NEW t, NEW ch, NEW s, NEW n, Row(t, ch, s, n), NEW t2,
         \A k \in 0 .. (n - 1) : t2[s[k]] = t[s[k]]
  PROVE  Row(t2, ch, s, n)
  BY DEF Row, Links

\* A directory with one more cluster, new, behind its others.
Appended(cells, d, new) ==
  [k \in 0 .. dir[d].size |-> IF k < dir[d].size THEN cells[d][k] ELSE new.dir]

\* What the growth of a directory is given, and what comes of it.
Grows(cells, d, new, D2, cells2, t2, en2) ==
  /\ Ready(cells) /\ d \in Dirs /\ Present(d)
  /\ Allocated(new, cells[d][dir[d].size - 1] + 1, dir[d].flags) /\ new.n # 0
  /\ D2 = [dir EXCEPT ![d] = Longer(dir[d], new)]
  /\ cells2 = [e \in Dirs |-> IF e = d THEN Appended(cells, d, new) ELSE cells[e]]
  /\ t2 = LinkedTo(dir[d], cells[d][dir[d].size - 1], new)
  /\ en2 = [dents EXCEPT ![new.dir] = Filled(Unused)]

LEMMA GrownLaid ==
  ASSUME NEW cells, NEW d, NEW new, NEW D2, NEW cells2, NEW t2, NEW en2,
         Grows(cells, d, new, D2, cells2, t2, en2)
  PROVE  /\ Laid(t2, D2, cells2, new.taken, others)
         /\ t2 \in [Clusters -> Clusters \cup {0, Eof}]
         /\ D2[d] = Longer(dir[d], new) /\ D2[d] # NoChain /\ D2[d] \in ChainType
         /\ D2[d].size = dir[d].size + 1 /\ D2[d].dir = dir[d].dir /\ D2[d].flags = new.flags
         /\ dir[d].flags = Linked => new.flags = Linked
         /\ \A e \in Dirs \ {d} : D2[e] = dir[e] /\ cells2[e] = cells[e]
         /\ \A k \in 0 .. (dir[d].size - 1) : cells2[d][k] = cells[d][k]
         /\ cells2[d][dir[d].size] = new.dir
         /\ Row(t2, D2[d], cells2[d], D2[d].size)
         /\ \A e \in Dirs : dir[e] # NoChain =>
              \A k \in 0 .. (dir[e].size - 1) : cells[e][k] # new.dir
  <1> DEFINE n == dir[d].size
             s2 == Appended(cells, d, new)
             long == Longer(dir[d], new)
  <1>0. /\ Ready(cells) /\ d \in Dirs /\ Present(d)
        /\ Allocated(new, cells[d][dir[d].size - 1] + 1, dir[d].flags) /\ new.n # 0
        /\ D2 = [dir EXCEPT ![d] = Longer(dir[d], new)]
        /\ cells2 = [e \in Dirs |-> IF e = d THEN Appended(cells, d, new) ELSE cells[e]]
        /\ t2 = LinkedTo(dir[d], cells[d][dir[d].size - 1], new)
    BY DEF Grows
  <1> USE <1>0
  <1>1. /\ Volume /\ dir \in [Dirs -> ChainType] /\ Laid(fat, dir, cells, taken, others)
        /\ dir[d] # NoChain /\ dir[d] \in ChainType
    BY DEF Ready, Present
  <1>2. /\ Row(fat, dir[d], cells[d], dir[d].size) /\ dir[d].size \in Nat \ {0}
        /\ \A k \in 0 .. (dir[d].size - 1) : cells[d][k] \in taken
    <2>1. Row(fat, dir[d], cells[d], dir[d].size) /\ dir[d].size \in Nat \ {0}
      BY <1>1, LaidRow
    <2>2. \A k \in 0 .. (dir[d].size - 1) : cells[d][k] \in taken
      BY <1>1 DEF Laid
    <2> QED BY <2>1, <2>2
  <1>3. /\ new.dir \in Clusters \ taken /\ new.taken = taken \cup {new.dir}
    BY DEF Allocated
  <1>4. /\ Row(t2, long, s2, n + 1)
        /\ long \in ChainType /\ long.size = n + 1
        /\ long.dir = dir[d].dir /\ long.flags = new.flags
        /\ dir[d].flags = Linked => new.flags = Linked
        /\ t2 \in [Clusters -> Clusters \cup {0, Eof}]
        /\ \A x \in Clusters \ {new.dir} : (\A k \in 0 .. (n - 1) : cells[d][k] # x) =>
             t2[x] = fat[x]
    <2> DEFINE ch == dir[d]
               s == cells[d]
    <2>1. s2 = [k \in 0 .. ch.size |-> IF k < ch.size THEN s[k] ELSE new.dir]
      BY DEF Appended
    <2>2. /\ ch \in ChainType /\ Row(fat, ch, s, ch.size)
          /\ \A k \in 0 .. (ch.size - 1) : s[k] \in taken
          /\ Allocated(new, s[ch.size - 1] + 1, ch.flags)
      BY <1>1, <1>2
    <2>3. t2 = LinkedTo(ch, s[ch.size - 1], new) /\ long = Longer(ch, new) /\ n = ch.size
      OBVIOUS
    <2>a. new.n # 0
      OBVIOUS
    <2> HIDE <1>0 DEF ch, s, s2, long, n
    <2>4. /\ Row(t2, long, s2, n + 1)
          /\ long \in ChainType /\ long.size = n + 1
          /\ long.dir = ch.dir /\ long.flags = new.flags
          /\ ch.flags = Linked => new.flags = Linked
          /\ t2 \in [Clusters -> Clusters \cup {0, Eof}]
          /\ \A x \in Clusters \ {new.dir} : (\A k \in 0 .. (n - 1) : s[k] # x) => t2[x] = fat[x]
      BY <1>1, <2>1, <2>2, <2>3, <2>a, Lengthened
    <2> QED BY <2>4 DEF ch, s
  <1>5. long # NoChain
    BY <1>2, <1>4, NoChainTyped
  <1>6. /\ D2[d] = long /\ \A e \in Dirs \ {d} : D2[e] = dir[e]
        /\ cells2[d] = s2 /\ \A e \in Dirs \ {d} : cells2[e] = cells[e]
    BY <1>1
  <1>7. /\ \A k \in 0 .. (n - 1) : s2[k] = cells[d][k]
        /\ s2[n] = new.dir
    BY <1>2 DEF Appended
  <1>8. \A e \in Dirs : dir[e] # NoChain =>
          \A k \in 0 .. (dir[e].size - 1) : cells[e][k] # new.dir /\ cells[e][k] \in taken \ others
    BY <1>1, <1>3 DEF Laid
  <1> HIDE DEF n, s2, long
  <1>a. n \in Nat /\ \A k \in 0 .. n : k \in 0 .. (n - 1) \/ k = n
    BY <1>2 DEF n
  <1>b. \A e \in Dirs \ {d} : dir[e] # NoChain =>
          \A k \in 0 .. n, j \in 0 .. (dir[e].size - 1) : s2[k] # cells[e][j]
    <2> TAKE e \in Dirs \ {d}
    <2> SUFFICES ASSUME dir[e] # NoChain, NEW k \in 0 .. n, NEW j \in 0 .. (dir[e].size - 1)
                 PROVE  s2[k] # cells[e][j]
      OBVIOUS
    <2>1. CASE k = n
      BY <1>7, <1>8, <2>1
    <2>2. CASE k # n
      <3>1. k \in 0 .. (n - 1)
        BY <1>a, <2>2
      <3> QED BY <1>1, <1>7, <3>1 DEF Laid, n
    <2> QED BY <2>1, <2>2
  <1>9. Laid(t2, D2, cells2, new.taken, others)
    <2>1. others \subseteq new.taken /\ new.taken \subseteq Clusters
      BY <1>1, <1>3 DEF Laid
    <2>2. ASSUME NEW e \in Dirs, D2[e] # NoChain
          PROVE  /\ Row(t2, D2[e], cells2[e], D2[e].size)
                 /\ \A k \in 0 .. (D2[e].size - 1) : cells2[e][k] \in new.taken \ others
      <3>1. CASE e = d
        <4>1. D2[e] = long /\ cells2[e] = s2 /\ D2[e].size - 1 = n /\ D2[e].size = n + 1
          BY <1>4, <1>6, <1>a, <3>1
        <4>2. \A k \in 0 .. n : s2[k] \in new.taken \ others
          BY <1>1, <1>3, <1>7, <1>8, <1>a DEF Laid, n
        <4> QED BY <1>4, <4>1, <4>2
      <3>2. CASE e # d
        <4>1. D2[e] = dir[e] /\ cells2[e] = cells[e] /\ dir[e] # NoChain
          BY <1>6, <2>2, <3>2
        <4>2. Row(fat, dir[e], cells[e], dir[e].size)
          BY <1>1, <4>1, LaidRow
        <4>3. ASSUME NEW k \in 0 .. (dir[e].size - 1) PROVE t2[cells[e][k]] = fat[cells[e][k]]
          <5>1. cells[e][k] \in Clusters \ {new.dir}
            BY <1>8, <4>1, <4>2 DEF Row
          <5>2. \A j \in 0 .. (n - 1) : cells[d][j] # cells[e][k]
            BY <1>1, <3>2, <4>1 DEF Laid, n
          <5> QED BY <1>4, <5>1, <5>2
        <4>4. Row(t2, dir[e], cells[e], dir[e].size)
          BY <4>2, <4>3, RowKept
        <4> QED BY <1>3, <1>8, <4>1, <4>4
      <3> QED BY <3>1, <3>2
    <2>3. ASSUME NEW e \in Dirs, D2[e] # NoChain, NEW g \in Dirs \ {e}, D2[g] # NoChain,
                 NEW k \in 0 .. (D2[e].size - 1), NEW j \in 0 .. (D2[g].size - 1)
          PROVE  cells2[e][k] # cells2[g][j]
      <3>0. long.size - 1 = n
        BY <1>4, <1>a
      <3>1. CASE e = d
        <4>1. g # d /\ D2[g] = dir[g] /\ cells2[g] = cells[g] /\ cells2[e] = s2 /\ k \in 0 .. n
          BY <1>6, <2>3, <3>0, <3>1
        <4> QED BY <1>b, <2>3, <4>1
      <3>2. CASE g = d
        <4>1. e # d /\ D2[e] = dir[e] /\ cells2[e] = cells[e] /\ cells2[g] = s2 /\ j \in 0 .. n
          BY <1>6, <2>3, <3>0, <3>2
        <4> QED BY <1>b, <2>3, <4>1
      <3>3. CASE e # d /\ g # d
        BY <1>1, <1>6, <2>3, <3>3 DEF Laid
      <3> QED BY <3>1, <3>2, <3>3
    <2> QED BY <2>1, <2>2, <2>3 DEF Laid
  <1> QED BY <1>4, <1>5, <1>6, <1>7, <1>8, <1>9 DEF n, s2, long

LEMMA GrownSeen ==
  ASSUME NEW cells, NEW d, NEW new, NEW D2, NEW cells2, NEW t2, NEW en2,
         Grows(cells, d, new, D2, cells2, t2, en2)
  PROVE  /\ en2 \in DentsType
         /\ Extends(View(dents, dir, cells), dir, cells, View(en2, D2, cells2), D2, cells2, d)
         /\ Span(D2[d]) = Span(dir[d]) + PerCluster
         /\ \A p \in Span(dir[d]) .. (Span(D2[d]) - 1) : View(en2, D2, cells2)[d][p] = Unused
         /\ UnusedLast(View(en2, D2, cells2)[d], Span(D2[d]))
  <1> DEFINE v == View(dents, dir, cells)
             v2 == View(en2, D2, cells2)
             n == dir[d].size
  <1>1. /\ Ready(cells) /\ d \in Dirs /\ Present(d) /\ dir[d] # NoChain
        /\ Volume /\ dir \in [Dirs -> ChainType] /\ Laid(fat, dir, cells, taken, others)
        /\ dents \in DentsType
        /\ en2 = [dents EXCEPT ![new.dir] = Filled(Unused)]
        /\ new.dir \in Clusters /\ UnusedLast(v[d], Span(dir[d]))
    BY DEF Grows, Ready, Present, Allocated
  <1>2. /\ Laid(t2, D2, cells2, new.taken, others)
        /\ D2[d] # NoChain /\ D2[d].size = n + 1 /\ D2[d].flags = new.flags
        /\ dir[d].flags = Linked => new.flags = Linked
        /\ \A e \in Dirs \ {d} : D2[e] = dir[e] /\ cells2[e] = cells[e]
        /\ \A k \in 0 .. (n - 1) : cells2[d][k] = cells[d][k]
        /\ cells2[d][n] = new.dir
        /\ \A e \in Dirs : dir[e] # NoChain =>
             \A k \in 0 .. (dir[e].size - 1) : cells[e][k] # new.dir
    BY GrownLaid
  <1>3. /\ n \in Nat /\ n > 0 /\ Span(dir[d]) = n * PerCluster /\ Span(D2[d]) = (n + 1) * PerCluster
        /\ PerCluster \in Nat \ {0}
    BY <1>1, <1>2, LaidRow, LengthsNat DEF Span
  <1> HIDE DEF n
  <1>4. /\ Span(D2[d]) = Span(dir[d]) + PerCluster /\ Span(dir[d]) \in Nat /\ Span(D2[d]) \in Nat
    BY <1>3, SpanIs
  <1>5. /\ en2 \in DentsType
        /\ \A c \in Clusters \ {new.dir} : en2[c] = dents[c]
        /\ \A i \in 0 .. (PerCluster - 1) : en2[new.dir][i] = Unused
    BY <1>1, GoneTyped DEF DentsType, Filled
  <1>6. ASSUME NEW e \in Dirs, NEW p \in 0 .. (Span(dir[e]) - 1)
        PROVE  /\ cells2[e][Page(p)] = cells[e][Page(p)]
               /\ Seen(en2, cells2[e], p) = Seen(dents, cells[e], p)
    <2>1. dir[e] # NoChain
      <3> SUFFICES ASSUME dir[e] = NoChain PROVE FALSE
        OBVIOUS
      <3>1. Span(dir[e]) = 0
        BY NoChainHasNone DEF NoSpan
      <3> QED BY <3>1
    <2>2. Page(p) \in 0 .. (dir[e].size - 1) /\ cells[e][Page(p)] \in Clusters
      BY <1>1, <2>1, LaidRow
    <2>3. cells[e][Page(p)] # new.dir
      BY <1>2, <2>1, <2>2
    <2>4. cells2[e][Page(p)] = cells[e][Page(p)]
      BY <1>2, <2>2 DEF n
    <2> QED BY <1>5, <2>2, <2>3, <2>4 DEF Seen
  <1>7. ASSUME NEW p \in Span(dir[d]) .. (Span(D2[d]) - 1) PROVE v2[d][p] = Unused
    <2>1. p \in Nat /\ ~(p < n * PerCluster) /\ p < (n + 1) * PerCluster
      BY <1>3, <1>4
    <2>2. ~(Page(p) < n) /\ Page(p) < n + 1 /\ Page(p) \in Nat /\ Place(p) \in 0 .. (PerCluster - 1)
      <3>1. n + 1 \in Nat
        BY <1>3
      <3> QED BY <1>3, <2>1, <3>1, PageIs, PageBelow
    <2>3. Page(p) = n
      BY <1>3, <2>2
    <2>4. Seen(en2, cells2[d], p) = Unused
      BY <1>2, <1>5, <2>2, <2>3 DEF Seen
    <2>5. p \in 0 .. (Span(D2[d]) - 1)
      BY <1>4
    <2> QED BY <1>1, <2>4, <2>5 DEF View
  <1>8. ASSUME NEW e \in Dirs \ {d} PROVE v2[e] = v[e]
    <2>1. D2[e] = dir[e]
      BY <1>2
    <2> QED BY <1>6, <2>1 DEF View
  <1>9. ASSUME NEW p \in 0 .. (Span(dir[d]) - 1) PROVE v2[d][p] = v[d][p]
    <2>1. p \in 0 .. (Span(D2[d]) - 1)
      BY <1>3, <1>4
    <2> QED BY <1>1, <1>6, <2>1 DEF View
  <1> HIDE DEF v, v2
  <1>10. cells2[d][0] = cells[d][0]
    <2>1. 0 \in 0 .. (n - 1)
      BY <1>3
    <2> QED BY <1>2, <2>1
  <1>11. Extends(v, dir, cells, v2, D2, cells2, d)
    <2>1. Span(dir[d]) <= Span(D2[d])
      BY <1>3, <1>4
    <2>2. \A p \in Span(dir[d]) .. (Span(D2[d]) - 1) : v2[d][p].type = "unused"
      BY <1>7, EntryKinds
    <2> QED BY <1>1, <1>2, <1>6, <1>8, <1>9, <1>10, <2>1, <2>2 DEF Extends
  <1>12. UnusedLast(v2[d], Span(D2[d]))
    <2> SUFFICES ASSUME NEW i \in 0 .. (Span(D2[d]) - 1), NEW j \in 0 .. (Span(D2[d]) - 1), i < j,
                        v2[d][i].type = "unused"
                 PROVE  v2[d][j].type = "unused"
      BY DEF UnusedLast
    <2>1. CASE j \in Span(dir[d]) .. (Span(D2[d]) - 1)
      BY <1>7, <2>1, EntryKinds
    <2>2. CASE j \notin Span(dir[d]) .. (Span(D2[d]) - 1)
      <3>1. j \in 0 .. (Span(dir[d]) - 1) /\ i \in 0 .. (Span(dir[d]) - 1)
        BY <1>4, <2>2
      <3> QED BY <1>1, <1>9, <3>1 DEF UnusedLast
    <2> QED BY <2>1, <2>2
  <1> QED BY <1>4, <1>5, <1>7, <1>11, <1>12 DEF v, v2

\* The hint with which the search starts over: it leads to the new cluster.
HintInLonger(chain, hint0, new) ==
  LET kept == IF new.flags # chain.flags THEN HintTurned(hint0) ELSE hint0
  IN IF kept.entry # -1 THEN [kept EXCEPT !.clu.size = @ + 1]
     ELSE [dir |-> chain.dir, entry |-> chain.size * PerCluster,
           clu |-> [dir |-> new.dir, size |-> 1, flags |-> new.flags]]

LEMMA HintLeads ==
  ASSUME NEW cells, NEW d, NEW new, NEW D2, NEW cells2, NEW t2, NEW en2,
         Grows(cells, d, new, D2, cells2, t2, en2),
         NEW h0, HintFits(h0), HintOK(h0, dir[d], cells[d], View(dents, dir, cells)[d]),
         h0.entry = -1 => \A p \in 0 .. (Span(dir[d]) - 1) :
                            View(dents, dir, cells)[d][p].type # "unused",
         h0.entry # -1 => h0.dir = dir[d].dir,
         NEW h, h = HintInLonger(dir[d], h0, new)
  PROVE  /\ h.dir = D2[d].dir /\ h.dir \in Clusters /\ h.entry # -1 /\ h.entry <= Span(dir[d])
         /\ HintOK(h, D2[d], cells2[d], View(en2, D2, cells2)[d])
  <1> DEFINE v == View(dents, dir, cells)
             v2 == View(en2, D2, cells2)
             n == dir[d].size
             kept == IF new.flags # dir[d].flags THEN HintTurned(h0) ELSE h0
  <1>1. /\ Ready(cells) /\ d \in Dirs /\ dir[d] # NoChain
        /\ Laid(fat, dir, cells, taken, others)
        /\ new.flags \in {Linked, Contiguous}
        /\ new.flags = Contiguous => dir[d].flags = Contiguous
    <2>1. new.n # 0 /\ Allocated(new, cells[d][dir[d].size - 1] + 1, dir[d].flags)
      BY DEF Grows
    <2>2. /\ new.flags \in {Linked, Contiguous}
          /\ new.flags = Contiguous => dir[d].flags = Contiguous
      BY <2>1 DEF Allocated
    <2> QED BY <2>2 DEF Grows, Ready, Present
  <1>2. /\ D2[d].size = n + 1 /\ D2[d].flags = new.flags /\ D2[d].dir = dir[d].dir
        /\ \A k \in 0 .. (n - 1) : cells2[d][k] = cells[d][k]
        /\ cells2[d][n] = new.dir
    BY GrownLaid
  <1>3. /\ n \in Nat /\ n > 0 /\ Span(dir[d]) = n * PerCluster /\ dir[d].dir \in Clusters
        /\ Span(dir[d]) \in Nat /\ PerCluster \in Nat \ {0}
        /\ dir[d].flags \in {Linked, Contiguous}
    BY <1>1, LaidRow, LengthsNat DEF Span, Row
  <1>4. /\ Span(D2[d]) = Span(dir[d]) + PerCluster
        /\ \A p \in 0 .. (Span(dir[d]) - 1) : v2[d][p] = v[d][p]
    BY GrownSeen DEF Extends
  <1>5. h = IF kept.entry # -1 THEN [kept EXCEPT !.clu.size = @ + 1]
            ELSE [dir |-> dir[d].dir, entry |-> n * PerCluster,
                  clu |-> [dir |-> new.dir, size |-> 1, flags |-> new.flags]]
    BY DEF HintInLonger
  <1> HIDE DEF n, v, v2
  <1>6. /\ kept.entry = h0.entry /\ kept.dir = h0.dir /\ kept \in HintType
        /\ kept.clu.dir = h0.clu.dir /\ kept.clu.size = h0.clu.size
        /\ h0.entry # -1 => kept.clu.flags = IF new.flags # dir[d].flags THEN Linked ELSE h0.clu.flags
    BY DEF HintTurned, HintFits, HintType, ChainType
  <1> HIDE DEF kept
  <1>7. CASE h0.entry = -1
    <2>1. h = [dir |-> dir[d].dir, entry |-> n * PerCluster,
               clu |-> [dir |-> new.dir, size |-> 1, flags |-> new.flags]]
      BY <1>5, <1>6, <1>7
    <2>2. h.dir = D2[d].dir /\ h.dir \in Clusters /\ h.entry = Span(dir[d]) /\ h.entry # -1
      BY <1>2, <1>3, <2>1
    <2>3. Page(h.entry) = n
      <3>1. 0 \in 0 .. (PerCluster - 1) /\ n * PerCluster + 0 = h.entry
        BY <1>3, <2>2
      <3> QED BY <1>3, <3>1, PageOf
    <2>4. h.entry \in 0 .. (Span(D2[d]) - 1)
      BY <1>3, <1>4, <2>2
    <2>5. \A p \in 0 .. (h.entry - 1) : v2[d][p].type # "unused"
      BY <1>4, <1>7, <2>2 DEF v
    <2>6. RestOf(D2[d], cells2[d], D2[d].size, Page(h.entry), h.clu)
      <3>1. n \in 0 .. ((n + 1) - 1) /\ (n + 1) - n = 1
        BY <1>3
      <3> QED BY <1>2, <2>1, <2>3, <3>1 DEF RestOf
    <2>7. h.entry <= Span(dir[d])
      BY <1>3, <2>2
    <2> QED BY <2>2, <2>4, <2>5, <2>6, <2>7 DEF HintOK, v2
  <1>8. CASE h0.entry # -1
    <2> DEFINE e == h0.entry
               m == Page(h0.entry)
    <2>1. /\ e \in 0 .. (Span(dir[d]) - 1)
          /\ \A p \in 0 .. (e - 1) : v[d][p].type # "unused"
          /\ RestOf(dir[d], cells[d], n, m, h0.clu)
          /\ h0.dir = dir[d].dir
      BY <1>8 DEF HintOK, v, n
    <2>2. /\ h.dir = dir[d].dir /\ h.entry = e /\ h.clu.dir = h0.clu.dir
          /\ h.clu.size = h0.clu.size + 1
          /\ h.clu.flags = IF new.flags # dir[d].flags THEN Linked ELSE h0.clu.flags
      BY <1>5, <1>6, <1>8, <2>1 DEF HintType, ChainType
    <2>3. /\ m \in 0 .. (n - 1) /\ h0.clu.dir = cells[d][m] /\ h0.clu.flags = dir[d].flags
          /\ h0.clu.flags = Contiguous => h0.clu.size = n - m
      BY <2>1 DEF RestOf
    <2>4. RestOf(D2[d], cells2[d], D2[d].size, m, h.clu)
      <3>1. m \in 0 .. ((n + 1) - 1)
        BY <1>3, <2>3
      <3>2. h.clu.dir = cells2[d][m]
        BY <1>2, <2>2, <2>3
      <3>3. h.clu.flags = new.flags
        BY <1>1, <1>3, <2>2, <2>3, Numbers
      <3>4. new.flags = Contiguous => h.clu.size = (n + 1) - m
        <4> SUFFICES ASSUME new.flags = Contiguous PROVE h.clu.size = (n + 1) - m
          OBVIOUS
        <4>1. h.clu.size = (n - m) + 1
          BY <1>1, <2>2, <2>3
        <4> QED BY <1>3, <2>3, <4>1
      <3> QED BY <1>2, <3>1, <3>2, <3>3, <3>4 DEF RestOf
    <2> HIDE DEF e, m
    <2>5. e \in 0 .. (Span(D2[d]) - 1) /\ e # -1 /\ e <= Span(dir[d])
      BY <1>3, <1>4, <2>1
    <2>6. \A p \in 0 .. (e - 1) : v2[d][p].type # "unused"
      <3> TAKE p \in 0 .. (e - 1)
      <3>1. p \in 0 .. (Span(dir[d]) - 1)
        BY <1>3, <2>1
      <3> QED BY <1>4, <2>1, <3>1
    <2>7. m = Page(h.entry)
      BY <2>2 DEF e, m
    <2> QED BY <1>2, <1>3, <2>2, <2>4, <2>5, <2>6, <2>7 DEF HintOK, v2
  <1> QED BY <1>7, <1>8

\* Room was found: where, and what the directories are by then.
RoomIn(cells, d, len, room, cells2) ==
  LET D2 == [dir EXCEPT ![d] = room.chain]
      v2 == View(room.dents, D2, cells2)
  IN /\ room.chain \in ChainType /\ room.dents \in DentsType
     /\ room.fat \in [Clusters -> Clusters \cup {0, Eof}]
     /\ Laid(room.fat, D2, cells2, room.taken, others)
     /\ Extends(View(dents, dir, cells), dir, cells, v2, D2, cells2, d)
     /\ Room(v2, D2, d, room.entry, len)

RoomIs(cells, d, len, room) ==
  /\ room.srch \in Clusters /\ room.used = Unknown
  /\ room.entry # -1 => room.hint = NoHint /\ \E cells2 : RoomIn(cells, d, len, room, cells2)
  /\ room.entry = -1 =>
       /\ room.chain = dir[d] /\ room.taken = taken /\ room.fat = fat
       /\ HintFits(room.hint)
       /\ HintOK(room.hint, dir[d], cells[d], View(dents, dir, cells)[d])

LEMMA RoomFound ==
  ASSUME NEW cells, Ready(cells), NEW d \in Dirs, Present(d), NEW len \in Lengths
  PROVE  RoomIs(cells, d, len, find_empty_entry(dir[d], len))
  <1> DEFINE ch == dir[d]
             s == cells[d]
             v == View(dents, dir, cells)
             n == ch.size
             first == search_deleted_or_unused_entry(fat, dents, ch, hint_uentry, len)
             last == find_last_cluster(ch)
             new == exfat_alloc_cluster(last + 1, ch.flags)
             room == find_empty_entry(ch, len)
  <1>1. /\ Volume /\ dents \in DentsType /\ dir \in [Dirs -> ChainType]
        /\ Laid(fat, dir, cells, taken, others) /\ ch # NoChain /\ ch \in ChainType
        /\ HintFits(hint_uentry) /\ HintOK(hint_uentry, ch, s, v[d])
        /\ UnusedLast(v[d], Span(ch))
    BY DEF Ready, Present
  <1>2. v[d] = SeenAll(dents, s, ch)
    BY DEF View, SeenAll
  <1>3. Row(fat, ch, s, n) /\ n \in Nat \ {0} /\ Span(ch) \in Nat
    BY <1>1, LaidRow
  <1>4. /\ Searched(first, ch, s, v[d], len)
        /\ first.entry = -1 => HintFits(first.hint)
    <2>1. hint_uentry.dir \in Clusters \cup {Eof}
      BY <1>1 DEF HintFits, HintType
    <2> HIDE DEF ch, s, v, n
    <2>2. Row(fat, ch, s, ch.size)
      BY <1>3 DEF n
    <2>3. /\ UnusedLast(SeenAll(dents, s, ch), Span(ch))
          /\ HintOK(hint_uentry, ch, s, SeenAll(dents, s, ch))
      BY <1>1, <1>2
    <2>4. /\ Searched(first, ch, s, SeenAll(dents, s, ch), len)
          /\ first.entry = -1 /\ HintFits(hint_uentry) => HintFits(first.hint)
      BY <1>1, <2>1, <2>2, <2>3, SearchIs
    <2> QED BY <1>1, <1>2, <2>4
  <1>5. CASE first.entry # -1
    <2>1. room = RoomAt(first.entry, first.hint, ch)
      BY <1>5 DEF find_empty_entry
    <2>2. /\ room.entry = first.entry /\ room.hint = first.hint /\ room.chain = ch
          /\ room.dents = dents /\ room.taken = taken /\ room.fat = fat
          /\ room.srch = srch /\ room.used = used
      BY <2>1 DEF RoomAt
    <2> HIDE DEF room, first
    <2>3. [dir EXCEPT ![d] = room.chain] = dir
      BY <1>1, <2>2
    <2>4. /\ room.hint = NoHint /\ room.entry \in Nat /\ room.entry + len <= Span(ch)
          /\ \A q \in room.entry .. (room.entry + len - 1) : IsEmpty(v[d][q])
          /\ \A q \in 0 .. (room.entry - 1) : v[d][q].type # "unused"
      BY <1>4, <1>5, <2>2 DEF Searched
    <2>5. Room(v, dir, d, room.entry, len)
      BY <2>4 DEF Room
    <2>6. Extends(v, dir, cells, v, dir, cells, d)
      <3>1. Span(ch) <= Span(ch) /\ \A p \in Span(ch) .. (Span(ch) - 1) : FALSE
        BY <1>3
      <3> HIDE DEF v
      <3> QED BY <1>1, <3>1 DEF Extends
    <2>7. RoomIn(cells, d, len, room, cells)
      BY <1>1, <2>2, <2>3, <2>5, <2>6 DEF RoomIn, Volume
    <2>8. room.srch \in Clusters /\ room.used = Unknown
      BY <1>1, <2>2 DEF Volume
    <2> HIDE DEF v
    <2> QED BY <1>5, <2>2, <2>4, <2>7, <2>8 DEF RoomIs, room
  <1>6. CASE first.entry = -1
    <2>1. room = RoomInLonger(ch, len, first.hint, last, new)
      BY <1>6 DEF find_empty_entry
    <2>2. last = s[n - 1]
      BY <1>3, LastIs
    <2>3. Allocated(new, last + 1, ch.flags)
      <3>1. n - 1 \in 0 .. (n - 1)
        BY <1>3
      <3>2. last \in Clusters
        BY <1>3, <2>2, <3>1 DEF Row
      <3>3. last + 1 \in Clusters \cup {Eof, NumClusters} /\ ch.flags \in {Linked, Contiguous}
        BY <1>3, <3>2, Numbers DEF Row
      <3> HIDE DEF last, ch
      <3> QED BY <1>1, <3>3, AllocIs
    <2>4. CASE new.n = 0
      <3>1. room = [RoomAt(-1, first.hint, ch) EXCEPT !.srch = new.srch]
        BY <2>1, <2>4 DEF RoomInLonger
      <3>2. /\ room.entry = -1 /\ room.hint = first.hint /\ room.chain = ch
            /\ room.taken = taken /\ room.fat = fat /\ room.srch = new.srch /\ room.used = used
        BY <3>1 DEF RoomAt
      <3> HIDE DEF room, first, new, v
      <3>3. HintOK(room.hint, ch, s, v[d]) /\ HintFits(room.hint)
        BY <1>4, <1>6, <3>2 DEF Searched
      <3> QED BY <1>1, <2>3, <3>2, <3>3 DEF RoomIs, Allocated, Volume, room, v
    <2>5. CASE new.n # 0
      <3> DEFINE D2 == [dir EXCEPT ![d] = Longer(ch, new)]
                 cells2 == [e \in Dirs |-> IF e = d THEN Appended(cells, d, new) ELSE cells[e]]
                 t2 == LinkedTo(ch, last, new)
                 en2 == [dents EXCEPT ![new.dir] = Filled(Unused)]
                 h == HintInLonger(ch, first.hint, new)
                 v2 == View(en2, D2, cells2)
                 found == search_deleted_or_unused_entry(t2, en2, Longer(ch, new), h, len)
      <3>1. room = [entry |-> found.entry, hint |-> found.hint, chain |-> Longer(ch, new),
                    dents |-> en2, taken |-> new.taken, fat |-> t2,
                    srch |-> new.srch, used |-> new.used]
        BY <2>1, <2>5, Zenon DEF RoomInLonger, HintInLonger, Longer, LinkedTo
      <3>2. Grows(cells, d, new, D2, cells2, t2, en2)
        BY <1>1, <2>2, <2>3, <2>5 DEF Grows
      <3> HIDE DEF D2, cells2, t2, en2, new, first, h
      <3>3. /\ Laid(t2, D2, cells2, new.taken, others)
            /\ t2 \in [Clusters -> Clusters \cup {0, Eof}]
            /\ D2[d] = Longer(ch, new) /\ D2[d] \in ChainType /\ D2[d] # NoChain
            /\ Row(t2, D2[d], cells2[d], D2[d].size)
        BY <3>2, GrownLaid
      <3>4. /\ en2 \in DentsType /\ Extends(v, dir, cells, v2, D2, cells2, d)
            /\ Span(D2[d]) = Span(ch) + PerCluster
            /\ \A p \in Span(ch) .. (Span(D2[d]) - 1) : v2[d][p] = Unused
            /\ UnusedLast(v2[d], Span(D2[d]))
        BY <3>2, GrownSeen
      <3>5. /\ HintFits(first.hint) /\ HintOK(first.hint, ch, s, v[d])
            /\ first.hint.entry = -1 => \A p \in 0 .. (Span(ch) - 1) : v[d][p].type # "unused"
            /\ first.hint.entry # -1 => first.hint.dir = ch.dir
        BY <1>4, <1>6 DEF Searched
      <3>6. /\ h.dir = D2[d].dir /\ h.dir \in Clusters /\ h.entry # -1 /\ h.entry <= Span(ch)
            /\ HintOK(h, D2[d], cells2[d], v2[d])
        <4> HIDE DEF v, v2
        <4> QED BY <3>2, <3>5, HintLeads DEF v, v2, h
      <3>7. v2[d] = SeenAll(en2, cells2[d], D2[d])
        BY DEF View, SeenAll
      <3> HIDE DEF v2, v
      <3> DEFINE L == D2[d]
                 S == cells2[d]
      <3>8. /\ Searched(found, L, S, v2[d], len)
            /\ \A p \in Nat : /\ h.entry <= p /\ p + len <= Span(L)
                              /\ \A q \in p .. (p + len - 1) : IsEmpty(v2[d][q])
                              => found.entry # -1
        <4>1. found = search_deleted_or_unused_entry(t2, en2, L, h, len)
          BY <3>3
        <4>2. /\ L \in ChainType /\ Row(t2, L, S, L.size)
              /\ UnusedLast(SeenAll(en2, S, L), Span(L)) /\ h.dir \in Clusters \cup {Eof}
              /\ HintOK(h, L, S, SeenAll(en2, S, L)) /\ h.dir = L.dir /\ h.entry # -1
              /\ v2[d] = SeenAll(en2, S, L)
          BY <3>3, <3>4, <3>6, <3>7
        <4> HIDE DEF L, S, found
        <4>3. /\ Searched(found, L, S, SeenAll(en2, S, L), len)
              /\ \A p \in Nat : /\ h.entry <= p /\ p + len <= Span(L)
                                /\ \A q \in p .. (p + len - 1) : IsEmpty(SeenAll(en2, S, L)[q])
                                => found.entry # -1
          BY <4>1, <4>2, SearchIs
        <4> QED BY <4>2, <4>3
      <3>9. found.entry # -1
        <4> DEFINE p == Span(ch)
        <4>1. len \in Nat \ {0} /\ len <= PerCluster /\ PerCluster \in Nat
          BY LengthsNat
        <4>2. p \in Nat /\ h.entry <= p /\ p + len <= Span(L)
          BY <1>3, <3>4, <3>6, <4>1
        <4>3. ASSUME NEW q \in p .. (p + len - 1) PROVE IsEmpty(v2[d][q])
          <5>1. q \in Span(ch) .. (Span(D2[d]) - 1)
            BY <1>3, <3>4, <4>1
          <5> QED BY <3>4, <5>1, EntryKinds
        <4> HIDE DEF p, found, L
        <4> QED BY <3>8, <4>2, <4>3
      <3>10. /\ found.hint = NoHint /\ found.entry \in Nat
             /\ Room(v2, D2, d, found.entry, len)
        <4> HIDE DEF found
        <4> QED BY <3>8, <3>9 DEF Searched, Room
      <3>11. /\ room.entry = found.entry /\ room.hint = found.hint /\ room.chain = D2[d]
             /\ room.dents = en2 /\ room.taken = new.taken /\ room.fat = t2
             /\ room.srch = new.srch /\ room.used = new.used
        BY <3>1, <3>3
      <3>12. D2 = [dir EXCEPT ![d] = D2[d]]
        BY <1>1, <3>3 DEF D2
      <3> HIDE DEF room, found, L, S
      <3>13. RoomIn(cells, d, len, room, cells2)
        BY <3>3, <3>4, <3>10, <3>11, <3>12 DEF RoomIn, v, v2
      <3>14. room.srch \in Clusters /\ room.used = Unknown
        BY <2>3, <3>11 DEF Allocated
      <3> QED BY <3>9, <3>10, <3>11, <3>13, <3>14 DEF RoomIs, room
    <2> QED BY <2>4, <2>5
  <1> QED BY <1>5, <1>6

-------------------------------------------------------------------------------
(* What every state has *)

FidType == [Files -> [st : {"absent", "cached", "evicted"}, in : Dirs \cup {NoDir},
                      len : {0} \cup Lengths, dir : ChainType, entry : {-1} \cup Positions]]
Forgotten == NoFid("absent", NoDir, 0)

\* Nothing is known of a file that is not there.
Inodes(F) == F \in FidType /\ \A f \in Files : F[f].st = "absent" => F[f] = Forgotten

Hinted(h, v, D, cells) ==
  /\ HintFits(h)
  /\ \A d \in Dirs : D[d] # NoChain => HintOK(h, D[d], cells[d], v[d])

\* The directories' clusters and where in them the files' sets are.
Kept(t, en, D, F, h, tk, ot, cells, at) ==
  /\ en \in DentsType /\ D \in [Dirs -> ChainType] /\ DOMAIN at = Files
  /\ Inodes(F)
  /\ Laid(t, D, cells, tk, ot)
  /\ Hinted(h, View(en, D, cells), D, cells)
  /\ Holding(View(en, D, cells), D, cells, F, at)

LEMMA NoHintHints ==
  ASSUME NEW t, NEW D, NEW cells, NEW tk, NEW ot, Laid(t, D, cells, tk, ot), NEW v
  PROVE  Hinted(NoHint, v, D, cells)
  <1>1. \A d \in Dirs : D[d] # NoChain => D[d].dir \in Clusters
    BY LaidRow
  <1>2. Eof \notin Clusters
    BY Numbers
  <1> QED BY <1>1, <1>2, NoHintFits DEF Hinted, HintOK

\* Nothing that is written looks unused.
Solid(A) == \A p \in DOMAIN A : A[p].type # "unused"

LEMMA HintedOver ==
  ASSUME NEW h, NEW v, NEW D, NEW cells, Hinted(h, v, D, cells), IsView(v, D),
         NEW d \in Dirs, NEW A, Solid(A)
  PROVE  Hinted(h, Over(v, d, A), D, cells)
  <1> DEFINE v2 == Over(v, d, A)
  <1>1. /\ \A e \in Dirs \ {d} : v2[e] = v[e]
        /\ \A p \in 0 .. (Span(D[d]) - 1) : v2[d][p] = IF p \in DOMAIN A THEN A[p] ELSE v[d][p]
    BY OverIs
  <1>2. \A e \in Dirs : \A p \in 0 .. (Span(D[e]) - 1) :
          v[e][p].type # "unused" => v2[e][p].type # "unused"
    BY <1>1 DEF Solid
  <1> HIDE DEF v2
  <1>3. ASSUME NEW e \in Dirs, D[e] # NoChain PROVE HintOK(h, D[e], cells[e], v2[e])
    <2>1. HintOK(h, D[e], cells[e], v[e])
      BY <1>3 DEF Hinted
    <2>2. Span(D[e]) \in Nat
      BY DEF IsView
    <2>3. h.entry \in 0 .. (Span(D[e]) - 1) =>
            \A p \in 0 .. (h.entry - 1) : p \in 0 .. (Span(D[e]) - 1)
      BY <2>2
    <2> QED BY <1>2, <2>1, <2>3 DEF HintOK
  <1> QED BY <1>3 DEF Hinted, v2

LEMMA SolidSets ==
  /\ \A f, p, len : Solid(SetOf(f, p, len))
  /\ \A first, last : Solid(Gone(first, last))
  BY EntryKinds DEF Solid, SetOf, Gone

LEMMA InodesKept ==
  ASSUME NEW F, Inodes(F), NEW f \in Files
  PROVE  /\ \A x \in [st : {"cached", "evicted"}, in : Dirs, len : Lengths, dir : ChainType,
                      entry : {-1} \cup Positions] : Inodes([F EXCEPT ![f] = x])
         /\ Inodes([F EXCEPT ![f] = Forgotten]) /\ Forgotten.st = "absent"
         /\ DOMAIN F = Files
  <1>1. Forgotten \in [st : {"absent", "cached", "evicted"}, in : Dirs \cup {NoDir},
                       len : {0} \cup Lengths, dir : ChainType, entry : {-1} \cup Positions]
        /\ Forgotten.st = "absent"
    BY NoChainTyped DEF Forgotten, NoFid
  <1> HIDE DEF Forgotten
  <1> QED BY <1>1 DEF Inodes, FidType

LEMMA PlaceTyped ==
  ASSUME NEW t, NEW D, NEW cells, NEW tk, NEW ot, Laid(t, D, cells, tk, ot),
         NEW d \in Dirs, D[d] # NoChain, NEW p \in Nat, NEW len \in Lengths,
         p + len <= Span(D[d])
  PROVE  p \in Positions /\ p \in 0 .. (Span(D[d]) - 1)
  <1>1. Row(t, D[d], cells[d], D[d].size)
    BY LaidRow
  <1>2. Span(D[d]) \in Nat /\ \A q \in 0 .. (Span(D[d]) - 1) : q \in Positions
    BY <1>1, SpanFits
  <1>3. len \in Nat \ {0}
    BY LengthsNat
  <1>4. p \in 0 .. (Span(D[d]) - 1)
    BY <1>2, <1>3
  <1> QED BY <1>2, <1>4

\* An inode is made, forgotten or gets another copy of its directory's chain.
LEMMA KeptRenoded ==
  ASSUME NEW t, NEW en, NEW D, NEW F, NEW h, NEW tk, NEW ot, NEW cells, NEW at,
         Kept(t, en, D, F, h, tk, ot, cells, at),
         NEW f \in Files, F[f].st # "absent",
         NEW st \in {"cached", "evicted"}, NEW ch \in ChainType, NEW p \in {-1} \cup Positions,
         st = "cached" => /\ p = at[f]
                          /\ Leads(ch, D[F[f].in].flags, cells[F[f].in], at[f], F[f].len),
         NEW x, x = [st |-> st, in |-> F[f].in, len |-> F[f].len, dir |-> ch, entry |-> p]
  PROVE  Kept(t, en, D, [F EXCEPT ![f] = x], h, tk, ot, cells, at)
  <1>1. Inodes(F) /\ Holding(View(en, D, cells), D, cells, F, at)
    BY DEF Kept
  <1>2. F[f].in \in Dirs /\ F[f].len \in Lengths
    BY <1>1, StandsFacts
  <1>3. Inodes([F EXCEPT ![f] = x])
    BY <1>1, <1>2, InodesKept
  <1>4. Holding(View(en, D, cells), D, cells, [F EXCEPT ![f] = x], at)
    <2>1. /\ x.st # "absent" /\ x.in = F[f].in /\ x.len = F[f].len
          /\ x.st = "cached" => /\ x.entry = at[f]
                                /\ Leads(x.dir, D[x.in].flags, cells[x.in], at[f], x.len)
      OBVIOUS
    <2>2. DOMAIN F = Files
      BY <1>1, InodesKept
    <2> QED BY <1>1, <2>1, <2>2, Renoded
  <1> QED BY <1>3, <1>4 DEF Kept

\* A file's set is deleted and its inode forgotten.
LEMMA KeptRemoved ==
  ASSUME NEW t, NEW en, NEW D, NEW F, NEW h, NEW tk, NEW ot, NEW cells, NEW at,
         Kept(t, en, D, F, h, tk, ot, cells, at),
         NEW f \in Files, F[f].st # "absent", NEW ch,
         Leads(ch, D[F[f].in].flags, cells[F[f].in], at[f], F[f].len),
         NEW W, W = remove_file(t, en, ch, at[f])
  PROVE  Kept(t, W, D, [F EXCEPT ![f] = Forgotten], h, tk, ot, cells, at)
  <1> DEFINE v == View(en, D, cells)
             A == Gone(at[f], at[f] + F[f].len - 1)
  <1>1. /\ en \in DentsType /\ Inodes(F) /\ Laid(t, D, cells, tk, ot)
        /\ Hinted(h, v, D, cells) /\ Holding(v, D, cells, F, at) /\ IsView(v, D)
    BY ViewIs DEF Kept
  <1>2. W \in DentsType /\ View(W, D, cells) = Over(v, F[f].in, A)
    BY <1>1, SetIsRemoved
  <1>3. Inodes([F EXCEPT ![f] = Forgotten]) /\ Forgotten.st = "absent" /\ DOMAIN F = Files
        /\ F[f].in \in Dirs
    BY <1>1, InodesKept, StandsFacts
  <1>4. Holding(Over(v, F[f].in, A), D, cells, [F EXCEPT ![f] = Forgotten], at)
    BY <1>1, <1>3, Drop
  <1>5. Hinted(h, Over(v, F[f].in, A), D, cells)
    BY <1>1, <1>3, HintedOver, SolidSets
  <1> QED BY <1>2, <1>3, <1>4, <1>5 DEF Kept

\* The set of a new file is written where there is room.
LEMMA KeptCreated ==
  ASSUME NEW t, NEW en, NEW D, NEW F, NEW h, NEW tk, NEW ot, NEW cells, NEW at,
         Kept(t, en, D, F, h, tk, ot, cells, at),
         NEW f \in Files, F[f].st = "absent", NEW d \in Dirs, D[d] # NoChain,
         NEW len \in Lengths, NEW p, Room(View(en, D, cells), D, d, p, len), NEW ch \in ChainType,
         Leads(ch, D[d].flags, cells[d], p, len),
         NEW W, W = exfat_init_ext_entry(t, en, D[d], p, f, len),
         NEW x, x = [st |-> "cached", in |-> d, len |-> len, dir |-> ch, entry |-> p]
  PROVE  Kept(t, W, D, [F EXCEPT ![f] = x], h, tk, ot, cells, [at EXCEPT ![f] = p])
  <1> DEFINE v == View(en, D, cells)
             A == SetOf(f, p, len)
  <1>1. /\ en \in DentsType /\ Inodes(F) /\ Laid(t, D, cells, tk, ot) /\ DOMAIN at = Files
        /\ Hinted(h, v, D, cells) /\ Holding(v, D, cells, F, at) /\ IsView(v, D)
    BY ViewIs DEF Kept
  <1>2. p \in Nat /\ p + len <= Span(D[d])
    BY DEF Room
  <1>3. p \in Positions
    BY <1>1, <1>2, PlaceTyped
  <1>4. W \in DentsType /\ View(W, D, cells) = Over(v, d, A)
    BY <1>1, <1>2, SetIsWritten
  <1>5. Inodes([F EXCEPT ![f] = x]) /\ DOMAIN F = Files
    BY <1>1, <1>3, InodesKept
  <1>6. Holding(Over(v, d, A), D, cells, [F EXCEPT ![f] = x], [at EXCEPT ![f] = p])
    <2>1. /\ x.st = "cached" /\ x.in = d /\ x.len = len /\ x.entry = p
          /\ Leads(x.dir, D[d].flags, cells[d], p, len)
      OBVIOUS
    <2> HIDE DEF v
    <2> QED BY <1>1, <1>5, <2>1, Put DEF v
  <1>7. Hinted(h, Over(v, d, A), D, cells)
    BY <1>1, HintedOver, SolidSets
  <1>8. DOMAIN [at EXCEPT ![f] = p] = Files
    BY <1>1
  <1> QED BY <1>1, <1>4, <1>5, <1>6, <1>7, <1>8 DEF Kept

\* A set is written where there is room, and deleted where it was.
LEMMA KeptMoved ==
  ASSUME NEW t, NEW en, NEW D, NEW F, NEW h, NEW tk, NEW ot, NEW cells, NEW at,
         Kept(t, en, D, F, h, tk, ot, cells, at),
         NEW f \in Files, F[f].st # "absent", NEW e \in Dirs, D[e] # NoChain,
         NEW len \in Lengths, NEW p, Room(View(en, D, cells), D, e, p, len), NEW ch \in ChainType,
         Leads(ch, D[e].flags, cells[e], p, len),
         NEW old, Leads(old, D[F[f].in].flags, cells[F[f].in], at[f], F[f].len),
         NEW set, set = exfat_init_ext_entry(t, en, D[e], p, f, len),
         NEW W, W = exfat_delete_dir_entry(t, set, old, at[f], 0, F[f].len),
         NEW x, x = [st |-> "cached", in |-> e, len |-> len, dir |-> ch, entry |-> p]
  PROVE  Kept(t, W, D, [F EXCEPT ![f] = x], h, tk, ot, cells, [at EXCEPT ![f] = p])
  <1> DEFINE v == View(en, D, cells)
             d == F[f].in
             n == F[f].len
             A == SetOf(f, p, len)
             B == Gone(at[f], at[f] + n - 1)
             F1 == [F EXCEPT ![f] = Forgotten]
             at2 == [at EXCEPT ![f] = p]
  <1>1. /\ en \in DentsType /\ Inodes(F) /\ Laid(t, D, cells, tk, ot) /\ DOMAIN at = Files
        /\ Hinted(h, v, D, cells) /\ Holding(v, D, cells, F, at) /\ IsView(v, D)
    BY ViewIs DEF Kept
  <1>2. p \in Nat /\ p + len <= Span(D[e])
    BY DEF Room
  <1>3. p \in Positions
    BY <1>1, <1>2, PlaceTyped
  <1>4. /\ d \in Dirs /\ D[d] # NoChain /\ n \in Nat \ {0} /\ at[f] \in Nat
        /\ at[f] + n <= Span(D[d])
        /\ Finds(t, old, cells[d], at[f], n)
    <2>1. /\ d \in Dirs /\ D[d] # NoChain /\ n \in Nat \ {0} /\ at[f] \in Nat
          /\ at[f] + n <= Span(D[d])
      BY <1>1, StandsFacts
    <2>2. Finds(t, old, cells[d], at[f], n)
      BY <1>1, SetIsRead
    <2> QED BY <2>1, <2>2
  <1>5. Inodes([F EXCEPT ![f] = x]) /\ DOMAIN F = Files /\ Forgotten.st = "absent"
    BY <1>1, <1>3, InodesKept
  <1> HIDE DEF v
  <1>6. set \in DentsType /\ View(set, D, cells) = Over(v, e, A)
    BY <1>1, <1>2, SetIsWritten DEF v
  <1>7. W \in DentsType /\ View(W, D, cells) = Over(Over(v, e, A), d, B)
    <2> HIDE DEF A, B, d, n
    <2>1. at[f] + 0 = at[f] /\ 0 \in 0 .. n /\ n \in Nat
      BY <1>4
    <2>2. W \in DentsType /\ View(W, D, cells) = Over(View(set, D, cells), d,
                                                     Gone(at[f] + 0, at[f] + n - 1))
      BY <1>1, <1>4, <1>6, <2>1, SetIsDeleted DEF n
    <2> QED BY <1>6, <2>1, <2>2 DEF B
  <1>8. Holding(Over(v, d, B), D, cells, F1, at)
    BY <1>1, <1>5, Drop
  <1>9. /\ Room(Over(v, d, B), D, e, p, len)
        /\ e = d => \A q \in p .. (p + len - 1) : q \notin at[f] .. (at[f] + n - 1)
    BY <1>1, <1>2, RoomLeft DEF v
  <1>10. Over(Over(v, e, A), d, B) = Over(Over(v, d, B), e, A)
    <2>1. DOMAIN A = p .. (p + len - 1) /\ DOMAIN B = at[f] .. (at[f] + n - 1)
      BY DEF SetOf, Gone
    <2>2. d # e \/ DOMAIN A \cap DOMAIN B = {}
      BY <1>9, <2>1
    <2> HIDE DEF A, B, d, n
    <2> QED BY <2>2, OverSwaps
  <1>11. IsView(Over(v, d, B), D)
    BY <1>1, <1>4, OverIs
  <1>12. Holding(Over(Over(v, d, B), e, A), D, cells, [F1 EXCEPT ![f] = x], at2)
    <2>1. /\ x.st = "cached" /\ x.in = e /\ x.len = len /\ x.entry = p
          /\ Leads(x.dir, D[e].flags, cells[e], p, len)
      OBVIOUS
    <2>2. DOMAIN F1 = Files /\ F1[f].st = "absent"
      BY <1>5
    <2> DEFINE v1 == Over(v, d, B)
    <2> HIDE DEF v1, F1
    <2>3. Holding(v1, D, cells, F1, at) /\ IsView(v1, D) /\ Room(v1, D, e, p, len)
      BY <1>8, <1>9, <1>11 DEF v1, F1
    <2>4. Holding(Over(v1, e, SetOf(f, p, len)), D, cells, [F1 EXCEPT ![f] = x],
                  [at EXCEPT ![f] = p])
      BY <1>1, <2>1, <2>2, <2>3, Put
    <2> QED BY <2>4 DEF v1
  <1>13. [F1 EXCEPT ![f] = x] = [F EXCEPT ![f] = x]
    BY <1>5
  <1>14. Hinted(h, Over(Over(v, e, A), d, B), D, cells)
    <2>1. Hinted(h, Over(v, e, A), D, cells) /\ IsView(Over(v, e, A), D)
      BY <1>1, HintedOver, OverIs, SolidSets
    <2> QED BY <1>4, <2>1, HintedOver, SolidSets
  <1>15. DOMAIN at2 = Files
    BY <1>1
  <1> HIDE DEF A, B, d, n, F1, at2
  <1> QED BY <1>1, <1>5, <1>7, <1>10, <1>12, <1>13, <1>14, <1>15 DEF Kept, at2

\* A set gets a name that is not longer: it stays, and what it leaves is deleted.
LEMMA KeptShortened ==
  ASSUME NEW t, NEW en, NEW D, NEW F, NEW h, NEW tk, NEW ot, NEW cells, NEW at,
         Kept(t, en, D, F, h, tk, ot, cells, at),
         NEW f \in Files, F[f].st # "absent", NEW len \in Lengths, len <= F[f].len,
         NEW set, set = exfat_init_ext_entry(t, en, D[F[f].in], at[f], f, len),
         NEW W, W = exfat_delete_dir_entry(t, set, D[F[f].in], at[f], len, F[f].len),
         NEW x, x = [st |-> "cached", in |-> F[f].in, len |-> len, dir |-> D[F[f].in],
                     entry |-> at[f]]
  PROVE  Kept(t, W, D, [F EXCEPT ![f] = x], h, tk, ot, cells, [at EXCEPT ![f] = at[f]])
  <1> DEFINE v == View(en, D, cells)
             d == F[f].in
             n == F[f].len
             p == at[f]
             A == SetOf(f, p, len)
             B == Gone(p, p + n - 1)
             B2 == Gone(p + len, p + n - 1)
             F1 == [F EXCEPT ![f] = Forgotten]
  <1>1. /\ en \in DentsType /\ Inodes(F) /\ Laid(t, D, cells, tk, ot) /\ DOMAIN at = Files
        /\ D \in [Dirs -> ChainType]
        /\ Hinted(h, v, D, cells) /\ Holding(v, D, cells, F, at) /\ IsView(v, D)
    BY ViewIs DEF Kept
  <1>2. /\ d \in Dirs /\ D[d] # NoChain /\ n \in Nat \ {0} /\ p \in Nat
        /\ p + n <= Span(D[d]) /\ n \in Lengths
    BY <1>1, StandsFacts
  <1>3. len \in Nat \ {0} /\ p + len <= Span(D[d]) /\ Span(D[d]) \in Nat /\ len \in 0 .. n
    BY <1>1, <1>2, LengthsNat DEF IsView
  <1>4. Row(t, D[d], cells[d], D[d].size) /\ Span(D[d]) = D[d].size * PerCluster
    BY <1>1, <1>2, LaidRow DEF Span
  <1>5. /\ Finds(t, D[d], cells[d], p, n)
        /\ Leads(D[d], D[d].flags, cells[d], p, len)
    <2> HIDE DEF d, n, p
    <2>1. n \in Nat /\ len \in Nat
      BY <1>2, <1>3
    <2>2. p + n <= D[d].size * PerCluster /\ p + len <= D[d].size * PerCluster
      BY <1>2, <1>3, <1>4
    <2>3. Leads(D[d], D[d].flags, cells[d], p, len) /\ Leads(D[d], D[d].flags, cells[d], p, n)
      BY <1>2, <1>4, <2>1, <2>2, ChainLeads
    <2> QED BY <1>2, <1>4, <2>1, <2>2, <2>3, LeadsFinds
  <1>6. p \in Positions /\ D[d] \in ChainType
    BY <1>1, <1>2, PlaceTyped
  <1>7. Inodes([F EXCEPT ![f] = x]) /\ DOMAIN F = Files /\ Forgotten.st = "absent"
    BY <1>1, <1>2, <1>6, InodesKept
  <1> HIDE DEF v
  <1>8. set \in DentsType /\ View(set, D, cells) = Over(v, d, A)
    BY <1>1, <1>2, <1>3, SetIsWritten DEF v
  <1>9. W \in DentsType /\ View(W, D, cells) = Over(Over(v, d, A), d, B2)
    <2> HIDE DEF A, d, n, p
    <2>1. n \in Nat
      BY <1>2
    <2>2. W \in DentsType /\ View(W, D, cells) = Over(View(set, D, cells), d,
                                                     Gone(p + len, p + n - 1))
      BY <1>1, <1>2, <1>3, <1>5, <1>8, <2>1, SetIsDeleted DEF d, n, p
    <2> QED BY <1>8, <2>2
  <1>10. Over(Over(v, d, A), d, B2) = Over(Over(v, d, B), d, A)
    <2> HIDE DEF d, n, p
    <2> HIDE DEF A, B, B2
    <2>1. p \in Nat /\ n \in Nat /\ len \in Nat /\ len <= n
      BY <1>2, <1>3
    <2>2. Over(Over(v, d, SetOf(f, p, len)), d, Gone(p + len, p + n - 1)) =
            Over(Over(v, d, Gone(p, p + n - 1)), d, SetOf(f, p, len))
      <3> DEFINE Same(vv, dd, g, q, l, m) ==
                   Over(Over(vv, dd, SetOf(g, q, l)), dd, Gone(q + l, q + m - 1)) =
                     Over(Over(vv, dd, Gone(q, q + m - 1)), dd, SetOf(g, q, l))
      <3>1. \A vv, dd, g : \A q, l, m \in Nat : l <= m => Same(vv, dd, g, q, l, m)
        BY OverShorter
      <3> HIDE DEF Same
      <3>2. Same(v, d, f, p, len, n)
        BY <2>1, <3>1
      <3> QED BY <3>2 DEF Same
    <2> QED BY <2>2 DEF A, B, B2
  <1>11. Holding(Over(v, d, B), D, cells, F1, at)
    BY <1>1, <1>7, Drop
  <1>12. Room(Over(v, d, B), D, d, p, len)
    BY <1>1, <1>2, RoomLeft DEF v
  <1>13. IsView(Over(v, d, B), D)
    BY <1>1, <1>2, OverIs
  <1>14. Holding(Over(Over(v, d, B), d, A), D, cells, [F1 EXCEPT ![f] = x], [at EXCEPT ![f] = p])
    <2>1. /\ x.st = "cached" /\ x.in = d /\ x.len = len /\ x.entry = p
          /\ Leads(x.dir, D[d].flags, cells[d], p, len)
      BY <1>5
    <2>2. DOMAIN F1 = Files /\ F1[f].st = "absent"
      BY <1>7
    <2> DEFINE v1 == Over(v, d, B)
    <2> HIDE DEF v1, F1, d, p
    <2>3. Holding(v1, D, cells, F1, at) /\ IsView(v1, D) /\ Room(v1, D, d, p, len)
      BY <1>11, <1>12, <1>13 DEF v1, F1
    <2>4. Holding(Over(v1, d, SetOf(f, p, len)), D, cells, [F1 EXCEPT ![f] = x],
                  [at EXCEPT ![f] = p])
      BY <1>1, <1>2, <2>1, <2>2, <2>3, Put
    <2> QED BY <2>4 DEF v1
  <1>15. [F1 EXCEPT ![f] = x] = [F EXCEPT ![f] = x]
    BY <1>7
  <1>16. Hinted(h, Over(Over(v, d, A), d, B2), D, cells)
    <2>1. Hinted(h, Over(v, d, A), D, cells) /\ IsView(Over(v, d, A), D)
      BY <1>1, <1>2, HintedOver, OverIs, SolidSets
    <2> QED BY <1>2, <2>1, HintedOver, SolidSets
  <1>17. DOMAIN [at EXCEPT ![f] = p] = Files
    BY <1>1
  <1> HIDE DEF A, B, B2, d, n, F1
  <1> QED BY <1>1, <1>7, <1>9, <1>10, <1>14, <1>15, <1>16, <1>17 DEF Kept, p

\* Room was found in a directory, which grew for it or not.
LEMMA KeptExtended ==
  ASSUME NEW cells, NEW at, Kept(fat, dents, dir, fid, hint_uentry, taken, others, cells, at),
         NEW d \in Dirs, NEW len, NEW room, NEW cells2, RoomIn(cells, d, len, room, cells2)
  PROVE  Kept(room.fat, room.dents, [dir EXCEPT ![d] = room.chain], fid, NoHint, room.taken,
              others, cells2, at)
  <1> DEFINE D2 == [dir EXCEPT ![d] = room.chain]
             v2 == View(room.dents, D2, cells2)
             v == View(dents, dir, cells)
  <1>1. /\ room.chain \in ChainType /\ room.dents \in DentsType
        /\ Laid(room.fat, D2, cells2, room.taken, others)
        /\ Extends(v, dir, cells, v2, D2, cells2, d)
    BY DEF RoomIn
  <1>2. /\ dir \in [Dirs -> ChainType] /\ DOMAIN at = Files /\ Inodes(fid)
        /\ Laid(fat, dir, cells, taken, others) /\ Holding(v, dir, cells, fid, at)
    BY DEF Kept
  <1>3. D2 \in [Dirs -> ChainType]
    BY <1>1, <1>2
  <1>4. IsView(v, dir)
    BY <1>2, ViewIs
  <1> HIDE DEF D2, v
  <1>5. IsView(v2, D2)
    BY <1>1, ViewIs
  <1> HIDE DEF v2
  <1>6. Holding(v2, D2, cells2, fid, at)
    BY <1>1, <1>2, <1>4, <1>5, Extended
  <1>7. Hinted(NoHint, v2, D2, cells2)
    BY <1>1, NoHintHints
  <1> QED BY <1>1, <1>2, <1>3, <1>6, <1>7 DEF Kept, D2, v2

-------------------------------------------------------------------------------
(* The invariant *)

\* Unless a rename turns its own directory, or a refusal leaves the hint at
\* another one, a call finds what the call before it left.
Ordinary == RenamesTurn = FALSE /\ RefusalsSpoil = FALSE

\* Who has looked a name up holds its directories until the call.
Asking ==
  /\ \A r \in asked :
       /\ r.file \in Files /\ r.to \in Dirs /\ Present(r.to) /\ r.len \in Lengths
       /\ \/ r.from = NoDir /\ fid[r.file].st = "absent"
          \/ Cached(r.file) /\ r.from = fid[r.file].in
  /\ \A r, q \in asked : r.file = q.file => r = q

Somehow(t, en, D, F, h, tk, ot) == \E cells, at : Kept(t, en, D, F, h, tk, ot, cells, at)

IInv == Volume /\ Asking /\ Somehow(fat, dents, dir, fid, hint_uentry, taken, others)

LEMMA Later ==
  ASSUME Volume', Asking', Somehow(fat', dents', dir', fid', hint_uentry', taken', others')
  PROVE  IInv'
  BY DEF IInv

LEMMA SameVolume ==
  ASSUME Volume, taken' = taken, fat' = fat, srch' = srch, used' = used
  PROVE  Volume'
  BY DEF Volume

\* Nobody but the calls that have done their lookup is in the way of a step.
LEMMA AskingStays ==
  ASSUME Asking, asked' \subseteq asked,
         \A r \in asked' : /\ dir'[r.to] # NoChain
                           /\ fid'[r.file].st = fid[r.file].st /\ fid'[r.file].in = fid[r.file].in
  PROVE  Asking'
  <1>1. \A r \in asked' : r \in asked
    OBVIOUS
  <1> QED BY <1>1 DEF Asking, Present, Cached

LEMMA KeptIs ==
  ASSUME IInv
  PROVE  /\ Volume /\ Asking
         /\ \E cells, at : Kept(fat, dents, dir, fid, hint_uentry, taken, others, cells, at)
  BY DEF IInv, Somehow

LEMMA KeptFacts ==
  ASSUME NEW cells, NEW at, Volume, Kept(fat, dents, dir, fid, hint_uentry, taken, others, cells, at)
  PROVE  /\ Ready(cells)
         /\ Laid(fat, dir, cells, taken, others)
         /\ dents \in DentsType /\ dir \in [Dirs -> ChainType] /\ fid \in FidType
         /\ DOMAIN fid = Files
         /\ Holding(View(dents, dir, cells), dir, cells, fid, at)
         /\ HintFits(hint_uentry)
         /\ \A f \in Files : fid[f].st = "absent" => fid[f] = Forgotten
  <1>1. \A d \in Dirs : dir[d] # NoChain =>
          UnusedLast(View(dents, dir, cells)[d], Span(dir[d]))
    BY DEF Kept, Holding, Tidy
  <1>2. /\ Laid(fat, dir, cells, taken, others)
        /\ dents \in DentsType /\ dir \in [Dirs -> ChainType] /\ fid \in FidType
        /\ Holding(View(dents, dir, cells), dir, cells, fid, at)
        /\ Hinted(hint_uentry, View(dents, dir, cells), dir, cells)
        /\ \A f \in Files : fid[f].st = "absent" => fid[f] = Forgotten
    BY DEF Kept, Inodes
  <1> QED BY <1>1, <1>2 DEF Ready, Present, Hinted, FidType

\* The hint of a lookup may be believed.
LEMMA KeptHint ==
  ASSUME NEW cells, NEW at, Volume, Kept(fat, dents, dir, fid, hint_uentry, taken, others, cells, at),
         NEW d \in Dirs, Present(d), NEW len
  PROVE  Kept(fat, dents, dir, fid, HintOfLookup(dir[d], len), taken, others, cells, at)
  <1> DEFINE h == HintOfLookup(dir[d], len)
             v == View(dents, dir, cells)
  <1>1. Laid(fat, dir, cells, taken, others) /\ dir \in [Dirs -> ChainType] /\ dir[d] # NoChain
    BY DEF Kept, Present
  <1>2. HintOK(h, dir[d], cells[d], SeenAll(dents, cells[d], dir[d])) /\ HintFits(h)
    <2>1. Row(fat, dir[d], cells[d], dir[d].size) /\ dir[d] \in ChainType
      BY <1>1, LaidRow
    <2> QED BY <2>1, LookedUp
  <1>3. v[d] = SeenAll(dents, cells[d], dir[d])
    BY DEF View, SeenAll
  <1>4. h.dir = dir[d].dir
    BY NoHintFits DEF HintOfLookup, NoHint
  <1>5. ASSUME NEW e \in Dirs, dir[e] # NoChain, e # d PROVE h.dir # dir[e].dir
    <2>1. /\ 0 \in 0 .. (dir[d].size - 1) /\ 0 \in 0 .. (dir[e].size - 1)
          /\ cells[d][0] = dir[d].dir /\ cells[e][0] = dir[e].dir
      BY <1>1, <1>5, LaidRow
    <2> QED BY <1>1, <1>4, <1>5, <2>1 DEF Laid
  <1> HIDE DEF h, v
  <1>6. Hinted(h, v, dir, cells)
    <2>1. \A e \in Dirs : dir[e] # NoChain /\ e # d => HintOK(h, dir[e], cells[e], v[e])
      BY <1>5 DEF HintOK
    <2> QED BY <1>2, <1>3, <2>1 DEF Hinted
  <1> QED BY <1>6 DEF Kept, h, v

-------------------------------------------------------------------------------
(* The steps that leave the directories' clusters as they are *)

LEMMA KeptNoHint ==
  ASSUME NEW t, NEW en, NEW D, NEW F, NEW h, NEW tk, NEW ot, NEW cells, NEW at,
         Kept(t, en, D, F, h, tk, ot, cells, at)
  PROVE  Kept(t, en, D, F, NoHint, tk, ot, cells, at)
  BY NoHintHints DEF Kept

LEMMA NotAsked ==
  ASSUME Asking, NEW f \in Files, fid[f].st # "absent", fid[f].in \in Dirs,
         ~Locked(fid[f].in), NEW r \in asked
  PROVE  r.file # f
  BY DirAssumption DEF Asking, Locked

LEMMA AskStep ==
  ASSUME IInv, NEW f \in Files, NEW to \in Dirs, NEW from \in Dirs \cup {NoDir},
         NEW len \in Lengths, Ask(f, from, to, len)
  PROVE  IInv'
  <1> DEFINE new == Call(f, from, to, len)
  <1>1. /\ Present(to) /\ ~Busy(f)
        /\ \/ from = NoDir /\ fid[f].st = "absent"
           \/ Cached(f) /\ from = fid[f].in
        /\ asked' = asked \cup {new} /\ hint_uentry' = HintOfLookup(dir[to], len)
        /\ taken' = taken /\ fat' = fat /\ srch' = srch /\ used' = used
        /\ dents' = dents /\ dir' = dir /\ fid' = fid /\ others' = others
    BY DEF Ask, clusterVars
  <1>2. new.file = f /\ new.from = from /\ new.to = to /\ new.len = len
    BY DEF Call
  <1> HIDE DEF new
  <1>3. Volume /\ Asking
    BY KeptIs
  <1>4. PICK cells, at : Kept(fat, dents, dir, fid, hint_uentry, taken, others, cells, at)
    BY KeptIs
  <1>5. Kept(fat, dents, dir, fid, HintOfLookup(dir[to], len), taken, others, cells, at)
    BY <1>1, <1>3, <1>4, KeptHint
  <1>6. Somehow(fat', dents', dir', fid', hint_uentry', taken', others')
    BY <1>1, <1>5 DEF Somehow
  <1>7. Volume'
    BY <1>1, <1>3, SameVolume
  <1>8. Asking'
    <2>1. ASSUME NEW r \in asked'
          PROVE  /\ r.file \in Files /\ r.to \in Dirs /\ Present(r.to) /\ r.len \in Lengths
                 /\ \/ r.from = NoDir /\ fid[r.file].st = "absent"
                    \/ Cached(r.file) /\ r.from = fid[r.file].in
      BY <1>1, <1>2, <1>3 DEF Asking
    <2>2. ASSUME NEW r \in asked', NEW q \in asked', r.file = q.file PROVE r = q
      <3>1. \A y \in asked : y.file # f
        BY <1>1 DEF Busy
      <3> QED BY <1>1, <1>2, <1>3, <2>2, <3>1 DEF Asking
    <2>3. Present(to)' = Present(to) /\ \A d \in Dirs : Present(d)' <=> Present(d)
      BY <1>1 DEF Present
    <2>4. \A g \in Files : Cached(g)' <=> Cached(g)
      BY <1>1 DEF Cached
    <2> QED BY <1>1, <2>1, <2>2, <2>3, <2>4 DEF Asking
  <1> QED BY <1>6, <1>7, <1>8, Later

LEMMA LeaveStep ==
  ASSUME IInv, NEW r \in asked, Leave(r)
  PROVE  IInv'
  <1>1. /\ asked' \subseteq asked /\ hint_uentry' = hint_uentry
        /\ taken' = taken /\ fat' = fat /\ srch' = srch /\ used' = used
        /\ dents' = dents /\ dir' = dir /\ fid' = fid /\ others' = others
    BY DEF Leave, clusterVars
  <1>2. Volume /\ Asking /\ Somehow(fat, dents, dir, fid, hint_uentry, taken, others)
    BY DEF IInv
  <1>3. Asking'
    <2>1. \A q \in asked' : dir'[q.to] # NoChain
      BY <1>1, <1>2 DEF Asking, Present
    <2> QED BY <1>1, <1>2, <2>1, AskingStays
  <1>4. Volume' /\ Somehow(fat', dents', dir', fid', hint_uentry', taken', others')
    BY <1>1, <1>2, SameVolume
  <1> QED BY <1>3, <1>4, Later

\* Only a file's own set begins with an entry that names it.
LEMMA FoundIs ==
  ASSUME NEW cells, NEW at, Volume,
         Kept(fat, dents, dir, fid, hint_uentry, taken, others, cells, at),
         NEW f \in Files, fid[f].st # "absent", NEW p \in Found(dir[fid[f].in], f)
  PROVE  p = at[f] /\ p \in Nat
  <1> DEFINE d == fid[f].in
             v == View(dents, dir, cells)
  <1>1. Laid(fat, dir, cells, taken, others) /\ Holding(v, dir, cells, fid, at)
    BY KeptFacts
  <1>2. d \in Dirs /\ dir[d] # NoChain
    BY <1>1, StandsFacts
  <1>3. Row(fat, dir[d], cells[d], dir[d].size) /\ Span(dir[d]) \in Nat
    BY <1>1, <1>2, LaidRow
  <1>4. EntriesOf(fat, dents, dir[d]) = v[d]
    <2>1. EntriesOf(fat, dents, dir[d]) =
            [q \in 0 .. (dir[d].size * PerCluster - 1) |-> Seen(dents, cells[d], q)]
      <3> DEFINE ch == dir[d]
                 s == cells[d]
      <3>1. Row(fat, ch, s, ch.size)
        BY <1>3
      <3> HIDE DEF ch, s
      <3>2. EntriesOf(fat, dents, ch) = [q \in 0 .. (ch.size * PerCluster - 1) |-> Seen(dents, s, q)]
        BY <3>1, EntriesAre
      <3> QED BY <3>2 DEF ch, s
    <2> QED BY <1>2, <2>1 DEF View, Span
  <1>5. DOMAIN v[d] = 0 .. (Span(dir[d]) - 1)
    BY <1>2 DEF View
  <1>6. p \in 0 .. (Span(dir[d]) - 1) /\ v[d][p] = EntryOf(f, 0, fid[f].len)
    BY <1>4, <1>5 DEF Found
  <1> HIDE DEF v
  <1>7. ~IsEmpty(v[d][p])
    BY <1>6, EntryKinds
  <1>8. PICK g \in Files : /\ fid[g].st # "absent" /\ fid[g].in = d
                           /\ p \in at[g] .. (at[g] + fid[g].len - 1)
    BY <1>1, <1>2, <1>6, <1>7 DEF Holding, Tidy
  <1>9. /\ at[g] \in Nat /\ fid[g].len \in Nat
        /\ \A k \in 0 .. (fid[g].len - 1) : v[d][at[g] + k] = EntryOf(g, k, fid[g].len)
    BY <1>1, <1>8, StandsFacts
  <1> DEFINE n == fid[g].len
             k == p - at[g]
  <1>10. k \in 0 .. (n - 1) /\ at[g] + k = p /\ p \in Nat
    BY <1>3, <1>6, <1>8, <1>9
  <1>11. EntryOf(g, k, n) = EntryOf(f, 0, fid[f].len)
    BY <1>6, <1>9, <1>10
  <1> HIDE DEF k, n
  <1>12. g = f /\ k = 0
    <2>1. EntryOf(g, k, n).of = g /\ EntryOf(f, 0, fid[f].len).of = f
      BY EntryKinds
    <2>2. k # 0 => EntryOf(g, k, n).type = "ext"
      BY DEF EntryOf
    <2>3. EntryOf(f, 0, fid[f].len).type = "file"
      BY DEF EntryOf
    <2> QED BY <1>11, <2>1, <2>2, <2>3
  <1> QED BY <1>9, <1>10, <1>12 DEF k

LEMMA LookupStep ==
  ASSUME IInv, NEW f \in Files, exfat_lookup(f)
  PROVE  IInv'
  <1> DEFINE d == fid[f].in
             found == Found(dir[d], f)
  <1>1. /\ fid[f].st # "absent" /\ ~Locked(d)
        /\ IF found = {} THEN hint_uentry' = HintOfLookup(dir[d], fid[f].len) /\ fid' = fid
           ELSE /\ hint_uentry' = NoHint
                /\ fid' = IF Cached(f) THEN fid
                          ELSE [fid EXCEPT ![f] = [@ EXCEPT !.st = "cached", !.dir = dir[d],
                                                            !.entry = Min(found)]]
        /\ taken' = taken /\ fat' = fat /\ srch' = srch /\ used' = used
        /\ dents' = dents /\ dir' = dir /\ others' = others /\ asked' = asked
    BY DEF exfat_lookup, clusterVars
  <1>2. Volume /\ Asking
    BY KeptIs
  <1>3. PICK cells, at : Kept(fat, dents, dir, fid, hint_uentry, taken, others, cells, at)
    BY KeptIs
  <1>4. /\ d \in Dirs /\ dir[d] # NoChain /\ fid[f].len \in Lengths /\ dir[d] \in ChainType
        /\ at[f] \in Nat /\ at[f] + fid[f].len <= Span(dir[d])
        /\ Leads(dir[d], dir[d].flags, cells[d], at[f], fid[f].len)
        /\ DOMAIN fid = Files /\ fid \in FidType
    <2>1. /\ d \in Dirs /\ dir[d] # NoChain /\ fid[f].len \in Lengths /\ fid[f].len \in Nat
          /\ at[f] \in Nat /\ at[f] + fid[f].len <= Span(dir[d])
          /\ Laid(fat, dir, cells, taken, others) /\ dir \in [Dirs -> ChainType]
          /\ DOMAIN fid = Files /\ fid \in FidType
      BY <1>1, <1>2, <1>3, KeptFacts, StandsFacts
    <2>2. Row(fat, dir[d], cells[d], dir[d].size) /\ Span(dir[d]) = dir[d].size * PerCluster
      BY <2>1, LaidRow DEF Span
    <2>3. Leads(dir[d], dir[d].flags, cells[d], at[f], fid[f].len)
      <3> HIDE DEF d
      <3> QED BY <2>1, <2>2, ChainLeads
    <2> QED BY <2>1, <2>3
  <1> HIDE DEF d, found
  <1>5. Kept(fat, dents, dir, fid', hint_uentry', taken, others, cells, at)
    <2>1. CASE found = {}
      <3>1. Kept(fat, dents, dir, fid, HintOfLookup(dir[d], fid[f].len), taken, others, cells, at)
        BY <1>2, <1>3, <1>4, KeptHint DEF Present
      <3> QED BY <1>1, <2>1, <3>1
    <2>2. CASE found # {} /\ Cached(f)
      BY <1>1, <1>3, <2>2, KeptNoHint
    <2>3. CASE found # {} /\ ~Cached(f)
      <3>1. \A p \in found : p = at[f]
        BY <1>1, <1>2, <1>3, FoundIs DEF found, d
      <3>2. Min(found) = at[f]
        <4>1. at[f] \in found /\ found \subseteq Nat
          BY <1>4, <2>3, <3>1
        <4>2. \A y \in found : at[f] <= y
          BY <1>4, <3>1
        <4> QED BY <4>1, <4>2, MinIs
      <3> DEFINE x == [st |-> "cached", in |-> fid[f].in, len |-> fid[f].len, dir |-> dir[d],
                       entry |-> at[f]]
      <3> DEFINE y == [fid[f] EXCEPT !.st = "cached", !.dir = dir[d], !.entry = Min(found)]
      <3>3. y \in [st : {"cached"}, in : {fid[f].in}, len : {fid[f].len}, dir : {dir[d]},
                   entry : {Min(found)}]
        BY <1>4 DEF FidType
      <3> HIDE DEF y
      <3>4. y = x
        BY <3>2, <3>3
      <3>5. fid' = [fid EXCEPT ![f] = x]
        BY <1>1, <2>3, <3>4 DEF y
      <3>6. at[f] \in Positions
        BY <1>2, <1>3, <1>4, KeptFacts, PlaceTyped
      <3>7. Kept(fat, dents, dir, fid, NoHint, taken, others, cells, at)
        BY <1>3, KeptNoHint
      <3> HIDE DEF x
      <3>8. Kept(fat, dents, dir, [fid EXCEPT ![f] = x], NoHint, taken, others, cells, at)
        BY <1>1, <1>4, <3>6, <3>7, KeptRenoded DEF d, x
      <3> QED BY <1>1, <2>3, <3>5, <3>8
    <2> QED BY <2>1, <2>2, <2>3
  <1>6. Somehow(fat', dents', dir', fid', hint_uentry', taken', others')
    BY <1>1, <1>5 DEF Somehow
  <1>7. Volume'
    BY <1>1, <1>2, SameVolume
  <1>8. Asking'
    <2>1. ASSUME NEW r \in asked'
          PROVE  /\ dir'[r.to] # NoChain
                 /\ fid'[r.file].st = fid[r.file].st /\ fid'[r.file].in = fid[r.file].in
      <3>1. r \in asked /\ r.file # f
        BY <1>1, <1>2, <1>4, NotAsked DEF d
      <3>2. fid'[r.file] = fid[r.file]
        <4>1. r.file \in Files
          BY <1>2, <3>1 DEF Asking
        <4>2. \A y : [fid EXCEPT ![f] = y][r.file] = fid[r.file]
          BY <1>4, <3>1, <4>1
        <4> QED BY <1>1, <4>2
      <3> QED BY <1>1, <1>2, <3>1, <3>2 DEF Asking, Present
    <2> QED BY <1>1, <1>2, <2>1, AskingStays
  <1> QED BY <1>6, <1>7, <1>8, Later

LEMMA UnlinkStep ==
  ASSUME IInv, NEW f \in Files, exfat_unlink(f)
  PROVE  IInv'
  <1>1. /\ Cached(f) /\ ~Locked(fid[f].in) /\ fid[f].st = "cached"
        /\ dents' = remove_file(fat, dents, fid[f].dir, fid[f].entry)
        /\ fid' = [fid EXCEPT ![f] = Forgotten]
        /\ taken' = taken /\ fat' = fat /\ srch' = srch /\ used' = used
        /\ dir' = dir /\ others' = others /\ asked' = asked /\ hint_uentry' = hint_uentry
    BY DEF exfat_unlink, clusterVars, Forgotten, Cached
  <1>2. Volume /\ Asking
    BY KeptIs
  <1>3. PICK cells, at : Kept(fat, dents, dir, fid, hint_uentry, taken, others, cells, at)
    BY KeptIs
  <1>4. /\ fid[f].in \in Dirs /\ fid[f].entry = at[f] /\ DOMAIN fid = Files
        /\ Leads(fid[f].dir, dir[fid[f].in].flags, cells[fid[f].in], at[f], fid[f].len)
    BY <1>1, <1>2, <1>3, KeptFacts, StandsFacts
  <1>5. Kept(fat, dents', dir, fid', hint_uentry, taken, others, cells, at)
    <2> DEFINE W == remove_file(fat, dents, fid[f].dir, at[f])
    <2>1. Kept(fat, W, dir, [fid EXCEPT ![f] = Forgotten], hint_uentry, taken, others, cells, at)
      BY <1>1, <1>3, <1>4, KeptRemoved
    <2> QED BY <1>1, <1>4, <2>1
  <1>6. Somehow(fat', dents', dir', fid', hint_uentry', taken', others')
    BY <1>1, <1>5 DEF Somehow
  <1>7. Volume'
    BY <1>1, <1>2, SameVolume
  <1>8. Asking'
    <2>1. ASSUME NEW r \in asked'
          PROVE  /\ dir'[r.to] # NoChain
                 /\ fid'[r.file].st = fid[r.file].st /\ fid'[r.file].in = fid[r.file].in
      <3>1. r \in asked /\ r.file # f
        BY <1>1, <1>2, <1>4, NotAsked
      <3>2. fid'[r.file] = fid[r.file]
        BY <1>1, <1>4, <3>1
      <3> QED BY <1>1, <1>2, <3>1, <3>2 DEF Asking, Present
    <2> QED BY <1>1, <1>2, <2>1, AskingStays
  <1> QED BY <1>6, <1>7, <1>8, Later

LEMMA EvictStep ==
  ASSUME IInv, NEW f \in Files, exfat_evict_inode(f)
  PROVE  IInv'
  <1> DEFINE x == [st |-> "evicted", in |-> fid[f].in, len |-> fid[f].len, dir |-> NoChain,
                   entry |-> -1]
  <1>1. /\ ~Busy(f) /\ fid[f].st = "cached"
        /\ fid' = [fid EXCEPT ![f] = x]
        /\ taken' = taken /\ fat' = fat /\ srch' = srch /\ used' = used /\ dents' = dents
        /\ dir' = dir /\ others' = others /\ asked' = asked /\ hint_uentry' = hint_uentry
    BY DEF exfat_evict_inode, clusterVars, NoFid, Cached
  <1>2. Volume /\ Asking
    BY KeptIs
  <1>3. PICK cells, at : Kept(fat, dents, dir, fid, hint_uentry, taken, others, cells, at)
    BY KeptIs
  <1>4. DOMAIN fid = Files
    BY <1>2, <1>3, KeptFacts
  <1> HIDE DEF x
  <1>5. Kept(fat, dents, dir, [fid EXCEPT ![f] = x], hint_uentry, taken, others, cells, at)
    BY <1>1, <1>3, NoChainTyped, KeptRenoded DEF x
  <1>6. Somehow(fat', dents', dir', fid', hint_uentry', taken', others')
    BY <1>1, <1>5 DEF Somehow
  <1>7. Volume'
    BY <1>1, <1>2, SameVolume
  <1>8. Asking'
    <2>1. ASSUME NEW r \in asked'
          PROVE  /\ dir'[r.to] # NoChain
                 /\ fid'[r.file].st = fid[r.file].st /\ fid'[r.file].in = fid[r.file].in
      <3>1. r \in asked /\ r.file # f
        BY <1>1 DEF Busy
      <3>2. fid'[r.file] = fid[r.file]
        BY <1>1, <1>4, <3>1
      <3> QED BY <1>1, <1>2, <3>1, <3>2 DEF Asking, Present
    <2> QED BY <1>1, <1>2, <2>1, AskingStays
  <1> QED BY <1>6, <1>7, <1>8, Later

-------------------------------------------------------------------------------
(* Directories and other files' clusters come and go *)

\* What is said of some of the directories stays so as long as their clusters
\* are theirs.
LEMMA LaidRest ==
  ASSUME NEW t, NEW D, NEW cells, NEW tk, NEW ot, Laid(t, D, cells, tk, ot),
         NEW t2, NEW D2, NEW tk2, NEW ot2, ot2 \subseteq tk2, tk2 \subseteq Clusters,
         \A d \in Dirs : D2[d] # NoChain =>
           /\ D2[d] = D[d]
           /\ \A k \in 0 .. (D[d].size - 1) : /\ t2[cells[d][k]] = t[cells[d][k]]
                                              /\ cells[d][k] \in tk2 \ ot2
  PROVE  Laid(t2, D2, cells, tk2, ot2)
  <1>1. ASSUME NEW d \in Dirs, D2[d] # NoChain PROVE Row(t2, D2[d], cells[d], D2[d].size)
    <2>1. Row(t, D[d], cells[d], D[d].size)
      BY <1>1 DEF Laid
    <2> QED BY <1>1, <2>1, RowKept
  <1> QED BY <1>1 DEF Laid

LEMMA MkdirStep ==
  ASSUME IInv, NEW d \in Dirs, exfat_mkdir(d)
  PROVE  IInv'
  <1> DEFINE new == exfat_alloc_cluster(Eof, Contiguous)
             ch == [dir |-> new.dir, size |-> 1, flags |-> Contiguous]
  <1>1. /\ dir[d] = NoChain /\ hint_uentry' = NoHint
        /\ taken' = new.taken /\ fat' = new.fat /\ srch' = new.srch /\ used' = new.used
        /\ IF new.n = 0 THEN dir' = dir /\ dents' = dents
           ELSE dir' = [dir EXCEPT ![d] = ch] /\ dents' = [dents EXCEPT ![new.dir] = Filled(Unused)]
        /\ fid' = fid /\ asked' = asked /\ others' = others
    BY DEF exfat_mkdir, Present
  <1>2. Volume /\ Asking
    BY KeptIs
  <1>3. PICK cells, at : Kept(fat, dents, dir, fid, hint_uentry, taken, others, cells, at)
    BY KeptIs
  <1>4. Allocated(new, Eof, Contiguous)
    BY <1>2, AllocIs, Numbers
  <1>5. /\ dents \in DentsType /\ dir \in [Dirs -> ChainType] /\ Laid(fat, dir, cells, taken, others)
        /\ Holding(View(dents, dir, cells), dir, cells, fid, at)
        /\ Inodes(fid) /\ DOMAIN at = Files
    BY <1>3 DEF Kept
  <1>6. taken \subseteq Clusters /\ others \subseteq taken
    BY <1>2, <1>5 DEF Volume, Laid
  <1> HIDE DEF new
  <1>7. Volume'
    BY <1>1, <1>2, <1>4 DEF Volume, Allocated
  <1>8. Asking'
    <2>1. \A r \in asked' : dir'[r.to] # NoChain
      <3> TAKE r \in asked'
      <3>1. r.to \in Dirs /\ dir[r.to] # NoChain /\ r.to # d
        BY <1>1, <1>2 DEF Asking, Present
      <3> QED BY <1>1, <1>5, <3>1
    <2> QED BY <1>1, <1>2, <2>1, AskingStays
  <1>9. CASE new.n = 0
    <2>1. Kept(fat, dents, dir, fid, NoHint, taken, others, cells, at)
      BY <1>3, KeptNoHint
    <2>2. Somehow(fat', dents', dir', fid', hint_uentry', taken', others')
      BY <1>1, <1>4, <1>9, <2>1 DEF Somehow, Allocated
    <2> QED BY <1>7, <1>8, <2>2, Later
  <1>10. CASE new.n # 0
    <2> DEFINE D2 == [dir EXCEPT ![d] = ch]
               en2 == [dents EXCEPT ![new.dir] = Filled(Unused)]
               s2 == [k \in {0} |-> new.dir]
               cells2 == [e \in Dirs |-> IF e = d THEN s2 ELSE cells[e]]
               v == View(dents, dir, cells)
               v2 == View(en2, D2, cells2)
    <2>1. /\ new.dir \in Clusters \ taken /\ new.taken = taken \cup {new.dir}
          /\ \A c \in Clusters \ {new.dir} : new.fat[c] = fat[c]
      BY <1>4, <1>10 DEF Allocated
    <2>2. /\ D2[d] = ch /\ \A e \in Dirs \ {d} : D2[e] = dir[e]
          /\ cells2[d] = s2 /\ \A e \in Dirs \ {d} : cells2[e] = cells[e]
          /\ ch \in ChainType /\ ch # NoChain /\ D2 \in [Dirs -> ChainType] /\ ch.size = 1
      <3>1. ch \in ChainType /\ ch.size = 1
        BY <2>1, Numbers, ClustersAssumption DEF ChainType
      <3> HIDE DEF ch
      <3> QED BY <1>5, <3>1, NoChainTyped
    <2>3. Row(new.fat, ch, s2, 1)
      <3>1. \A k \in 0 .. (1 - 1) : k = 0
        OBVIOUS
      <3> HIDE DEF ch
      <3>2. ch.dir = new.dir /\ ch.size = 1 /\ ch.flags = Contiguous
        BY DEF ch
      <3>4. new.dir + 0 = new.dir /\ new.dir \in Clusters
        <4>1. new.dir \in Clusters /\ new.dir \in Nat
          BY <2>1, Numbers
        <4> QED BY <4>1
      <3>3. s2[0] = new.dir
        OBVIOUS
      <3> HIDE DEF s2
      <3> QED BY <3>1, <3>2, <3>3, <3>4, Numbers DEF Row
    <2>4. ASSUME NEW e \in Dirs \ {d}, dir[e] # NoChain, NEW k \in 0 .. (dir[e].size - 1)
          PROVE  /\ cells[e][k] # new.dir /\ cells[e][k] \in Clusters
                 /\ cells[e][k] \in new.taken \ others /\ new.fat[cells[e][k]] = fat[cells[e][k]]
      BY <1>5, <1>6, <2>1, <2>4 DEF Laid
    <2> HIDE DEF D2, en2, s2, cells2, ch
    <2>5. Laid(new.fat, D2, cells2, new.taken, others)
      <3>1. others \subseteq new.taken /\ new.taken \subseteq Clusters /\ new.dir \in new.taken \ others
        BY <1>6, <2>1
      <3>2. ASSUME NEW e \in Dirs, D2[e] # NoChain
            PROVE  /\ Row(new.fat, D2[e], cells2[e], D2[e].size)
                   /\ \A k \in 0 .. (D2[e].size - 1) : cells2[e][k] \in new.taken \ others
        <4>1. CASE e = d
          <5>1. \A k \in 0 .. (1 - 1) : k = 0
            OBVIOUS
          <5>2. s2[0] = new.dir
            BY DEF s2
          <5> QED BY <2>2, <2>3, <3>1, <4>1, <5>1, <5>2
        <4>2. CASE e # d
          <5>1. e \in Dirs \ {d} /\ D2[e] = dir[e] /\ cells2[e] = cells[e] /\ dir[e] # NoChain
            BY <2>2, <3>2, <4>2
          <5>2. Row(fat, dir[e], cells[e], dir[e].size)
            BY <1>5, <5>1, LaidRow
          <5>3. \A k \in 0 .. (dir[e].size - 1) : new.fat[cells[e][k]] = fat[cells[e][k]]
            BY <2>4, <5>1
          <5>4. Row(new.fat, dir[e], cells[e], dir[e].size)
            BY <5>2, <5>3, RowKept
          <5> QED BY <2>4, <5>1, <5>4
        <4> QED BY <4>1, <4>2
      <3>3. ASSUME NEW e \in Dirs, D2[e] # NoChain, NEW g \in Dirs \ {e}, D2[g] # NoChain,
                   NEW k \in 0 .. (D2[e].size - 1), NEW j \in 0 .. (D2[g].size - 1)
            PROVE  cells2[e][k] # cells2[g][j]
        <4>0. \A i \in 0 .. (1 - 1) : i = 0 /\ s2[i] = new.dir
          BY DEF s2
        <4>1. CASE e = d
          BY <2>2, <2>4, <3>3, <4>0, <4>1
        <4>2. CASE g = d
          BY <2>2, <2>4, <3>3, <4>0, <4>2
        <4>3. CASE e # d /\ g # d
          BY <1>5, <2>2, <3>3, <4>3 DEF Laid
        <4> QED BY <4>1, <4>2, <4>3
      <3> QED BY <3>1, <3>2, <3>3 DEF Laid
    <2>6. /\ en2 \in DentsType
          /\ \A c \in Clusters \ {new.dir} : en2[c] = dents[c]
          /\ \A i \in 0 .. (PerCluster - 1) : en2[new.dir][i] = Unused
      BY <1>5, <2>1, GoneTyped DEF DentsType, Filled, en2
    <2>7. ASSUME NEW e \in Dirs \ {d} PROVE v2[e] = v[e]
      <3>1. ASSUME NEW p \in 0 .. (Span(dir[e]) - 1)
            PROVE  Seen(en2, cells2[e], p) = Seen(dents, cells[e], p)
        <4>1. dir[e] # NoChain
          <5> SUFFICES ASSUME dir[e] = NoChain PROVE FALSE
            OBVIOUS
          <5>1. Span(dir[e]) = 0
            BY NoChainHasNone DEF NoSpan
          <5> QED BY <5>1
        <4>2. Page(p) \in 0 .. (dir[e].size - 1)
          BY <1>5, <4>1, LaidRow
        <4>3. cells[e][Page(p)] # new.dir /\ cells[e][Page(p)] \in Clusters
          BY <2>4, <4>1, <4>2
        <4> QED BY <2>2, <2>6, <4>3 DEF Seen
      <3> QED BY <2>2, <3>1 DEF View
    <2>8. ASSUME NEW p \in 0 .. (Span(D2[d]) - 1) PROVE v2[d][p].type = "unused"
      <3>1. /\ Page(p) \in 0 .. (1 - 1) /\ Place(p) \in 0 .. (PerCluster - 1)
        BY <2>2, <2>5, LaidRow
      <3>2. cells2[d][Page(p)] = new.dir
        BY <2>2, <3>1 DEF s2
      <3>3. v2[d][p] = Unused
        BY <2>6, <3>1, <3>2 DEF View, Seen
      <3> QED BY <3>3, EntryKinds
    <2> HIDE DEF v, v2
    <2>9. Holding(v2, D2, cells2, fid, at)
      <3>1. Replaces(v, dir, cells, v2, D2, cells2, d)
        BY <2>2, <2>7, <2>8 DEF Replaces
      <3>2. Holding(v, dir, cells, fid, at)
        BY <1>5 DEF v
      <3>3. \A f \in Files : fid[f].st # "absent" => fid[f].in # d
        BY <1>1, <3>2, StandsFacts
      <3> QED BY <3>1, <3>2, <3>3, ReplacedElsewhere
    <2>10. Hinted(NoHint, v2, D2, cells2)
      BY <2>5, NoHintHints
    <2>11. Kept(new.fat, en2, D2, fid, NoHint, new.taken, others, cells2, at)
      BY <1>5, <2>2, <2>5, <2>6, <2>9, <2>10 DEF Kept, v2
    <2>12. Somehow(fat', dents', dir', fid', hint_uentry', taken', others')
      BY <1>1, <1>10, <2>11 DEF Somehow, D2, en2
    <2> QED BY <1>7, <1>8, <2>12, Later
  <1> QED BY <1>9, <1>10

LEMMA RmdirStep ==
  ASSUME IInv, NEW d \in Dirs, exfat_rmdir(d)
  PROVE  IInv'
  <1> DEFINE gone == Visited(fat, dir[d].dir, dir[d].size, dir[d].flags)
             W == [c \in Clusters |-> IF c \in ToSet(ScanOf(fat, dir[d])) THEN Filled(Contents)
                                      ELSE dents[c]]
             D2 == [dir EXCEPT ![d] = NoChain]
             n == dir[d].size
  <1>1. /\ dir[d] # NoChain /\ ~Locked(d) /\ is_dir_empty(dir[d])
        /\ taken' = taken \ gone /\ fat' = fat /\ srch' = srch
        /\ used' = IF used = Unknown THEN used ELSE used - Cardinality(gone)
        /\ dir' = D2 /\ dents' = W
        /\ fid' = fid /\ hint_uentry' = hint_uentry /\ asked' = asked /\ others' = others
    BY DEF exfat_rmdir, exfat_free_cluster, Present
  <1>2. Volume /\ Asking
    BY KeptIs
  <1>3. PICK cells, at : Kept(fat, dents, dir, fid, hint_uentry, taken, others, cells, at)
    BY KeptIs
  <1> DEFINE v == View(dents, dir, cells)
             s == cells[d]
  <1>4. /\ dents \in DentsType /\ dir \in [Dirs -> ChainType] /\ Laid(fat, dir, cells, taken, others)
        /\ Holding(v, dir, cells, fid, at) /\ Hinted(hint_uentry, v, dir, cells)
        /\ Inodes(fid) /\ DOMAIN at = Files
    BY <1>3 DEF Kept
  <1>5. taken \subseteq Clusters /\ others \subseteq taken
    BY <1>2, <1>4 DEF Volume, Laid
  <1>6. Row(fat, dir[d], s, n) /\ n \in Nat \ {0} /\ Span(dir[d]) \in Nat
    BY <1>1, <1>4, LaidRow
  <1>7. gone = {s[k] : k \in 0 .. (n - 1)}
    <2>1. CASE dir[d].flags = Contiguous
      <3>1. /\ dir[d].dir \in Clusters /\ \A k \in 0 .. (n - 1) : s[k] = dir[d].dir + k
        BY <1>1, <1>4, <1>6, <2>1, LaidRow DEF Row
      <3>2. gone = dir[d].dir .. (dir[d].dir + n - 1)
        BY <1>6, <2>1, <3>1, Numbers DEF Visited, Clusters
      <3> DEFINE first == dir[d].dir
      <3>3. first \in Int /\ gone = first .. (first + n - 1)
                 /\ \A k \in 0 .. (n - 1) : s[k] = first + k
        BY <3>1, <3>2 DEF Clusters
      <3> HIDE DEF first, gone, s, n
      <3>4. \A x \in gone : x - first \in 0 .. (n - 1) /\ first + (x - first) = x
        BY <1>6, <3>3
      <3>5. \A k \in 0 .. (n - 1) : first + k \in gone
        BY <1>6, <3>3
      <3>6. \A x \in gone : \E k \in 0 .. (n - 1) : x = s[k]
        BY <3>3, <3>4
      <3>7. \A k \in 0 .. (n - 1) : s[k] \in gone
        BY <3>3, <3>5
      <3> QED BY <3>6, <3>7
    <2>2. CASE dir[d].flags = Linked
      <3>1. Links(fat, s, n) /\ s[0] = dir[d].dir
        BY <1>6, <2>2 DEF Row
      <3>2. n \in Nat /\ n > 0
        BY <1>6
      <3> HIDE DEF s, n
      <3>3. Visited(fat, s[0], n, Linked) = {s[k] : k \in 0 .. (n - 1)}
        BY <1>6, <3>1, <3>2, VisitedLinked
      <3> QED BY <2>2, <3>1, <3>3 DEF n
    <2> QED BY <1>6, <2>1, <2>2 DEF Row
  <1>8. ToSet(ScanOf(fat, dir[d])) = gone
    <2>1. ScanOf(fat, dir[d]) = [k \in 1 .. n |-> s[k - 1]]
      <3> DEFINE c == dir[d]
      <3> HIDE DEF c, s, n
      <3>1. Row(fat, c, s, n)
        BY <1>6 DEF c
      <3>2. ScanOf(fat, c) = [k \in 1 .. n |-> s[k - 1]]
        BY <3>1, ScanIs
      <3> QED BY <3>2 DEF c
    <2> HIDE DEF s, n, gone
    <2>2. ToSet(ScanOf(fat, dir[d])) = {s[k - 1] : k \in 1 .. n}
      BY <2>1 DEF ToSet
    <2>3. \A k \in 0 .. (n - 1) : k + 1 \in 1 .. n /\ (k + 1) - 1 = k
      BY <1>6
    <2>4. \A k \in 1 .. n : k - 1 \in 0 .. (n - 1)
      BY <1>6
    <2> QED BY <1>7, <2>2, <2>3, <2>4
  <1> HIDE DEF gone, v
  <1>9. ASSUME NEW f \in Files, fid[f].st # "absent", fid[f].in = d PROVE FALSE
    <2> DEFINE p == at[f]
    <2>1. /\ p \in Nat /\ fid[f].len \in Nat \ {0} /\ p + fid[f].len <= Span(dir[d])
          /\ \A k \in 0 .. (fid[f].len - 1) : v[d][p + k] = EntryOf(f, k, fid[f].len)
      BY <1>4, <1>9, StandsFacts
    <2> HIDE DEF p
    <2>2. v[d][p] = EntryOf(f, 0, fid[f].len)
      <3>1. 0 \in 0 .. (fid[f].len - 1) /\ p + 0 = p
        BY <2>1
      <3> QED BY <2>1, <3>1
    <2>3. p \in 0 .. (Span(dir[d]) - 1)
      BY <1>6, <2>1
    <2>4. EntriesOf(fat, dents, dir[d]) = v[d]
      <3> DEFINE c == dir[d]
      <3>1. Row(fat, c, s, n) /\ n = c.size
        BY <1>6
      <3> HIDE DEF c, s
      <3>2. EntriesOf(fat, dents, c) = [q \in 0 .. (n * PerCluster - 1) |-> Seen(dents, s, q)]
        BY <3>1, EntriesAre
      <3> QED BY <3>1, <3>2 DEF View, Span, v, c, s
    <2>5. DOMAIN v[d] = 0 .. (Span(dir[d]) - 1)
      BY DEF v, View
    <2>6. v[d][p].type = "file"
      BY <2>2 DEF EntryOf
    <2>7. PICK q \in 0 .. (p - 1) : v[d][q].type = "unused"
      BY <1>1, <2>3, <2>4, <2>5, <2>6 DEF is_dir_empty
    <2>8. q \in 0 .. (Span(dir[d]) - 1) /\ q < p
      BY <1>6, <2>1, <2>3
    <2>9. UnusedLast(v[d], Span(dir[d]))
      BY <1>1, <1>4 DEF Holding, Tidy
    <2> QED BY <2>3, <2>6, <2>7, <2>8, <2>9 DEF UnusedLast
  <1> HIDE DEF W, D2
  <1>10. /\ D2 \in [Dirs -> ChainType] /\ D2[d] = NoChain /\ \A e \in Dirs \ {d} : D2[e] = dir[e]
    BY <1>4, NoChainTyped DEF D2
  <1>11. ASSUME NEW e \in Dirs \ {d}, dir[e] # NoChain, NEW k \in 0 .. (dir[e].size - 1)
         PROVE  cells[e][k] \notin gone /\ cells[e][k] \in Clusters /\ cells[e][k] \in taken \ others
    BY <1>1, <1>4, <1>5, <1>7, <1>11 DEF Laid
  <1>12. Laid(fat, D2, cells, taken \ gone, others)
    <2>1. others \subseteq taken \ gone /\ taken \ gone \subseteq Clusters
      BY <1>1, <1>4, <1>5, <1>7 DEF Laid
    <2>2. \A e \in Dirs : D2[e] # NoChain =>
            /\ D2[e] = dir[e]
            /\ \A k \in 0 .. (dir[e].size - 1) : /\ fat[cells[e][k]] = fat[cells[e][k]]
                                                 /\ cells[e][k] \in (taken \ gone) \ others
      BY <1>10, <1>11
    <2> QED BY <1>4, <2>1, <2>2, LaidRest
  <1>13. W \in DentsType /\ \A c \in Clusters \ gone : W[c] = dents[c]
    BY <1>4, <1>8, GoneTyped DEF W, DentsType, Filled
  <1> DEFINE v2 == View(W, D2, cells)
  <1>14. ASSUME NEW e \in Dirs \ {d} PROVE v2[e] = v[e]
    <2>1. ASSUME NEW p \in 0 .. (Span(dir[e]) - 1)
          PROVE  Seen(W, cells[e], p) = Seen(dents, cells[e], p)
      <3>1. dir[e] # NoChain
        <4> SUFFICES ASSUME dir[e] = NoChain PROVE FALSE
          OBVIOUS
        <4>1. Span(dir[e]) = 0
          BY NoChainHasNone DEF NoSpan
        <4> QED BY <4>1
      <3>2. Page(p) \in 0 .. (dir[e].size - 1)
        BY <1>4, <3>1, LaidRow
      <3>3. cells[e][Page(p)] \in Clusters \ gone
        BY <1>11, <3>1, <3>2
      <3> QED BY <1>13, <3>3 DEF Seen
    <2> QED BY <1>10, <2>1 DEF View, v
  <1> HIDE DEF v2
  <1>15. Holding(v2, D2, cells, fid, at)
    <2>1. Replaces(v, dir, cells, v2, D2, cells, d)
      BY <1>10, <1>14 DEF Replaces
    <2>2. \A f \in Files : fid[f].st # "absent" => fid[f].in # d
      BY <1>9
    <2> QED BY <1>4, <2>1, <2>2, ReplacedElsewhere
  <1>16. Hinted(hint_uentry, v2, D2, cells)
    BY <1>4, <1>10, <1>14 DEF Hinted
  <1>17. Kept(fat, W, D2, fid, hint_uentry, taken \ gone, others, cells, at)
    BY <1>4, <1>10, <1>12, <1>13, <1>15, <1>16 DEF Kept, v2
  <1>18. Somehow(fat', dents', dir', fid', hint_uentry', taken', others')
    BY <1>1, <1>17 DEF Somehow
  <1>19. Volume'
    BY <1>1, <1>2 DEF Volume
  <1>20. Asking'
    <2>1. \A r \in asked' : dir'[r.to] # NoChain
      <3> TAKE r \in asked'
      <3>1. r.to \in Dirs /\ dir[r.to] # NoChain /\ r \in asked
        BY <1>1, <1>2 DEF Asking, Present
      <3>2. r.to # d
        BY <1>1, <3>1, DirAssumption DEF Locked
      <3> QED BY <1>1, <1>10, <3>1, <3>2
    <2> QED BY <1>1, <1>2, <2>1, AskingStays
  <1> QED BY <1>18, <1>19, <1>20, Later

\* The volume changes around the directories.
LEMMA OthersStep ==
  ASSUME IInv, OthersTake \/ OthersFree
  PROVE  IInv'
  <1>1. Volume /\ Asking
    BY KeptIs
  <1>2. PICK cells, at : Kept(fat, dents, dir, fid, hint_uentry, taken, others, cells, at)
    BY KeptIs
  <1>3. Laid(fat, dir, cells, taken, others)
    BY <1>2 DEF Kept
  <1>4. taken \subseteq Clusters /\ others \subseteq taken
    BY <1>1, <1>3 DEF Volume, Laid
  <1>5. /\ dents' = dents /\ dir' = dir /\ fid' = fid /\ hint_uentry' = hint_uentry /\ asked' = asked
    BY DEF OthersTake, OthersFree
  <1>6. /\ Volume' /\ others' \subseteq taken' /\ taken' \subseteq Clusters
        /\ \A x \in taken \ others : fat'[x] = fat[x] /\ x \in taken' \ others'
    <2>1. CASE OthersTake
      <3> DEFINE new == exfat_alloc_cluster(Eof, Contiguous)
      <3>1. /\ new.n = 1 /\ taken' = new.taken /\ fat' = new.fat /\ srch' = new.srch
            /\ used' = new.used /\ others' = others \cup {new.dir}
        BY <2>1 DEF OthersTake
      <3>2. Allocated(new, Eof, Contiguous)
        BY <1>1, AllocIs, Numbers
      <3> HIDE DEF new
      <3>3. /\ new.dir \in Clusters \ taken /\ new.taken = taken \cup {new.dir}
            /\ \A c \in Clusters \ {new.dir} : new.fat[c] = fat[c]
            /\ new.fat \in [Clusters -> Clusters \cup {0, Eof}]
            /\ new.srch \in Clusters /\ new.used = Unknown
        BY <3>1, <3>2 DEF Allocated
      <3>4. Volume'
        BY <1>1, <3>1, <3>3 DEF Volume
      <3> QED BY <1>4, <3>1, <3>3, <3>4
    <2>2. CASE OthersFree
      <3>1. PICK c \in others : others' = others \ {c} /\ exfat_free_cluster(fat, c, 1, Contiguous)
        BY <2>2 DEF OthersFree
      <3>2. c \in Clusters /\ c \in Int /\ c \notin {0, Eof}
        BY <1>4, Numbers DEF Clusters
      <3>3. Visited(fat, c, 1, Contiguous) = {c}
        <4>1. Visited(fat, c, 1, Contiguous) = c .. (c + 1 - 1)
          BY <3>2 DEF Visited
        <4> QED BY <3>2, <4>1
      <3>4. taken' = taken \ {c} /\ fat' = fat /\ srch' = srch /\ used' = used
        BY <1>1, <3>1, <3>3 DEF exfat_free_cluster, Volume
      <3>5. Volume'
        BY <1>1, <3>4 DEF Volume
      <3> QED BY <1>4, <3>1, <3>4, <3>5
    <2> QED BY <2>1, <2>2
  <1>7. Laid(fat', dir, cells, taken', others')
    <2>1. \A d \in Dirs : dir[d] # NoChain =>
            /\ dir[d] = dir[d]
            /\ \A k \in 0 .. (dir[d].size - 1) : /\ fat'[cells[d][k]] = fat[cells[d][k]]
                                                 /\ cells[d][k] \in taken' \ others'
      BY <1>3, <1>6 DEF Laid
    <2> QED BY <1>3, <1>6, <2>1, LaidRest
  <1>8. Somehow(fat', dents', dir', fid', hint_uentry', taken', others')
    BY <1>2, <1>5, <1>7 DEF Somehow, Kept
  <1>9. Asking'
    <2>1. \A r \in asked' : dir'[r.to] # NoChain
      BY <1>1, <1>5 DEF Asking, Present
    <2> QED BY <1>1, <1>5, <2>1, AskingStays
  <1> QED BY <1>6, <1>8, <1>9, Later

-------------------------------------------------------------------------------
(* The steps that look for room *)

\* A refusal leaves the directories as they are, and the hint where it was
\* looked for.
LEMMA RefusedKept ==
  ASSUME Ordinary, Volume, NEW cells, NEW at,
         Kept(fat, dents, dir, fid, hint_uentry, taken, others, cells, at),
         NEW d \in Dirs, NEW len, NEW room, RoomIs(cells, d, len, room), room.entry = -1,
         Grown(d, room)
  PROVE  /\ Volume' /\ dir' = dir /\ fat' = fat /\ taken' = taken
         /\ Kept(fat, dents, dir, fid, hint_uentry', taken, others, cells, at)
  <1>1. /\ room.srch \in Clusters /\ room.used = Unknown
        /\ room.chain = dir[d] /\ room.taken = taken /\ room.fat = fat
        /\ HintFits(room.hint)
        /\ HintOK(room.hint, dir[d], cells[d], View(dents, dir, cells)[d])
    BY DEF RoomIs
  <1>2. /\ taken' = room.taken /\ fat' = room.fat /\ srch' = room.srch /\ used' = room.used
        /\ hint_uentry' = room.hint /\ dir' = [dir EXCEPT ![d] = room.chain]
        /\ \A e \in Dirs \ {d} : dir[e] # NoChain => room.hint.dir # dir[e].dir
    BY DEF Grown, Ordinary, Present
  <1>3. dir \in [Dirs -> ChainType]
    BY DEF Kept
  <1>4. dir' = dir /\ Volume'
    BY <1>1, <1>2, <1>3 DEF Volume
  <1>5. Hinted(room.hint, View(dents, dir, cells), dir, cells)
    BY <1>1, <1>2 DEF Hinted, HintOK
  <1> QED BY <1>1, <1>2, <1>4, <1>5 DEF Kept

\* The old chain of a directory still leads to all that was in it.
Led(D, D2, cells2) ==
  \A d \in Dirs : D[d] # NoChain =>
    \A p, n \in Nat : p + n <= Span(D[d]) => Leads(D[d], D2[d].flags, cells2[d], p, n)

LEMMA LedByRow ==
  ASSUME NEW t, NEW D, NEW cells, NEW tk, NEW ot, Laid(t, D, cells, tk, ot)
  PROVE  Led(D, D, cells)
  <1> SUFFICES ASSUME NEW d \in Dirs, D[d] # NoChain, NEW p \in Nat, NEW n \in Nat,
                      p + n <= Span(D[d])
               PROVE  Leads(D[d], D[d].flags, cells[d], p, n)
    BY DEF Led
  <1> DEFINE ch == D[d]
             s == cells[d]
  <1>1. Row(t, ch, s, ch.size) /\ p + n <= ch.size * PerCluster
    BY LaidRow DEF Span
  <1> HIDE DEF ch, s
  <1>2. Leads(ch, ch.flags, s, p, n)
    BY <1>1, ChainLeads
  <1> QED BY <1>2 DEF ch, s

LEMMA LedByOld ==
  ASSUME NEW t, NEW D, NEW cells, NEW tk, NEW ot, Laid(t, D, cells, tk, ot), NEW v, NEW v2,
         NEW D2, NEW cells2, NEW d \in Dirs, Extends(v, D, cells, v2, D2, cells2, d)
  PROVE  Led(D, D2, cells2)
  <1> SUFFICES ASSUME NEW e \in Dirs, D[e] # NoChain, NEW p \in Nat, NEW n \in Nat,
                      p + n <= Span(D[e])
               PROVE  Leads(D[e], D2[e].flags, cells2[e], p, n)
    BY DEF Led
  <1>1. Leads(D[e], D[e].flags, cells[e], p, n)
    BY LedByRow DEF Led
  <1>2. Span(D[e]) \in Nat
    BY LaidRow
  <1>3. CASE e # d
    BY <1>1, <1>3 DEF Extends
  <1>4. CASE e = d
    <2>1. /\ D[d].flags = Linked => D2[d].flags = Linked
          /\ cells2[d][0] = cells[d][0]
          /\ \A q \in 0 .. (Span(D[d]) - 1) : cells2[d][Page(q)] = cells[d][Page(q)]
      BY DEF Extends
    <2>2. \A q \in p .. (p + n - 1) : cells2[d][Page(q)] = cells[d][Page(q)]
      <3> TAKE q \in p .. (p + n - 1)
      <3>1. q \in 0 .. (Span(D[d]) - 1)
        BY <1>2, <1>4
      <3> QED BY <2>1, <3>1
    <2> QED BY <1>1, <1>4, <2>1, <2>2 DEF Leads
  <1> QED BY <1>3, <1>4

\* Room that was found, after the directory has grown for it or not.
LEMMA GrownKept ==
  ASSUME Volume, NEW cells, NEW at,
         Kept(fat, dents, dir, fid, hint_uentry, taken, others, cells, at),
         NEW d \in Dirs, NEW len \in Lengths, NEW room, RoomIs(cells, d, len, room),
         room.entry # -1, Grown(d, room)
  PROVE  /\ Volume' /\ fat' = room.fat /\ taken' = room.taken /\ hint_uentry' = NoHint
         /\ dir'[d] = room.chain /\ room.chain \in ChainType
         /\ \A e \in Dirs \ {d} : dir'[e] = dir[e]
         /\ \A e \in Dirs : dir[e] # NoChain => dir'[e] # NoChain
         /\ \E cells2 :
              /\ Kept(fat', room.dents, dir', fid, NoHint, taken', others, cells2, at)
              /\ Room(View(room.dents, dir', cells2), dir', d, room.entry, len)
              /\ Led(dir, dir', cells2)
              /\ cells2[d][0] = cells[d][0]
  <1>1. /\ room.srch \in Clusters /\ room.used = Unknown /\ room.hint = NoHint
        /\ \E cells2 : RoomIn(cells, d, len, room, cells2)
    BY DEF RoomIs
  <1>2. PICK cells2 : RoomIn(cells, d, len, room, cells2)
    BY <1>1
  <1>3. /\ taken' = room.taken /\ fat' = room.fat /\ srch' = room.srch /\ used' = room.used
        /\ hint_uentry' = room.hint /\ dir' = [dir EXCEPT ![d] = room.chain]
    BY DEF Grown
  <1> DEFINE D2 == [dir EXCEPT ![d] = room.chain]
             v2 == View(room.dents, D2, cells2)
             v == View(dents, dir, cells)
  <1>4. /\ room.chain \in ChainType /\ room.fat \in [Clusters -> Clusters \cup {0, Eof}]
        /\ Laid(room.fat, D2, cells2, room.taken, others)
        /\ Extends(v, dir, cells, v2, D2, cells2, d) /\ Room(v2, D2, d, room.entry, len)
    BY <1>2 DEF RoomIn
  <1>5. dir \in [Dirs -> ChainType] /\ Laid(fat, dir, cells, taken, others)
    BY DEF Kept
  <1>6. Kept(room.fat, room.dents, D2, fid, NoHint, room.taken, others, cells2, at)
    BY <1>2, KeptExtended
  <1> HIDE DEF v2, v
  <1>7. D2[d] = room.chain /\ \A e \in Dirs \ {d} : D2[e] = dir[e]
    BY <1>5
  <1> HIDE DEF D2
  <1>8. Led(dir, D2, cells2)
    BY <1>4, <1>5, LedByOld
  <1>9. cells2[d][0] = cells[d][0] /\ D2[d] # NoChain
    BY <1>4 DEF Extends
  <1>10. Volume'
    BY <1>1, <1>3, <1>4 DEF Volume, Laid
  <1>11. dir' = D2
    BY <1>3 DEF D2
  <1>12. \A e \in Dirs : dir[e] # NoChain => D2[e] # NoChain
    BY <1>7, <1>9
  <1> QED BY <1>1, <1>3, <1>4, <1>6, <1>7, <1>8, <1>9, <1>10, <1>11, <1>12 DEF v2

\* Whose call it was has gone; the others' directories are still there.
LEMMA AskingWithout ==
  ASSUME Asking, NEW f \in Files, asked' \subseteq asked, \A r \in asked' : r.file # f,
         DOMAIN fid = Files,
         \A e \in Dirs : dir[e] # NoChain => dir'[e] # NoChain,
         \A g \in Files \ {f} : fid'[g] = fid[g]
  PROVE  Asking'
  <1>1. ASSUME NEW r \in asked'
        PROVE  /\ dir'[r.to] # NoChain
               /\ fid'[r.file].st = fid[r.file].st /\ fid'[r.file].in = fid[r.file].in
    BY DEF Asking, Present
  <1> QED BY <1>1, AskingStays

LEMMA CreateStep ==
  ASSUME Ordinary, IInv, NEW r \in asked, exfat_create(r)
  PROVE  IInv'
  <1> DEFINE f == r.file
             d == r.to
             len == r.len
             room == find_empty_entry(dir[d], len)
             x == [st |-> "cached", in |-> d, len |-> len, dir |-> room.chain, entry |-> room.entry]
  <1>1. /\ r.from = NoDir /\ Grown(d, room) /\ asked' = asked \ {r} /\ others' = others
        /\ IF room.entry = -1 THEN dents' = dents /\ fid' = fid
           ELSE /\ dents' = exfat_init_ext_entry(room.fat, room.dents, room.chain, room.entry, f, len)
                /\ fid' = [fid EXCEPT ![f] = x]
    BY DEF exfat_create, CreatedIn, ChainOfCreated
  <1>2. Volume /\ Asking
    BY KeptIs
  <1>3. PICK cells, at : Kept(fat, dents, dir, fid, hint_uentry, taken, others, cells, at)
    BY KeptIs
  <1>4. /\ Ready(cells) /\ DOMAIN fid = Files
        /\ Holding(View(dents, dir, cells), dir, cells, fid, at)
    BY <1>2, <1>3, KeptFacts
  <1>5. /\ f \in Files /\ d \in Dirs /\ Present(d) /\ dir[d] # NoChain /\ len \in Lengths
        /\ fid[f].st = "absent"
    <2>1. /\ f \in Files /\ d \in Dirs /\ Present(d) /\ dir[d] # NoChain /\ len \in Lengths
          /\ fid[f].st = "absent" \/ (Cached(f) /\ r.from = fid[f].in)
      BY <1>2 DEF Asking, Present
    <2>2. fid[f].st # "absent" => fid[f].in \in Dirs
      BY <1>4, <2>1, StandsFacts
    <2> QED BY <1>1, <2>1, <2>2, DirAssumption
  <1> HIDE DEF room
  <1>6. RoomIs(cells, d, len, room)
    <2> HIDE DEF d, len
    <2> QED BY <1>4, <1>5, RoomFound DEF room
  <1>7. \A q \in asked' : q.file # f
    BY <1>1, <1>2 DEF Asking
  <1>8. asked' \subseteq asked
    BY <1>1
  <1> HIDE DEF f, d, len
  <1>9. CASE room.entry = -1
    <2>1. /\ Volume' /\ dir' = dir /\ fat' = fat /\ taken' = taken
          /\ Kept(fat, dents, dir, fid, hint_uentry', taken, others, cells, at)
      BY <1>1, <1>2, <1>3, <1>5, <1>6, <1>9, RefusedKept
    <2>2. Asking'
      BY <1>1, <1>2, <1>4, <1>5, <1>7, <1>8, <1>9, <2>1, AskingWithout
    <2>3. Somehow(fat', dents', dir', fid', hint_uentry', taken', others')
      BY <1>1, <1>9, <2>1 DEF Somehow
    <2> QED BY <2>1, <2>2, <2>3, Later
  <1>10. CASE room.entry # -1
    <2>1. /\ Volume' /\ fat' = room.fat /\ taken' = room.taken /\ hint_uentry' = NoHint
          /\ dir'[d] = room.chain /\ room.chain \in ChainType
          /\ \A e \in Dirs : dir[e] # NoChain => dir'[e] # NoChain
      BY <1>1, <1>2, <1>3, <1>5, <1>6, <1>10, GrownKept
    <2>2. PICK cells2 :
              /\ Kept(fat', room.dents, dir', fid, NoHint, taken', others, cells2, at)
              /\ Room(View(room.dents, dir', cells2), dir', d, room.entry, len)
      BY <1>1, <1>2, <1>3, <1>5, <1>6, <1>10, GrownKept
    <2>3. Leads(room.chain, dir'[d].flags, cells2[d], room.entry, len)
      <3>1. room.entry \in Nat /\ room.entry + len <= Span(dir'[d]) /\ len \in Nat
        BY <1>5, <2>2, LengthsNat DEF Room
      <3>2. Laid(fat', dir', cells2, taken', others)
        BY <2>2 DEF Kept
      <3>3. Led(dir', dir', cells2) /\ dir'[d] # NoChain
        BY <1>5, <2>1, <3>2, LedByRow
      <3> QED BY <1>5, <2>1, <3>1, <3>3 DEF Led
    <2>4. Kept(fat', dents', dir', [fid EXCEPT ![f] = x], NoHint, taken', others, cells2,
               [at EXCEPT ![f] = room.entry])
      <3>1. dir'[d] # NoChain
        BY <1>5, <2>1
      <3>2. dents' = exfat_init_ext_entry(fat', room.dents, dir'[d], room.entry, f, len)
        BY <1>1, <1>10, <2>1
      <3> DEFINE t == fat'
                 en == room.dents
                 D == dir'
                 tk == taken'
                 p == room.entry
                 ch == room.chain
                 W == exfat_init_ext_entry(t, en, D[d], p, f, len)
      <3>3. /\ Kept(t, en, D, fid, NoHint, tk, others, cells2, at)
            /\ Room(View(en, D, cells2), D, d, p, len) /\ D[d] # NoChain /\ ch \in ChainType
            /\ Leads(ch, D[d].flags, cells2[d], p, len)
            /\ x = [st |-> "cached", in |-> d, len |-> len, dir |-> ch, entry |-> p]
        BY <2>1, <2>2, <2>3, <3>1
      <3> HIDE DEF t, en, D, tk, p, ch, W, x
      <3>4. Kept(t, W, D, [fid EXCEPT ![f] = x], NoHint, tk, others, cells2, [at EXCEPT ![f] = p])
        BY <1>5, <3>3, KeptCreated DEF W
      <3> QED BY <3>2, <3>4 DEF t, en, D, tk, p, W
    <2> HIDE DEF x
    <2>5. fid' = [fid EXCEPT ![f] = x]
      BY <1>1, <1>10
    <2>6. Somehow(fat', dents', dir', fid', hint_uentry', taken', others')
      BY <1>1, <2>1, <2>4, <2>5 DEF Somehow
    <2>7. Asking'
      <3>1. \A g \in Files \ {f} : fid'[g] = fid[g]
        BY <1>4, <2>5
      <3> QED BY <1>2, <1>4, <1>5, <1>7, <1>8, <2>1, <3>1, AskingWithout
    <2> QED BY <2>1, <2>6, <2>7, Later
  <1> QED BY <1>9, <1>10

\* What a move leaves: the directories kept, the other sets where they were, and
\* the chains from before leading to them.
Settled(t, en, D, F, h, tk, ot, cells2, at2, D0, at, f) ==
  /\ Kept(t, en, D, F, h, tk, ot, cells2, at2)
  /\ Led(D0, D, cells2)
  /\ \A g \in Files \ {f} : at2[g] = at[g]

LEMMA Moves ==
  ASSUME Ordinary, Volume, NEW cells, NEW at,
         Kept(fat, dents, dir, fid, hint_uentry, taken, others, cells, at),
         NEW f \in Files, Cached(f), NEW e \in Dirs, Present(e), NEW len \in Lengths,
         NEW m, m = ffsMoveFile(f, e, len), Moved(f, e, m)
  PROVE  /\ Volume' /\ fat' = m.room.fat
         /\ \A d \in Dirs : dir[d] # NoChain => dir'[d] # NoChain
         /\ \E cells2, at2 : Settled(fat', m.dents, dir', [fid EXCEPT ![f] = m.fid], hint_uentry',
                                     taken', others, cells2, at2, dir, at, f)
  <1> DEFINE d == fid[f].in
             old == fid[f].entry
             chain == dir[d]
             count == NumEntries(fat, dents, dir[d], old)
             moved == d # e \/ count < len
             room == IF moved THEN find_empty_entry(dir[e], len) ELSE RoomAt(old, hint_uentry, dir[e])
             whose == get_entry_in_dir(fat, dents, chain, old).of
             set == exfat_init_ext_entry(room.fat, room.dents, room.chain, room.entry, whose, len)
             there == exfat_delete_dir_entry(room.fat, set, IF d = e THEN room.chain ELSE chain, old,
                                             IF moved THEN 0 ELSE len, count)
             copy == IF d = e THEN chain ELSE room.chain
             x0 == [fid[f] EXCEPT !.dir = chain]
             x1 == [fid[f] EXCEPT !.in = e, !.len = len, !.entry = room.entry, !.dir = copy]
  <1>1. m = MovedTo(f, e, len, old, count, moved, room)
    BY DEF ffsMoveFile
  <1>2. m = IF room.entry = -1 THEN [room |-> room, dents |-> dents, fid |-> x0]
            ELSE [room |-> room, dents |-> there, fid |-> x1]
    BY <1>1 DEF MovedTo
  <1> HIDE DEF room, whose, set, there, copy, x0, x1, count, moved
  <1>3. /\ m.room = room
        /\ room.entry = -1 => m.dents = dents /\ m.fid = x0
        /\ room.entry # -1 => m.dents = there /\ m.fid = x1
    BY <1>2
  <1>4. /\ Grown(e, room)
        /\ d = e => room.chain.flags = dir[e].flags
    BY <1>3 DEF Moved, Ordinary
  <1>5. /\ Ready(cells) /\ Laid(fat, dir, cells, taken, others) /\ DOMAIN fid = Files
        /\ fid \in FidType /\ dir \in [Dirs -> ChainType] /\ dents \in DentsType
        /\ Holding(View(dents, dir, cells), dir, cells, fid, at) /\ dir[e] # NoChain
    BY KeptFacts DEF Present
  <1>6. /\ fid[f].st = "cached" /\ fid[f].st # "absent"
        /\ d \in Dirs /\ chain # NoChain /\ old = at[f] /\ fid[f].len \in Lengths
        /\ fid[f].len \in Nat \ {0} /\ at[f] \in Nat /\ at[f] + fid[f].len <= Span(chain)
    <2>1. fid[f].st = "cached" /\ fid[f].st # "absent"
      BY DEF Cached
    <2> QED BY <1>5, <2>1, StandsFacts
  <1>7. Led(dir, dir, cells)
    BY <1>5, LedByRow
  <1>8. Leads(chain, dir[d].flags, cells[d], at[f], fid[f].len)
    BY <1>6, <1>7 DEF Led
  <1>9. count = fid[f].len /\ whose = f
    <2>1. /\ NumEntries(fat, dents, chain, at[f]) = fid[f].len
          /\ \A k \in 0 .. (fid[f].len - 1) :
               get_entry_in_dir(fat, dents, chain, at[f] + k) = EntryOf(f, k, fid[f].len)
      BY <1>5, <1>6, <1>8, SetIsRead
    <2>2. 0 \in 0 .. (fid[f].len - 1) /\ at[f] + 0 = at[f]
      BY <1>6
    <2>3. get_entry_in_dir(fat, dents, chain, at[f]) = EntryOf(f, 0, fid[f].len)
      BY <2>1, <2>2
    <2> QED BY <1>6, <2>1, <2>3, EntryKinds DEF count, whose
  <1>10. dir[d] \in ChainType /\ dir[e] \in ChainType
    BY <1>5, <1>6
  <1>11. x0 \in [st : {"cached"}, in : {d}, len : {fid[f].len}, dir : {chain}, entry : {at[f]}]
    BY <1>5, <1>6 DEF FidType, x0
  <1>12. x1 \in [st : {"cached"}, in : {e}, len : {len}, dir : {copy}, entry : {room.entry}]
    BY <1>5, <1>6 DEF FidType, x1
  <1>13. x1 = [st |-> "cached", in |-> e, len |-> len, dir |-> copy, entry |-> room.entry]
    BY <1>12
  <1>a. at[f] \in Positions
    BY <1>5, <1>6, PlaceTyped
  <1> HIDE DEF d, old, chain
  <1>14. CASE moved /\ room.entry = -1
    <2>1. room = find_empty_entry(dir[e], len)
      BY <1>14 DEF room
    <2>2. RoomIs(cells, e, len, room)
      BY <1>5, <2>1, RoomFound
    <2>3. /\ Volume' /\ dir' = dir /\ fat' = fat /\ taken' = taken
          /\ Kept(fat, dents, dir, fid, hint_uentry', taken, others, cells, at)
      BY <1>4, <1>14, <2>2, RefusedKept
    <2>4. x0 = [st |-> "cached", in |-> fid[f].in, len |-> fid[f].len, dir |-> chain,
                entry |-> at[f]]
      BY <1>11, <1>14 DEF d
    <2> DEFINE h == hint_uentry'
    <2>5. Kept(fat, dents, dir, fid, h, taken, others, cells, at)
      BY <2>3
    <2> HIDE DEF h, x0
    <2>6. chain \in ChainType /\ Leads(chain, dir[fid[f].in].flags, cells[fid[f].in], at[f], fid[f].len)
      BY <1>8, <1>10 DEF d, chain
    <2>7. Kept(fat, dents, dir, [fid EXCEPT ![f] = x0], h, taken, others, cells, at)
      BY <1>6, <1>a, <2>4, <2>5, <2>6, KeptRenoded
    <2>8. Settled(fat', m.dents, dir', [fid EXCEPT ![f] = m.fid], hint_uentry', taken', others,
                  cells, at, dir, at, f)
      BY <1>3, <1>7, <1>14, <2>3, <2>7 DEF Settled, h
    <2>9. fat' = m.room.fat
      BY <1>3, <1>4 DEF Grown
    <2> QED BY <2>3, <2>8, <2>9
  <1>15. CASE moved /\ room.entry # -1
    <2>1. room = find_empty_entry(dir[e], len)
      BY <1>15 DEF room
    <2>2. RoomIs(cells, e, len, room)
      BY <1>5, <2>1, RoomFound
    <2>3. /\ Volume' /\ fat' = room.fat /\ taken' = room.taken /\ hint_uentry' = NoHint
          /\ dir'[e] = room.chain /\ room.chain \in ChainType
          /\ \A g \in Dirs \ {e} : dir'[g] = dir[g]
          /\ \A g \in Dirs : dir[g] # NoChain => dir'[g] # NoChain
      BY <1>4, <1>5, <1>15, <2>2, GrownKept
    <2>4. PICK cells2 :
              /\ Kept(fat', room.dents, dir', fid, NoHint, taken', others, cells2, at)
              /\ Room(View(room.dents, dir', cells2), dir', e, room.entry, len)
              /\ Led(dir, dir', cells2)
              /\ cells2[e][0] = cells[e][0]
      BY <1>4, <1>5, <1>15, <2>2, GrownKept
    <2> DEFINE t == fat'
               en == room.dents
               D == dir'
               tk == taken'
               p == room.entry
               from == IF d = e THEN room.chain ELSE chain
               set2 == exfat_init_ext_entry(t, en, D[e], p, f, len)
               W == exfat_delete_dir_entry(t, set2, from, at[f], 0, fid[f].len)
    <2>5. /\ Kept(t, en, D, fid, NoHint, tk, others, cells2, at)
          /\ Room(View(en, D, cells2), D, e, p, len) /\ D[e] # NoChain /\ D[e] = room.chain
          /\ Led(dir, D, cells2)
      BY <1>5, <2>3, <2>4
    <2>6. from = D[d]
      BY <1>6, <2>3 DEF d, chain
    <2>7. there = W
      BY <1>6, <1>9, <1>15, <2>3 DEF there, set
    <2> HIDE DEF t, en, D, tk, p, from, set2, W
    <2>8. /\ Laid(t, D, cells2, tk, others) /\ D \in [Dirs -> ChainType]
          /\ Holding(View(en, D, cells2), D, cells2, fid, at)
      BY <2>5 DEF Kept
    <2>9. Led(D, D, cells2)
      BY <2>8, LedByRow
    <2>10. Leads(from, D[fid[f].in].flags, cells2[fid[f].in], at[f], fid[f].len)
      <3>1. D[fid[f].in] # NoChain /\ at[f] + fid[f].len <= Span(D[fid[f].in])
        BY <1>6, <2>8, StandsFacts
      <3> QED BY <1>6, <2>6, <2>9, <3>1 DEF Led, d
    <2>11. Leads(D[e], D[e].flags, cells2[e], p, len)
      <3>1. p \in Nat /\ p + len <= Span(D[e]) /\ len \in Nat
        BY <2>5, LengthsNat DEF Room
      <3> QED BY <2>5, <2>9, <3>1 DEF Led
    <2>12. copy \in ChainType /\ Leads(copy, D[e].flags, cells2[e], p, len)
      <3>1. CASE d # e
        BY <2>5, <2>8, <2>11, <3>1 DEF copy
      <3>2. CASE d = e
        <4>1. copy = dir[e]
          BY <3>2 DEF copy, chain
        <4>2. copy.dir = cells2[e][0]
          <5>1. dir[e].dir = cells[e][0]
            BY <1>5, LaidRow
          <5> QED BY <2>4, <4>1, <5>1
        <4>3. D[e].dir = cells2[e][0]
          BY <2>11 DEF Leads
        <4>4. copy.flags = D[e].flags
          BY <1>4, <2>5, <3>2, <4>1
        <4> QED BY <1>10, <2>11, <4>1, <4>2, <4>3, <4>4 DEF Leads
      <3> QED BY <3>1, <3>2
    <2>13. x1 = [st |-> "cached", in |-> e, len |-> len, dir |-> copy, entry |-> p]
      BY <1>13 DEF p
    <2>14. Kept(t, W, D, [fid EXCEPT ![f] = x1], NoHint, tk, others, cells2, [at EXCEPT ![f] = p])
      BY <1>6, <2>5, <2>10, <2>12, <2>13, KeptMoved DEF W, set2
    <2>15. \A g \in Files \ {f} : [at EXCEPT ![f] = p][g] = at[g]
      <3>1. DOMAIN at = Files
        BY DEF Kept
      <3> QED BY <3>1
    <2>16. Settled(t, W, D, [fid EXCEPT ![f] = x1], NoHint, tk, others, cells2,
                   [at EXCEPT ![f] = p], dir, at, f)
      BY <2>5, <2>14, <2>15 DEF Settled
    <2>17. Settled(fat', m.dents, dir', [fid EXCEPT ![f] = m.fid], hint_uentry', taken', others,
                   cells2, [at EXCEPT ![f] = p], dir, at, f)
      BY <1>3, <1>15, <2>3, <2>7, <2>16 DEF t, D, tk
    <2>18. fat' = m.room.fat
      BY <1>3, <2>3
    <2> QED BY <2>3, <2>17, <2>18
  <1>16. CASE ~moved
    <2>1. d = e /\ len <= fid[f].len
      BY <1>6, <1>9, <1>16, LengthsNat DEF moved
    <2>2. room = RoomAt(old, hint_uentry, dir[e])
      BY <1>16 DEF room
    <2>3. /\ room.entry = at[f] /\ room.hint = hint_uentry /\ room.chain = dir[e]
          /\ room.dents = dents /\ room.taken = taken /\ room.fat = fat /\ room.srch = srch
          /\ room.used = used
      BY <1>6, <2>2 DEF RoomAt
    <2>4. room.entry # -1
      BY <1>6, <2>3
    <2>5. /\ dir' = dir /\ taken' = taken /\ fat' = fat /\ srch' = srch /\ used' = used
          /\ hint_uentry' = hint_uentry
      BY <1>4, <1>5, <2>3 DEF Grown
    <2>6. Volume'
      BY <2>5, SameVolume
    <2> DEFINE D == dir
               set2 == exfat_init_ext_entry(fat, dents, D[fid[f].in], at[f], f, len)
               W == exfat_delete_dir_entry(fat, set2, D[fid[f].in], at[f], len, fid[f].len)
    <2>7. there = W
      BY <1>6, <1>9, <1>16, <2>1, <2>3 DEF there, set, d
    <2>8. x1 = [st |-> "cached", in |-> fid[f].in, len |-> len, dir |-> D[fid[f].in],
                entry |-> at[f]]
      BY <1>13, <2>1, <2>3 DEF copy, chain, d
    <2> HIDE DEF set2, W, x1, D
    <2>9. Kept(fat, dents, D, fid, hint_uentry, taken, others, cells, at)
      BY DEF D
    <2>10. Kept(fat, W, D, [fid EXCEPT ![f] = x1], hint_uentry, taken, others, cells,
                [at EXCEPT ![f] = at[f]])
      BY <1>6, <2>1, <2>8, <2>9, KeptShortened DEF W, set2
    <2>11. \A g \in Files \ {f} : [at EXCEPT ![f] = at[f]][g] = at[g]
      <3>1. DOMAIN at = Files
        BY DEF Kept
      <3> QED BY <3>1
    <2>12. Settled(fat', m.dents, dir', [fid EXCEPT ![f] = m.fid], hint_uentry', taken', others,
                   cells, [at EXCEPT ![f] = at[f]], dir, at, f)
      BY <1>3, <1>7, <2>4, <2>5, <2>7, <2>10, <2>11 DEF Settled, D
    <2>13. fat' = m.room.fat
      BY <1>3, <2>3, <2>5
    <2> QED BY <2>5, <2>6, <2>12, <2>13
  <1> QED BY <1>14, <1>15, <1>16

LEMMA RenameStep ==
  ASSUME Ordinary, IInv, NEW r \in asked, exfat_rename(r)
  PROVE  IInv'
  <1> DEFINE f == r.file
             m == ffsMoveFile(f, r.to, r.len)
  <1>1. /\ r.from # NoDir /\ Moved(f, r.to, m) /\ dents' = m.dents
        /\ fid' = [fid EXCEPT ![f] = m.fid] /\ asked' = asked \ {r} /\ others' = others
    BY DEF exfat_rename, Renamed
  <1>2. Volume /\ Asking
    BY KeptIs
  <1>3. PICK cells, at : Kept(fat, dents, dir, fid, hint_uentry, taken, others, cells, at)
    BY KeptIs
  <1>4. DOMAIN fid = Files
    BY <1>2, <1>3, KeptFacts
  <1>5. f \in Files /\ r.to \in Dirs /\ Present(r.to) /\ r.len \in Lengths /\ Cached(f)
    BY <1>1, <1>2 DEF Asking
  <1>6. (\A q \in asked' : q.file # f) /\ asked' \subseteq asked
    BY <1>1, <1>2 DEF Asking
  <1> DEFINE e == r.to
             len == r.len
  <1> HIDE DEF f, e, len
  <1>7. m = ffsMoveFile(f, e, len) /\ e \in Dirs /\ Present(e) /\ len \in Lengths /\ Moved(f, e, m)
    BY <1>1, <1>5 DEF e, len
  <1> HIDE DEF m
  <1>8. /\ Volume' /\ \A d \in Dirs : dir[d] # NoChain => dir'[d] # NoChain
        /\ \E cells2, at2 : Settled(fat', m.dents, dir', [fid EXCEPT ![f] = m.fid], hint_uentry',
                                    taken', others, cells2, at2, dir, at, f)
    BY <1>2, <1>3, <1>5, <1>7, Moves
  <1>9. Somehow(fat', dents', dir', fid', hint_uentry', taken', others')
    BY <1>1, <1>8 DEF Somehow, Settled
  <1>10. Asking'
    <2>1. \A g \in Files \ {f} : fid'[g] = fid[g]
      BY <1>1, <1>4
    <2> QED BY <1>2, <1>4, <1>5, <1>6, <1>8, <2>1, AskingWithout
  <1> QED BY <1>8, <1>9, <1>10, Later

LEMMA ReplaceStep ==
  ASSUME Ordinary, IInv, NEW f \in Files, NEW g \in Files, exfat_replace(f, g)
  PROVE  IInv'
  <1> DEFINE e == fid[g].in
             len == fid[g].len
             m == ffsMoveFile(f, e, len)
             F1 == [fid EXCEPT ![f] = m.fid]
             x == [st |-> "cached", in |-> e, len |-> len, dir |-> dir[e], entry |-> fid[g].entry]
  <1>1. /\ f # g /\ Cached(f) /\ Cached(g) /\ ~Locked(fid[f].in) /\ ~Locked(e)
        /\ fid[f].st = "cached" /\ fid[g].st = "cached"
        /\ Moved(f, e, m) /\ asked' = asked /\ others' = others
        /\ IF m.room.entry = -1
           THEN dents' = m.dents /\ fid' = [fid EXCEPT ![f] = m.fid, ![g].dir = dir[e]]
           ELSE /\ dents' = remove_file(m.room.fat, m.dents, dir[e], fid[g].entry)
                /\ fid' = [fid EXCEPT ![f] = m.fid, ![g] = Forgotten]
    BY DEF exfat_replace, Replaced, Cached, Forgotten
  <1>2. Volume /\ Asking
    BY KeptIs
  <1>3. PICK cells, at : Kept(fat, dents, dir, fid, hint_uentry, taken, others, cells, at)
    BY KeptIs
  <1>4. /\ DOMAIN fid = Files /\ fid \in FidType /\ dir \in [Dirs -> ChainType]
        /\ Holding(View(dents, dir, cells), dir, cells, fid, at)
        /\ Laid(fat, dir, cells, taken, others)
    BY <1>2, <1>3, KeptFacts
  <1>5. /\ e \in Dirs /\ Present(e) /\ dir[e] # NoChain /\ len \in Lengths /\ len \in Nat
        /\ fid[f].in \in Dirs /\ at[g] = fid[g].entry /\ at[g] \in Nat
        /\ at[g] + len <= Span(dir[e]) /\ dir[e] \in ChainType
    BY <1>1, <1>4, StandsFacts DEF Present
  <1>6. at[g] \in Positions
    BY <1>4, <1>5, PlaceTyped
  <1> HIDE DEF m
  <1>7. /\ Volume' /\ fat' = m.room.fat
        /\ \A d \in Dirs : dir[d] # NoChain => dir'[d] # NoChain
        /\ \E cells2, at2 : Settled(fat', m.dents, dir', F1, hint_uentry', taken', others,
                                    cells2, at2, dir, at, f)
    <2> HIDE DEF e, len
    <2> QED BY <1>1, <1>2, <1>3, <1>5, Moves DEF m
  <1>8. PICK cells2, at2 : Settled(fat', m.dents, dir', F1, hint_uentry', taken', others,
                                   cells2, at2, dir, at, f)
    BY <1>7
  <1> DEFINE t == fat'
             en == m.dents
             D == dir'
             h == hint_uentry'
             tk == taken'
  <1>9. /\ Kept(t, en, D, F1, h, tk, others, cells2, at2) /\ Led(dir, D, cells2)
        /\ at2[g] = at[g]
    BY <1>1, <1>8 DEF Settled
  <1>10. F1[g] = fid[g]
    BY <1>1, <1>4
  <1>11. Leads(dir[e], D[F1[g].in].flags, cells2[F1[g].in], at2[g], F1[g].len)
    <2>1. Leads(dir[e], D[e].flags, cells2[e], at[g], len)
      BY <1>5, <1>9 DEF Led
    <2> QED BY <1>9, <1>10, <2>1
  <1>12. Asking'
    <2>1. ASSUME NEW r \in asked'
          PROVE  /\ dir'[r.to] # NoChain
                 /\ fid'[r.file].st = fid[r.file].st /\ fid'[r.file].in = fid[r.file].in
      <3>1. r \in asked /\ r.file # f /\ r.file # g
        BY <1>1, <1>2, <1>5, NotAsked
      <3>2. r.file \in Files
        BY <1>2, <3>1 DEF Asking
      <3>3. fid'[r.file] = fid[r.file]
        BY <1>1, <1>4, <3>1, <3>2
      <3> QED BY <1>2, <1>7, <3>1, <3>3 DEF Asking, Present
    <2> QED BY <1>1, <1>2, <2>1, AskingStays
  <1>13. CASE m.room.entry = -1
    <2>1. [fid[g] EXCEPT !.dir = dir[e]] = x
      <3> DEFINE y == [fid[g] EXCEPT !.dir = dir[e]]
      <3>1. y \in [st : {"cached"}, in : {e}, len : {len}, dir : {dir[e]}, entry : {fid[g].entry}]
        BY <1>1, <1>4 DEF FidType
      <3> HIDE DEF y, e, len
      <3>2. y = x
        BY <3>1
      <3> QED BY <3>2 DEF y, e, len
    <2>2. fid' = [F1 EXCEPT ![g] = x]
      <3>1. fid' = [F1 EXCEPT ![g] = [fid[g] EXCEPT !.dir = dir[e]]]
        BY <1>1, <1>4, <1>13
      <3> QED BY <2>1, <3>1
    <2>3. x = [st |-> "cached", in |-> F1[g].in, len |-> F1[g].len, dir |-> dir[e], entry |-> at2[g]]
      BY <1>5, <1>9, <1>10
    <2>4. F1[g].st # "absent" /\ at2[g] \in Positions /\ dir[e] \in ChainType
      BY <1>1, <1>5, <1>6, <1>9, <1>10
    <2> HIDE DEF F1, x, t, en, D, h, tk
    <2>5. Kept(t, en, D, [F1 EXCEPT ![g] = x], h, tk, others, cells2, at2)
      <3> DEFINE ch == dir[e]
      <3>1. /\ x = [st |-> "cached", in |-> F1[g].in, len |-> F1[g].len, dir |-> ch, entry |-> at2[g]]
            /\ ch \in ChainType
            /\ Leads(ch, D[F1[g].in].flags, cells2[F1[g].in], at2[g], F1[g].len)
        BY <1>11, <2>3, <2>4
      <3> HIDE DEF ch
      <3> QED BY <1>9, <2>4, <3>1, KeptRenoded
    <2>6. Somehow(fat', dents', dir', fid', hint_uentry', taken', others')
      BY <1>1, <1>13, <2>2, <2>5 DEF Somehow, t, en, D, h, tk
    <2> QED BY <1>7, <1>12, <2>6, Later
  <1>14. CASE m.room.entry # -1
    <2>1. fid' = [F1 EXCEPT ![g] = Forgotten]
      <3>1. fid' = [fid EXCEPT ![f] = m.fid, ![g] = Forgotten]
        BY <1>1, <1>14
      <3> HIDE DEF Forgotten
      <3> QED BY <3>1
    <2> DEFINE ch == dir[e]
               W == remove_file(t, en, ch, at2[g])
    <2>2. dents' = W
      BY <1>1, <1>5, <1>7, <1>9, <1>14
    <2>3. F1[g].st # "absent" /\ Leads(ch, D[F1[g].in].flags, cells2[F1[g].in], at2[g], F1[g].len)
      BY <1>1, <1>10, <1>11
    <2> HIDE DEF F1, t, en, D, h, tk, ch, W
    <2>4. Kept(t, W, D, [F1 EXCEPT ![g] = Forgotten], h, tk, others, cells2, at2)
      BY <1>9, <2>3, KeptRemoved DEF W
    <2>5. Somehow(fat', dents', dir', fid', hint_uentry', taken', others')
      BY <1>1, <2>1, <2>2, <2>4 DEF Somehow, t, D, h, tk
    <2> QED BY <1>7, <1>12, <2>5, Later
  <1> QED BY <1>13, <1>14

LEMMA InitStep ==
  ASSUME Init
  PROVE  IInv
  <1>1. /\ taken = {} /\ fat = [c \in Clusters |-> 0] /\ srch = 2 /\ used = Unknown
        /\ dents = [c \in Clusters |-> Filled(Contents)]
        /\ dir = [d \in Dirs |-> NoChain] /\ fid = [f \in Files |-> Forgotten]
        /\ hint_uentry = NoHint /\ asked = {} /\ others = {}
    BY DEF Init, ClustersInit, Forgotten
  <1>2. Volume
    BY <1>1, Numbers DEF Volume
  <1>3. Asking
    BY <1>1 DEF Asking
  <1> DEFINE cells == [d \in Dirs |-> [k \in {0} |-> 0]]
             at == [f \in Files |-> 0]
  <1>4. dents \in DentsType
    BY <1>1, GoneTyped DEF DentsType, Filled
  <1>5. dir \in [Dirs -> ChainType] /\ \A d \in Dirs : dir[d] = NoChain
    BY <1>1, NoChainTyped
  <1>6. Inodes(fid) /\ \A f \in Files : fid[f].st = "absent"
    <2>1. /\ Forgotten \in [st : {"absent", "cached", "evicted"}, in : Dirs \cup {NoDir},
                            len : {0} \cup Lengths, dir : ChainType, entry : {-1} \cup Positions]
          /\ Forgotten.st = "absent"
      BY NoChainTyped DEF Forgotten, NoFid
    <2> HIDE DEF Forgotten
    <2> QED BY <1>1, <2>1 DEF Inodes, FidType
  <1> HIDE DEF cells
  <1>7. Laid(fat, dir, cells, taken, others)
    BY <1>1, <1>5 DEF Laid
  <1>8. Hinted(hint_uentry, View(dents, dir, cells), dir, cells)
    BY <1>1, <1>7, NoHintHints
  <1>9. Holding(View(dents, dir, cells), dir, cells, fid, at)
    BY <1>5, <1>6 DEF Holding
  <1>10. DOMAIN at = Files
    OBVIOUS
  <1> HIDE DEF at
  <1>11. Kept(fat, dents, dir, fid, hint_uentry, taken, others, cells, at)
    BY <1>4, <1>5, <1>6, <1>7, <1>8, <1>9, <1>10 DEF Kept
  <1> QED BY <1>2, <1>3, <1>11 DEF IInv, Somehow

LEMMA NextStep ==
  ASSUME Ordinary, IInv, [Next]_vars
  PROVE  IInv'
  <1>1. CASE UNCHANGED vars
    <2>1. /\ taken' = taken /\ fat' = fat /\ srch' = srch /\ used' = used /\ dents' = dents
          /\ dir' = dir /\ fid' = fid /\ hint_uentry' = hint_uentry /\ asked' = asked
          /\ others' = others
      BY <1>1 DEF vars, clusterVars
    <2>2. Volume /\ Asking /\ Somehow(fat, dents, dir, fid, hint_uentry, taken, others)
      BY DEF IInv
    <2>3. Volume' /\ Asking'
      <3>1. \A r \in asked' : dir'[r.to] # NoChain
        BY <2>1, <2>2 DEF Asking, Present
      <3> QED BY <2>1, <2>2, <3>1, SameVolume, AskingStays
    <2> QED BY <2>1, <2>2, <2>3, Later
  <1>2. CASE Next
    <2>1. ASSUME NEW f \in Files, NEW d \in Dirs, NEW from \in Dirs \cup {NoDir},
                 NEW len \in Lengths, Ask(f, from, d, len)
          PROVE  IInv'
      BY <2>1, AskStep
    <2>2. ASSUME NEW r \in asked, Leave(r) \/ exfat_create(r) \/ exfat_rename(r) PROVE IInv'
      BY <2>2, LeaveStep, CreateStep, RenameStep
    <2>3. ASSUME NEW f \in Files, exfat_lookup(f) \/ exfat_unlink(f) \/ exfat_evict_inode(f)
          PROVE  IInv'
      BY <2>3, LookupStep, UnlinkStep, EvictStep
    <2>4. ASSUME NEW f \in Files, NEW g \in Files, exfat_replace(f, g) PROVE IInv'
      BY <2>4, ReplaceStep
    <2>5. ASSUME NEW d \in Dirs, exfat_mkdir(d) \/ exfat_rmdir(d) PROVE IInv'
      BY <2>5, MkdirStep, RmdirStep
    <2>6. ASSUME OthersTake \/ OthersFree PROVE IInv'
      BY <2>6, OthersStep
    <2> QED BY <1>2, <2>1, <2>2, <2>3, <2>4, <2>5, <2>6 DEF Next
  <1> QED BY <1>1, <1>2

-------------------------------------------------------------------------------
(* What follows from it *)

LEMMA GivesTypeOK ==
  ASSUME IInv
  PROVE  TypeOK
  <1>1. Volume /\ Asking
    BY KeptIs
  <1>2. PICK cells, at : Kept(fat, dents, dir, fid, hint_uentry, taken, others, cells, at)
    BY KeptIs
  <1>3. /\ Laid(fat, dir, cells, taken, others) /\ dents \in DentsType
        /\ dir \in [Dirs -> ChainType] /\ fid \in FidType
        /\ Holding(View(dents, dir, cells), dir, cells, fid, at) /\ HintFits(hint_uentry)
    BY <1>1, <1>2, KeptFacts
  <1>4. \A f \in Files : fid[f].st # "absent" => fid[f].in \in Dirs
    BY <1>3, StandsFacts
  <1>5. \A r \in asked : r.file \in Files /\ r.from \in Dirs \cup {NoDir} /\ Present(r.to)
    BY <1>1, <1>4 DEF Asking, Cached
  <1>6. taken \subseteq Clusters /\ others \subseteq Clusters
    BY <1>1, <1>3 DEF Volume, Laid
  <1>7. hint_uentry \in [dir : Clusters \cup {Eof}, entry : {-1} \cup Positions, clu : ChainType]
    BY <1>3 DEF HintFits, HintType
  <1> QED BY <1>1, <1>3, <1>5, <1>6, <1>7 DEF TypeOK, Volume, DentsType, Entries, FidType

LEMMA GivesFilesAreFound ==
  ASSUME IInv
  PROVE  FilesAreFound
  <1>1. Volume
    BY KeptIs
  <1>2. PICK cells, at : Kept(fat, dents, dir, fid, hint_uentry, taken, others, cells, at)
    BY KeptIs
  <1> DEFINE v == View(dents, dir, cells)
  <1>3. Laid(fat, dir, cells, taken, others) /\ Holding(v, dir, cells, fid, at)
    BY <1>1, <1>2, KeptFacts
  <1> SUFFICES ASSUME NEW d \in Dirs, dir[d] # NoChain
               PROVE  LET es   == EntriesOf(fat, dents, dir[d])
                          seen == {p \in DOMAIN es : ~IsEmpty(es[p])}
                      IN /\ \A p \in seen : \A q \in 0 .. p : es[q].type # "unused"
                         /\ \E at2 \in [In(d) -> seen] :
                              /\ \A f \in In(d) : \A k \in 0 .. (fid[f].len - 1) :
                                   /\ at2[f] + k \in seen
                                   /\ es[at2[f] + k] = EntryOf(f, k, fid[f].len)
                              /\ seen = UNION {at2[f] .. (at2[f] + fid[f].len - 1) : f \in In(d)}
    BY DEF FilesAreFound, Present
  <1> DEFINE es == EntriesOf(fat, dents, dir[d])
             n == Span(dir[d])
             seen == {p \in DOMAIN es : ~IsEmpty(es[p])}
             at2 == [f \in In(d) |-> at[f]]
  <1>4. es = v[d] /\ DOMAIN es = 0 .. (n - 1) /\ n \in Nat
    <2> DEFINE c == dir[d]
               s == cells[d]
    <2>1. Row(fat, c, s, c.size) /\ Span(c) \in Nat
      BY <1>3, LaidRow
    <2> HIDE DEF c, s
    <2>2. EntriesOf(fat, dents, c) = [q \in 0 .. (c.size * PerCluster - 1) |-> Seen(dents, s, q)]
      BY <2>1, EntriesAre
    <2> QED BY <2>1, <2>2 DEF View, Span, c, s
  <1> HIDE DEF es, v, n
  <1>5. \A p : p \in seen <=> p \in 0 .. (n - 1) /\ ~IsEmpty(es[p])
    BY <1>4
  <1>6. \A f \in In(d) : f \in Files /\ fid[f].st # "absent" /\ fid[f].in = d
    BY DEF In
  <1>7. ASSUME NEW f \in In(d), NEW k \in 0 .. (fid[f].len - 1)
        PROVE  at[f] + k \in seen /\ es[at[f] + k] = EntryOf(f, k, fid[f].len)
    <2>1. /\ fid[f].len \in Nat /\ at[f] \in Nat /\ at[f] + fid[f].len <= n
          /\ v[d][at[f] + k] = EntryOf(f, k, fid[f].len)
      BY <1>3, <1>6, StandsFacts DEF n
    <2>2. at[f] + k \in 0 .. (n - 1)
      BY <1>4, <2>1
    <2> QED BY <1>4, <1>5, <2>1, <2>2, EntryKinds
  <1>8. ASSUME NEW f \in In(d) PROVE at[f] \in seen /\ at[f] \in Nat /\ fid[f].len \in Nat \ {0}
    <2>1. fid[f].len \in Nat \ {0} /\ at[f] \in Nat
      BY <1>3, <1>6, StandsFacts
    <2>2. 0 \in 0 .. (fid[f].len - 1) /\ at[f] + 0 = at[f]
      BY <2>1
    <2> QED BY <1>7, <2>1, <2>2
  <1>9. ASSUME NEW p \in seen
        PROVE  \E f \in In(d) : p \in at[f] .. (at[f] + fid[f].len - 1)
    <2>1. p \in 0 .. (n - 1) /\ ~IsEmpty(v[d][p])
      BY <1>4, <1>5
    <2>2. PICK f \in Files : /\ fid[f].st # "absent" /\ fid[f].in = d
                             /\ p \in at[f] .. (at[f] + fid[f].len - 1)
      BY <1>3, <2>1 DEF Holding, Tidy, n
    <2> QED BY <2>2 DEF In
  <1>10. ASSUME NEW f \in In(d), NEW p \in at[f] .. (at[f] + fid[f].len - 1) PROVE p \in seen
    <2>1. p - at[f] \in 0 .. (fid[f].len - 1) /\ at[f] + (p - at[f]) = p
      BY <1>8
    <2> QED BY <1>7, <2>1
  <1>11. ASSUME NEW p \in seen, NEW q \in 0 .. p PROVE es[q].type # "unused"
    <2>1. p \in 0 .. (n - 1) /\ ~IsEmpty(v[d][p])
      BY <1>4, <1>5
    <2>2. q \in 0 .. (n - 1) /\ (q < p \/ q = p)
      BY <1>4, <2>1
    <2>3. UnusedLast(v[d], n)
      BY <1>3 DEF Holding, Tidy, n
    <2>4. v[d][p].type # "unused"
      BY <2>1, EntryKinds
    <2> QED BY <1>4, <2>1, <2>2, <2>3, <2>4 DEF UnusedLast
  <1> HIDE DEF seen
  <1>12. at2 \in [In(d) -> seen] /\ \A f \in In(d) : at2[f] = at[f]
    BY <1>8
  <1> HIDE DEF at2
  <1>13. seen = UNION {at2[f] .. (at2[f] + fid[f].len - 1) : f \in In(d)}
    BY <1>9, <1>10, <1>12
  <1> QED BY <1>7, <1>11, <1>12, <1>13 DEF es, seen

LEMMA GivesFids ==
  ASSUME IInv
  PROVE  FidsFindTheirEntries
  <1>1. Volume
    BY KeptIs
  <1>2. PICK cells, at : Kept(fat, dents, dir, fid, hint_uentry, taken, others, cells, at)
    BY KeptIs
  <1>3. /\ Laid(fat, dir, cells, taken, others)
        /\ Holding(View(dents, dir, cells), dir, cells, fid, at)
    BY <1>1, <1>2, KeptFacts
  <1> SUFFICES ASSUME NEW f \in Files, fid[f].st = "cached"
               PROVE  \A k \in 0 .. (fid[f].len - 1) :
                        get_entry_in_dir(fat, dents, fid[f].dir, fid[f].entry + k) =
                          EntryOf(f, k, fid[f].len)
    BY DEF FidsFindTheirEntries, Cached
  <1>4. /\ fid[f].entry = at[f] /\ fid[f].st # "absent"
        /\ Leads(fid[f].dir, dir[fid[f].in].flags, cells[fid[f].in], at[f], fid[f].len)
    BY <1>3, StandsFacts
  <1>5. \A k \in 0 .. (fid[f].len - 1) :
          get_entry_in_dir(fat, dents, fid[f].dir, at[f] + k) = EntryOf(f, k, fid[f].len)
    BY <1>3, <1>4, SetIsRead
  <1> QED BY <1>4, <1>5

LEMMA GivesChains ==
  ASSUME IInv
  PROVE  ChainsAreSound
  <1>1. Volume
    BY KeptIs
  <1>2. PICK cells, at : Kept(fat, dents, dir, fid, hint_uentry, taken, others, cells, at)
    BY KeptIs
  <1>3. Laid(fat, dir, cells, taken, others)
    BY <1>1, <1>2, KeptFacts
  <1>4. ASSUME NEW d \in Dirs, dir[d] # NoChain
        PROVE  /\ dir[d].size \in Nat
               /\ ScanOf(fat, dir[d]) = [k \in 1 .. dir[d].size |-> cells[d][k - 1]]
               /\ ToSet(ScanOf(fat, dir[d])) = {cells[d][k] : k \in 0 .. (dir[d].size - 1)}
    <2> DEFINE c == dir[d]
               s == cells[d]
               n == c.size
    <2>1. Row(fat, c, s, n) /\ n \in Nat
      BY <1>3, <1>4, LaidRow
    <2> HIDE DEF c, s, n
    <2>2. ScanOf(fat, c) = [k \in 1 .. n |-> s[k - 1]]
      BY <2>1, ScanIs
    <2>3. ToSet(ScanOf(fat, c)) = {s[k - 1] : k \in 1 .. n}
      BY <2>2 DEF ToSet
    <2>4. \A k \in 0 .. (n - 1) : k + 1 \in 1 .. n /\ (k + 1) - 1 = k
      BY <2>1
    <2>5. \A k \in 1 .. n : k - 1 \in 0 .. (n - 1)
      BY <2>1
    <2>6. ToSet(ScanOf(fat, c)) = {s[k] : k \in 0 .. (n - 1)}
      BY <2>3, <2>4, <2>5
    <2> QED BY <2>1, <2>2, <2>6 DEF c, s, n
  <1> SUFFICES ASSUME NEW d \in Dirs, dir[d] # NoChain
               PROVE  LET clu == ScanOf(fat, dir[d])
                      IN /\ Len(clu) = dir[d].size /\ IsInjective(clu)
                         /\ ToSet(clu) \subseteq taken \ others
                         /\ \A e \in Dirs \ {d} : dir[e] # NoChain =>
                              ToSet(clu) \cap ToSet(ScanOf(fat, dir[e])) = {}
    BY DEF ChainsAreSound, Present
  <1> DEFINE clu == ScanOf(fat, dir[d])
             n == dir[d].size
  <1>5. /\ n \in Nat /\ clu = [k \in 1 .. n |-> cells[d][k - 1]]
        /\ ToSet(clu) = {cells[d][k] : k \in 0 .. (n - 1)}
    BY <1>4
  <1> HIDE DEF clu
  <1>6. Len(clu) = n
    BY <1>5
  <1>7. IsInjective(clu)
    <2>1. \A j, k \in 0 .. (n - 1) : cells[d][j] = cells[d][k] => j = k
      BY <1>3, LaidRow DEF Row
    <2>2. ASSUME NEW j \in 1 .. n, NEW k \in 1 .. n, clu[j] = clu[k] PROVE j = k
      <3>1. j - 1 \in 0 .. (n - 1) /\ k - 1 \in 0 .. (n - 1) /\ cells[d][j - 1] = cells[d][k - 1]
        BY <1>5, <2>2
      <3>2. j - 1 = k - 1
        BY <2>1, <3>1
      <3> QED BY <3>2
    <2>3. DOMAIN clu = 1 .. n
      BY <1>5
    <2> QED BY <2>2, <2>3 DEF IsInjective
  <1>8. ToSet(clu) \subseteq taken \ others
    BY <1>3, <1>5 DEF Laid
  <1>9. ASSUME NEW e \in Dirs \ {d}, dir[e] # NoChain
        PROVE  ToSet(clu) \cap ToSet(ScanOf(fat, dir[e])) = {}
    <2>1. ToSet(ScanOf(fat, dir[e])) = {cells[e][k] : k \in 0 .. (dir[e].size - 1)}
      BY <1>4, <1>9
    <2>2. \A k \in 0 .. (n - 1), j \in 0 .. (dir[e].size - 1) : cells[d][k] # cells[e][j]
      BY <1>3, <1>9 DEF Laid
    <2> QED BY <1>5, <2>1, <2>2
  <1> QED BY <1>6, <1>7, <1>8, <1>9 DEF clu

\* In every state the files' sets are where the inodes and the directories'
\* chains lead, in clusters that are the directories' own, and the hint promises
\* nothing that is not so.
THEOREM DirectoriesAreKept == Ordinary => (Spec => []IInv)
  <1> SUFFICES ASSUME Ordinary PROVE Spec => []IInv
    OBVIOUS
  <1>1. Init => IInv
    BY InitStep
  <1>2. IInv /\ [Next]_vars => IInv'
    BY NextStep
  <1> QED BY <1>1, <1>2, PTL DEF Spec

\* Every state is typed, and a name that was looked up is asked of a directory
\* that exists.
THEOREM TypeCorrect == Ordinary => (Spec => []TypeOK)
  <1> SUFFICES ASSUME Ordinary PROVE Spec => []TypeOK
    OBVIOUS
  <1>1. Spec => []IInv
    BY DirectoriesAreKept
  <1>2. IInv => TypeOK
    BY GivesTypeOK
  <1> QED BY <1>1, <1>2, PTL

\* A scan of a directory sees each of its files' sets, whole and once, and
\* nothing of a set that was deleted, moved or replaced.
THEOREM FilesFound == Ordinary => (Spec => []FilesAreFound)
  <1> SUFFICES ASSUME Ordinary PROVE Spec => []FilesAreFound
    OBVIOUS
  <1>1. Spec => []IInv
    BY DirectoriesAreKept
  <1>2. IInv => FilesAreFound
    BY GivesFilesAreFound
  <1> QED BY <1>1, <1>2, PTL

\* The chain and the number an inode keeps lead to its entries, however its
\* directory has grown since.
THEOREM FidsFind == Ordinary => (Spec => []FidsFindTheirEntries)
  <1> SUFFICES ASSUME Ordinary PROVE Spec => []FidsFindTheirEntries
    OBVIOUS
  <1>1. Spec => []IInv
    BY DirectoriesAreKept
  <1>2. IInv => FidsFindTheirEntries
    BY GivesFids
  <1> QED BY <1>1, <1>2, PTL

\* A directory's clusters are taken, as many as its size says, and nobody else's.
THEOREM ChainsSound == Ordinary => (Spec => []ChainsAreSound)
  <1> SUFFICES ASSUME Ordinary PROVE Spec => []ChainsAreSound
    OBVIOUS
  <1>1. Spec => []IInv
    BY DirectoriesAreKept
  <1>2. IInv => ChainsAreSound
    BY GivesChains
  <1> QED BY <1>1, <1>2, PTL

===============================================================================
