--------------------------- MODULE ExfatClusters ---------------------------
(***************************************************************************)
(* The clusters of an exFAT volume as exfat_core.c keeps them: which are   *)
(* taken (the allocation bitmap), the FAT, where the next search begins    *)
(* and how many are in use.  ExfatFile extends this module; every routine  *)
(* here runs under the volume's lock, so one call is one step of it.       *)
(*                                                                         *)
(* A chain is either contiguous (flags 0x03: its FAT entries mean nothing) *)
(* or linked through the FAT (flags 0x01).                                 *)
(***************************************************************************)
EXTENDS Integers, Sequences, FiniteSetsExt

CONSTANTS
  NumClusters,   \* p_fs->num_clusters: clusters 2 .. NumClusters - 1 hold data
  ByteBits       \* bits the bitmap is scanned by at a time (8 in the code)

ASSUME ClustersAssumption ==
  /\ NumClusters \in Nat /\ NumClusters > 2
  /\ ByteBits \in Nat \ {0}

VARIABLES
  taken,         \* vol_amap: the clusters whose bit is set
  fat,           \* the FAT: cluster -> next cluster, 0 or Eof
  srch,          \* clu_srch_ptr
  used           \* used_clusters, Unknown until it is first asked for

clusterVars == <<taken, fat, srch, used>>

Clusters == 2 .. (NumClusters - 1)
Eof == -1                       \* CLUSTER_32(~0), also "no cluster"
Unknown == -1                   \* used_clusters == (u32) ~0
Linked == 1                     \* flags 0x01
Contiguous == 3                 \* flags 0x03

\* A volume of which only the first reserved clusters are taken (the bitmap,
\* the upcase table and the root directory), just mounted.
ClustersInit(reserved) ==
  /\ taken = reserved
  /\ fat = [c \in Clusters |-> 0]
  /\ srch = 2
  /\ used = Unknown

(***************************************************************************)
(* The bitmap scan: byte by byte from the one that holds clu, all bytes    *)
(* once and around the end; of the first byte only the bits from clu on.   *)
(***************************************************************************)
NumBytes == (NumClusters - 2 + ByteBits - 1) \div ByteBits

test_alloc_bitmap(clu) ==
  LET first   == (clu - 2) \div ByteBits
      byte(k) == (first + k) % NumBytes
      free(k) == {c \in Clusters \ taken : /\ (c - 2) \div ByteBits = byte(k)
                                           /\ k = 0 => c >= clu}
      hits    == {k \in 0 .. (NumBytes - 1) : free(k) # {}}
  IN IF hits = {} THEN Eof ELSE Min(free(Min(hits)))

\* FAT_read: the two reserved entries in front of the data read as an end.
FAT_read(table, clu) == IF clu \in Clusters THEN table[clu] ELSE Eof

\* The k-th cluster of the chain linked from clu, and the clusters of it.
Walk(table, clu) ==
  LET nth[k \in 0 .. NumClusters] ==
        IF k = 0 THEN clu ELSE FAT_read(table, nth[k - 1])
  IN nth

exfat_chain_cont_cluster_Short(table, chain, len) ==
  [c \in Clusters |-> IF c \in chain .. (chain + len - 3) THEN c + 1
                      ELSE IF len > 1 /\ c = chain + len - 2 THEN Eof
                      ELSE table[c]]
exfat_chain_cont_cluster(table, chain, len) ==
  [c \in Clusters |-> IF c \in chain .. (chain + len - 2) THEN c + 1
                      ELSE IF len > 0 /\ c = chain + len - 1 THEN Eof
                      ELSE table[c]]

\* Where the search for a cluster to follow dir begins.
Hint_NoWrap(dir) == IF dir = Eof THEN test_alloc_bitmap(srch) ELSE dir
Hint(dir) ==
  IF dir = Eof THEN test_alloc_bitmap(srch)
  ELSE IF dir >= NumClusters THEN 2 ELSE dir

\* One cluster, at the hint if it can be had (every caller of the write path
\* asks for one).  n is the number allocated, dir the cluster, flags what the
\* chain it is to be appended to becomes.
exfat_alloc_cluster(dir, flags0) ==
  LET hint   == Hint(dir)
      flags1 == IF dir # Eof /\ dir >= NumClusters THEN Linked ELSE flags0
      new    == test_alloc_bitmap(hint)
      flags  == IF new # hint THEN Linked ELSE flags1
      same   == [n |-> 0, dir |-> Eof, flags |-> flags1,
                 taken |-> taken, fat |-> fat, srch |-> srch, used |-> used]
  IN IF hint = Eof THEN same
     ELSE IF new = Eof THEN [same EXCEPT !.srch = hint]
     ELSE [n     |-> 1, dir |-> new, flags |-> flags,
           taken |-> taken \cup {new},
           fat   |-> IF flags = Linked THEN [fat EXCEPT ![new] = Eof] ELSE fat,
           srch  |-> hint,
           used  |-> IF used = Unknown THEN used ELSE used + 1]

\* The clusters exfat_free_cluster visits for a chain {dir, size, flags}.
Visited(table, dir, size, flags) ==
  IF dir \in {0, Eof} \/ size <= 0 THEN {}
  ELSE IF flags = Contiguous THEN dir .. (dir + size - 1)
  ELSE LET nth  == Walk(table, dir)
           ends == {k \in 1 .. NumClusters : nth[k] \in {0, Eof}}
       IN {nth[k] : k \in 0 .. ((IF ends = {} THEN NumClusters ELSE Min(ends)) - 1)}

exfat_free_cluster_BySize(table, dir, size, flags) ==
  LET gone == Visited(table, dir, size, flags)
  IN /\ taken' = taken \ gone
     /\ fat' = table
     /\ used' = IF used = Unknown \/ gone = {} THEN used ELSE used - size
     /\ UNCHANGED srch
exfat_free_cluster(table, dir, size, flags) ==
  LET gone == Visited(table, dir, size, flags)
  IN /\ taken' = taken \ gone
     /\ fat' = table
     /\ used' = IF used = Unknown THEN used ELSE used - Cardinality(gone)
     /\ UNCHANGED srch

\* statfs on a volume whose clusters have not been counted yet.
ffsGetVolInfo ==
  /\ used = Unknown
  /\ used' = Cardinality(taken)
  /\ UNCHANGED <<taken, fat, srch>>
=============================================================================
