------------------------------ MODULE ExfatDir ------------------------------
(***************************************************************************)
(* The directories of an exFAT volume (exfat_core.c): the entries in their *)
(* clusters, and what the driver remembers between calls: with each inode  *)
(* a copy of its directory's chain and the number of its entry, and for    *)
(* the whole volume hint_uentry, where the last search saw room.           *)
(*                                                                         *)
(* A call runs under the superblock's lock and is one action.  The kernel  *)
(* looks a name up before it creates it or renames to it (no entry of the  *)
(* name cache that says "absent" is ever believed, exfat_super.c:268), and *)
(* holds the directories concerned over both calls: calls about other      *)
(* directories come in between.  The directories lie in the root, which is *)
(* linked and has room.  A name is told by the entries its set takes.      *)
(***************************************************************************)
EXTENDS ExfatClusters, SequencesExt

CONSTANTS
  Dirs, Files,   \* the directories and the files there may be
  Lengths,       \* entries a set may take
  PerCluster,    \* dentries_per_clu
  RenamesTurn,   \* may a rename turn its own directory into a linked chain?
  RefusalsSpoil, \* may a call for one directory that is refused for want of
                 \* space leave the hint at another one?
  NoFile, NoDir

ASSUME DirAssumption ==
  /\ PerCluster \in Nat \ {0}
  /\ Lengths \subseteq 1 .. PerCluster
  /\ NoFile \notin Files /\ NoDir \notin Dirs
  /\ RenamesTurn \in BOOLEAN /\ RefusalsSpoil \in BOOLEAN

VARIABLES
  dents,         \* cluster -> the entries in it
  dir,           \* directory -> its chain, the same in its inode and in the root
  fid,           \* file -> its name's length and its FILE_ID_T
  hint_uentry,
  asked,         \* calls between their lookup and the call itself
  others         \* clusters of files

vars == <<clusterVars, dents, dir, fid, hint_uentry, asked, others>>

Unused == [type |-> "unused", of |-> NoFile, n |-> 0]
Deleted == [type |-> "deleted", of |-> NoFile, n |-> 0]
Contents == [type |-> "data", of |-> NoFile, n |-> 0]
\* The k-th entry of a file's set of len entries; the first tells num_ext.
EntryOf(f, k, len) == [type |-> IF k = 0 THEN "file" ELSE "ext", of |-> f,
                       n |-> IF k = 0 THEN len - 1 ELSE k]
IsEmpty(e) == e.type \in {"unused", "deleted"}

Filled(e) == [i \in 0 .. (PerCluster - 1) |-> e]
NoChain == [dir |-> Eof, size |-> 0, flags |-> Contiguous]
NoHint == [dir |-> Eof, entry |-> -1, clu |-> NoChain]
NoFid(st, d, len) == [st |-> st, in |-> d, len |-> len, dir |-> NoChain, entry |-> -1]

Init ==
  /\ ClustersInit({})
  /\ dents = [c \in Clusters |-> Filled(Contents)]
  /\ dir = [d \in Dirs |-> NoChain]
  /\ fid = [f \in Files |-> NoFid("absent", NoDir, 0)]
  /\ hint_uentry = NoHint
  /\ asked = {} /\ others = {}

Present(d) == dir[d] # NoChain
Cached(f) == fid[f].st = "cached"
\* A directory whose i_mutex a call holds from its lookup on, and an inode in use.
Locked(d) == d # NoDir /\ \E r \in asked : d \in {r.from, r.to}
Busy(f) == \E r \in asked : r.file = f

(***************************************************************************)
(* Where the entries of a chain are.                                       *)
(***************************************************************************)

\* The clusters a scan goes through; it ends with the size of a contiguous
\* chain and with the end mark of a linked one.
ScanOf(table, chain) ==
  IF chain.flags = Contiguous
  THEN [k \in 1 .. Max({chain.size, 1}) |-> chain.dir + k - 1]
  ELSE LET nth  == Walk(table, chain.dir)
           ends == {k \in 1 .. NumClusters : nth[k] = Eof} \cup {NumClusters}
       IN [k \in 1 .. Min(ends) |-> nth[k - 1]]

EntriesOf(table, entries, chain) ==
  LET clu == ScanOf(table, chain)
  IN [p \in 0 .. (Len(clu) * PerCluster - 1) |->
        LET c == clu[p \div PerCluster + 1]
        IN IF c \in Clusters THEN entries[c][p % PerCluster] ELSE Contents]

\* The cluster of an entry, which the chain's first cluster and flags decide.
find_location(table, chain, p) ==
  IF chain.flags = Contiguous THEN chain.dir + p \div PerCluster
  ELSE Walk(table, chain.dir)[Min({p \div PerCluster, NumClusters})]

get_entry_in_dir(table, entries, chain, p) ==
  LET c == find_location(table, chain, p)
  IN IF c \in Clusters THEN entries[c][p % PerCluster] ELSE Contents

\* The entries, with those at some positions of a chain written anew.
Written(table, entries, chain, at) ==
  [c \in Clusters |-> [i \in 0 .. (PerCluster - 1) |->
     LET here == {p \in DOMAIN at : find_location(table, chain, p) = c /\ p % PerCluster = i}
     IN IF here = {} THEN entries[c][i] ELSE at[Max(here)]]]

exfat_init_ext_entry(table, entries, chain, p, f, len) ==
  Written(table, entries, chain, [q \in p .. (p + len - 1) |-> EntryOf(f, q - p, len)])

exfat_delete_dir_entry(table, entries, chain, p, order, num) ==
  Written(table, entries, chain, [q \in (p + order) .. (p + num - 1) |-> Deleted])

exfat_count_ext_entries(table, entries, chain, p) ==
  LET at(q) == get_entry_in_dir(table, entries, chain, q)
  IN Min({k \in 0 .. at(p).n : k = at(p).n \/ at(p + 1 + k).type # "ext"})

\* The entries of a set.
NumEntries(table, entries, chain, p) ==
  exfat_count_ext_entries(table, entries, chain, p) + 1

remove_file(table, entries, chain, p) ==
  exfat_delete_dir_entry(table, entries, chain, p, 0, NumEntries(table, entries, chain, p))

(***************************************************************************)
(* Looking for room.                                                       *)
(***************************************************************************)

\* The rest of a chain from the cluster of a scan's p-th position on.
RestFrom(table, chain, p) ==
  LET k == p \div PerCluster
  IN [chain EXCEPT !.dir = ScanOf(table, chain)[k + 1],
                   !.size = IF chain.flags = Contiguous THEN @ - k ELSE @]

\* A lookup that finds nothing notes the first run that is long enough, or
\* that reaches the unused entries.
HintOfLookup(chain, len) ==
  LET es     == EntriesOf(fat, dents, chain)
      unused == {p \in DOMAIN es : es[p].type = "unused"}
      stop   == Min(unused \cup {Max(DOMAIN es)})
      runs   == {p \in 0 .. stop :
                   /\ p > 0 => ~IsEmpty(es[p - 1])
                   /\ \E q \in p .. stop : /\ \A r \in p .. q : IsEmpty(es[r])
                                           /\ q - p + 1 >= len \/ q \in unused}
  IN IF runs = {} THEN [NoHint EXCEPT !.dir = chain.dir]
     ELSE [dir |-> chain.dir, entry |-> Min(runs), clu |-> RestFrom(fat, chain, Min(runs))]

search_deleted_or_unused_entry(table, entries, chain, hint, len) ==
  LET mine  == hint.dir = chain.dir
      start == IF mine THEN hint.entry ELSE 0
      base  == start - (start % PerCluster)
      es    == EntriesOf(table, entries, IF mine THEN hint.clu ELSE chain)
      stop  == base + Max(DOMAIN es)
      at(p) == es[p - base]
      fits  == {p \in start .. (stop - len + 1) :
                  \A q \in p .. (p + len - 1) : IsEmpty(at(q))}
      fresh == {p \in start .. stop : at(p).type = "unused"}
  IN IF mine /\ start = -1 THEN [entry |-> -1, hint |-> hint]
     ELSE IF fits # {} THEN [entry |-> Min(fits), hint |-> NoHint]
     ELSE [entry |-> -1,
           hint  |-> IF mine THEN hint
                     ELSE IF fresh = {} THEN [NoHint EXCEPT !.dir = hint.dir]
                     ELSE [dir |-> chain.dir, entry |-> Min(fresh),
                           clu |-> RestFrom(table, chain, Min(fresh))]]

find_last_cluster(chain) == Last(ScanOf(fat, chain))

\* The hint of a directory whose chain is being turned into a linked one.
HintTurned_Kept(hint) == hint
HintTurned(hint) == IF hint.entry = -1 THEN hint ELSE [hint EXCEPT !.clu.flags = Linked]

\* A place for a set, and what has changed until it was found.
RoomAt(p, hint, chain) ==
  [entry |-> p, hint |-> hint, chain |-> chain, dents |-> dents,
   taken |-> taken, fat |-> fat, srch |-> srch, used |-> used]

\* The directory gets the cluster new behind its last one, and the search
\* starts over: the cluster is enough for any set.
RoomInLonger(chain, len, hint0, last, new) ==
  LET turned == new.flags # chain.flags
      chained == IF turned THEN exfat_chain_cont_cluster(new.fat, chain.dir, chain.size)
                 ELSE new.fat
      table  == IF new.flags = Linked THEN [chained EXCEPT ![last] = new.dir] ELSE chained
      kept   == IF turned THEN HintTurned(hint0) ELSE hint0
      hint   == IF kept.entry # -1 THEN [kept EXCEPT !.clu.size = @ + 1]
                ELSE [dir |-> chain.dir, entry |-> chain.size * PerCluster,
                      clu |-> [dir |-> new.dir, size |-> 1, flags |-> new.flags]]
      longer == [chain EXCEPT !.size = @ + 1, !.flags = new.flags]
      entries == [dents EXCEPT ![new.dir] = Filled(Unused)]
      found  == search_deleted_or_unused_entry(table, entries, longer, hint, len)
  IN IF new.n = 0 THEN [RoomAt(-1, hint0, chain) EXCEPT !.srch = new.srch]
     ELSE [entry |-> found.entry, hint |-> found.hint, chain |-> longer, dents |-> entries,
           taken |-> new.taken, fat |-> table, srch |-> new.srch, used |-> new.used]

find_empty_entry(chain, len) ==
  LET first == search_deleted_or_unused_entry(fat, dents, chain, hint_uentry, len)
      last  == find_last_cluster(chain)
  IN IF first.entry # -1 THEN RoomAt(first.entry, first.hint, chain)
     ELSE RoomInLonger(chain, len, first.hint, last, exfat_alloc_cluster(last + 1, chain.flags))

\* What stays of it: the directory's inode and its entry in the root follow.
\* A refusal ends the call.
Grown(d, room) ==
  /\ taken' = room.taken /\ fat' = room.fat /\ srch' = room.srch /\ used' = room.used
  /\ hint_uentry' = room.hint
  /\ dir' = [dir EXCEPT ![d] = room.chain]
  /\ room.entry = -1 /\ ~RefusalsSpoil =>
       \A e \in Dirs \ {d} : Present(e) => room.hint.dir # dir[e].dir

(***************************************************************************)
(* The calls.                                                              *)
(***************************************************************************)

Call(f, from, to, len) == [file |-> f, from |-> from, to |-> to, len |-> len]

\* The lookup of a name that is not there, for a create or for a rename.
Ask(f, from, to, len) ==
  /\ Present(to) /\ ~Locked(to) /\ ~Locked(from) /\ ~Busy(f)
  /\ \/ from = NoDir /\ fid[f].st = "absent"
     \/ Cached(f) /\ from = fid[f].in
  /\ asked' = asked \cup {Call(f, from, to, len)}
  /\ hint_uentry' = HintOfLookup(dir[to], len)
  /\ UNCHANGED <<clusterVars, dents, dir, fid, others>>

\* Nobody wanted to do more than look.
Leave(r) ==
  /\ asked' = asked \ {r}
  /\ UNCHANGED <<clusterVars, dents, dir, fid, hint_uentry, others>>

\* The lookup of a name that is there: an inode in memory is found by its
\* place, another is made from what the entries say.
Found(chain, f) ==
  LET es == EntriesOf(fat, dents, chain)
  IN {p \in DOMAIN es : es[p] = EntryOf(f, 0, fid[f].len)
                        /\ \A q \in 0 .. p : es[q].type # "unused"}

exfat_lookup(f) ==
  /\ fid[f].st # "absent" /\ ~Locked(fid[f].in)
  /\ LET chain == dir[fid[f].in]
         at    == Found(chain, f)
     IN IF at = {} THEN hint_uentry' = HintOfLookup(chain, fid[f].len) /\ UNCHANGED fid
        ELSE /\ hint_uentry' = NoHint
             /\ fid' = IF Cached(f) THEN fid
                       ELSE [fid EXCEPT ![f] = [@ EXCEPT !.st = "cached", !.dir = chain,
                                                         !.entry = Min(at)]]
  /\ UNCHANGED <<clusterVars, dents, dir, asked, others>>

\* The chain a new file's inode gets, which find_empty_entry may have changed.
ChainOfCreated_Before(d, room) == dir[d]
ChainOfCreated(d, room) == room.chain

CreatedIn(r, room) ==
  /\ Grown(r.to, room)
  /\ IF room.entry = -1 THEN UNCHANGED <<dents, fid>>
     ELSE /\ dents' = exfat_init_ext_entry(room.fat, room.dents, room.chain, room.entry,
                                           r.file, r.len)
          /\ fid' = [fid EXCEPT ![r.file] =
                       [st |-> "cached", in |-> r.to, len |-> r.len,
                        dir |-> ChainOfCreated(r.to, room), entry |-> room.entry]]

exfat_create(r) ==
  /\ r.from = NoDir
  /\ CreatedIn(r, find_empty_entry(dir[r.to], r.len))
  /\ asked' = asked \ {r}
  /\ UNCHANGED others

\* rename_file and move_file: the set of a file goes to a place in directory e.
MovedTo(f, e, len, old, count, moved, room) ==
  LET chain == dir[fid[f].in]
      same  == fid[f].in = e
      whose == get_entry_in_dir(fat, dents, chain, old).of
      set   == exfat_init_ext_entry(room.fat, room.dents, room.chain, room.entry, whose, len)
      there == exfat_delete_dir_entry(room.fat, set, IF same THEN room.chain ELSE chain,
                                      old, IF moved THEN 0 ELSE len, count)
  IN IF room.entry = -1
     THEN [room |-> room, dents |-> dents, fid |-> [fid[f] EXCEPT !.dir = chain]]
     ELSE [room |-> room, dents |-> there,
           fid  |-> [fid[f] EXCEPT !.in = e, !.len = len, !.entry = room.entry,
                                   !.dir = IF same THEN chain ELSE room.chain]]

\* ffsMoveFile: within its directory a set stays where it is unless the name is
\* longer, and the inode's copy of the chain is the one from before.
ffsMoveFile(f, e, len) ==
  LET old   == fid[f].entry
      count == NumEntries(fat, dents, dir[fid[f].in], old)
      moved == fid[f].in # e \/ count < len
  IN MovedTo(f, e, len, old, count, moved,
             IF moved THEN find_empty_entry(dir[e], len)
             ELSE RoomAt(old, hint_uentry, dir[e]))

\* What both kinds of rename change in the directory of the new name.
Moved(f, e, m) ==
  /\ Grown(e, m.room)
  /\ fid[f].in = e /\ m.room.chain.flags # dir[e].flags => RenamesTurn

Renamed(f, e, m) ==
  Moved(f, e, m) /\ dents' = m.dents /\ fid' = [fid EXCEPT ![f] = m.fid]

exfat_rename(r) ==
  /\ r.from # NoDir
  /\ Renamed(r.file, r.to, ffsMoveFile(r.file, r.to, r.len))
  /\ asked' = asked \ {r}
  /\ UNCHANGED others

\* The new name is another file's, whose entries are deleted afterwards.
Replaced(f, g, e, m) ==
  /\ Moved(f, e, m)
  /\ IF m.room.entry = -1
     THEN /\ dents' = m.dents
          /\ fid' = [fid EXCEPT ![f] = m.fid, ![g].dir = dir[e]]
     ELSE /\ dents' = remove_file(m.room.fat, m.dents, dir[e], fid[g].entry)
          /\ fid' = [fid EXCEPT ![f] = m.fid, ![g] = NoFid("absent", NoDir, 0)]

exfat_replace(f, g) ==
  /\ f # g /\ Cached(f) /\ Cached(g)
  /\ ~Locked(fid[f].in) /\ ~Locked(fid[g].in)
  /\ Replaced(f, g, fid[g].in, ffsMoveFile(f, fid[g].in, fid[g].len))
  /\ UNCHANGED <<asked, others>>

\* The inode's own copy of the chain leads to the entries.
exfat_unlink(f) ==
  /\ Cached(f) /\ ~Locked(fid[f].in)
  /\ dents' = remove_file(fat, dents, fid[f].dir, fid[f].entry)
  /\ fid' = [fid EXCEPT ![f] = NoFid("absent", NoDir, 0)]
  /\ UNCHANGED <<clusterVars, dir, hint_uentry, asked, others>>

exfat_evict_inode(f) ==
  /\ Cached(f) /\ ~Busy(f)
  /\ fid' = [fid EXCEPT ![f] = NoFid("evicted", @.in, @.len)]
  /\ UNCHANGED <<clusterVars, dents, dir, hint_uentry, asked, others>>

\* The lookup and the search for room in the root leave no hint.
exfat_mkdir(d) ==
  /\ ~Present(d)
  /\ hint_uentry' = NoHint
  /\ LET new == exfat_alloc_cluster(Eof, Contiguous)
     IN /\ taken' = new.taken /\ fat' = new.fat /\ srch' = new.srch /\ used' = new.used
        /\ IF new.n = 0 THEN UNCHANGED <<dir, dents>>
           ELSE /\ dir' = [dir EXCEPT ![d] =
                             [dir |-> new.dir, size |-> 1, flags |-> Contiguous]]
                /\ dents' = [dents EXCEPT ![new.dir] = Filled(Unused)]
  /\ UNCHANGED <<fid, asked, others>>

is_dir_empty(chain) ==
  LET es == EntriesOf(fat, dents, chain)
  IN \A p \in DOMAIN es :
       es[p].type = "file" => \E q \in 0 .. (p - 1) : es[q].type = "unused"

\* The entries of a cluster that is free matter to nobody: who takes it next
\* clears it.
exfat_rmdir(d) ==
  /\ Present(d) /\ ~Locked(d) /\ is_dir_empty(dir[d])
  /\ exfat_free_cluster(fat, dir[d].dir, dir[d].size, dir[d].flags)
  /\ dir' = [dir EXCEPT ![d] = NoChain]
  /\ dents' = [c \in Clusters |-> IF c \in ToSet(ScanOf(fat, dir[d])) THEN Filled(Contents)
                                  ELSE dents[c]]
  /\ UNCHANGED <<fid, hint_uentry, asked, others>>

\* A file elsewhere on the volume takes its first cluster, or gives it back.
OthersTake ==
  /\ LET new == exfat_alloc_cluster(Eof, Contiguous)
     IN /\ new.n = 1
        /\ taken' = new.taken /\ fat' = new.fat /\ srch' = new.srch /\ used' = new.used
        /\ others' = others \cup {new.dir}
  /\ UNCHANGED <<dents, dir, fid, hint_uentry, asked>>

OthersFree ==
  /\ \E c \in others : others' = others \ {c} /\ exfat_free_cluster(fat, c, 1, Contiguous)
  /\ UNCHANGED <<dents, dir, fid, hint_uentry, asked>>

Next ==
  \/ \E f \in Files, d \in Dirs, from \in Dirs \cup {NoDir}, len \in Lengths : Ask(f, from, d, len)
  \/ \E r \in asked : Leave(r) \/ exfat_create(r) \/ exfat_rename(r)
  \/ \E f \in Files : exfat_lookup(f) \/ exfat_unlink(f) \/ exfat_evict_inode(f)
  \/ \E f, g \in Files : exfat_replace(f, g)
  \/ \E d \in Dirs : exfat_mkdir(d) \/ exfat_rmdir(d)
  \/ OthersTake \/ OthersFree

Spec == Init /\ [][Next]_vars

(***************************************************************************)
(* What should hold.                                                       *)
(***************************************************************************)
In(d) == {f \in Files : fid[f].st # "absent" /\ fid[f].in = d}

\* A scan of a directory sees the whole set of each of its files once, and no
\* part of any other: nothing of a set that was deleted or replaced is left, no
\* set is written over another, and no set lies behind the first unused entry,
\* where a lookup ends.  Wherever sets were put, whatever was seen before.
FilesAreFound ==
  \A d \in Dirs : Present(d) =>
    LET es   == EntriesOf(fat, dents, dir[d])
        seen == {p \in DOMAIN es : ~IsEmpty(es[p])}
    IN /\ \A p \in seen : \A q \in 0 .. p : es[q].type # "unused"
       /\ \E at \in [In(d) -> seen] :
            /\ \A f \in In(d) : \A k \in 0 .. (fid[f].len - 1) :
                 at[f] + k \in seen /\ es[at[f] + k] = EntryOf(f, k, fid[f].len)
            /\ seen = UNION {at[f] .. (at[f] + fid[f].len - 1) : f \in In(d)}

\* The chain and the number that an inode keeps still lead to its entries,
\* after its directory has grown or become a linked chain.
FidsFindTheirEntries ==
  \A f \in Files : Cached(f) =>
    \A k \in 0 .. (fid[f].len - 1) :
      get_entry_in_dir(fat, dents, fid[f].dir, fid[f].entry + k) = EntryOf(f, k, fid[f].len)

\* Every state is typed; a name asked for is asked of a directory that exists,
\* and no search of the bitmap has left it (exfat_alloc_cluster's hint).
Positions == 0 .. (NumClusters * PerCluster)
ChainType == [dir : Clusters \cup {Eof}, size : 0 .. NumClusters, flags : {Linked, Contiguous}]

TypeOK ==
  /\ taken \subseteq Clusters /\ others \subseteq Clusters
  /\ fat \in [Clusters -> Clusters \cup {0, Eof}]
  /\ srch \in Clusters /\ used = Unknown
  /\ dents \in [Clusters -> [0 .. (PerCluster - 1) ->
       [type : {"unused", "deleted", "data", "file", "ext"}, of : Files \cup {NoFile},
        n : 0 .. PerCluster]]]
  /\ dir \in [Dirs -> ChainType]
  /\ fid \in [Files -> [st : {"absent", "cached", "evicted"}, in : Dirs \cup {NoDir},
                        len : {0} \cup Lengths, dir : ChainType, entry : {-1} \cup Positions]]
  /\ hint_uentry \in [dir : Clusters \cup {Eof}, entry : {-1} \cup Positions, clu : ChainType]
  /\ \A r \in asked : r.file \in Files /\ r.from \in Dirs \cup {NoDir} /\ Present(r.to)

\* A directory's clusters are taken, as many as its size says, and nobody
\* else's.
ChainsAreSound ==
  \A d \in Dirs : Present(d) =>
    LET clu == ScanOf(fat, dir[d])
    IN /\ Len(clu) = dir[d].size /\ IsInjective(clu)
       /\ ToSet(clu) \subseteq taken \ others
       /\ \A e \in Dirs \ {d} : Present(e) => ToSet(clu) \cap ToSet(ScanOf(fat, dir[e])) = {}
=============================================================================
