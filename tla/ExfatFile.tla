----------------------------- MODULE ExfatFile -----------------------------
(***************************************************************************)
(* The files of an exFAT directory and the two records kept of each: the   *)
(* entry on the volume (exfat_core.c) and the inode in memory with its     *)
(* FILE_ID_T (exfat_super.c).  A call is one action for each time it takes *)
(* the lock of the superblock or of the volume: writing an inode back      *)
(* reads the size before it takes the lock, and a cut sets the size before *)
(* it takes the lock to free the clusters, so anything that does not wait  *)
(* for the inode's mutex comes in between.  A page of the page cache keeps *)
(* the cluster it was mapped to and is written there at some time.  Sizes  *)
(* are counted in clusters.  A call refused for a read-only attribute      *)
(* (exfat_core.c:896, 981) changes nothing and is no step.                 *)
(***************************************************************************)
EXTENDS ExfatClusters, SequencesExt

CONSTANTS
  Files,        \* the files there may be
  Slots,        \* places for an entry in the directory
  Reserved,     \* clusters of the bitmap, the upcase table and the directory
  MaxSize,      \* bound: file -> clusters it may grow to
  HoldOpen,     \* files that are kept open, and used, after they are unlinked;
                \* any other is unlinked while nobody has it open or writes its
                \* inode back, and is evicted as it is unlinked
  EntryFails,   \* may copying a directory entry fail (no memory for it)?
  NoEntry       \* a slot that is unused or deleted

ASSUME FilesAssumption ==
  /\ IsFiniteSet(Files)
  /\ NoEntry \notin [file : Files, clu0 : Int, flags : {Linked, Contiguous}, size : Nat]
  /\ Reserved \subseteq Clusters
  /\ MaxSize \in [Files -> Nat]
  /\ HoldOpen \subseteq Files
  /\ EntryFails \in BOOLEAN

VARIABLES
  entry,        \* slot -> the entry there: whose, first cluster, flags, size
  ino           \* file -> its inode; wrote is the size a write of the inode has
                \* read, cut the size before a cut that is under way

vars == <<taken, fat, srch, used, entry, ino>>

NoSize == -1

Absent(st, slot) ==
  [st |-> st, slot |-> slot, start |-> Eof, flags |-> Contiguous,
   isize |-> 0, mmu |-> 0, hoff |-> -1, hclu |-> Eof,
   dirty |-> FALSE, wrote |-> NoSize, at |-> Eof, cut |-> NoSize, pages |-> {}]

Init ==
  /\ ClustersInit(Reserved)
  /\ entry = [s \in Slots |-> NoEntry]
  /\ ino = [f \in Files |-> Absent("absent", NoEntry)]

Live(f) == ino[f].st = "cached"
\* An inode a process can still reach through an open descriptor.
Usable(f) == Live(f) \/ (ino[f].st = "gone" /\ f \in HoldOpen)
FreeSlot(s) == entry[s] = NoEntry
\* Neither a write nor a cut holds the inode's mutex.
Unlocked(f) == ino[f].at = Eof /\ ino[f].cut = NoSize

(***************************************************************************)
(* ffsMapCluster: the cluster at an offset of the file, allocated when the *)
(* chain ends there.                                                       *)
(***************************************************************************)

\* Where the search ends: the cluster, or Eof and the last one before it.
Located(i, off) ==
  IF i.flags = Contiguous
  THEN IF off > 0 /\ i.start # Eof
       THEN [last |-> i.start + off - 1,
             clu  |-> IF off = i.mmu THEN Eof ELSE i.start + off]
       ELSE [last |-> i.start, clu |-> i.start]
  ELSE LET hinted == off > 0 /\ i.hoff > 0 /\ off >= i.hoff
           nth    == Walk(fat, IF hinted THEN i.hclu ELSE i.start)
           steps  == IF hinted THEN off - i.hoff ELSE off
           stop   == Min({steps} \cup {k \in 0 .. steps : nth[k] = Eof})
       IN [last |-> IF stop = 0 THEN i.start ELSE nth[stop - 1], clu |-> nth[stop]]

\* The entry on the volume is changed when it must name another first cluster
\* or another kind of chain.
Modified_FirstOnly(first, turned) == first
Modified(first, turned) == first \/ turned

\* What becomes of the inode, the clusters and the entries; copied says
\* whether memory for the copy of the entry was to be had.
ffsMapCluster(f, off, copied) ==
  LET i      == ino[f]
      at     == Located(i, off)
      first  == at.last = Eof
      new    == exfat_alloc_cluster(IF first THEN Eof ELSE at.last + 1, i.flags)
      turned == ~first /\ new.flags # i.flags
      chained == IF turned THEN exfat_chain_cont_cluster(new.fat, i.start, i.mmu)
                 ELSE new.fat
      linked == IF ~first /\ new.flags = Linked
                THEN [chained EXCEPT ![at.last] = new.dir] ELSE chained
      named  == [i EXCEPT !.flags = IF new.flags = Linked THEN Linked ELSE @,
                          !.start = IF first THEN new.dir ELSE @]
      hinted(j, clu) == [j EXCEPT !.hoff = off, !.hclu = clu]
      kept   == [ok |-> TRUE, clu |-> at.clu, ino |-> hinted(i, at.clu),
                 taken |-> taken, fat |-> fat, srch |-> srch, used |-> used,
                 entry |-> entry]
  IN IF at.clu # Eof THEN kept
     ELSE IF new.n = 0 THEN [kept EXCEPT !.ok = FALSE, !.ino = i, !.srch = new.srch]
     ELSE IF ~copied \/ FreeSlot(i.slot)
     THEN [kept EXCEPT !.ok = FALSE, !.ino = named, !.taken = new.taken,
                       !.fat = linked, !.srch = new.srch, !.used = new.used]
     ELSE [ok |-> TRUE, clu |-> new.dir, ino |-> hinted(named, new.dir),
           taken |-> new.taken, fat |-> linked, srch |-> new.srch, used |-> new.used,
           entry |-> IF Modified(first, turned)
                     THEN [entry EXCEPT ![i.slot].flags = named.flags,
                                        ![i.slot].clu0 = named.start]
                     ELSE entry]

Take(m) ==
  /\ taken' = m.taken /\ fat' = m.fat /\ srch' = m.srch /\ used' = m.used
  /\ entry' = m.entry

Copied == IF EntryFails THEN BOOLEAN ELSE {TRUE}

(***************************************************************************)
(* The operations.                                                         *)
(***************************************************************************)

exfat_create(f, s) ==
  /\ ino[f].st = "absent" /\ FreeSlot(s)
  /\ entry' = [entry EXCEPT ![s] = [file |-> f, clu0 |-> 0, flags |-> Linked, size |-> 0]]
  /\ ino' = [ino EXCEPT ![f] = Absent("cached", s)]
  /\ UNCHANGED clusterVars

\* A file whose inode is not in memory is looked up: what its entry says.
exfat_lookup(f) ==
  /\ ino[f].st = "evicted"
  /\ LET e == entry[ino[f].slot]
     IN ino' = [ino EXCEPT ![f] =
                  [Absent("cached", ino[f].slot) EXCEPT
                     !.isize = e.size, !.mmu = e.size,
                     !.flags = IF e.size = 0 THEN Contiguous ELSE e.flags,
                     !.start = IF e.size = 0 THEN Eof ELSE e.clu0]]
  /\ UNCHANGED <<clusterVars, entry>>

\* write_begin at the end of the file: get_block with create, whose mapping is
\* m.  When it fails, exfat_write_failed takes mmu_private back to the size and,
\* the size being unchanged, ffsTruncateFile frees nothing.
BeginsWith(f, m) ==
  /\ Take(m)
  /\ ino' = [ino EXCEPT ![f] =
               IF m.ok THEN [m.ino EXCEPT !.mmu = @ + 1, !.at = m.clu]
               ELSE [m.ino EXCEPT !.mmu = ino[f].isize, !.dirty = TRUE]]

exfat_write_begin(f, copied) ==
  /\ Usable(f) /\ Unlocked(f)
  /\ ino[f].isize < MaxSize[f]
  /\ BeginsWith(f, ffsMapCluster(f, ino[f].isize, copied))

exfat_write_end(f) ==
  /\ ino[f].at # Eof
  /\ ino' = [ino EXCEPT ![f].isize = @ + 1, ![f].dirty = TRUE, ![f].at = Eof,
                        ![f].pages = @ \cup {<<ino[f].isize, ino[f].at>>}]
  /\ UNCHANGED <<clusterVars, entry>>

\* The data could not be copied in: write_end is short and exfat_write_failed
\* runs as above.
exfat_write_failed(f) ==
  /\ ino[f].at # Eof
  /\ ino' = [ino EXCEPT ![f].mmu = ino[f].isize, ![f].at = Eof, ![f].dirty = TRUE]
  /\ UNCHANGED <<clusterVars, entry>>

\* get_block for a block inside the file, where bmap takes create back: a read,
\* an overwrite, or the writeback of a page that has no blocks yet.  The page
\* keeps the cluster it was told.
Mapped(f, off, m) == IF m.ok /\ m.clu # Eof THEN {<<off, m.clu>>} ELSE {}

MapsPage(f, off, m) ==
  /\ Take(m)
  /\ ino' = [ino EXCEPT ![f] = [m.ino EXCEPT !.pages = @ \cup Mapped(f, off, m)]]

exfat_get_block(f, off, copied) ==
  /\ Usable(f) /\ off < ino[f].isize
  /\ MapsPage(f, off, ffsMapCluster(f, off, copied))

\* A change of the inode alone: of its times or attributes, by a setattr
\* without a size or by an overwrite.
mark_inode_dirty(f) ==
  /\ Usable(f)
  /\ ino' = [ino EXCEPT ![f].dirty = TRUE]
  /\ UNCHANGED <<clusterVars, entry>>

\* What a truncation leaves of the hint, and of the cached pages.
HintAfterCut_Kept(i) == i.hoff
HintAfterCut(i) == IF FreeSlot(i.slot) THEN i.hoff ELSE -1

PagesBelow_All(pages, size) == pages
PagesBelow(pages, size) == {p \in pages : p[1] < size}

\* A cut: truncate_setsize sets the size and drops the pages past it, with no
\* lock but the inode's mutex.
exfat_setattr(f, size) ==
  /\ Usable(f) /\ Unlocked(f) /\ size < ino[f].isize
  /\ ino' = [ino EXCEPT ![f].isize = size, ![f].cut = ino[f].isize,
                        ![f].pages = PagesBelow(@, size)]
  /\ UNCHANGED <<clusterVars, entry>>

\* The rest of it under the lock: ffsTruncateFile from the size before.
exfat_truncate(f) ==
  /\ ino[f].cut # NoSize
  /\ LET i    == ino[f]
         size == i.isize
         nth  == Walk(fat, i.start)
         tail == i.flags = Linked /\ size > 0
         from == IF i.flags = Contiguous THEN i.start + size ELSE nth[size]
         left == IF i.flags = Contiguous THEN i.cut - size ELSE i.cut
         zero == size = 0
     IN /\ ino' = [ino EXCEPT ![f] =
                     [i EXCEPT !.mmu = Min({@, size}),
                               !.flags = IF zero THEN Contiguous ELSE @,
                               !.start = IF zero THEN Eof ELSE @,
                               !.hoff = HintAfterCut(i),
                               !.dirty = TRUE,
                               !.cut = NoSize]]
        /\ IF FreeSlot(i.slot) THEN UNCHANGED <<clusterVars, entry>>
           ELSE /\ entry' = [entry EXCEPT ![i.slot].size = size,
                                          ![i.slot].flags = IF zero THEN Linked ELSE @,
                                          ![i.slot].clu0 = IF zero THEN 0 ELSE @]
                /\ exfat_free_cluster(IF tail THEN [fat EXCEPT ![nth[size - 1]] = Eof] ELSE fat,
                                      from, left, i.flags)

Leaves(f) == f \in HoldOpen \/ ino[f].wrote = NoSize

\* ffsRemoveFile: the entry goes, then the clusters; the inode stays until the
\* last user lets go of it.
exfat_unlink(f) ==
  /\ Live(f) /\ Unlocked(f) /\ Leaves(f)
  /\ entry' = [entry EXCEPT ![ino[f].slot] = NoEntry]
  /\ exfat_free_cluster(fat, ino[f].start, ino[f].isize, ino[f].flags)
  /\ ino' = [ino EXCEPT ![f] =
               IF f \in HoldOpen
               THEN [@ EXCEPT !.st = "gone", !.start = Eof, !.flags = Contiguous]
               ELSE Absent("absent", NoEntry)]

\* ffsMoveFile within the directory: a longer name takes another slot.
exfat_rename(f, s) ==
  /\ Live(f)
  /\ s = ino[f].slot \/ FreeSlot(s)
  /\ entry' = [entry EXCEPT ![ino[f].slot] = NoEntry, ![s] = entry[ino[f].slot]]
  /\ ino' = [ino EXCEPT ![f].slot = s, ![f].dirty = TRUE]
  /\ UNCHANGED clusterVars

\* The same onto the name of another file: its entries are deleted as well.
exfat_replace(f, g, s) ==
  /\ Live(f) /\ Live(g) /\ f # g /\ Unlocked(g) /\ Leaves(g)
  /\ s = ino[f].slot \/ FreeSlot(s)
  /\ entry' = [entry EXCEPT ![ino[f].slot] = NoEntry, ![ino[g].slot] = NoEntry,
                            ![s] = entry[ino[f].slot]]
  /\ ino' = [ino EXCEPT ![f].slot = s, ![f].dirty = TRUE,
                        ![g] = IF g \in HoldOpen THEN [@ EXCEPT !.st = "gone"]
                               ELSE Absent("absent", NoEntry)]
  /\ UNCHANGED clusterVars

\* Writing an inode back: the size is read with no lock held (the kernel has
\* taken back the dirty mark, and one write of an inode waits for another) ...
exfat_write_inode(f) ==
  /\ Usable(f) /\ ino[f].dirty /\ ino[f].wrote = NoSize
  /\ ino' = [ino EXCEPT ![f].dirty = FALSE, ![f].wrote = ino[f].isize]
  /\ UNCHANGED <<clusterVars, entry>>

\* ... and goes, in ffsSetStat, to whatever entry the slot holds by then.
FsWriteStat(f) ==
  /\ ino[f].wrote # NoSize
  /\ ino' = [ino EXCEPT ![f].wrote = NoSize]
  /\ entry' = IF FreeSlot(ino[f].slot) THEN entry
              ELSE [entry EXCEPT ![ino[f].slot].size = ino[f].wrote]
  /\ UNCHANGED clusterVars

exfat_evict_inode(f) ==
  /\ ino[f].st \in {"cached", "gone"} /\ Unlocked(f) /\ ino[f].wrote = NoSize
  /\ Live(f) => ~ino[f].dirty
  /\ ino' = [ino EXCEPT ![f] = IF Live(f) THEN Absent("evicted", @.slot)
                               ELSE Absent("absent", NoEntry)]
  /\ UNCHANGED <<clusterVars, entry>>

exfat_statfs == ffsGetVolInfo /\ UNCHANGED <<entry, ino>>

Next ==
  \/ exfat_statfs
  \/ \E f \in Files :
       \/ \E s \in Slots : exfat_create(f, s) \/ exfat_rename(f, s)
       \/ \E g \in Files, s \in Slots : exfat_replace(f, g, s)
       \/ \E size \in 0 .. (MaxSize[f] - 1) : exfat_setattr(f, size)
       \/ exfat_truncate(f)
       \/ \E off \in 0 .. (MaxSize[f] - 1), copied \in Copied : exfat_get_block(f, off, copied)
       \/ \E copied \in Copied : exfat_write_begin(f, copied)
       \/ exfat_lookup(f) \/ exfat_unlink(f) \/ exfat_evict_inode(f)
       \/ exfat_write_end(f) \/ exfat_write_failed(f) \/ mark_inode_dirty(f)
       \/ exfat_write_inode(f) \/ FsWriteStat(f)

Spec == Init /\ [][Next]_vars
(***************************************************************************)
(* What should hold.                                                       *)
(***************************************************************************)
Named(f) == ino[f].st \in {"cached", "evicted"}

\* The clusters a chain gives a file of the size.
Data(start, flags, size) ==
  IF flags = Contiguous THEN [k \in 1 .. size |-> start + k - 1]
  ELSE LET nth == Walk(fat, start) IN [k \in 1 .. size |-> nth[k - 1]]

\* What the next lookup would find, and what the driver works with.
OnVolume(f) ==
  LET e == entry[ino[f].slot]
  IN IF e.size = 0 THEN <<>> ELSE Data(e.clu0, e.flags, e.size)
InMemory(f) == Data(ino[f].start, ino[f].flags, ino[f].isize)

FileData(f) == CASE Live(f) -> InMemory(f)
                 [] ino[f].st = "evicted" -> OnVolume(f)
                 [] OTHER -> <<>>
Owned(f) == ToSet(FileData(f))

Largest == Max({MaxSize[f] : f \in Files})

TypeOK ==
  /\ taken \subseteq Clusters
  /\ fat \in [Clusters -> Clusters \cup {0, Eof}]
  /\ srch \in Clusters
  /\ used \in 0 .. NumClusters \cup {Unknown}
  /\ entry \in [Slots -> [file : Files, clu0 : Clusters \cup {0, Eof},
                         flags : {Linked, Contiguous}, size : 0 .. Largest] \cup {NoEntry}]
  /\ ino \in [Files ->
       [st : {"absent", "cached", "evicted", "gone"}, slot : Slots \cup {NoEntry},
        start : Clusters \cup {Eof}, flags : {Linked, Contiguous},
        isize : 0 .. Largest, mmu : 0 .. Largest, hoff : -1 .. Largest,
        hclu : Clusters \cup {Eof}, dirty : BOOLEAN, wrote : NoSize .. Largest,
        at : Clusters \cup {Eof}, cut : NoSize .. Largest,
        pages : SUBSET ((0 .. Largest) \X Clusters)]]

\* A file's data lies in clusters that are taken and that are no other file's,
\* through conversion to a linked chain, truncation, failed writes, rename,
\* replacement, eviction and lookup.
DataIsItsOwn ==
  LET data == [f \in Files |-> FileData(f)] IN
  \A f \in Files :
    /\ ToSet(data[f]) \subseteq taken \ Reserved
    /\ IsInjective(data[f])
    /\ \A g \in Files \ {f} : ToSet(data[f]) \cap ToSet(data[g]) = {}

\* An entry stays its file's own, and when the inode is written and nothing is
\* under way it says what the inode says, whatever was read too early or written
\* too late before: the inode may be evicted from then on, and a lookup reads
\* the entry.
Settled(i) == ~i.dirty /\ i.wrote = NoSize /\ i.cut = NoSize

LookupFindsTheFile ==
  \A f \in Files : Live(f) =>
    /\ entry[ino[f].slot] # NoEntry /\ entry[ino[f].slot].file = f
    /\ Settled(ino[f]) => OnVolume(f) = InMemory(f)

\* At no time does the entry give a file more than the file has: what the volume
\* holds when it is pulled out is a beginning of each file.
EntryNeverAhead ==
  \A f \in Files : Live(f) /\ ino[f].cut = NoSize => IsPrefix(OnVolume(f), InMemory(f))

\* A page that is still to be written goes to the cluster that holds that part
\* of the file, and to no cluster that was freed or given to another file.
PagesGoHome ==
  \A f \in Files : Live(f) =>
    LET data == InMemory(f)
    IN \A p \in ino[f].pages : p[1] < Len(data) /\ data[p[1] + 1] = p[2]

\* The free space told to statfs is what the bitmap says.
UsedIsCounted == used # Unknown => used = Cardinality(taken)

\* A mapping asked for without create never allocates (exfat_bmap sets *create
\* to 0 for a block inside the file).
ReadAllocatesNothing ==
  [][\A f \in Files, copied \in Copied : \A off \in 0 .. (MaxSize[f] - 1) :
       exfat_get_block(f, off, copied) => taken' = taken]_vars

\* Every cluster that is taken belongs to a file, to a write in progress or to a
\* cut that is still to free it.
BeingCut(f) == ToSet(Data(ino[f].start, ino[f].flags, ino[f].cut))
NothingLeaks ==
  taken \ Reserved \subseteq UNION {Owned(f) \cup {ino[f].at} \cup BeingCut(f) : f \in Files}

\* A page of a file that is gone is written to nobody else's data.
GonePagesHarmless ==
  \A f, g \in Files : f # g => {p[2] : p \in ino[f].pages} \cap Owned(g) = {}

\* A write is refused for want of space only when no cluster is free.
FullMeansFull ==
  [][\A f \in Files : (exfat_write_begin(f, TRUE) /\ ino'[f].at = Eof
                          /\ entry[ino[f].slot] # NoEntry)
                       => taken = Clusters]_vars

FileAbstraction == INSTANCE ExfatFileSpec WITH files <- [f \in Files |-> FileData(f)]
RefinesFileSpec == FileAbstraction!Spec
=============================================================================
