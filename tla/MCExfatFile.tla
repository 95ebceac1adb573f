---------------------------- MODULE MCExfatFile ----------------------------
(***************************************************************************)
(* ExfatFile for TLC: two files, one of them able to fill the volume.      *)
(* Slots are interchangeable.  View leaves out what no step reads before   *)
(* it writes it: the FAT entry of a free cluster, all of the FAT while     *)
(* every chain is contiguous, and the hint of a contiguous file or of one  *)
(* mapped at its start.                                                    *)
(***************************************************************************)
EXTENDS ExfatFile, TLC

CONSTANTS f1, f2

MCFiles == {f1, f2}
MCMaxSize == (f1 :> 3) @@ (f2 :> 1)
Symmetry == Permutations(Slots)

FatRead == \E f \in Files : ino[f].flags = Linked \/ ino[f].st # "cached"
FatView == [c \in Clusters |-> IF FatRead /\ c \in taken THEN fat[c] ELSE 0]
HintRead(i) == i.flags = Linked /\ i.hoff > 0
InoView == [f \in Files |-> IF HintRead(ino[f]) THEN ino[f]
                            ELSE [ino[f] EXCEPT !.hoff = -1, !.hclu = Eof]]

\* Bound: the free space is asked for before a second cluster is taken, or never
\* again in what is looked at.
AskedEarly == used = Unknown => Cardinality(taken) <= 1
View == <<taken, FatView, srch, used, entry, InoView>>
=============================================================================
