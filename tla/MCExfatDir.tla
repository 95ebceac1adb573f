----------------------------- MODULE MCExfatDir -----------------------------
(***************************************************************************)
(* The small volumes on which ExfatDir is checked.  Directories and files  *)
(* are interchangeable: no definition of ExfatDir tells them apart.        *)
(***************************************************************************)
EXTENDS ExfatDir

Symmetric == Permutations(Files) \cup Permutations(Dirs)

\* What no step reads is left out: the FAT entries of clusters in no linked
\* chain, and the hint of a directory that is no more.
LinkedClusters ==
  UNION {ToSet(ScanOf(fat, dir[d])) : d \in {e \in Dirs : dir[e].flags = Linked}}
WhatIsRead ==
  <<taken, srch, used, dents, dir, fid, asked, others,
    [c \in LinkedClusters |-> fat[c]],
    IF \E d \in Dirs : Present(d) /\ hint_uentry.dir = dir[d].dir THEN hint_uentry ELSE NoHint>>
=============================================================================
