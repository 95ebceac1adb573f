--------------------------- MODULE ExfatFileSpec ---------------------------
(***************************************************************************)
(* What a file system promises of the data of its files, whatever it keeps *)
(* on the volume: a file is a sequence of clusters, no cluster is in two   *)
(* places, and one call changes one file: it grows by a cluster that was   *)
(* nobody's, is cut at its end, or goes away.                              *)
(***************************************************************************)
EXTENDS Naturals, SequencesExt

CONSTANTS Files, Clusters

VARIABLE files

Init == files = [f \in Files |-> <<>>]

\* From was to now, f grew by a cluster that no file held, or was cut.
Grew(f, was, now) ==
  /\ Len(now[f]) = Len(was[f]) + 1
  /\ \E c \in Clusters \ UNION {ToSet(was[g]) : g \in Files} : now[f] = Append(was[f], c)

WasCut(f, was, now) == IsStrictPrefix(now[f], was[f])

OneCall(was, now) == \E f \in Files :
  /\ now[f] # was[f]
  /\ \A g \in Files \ {f} : now[g] = was[g]
  /\ Grew(f, was, now) \/ WasCut(f, was, now)

Next == OneCall(files, files')

Spec == Init /\ [][Next]_files
=============================================================================
