------------------------------ MODULE Retention ------------------------------
(***************************************************************************)
(* The rolling window of the build manager (webui/retention.go): which     *)
(* builds lose their artifacts when pruneLocked runs.  Pure operators over *)
(* the jobs table, used by BuildQueue.  A table is a function from build   *)
(* ids to rows; ids are numbered in submission order, because the code's   *)
(* ids are UTC timestamps taken under the lock that serialises submissions *)
(* and the table is read ORDER BY id DESC.                                 *)
(***************************************************************************)
EXTENDS Integers, FiniteSets

CONSTANT KeepBuilds     \* keepBuilds: 3 in the code

ASSUME KeepBuildsAssumption == KeepBuilds \in Nat

(* The two independent windows (retentionClass). *)
Classes == {"iso", "component"}

(* A build that occupies a slot: succeeded, not reclaimed yet, with        *)
(* recorded artifacts.  Everything else is skipped by the walk.            *)
Occupies(rows, i) ==
  /\ rows[i].state = "succeeded"
  /\ ~ rows[i].pruned
  /\ rows[i].arts

Newer(rows, i) ==
  {k \in DOMAIN rows : k > i /\ Occupies(rows, k) /\ rows[k].class = rows[i].class}

InWindow_OneTooFew(rows, i) == Cardinality(Newer(rows, i)) + 1 < KeepBuilds

(* window[class]++ and window[class] <= keepBuilds, walking newest first.  *)
InWindow(rows, i) == Cardinality(Newer(rows, i)) < KeepBuilds

(* What pruneLocked reclaims: out of the window, not a favourite, and not  *)
(* the build the virtual machine slot belongs to.                          *)
Expired(rows, vm) ==
  {i \in DOMAIN rows :
     /\ Occupies(rows, i)
     /\ ~ InWindow(rows, i)
     /\ ~ rows[i].fav
     /\ i # vm}

(* The rows once the artifacts of the builds in S have been reclaimed and  *)
(* their rows saved (pruneArtifacts).                                      *)
Reclaimed(rows, S) ==
  [i \in DOMAIN rows |->
     IF i \in S THEN [rows[i] EXCEPT !.arts = FALSE, !.pruned = TRUE] ELSE rows[i]]
==============================================================================
