---------------------------- MODULE RetentionWalk -----------------------------
(***************************************************************************)
(* pruneLocked as it is written: one pass over the table from the newest   *)
(* build to the oldest with a counter per class, compared with what the    *)
(* comment on it and the README say is kept.  The tables are all tables    *)
(* over a few builds, so every combination of classes, favourites and      *)
(* builds without artifacts occurs, whatever order they came about in.     *)
(***************************************************************************)
EXTENDS Retention

CONSTANT Builds     \* how many builds a table has (bound)

ASSUME BuildsAssumption == Builds \in Nat

VARIABLES
  recorded,         \* the jobs table
  pinned            \* the build of the machine slot, 0 without one

walkVars == <<recorded, pinned>>

Start == [window |-> [c \in Classes |-> 0], reclaimed |-> {}]

Visit_OneWindow(seen, i) ==
  IF ~ Occupies(recorded, i) THEN seen ELSE
  LET window == [c \in Classes |-> seen.window[c] + 1]
      keep   == window[recorded[i].class] <= KeepBuilds \/ recorded[i].fav \/ pinned = i
  IN [window |-> window,
      reclaimed |-> IF keep THEN seen.reclaimed ELSE seen.reclaimed \cup {i}]

(* The body of the loop. *)
Visit(seen, i) ==
  IF ~ Occupies(recorded, i) THEN seen ELSE
  LET window == [seen.window EXCEPT ![recorded[i].class] = @ + 1]
      keep   == window[recorded[i].class] <= KeepBuilds \/ recorded[i].fav \/ pinned = i
  IN [window |-> window,
      reclaimed |-> IF keep THEN seen.reclaimed ELSE seen.reclaimed \cup {i}]

(* What the loop has done once it is past build i. *)
Walk ==
  LET past[i \in 1..(Builds + 1)] ==
        IF i = Builds + 1 THEN Start ELSE Visit(past[i + 1], i)
  IN past[1].reclaimed

Tables ==
  [1..Builds -> [state : {"succeeded"}, class : Classes, fav : BOOLEAN,
                 pruned : {FALSE}, arts : {TRUE}]
                \cup
                [state : {"failed"}, class : Classes, fav : {FALSE},
                 pruned : {FALSE}, arts : {FALSE}]]

WalkInit == recorded \in Tables /\ pinned \in 0..Builds

(* One run of pruneLocked. *)
Prune ==
  /\ recorded' = Reclaimed(recorded, Walk)
  /\ UNCHANGED pinned

(* The machine stops: what it held becomes eligible. *)
Release ==
  /\ pinned # 0
  /\ pinned' = 0
  /\ UNCHANGED recorded

WalkNext == Prune \/ Release

WalkSpec == WalkInit /\ [][WalkNext]_walkVars

-------------------------------------------------------------------------------
(* The counting pass computes exactly the set BuildQueue reclaims by       *)
(* (pruneLocked against Expired).                                          *)
WalkIsExpired == Walk = Expired(recorded, pinned)

(* README and the comment on pruneLocked: kept are the KeepBuilds most     *)
(* recent builds of each class -- favourites among them taking their       *)
(* slots -- plus every favourite, plus the build a machine is booted from; *)
(* nothing else.                                                           *)
MostRecent(c) ==
  LET holders == {i \in 1..Builds : Occupies(recorded, i) /\ recorded[i].class = c} IN
  CHOOSE S \in SUBSET holders :
    /\ Cardinality(S) = IF Cardinality(holders) < KeepBuilds
                        THEN Cardinality(holders) ELSE KeepBuilds
    /\ \A i \in S, k \in holders \ S : k < i

WalkKeepsWhatIsPromised ==
  {i \in 1..Builds : Occupies(recorded, i)} \ Walk =
    (UNION {MostRecent(c) : c \in Classes})
      \cup {i \in 1..Builds : Occupies(recorded, i) /\ (recorded[i].fav \/ pinned = i)}

===============================================================================
