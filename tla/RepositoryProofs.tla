-------------------------- MODULE RepositoryProofs --------------------------
(***************************************************************************)
(* Theorems about Repository for any branches, requests and bounds.        *)
(***************************************************************************)
EXTENDS Repository, FiniteSetTheorems, TLAPS

LEMMA BudgetNames == DOMAIN Budgets = {"faults", "crashes"}
  BY DEF Budgets

LEMMA Defaults ==
  ASSUME TypeOK
  PROVE  /\ NoGraft \in Grafts
         /\ NoTree \in [kind : {"none", "merge", "pick"}, base : Commits, rev : Commits, tip : Commits]
         /\ NotRead \in [branch : Branches, head : Commits, of : Branches, rev : Commits]
         /\ Nothing \in [of : Branches, rev : Commits]
         /\ CheckedOut \in Branches
         /\ PrBase \in Branches
         /\ Head \in Commits
         /\ \A b \in Branches : Counterpart(b) \in UpstreamHas
  BY RepositoryAssumption
  DEF TypeOK, NoGraft, NoTree, NotRead, Nothing, Grafts, Commits, CheckedOut, PrBase, Head, Counterpart

LEMMA ResultTyped ==
  ASSUME TypeOK, NEW g \in Grafts, next \in Result(g) => next <= MaxCommits
  PROVE  Result(g) \in Commits
  <1>1. CASE g.kind = "pick"
    BY <1>1, RepositoryAssumption DEF TypeOK, Result, Grafts, Commits
  <1>2. CASE g.kind # "pick" /\ g.base \subseteq g.rev
    BY <1>2 DEF TypeOK, Result, Grafts, Commits
  <1>3. CASE g.kind # "pick" /\ ~ g.base \subseteq g.rev
    <2>1. Result(g) = g.base \cup g.rev \cup {next}
      BY <1>3 DEF Result
    <2> QED BY <2>1, RepositoryAssumption DEF TypeOK, Grafts, Commits
  <1> QED BY <1>1, <1>2, <1>3

LEMMA DoneTyped ==
  ASSUME TypeOK, NEW r \in Requests, Done(r)
  PROVE  /\ pc' \in [Requests -> {"idle", "fetch", "publish", "open", "replay", "look", "commit", "switch"}]
         /\ seen' \in [Requests -> [branch : Branches, head : Commits, of : Branches, rev : Commits]]
         /\ mu' \in Requests \cup {"free"}
         /\ graftMu' \in Requests \cup {"free"}
  BY Defaults DEF TypeOK, Done, GoTo

LEMMA SpendTyped ==
  ASSUME TypeOK, NEW what \in {"faults", "crashes"}, Spend(what)
  PROVE  spent' \in [DOMAIN Budgets -> Nat]
  BY BudgetNames DEF TypeOK, Spend

LEMMA MergeTyped ==
  ASSUME TypeOK, NEW up, up.rev \in Commits, NEW head \in Commits
  PROVE  MergeOf(head, up) \in Grafts
  BY Defaults DEF MergeOf, Grafts, NoGraft, Commits

LEMMA PickTyped == TypeOK => Picked \in Grafts
  <1> SUFFICES ASSUME TypeOK PROVE Picked \in Grafts
    OBVIOUS
  <1>1. /\ seen["pick"] \in [branch : Branches, head : Commits, of : Branches, rev : Commits]
        /\ tracked \in [Branches -> Commits] /\ NoGraft \in Grafts
    BY Defaults DEF TypeOK, Requests
  <1>2. tracked[seen["pick"].branch] \in Commits /\ seen["pick"].rev \in Commits
    BY <1>1
  <1> QED BY <1>1, <1>2 DEF Picked, Grafts

LEMMA OfferedTyped == TypeOK => Offered \subseteq Commits
  BY DEF TypeOK, Offered

LEMMA NumberedTyped ==
  ASSUME TypeOK, NEW tip, Numbered(tip)
  PROVE  next' \in 1..(MaxCommits + 1) /\ (next \in tip => next <= MaxCommits)
  BY RepositoryAssumption DEF TypeOK, Numbered, CanCommit

LEMMA ConflictsTyped ==
  ASSUME TypeOK, NEW g \in Grafts, g.kind \in {"merge", "pick"}, Conflicts(g)
  PROVE  /\ graft' \in Grafts
         /\ worktree' \in [kind : {"none", "merge", "pick"}, base : Commits, rev : Commits, tip : Commits]
  BY RepositoryAssumption DEF TypeOK, Conflicts, Replayed, Grafts, Commits

LEMMA NothingOpenTyped ==
  ASSUME TypeOK, NothingOpen
  PROVE  /\ graft' \in Grafts
         /\ worktree' \in [kind : {"none", "merge", "pick"}, base : Commits, rev : Commits, tip : Commits]
  BY Defaults DEF NothingOpen

LEMMA CheckTyped == TypeOK /\ CheckStep => TypeOK'
  <1> SUFFICES ASSUME TypeOK, NEW r \in Checking,
                      CheckBegin(r) \/ Fetch(r) \/ FetchFails(r) \/ Publish(r)
               PROVE  TypeOK'
    BY DEF CheckStep
  <1>0. r \in Requests
    BY DEF Checking, Requests
  <1>1. CASE CheckBegin(r)
    BY <1>0, <1>1, Defaults DEF TypeOK, CheckBegin, GoTo, checkout, remote, replay, locks
  <1>2. CASE Fetch(r)
    <2>1. Counterpart(seen[r].branch) \in Branches
      BY <1>0, Defaults, RepositoryAssumption DEF TypeOK
    <2>2. theirs[Counterpart(seen[r].branch)] \in Commits
      BY <2>1 DEF TypeOK
    <2>3. seen' \in [Requests -> [branch : Branches, head : Commits, of : Branches, rev : Commits]]
      <3>1. [seen[r] EXCEPT !.of = Counterpart(seen[r].branch),
                            !.rev = theirs[Counterpart(seen[r].branch)]]
              \in [branch : Branches, head : Commits, of : Branches, rev : Commits]
        <4>1. seen[r] \in [branch : Branches, head : Commits, of : Branches, rev : Commits]
          BY <1>0 DEF TypeOK
        <4> QED BY <2>1, <2>2, <4>1
      <3>2. seen' = [seen EXCEPT ![r] = [seen[r] EXCEPT !.of = Counterpart(seen[r].branch),
                                           !.rev = theirs[Counterpart(seen[r].branch)]]]
        BY <1>0, <1>2 DEF Fetch, TypeOK
      <3> QED BY <1>0, <3>1, <3>2 DEF TypeOK
    <2> QED BY <1>0, <1>2, <2>3 DEF TypeOK, Fetch, GoTo, checkout, remote, replay, locks
  <1>3. CASE FetchFails(r)
    BY <1>0, <1>3, DoneTyped, SpendTyped DEF TypeOK, FetchFails, checkout, remote, replay, locks
  <1>4. CASE Publish(r)
    <2>1. upstream' \in [of : Branches, rev : Commits]
      BY <1>0, <1>4 DEF TypeOK, Publish
    <2> QED BY <1>0, <1>4, <2>1, DoneTyped DEF TypeOK, Publish, GoTo, checkout, remote, replay, locks
  <1> QED BY <1>1, <1>2, <1>3, <1>4

LEMMA UpdateTyped == TypeOK /\ UpdateStep => TypeOK'
  <1> SUFFICES ASSUME TypeOK, UpdateStep PROVE TypeOK'
    OBVIOUS
  <1>0. "update" \in Requests /\ MergeOf(Head, upstream) \in Grafts
        /\ MergeOf(Head, upstream).kind = "merge"
    <2>1. MergeOf(Head, upstream) \in Grafts
      BY MergeTyped, Defaults DEF TypeOK
    <2> QED BY <2>1, Defaults DEF Requests, MergeOf, NoGraft
  <1>1. CASE UpdateBegin
    BY <1>0, <1>1, Defaults DEF TypeOK, UpdateBegin, Begin, GoTo, checkout, remote, replay, locks
  <1>2. CASE UpdateRefused
    BY <1>0, <1>2, DoneTyped DEF TypeOK, UpdateRefused, Update, checkout, remote, replay
  <1>3. CASE UpdateFails
    BY <1>0, <1>3, DoneTyped, SpendTyped, NothingOpenTyped DEF TypeOK, UpdateFails, Update, remote
  <1>4. CASE UpdateConflicts
    <2>1. Conflicts(MergeOf(Head, upstream)) /\ Done("update")
      BY <1>4 DEF UpdateConflicts, Update
    <2>2. next' = next
      BY <2>1 DEF Conflicts
    <2> QED BY <1>0, <1>4, <2>1, <2>2, DoneTyped, ConflictsTyped DEF TypeOK, UpdateConflicts, Update, remote
  <1>5. CASE UpdateMerges
    <2>1. /\ Done("update") /\ NothingOpen
          /\ heads' = [heads EXCEPT ![branch] = Result(MergeOf(Head, upstream))]
          /\ Numbered(heads'[branch])
          /\ UNCHANGED <<branch, tree, remote, pulls, spent>>
      BY <1>5 DEF UpdateMerges, Update
    <2>2. heads'[branch] = Result(MergeOf(Head, upstream))
      BY <2>1 DEF TypeOK
    <2>3. next' \in 1..(MaxCommits + 1) /\ Result(MergeOf(Head, upstream)) \in Commits
      BY <1>0, <2>1, <2>2, NumberedTyped, ResultTyped
    <2> QED BY <1>0, <2>1, <2>3, DoneTyped, NothingOpenTyped DEF TypeOK, remote
  <1> QED BY <1>1, <1>2, <1>3, <1>4, <1>5 DEF UpdateStep

LEMMA PreviewTyped == TypeOK /\ PreviewStep => TypeOK'
  <1> SUFFICES ASSUME TypeOK, PreviewStep PROVE TypeOK'
    OBVIOUS
  <1>0. "preview" \in Requests /\ Prepared \in Grafts /\ Prepared.kind = "merge"
    <2>1. seen["preview"] \in [branch : Branches, head : Commits, of : Branches, rev : Commits]
      BY DEF TypeOK, Requests
    <2>2. Prepared \in Grafts
      BY <2>1, MergeTyped DEF Prepared
    <2> QED BY <2>2, Defaults DEF Requests, Prepared, MergeOf, NoGraft
  <1>1. CASE PreviewLock
    <2>1. seen' = [seen EXCEPT !["preview"] =
                     [seen["preview"] EXCEPT !.head = Head, !.of = upstream.of, !.rev = upstream.rev]]
      BY <1>0, <1>1 DEF TypeOK, PreviewLock
    <2>2. seen["preview"] \in [branch : Branches, head : Commits, of : Branches, rev : Commits]
      BY <1>0 DEF TypeOK
    <2>3. upstream.of \in Branches /\ upstream.rev \in Commits /\ Head \in Commits
      BY Defaults DEF TypeOK
    <2>4. [seen["preview"] EXCEPT !.head = Head, !.of = upstream.of, !.rev = upstream.rev]
            \in [branch : Branches, head : Commits, of : Branches, rev : Commits]
      BY <2>2, <2>3
    <2>5. seen' \in [Requests -> [branch : Branches, head : Commits, of : Branches, rev : Commits]]
      BY <1>0, <2>1, <2>4 DEF TypeOK
    <2> QED
      BY <1>0, <1>1, <2>5, SMTT(30) DEF TypeOK, PreviewLock, GoTo, checkout, remote, replay, locks
  <1>2. CASE PreviewRefused
    BY <1>0, <1>2, DoneTyped DEF TypeOK, PreviewRefused, Preview, checkout, remote, replay
  <1>3. CASE PreviewFails
    BY <1>0, <1>3, DoneTyped, SpendTyped, NothingOpenTyped DEF TypeOK, PreviewFails, Preview, checkout, remote
  <1>4. CASE PreviewConflicts
    <2>1. Conflicts(Prepared) /\ Done("preview")
      BY <1>4 DEF PreviewConflicts, Preview
    <2>2. next' = next
      BY <2>1 DEF Conflicts
    <2> QED BY <1>0, <1>4, <2>1, <2>2, DoneTyped, ConflictsTyped DEF TypeOK, PreviewConflicts, Preview, checkout, remote
  <1>5. CASE PreviewClean
    <2>1. /\ Done("preview") /\ Numbered(Result(Prepared))
          /\ graft' = [Prepared EXCEPT !.clean = TRUE]
          /\ worktree' = Replayed(Prepared, Result(Prepared))
          /\ UNCHANGED <<checkout, remote, pulls, spent>>
      BY <1>5 DEF PreviewClean, Preview
    <2>2. next' \in 1..(MaxCommits + 1) /\ Result(Prepared) \in Commits
      BY <1>0, <2>1, NumberedTyped, ResultTyped
    <2>3. graft' \in Grafts
      BY <1>0, <2>1 DEF Grafts
    <2>4. worktree' \in [kind : {"none", "merge", "pick"}, base : Commits, rev : Commits, tip : Commits]
      BY <1>0, <2>1, <2>2 DEF Grafts, Replayed
    <2> QED BY <1>0, <2>1, <2>2, <2>3, <2>4, DoneTyped DEF TypeOK, checkout, remote
  <1> QED BY <1>1, <1>2, <1>3, <1>4, <1>5 DEF PreviewStep

LEMMA PickTypedStep == TypeOK /\ PickStep => TypeOK'
  <1> SUFFICES ASSUME TypeOK, PickStep PROVE TypeOK'
    OBVIOUS
  <1>0. "pick" \in Requests /\ Picked \in Grafts /\ Picked.kind = "pick"
    BY PickTyped DEF Requests, Picked, NoGraft
  <1>1. ASSUME NEW rev \in Offered, PickBegin(rev) PROVE TypeOK'
    <2>1. rev \in Commits /\ PrBase \in Branches
      BY OfferedTyped, Defaults
    <2>2. seen["pick"] \in [branch : Branches, head : Commits, of : Branches, rev : Commits]
      BY <1>0 DEF TypeOK
    <2>3. [seen["pick"] EXCEPT !.branch = PrBase, !.rev = rev]
            \in [branch : Branches, head : Commits, of : Branches, rev : Commits]
      BY <2>1, <2>2
    <2>4. seen' = [seen EXCEPT !["pick"] = [seen["pick"] EXCEPT !.branch = PrBase, !.rev = rev]]
      BY <1>0, <1>1 DEF TypeOK, PickBegin
    <2>5. seen' \in [Requests -> [branch : Branches, head : Commits, of : Branches, rev : Commits]]
      BY <1>0, <2>3, <2>4 DEF TypeOK
    <2> QED BY <1>0, <1>1, <2>5 DEF TypeOK, PickBegin, GoTo, checkout, remote, replay, locks
  <1>2. CASE PickRefused
    BY <1>0, <1>2, DoneTyped DEF TypeOK, PickRefused, Pick, checkout, remote, replay
  <1>3. CASE PickFails
    BY <1>0, <1>3, DoneTyped, NothingOpenTyped DEF TypeOK, PickFails, Pick, checkout, remote
  <1>4. CASE PickConflicts
    <2>1. Conflicts(Picked) /\ Done("pick")
      BY <1>4 DEF PickConflicts, Pick
    <2>2. next' = next
      BY <2>1 DEF Conflicts
    <2> QED BY <1>0, <1>4, <2>1, <2>2, DoneTyped, ConflictsTyped DEF TypeOK, PickConflicts, Pick, checkout, remote
  <1>5. CASE PickPublishes
    <2>1. /\ CanCommit /\ Done("pick") /\ worktree' = NoTree
          /\ pulls' = pulls \cup {[onto |-> Picked.base, sha |-> Result(Picked)]}
          /\ UNCHANGED <<checkout, remote, graft, spent>>
      BY <1>5 DEF PickPublishes, OpenPullRequest, Pick
    <2>2. next' \in 1..(MaxCommits + 1) /\ next <= MaxCommits
      BY <2>1, RepositoryAssumption DEF CanCommit, TypeOK
    <2>3. Result(Picked) \in Commits /\ Picked.base \in Commits
      BY <1>0, <2>2, ResultTyped DEF Grafts
    <2> QED BY <1>0, <2>1, <2>2, <2>3, DoneTyped, Defaults DEF TypeOK, checkout, remote
  <1> QED BY <1>1, <1>2, <1>3, <1>4, <1>5 DEF PickStep

LEMMA CommitGraftTyped ==
  ASSUME TypeOK, NEW tip \in Tips, CommitGraft(tip)
  PROVE  tip \in Commits /\ next' \in 1..(MaxCommits + 1)
  <1>1. CASE graft.clean
    BY <1>1 DEF CommitGraft, TypeOK
  <1>2. CASE ~ graft.clean
    <2>1. CanCommit /\ tip = Result(graft)
      BY <1>2 DEF CommitGraft
    <2>2. graft \in Grafts
      BY DEF TypeOK
    <2> QED BY <2>1, <2>2, ResultTyped, RepositoryAssumption DEF CanCommit, TypeOK
  <1> QED BY <1>1, <1>2

LEMMA GraftTyped == TypeOK /\ GraftStep => TypeOK'
  <1> SUFFICES ASSUME TypeOK, GraftStep PROVE TypeOK'
    OBVIOUS
  <1>1. CASE Resolve
    <2>1. graft.pending - 1 \in 0..MaxConflicts
      BY <1>1, RepositoryAssumption DEF TypeOK, Resolve, Grafts
    <2>2. graft \in Grafts /\ graft' = [graft EXCEPT !.pending = graft.pending - 1]
      BY <1>1 DEF TypeOK, Resolve
    <2>3. graft' \in Grafts
      BY <2>1, <2>2 DEF Grafts
    <2> QED BY <1>1, <2>3 DEF TypeOK, Resolve, checkout, remote, locks
  <1>2. CASE ApplyMerge
    <2>1. PICK tip \in Tips : CommitGraft(tip) /\ heads' = [heads EXCEPT ![branch] = tip]
      BY <1>2 DEF ApplyMerge
    <2>2. tip \in Commits /\ next' \in 1..(MaxCommits + 1)
      BY <2>1, CommitGraftTyped
    <2> QED BY <1>2, <2>1, <2>2, NothingOpenTyped DEF TypeOK, ApplyMerge, remote, locks
  <1>3. CASE ApplyPick
    <2>1. PICK tip \in Tips : /\ CommitGraft(tip)
                              /\ pulls' = pulls \cup {[onto |-> graft.base, sha |-> tip]}
      BY <1>3 DEF ApplyPick, OpenPullRequest
    <2>2. tip \in Commits /\ next' \in 1..(MaxCommits + 1) /\ graft.base \in Commits
      BY <2>1, CommitGraftTyped DEF TypeOK, Grafts
    <2> QED BY <1>3, <2>1, <2>2, NothingOpenTyped DEF TypeOK, ApplyPick, OpenPullRequest, checkout, remote, locks
  <1>4. CASE ApplyFails
    <2>1. PICK tip \in Tips : CommitGraft(tip) /\ worktree' = [worktree EXCEPT !.tip = tip]
      BY <1>4 DEF ApplyFails
    <2>2. tip \in Commits /\ next' \in 1..(MaxCommits + 1)
      BY <2>1, CommitGraftTyped
    <2> QED BY <1>4, <2>1, <2>2, SpendTyped DEF TypeOK, ApplyFails, checkout, remote, locks
  <1>5. CASE Abort
    BY <1>5, NothingOpenTyped DEF TypeOK, Abort, checkout, remote, locks
  <1> QED BY <1>1, <1>2, <1>3, <1>4, <1>5 DEF GraftStep

LEMMA CheckoutTyped == TypeOK /\ CheckoutStep => TypeOK'
  <1> SUFFICES ASSUME TypeOK, CheckoutStep PROVE TypeOK'
    OBVIOUS
  <1>0. {"commit", "checkout"} \subseteq Requests
    BY DEF Requests
  <1>1. CASE CommitBegin \/ CheckoutBegin \/ CheckoutLook
    BY <1>0, <1>1 DEF TypeOK, CommitBegin, CheckoutBegin, CheckoutLook, Begin, GoTo,
       checkout, remote, replay, locks
  <1>2. CASE CommitLook \/ CommitRefused \/ SwitchRefused
    BY <1>0, <1>2, DoneTyped DEF TypeOK, CommitLook, CommitRefused, SwitchRefused, GoTo,
       checkout, remote, replay, locks
  <1>3. CASE Commit
    <2>1. heads' \in [Branches \cup {"detached"} -> Commits] /\ next' \in 1..(MaxCommits + 1)
      BY <1>3, RepositoryAssumption DEF TypeOK, Commit, CanCommit, Commits
    <2> QED BY <1>0, <1>3, <2>1, DoneTyped DEF TypeOK, Commit, remote, replay
  <1>4. CASE Switch
    <2>1. branch' \in Branches \cup {"detached"}
          /\ heads' \in [Branches \cup {"detached"} -> Commits]
      BY <1>4, OfferedTyped DEF TypeOK, Switch, SwitchBranch, SwitchCommit
    <2> QED BY <1>0, <1>4, <2>1, DoneTyped DEF TypeOK, Switch, remote, replay
  <1>5. CASE Stage
    BY <1>5 DEF TypeOK, Stage, remote, replay, locks
  <1> QED BY <1>1, <1>2, <1>3, <1>4, <1>5 DEF CheckoutStep

LEMMA WorldTyped ==
  ASSUME TypeOK, Edit \/ (\E b \in Branches : UpstreamMoves(b)) \/ Restart
  PROVE  TypeOK'
  <1>1. CASE Edit
    BY <1>1 DEF TypeOK, Edit, remote, replay, locks
  <1>2. ASSUME NEW b \in Branches, UpstreamMoves(b) PROVE TypeOK'
    <2>1. theirs' \in [Branches -> Commits] /\ next' \in 1..(MaxCommits + 1)
      BY <1>2, RepositoryAssumption DEF TypeOK, UpstreamMoves, CanCommit, Commits
    <2> QED BY <1>2, <2>1 DEF TypeOK, UpstreamMoves, checkout, replay, locks
  <1>3. CASE Restart
    BY <1>3, SpendTyped, NothingOpenTyped, Defaults DEF TypeOK, Restart, checkout
  <1> QED BY <1>1, <1>2, <1>3

LEMMA InitTyped == Init => TypeOK
  BY RepositoryAssumption, BudgetNames
  DEF Init, TypeOK, Commits, Grafts, NoGraft, NoTree, NotRead, Nothing, Requests, Budgets

LEMMA StepTyped == TypeOK /\ [Next]_vars => TypeOK'
  <1>1. CASE UNCHANGED vars
    BY <1>1 DEF TypeOK, vars, checkout, remote, replay, locks
  <1> QED BY <1>1, CheckTyped, UpdateTyped, PreviewTyped, PickTypedStep, GraftTyped,
             CheckoutTyped, WorldTyped DEF Next

(* Refs, graft, worktree, locks and requests keep their shapes (all of     *)
(* repo.go, graft.go, changes.go and pr.go that is modelled).              *)
THEOREM TypeCorrect == Spec => []TypeOK
  BY InitTyped, StepTyped, PTL DEF Spec

-----------------------------------------------------------------------------
(* The worktree belongs to the graft that is shown.                         *)

(* A graft is either none at all or says what it replays; without that the  *)
(* ownership of the worktree is not inductive, since resolving a file only  *)
(* changes a graft that has one.                                            *)
Owned == GraftOwnsWorktree /\ (graft.kind = "none" => graft = NoGraft)

LEMMA OwnedByConflicts ==
  ASSUME NEW g \in Grafts, g.kind \in {"merge", "pick"}, ~ g.clean, Conflicts(g)
  PROVE  Owned'
  <1>1. PICK n \in 1..MaxConflicts : graft' = [g EXCEPT !.pending = n]
    BY DEF Conflicts
  <1>2. /\ graft'.kind = g.kind /\ graft'.base = g.base
        /\ graft'.rev = g.rev /\ graft'.clean = g.clean
    BY <1>1 DEF Grafts
  <1>3. graft'.kind # "none" /\ graft' # NoGraft
    BY <1>2 DEF NoGraft
  <1>4. /\ worktree'.kind = g.kind /\ worktree'.base = g.base
        /\ worktree'.rev = g.rev
    BY DEF Conflicts, Replayed
  <1> QED BY <1>2, <1>3, <1>4 DEF Owned, GraftOwnsWorktree

LEMMA OwnedByNobody == NothingOpen => Owned'
  BY DEF NothingOpen, Owned, GraftOwnsWorktree

LEMMA OwnedKept == Owned /\ UNCHANGED replay => Owned'
  BY DEF Owned, GraftOwnsWorktree, replay

LEMMA MergeFields ==
  ASSUME NEW head, NEW up
  PROVE  /\ MergeOf(head, up).kind = "merge" /\ MergeOf(head, up).base = head
         /\ MergeOf(head, up).rev = up.rev /\ ~ MergeOf(head, up).clean
  BY DEF MergeOf, NoGraft

LEMMA PreparedTyped == TypeOK => Prepared \in Grafts
  <1> SUFFICES ASSUME TypeOK PROVE Prepared \in Grafts
    OBVIOUS
  <1>1. seen["preview"] \in [branch : Branches, head : Commits, of : Branches, rev : Commits]
    BY DEF TypeOK, Requests
  <1> QED BY <1>1, MergeTyped DEF Prepared

LEMMA ResultNotEmpty ==
  ASSUME NEW g, g.kind # "pick", ~ g.rev \subseteq g.base
  PROVE  Result(g) # {}
  <1>1. CASE g.base \subseteq g.rev
    BY <1>1 DEF Result
  <1>2. CASE ~ g.base \subseteq g.rev
    <2>1. Result(g) = g.base \cup g.rev \cup {next}
      BY <1>2 DEF Result
    <2> QED BY <2>1
  <1> QED BY <1>1, <1>2

LEMMA OwnedByPreview == TypeOK /\ Owned /\ PreviewStep => Owned'
  <1> SUFFICES ASSUME TypeOK, Owned, PreviewStep PROVE Owned'
    OBVIOUS
  <1>0. /\ Prepared \in Grafts /\ Prepared.kind = "merge" /\ ~ Prepared.clean
    <2>1. Prepared.kind = "merge" /\ ~ Prepared.clean
      BY MergeFields DEF Prepared
    <2> QED BY <2>1, PreparedTyped
  <1>1. CASE PreviewLock
    BY <1>1, OwnedKept DEF PreviewLock
  <1>2. CASE PreviewRefused
    BY <1>2, OwnedKept DEF PreviewRefused, Preview
  <1>3. CASE PreviewFails
    BY <1>3, OwnedByNobody DEF PreviewFails, Preview
  <1>4. CASE PreviewConflicts
    BY <1>0, <1>4, OwnedByConflicts DEF PreviewConflicts, Preview
  <1>5. CASE PreviewClean
    <2>1. /\ graft' = [Prepared EXCEPT !.clean = TRUE]
          /\ worktree' = Replayed(Prepared, Result(Prepared))
          /\ ~ Prepared.rev \subseteq Prepared.base
      BY <1>5 DEF PreviewClean, Preview, Previewable
    <2>2. graft'.kind = "merge" /\ graft'.base = Prepared.base /\ graft'.rev = Prepared.rev
      BY <1>0, <2>1 DEF Grafts
    <2>3. graft' # NoGraft
      BY <2>2 DEF NoGraft
    <2>4. Result(Prepared) # {}
      BY <1>0, <2>1, ResultNotEmpty
    <2>5. /\ worktree'.kind = "merge" /\ worktree'.base = Prepared.base
          /\ worktree'.rev = Prepared.rev /\ worktree'.tip # {}
      BY <1>0, <2>1, <2>4 DEF Replayed
    <2> QED BY <2>2, <2>3, <2>5 DEF Owned, GraftOwnsWorktree
  <1> QED BY <1>1, <1>2, <1>3, <1>4, <1>5 DEF PreviewStep

LEMMA OwnedByUpdate == TypeOK /\ Owned /\ UpdateStep => Owned'
  <1> SUFFICES ASSUME TypeOK, Owned, UpdateStep PROVE Owned'
    OBVIOUS
  <1>0. /\ MergeOf(Head, upstream) \in Grafts
        /\ MergeOf(Head, upstream).kind = "merge" /\ ~ MergeOf(Head, upstream).clean
    <2>1. upstream.rev \in Commits /\ Head \in Commits
      BY Defaults DEF TypeOK
    <2>2. MergeOf(Head, upstream) \in Grafts
      BY <2>1, MergeTyped
    <2>3. MergeOf(Head, upstream).kind = "merge" /\ ~ MergeOf(Head, upstream).clean
      BY MergeFields
    <2> QED BY <2>2, <2>3
  <1>1. CASE UpdateBegin
    BY <1>1, OwnedKept DEF UpdateBegin
  <1>2. CASE UpdateRefused
    BY <1>2, OwnedKept DEF UpdateRefused, Update
  <1>3. CASE UpdateFails
    BY <1>3, OwnedByNobody DEF UpdateFails, Update
  <1>4. CASE UpdateConflicts
    <2>1. Conflicts(MergeOf(Head, upstream))
      BY <1>4 DEF UpdateConflicts, Update
    <2> QED BY <1>0, <2>1, OwnedByConflicts
  <1>5. CASE UpdateMerges
    BY <1>5, OwnedByNobody DEF UpdateMerges, Update
  <1> QED BY <1>1, <1>2, <1>3, <1>4, <1>5 DEF UpdateStep

LEMMA PickFields ==
  /\ Picked.kind = "pick" /\ Picked.base = tracked[seen["pick"].branch]
  /\ Picked.rev = seen["pick"].rev /\ ~ Picked.clean
  BY DEF Picked, NoGraft

LEMMA OwnedByPick == TypeOK /\ Owned /\ PickStep => Owned'
  <1> SUFFICES ASSUME TypeOK, Owned, PickStep PROVE Owned'
    OBVIOUS
  <1>1. CASE (\E rev \in Offered : PickBegin(rev)) \/ PickRefused
    BY <1>1, OwnedKept DEF PickBegin, PickRefused, Pick
  <1>2. CASE PickFails
    BY <1>2, OwnedByNobody DEF PickFails, Pick
  <1>3. CASE PickConflicts
    <2>1. Conflicts(Picked) /\ Picked \in Grafts
      BY <1>3, PickTyped DEF PickConflicts, Pick
    <2> QED BY <2>1, PickFields, OwnedByConflicts
  <1>4. CASE PickPublishes
    BY <1>4 DEF PickPublishes, Pick, Owned, GraftOwnsWorktree
  <1> QED BY <1>1, <1>2, <1>3, <1>4 DEF PickStep

LEMMA OwnedByGraft == TypeOK /\ Owned /\ GraftStep => Owned'
  <1> SUFFICES ASSUME TypeOK, Owned, GraftStep PROVE Owned'
    OBVIOUS
  <1>1. CASE Resolve
    <2>1. /\ graft \in Grafts /\ graft' = [graft EXCEPT !.pending = graft.pending - 1]
          /\ worktree # NoTree /\ worktree' = worktree
      BY <1>1 DEF Resolve, TypeOK
    <2>2. /\ graft'.kind = graft.kind /\ graft'.base = graft.base
          /\ graft'.rev = graft.rev /\ graft'.clean = graft.clean
      BY <2>1 DEF Grafts
    <2>3. graft.kind # "none"
      BY <2>1 DEF Owned, GraftOwnsWorktree
    <2>4. graft' # NoGraft
      BY <2>2, <2>3 DEF NoGraft
    <2> QED BY <2>1, <2>2, <2>3, <2>4 DEF Owned, GraftOwnsWorktree
  <1>2. CASE ApplyMerge \/ ApplyPick \/ Abort
    BY <1>2, OwnedByNobody DEF ApplyMerge, ApplyPick, OpenPullRequest, Abort
  <1>3. CASE ApplyFails
    <2>1. PICK tip \in Tips : CommitGraft(tip) /\ worktree' = [worktree EXCEPT !.tip = tip]
      BY <1>3 DEF ApplyFails
    <2>2. /\ worktree'.kind = worktree.kind /\ worktree'.base = worktree.base
          /\ worktree'.rev = worktree.rev /\ worktree'.tip = tip /\ graft' = graft
      BY <1>3, <2>1 DEF ApplyFails, TypeOK
    <2>3. worktree # NoTree /\ (graft.clean => tip = worktree.tip)
      BY <2>1 DEF CommitGraft
    <2> QED BY <2>2, <2>3 DEF Owned, GraftOwnsWorktree
  <1> QED BY <1>1, <1>2, <1>3 DEF GraftStep

LEMMA OwnedStep == TypeOK /\ Owned /\ [Next]_vars => Owned'
  <1> SUFFICES ASSUME TypeOK, Owned, [Next]_vars PROVE Owned'
    OBVIOUS
  <1>1. CASE CheckStep
    BY <1>1, OwnedKept DEF CheckStep, CheckBegin, Fetch, FetchFails, Publish
  <1>2. CASE CheckoutStep
    BY <1>2, OwnedKept DEF CheckoutStep, CommitBegin, CommitLook, Commit, CommitRefused,
       CheckoutBegin, CheckoutLook, Switch, SwitchRefused, Stage
  <1>3. CASE Edit \/ \E b \in Branches : UpstreamMoves(b)
    BY <1>3, OwnedKept DEF Edit, UpstreamMoves
  <1>4. CASE Restart
    BY <1>4, OwnedByNobody DEF Restart
  <1>5. CASE UNCHANGED vars
    BY <1>5, OwnedKept DEF vars
  <1> QED BY <1>1, <1>2, <1>3, <1>4, <1>5, OwnedByUpdate, OwnedByPreview, OwnedByPick,
             OwnedByGraft DEF Next

(* What lies in the worktree is the replay of the graft on the screen,      *)
(* through every request that takes the directory over, every failure and   *)
(* every restart (openGraft, repositoryPR, repositoryUpdate, graftApply).   *)
THEOREM WorktreeOwned == Spec => []GraftOwnsWorktree
  <1>1. Init => Owned
    BY DEF Init, Owned, GraftOwnsWorktree
  <1>2. Owned => GraftOwnsWorktree
    BY DEF Owned
  <1> QED BY <1>1, <1>2, OwnedStep, TypeCorrect, PTL DEF Spec

-----------------------------------------------------------------------------
(* No branch loses a commit.                                                *)

LEMMA SpendsNoCommit ==
  ASSUME UNCHANGED heads
  PROVE  \A b \in Branches : heads[b] \subseteq heads'[b]
  OBVIOUS

LEMMA Grows ==
  ASSUME TypeOK, NEW tip, Head \subseteq tip, heads' = [heads EXCEPT ![branch] = tip]
  PROVE  \A b \in Branches : heads[b] \subseteq heads'[b]
  BY DEF TypeOK, Head

LEMMA ResultContainsBase ==
  ASSUME NEW g
  PROVE  g.base \subseteq Result(g)
  <1>1. CASE g.kind = "pick"
    BY <1>1 DEF Result
  <1>2. CASE g.kind # "pick" /\ g.base \subseteq g.rev
    BY <1>2 DEF Result
  <1>3. CASE g.kind # "pick" /\ ~ g.base \subseteq g.rev
    <2>1. Result(g) = g.base \cup g.rev \cup {next}
      BY <1>3 DEF Result
    <2> QED BY <2>1
  <1> QED BY <1>1, <1>2, <1>3

LEMMA NothingLostStep ==
  TypeOK /\ [Next]_vars => \A b \in Branches : heads[b] \subseteq heads'[b]
  <1> SUFFICES ASSUME TypeOK, [Next]_vars
               PROVE  \A b \in Branches : heads[b] \subseteq heads'[b]
    OBVIOUS
  <1>1. CASE UpdateMerges
    <2>1. heads' = [heads EXCEPT ![branch] = Result(MergeOf(Head, upstream))]
      BY <1>1 DEF UpdateMerges, Update
    <2>2. MergeOf(Head, upstream).base \subseteq Result(MergeOf(Head, upstream))
      BY ResultContainsBase
    <2>3. MergeOf(Head, upstream).base = Head
      BY MergeFields
    <2>4. Head \subseteq Result(MergeOf(Head, upstream))
      BY <2>2, <2>3
    <2> QED BY <2>1, <2>4, Grows
  <1>2. CASE ApplyMerge
    <2>1. PICK tip \in Tips : Head \subseteq tip /\ heads' = [heads EXCEPT ![branch] = tip]
      BY <1>2 DEF ApplyMerge
    <2> QED BY <2>1, Grows
  <1>3. CASE Commit
    <2>1. heads' = [heads EXCEPT ![branch] = Head \cup {next}]
      BY <1>3 DEF Commit, Head
    <2> QED BY <2>1, Grows
  <1>4. CASE Switch
    BY <1>4, RepositoryAssumption DEF Switch, SwitchBranch, SwitchCommit, TypeOK
  <1>5. CASE CheckStep \/ PreviewStep \/ PickStep
    BY <1>5 DEF CheckStep, CheckBegin, Fetch, FetchFails, Publish, PreviewStep, PreviewLock,
       PreviewRefused, PreviewFails, PreviewConflicts, PreviewClean, Preview, PickStep,
       PickBegin, PickRefused, PickFails, PickConflicts, PickPublishes, Pick, checkout
  <1>6. CASE UpdateBegin \/ UpdateRefused \/ UpdateFails \/ UpdateConflicts
    BY <1>6 DEF UpdateBegin, UpdateRefused, UpdateFails, UpdateConflicts, Update, checkout
  <1>7. CASE Resolve \/ ApplyPick \/ ApplyFails \/ Abort
    BY <1>7 DEF Resolve, ApplyPick, OpenPullRequest, ApplyFails, Abort, checkout
  <1>8. CASE \/ CommitBegin \/ CommitLook \/ CommitRefused \/ CheckoutBegin
             \/ CheckoutLook \/ SwitchRefused \/ Stage
    BY <1>8 DEF CommitBegin, CommitLook, CommitRefused, CheckoutBegin, CheckoutLook,
       SwitchRefused, Stage, checkout
  <1>9. CASE Edit \/ (\E b \in Branches : UpstreamMoves(b)) \/ Restart \/ UNCHANGED vars
    BY <1>9 DEF Edit, UpstreamMoves, Restart, vars, checkout
  <1> QED BY <1>1, <1>2, <1>3, <1>4, <1>5, <1>6, <1>7, <1>8, <1>9
          DEF Next, UpdateStep, GraftStep, CheckoutStep

(* No step of any request takes a commit away from a branch (applyMerge,    *)
(* switchTo, repositoryUpdate).                                             *)
THEOREM BranchesKeepTheirCommits == Spec => NothingLost
  <1>1. TypeOK /\ [Next]_vars => [\A b \in Branches : heads[b] \subseteq heads'[b]]_vars
    BY NothingLostStep
  <1> QED BY <1>1, TypeCorrect, PTL DEF Spec, NothingLost

-----------------------------------------------------------------------------
(* A pull request for a single commit is that one commit.                   *)

Made == 0..(next - 1)

(* What upstream has, and what a pick starts from, was made before: so the  *)
(* commit that a replay makes is new to both.                               *)
Fresh ==
  /\ \A b \in Branches : theirs[b] \subseteq Made /\ tracked[b] \subseteq Made
  /\ graft.kind = "pick" => graft.base \subseteq Made /\ ~ graft.clean

OneCommit(p) == p.onto \subseteq p.sha /\ Cardinality(p.sha \ p.onto) = 1

LEMMA ResultOfPick ==
  ASSUME TypeOK, NEW g, g.kind = "pick", g.base \subseteq Made
  PROVE  OneCommit([onto |-> g.base, sha |-> Result(g)])
  <1>1. Result(g) = g.base \cup {next}
    BY DEF Result
  <1>2. next \notin g.base
    BY DEF TypeOK, Made
  <1>3. Result(g) \ g.base = {next}
    BY <1>1, <1>2
  <1>4. Cardinality({next}) = 1
    BY FS_Singleton
  <1> QED BY <1>1, <1>3, <1>4 DEF OneCommit

LEMMA MadeGrows == TypeOK /\ (UNCHANGED next \/ next' = next + 1) => Made \subseteq Made'
  BY DEF TypeOK, Made

LEMMA FreshKept ==
  ASSUME TypeOK, Fresh, UNCHANGED next \/ next' = next + 1,
         theirs' = theirs, tracked' \in {tracked, theirs},
         \/ UNCHANGED graft
         \/ graft'.kind # "pick"
  PROVE  Fresh'
  BY MadeGrows DEF Fresh

LEMMA NextStep == TypeOK /\ [Next]_vars => UNCHANGED next \/ next' = next + 1
  <1> SUFFICES ASSUME TypeOK, [Next]_vars PROVE UNCHANGED next \/ next' = next + 1
    OBVIOUS
  <1>1. CASE CheckStep
    BY <1>1 DEF CheckStep, CheckBegin, Fetch, FetchFails, Publish
  <1>2. CASE UpdateStep
    <2>1. CASE UpdateBegin \/ UpdateRefused \/ UpdateFails
      BY <2>1 DEF UpdateBegin, UpdateRefused, UpdateFails, Update
    <2>2. CASE UpdateConflicts
      BY <2>2 DEF UpdateConflicts, Update, Conflicts
    <2>3. CASE UpdateMerges
      BY <2>3 DEF UpdateMerges, Update, Numbered, CanCommit
    <2> QED BY <1>2, <2>1, <2>2, <2>3 DEF UpdateStep
  <1>3. CASE PreviewStep
    <2>1. CASE PreviewLock \/ PreviewRefused \/ PreviewFails
      BY <2>1 DEF PreviewLock, PreviewRefused, PreviewFails, Preview
    <2>2. CASE PreviewConflicts
      BY <2>2 DEF PreviewConflicts, Preview, Conflicts
    <2>3. CASE PreviewClean
      BY <2>3 DEF PreviewClean, Preview, Numbered, CanCommit
    <2> QED BY <1>3, <2>1, <2>2, <2>3 DEF PreviewStep
  <1>4. CASE PickStep
    BY <1>4 DEF PickStep, PickBegin, PickRefused, PickFails, PickConflicts, PickPublishes, Pick,
       Conflicts, CanCommit
  <1>5. CASE GraftStep
    BY <1>5 DEF GraftStep, Resolve, ApplyMerge, ApplyPick, OpenPullRequest, ApplyFails, Abort, CommitGraft, CanCommit
  <1>6. CASE CheckoutStep
    BY <1>6 DEF CheckoutStep, CommitBegin, CommitLook, Commit, CommitRefused, CheckoutBegin,
       CheckoutLook, Switch, SwitchRefused, Stage, CanCommit
  <1>7. CASE Edit \/ (\E b \in Branches : UpstreamMoves(b)) \/ Restart \/ UNCHANGED vars
    BY <1>7 DEF Edit, UpstreamMoves, Restart, vars, CanCommit
  <1> QED BY <1>1, <1>2, <1>3, <1>4, <1>5, <1>6, <1>7 DEF Next

LEMMA FreshByConflicts ==
  ASSUME TypeOK, Fresh, NEW g \in Grafts, Conflicts(g), theirs' = theirs, tracked' = tracked,
         g.kind = "pick" => g.base \subseteq Made /\ ~ g.clean
  PROVE  Fresh'
  <1>1. graft'.kind = g.kind /\ graft'.base = g.base /\ graft'.clean = g.clean
    BY DEF Conflicts, Grafts
  <1>2. Made' = Made
    BY DEF Conflicts, Made
  <1> QED BY <1>1, <1>2 DEF Fresh

LEMMA FreshByPick == TypeOK /\ Fresh /\ PickStep => Fresh'
  <1> SUFFICES ASSUME TypeOK, Fresh, PickStep PROVE Fresh'
    OBVIOUS
  <1>0. seen["pick"].branch \in Branches
    BY DEF TypeOK, Requests
  <1>1. Picked \in Grafts /\ Picked.kind = "pick" /\ ~ Picked.clean /\ Picked.base \subseteq Made
    BY <1>0, PickTyped, PickFields DEF Fresh
  <1>2. CASE (\E rev \in Offered : PickBegin(rev)) \/ PickRefused
    <2>1. theirs' = theirs /\ tracked' = tracked /\ next' = next /\ graft' = graft
      BY <1>2 DEF PickBegin, PickRefused, Pick, remote, replay
    <2> QED BY <2>1, FreshKept
  <1>3. CASE PickFails
    <2>1. /\ theirs' = theirs /\ tracked' = tracked /\ next' = next /\ graft' = NoGraft
      BY <1>3 DEF PickFails, Pick, NothingOpen, remote
    <2>2. NoGraft.kind # "pick"
      BY DEF NoGraft
    <2> QED BY <2>1, <2>2, FreshKept
  <1>4. CASE PickConflicts
    <2>1. Conflicts(Picked) /\ theirs' = theirs /\ tracked' = tracked
      BY <1>4 DEF PickConflicts, Pick, remote
    <2> QED BY <1>1, <2>1, FreshByConflicts
  <1>5. CASE PickPublishes
    <2>1. theirs' = theirs /\ tracked' = tracked /\ next' = next + 1 /\ graft' = graft
      BY <1>5 DEF PickPublishes, Pick, remote, CanCommit
    <2> QED BY <2>1, FreshKept
  <1> QED BY <1>2, <1>3, <1>4, <1>5 DEF PickStep

LEMMA FreshByMerge == TypeOK /\ Fresh /\ (UpdateStep \/ PreviewStep) => Fresh'
  <1> SUFFICES ASSUME TypeOK, Fresh, UpdateStep \/ PreviewStep PROVE Fresh'
    OBVIOUS
  <1>1. UNCHANGED next \/ next' = next + 1
    BY NextStep DEF Next
  <1>2. theirs' = theirs /\ tracked' = tracked
    BY DEF UpdateStep, UpdateBegin, UpdateRefused, UpdateFails, UpdateConflicts, UpdateMerges,
       Update, PreviewStep, PreviewLock, PreviewRefused, PreviewFails, PreviewConflicts,
       PreviewClean, Preview, remote
  <1>3. NoGraft.kind # "pick"
    BY DEF NoGraft
  <1>4. /\ Prepared \in Grafts /\ Prepared.kind = "merge"
        /\ MergeOf(Head, upstream) \in Grafts /\ MergeOf(Head, upstream).kind = "merge"
    <2>1. upstream.rev \in Commits /\ Head \in Commits
      BY Defaults DEF TypeOK
    <2>2. MergeOf(Head, upstream) \in Grafts
      BY <2>1, MergeTyped
    <2> QED BY <2>2, PreparedTyped, MergeFields DEF Prepared
  <1>5. CASE UpdateConflicts
    <2>1. Conflicts(MergeOf(Head, upstream))
      BY <1>5 DEF UpdateConflicts, Update
    <2> QED BY <1>2, <1>4, <2>1, FreshByConflicts
  <1>6. CASE PreviewConflicts
    <2>1. Conflicts(Prepared)
      BY <1>6 DEF PreviewConflicts, Preview
    <2> QED BY <1>2, <1>4, <2>1, FreshByConflicts
  <1>7. CASE PreviewClean
    <2>1. graft' = [Prepared EXCEPT !.clean = TRUE]
      BY <1>7 DEF PreviewClean, Preview
    <2>2. graft'.kind # "pick"
      BY <1>4, <2>1 DEF Grafts
    <2> QED BY <1>1, <1>2, <2>2, FreshKept
  <1>8. CASE UpdateFails \/ UpdateMerges \/ PreviewFails
    <2>1. graft' = NoGraft
      BY <1>8 DEF UpdateFails, UpdateMerges, Update, PreviewFails, Preview, NothingOpen
    <2> QED BY <1>1, <1>2, <1>3, <2>1, FreshKept
  <1>9. CASE UpdateBegin \/ UpdateRefused \/ PreviewLock \/ PreviewRefused
    <2>1. UNCHANGED graft
      BY <1>9 DEF UpdateBegin, UpdateRefused, Update, PreviewLock, PreviewRefused, Preview, replay
    <2> QED BY <1>1, <1>2, <2>1, FreshKept
  <1> QED BY <1>5, <1>6, <1>7, <1>8, <1>9 DEF UpdateStep, PreviewStep

LEMMA FreshByGraft == TypeOK /\ Fresh /\ GraftStep => Fresh'
  <1> SUFFICES ASSUME TypeOK, Fresh, GraftStep PROVE Fresh'
    OBVIOUS
  <1>1. UNCHANGED next \/ next' = next + 1
    BY NextStep DEF Next
  <1>2. theirs' = theirs /\ tracked' = tracked
    BY DEF GraftStep, Resolve, ApplyMerge, ApplyPick, OpenPullRequest, ApplyFails, Abort, remote
  <1>3. CASE Resolve
    <2>1. graft \in Grafts /\ graft' = [graft EXCEPT !.pending = graft.pending - 1] /\ next' = next
      BY <1>3 DEF Resolve, TypeOK
    <2>2. graft'.kind = graft.kind /\ graft'.base = graft.base /\ graft'.clean = graft.clean
      BY <2>1 DEF Grafts
    <2> QED BY <1>2, <2>1, <2>2 DEF Fresh, Made
  <1>4. CASE ApplyMerge \/ ApplyPick \/ Abort
    <2>1. graft'.kind # "pick"
      BY <1>4 DEF ApplyMerge, ApplyPick, OpenPullRequest, Abort, NothingOpen, NoGraft
    <2> QED BY <1>1, <1>2, <2>1, FreshKept
  <1>5. CASE ApplyFails
    BY <1>1, <1>2, <1>5, FreshKept DEF ApplyFails
  <1> QED BY <1>3, <1>4, <1>5 DEF GraftStep

LEMMA FreshStep == TypeOK /\ Fresh /\ [Next]_vars => Fresh'
  <1> SUFFICES ASSUME TypeOK, Fresh, [Next]_vars PROVE Fresh'
    OBVIOUS
  <1>1. UNCHANGED next \/ next' = next + 1
    BY NextStep
  <1>2. CASE CheckStep
    BY <1>1, <1>2, FreshKept DEF CheckStep, CheckBegin, Fetch, FetchFails, Publish, remote, replay
  <1>3. CASE CheckoutStep
    BY <1>1, <1>3, FreshKept DEF CheckoutStep, CommitBegin, CommitLook, Commit, CommitRefused,
       CheckoutBegin, CheckoutLook, Switch, SwitchRefused, Stage, remote, replay
  <1>4. CASE Edit \/ UNCHANGED vars
    BY <1>1, <1>4, FreshKept DEF Edit, vars, remote, replay
  <1>5. CASE Restart
    <2>1. theirs' = theirs /\ tracked' = tracked /\ graft'.kind # "pick"
      BY <1>5 DEF Restart, NothingOpen, NoGraft
    <2> QED BY <1>1, <2>1, FreshKept
  <1>6. ASSUME NEW b \in Branches, UpstreamMoves(b) PROVE Fresh'
    <2>1. /\ next' = next + 1 /\ next \in Nat /\ tracked' = tracked /\ graft' = graft
          /\ theirs' = [theirs EXCEPT ![b] = theirs[b] \cup {next}]
      BY <1>6 DEF UpstreamMoves, CanCommit, replay, TypeOK
    <2>2. Made \subseteq Made' /\ next \in Made'
      BY <2>1 DEF Made
    <2>3. \A c \in Branches : theirs'[c] \subseteq theirs[c] \cup {next}
      BY <2>1 DEF TypeOK
    <2> QED BY <2>1, <2>2, <2>3 DEF Fresh
  <1> QED BY <1>2, <1>3, <1>4, <1>5, <1>6, FreshByMerge, FreshByPick, FreshByGraft
          DEF Next

PullsSound == \A p \in pulls : OneCommit(p)

LEMMA PullsKept == PullsSound /\ UNCHANGED pulls => PullsSound'
  BY DEF PullsSound, OneCommit

LEMMA OnePullMore ==
  ASSUME PullsSound, NEW p, OneCommit(p), pulls' = pulls \cup {p}
  PROVE  PullsSound'
  BY DEF PullsSound, OneCommit

LEMMA PullsStep == TypeOK /\ Fresh /\ PullsSound /\ [Next]_vars => PullsSound'
  <1> SUFFICES ASSUME TypeOK, Fresh, PullsSound, [Next]_vars PROVE PullsSound'
    OBVIOUS
  <1>1. CASE PickPublishes
    <2>1. Picked.kind = "pick" /\ Picked.base \subseteq Made
      BY PickFields DEF Fresh, TypeOK, Requests
    <2>2. OneCommit([onto |-> Picked.base, sha |-> Result(Picked)])
      BY <2>1, ResultOfPick
    <2>3. pulls' = pulls \cup {[onto |-> Picked.base, sha |-> Result(Picked)]}
      BY <1>1 DEF PickPublishes, OpenPullRequest, Pick
    <2> QED BY <2>2, <2>3, OnePullMore
  <1>2. CASE ApplyPick
    <2>1. PICK tip \in Tips : /\ CommitGraft(tip)
                              /\ pulls' = pulls \cup {[onto |-> graft.base, sha |-> tip]}
      BY <1>2 DEF ApplyPick, OpenPullRequest
    <2>2. graft.kind = "pick" /\ graft.base \subseteq Made /\ ~ graft.clean
      BY <1>2 DEF ApplyPick, OpenPullRequest, Fresh
    <2>3. tip = Result(graft)
      BY <2>1, <2>2 DEF CommitGraft
    <2>4. OneCommit([onto |-> graft.base, sha |-> tip])
      BY <2>2, <2>3, ResultOfPick
    <2> QED BY <2>1, <2>4, OnePullMore
  <1>3. CASE CheckStep \/ UpdateStep \/ PreviewStep
    BY <1>3, PullsKept DEF CheckStep, CheckBegin, Fetch, FetchFails, Publish, UpdateStep,
       UpdateBegin, UpdateRefused, UpdateFails, UpdateConflicts, UpdateMerges, Update,
       PreviewStep, PreviewLock, PreviewRefused, PreviewFails, PreviewConflicts, PreviewClean,
       Preview
  <1>4. CASE \/ \E rev \in Offered : PickBegin(rev)
             \/ PickRefused \/ PickFails \/ PickConflicts
    BY <1>4, PullsKept DEF PickBegin, PickRefused, PickFails, PickConflicts, Pick
  <1>5. CASE Resolve \/ ApplyMerge \/ ApplyFails \/ Abort
    BY <1>5, PullsKept DEF Resolve, ApplyMerge, ApplyFails, Abort
  <1>6. CASE CheckoutStep
    BY <1>6, PullsKept DEF CheckoutStep, CommitBegin, CommitLook, Commit, CommitRefused,
       CheckoutBegin, CheckoutLook, Switch, SwitchRefused, Stage
  <1>7. CASE Edit \/ (\E b \in Branches : UpstreamMoves(b)) \/ Restart \/ UNCHANGED vars
    BY <1>7, PullsKept DEF Edit, UpstreamMoves, Restart, vars
  <1> QED BY <1>1, <1>2, <1>3, <1>4, <1>5, <1>6, <1>7 DEF Next, PickStep, GraftStep

(* A pull request for a single commit adds that commit to upstream and      *)
(* nothing else, however often it was retried and wherever upstream moved   *)
(* in between (repositoryPR, finishPick, commitGraft).                      *)
THEOREM PullRequestsSound == Spec => []PullRequestIsOneCommit
  <1>1. Init => Fresh /\ PullsSound
    <2>1. Init => \A b \in Branches : theirs[b] \subseteq {0} /\ tracked[b] \subseteq {0}
      BY DEF Init
    <2>2. Init => 0 \in Made /\ graft.kind = "none" /\ pulls = {}
      BY DEF Init, Made, NoGraft
    <2> QED BY <2>1, <2>2 DEF Fresh, PullsSound
  <1>2. PullsSound => PullRequestIsOneCommit
    BY DEF PullsSound, PullRequestIsOneCommit, OneCommit
  <1> QED BY <1>1, <1>2, FreshStep, PullsStep, TypeCorrect, PTL DEF Spec

-----------------------------------------------------------------------------
(* An applied merge is the merge that was prepared.                         *)

Movers == {"update", "commit", "checkout"}

(* A request that moves the checkout holds a.mu from its first step to its  *)
(* last one; in between nobody else moves it.                               *)
Holders == \A r \in Movers : ~ At(r, "idle") => mu = r

LEMMA HoldersKept == Holders /\ UNCHANGED <<mu, pc>> => Holders'
  BY DEF Holders, At

LEMMA HoldersBegin ==
  ASSUME TypeOK, Holders, NEW r \in Movers, NEW place, Begin(r, place)
  PROVE  Holders'
  BY DEF TypeOK, Holders, Begin, At, GoTo, Movers, Requests

LEMMA HoldersGo ==
  ASSUME TypeOK, Holders, NEW r \in Requests, NEW place, GoTo(r, place), UNCHANGED mu,
         r \in Movers => ~ At(r, "idle")
  PROVE  Holders'
  BY DEF TypeOK, Holders, At, GoTo

LEMMA HoldersDone ==
  ASSUME TypeOK, Holders, NEW r \in Requests, Done(r)
  PROVE  Holders'
  BY DEF TypeOK, Holders, At, GoTo, Done, Movers, Requests

LEMMA HoldersStep == TypeOK /\ Holders /\ [Next]_vars => Holders'
  <1> SUFFICES ASSUME TypeOK, Holders, [Next]_vars PROVE Holders'
    OBVIOUS
  <1>0. Movers \subseteq Requests /\ Checking \subseteq Requests /\ "preview" \in Requests
        /\ {"preview", "check"} \cap Movers = {} /\ Checking \ {"update"} = {"check", "preview"}
    BY DEF Movers, Checking, Requests
  <1>1. ASSUME NEW r \in Checking, CheckBegin(r) \/ Fetch(r) \/ FetchFails(r) \/ Publish(r)
        PROVE  Holders'
    <2>1. CASE CheckBegin(r)
      <3>1. GoTo(r, "fetch") /\ UNCHANGED mu /\ r \notin Movers
        BY <1>0, <2>1 DEF CheckBegin, locks
      <3> QED BY <1>0, <3>1, HoldersGo
    <2>2. CASE Fetch(r)
      <3>1. GoTo(r, "publish") /\ UNCHANGED mu /\ ~ At(r, "idle")
        BY <2>2 DEF Fetch, locks, At
      <3> QED BY <1>0, <3>1, HoldersGo
    <2>3. CASE FetchFails(r) \/ (Publish(r) /\ r = "check")
      <3>1. Done(r)
        BY <2>3 DEF FetchFails, Publish
      <3> QED BY <1>0, <3>1, HoldersDone
    <2>4. CASE Publish(r) /\ r # "check"
      <3>1. GoTo(r, "open") /\ UNCHANGED mu /\ ~ At(r, "idle")
        BY <2>4 DEF Publish, locks, At
      <3> QED BY <1>0, <3>1, HoldersGo
    <2> QED BY <1>1, <2>1, <2>2, <2>3, <2>4
  <1>2. CASE UpdateBegin \/ CommitBegin \/ CheckoutBegin
    BY <1>2, HoldersBegin DEF UpdateBegin, CommitBegin, CheckoutBegin, Movers
  <1>3. CASE UpdateRefused \/ UpdateFails \/ UpdateConflicts \/ UpdateMerges
    <2>1. Done("update")
      BY <1>3 DEF UpdateRefused, UpdateFails, UpdateConflicts, UpdateMerges, Update
    <2> QED BY <2>1, HoldersDone DEF Requests
  <1>4. CASE PreviewLock
    <2>1. GoTo("preview", "replay") /\ UNCHANGED mu
      BY <1>4 DEF PreviewLock
    <2> QED BY <1>0, <2>1, HoldersGo
  <1>5. CASE PreviewRefused \/ PreviewFails \/ PreviewConflicts \/ PreviewClean
    <2>1. Done("preview")
      BY <1>5 DEF PreviewRefused, PreviewFails, PreviewConflicts, PreviewClean, Preview
    <2> QED BY <2>1, HoldersDone DEF Requests
  <1>6. CASE GraftStep \/ Stage \/ Edit \/ (\E b \in Branches : UpstreamMoves(b))
    BY <1>6, HoldersKept DEF GraftStep,
       Resolve, ApplyMerge, ApplyPick, OpenPullRequest, ApplyFails, Abort, Stage, Edit, UpstreamMoves, locks
  <1>7. CASE CommitLook
    <2>1. CASE Done("commit")
      BY <2>1, HoldersDone DEF Requests
    <2>2. CASE GoTo("commit", "commit") /\ UNCHANGED mu
      BY <1>0, <1>7, <2>2, HoldersGo DEF CommitLook, At, Movers
    <2> QED BY <1>7, <2>1, <2>2 DEF CommitLook, locks
  <1>8. CASE CheckoutLook
    BY <1>0, <1>8, HoldersGo DEF CheckoutLook, At, Movers, locks
  <1>9. CASE Commit \/ CommitRefused
    BY <1>9, HoldersDone DEF Commit, CommitRefused, Requests
  <1>10. CASE Switch \/ SwitchRefused
    BY <1>10, HoldersDone DEF Switch, SwitchRefused, Requests
  <1>11. CASE Restart
    BY <1>0, <1>11 DEF Restart, Holders, At
  <1>12. CASE UNCHANGED vars
    BY <1>12, HoldersKept DEF vars, locks
  <1>13. ASSUME NEW rev \in Offered, PickBegin(rev) PROVE Holders'
    <2>1. GoTo("pick", "replay") /\ UNCHANGED mu
      BY <1>13 DEF PickBegin, locks
    <2> QED BY <2>1, HoldersGo DEF Movers, Requests
  <1>14. CASE PickRefused \/ PickFails \/ PickConflicts \/ PickPublishes
    <2>1. Done("pick")
      BY <1>14 DEF PickRefused, PickFails, PickConflicts, PickPublishes, Pick
    <2> QED BY <2>1, HoldersDone DEF Requests
  <1> QED BY <1>1, <1>2, <1>3, <1>4, <1>5, <1>6, <1>7, <1>8, <1>9, <1>10, <1>11, <1>12,
             <1>13, <1>14
          DEF Next, CheckStep, UpdateStep, PreviewStep, PickStep, CheckoutStep

AddsOne(old, tip) == old \subseteq tip /\ Cardinality(tip \ old) <= 1

(* The commit of a graft that needs no resolving is in its worktree since   *)
(* the preview, and merges what the graft says.                             *)
TipSound ==
  graft.clean /\ worktree # NoTree => AddsOne(graft.base \cup graft.rev, worktree.tip)

LEMMA AtMostOne ==
  ASSUME NEW old, NEW tip, NEW c, old \subseteq tip, tip \subseteq old \cup {c}
  PROVE  AddsOne(old, tip)
  <1>1. tip \ old = {} \/ tip \ old = {c}
    OBVIOUS
  <1>2. Cardinality({}) = 0 /\ Cardinality({c}) = 1
    BY FS_EmptySet, FS_Singleton
  <1>3. Cardinality(tip \ old) <= 1
    BY <1>1, <1>2
  <1> QED BY <1>3 DEF AddsOne

LEMMA ResultAdds ==
  ASSUME NEW g, g.kind # "pick"
  PROVE  AddsOne(g.base \cup g.rev, Result(g))
  <1>1. g.base \cup g.rev \subseteq Result(g) /\ Result(g) \subseteq (g.base \cup g.rev) \cup {next}
    BY DEF Result
  <1> QED BY <1>1, AtMostOne

LEMMA TipKept == TipSound /\ UNCHANGED replay => TipSound'
  BY DEF TipSound, AddsOne, replay

LEMMA TipOfNobody == worktree' = NoTree \/ ~ graft'.clean => TipSound'
  BY DEF TipSound

LEMMA TipByConflicts ==
  ASSUME NEW g \in Grafts, ~ g.clean, Conflicts(g)
  PROVE  TipSound'
  <1>1. ~ graft'.clean
    BY DEF Conflicts, Grafts
  <1> QED BY <1>1, TipOfNobody

LEMMA TipByMerge == TypeOK /\ TipSound /\ (UpdateStep \/ PreviewStep) => TipSound'
  <1> SUFFICES ASSUME TypeOK, TipSound, UpdateStep \/ PreviewStep PROVE TipSound'
    OBVIOUS
  <1>1. /\ MergeOf(Head, upstream) \in Grafts /\ ~ MergeOf(Head, upstream).clean
        /\ Prepared \in Grafts /\ Prepared.kind = "merge" /\ ~ Prepared.clean
    <2>1. upstream.rev \in Commits /\ Head \in Commits
      BY Defaults DEF TypeOK
    <2>2. MergeOf(Head, upstream) \in Grafts
      BY <2>1, MergeTyped
    <2> QED BY <2>2, PreparedTyped, MergeFields DEF Prepared
  <1>2. CASE UpdateConflicts
    BY <1>1, <1>2, TipByConflicts DEF UpdateConflicts, Update
  <1>3. CASE PreviewConflicts
    BY <1>1, <1>3, TipByConflicts DEF PreviewConflicts, Preview
  <1>4. CASE PreviewClean
    <2>1. graft' = [Prepared EXCEPT !.clean = TRUE] /\ worktree' = Replayed(Prepared, Result(Prepared))
      BY <1>4 DEF PreviewClean, Preview
    <2>2. graft'.base = Prepared.base /\ graft'.rev = Prepared.rev
      BY <1>1, <2>1 DEF Grafts
    <2>3. worktree'.tip = Result(Prepared)
      BY <2>1 DEF Replayed
    <2>4. AddsOne(Prepared.base \cup Prepared.rev, Result(Prepared))
      BY <1>1, ResultAdds
    <2> QED BY <2>2, <2>3, <2>4 DEF TipSound, AddsOne
  <1>5. CASE UpdateFails \/ UpdateMerges \/ PreviewFails
    BY <1>5, TipOfNobody DEF UpdateFails, UpdateMerges, Update, PreviewFails, Preview, NothingOpen
  <1>6. CASE UpdateBegin \/ UpdateRefused \/ PreviewLock \/ PreviewRefused
    BY <1>6, TipKept DEF UpdateBegin, UpdateRefused, Update, PreviewLock, PreviewRefused, Preview
  <1> QED BY <1>2, <1>3, <1>4, <1>5, <1>6 DEF UpdateStep, PreviewStep

LEMMA TipByGraft == TypeOK /\ TipSound /\ GraftStep => TipSound'
  <1> SUFFICES ASSUME TypeOK, TipSound, GraftStep PROVE TipSound'
    OBVIOUS
  <1>1. CASE Resolve
    <2>1. graft \in Grafts /\ graft' = [graft EXCEPT !.pending = graft.pending - 1]
          /\ worktree' = worktree
      BY <1>1 DEF Resolve, TypeOK
    <2>2. graft'.base = graft.base /\ graft'.rev = graft.rev /\ graft'.clean = graft.clean
      BY <2>1 DEF Grafts
    <2> QED BY <2>1, <2>2 DEF TipSound, AddsOne
  <1>2. CASE ApplyMerge \/ ApplyPick \/ Abort
    BY <1>2, TipOfNobody DEF ApplyMerge, ApplyPick, OpenPullRequest, Abort, NothingOpen
  <1>3. CASE ApplyFails
    <2>1. PICK tip \in Tips : CommitGraft(tip) /\ worktree' = [worktree EXCEPT !.tip = tip]
      BY <1>3 DEF ApplyFails
    <2>2. graft.clean => tip = worktree.tip
      BY <2>1 DEF CommitGraft
    <2>3. graft' = graft /\ worktree # NoTree /\ worktree'.tip = tip
      BY <1>3, <2>1 DEF ApplyFails, CommitGraft, TypeOK
    <2> QED BY <2>2, <2>3 DEF TipSound, AddsOne
  <1> QED BY <1>1, <1>2, <1>3 DEF GraftStep

LEMMA TipStep == TypeOK /\ TipSound /\ [Next]_vars => TipSound'
  <1> SUFFICES ASSUME TypeOK, TipSound, [Next]_vars PROVE TipSound'
    OBVIOUS
  <1>1. CASE CheckStep
    BY <1>1, TipKept DEF CheckStep, CheckBegin, Fetch, FetchFails, Publish
  <1>2. CASE CheckoutStep
    BY <1>2, TipKept DEF CheckoutStep, CommitBegin, CommitLook, Commit, CommitRefused,
       CheckoutBegin, CheckoutLook, Switch, SwitchRefused, Stage
  <1>3. CASE Edit \/ (\E b \in Branches : UpstreamMoves(b)) \/ UNCHANGED vars
    BY <1>3, TipKept DEF Edit, UpstreamMoves, vars
  <1>4. CASE Restart
    BY <1>4, TipOfNobody DEF Restart, NothingOpen
  <1>5. CASE PickFails \/ PickPublishes
    BY <1>5, TipOfNobody DEF PickFails, PickPublishes, Pick, NothingOpen
  <1>6. CASE PickConflicts
    <2>1. Conflicts(Picked) /\ Picked \in Grafts
      BY <1>6, PickTyped DEF PickConflicts, Pick
    <2> QED BY <2>1, PickFields, TipByConflicts
  <1>7. CASE (\E rev \in Offered : PickBegin(rev)) \/ PickRefused
    BY <1>7, TipKept DEF PickBegin, PickRefused, Pick
  <1> QED BY <1>1, <1>2, <1>3, <1>4, <1>5, <1>6, <1>7, TipByMerge, TipByGraft DEF Next, PickStep

PreparedMove ==
  /\ graft.kind = "merge" /\ graft.base = Head
  /\ heads' = [heads EXCEPT ![branch] = heads'[branch]]
  /\ AddsOne(graft.base \cup graft.rev, heads'[branch])

LEMMA MoveStep ==
  TypeOK /\ Holders /\ TipSound /\ [Next]_vars => (mu = "free" /\ heads' # heads => PreparedMove)
  <1> SUFFICES ASSUME TypeOK, Holders, TipSound, [Next]_vars, mu = "free", heads' # heads
               PROVE  PreparedMove
    OBVIOUS
  <1>1. ApplyMerge
    <2>1. ~ UpdateMerges /\ ~ Commit /\ ~ Switch
      BY DEF UpdateMerges, Update, Commit, Switch, Holders, At, Movers
    <2>2. ~ CheckStep /\ ~ PreviewStep /\ ~ PickStep
      BY DEF CheckStep, CheckBegin, Fetch, FetchFails, Publish, PreviewStep, PreviewLock,
         PreviewRefused, PreviewFails, PreviewConflicts, PreviewClean, Preview, PickStep,
         PickBegin, PickRefused, PickFails, PickConflicts, PickPublishes, Pick, checkout
    <2>3. ~ (UpdateBegin \/ UpdateRefused \/ UpdateFails \/ UpdateConflicts)
      BY DEF UpdateBegin, UpdateRefused, UpdateFails, UpdateConflicts, Update, checkout
    <2>4. ~ (Resolve \/ ApplyPick \/ ApplyFails \/ Abort)
      BY DEF Resolve, ApplyPick, OpenPullRequest, ApplyFails, Abort, checkout
    <2>5. ~ (\/ CommitBegin \/ CommitLook \/ CommitRefused \/ CheckoutBegin
             \/ CheckoutLook \/ SwitchRefused \/ Stage)
      BY DEF CommitBegin, CommitLook, CommitRefused, CheckoutBegin, CheckoutLook, SwitchRefused,
         Stage, checkout
    <2>6. ~ (Edit \/ (\E b \in Branches : UpstreamMoves(b)) \/ Restart \/ UNCHANGED vars)
      BY DEF Edit, UpstreamMoves, Restart, vars, checkout
    <2> QED BY <2>1, <2>2, <2>3, <2>4, <2>5, <2>6 DEF Next, UpdateStep, GraftStep, CheckoutStep
  <1>2. PICK tip \in Tips : CommitGraft(tip) /\ heads' = [heads EXCEPT ![branch] = tip]
    BY <1>1 DEF ApplyMerge
  <1>3. graft.kind = "merge" /\ graft.base = Head
    BY <1>1 DEF ApplyMerge, ApplyGuard
  <1>4. heads'[branch] = tip
    BY <1>2 DEF TypeOK
  <1>5. AddsOne(graft.base \cup graft.rev, tip)
    <2>1. CASE graft.clean
      BY <1>2, <2>1 DEF CommitGraft, TipSound
    <2>2. CASE ~ graft.clean
      BY <1>2, <1>3, <2>2, ResultAdds DEF CommitGraft
    <2> QED BY <2>1, <2>2
  <1> QED BY <1>2, <1>3, <1>4, <1>5 DEF PreparedMove

(* Whatever was previewed, committed, switched or restarted meanwhile, a    *)
(* merge that is applied lands on the commit it was prepared on, and adds   *)
(* the revision merged and at most one commit (graftApply, applyMerge).     *)
THEOREM MergesApplyAsPrepared == Spec => AppliedAsPrepared
  <1>1. Init => Holders /\ TipSound
    BY DEF Init, Holders, At, TipSound, NoTree, Movers, Requests
  <1>2. TypeOK /\ Holders /\ TipSound /\ [Next]_vars =>
          [mu = "free" /\ heads' # heads =>
             /\ graft.kind = "merge" /\ graft.base = Head
             /\ heads' = [heads EXCEPT ![branch] = heads'[branch]]
             /\ graft.base \cup graft.rev \subseteq heads'[branch]
             /\ Cardinality(heads'[branch] \ (graft.base \cup graft.rev)) <= 1]_vars
    BY MoveStep DEF PreparedMove, AddsOne
  <1> QED BY <1>1, <1>2, HoldersStep, TipStep, TypeCorrect, PTL DEF Spec, AppliedAsPrepared

=============================================================================
