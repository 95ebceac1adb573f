------------------------------ MODULE Repository ------------------------------
(***************************************************************************)
(* The checkout the builds are taken from, and the one merge or            *)
(* cherry-pick ("graft") being resolved beside it (webui/repo.go,          *)
(* graft.go, changes.go, pr.go).  Three locks: a.mu for everything that    *)
(* moves the checkout, graftMu for the graft and its worktree, and repoMu, *)
(* held for single assignments only.                                       *)
(*                                                                         *)
(* A request is one action where it holds the locks of all it reads and    *)
(* writes; the others (check, update, merge preview, pull request of one   *)
(* commit, commit, checkout) are one action per lock section and per git   *)
(* command whose result they carry over to a later one.  At most one       *)
(* request of each of these kinds is under way, and Asked says which kinds *)
(* there are at all (bounds).                                              *)
(*                                                                         *)
(* A commit is the set of commits reachable from it, itself included, each *)
(* a number: "is an ancestor of" is \subseteq, and {} is no commit at all. *)
(***************************************************************************)
EXTENDS Integers, FiniteSets

CONSTANTS
  Branches,      \* branch names
  Default,       \* defaultBranch, which upstream always carries
  UpstreamHas,   \* the branches upstream carries
  Asked,         \* the requests of several steps that are made (bound)
  MaxCommits,    \* commits made by anybody (bound)
  MaxConflicts,  \* conflicting files of one replay (bound)
  MaxFaults,     \* git, network and GitHub calls that fail (bound)
  MaxCrashes     \* server restarts (bound)

Requests == {"check", "update", "preview", "pick", "commit", "checkout"}

ASSUME RepositoryAssumption ==
  /\ Asked \subseteq Requests
  /\ UpstreamHas \subseteq Branches /\ Default \in UpstreamHas
  /\ "detached" \notin Branches
  /\ MaxCommits \in Nat /\ MaxConflicts \in Nat
  /\ MaxFaults \in Nat /\ MaxCrashes \in Nat

VARIABLES
  branch,     \* what HEAD points to: a branch, or "detached"
  heads,      \* the local branches, and the commit of a detached HEAD
  tree,       \* the working tree: clean, edited, or with staged changes
  theirs,     \* the branches on the upstream server
  tracked,    \* refs/remotes/upstream/*
  upstream,   \* a.upstream, and the branch it was read from
  graft,      \* a.graft
  worktree,   \* what <data>/graft holds: a replay, and its commit if it has one
  mu,         \* the request that holds a.mu across steps
  graftMu,    \* the request that holds graftMu across steps
  pc,         \* where each request is
  seen,       \* what each request read some steps ago
  pulls,      \* pull requests opened for a single commit
  next,       \* number of the next commit
  spent       \* how much of each bound has been used

checkout == <<branch, heads, tree>>
remote   == <<theirs, tracked, upstream>>
replay   == <<graft, worktree>>
locks    == <<mu, graftMu>>
vars     == <<checkout, remote, replay, locks, pc, seen, pulls, next, spent>>

Checking == {"check", "update", "preview"}

Nothing  == [of |-> Default, rev |-> {}]
NoGraft  == [kind |-> "none", base |-> {}, branch |-> Default, rev |-> {},
             clean |-> FALSE, pending |-> 0]
NoTree   == [kind |-> "none", base |-> {}, rev |-> {}, tip |-> {}]
NotRead  == [branch |-> Default, head |-> {}, of |-> Default, rev |-> {}]

Budgets == [faults |-> MaxFaults, crashes |-> MaxCrashes]

Spend(what) ==
  /\ spent[what] < Budgets[what]
  /\ spent' = [spent EXCEPT ![what] = @ + 1]

Head == heads[branch]

(* a.branch: a detached HEAD counts as the release branch. *)
CheckedOut == IF branch = "detached" THEN Default ELSE branch

(* The upstream branch a checkout on b is compared with and merged from. *)
Counterpart(b) == IF b \in UpstreamHas THEN b ELSE Default

Init ==
  /\ branch = Default
  /\ heads = [b \in Branches \cup {"detached"} |-> IF b = Default THEN {0} ELSE {}]
  /\ tree = "clean"
  /\ theirs = [b \in Branches |-> IF b \in UpstreamHas THEN {0} ELSE {}]
  /\ tracked = [b \in Branches |-> {}]
  /\ upstream = Nothing
  /\ graft = NoGraft
  /\ worktree = NoTree
  /\ mu = "free"
  /\ graftMu = "free"
  /\ pc = [r \in Requests |-> "idle"]
  /\ seen = [r \in Requests |-> NotRead]
  /\ pulls = {}
  /\ next = 1
  /\ spent = [what \in DOMAIN Budgets |-> 0]

-------------------------------------------------------------------------------
(* Control of the requests made of several steps *)

At(r, place) == pc[r] = place

GoTo(r, place) == pc' = [pc EXCEPT ![r] = place]

(* The request is answered; what it had locked and read is forgotten. *)
Done(r) ==
  /\ GoTo(r, "idle")
  /\ seen' = [seen EXCEPT ![r] = NotRead]
  /\ mu' = IF mu = r THEN "free" ELSE mu
  /\ graftMu' = IF graftMu = r THEN "free" ELSE graftMu

Begin(r, place) ==
  /\ r \in Asked
  /\ At(r, "idle")
  /\ mu = "free"
  /\ mu' = r
  /\ GoTo(r, place)

-------------------------------------------------------------------------------
(* check: download upstream, then remember the commit to compare with.     *)
(* Run on its own, by an update that holds a.mu, and by a merge preview.   *)

CheckBegin(r) ==
  /\ r \in Asked \ {"update"}
  /\ At(r, "idle")
  /\ GoTo(r, "fetch")
  /\ seen' = [seen EXCEPT ![r].branch = CheckedOut]
  /\ UNCHANGED <<checkout, remote, replay, locks, pulls, next, spent>>

UpdateBegin ==
  /\ Begin("update", "fetch")
  /\ seen' = [seen EXCEPT !["update"].branch = CheckedOut]
  /\ UNCHANGED <<checkout, remote, replay, graftMu, pulls, next, spent>>

Fetch(r) ==
  /\ At(r, "fetch")
  /\ tracked' = theirs
  /\ LET of == Counterpart(seen[r].branch)
     IN seen' = [seen EXCEPT ![r].of = of, ![r].rev = theirs[of]]
  /\ GoTo(r, "publish")
  /\ UNCHANGED <<checkout, theirs, upstream, replay, locks, pulls, next, spent>>

FetchFails(r) ==
  /\ At(r, "fetch")
  /\ Spend("faults")
  /\ Done(r)
  /\ UNCHANGED <<checkout, remote, replay, pulls, next>>

(* After the fork was fetched as well, which may take long. *)
Publish(r) ==
  /\ At(r, "publish")
  /\ upstream' = [of |-> seen[r].of, rev |-> seen[r].rev]
  /\ IF r = "check"
     THEN Done(r)
     ELSE GoTo(r, "open") /\ UNCHANGED <<seen, locks>>
  /\ UNCHANGED <<checkout, theirs, tracked, replay, pulls, next, spent>>

-------------------------------------------------------------------------------
(* openGraft *)

(* The commit a replay ends in: a merge fast-forwards where it can. *)
Result(g) ==
  IF g.kind = "pick" THEN g.base \cup {next}
  ELSE IF g.base \subseteq g.rev THEN g.rev
  ELSE g.base \cup g.rev \cup {next}

Replayed(g, tip) == [kind |-> g.kind, base |-> g.base, rev |-> g.rev, tip |-> tip]

(* Git stopped on conflicts: the graft is kept for them to be resolved. *)
Conflicts(g) ==
  /\ g.kind = "merge" => ~ g.base \subseteq g.rev
  /\ \E n \in 1..MaxConflicts : graft' = [g EXCEPT !.pending = n]
  /\ worktree' = Replayed(g, {})
  /\ UNCHANGED next

CanCommit == next <= MaxCommits /\ next' = next + 1

(* A fast-forward makes no commit. *)
Numbered(tip) == IF next \in tip THEN CanCommit ELSE UNCHANGED next

(* It failed outright: nothing stays open, not even an earlier graft, whose *)
(* worktree it took.                                                       *)
NothingOpen == graft' = NoGraft /\ worktree' = NoTree

MergeOf(head, up) ==
  [NoGraft EXCEPT !.kind = "merge", !.base = head, !.branch = CheckedOut, !.rev = up.rev]

-------------------------------------------------------------------------------
(* repositoryUpdate *)

Update(outcome) ==
  /\ At("update", "open")
  /\ graftMu = "free"
  /\ outcome
  /\ Done("update")
  /\ UNCHANGED <<branch, tree, remote, pulls>>

UpdateRefused ==
  Update(/\ tree # "clean" \/ upstream.rev \subseteq Head
         /\ UNCHANGED <<heads, replay, next, spent>>)

Mergeable == tree = "clean" /\ ~ upstream.rev \subseteq Head

(* The replay or the fast-forward failed. *)
UpdateFails ==
  Update(Mergeable /\ Spend("faults") /\ NothingOpen /\ UNCHANGED <<heads, next>>)

UpdateConflicts ==
  Update(Mergeable /\ Conflicts(MergeOf(Head, upstream)) /\ UNCHANGED <<heads, spent>>)

UpdateMerges ==
  Update(/\ Mergeable
         /\ heads' = [heads EXCEPT ![branch] = Result(MergeOf(Head, upstream))]
         /\ Numbered(heads'[branch])
         /\ NothingOpen
         /\ UNCHANGED spent)

-------------------------------------------------------------------------------
(* repositoryMergePreview: under graftMu, but not under a.mu *)

PreviewLock ==
  /\ At("preview", "open")
  /\ graftMu = "free"
  /\ graftMu' = "preview"
  /\ seen' = [seen EXCEPT !["preview"].head = Head, !["preview"].of = upstream.of,
                          !["preview"].rev = upstream.rev]
  /\ GoTo("preview", "replay")
  /\ UNCHANGED <<checkout, remote, replay, mu, pulls, next, spent>>

Preview(outcome) ==
  /\ At("preview", "replay")
  /\ outcome
  /\ Done("preview")
  /\ UNCHANGED <<checkout, remote, pulls>>

Prepared == MergeOf(seen["preview"].head, seen["preview"])

PreviewRefused ==
  Preview(/\ tree # "clean" \/ Prepared.rev \subseteq Prepared.base
          /\ UNCHANGED <<replay, next, spent>>)

Previewable == tree = "clean" /\ ~ Prepared.rev \subseteq Prepared.base

PreviewFails == Preview(Previewable /\ Spend("faults") /\ NothingOpen /\ UNCHANGED next)

PreviewConflicts == Preview(Previewable /\ Conflicts(Prepared) /\ UNCHANGED spent)

PreviewClean ==
  Preview(/\ Previewable
          /\ graft' = [Prepared EXCEPT !.clean = TRUE]
          /\ worktree' = Replayed(Prepared, Result(Prepared))
          /\ Numbered(Result(Prepared))
          /\ UNCHANGED spent)

-------------------------------------------------------------------------------
(* repositoryPR for a single commit.  "offered": the tips the screen       *)
(* lists.  The commit and upstream's branch are chosen with no lock; the   *)
(* commit is replayed on what that branch is by the time graftMu is free.  *)

Offered == ({heads[b] : b \in DOMAIN heads} \cup {tracked[b] : b \in Branches}) \ {{}}

PrBase == IF tracked[CheckedOut] # {} THEN CheckedOut ELSE Default

PickBegin(rev) ==
  /\ "pick" \in Asked
  /\ At("pick", "idle")
  /\ seen' = [seen EXCEPT !["pick"].branch = PrBase, !["pick"].rev = rev]
  /\ GoTo("pick", "replay")
  /\ UNCHANGED <<checkout, remote, replay, locks, pulls, next, spent>>

Picked ==
  LET onto == seen["pick"].branch
  IN [NoGraft EXCEPT !.kind = "pick", !.base = tracked[onto], !.branch = onto,
                     !.rev = seen["pick"].rev]

Pick(outcome) ==
  /\ At("pick", "replay")
  /\ graftMu = "free"
  /\ outcome
  /\ Done("pick")
  /\ UNCHANGED <<checkout, remote>>

(* That branch was never read, or is gone. *)
PickRefused == Pick(Picked.base = {} /\ UNCHANGED <<replay, pulls, next, spent>>)

Pickable == Picked.base # {}

(* Nothing is left to pick, the commit is a merge, git failed, or the pull *)
(* request was not opened.                                                 *)
PickFails == Pick(Pickable /\ NothingOpen /\ UNCHANGED <<pulls, next, spent>>)

PickConflicts_GraftKept ==
  Pick(/\ Pickable
       /\ worktree' = Replayed(Picked, {})
       /\ UNCHANGED <<graft, pulls, next, spent>>)

(* Even a commit upstream has may conflict with what came after it. *)
PickConflicts == Pick(Pickable /\ Conflicts(Picked) /\ UNCHANGED <<pulls, spent>>)

(* publish pushes the branch and opens its pull request, or finds it open; *)
(* what was pushed is then in it.                                          *)
OpenPullRequest(onto, sha) == pulls' = pulls \cup {[onto |-> onto, sha |-> sha]}

(* A clean replay goes straight to GitHub.  An earlier graft stays open,   *)
(* without its worktree.                                                   *)
PickPublishes ==
  Pick(/\ Pickable
       /\ OpenPullRequest(Picked.base, Result(Picked))
       /\ worktree' = NoTree
       /\ CanCommit
       /\ UNCHANGED <<graft, spent>>)

-------------------------------------------------------------------------------
(* graftResolve, graftApply, graftAbort *)

Resolve ==
  /\ graftMu = "free"
  /\ graft.pending > 0
  /\ worktree # NoTree
  /\ graft' = [graft EXCEPT !.pending = @ - 1]
  /\ UNCHANGED <<checkout, remote, worktree, locks, pc, seen, pulls, next, spent>>

CommitGraft_Again(tip) ==
  /\ graft # NoGraft /\ worktree # NoTree
  /\ IF graft.clean
     THEN tip = worktree.tip /\ UNCHANGED next
     ELSE /\ graft.pending = 0
          /\ tip = IF worktree.tip = {} THEN Result(graft) ELSE worktree.tip \cup {next}
          /\ CanCommit

(* commitGraft returns tip.  A clean graft has its commit already; git     *)
(* commit makes that of a resolved one, and refuses to make it twice.      *)
CommitGraft(tip) ==
  /\ graft # NoGraft /\ worktree # NoTree
  /\ IF graft.clean
     THEN tip = worktree.tip /\ UNCHANGED next
     ELSE /\ graft.pending = 0 /\ worktree.tip = {}
          /\ tip = Result(graft)
          /\ CanCommit

Tips == {worktree.tip, Result(graft), worktree.tip \cup {next}}

ApplyGuard_TreeOnly == tree = "clean"

(* The checkout is still where the merge was prepared. *)
ApplyGuard == Head = graft.base /\ tree = "clean"

ApplyMerge ==
  /\ mu = "free" /\ graftMu = "free"
  /\ graft.kind = "merge"
  /\ ApplyGuard
  /\ \E tip \in Tips :
       /\ CommitGraft(tip)
       /\ Head \subseteq tip         \* git merge --ff-only
       /\ heads' = [heads EXCEPT ![branch] = tip]
  /\ NothingOpen
  /\ UNCHANGED <<branch, tree, remote, locks, pc, seen, pulls, spent>>

ApplyPick ==
  /\ mu = "free" /\ graftMu = "free"
  /\ graft.kind = "pick"
  /\ \E tip \in Tips :
       /\ CommitGraft(tip)
       /\ OpenPullRequest(graft.base, tip)
  /\ NothingOpen
  /\ UNCHANGED <<checkout, remote, locks, pc, seen, spent>>

(* The commit was made; the fast-forward, or GitHub, then refused it. *)
ApplyFails ==
  /\ mu = "free" /\ graftMu = "free"
  /\ graft.kind = "merge" => ApplyGuard
  /\ Spend("faults")
  /\ \E tip \in Tips : CommitGraft(tip) /\ worktree' = [worktree EXCEPT !.tip = tip]
  /\ UNCHANGED <<checkout, remote, graft, locks, pc, seen, pulls>>

Abort ==
  /\ graftMu = "free"
  /\ graft # NoGraft
  /\ NothingOpen
  /\ UNCHANGED <<checkout, remote, locks, pc, seen, pulls, next, spent>>

-------------------------------------------------------------------------------
(* repositoryCommit, repositoryCheckout, repositoryStage: under a.mu.  The *)
(* first two also wait for graftMu, to look at the graft.                  *)

CommitBegin ==
  /\ Begin("commit", "look")
  /\ UNCHANGED <<checkout, remote, replay, graftMu, seen, pulls, next, spent>>

CommitLook ==
  /\ At("commit", "look")
  /\ graftMu = "free"
  /\ IF graft # NoGraft
     THEN Done("commit")
     ELSE GoTo("commit", "commit") /\ UNCHANGED <<locks, seen>>
  /\ UNCHANGED <<checkout, remote, replay, pulls, next, spent>>

(* git commit; the part of the tree that was not staged stays as it is. *)
Commit ==
  /\ At("commit", "commit")
  /\ tree = "staged"
  /\ heads' = [heads EXCEPT ![branch] = @ \cup {next}]
  /\ CanCommit
  /\ tree' \in {"clean", "edited"}
  /\ Done("commit")
  /\ UNCHANGED <<branch, remote, replay, pulls, spent>>

(* Nothing is staged, or git refuses. *)
CommitRefused ==
  /\ At("commit", "commit")
  /\ Done("commit")
  /\ UNCHANGED <<checkout, remote, replay, pulls, next, spent>>

CheckoutBegin ==
  /\ Begin("checkout", "look")
  /\ tree = "clean"
  /\ UNCHANGED <<checkout, remote, replay, graftMu, seen, pulls, next, spent>>

CheckoutLook ==
  /\ At("checkout", "look")
  /\ graftMu = "free"
  /\ GoTo("checkout", "switch")
  /\ UNCHANGED <<checkout, remote, replay, locks, seen, pulls, next, spent>>

SwitchBranch_Moves(b) ==
  /\ branch' = b
  /\ \/ heads[b] # {} /\ tracked[b] = {} /\ UNCHANGED heads
     \/ tracked[b] # {} /\ heads' = [heads EXCEPT ![b] = tracked[b]]

(* switchTo: a local branch as it is, a remote one under its own name, a   *)
(* bare commit detached.                                                   *)
SwitchBranch(b) ==
  /\ branch' = b
  /\ \/ heads[b] # {} /\ UNCHANGED heads
     \/ heads[b] = {} /\ tracked[b] # {} /\ heads' = [heads EXCEPT ![b] = tracked[b]]

SwitchCommit(rev) ==
  /\ branch' = "detached"
  /\ heads' = [heads EXCEPT !["detached"] = rev]

Switch ==
  /\ At("checkout", "switch")
  /\ (\E b \in Branches : SwitchBranch(b)) \/ (\E rev \in Offered : SwitchCommit(rev))
  /\ Done("checkout")
  /\ UNCHANGED <<tree, remote, replay, pulls, next, spent>>

(* Not a tree this manager can build, or git refuses. *)
SwitchRefused ==
  /\ At("checkout", "switch")
  /\ Done("checkout")
  /\ UNCHANGED <<checkout, remote, replay, pulls, next, spent>>

Stage ==
  /\ mu = "free"
  /\ \/ tree = "edited" /\ tree' = "staged"
     \/ tree = "staged" /\ tree' = "edited"
  /\ UNCHANGED <<branch, heads, remote, replay, locks, pc, seen, pulls, next, spent>>

-------------------------------------------------------------------------------
(* The world: files edited or reverted in the checkout, upstream moving,   *)
(* the server restarting (main: reapGrafts; what was read is lost).        *)

Edit ==
  /\ \/ tree = "clean" /\ tree' = "edited"
     \/ tree = "edited" /\ tree' = "clean"
  /\ UNCHANGED <<branch, heads, remote, replay, locks, pc, seen, pulls, next, spent>>

UpstreamMoves(b) ==
  /\ theirs[b] # {}
  /\ theirs' = [theirs EXCEPT ![b] = @ \cup {next}]
  /\ CanCommit
  /\ UNCHANGED <<checkout, tracked, upstream, replay, locks, pc, seen, pulls, spent>>

Restart ==
  /\ Spend("crashes")
  /\ NothingOpen
  /\ upstream' = Nothing
  /\ mu' = "free" /\ graftMu' = "free"
  /\ pc' = [r \in Requests |-> "idle"]
  /\ seen' = [r \in Requests |-> NotRead]
  /\ UNCHANGED <<checkout, theirs, tracked, pulls, next>>

-------------------------------------------------------------------------------

CheckStep == \E r \in Checking : CheckBegin(r) \/ Fetch(r) \/ FetchFails(r) \/ Publish(r)

UpdateStep == UpdateBegin \/ UpdateRefused \/ UpdateFails \/ UpdateConflicts \/ UpdateMerges

PreviewStep ==
  PreviewLock \/ PreviewRefused \/ PreviewFails \/ PreviewConflicts \/ PreviewClean

PickStep ==
  \/ \E rev \in Offered : PickBegin(rev)
  \/ PickRefused \/ PickFails \/ PickConflicts \/ PickPublishes

GraftStep == Resolve \/ ApplyMerge \/ ApplyPick \/ ApplyFails \/ Abort

CheckoutStep ==
  \/ CommitBegin \/ CommitLook \/ Commit \/ CommitRefused
  \/ CheckoutBegin \/ CheckoutLook \/ Switch \/ SwitchRefused
  \/ Stage

Next ==
  \/ CheckStep \/ UpdateStep \/ PreviewStep \/ PickStep \/ GraftStep \/ CheckoutStep
  \/ Edit \/ (\E b \in Branches : UpstreamMoves(b)) \/ Restart

Spec == Init /\ [][Next]_vars

-------------------------------------------------------------------------------
(* Type correctness: the refs, the graft, its worktree, locks and requests. *)

Commits == SUBSET (0..MaxCommits)
Grafts ==
  [kind : {"none", "merge", "pick"}, base : Commits, branch : Branches, rev : Commits,
   clean : BOOLEAN, pending : 0..MaxConflicts]

TypeOK ==
  /\ branch \in Branches \cup {"detached"}
  /\ heads \in [Branches \cup {"detached"} -> Commits]
  /\ tree \in {"clean", "edited", "staged"}
  /\ theirs \in [Branches -> Commits]
  /\ tracked \in [Branches -> Commits]
  /\ upstream \in [of : Branches, rev : Commits]
  /\ graft \in Grafts
  /\ worktree \in [kind : {"none", "merge", "pick"}, base : Commits, rev : Commits, tip : Commits]
  /\ mu \in Requests \cup {"free"}
  /\ graftMu \in Requests \cup {"free"}
  /\ pc \in [Requests -> {"idle", "fetch", "publish", "open", "replay", "look", "commit", "switch"}]
  /\ seen \in [Requests -> [branch : Branches, head : Commits, of : Branches, rev : Commits]]
  /\ pulls \subseteq [onto : Commits, sha : Commits]
  /\ next \in 1..(MaxCommits + 1)
  /\ spent \in [DOMAIN Budgets -> Nat]

(* What lies in the worktree is the replay of the graft the screen shows,  *)
(* or nothing: no request can apply, under the name of one resolution,     *)
(* what another one left there (openGraft, repositoryPR, repositoryUpdate, *)
(* graftApply share one directory and one variable).                       *)
GraftOwnsWorktree ==
  worktree # NoTree =>
    /\ graft # NoGraft
    /\ worktree.kind = graft.kind /\ worktree.base = graft.base /\ worktree.rev = graft.rev
    /\ graft.clean => worktree.tip # {}

(* A pull request for a single commit adds exactly one commit to what      *)
(* upstream had: neither more of the checkout's history nor a second one   *)
(* from a retry (repositoryPR, finishPick, commitGraft).                   *)
PullRequestIsOneCommit ==
  \A p \in pulls : p.onto \subseteq p.sha /\ Cardinality(p.sha \ p.onto) = 1

(* No commit made in the checkout is ever lost from its branch: updating,  *)
(* applying a merge and switching only ever add to a branch (applyMerge,   *)
(* switchTo; repo.go: a local branch of that name is never moved).         *)
NothingLost == [][\A b \in Branches : heads[b] \subseteq heads'[b]]_vars

(* Outside a.mu's multi-step requests, the checkout moves only by applying *)
(* the open merge: from the commit it was prepared on, to that commit, the *)
(* revision being merged and at most one merge commit (graftApply).        *)
AppliedAsPrepared ==
  [][mu = "free" /\ heads' # heads =>
       /\ graft.kind = "merge" /\ graft.base = Head
       /\ heads' = [heads EXCEPT ![branch] = heads'[branch]]
       /\ graft.base \cup graft.rev \subseteq heads'[branch]
       /\ Cardinality(heads'[branch] \ (graft.base \cup graft.rev)) <= 1]_vars

-------------------------------------------------------------------------------
(* What the code's own words promise and does not hold *)

(* A merge is prepared on the commit the checkout sits on (graft.go: the   *)
(* worktree is detached on it; changes.go: a commit during a graft is      *)
(* refused because it would strand the resolution).                        *)
OpenedOnHead ==
  [][graft' # graft /\ graft.pending <= graft'.pending /\ graft'.kind = "merge" =>
       graft'.base = heads'[branch']]_vars

(* A merge lands on the branch it was prepared for: the guard of           *)
(* applyMerge catches a checkout that moved since the preview.             *)
LandsOnItsBranch ==
  [][mu = "free" /\ heads' # heads => CheckedOut = graft.branch]_vars

(* An update brings in the upstream branch of the same name as the         *)
(* checkout's (repositoryUpdate, check).                                   *)
UpdateTakesItsBranch ==
  [][mu = "update" /\ heads' # heads => upstream.of = Counterpart(CheckedOut)]_vars

(* A resolution whose last step failed can be retried (publish).           *)
RetryPossible ==
  graft.kind # "none" /\ graft.pending = 0 /\ ~ graft.clean /\ worktree # NoTree =>
    worktree.tip = {}

(* The graft the screen shows has a worktree: it can still be finished.    *)
GraftHasWorktree == graft # NoGraft => worktree # NoTree

(* Nobody waits for a replay while holding a.mu, which every build needs   *)
(* (main.go: resolving must never hold up a build).                        *)
BuildsNotHeldUp ==
  \A r \in Requests : mu = r /\ (At(r, "look") \/ At(r, "open")) => graftMu = "free"
===============================================================================
