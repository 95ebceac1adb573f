------------------------------ MODULE BuildQueue ------------------------------
(***************************************************************************)
(* The persistent build queue of the web build manager (webui/runner.go,   *)
(* webui/retention.go, webui/main.go): HTTP handlers that submit, cancel,  *)
(* delete and pin builds, the single worker goroutine that drives one      *)
(* build's container, retention, and crashes and restarts of the server.   *)
(*                                                                         *)
(* A handler that holds a.mu from its first read to its last write is one  *)
(* action.  The worker is one action per lock section, per unlocked read   *)
(* of the jobs table and per Docker call, so everything that can happen    *)
(* between two of them does.  Retention runs under a.mu too, but asks      *)
(* after the test machine under vmMu alone, build by build: it is one      *)
(* action per question, removal and save, and while it is under way only   *)
(* the steps that take a.mu wait.  Docker, the docker compose client the   *)
(* worker launches, and the build in the container are external processes. *)
(*                                                                         *)
(* A refused request, a poll that finds nothing and a start put off for    *)
(* want of free space change nothing: they are stuttering steps.           *)
(***************************************************************************)
EXTENDS Retention

CONSTANTS
  MaxJobs,          \* builds submitted in one behaviour (bound)
  Targets,          \* the classes of target that get submitted
  MaxCrashes,       \* server crashes (bound)
  MaxFaults,        \* failed Docker calls, writes and launches (bound)
  MaxVms,           \* test machines started (bound)
  VmRequests,       \* the vmStart requests that can be in flight together
  ChildrenSurvive   \* a compose client outlives a crashed server

ASSUME QueueAssumption ==
  /\ MaxJobs \in Nat /\ MaxCrashes \in Nat /\ MaxFaults \in Nat
  /\ MaxVms \in Nat /\ IsFiniteSet(VmRequests)
  /\ Targets \subseteq Classes
  /\ ChildrenSurvive \in BOOLEAN

VARIABLES
  row,        \* the jobs table: one row per build id
  last,       \* ids handed out so far
  disk,       \* what DATA holds of each build: intact job directory, log, artifact files
  container,  \* Docker's container of each build
  compose,    \* running docker compose clients: [job, owned, stage]
  worker,     \* the worker goroutine: where it is, its build, what it read
  up,         \* the server process runs
  prune,      \* the pass of pruneLocked under way: what is next, and the builds left to visit
  vm,         \* build the test machine slot belongs to, 0 if free (a.vm)
  booting,    \* per vmStart request: build it has checked and not yet claimed the slot for
  spent       \* how much of each bound has been used

vars == <<row, last, disk, container, compose, worker, up, prune, vm, booting, spent>>

Ids == 1..MaxJobs

-------------------------------------------------------------------------------
(* Job states (model.go).  "absent": no such row. *)

Terminal  == {"succeeded", "failed", "cancelled"}
Active    == {"starting", "running", "cancelling"}
JobStates == Terminal \cup Active \cup {"absent", "queued"}

NoRow == [state |-> "absent", class |-> "none", fav |-> FALSE, pruned |-> FALSE, arts |-> FALSE]

QueuedRow(class) == [NoRow EXCEPT !.state = "queued", !.class = class]

(* The table with one build's state saved (saveJob). *)
WithState(i, state) == [row EXCEPT ![i].state = state]

ContainerStates == {"missing", "created", "running", "exit0", "exit1"}
Exited          == {"exit0", "exit1"}

Places == {"idle", "inspect", "launch", "unlaunched", "start", "mark",
           "loop", "stop", "look", "finish"}

(* seen: the state in the worker's own copy of the row (j.State before the *)
(* loop, current.State in it); verdict and arts: arguments of finish.      *)
Idle == [at |-> "idle", job |-> 0, seen |-> "absent", verdict |-> "none", arts |-> FALSE]

NoPass == [at |-> "none", left |-> {}]

Budgets == [crashes |-> MaxCrashes, faults |-> MaxFaults, vms |-> MaxVms]

Spend(what) ==
  /\ spent[what] < Budgets[what]
  /\ spent' = [spent EXCEPT ![what] = @ + 1]

Init ==
  /\ row = [i \in Ids |-> NoRow]
  /\ last = 0
  /\ disk = [i \in Ids |-> {}]
  /\ container = [i \in Ids |-> "missing"]
  /\ compose = {}
  /\ worker = Idle
  /\ up = TRUE
  /\ prune = NoPass
  /\ vm = 0
  /\ booting = [q \in VmRequests |-> 0]
  /\ spent = [what \in DOMAIN Budgets |-> 0]

-------------------------------------------------------------------------------
(* Retention *)

(* a.mu is free: no pass of pruneLocked, which main, finish and            *)
(* setFavorite run with the lock held, is under way.                       *)
Unlocked == up /\ prune.at = "none"

(* On to the builds left; after the last one the pass is over, and after   *)
(* the first pass of all the server serves.                                *)
Proceed(left) ==
  /\ prune' = [at |-> IF left = {} THEN "none" ELSE "ask", left |-> left]
  /\ up' = (up \/ left = {})

(* pruneLocked reads the table once, on rows just saved, and visits what   *)
(* fell out of its window and is no favourite; the machine is asked about  *)
(* later, build by build (no build is 0).                                  *)
PruneLocked(rows) == Proceed(Expired(rows, 0))

(* From the newest build to the oldest. *)
Visits(i) == i \in prune.left /\ \A k \in prune.left : k <= i

(* vmHolds: takes vmMu, answers, lets go of it. *)
VmHolds(i) ==
  /\ prune.at = "ask" /\ Visits(i)
  /\ IF vm = i
     THEN Proceed(prune.left \ {i})
     ELSE prune' = [prune EXCEPT !.at = "remove"] /\ UNCHANGED up
  /\ UNCHANGED <<row, last, disk, container, compose, worker, vm, booting, spent>>

(* pruneArtifacts: the files go first ... *)
RemoveFiles(i) ==
  /\ prune.at = "remove" /\ Visits(i)
  /\ disk' = [disk EXCEPT ![i] = @ \ {"files"}]
  /\ prune' = [prune EXCEPT !.at = "save"]
  /\ UNCHANGED <<row, last, container, compose, worker, up, vm, booting, spent>>

(* ... or some of them, and the error is only logged ... *)
RemoveFails(i) ==
  /\ prune.at = "remove" /\ Visits(i)
  /\ Spend("faults")
  /\ disk' \in {disk, [disk EXCEPT ![i] = @ \ {"files"}]}
  /\ Proceed(prune.left \ {i})
  /\ UNCHANGED <<row, last, container, compose, worker, vm, booting>>

(* ... and the row is saved after them. *)
SaveReclaimed(i) ==
  /\ prune.at = "save" /\ Visits(i)
  /\ row' = Reclaimed(row, {i})
  /\ Proceed(prune.left \ {i})
  /\ UNCHANGED <<last, disk, container, compose, worker, vm, booting, spent>>

SaveFails(i) ==
  /\ prune.at = "save" /\ Visits(i)
  /\ Spend("faults")
  /\ Proceed(prune.left \ {i})
  /\ UNCHANGED <<row, last, disk, container, compose, worker, vm, booting>>

PassStep ==
  \E i \in Ids :
    VmHolds(i) \/ RemoveFiles(i) \/ RemoveFails(i) \/ SaveReclaimed(i) \/ SaveFails(i)

-------------------------------------------------------------------------------
(* HTTP handlers *)

(* submit: snapshot, log file and row under one lock section. *)
Submit(class) ==
  /\ Unlocked
  /\ last < MaxJobs
  /\ last' = last + 1
  /\ row' = [row EXCEPT ![last + 1] = QueuedRow(class)]
  /\ disk' = [disk EXCEPT ![last + 1] = {"dir", "log"}]
  /\ UNCHANGED <<container, compose, worker, up, prune, vm, booting, spent>>

(* The row could not be saved: the directory is removed again, the log     *)
(* file is not.                                                            *)
SubmitFails ==
  /\ Unlocked
  /\ last < MaxJobs
  /\ Spend("faults")
  /\ last' = last + 1
  /\ disk' = [disk EXCEPT ![last + 1] = {"log"}]
  /\ UNCHANGED <<row, container, compose, worker, up, prune, vm, booting>>

Cancel(i) ==
  /\ Unlocked
  /\ row[i].state \in Active \cup {"queued"}
  /\ row' = WithState(i, IF row[i].state = "queued" THEN "cancelled" ELSE "cancelling")
  /\ UNCHANGED <<last, disk, container, compose, worker, up, prune, vm, booting, spent>>

(* deleteJob.  The container is inspected first, and a running one refuses *)
(* the request; whether a test machine is booted from the build is not     *)
(* asked.                                                                  *)
Deletable(i) == Unlocked /\ row[i].state \in Terminal /\ container[i] # "running"

DeleteJob(i) ==
  /\ Deletable(i)
  /\ \/ container' = [container EXCEPT ![i] = "missing"] /\ UNCHANGED spent
     \/ UNCHANGED container /\ Spend("faults")      \* docker rm failed: not looked at
  /\ disk' = [disk EXCEPT ![i] = {}]
  /\ row' = [row EXCEPT ![i] = NoRow]
  /\ UNCHANGED <<last, compose, worker, up, prune, vm, booting>>

(* deleteJob stopped by an error, or by a crash, in the job directory or   *)
(* after it, or after the log: the row is the last thing to go.            *)
DeleteInterrupted(i) ==
  /\ Deletable(i)
  /\ container' \in {container, [container EXCEPT ![i] = "missing"]}
  /\ \E gone \in {{"dir"}, {"dir", "files"}, {"dir", "files", "log"}} :
       disk' = [disk EXCEPT ![i] = @ \ gone]
  /\ Spend("faults")
  /\ UNCHANGED <<row, last, compose, worker, up, prune, vm, booting>>

Favoured(i, on) == [row EXCEPT ![i].fav = on]

CanFavour(i, on) ==
  /\ Unlocked
  /\ row[i].state # "absent"
  /\ on => ~ row[i].pruned /\ row[i].state = "succeeded"

SetFavorite_WithoutRetention(i, on) ==
  /\ CanFavour(i, on)
  /\ row' = Favoured(i, on)
  /\ UNCHANGED <<last, disk, container, compose, worker, up, prune, vm, booting, spent>>

(* setFavorite: save the row, be it changed or not, then start a pass.     *)
SetFavorite(i, on) ==
  /\ CanFavour(i, on)
  /\ row' = Favoured(i, on)
  /\ PruneLocked(row')
  /\ UNCHANGED <<last, disk, container, compose, worker, vm, booting, spent>>

(* The same when retention cannot read the table, which is only logged. *)
SetFavoriteUnpruned(i, on) ==
  /\ CanFavour(i, on)
  /\ Spend("faults")
  /\ row' = Favoured(i, on)
  /\ UNCHANGED <<last, disk, container, compose, worker, up, prune, vm, booting>>

-------------------------------------------------------------------------------
(* The test machine, as far as retention sees it (TestVM has the rest):    *)
(* vmStart checks the build under a.mu, lets go of it, and claims the slot *)
(* later.                                                                  *)

VmCheck(q, i) ==
  /\ Unlocked
  /\ booting[q] = 0
  /\ Spend("vms")
  /\ row[i].state = "succeeded" /\ row[i].class = "iso" /\ ~ row[i].pruned
  /\ row[i].arts /\ "files" \in disk[i]
  /\ booting' = [booting EXCEPT ![q] = i]
  /\ UNCHANGED <<row, last, disk, container, compose, worker, up, prune, vm>>

VmClaim(q) ==
  /\ up
  /\ booting[q] # 0
  /\ vm' = IF vm = 0 THEN booting[q] ELSE vm
  /\ booting' = [booting EXCEPT ![q] = 0]
  /\ UNCHANGED <<row, last, disk, container, compose, worker, up, prune, spent>>

VmEnd ==
  /\ up
  /\ vm # 0
  /\ vm' = 0
  /\ UNCHANGED <<row, last, disk, container, compose, worker, up, prune, booting, spent>>

-------------------------------------------------------------------------------
(* The worker goroutine *)

At(place) == up /\ worker.at = place

GoTo(place) == worker' = [worker EXCEPT !.at = place]

(* Call finish(j, verdict) next. *)
ToFinish(verdict, arts) ==
  worker' = [worker EXCEPT !.at = "finish", !.verdict = verdict, !.arts = arts]

UnderWay == {k \in Ids : row[k].state \in Active}
Waiting  == {k \in Ids : row[k].state = "queued"}

Candidates_QueuedFirst == IF Waiting # {} THEN Waiting ELSE UnderWay
Candidates_NotCancelling ==
  LET resumable == {k \in UnderWay : row[k].state # "cancelling"}
  IN IF resumable # {} THEN resumable ELSE Waiting

(* A build that is already under way comes before any queued one. *)
Candidates == IF UnderWay # {} THEN UnderWay ELSE Waiting

(* worker: the oldest candidate; a queued one is marked starting in the    *)
(* same lock section.                                                      *)
Pick(i) ==
  /\ At("idle") /\ Unlocked
  /\ i \in Candidates
  /\ \A k \in Candidates : i <= k
  /\ LET state == IF row[i].state = "queued" THEN "starting" ELSE row[i].state IN
     /\ row' = WithState(i, state)
     /\ worker' = [Idle EXCEPT !.at = "inspect", !.job = i, !.seen = state]
  /\ UNCHANGED <<last, disk, container, compose, up, prune, vm, booting, spent>>

(* run: the first inspection decides between launching, starting, resuming *)
(* and giving up.                                                          *)
FirstInspect ==
  /\ At("inspect")
  /\ LET i == worker.job IN
     \/ /\ container[i] = "missing" /\ worker.seen # "starting"
        /\ ToFinish(IF worker.seen = "cancelling" THEN "cancelled" ELSE "failed", FALSE)
        /\ UNCHANGED compose
     \/ /\ container[i] = "missing" /\ worker.seen = "starting"
        /\ compose' = compose \cup {[job |-> i, owned |-> TRUE, stage |-> "pulling"]}
        /\ GoTo("launch")
     \/ container[i] = "created" /\ GoTo("start") /\ UNCHANGED compose
     \/ container[i] \in {"running"} \cup Exited /\ GoTo("mark") /\ UNCHANGED compose
  /\ UNCHANGED <<row, last, disk, container, up, prune, vm, booting, spent>>

(* Docker did not answer an inspection outside the loop: run returns and   *)
(* the next round of worker picks the same build again.                    *)
InspectFails ==
  /\ At("inspect") \/ At("unlaunched")
  /\ Spend("faults")
  /\ worker' = Idle
  /\ UNCHANGED <<row, last, disk, container, compose, up, prune, vm, booting>>

(* launch polls the table while compose works and kills the client of a    *)
(* build that is being cancelled.                                          *)
CancelLaunch ==
  /\ At("launch")
  /\ row[worker.job].state = "cancelling"
  /\ compose' = {c \in compose : ~ c.owned}
  /\ GoTo("unlaunched")
  /\ UNCHANGED <<row, last, disk, container, up, prune, vm, booting, spent>>

(* The launch failed: look whether there is a container all the same. *)
AfterFailedLaunch ==
  /\ At("unlaunched")
  /\ IF container[worker.job] = "missing" THEN ToFinish("failed", FALSE) ELSE GoTo("mark")
  /\ UNCHANGED <<row, last, disk, container, compose, up, prune, vm, booting, spent>>

(* docker start of a container found created. *)
StartCreated ==
  /\ At("start")
  /\ LET i == worker.job IN
     IF container[i] = "missing"
     THEN ToFinish("failed", FALSE) /\ UNCHANGED container
     ELSE /\ GoTo("mark")
          /\ container' = [container EXCEPT ![i] = "running"]
  /\ UNCHANGED <<row, last, disk, compose, up, prune, vm, booting, spent>>

StartFails ==
  /\ At("start")
  /\ Spend("faults")
  /\ ToFinish("failed", FALSE)
  /\ UNCHANGED <<row, last, disk, container, compose, up, prune, vm, booting>>

MarkRunning_Blind ==
  /\ At("mark") /\ Unlocked
  /\ row' = WithState(worker.job, "running")
  /\ GoTo("loop")
  /\ UNCHANGED <<last, disk, container, compose, up, prune, vm, booting, spent>>

(* Under a.mu: running, unless somebody cancelled meanwhile. *)
MarkRunning ==
  /\ At("mark") /\ Unlocked
  /\ LET i == worker.job IN
     row' = WithState(i, IF row[i].state = "cancelling" THEN "cancelling" ELSE "running")
  /\ GoTo("loop")
  /\ UNCHANGED <<last, disk, container, compose, up, prune, vm, booting, spent>>

(* The row could not be saved, or read in the loop: run returns. *)
RowFails ==
  /\ (At("mark") /\ Unlocked) \/ At("loop")
  /\ Spend("faults")
  /\ worker' = Idle
  /\ UNCHANGED <<row, last, disk, container, compose, up, prune, vm, booting>>

ReadRow_Cached ==
  /\ At("loop")
  /\ worker' = [worker EXCEPT !.at = IF worker.seen = "cancelling" THEN "stop" ELSE "look"]
  /\ UNCHANGED <<row, last, disk, container, compose, up, prune, vm, booting, spent>>

(* Top of the monitoring loop: read the row without the lock. *)
ReadRow ==
  /\ At("loop")
  /\ LET state == row[worker.job].state IN
     worker' = [worker EXCEPT !.seen = state,
                              !.at = IF state = "cancelling" THEN "stop" ELSE "look"]
  /\ UNCHANGED <<row, last, disk, container, compose, up, prune, vm, booting, spent>>

(* docker stop: nothing happens to a container that is not running. *)
StopContainer ==
  /\ At("stop")
  /\ LET i == worker.job IN
     container' \in IF container[i] = "running"
                    THEN {[container EXCEPT ![i] = e] : e \in Exited}
                    ELSE {container}
  /\ GoTo("look")
  /\ UNCHANGED <<row, last, disk, compose, up, prune, vm, booting, spent>>

StopFails ==
  /\ At("stop")
  /\ Spend("faults")
  /\ GoTo("look")
  /\ UNCHANGED <<row, last, disk, container, compose, up, prune, vm, booting>>

(* Inspect, and when the container has exited: wait for the log, decide by *)
(* the state read before the inspection, the exit code, whether the whole  *)
(* log was captured in time, and what collect finds.  The output of a      *)
(* component build is copied out of the shared cache here.  A collect that *)
(* fails after its first find leaves that recorded.                        *)
Look ==
  /\ At("look")
  /\ LET i == worker.job IN
     \/ /\ container[i] = "missing"
        /\ ToFinish("failed", FALSE)
        /\ UNCHANGED disk
     \/ /\ container[i] \in {"created", "running"}
        /\ GoTo("loop")
        /\ UNCHANGED disk
     \/ /\ container[i] \in Exited
        /\ worker.seen = "cancelling"
        /\ ToFinish("cancelled", FALSE)
        /\ UNCHANGED disk
     \/ /\ container[i] \in Exited /\ worker.seen # "cancelling"
        /\ \/ ToFinish("failed", FALSE) /\ UNCHANGED disk
           \/ /\ container[i] = "exit0"
              /\ row[i].class = "iso" => "files" \in disk[i]
              /\ disk' = [disk EXCEPT ![i] = @ \cup {"files"}]
              /\ \E verdict \in {"succeeded", "failed"} : ToFinish(verdict, TRUE)
  /\ UNCHANGED <<row, last, container, compose, up, prune, vm, booting, spent>>

LookFails ==
  /\ At("look")
  /\ Spend("faults")
  /\ GoTo("loop")
  /\ UNCHANGED <<row, last, disk, container, compose, up, prune, vm, booting>>

FinishedRows_FirstReadWins ==
  [row EXCEPT ![worker.job] = [@ EXCEPT !.state = worker.verdict, !.arts = worker.arts]]

(* The table as finish writes it: a cancellation that landed since the     *)
(* worker last looked wins, the artifacts are recorded either way.         *)
FinalState ==
  IF row[worker.job].state = "cancelling" THEN "cancelled" ELSE worker.verdict

FinishedRows ==
  [row EXCEPT ![worker.job] = [@ EXCEPT !.state = FinalState, !.arts = worker.arts]]

(* finish: write the verdict, then start a pass. *)
Finish ==
  /\ At("finish") /\ Unlocked
  /\ row' = FinishedRows
  /\ PruneLocked(row')
  /\ worker' = Idle
  /\ UNCHANGED <<last, disk, container, compose, vm, booting, spent>>

(* Errors are only logged: the row cannot be read, which ends finish, the  *)
(* verdict cannot be saved, or retention cannot read the table.            *)
FinishWithErrors ==
  /\ At("finish") /\ Unlocked
  /\ Spend("faults")
  /\ row' \in {row, FinishedRows}
  /\ \E left \in {{}, Expired(row', 0)} : Proceed(left)
  /\ worker' = Idle
  /\ UNCHANGED <<last, disk, container, compose, vm, booting>>

-------------------------------------------------------------------------------
(* Docker, the compose client and the build *)

(* The client creates the container; a name that is taken is an error. *)
ComposeCreate(c) ==
  /\ c \in compose /\ c.stage = "pulling"
  /\ IF container[c.job] = "missing"
     THEN /\ container' = [container EXCEPT ![c.job] = "created"]
          /\ compose' = (compose \ {c}) \cup {[c EXCEPT !.stage = "created"]}
          /\ UNCHANGED worker
     ELSE /\ compose' = compose \ {c}
          /\ worker' = IF c.owned THEN [worker EXCEPT !.at = "unlaunched"] ELSE worker
          /\ UNCHANGED container
  /\ UNCHANGED <<row, last, disk, up, prune, vm, booting, spent>>

(* It starts the container and ends; launch returns what it returned. *)
ComposeStart(c) ==
  /\ c \in compose /\ c.stage = "created"
  /\ compose' = compose \ {c}
  /\ IF container[c.job] = "missing"
     THEN /\ worker' = IF c.owned THEN [worker EXCEPT !.at = "unlaunched"] ELSE worker
          /\ UNCHANGED container
     ELSE /\ worker' = IF c.owned THEN [worker EXCEPT !.at = "mark"] ELSE worker
          /\ container' = [container EXCEPT ![c.job] = "running"]
  /\ UNCHANGED <<row, last, disk, up, prune, vm, booting, spent>>

(* It fails before either step: the image cannot be pulled, the daemon     *)
(* refuses, the cache directories cannot be prepared.                      *)
ComposeFails(c) ==
  /\ c \in compose
  /\ Spend("faults")
  /\ compose' = compose \ {c}
  /\ worker' = IF c.owned THEN [worker EXCEPT !.at = "unlaunched"] ELSE worker
  /\ UNCHANGED <<row, last, disk, container, up, prune, vm, booting>>

(* An ISO build writes into its own output directory, mounted in the       *)
(* container; the others write into the shared cache.                      *)
BuildWrites(i) ==
  /\ container[i] = "running"
  /\ row[i].class = "iso" /\ "dir" \in disk[i]
  /\ disk' = [disk EXCEPT ![i] = @ \cup {"files"}]
  /\ UNCHANGED <<row, last, container, compose, worker, up, prune, vm, booting, spent>>

ContainerExits(i) ==
  /\ container[i] = "running"
  /\ \E e \in Exited : container' = [container EXCEPT ![i] = e]
  /\ UNCHANGED <<row, last, disk, compose, worker, up, prune, vm, booting, spent>>

(* Somebody removes the container outside the manager. *)
ExternalRemove(i) ==
  /\ container[i] # "missing"
  /\ Spend("faults")
  /\ container' = [container EXCEPT ![i] = "missing"]
  /\ UNCHANGED <<row, last, disk, compose, worker, up, prune, vm, booting>>

-------------------------------------------------------------------------------
(* Crash and restart *)

(* At any point, in the middle of a pass and of main's first one too. *)
Crash ==
  /\ up \/ prune # NoPass
  /\ Spend("crashes")
  /\ up' = FALSE
  /\ worker' = Idle
  /\ prune' = NoPass
  /\ vm' = 0
  /\ booting' = [q \in VmRequests |-> 0]
  /\ \E kept \in {{}} \cup (IF ChildrenSurvive THEN {compose} ELSE {}) :
       compose' = {[c EXCEPT !.owned = FALSE] : c \in kept}
  /\ UNCHANGED <<row, last, disk, container>>

Down == ~ up /\ prune = NoPass

Restart_WithoutRetention ==
  /\ Down
  /\ up' = TRUE
  /\ UNCHANGED <<row, last, disk, container, compose, worker, prune, vm, booting, spent>>

(* main: retention before the worker and the listener exist. *)
Restart ==
  /\ Down
  /\ PruneLocked(row)
  /\ UNCHANGED <<row, last, disk, container, compose, worker, vm, booting, spent>>

(* It could not read the table. *)
RestartUnpruned ==
  /\ Down
  /\ Spend("faults")
  /\ up' = TRUE
  /\ UNCHANGED <<row, last, disk, container, compose, worker, prune, vm, booting>>

-------------------------------------------------------------------------------

Request ==
  \/ \E class \in Targets : Submit(class)
  \/ SubmitFails
  \/ \E i \in Ids :
       \/ Cancel(i) \/ DeleteJob(i) \/ DeleteInterrupted(i)
       \/ \E on \in BOOLEAN : SetFavorite(i, on) \/ SetFavoriteUnpruned(i, on)
       \/ \E q \in VmRequests : VmCheck(q, i)
  \/ \E q \in VmRequests : VmClaim(q)
  \/ VmEnd

WorkerStep ==
  \/ \E i \in Ids : Pick(i)
  \/ FirstInspect \/ InspectFails \/ CancelLaunch \/ AfterFailedLaunch
  \/ StartCreated \/ StartFails \/ MarkRunning \/ RowFails
  \/ ReadRow \/ StopContainer \/ StopFails \/ Look \/ LookFails
  \/ Finish \/ FinishWithErrors

ComposeStep == \E c \in compose : ComposeCreate(c) \/ ComposeStart(c) \/ ComposeFails(c)

Next ==
  \/ Request \/ WorkerStep \/ PassStep \/ ComposeStep
  \/ \E i \in Ids : BuildWrites(i) \/ ContainerExits(i) \/ ExternalRemove(i)
  \/ Crash \/ Restart \/ RestartUnpruned

Spec == Init /\ [][Next]_vars

(* The worker is a goroutine that never stops while the server is up, a    *)
(* pass goes on to its end, and the service manager restarts the server    *)
(* (Restart=on-failure).  That Pick is taken at all assumes the disk does  *)
(* not stay full for ever.                                                 *)
ManagerFairness == WF_vars(WorkerStep) /\ WF_vars(PassStep) /\ WF_vars(Restart)

(* Compose reaches a result and a build ends by itself: assumptions about  *)
(* Docker and the build scripts, which nothing in the manager enforces.    *)
BuildFairness ==
  /\ WF_vars(ComposeStep)
  /\ \A i \in Ids : WF_vars(ContainerExits(i))

ManagerSpec == Spec /\ ManagerFairness

-------------------------------------------------------------------------------
(* Type correctness: the shape of the jobs table, of the worker's locals   *)
(* and of what Docker and the disk hold.                                   *)

Rows == [state : JobStates, class : Classes \cup {"none"},
         fav : BOOLEAN, pruned : BOOLEAN, arts : BOOLEAN]

Clients == [job : Ids, owned : BOOLEAN, stage : {"pulling", "created"}]

Workers == [at : Places, job : Ids \cup {0}, seen : JobStates,
            verdict : Terminal \cup {"none"}, arts : BOOLEAN]

Passes == [at : {"none", "ask", "remove", "save"}, left : SUBSET Ids]

TypeOK ==
  /\ row \in [Ids -> Rows]
  /\ last \in 0..MaxJobs
  /\ disk \in [Ids -> SUBSET {"dir", "log", "files"}]
  /\ container \in [Ids -> ContainerStates]
  /\ compose \in SUBSET Clients
  /\ worker \in Workers
  /\ up \in BOOLEAN
  /\ prune \in Passes
  /\ vm \in Ids \cup {0}
  /\ booting \in [VmRequests -> Ids \cup {0}]
  /\ spent \in [DOMAIN Budgets -> Nat]

-------------------------------------------------------------------------------
(* The inductive invariant of the queue, in parts *)

(* Builds beyond the last id handed out have no row. *)
NoneAhead == \A i \in Ids : i > last => row[i].state = "absent"

(* At most one build is under way. *)
SingleActive ==
  \A i, k \in Ids : row[i].state \in Active /\ row[k].state \in Active => i = k

(* What the worker acts on is not stale where it matters, although it read *)
(* it some steps ago: its build is still under way, a cancellation it saw  *)
(* still stands, and it reports "cancelled" only for a build that is being *)
(* cancelled (run, finish).                                                *)
WorkerSound ==
  /\ worker.at # "idle" =>
       /\ up
       /\ worker.job \in Ids
       /\ row[worker.job].state \in Active
       /\ worker.seen = "cancelling" => row[worker.job].state = "cancelling"
  /\ worker.at = "finish" =>
       /\ worker.verdict \in Terminal
       /\ worker.verdict = "cancelled" => row[worker.job].state = "cancelling"

(* The worker waits for at most one compose client, that of its build. *)
ClientsSound ==
  /\ \A c \in compose : c.owned => worker.at = "launch" /\ c.job = worker.job
  /\ \A c, d \in compose : c.owned /\ d.owned => c = d

IInv == TypeOK /\ NoneAhead /\ SingleActive /\ WorkerSound /\ ClientsSound

(* Where containers run, if no compose client outlives the server: only    *)
(* for the build that is under way, and not once the worker gave it up.    *)
ContainersSound ==
  /\ \A i \in Ids : container[i] = "running" => row[i].state \in Active
  /\ worker.at \in {"start", "finish"} => container[worker.job] # "running"
  /\ \A c \in compose : c.owned

-------------------------------------------------------------------------------
(* The queue *)

StatusOf(state) ==
  CASE state \in {"starting", "running"} -> "building"
    [] state = "cancelling" -> "stopping"
    [] OTHER -> state

Status == [i \in Ids |-> StatusOf(row[i].state)]

Lifecycle == INSTANCE BuildLifecycle WITH status <- Status, accepted <- last

(* The table, seen without containers, worker and crashes, behaves as the  *)
(* queue BuildLifecycle describes: one build at a time, oldest first,      *)
(* verdicts final, a cancelled build cancelled (worker, cancel, finish,    *)
(* run and deleteJob together).                                            *)
LifecycleSpec == Lifecycle!Spec

(* At most one build container runs, and only for a build the table says   *)
(* is under way: no build compiles behind the queue's back after its row   *)
(* is final (worker, run, deleteJob; README: one job at a time).           *)
OneBuildAtATime ==
  \A i \in Ids : container[i] = "running" =>
     /\ row[i].state \in Active
     /\ \A k \in Ids : container[k] = "running" => k = i

(* A cancellation takes effect whatever compose and the build do: the      *)
(* build ends up cancelled (cancel, launch, run, finish).                  *)
CancelTakesEffect ==
  \A i \in Ids : row[i].state = "cancelling" ~> row[i].state \in {"cancelled", "absent"}

(* The same, except for the one way to get stuck: a container that was     *)
(* created and is never started.                                           *)
CancelEndsOrSticks ==
  \A i \in Ids :
    [](row[i].state = "cancelling" =>
         <>(row[i].state \in {"cancelled", "absent"} \/ [](container[i] = "created")))

(* Every accepted build ends, in turn, if compose comes to a result and    *)
(* builds end at all -- with the same exception, which blocks the whole    *)
(* queue (worker, run).                                                    *)
BuildsEndOrStick ==
  BuildFairness =>
    \A i \in Ids :
      [](row[i].state = "queued" =>
           <>(\/ row[i].state \in Terminal \cup {"absent"}
              \/ \E k \in Ids : [](container[k] = "created" /\ row[k].state \in Active)))

-------------------------------------------------------------------------------
(* Retention *)

(* The files a build lists can be downloaded, all but those of the one     *)
(* build whose row the pass under way is about to save: pruneArtifacts     *)
(* removes files before it saves the row, and a crash between the two is   *)
(* repaired before anybody is served.  A build whose deletion was cut      *)
(* short has lost its directory and does not count.                        *)
ListedArtifactsExist ==
  up => \A i \in Ids :
    row[i].arts /\ "dir" \in disk[i] =>
      "files" \in disk[i] \/ (prune.at = "save" /\ Visits(i))

(* Retention never takes the files of a favourite or of one of the newest  *)
(* KeepBuilds of its class, however finishing, pinning, crashing and       *)
(* restarting interleave.                                                  *)
RetentionSpares ==
  [][\A i \in Ids :
       "files" \in disk[i] /\ "files" \notin disk'[i] /\ "dir" \in disk'[i] =>
         /\ ~ row'[i].fav
         /\ KeepBuilds <= Cardinality(Newer(row', i))]_vars

(* "A build being booted right now keeps its files": retention does not    *)
(* take those of the build the machine slot belongs to (retention.go:56).  *)
MachineKeepsImage ==
  [][\A i \in Ids :
       "files" \in disk[i] /\ "files" \notin disk'[i] /\ "dir" \in disk'[i] => i # vm]_vars

(* And it does reclaim: once a pass is over a class keeps, outside         *)
(* favourites, KeepBuilds builds at most, plus those a test machine was    *)
(* booted from when the pass asked about them: the one of before the pass  *)
(* and, as it ends and others claim the slot, one per request that had     *)
(* made its check before the pass began (finish, setFavorite, main,        *)
(* vmStart).                                                               *)
Spareable ==
  IF MaxVms <= Cardinality(VmRequests) THEN MaxVms ELSE 1 + Cardinality(VmRequests)

WindowBounded ==
  Unlocked => \A c \in Classes :
    Cardinality({i \in Ids : Occupies(row, i) /\ row[i].class = c /\ ~ row[i].fav})
      <= KeepBuilds + Spareable

(* Only succeeded builds keep artifacts (README, Build behavior).          *)
ArtifactsOnlyOfSucceeded ==
  \A i \in Ids : row[i].arts => row[i].state = "succeeded"
===============================================================================
