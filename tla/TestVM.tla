------------------------------- MODULE TestVM ---------------------------------
(***************************************************************************)
(* The single test machine (webui/vm.go): a finished ISO booted in QEMU    *)
(* inside a container.  One slot, a.vm, guarded by vmMu; everything slow   *)
(* (docker run, port, inspect, stop, rm) happens without the lock.  The    *)
(* goroutines are vmStart, the vmWatch it leaves behind, and any number of *)
(* vmFinish calls made by these two and by vmStop; each is one action per  *)
(* lock section or Docker call.  Whether a build may be booted, and what   *)
(* retention does meanwhile, is in BuildQueue.                             *)
(***************************************************************************)
EXTENDS Integers, FiniteSets

CONSTANTS
  MaxSessions,    \* machines started in one behaviour (bound)
  MaxViewers,     \* consoles open at once (bound)
  MaxFaults,      \* failed or timed out Docker calls (bound)
  MaxCrashes,     \* server exits, orderly or not (bound)
  MaxEarlyStops   \* stop requests to a machine that is still starting (bound)

ASSUME VmAssumption ==
  /\ MaxSessions \in Nat /\ MaxViewers \in Nat
  /\ MaxFaults \in Nat /\ MaxCrashes \in Nat
  /\ MaxEarlyStops \in Nat

VARIABLES
  slot,       \* session holding a.vm, 0 if free
  shown,      \* the session that ended last (a.vmLast), 0 if none
  state,      \* VM.State of each session, "none" before it exists
  box,        \* does the session's container run?
  start,      \* where the vmStart call of each session is
  watch,      \* where the vmWatch goroutine of each session is
  empty,      \* what vmWatch last read: nobody watches
  finishing,  \* vmFinish calls under way: [session, why, at]
  viewers,    \* consoles open on each session
  aged,       \* a watched session is past the four-hour limit
  up,         \* the server runs
  spent       \* how much of each bound has been used

vars == <<slot, shown, state, box, start, watch, empty, finishing, viewers, aged, up, spent>>

Sessions == 1..MaxSessions

Limits == [faults |-> MaxFaults, crashes |-> MaxCrashes, early |-> MaxEarlyStops]

Spend(what) ==
  /\ spent[what] < Limits[what]
  /\ spent' = [spent EXCEPT ![what] = @ + 1]

Init ==
  /\ slot = 0
  /\ shown = 0
  /\ state = [s \in Sessions |-> "none"]
  /\ box = [s \in Sessions |-> FALSE]
  /\ start = [s \in Sessions |-> "new"]
  /\ watch = [s \in Sessions |-> "off"]
  /\ empty = [s \in Sessions |-> FALSE]
  /\ finishing = {}
  /\ viewers = [s \in Sessions |-> 0]
  /\ aged = [s \in Sessions |-> FALSE]
  /\ up = TRUE
  /\ spent = [what \in DOMAIN Limits |-> 0]

-------------------------------------------------------------------------------
(* vmStart and vmLaunch *)

Move(s, from, to) == up /\ start[s] = from /\ start' = [start EXCEPT ![s] = to]

(* vmFinish(vm, why) is called. *)
CallFinish(s, why) == finishing' = finishing \cup {[session |-> s, why |-> why, at |-> "begin"]}

Claim(s) ==
  /\ Move(s, "new", "run")
  /\ slot = 0
  /\ slot' = s
  /\ state' = [state EXCEPT ![s] = "starting"]
  /\ UNCHANGED <<shown, box, watch, empty, finishing, viewers, aged, up, spent>>

(* docker run. *)
DockerRun(s) ==
  /\ Move(s, "run", "wait")
  /\ box' = [box EXCEPT ![s] = TRUE]
  /\ UNCHANGED <<slot, shown, state, watch, empty, finishing, viewers, aged, up, spent>>

(* docker run fails, or its client is killed -- the browser went away, the *)
(* 90 seconds are over -- after the daemon has started the container.      *)
DockerRunFails(s) ==
  /\ Move(s, "run", "done")
  /\ \E started \in BOOLEAN :
       /\ box' = [box EXCEPT ![s] = started]
       /\ IF started THEN Spend("faults") ELSE UNCHANGED spent
  /\ CallFinish(s, "launch")
  /\ UNCHANGED <<slot, shown, state, watch, empty, viewers, aged, up>>

ConsoleAnswers(s) ==
  /\ Move(s, "wait", "mark")
  /\ box[s]
  /\ UNCHANGED <<slot, shown, state, box, watch, empty, finishing, viewers, aged, up, spent>>

(* No port, no console within 30 seconds, or the container is gone. *)
ConsoleFails(s) ==
  /\ Move(s, "wait", "done")
  /\ CallFinish(s, "launch")
  /\ UNCHANGED <<slot, shown, state, box, watch, empty, viewers, aged, up, spent>>

(* The launch succeeded: running, whatever became of the slot meanwhile. *)
MarkRunning(s) ==
  /\ Move(s, "mark", "done")
  /\ state' = [state EXCEPT ![s] = "running"]
  /\ watch' = [watch EXCEPT ![s] = "sleep"]
  /\ UNCHANGED <<slot, shown, box, empty, finishing, viewers, aged, up, spent>>

-------------------------------------------------------------------------------
(* vmFinish *)

Advance(f, to) == finishing' = (finishing \ {f}) \cup {[f EXCEPT !.at = to]}

FinishBegin_ReleasesFirst(f) ==
  /\ up /\ f \in finishing /\ f.at = "begin"
  /\ state' = IF slot = f.session THEN [state EXCEPT ![slot] = "stopping"] ELSE state
  /\ slot' = IF slot = f.session THEN 0 ELSE slot
  /\ Advance(f, "docker")
  /\ UNCHANGED <<shown, box, start, watch, empty, viewers, aged, up, spent>>

FinishBegin(f) ==
  /\ up /\ f \in finishing /\ f.at = "begin"
  /\ state' = IF slot = f.session THEN [state EXCEPT ![slot] = "stopping"] ELSE state
  /\ Advance(f, "docker")
  /\ UNCHANGED <<slot, shown, box, start, watch, empty, viewers, aged, up, spent>>

(* docker stop, docker rm --force. *)
FinishDocker(f) ==
  /\ up /\ f \in finishing /\ f.at = "docker"
  /\ box' = [box EXCEPT ![f.session] = FALSE]
  /\ Advance(f, "release")
  /\ UNCHANGED <<slot, shown, state, start, watch, empty, viewers, aged, up, spent>>

FinishDockerFails_GivesUp(f) ==
  /\ up /\ f \in finishing /\ f.at = "docker"
  /\ Spend("faults")
  /\ finishing' = finishing \ {f}
  /\ UNCHANGED <<slot, shown, state, box, start, watch, empty, viewers, aged, up>>

(* Both fail or time out; their results are not looked at. *)
FinishDockerFails(f) ==
  /\ up /\ f \in finishing /\ f.at = "docker"
  /\ Spend("faults")
  /\ Advance(f, "release")
  /\ UNCHANGED <<slot, shown, state, box, start, watch, empty, viewers, aged, up>>

FinishRelease_StateKept(f) ==
  /\ up /\ f \in finishing /\ f.at = "release"
  /\ slot' = IF slot = f.session THEN 0 ELSE slot
  /\ shown' = f.session
  /\ finishing' = finishing \ {f}
  /\ UNCHANGED <<state, box, start, watch, empty, viewers, aged, up, spent>>

FinishRelease(f) ==
  /\ up /\ f \in finishing /\ f.at = "release"
  /\ slot' = IF slot = f.session THEN 0 ELSE slot
  /\ state' = [state EXCEPT ![f.session] = "stopped"]
  /\ shown' = f.session
  /\ finishing' = finishing \ {f}
  /\ UNCHANGED <<box, start, watch, empty, viewers, aged, up, spent>>

-------------------------------------------------------------------------------
(* vmWatch: one round reads the slot and the viewers under the lock, then  *)
(* asks Docker, then decides on what it read.                              *)

WatchTick(s) ==
  /\ up /\ watch[s] = "sleep"
  /\ IF slot # s
     THEN watch' = [watch EXCEPT ![s] = "off"] /\ UNCHANGED empty
     ELSE /\ watch' = [watch EXCEPT ![s] = "probe"]
          /\ empty' = [empty EXCEPT ![s] = viewers[s] = 0]
  /\ UNCHANGED <<slot, shown, state, box, start, finishing, viewers, aged, up, spent>>

Give(s, why) ==
  /\ watch' = [watch EXCEPT ![s] = "off"]
  /\ empty' = [empty EXCEPT ![s] = FALSE]
  /\ aged' = [aged EXCEPT ![s] = FALSE]
  /\ CallFinish(s, why)

(* The machine is gone, or Docker did not answer in time. *)
WatchDead(s) ==
  /\ up /\ watch[s] = "probe"
  /\ IF box[s] THEN Spend("faults") ELSE UNCHANGED spent
  /\ Give(s, "ended")
  /\ UNCHANGED <<slot, shown, state, box, start, viewers, up>>

(* Half an hour with nobody watching, or a quarter of one in which no      *)
(* browser polled.  How long it has been is left open.                     *)
WatchIdle(s) ==
  /\ up /\ watch[s] = "probe" /\ box[s]
  /\ \/ empty[s] /\ Give(s, "idle")
     \/ Give(s, "ended")
  /\ UNCHANGED <<slot, shown, state, box, start, viewers, up, spent>>

WatchLimit(s) ==
  /\ up /\ watch[s] = "probe" /\ box[s] /\ aged[s]
  /\ Give(s, "ended")
  /\ UNCHANGED <<slot, shown, state, box, start, viewers, up, spent>>

WatchOn(s) ==
  /\ up /\ watch[s] = "probe" /\ box[s] /\ ~ aged[s]
  /\ watch' = [watch EXCEPT ![s] = "sleep"]
  /\ UNCHANGED <<slot, shown, state, box, start, empty, finishing, viewers, aged, up, spent>>

Watch(s) == WatchTick(s) \/ WatchDead(s) \/ WatchIdle(s) \/ WatchLimit(s) \/ WatchOn(s)

-------------------------------------------------------------------------------
(* Handlers, the guest, the clock *)

(* vmStop reads the slot and calls vmFinish after letting go of the lock.  *)
(* Two stop requests for the same session at once are left out (bound).    *)
StopRequest ==
  /\ up /\ slot # 0
  /\ \A f \in finishing : f.session = slot => f.why # "user"
  /\ IF state[slot] = "starting" THEN Spend("early") ELSE UNCHANGED spent
  /\ CallFinish(slot, "user")
  /\ UNCHANGED <<slot, shown, state, box, start, watch, empty, viewers, aged, up>>

(* vmConsole, until the browser closes its socket. *)
Connect ==
  /\ up /\ slot # 0 /\ state[slot] = "running" /\ viewers[slot] < MaxViewers
  /\ viewers' = [viewers EXCEPT ![slot] = @ + 1]
  /\ UNCHANGED <<slot, shown, state, box, start, watch, empty, finishing, aged, up, spent>>

Disconnect(s) ==
  /\ up /\ viewers[s] > 0
  /\ viewers' = [viewers EXCEPT ![s] = @ - 1]
  /\ UNCHANGED <<slot, shown, state, box, start, watch, empty, finishing, aged, up, spent>>

GuestEnds(s) ==
  /\ box[s]
  /\ box' = [box EXCEPT ![s] = FALSE]
  /\ UNCHANGED <<slot, shown, state, start, watch, empty, finishing, viewers, aged, up, spent>>

FourHoursPass(s) ==
  /\ watch[s] # "off" /\ ~ aged[s]
  /\ aged' = [aged EXCEPT ![s] = TRUE]
  /\ UNCHANGED <<slot, shown, state, box, start, watch, empty, finishing, viewers, up, spent>>

-------------------------------------------------------------------------------
(* Exit and restart *)

(* The process is gone with its goroutines; a docker run that was under    *)
(* way may still have started its container.  An orderly exit first stops  *)
(* every machine it finds (vmWatch and reapVMs).                           *)
Exit ==
  /\ up
  /\ Spend("crashes")
  /\ up' = FALSE
  /\ \E orderly \in BOOLEAN, late \in SUBSET {s \in Sessions : start[s] = "run"} :
       box' = [s \in Sessions |-> s \in late \/ (box[s] /\ ~ orderly)]
  /\ slot' = 0
  /\ shown' = 0
  /\ start' = [s \in Sessions |-> IF start[s] = "new" THEN "new" ELSE "done"]
  /\ watch' = [s \in Sessions |-> "off"]
  /\ finishing' = {}
  /\ viewers' = [s \in Sessions |-> 0]
  /\ UNCHANGED <<state, empty, aged>>

(* main: reapVMs before the listener exists.  It gives up silently when the *)
(* containers cannot be listed and skips those it cannot remove.           *)
Restart ==
  /\ ~ up
  /\ up' = TRUE
  /\ \/ box' = [s \in Sessions |-> FALSE] /\ UNCHANGED spent
     \/ /\ \E left \in SUBSET {s \in Sessions : box[s]} :
             left # {} /\ box' = [s \in Sessions |-> s \in left]
        /\ Spend("faults")
  /\ UNCHANGED <<slot, shown, state, start, watch, empty, finishing, viewers, aged>>

-------------------------------------------------------------------------------

Start(s) ==
  \/ DockerRun(s) \/ DockerRunFails(s) \/ ConsoleAnswers(s) \/ ConsoleFails(s) \/ MarkRunning(s)

Finish(f) ==
  FinishBegin(f) \/ FinishDocker(f) \/ FinishDockerFails(f) \/ FinishRelease(f)

Next ==
  \/ \E s \in Sessions :
       \/ Claim(s) \/ Start(s) \/ Watch(s)
       \/ Disconnect(s) \/ GuestEnds(s) \/ FourHoursPass(s)
  \/ \E f \in finishing : Finish(f)
  \/ StopRequest \/ Connect
  \/ Exit \/ Restart

Spec == Init /\ [][Next]_vars

FinishCalls ==
  [session : Sessions, why : {"launch", "ended", "idle", "user"},
   at : {"begin", "docker", "release"}]

(* Goroutines run, every Docker call has a timeout, and four hours pass.   *)
(* Nobody has to ask for a stop, and the guest need not end by itself.     *)
Fairness ==
  /\ \A s \in Sessions : WF_vars(Start(s)) /\ WF_vars(Watch(s)) /\ WF_vars(FourHoursPass(s))
  /\ \A s \in Sessions : WF_vars(\E f \in finishing : f.session = s /\ Finish(f))

FairSpec == Spec /\ Fairness

-------------------------------------------------------------------------------
(* Type correctness: the slot, the goroutines of every session and the     *)
(* containers.                                                             *)
TypeOK ==
  /\ slot \in 0..MaxSessions /\ shown \in 0..MaxSessions
  /\ state \in [Sessions -> {"none", "starting", "running", "stopping", "stopped"}]
  /\ box \in [Sessions -> BOOLEAN]
  /\ start \in [Sessions -> {"new", "run", "wait", "mark", "done"}]
  /\ watch \in [Sessions -> {"off", "sleep", "probe"}]
  /\ empty \in [Sessions -> BOOLEAN]
  /\ finishing \subseteq FinishCalls
  /\ viewers \in [Sessions -> 0..MaxViewers]
  /\ aged \in [Sessions -> BOOLEAN]
  /\ up \in BOOLEAN
  /\ spent \in [DOMAIN Limits -> Nat]

(* A machine that runs is the one the slot holds: there is one at a time,  *)
(* it can be seen and stopped, its limits are enforced and retention knows *)
(* which ISO it reads (vmStart, vmFinish, reapVMs; README: one machine at  *)
(* a time).                                                                *)
OneMachine == up => \A s \in Sessions : box[s] => slot = s

(* That, across restarts and every way a session ends, as long as no stop  *)
(* came before the machine ran and no Docker call failed (vmFinish stops   *)
(* the container before it lets go of the slot).                           *)
OneMachineInOrder == spent.early = 0 /\ spent.faults = 0 => OneMachine

(* With the slot free the browser is never told that a machine runs        *)
(* (vmView shows a.vmLast then), unless a stop came before it ran: vmStart *)
(* then marks the stopped session running.                                 *)
ViewHonest ==
  up /\ spent.early = 0 /\ slot = 0 /\ shown # 0 => state[shown] = "stopped"

(* The slot is always released again, whatever Docker does (vmFinish:      *)
(* "a slot that is never released wedges the feature until a restart").    *)
SlotReleased == \A s \in Sessions : slot = s ~> slot # s

(* A machine is stopped for want of viewers only if nobody is watching it  *)
(* when that is decided (vmWatch; README: after 30 minutes with nobody     *)
(* watching).                                                              *)
IdleMeansUnwatched ==
  [][\A s \in Sessions :
       LET idle == [session |-> s, why |-> "idle", at |-> "begin"] IN
       idle \in finishing' \ finishing => viewers[s] = 0]_vars
===============================================================================
