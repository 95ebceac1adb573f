---------------------------- MODULE TestVMProofs ----------------------------
(***************************************************************************)
(* Theorems about TestVM for any number of sessions, viewers, failed calls,*)
(* server exits and early stops.                                           *)
(***************************************************************************)
EXTENDS TestVM, TLAPS

Launching == {"run", "wait", "mark"}

\* A session that was not started yet, and a server that is down, have nothing
\* under way; a watch begins when its start is done.
Quiet ==
  /\ \A s \in Sessions : start[s] = "new" =>
       slot # s /\ \A f \in finishing : f.session # s
  /\ \A s \in Sessions : watch[s] # "off" => start[s] = "done"
  /\ ~up => slot = 0 /\ shown = 0 /\ finishing = {} /\ \A s \in Sessions : start[s] \in {"new", "done"}

\* Without early stops a machine that is being launched has the slot, and nobody
\* is finishing it.
Launches == spent.early = 0 =>
  \A s \in Sessions : start[s] \in Launching =>
    slot = s /\ state[s] = "starting" /\ \A f \in finishing : f.session # s

\* Without failed calls as well, a machine is gone before its slot is released.
Removed == spent.early = 0 /\ spent.faults = 0 =>
  \A f \in finishing : f.at = "release" => ~box[f.session]

Inv == TypeOK /\ Quiet /\ Launches /\ Removed /\ OneMachineInOrder /\ ViewHonest

LEMMA Constants ==
  /\ DOMAIN Limits = {"faults", "crashes", "early"}
  /\ MaxSessions \in Nat /\ MaxViewers \in Nat /\ 0 \notin Sessions
  /\ Sessions \subseteq 0 .. MaxSessions
  BY VmAssumption DEF Limits, Sessions

\* What has been used of a bound only grows.
LEMMA SpendTyped ==
  ASSUME TypeOK, NEW what \in DOMAIN Limits, Spend(what)
  PROVE  /\ spent' \in [DOMAIN Limits -> Nat]
         /\ spent'[what] # 0
         /\ \A w \in DOMAIN Limits : spent'[w] = 0 => spent[w] = 0
  BY DEF Spend, TypeOK

LEMMA CallTyped ==
  ASSUME NEW s \in Sessions, NEW why \in {"launch", "ended", "idle", "user"},
         CallFinish(s, why), finishing \subseteq FinishCalls
  PROVE  /\ finishing' \subseteq FinishCalls
         /\ \A f \in finishing' : f \in finishing \/ (f.session = s /\ f.at = "begin")
  BY DEF CallFinish, FinishCalls

LEMMA AdvanceTyped ==
  ASSUME NEW f \in finishing, NEW to \in {"docker", "release"},
         Advance(f, to), finishing \subseteq FinishCalls
  PROVE  /\ finishing' \subseteq FinishCalls
         /\ \A g \in finishing' : \/ g \in finishing
                                  \/ g.session = f.session /\ g.at = to
         /\ \A g \in finishing' : \E h \in finishing : g.session = h.session
  BY DEF Advance, FinishCalls

LEMMA InvInit == Init => Inv
  BY Constants DEF Init, Inv, TypeOK, Quiet, Launches, Removed, OneMachineInOrder,
                   OneMachine, ViewHonest, Launching

(***************************************************************************)
(* vmStart                                                                 *)
(***************************************************************************)
LEMMA InvStart ==
  ASSUME Inv, NEW s \in Sessions, Claim(s) \/ Start(s)
  PROVE  Inv'
  <1> USE Constants DEF Inv, TypeOK, Quiet, Launches, Removed, OneMachineInOrder, OneMachine,
                        ViewHonest, Launching, Move
  <1>1. CASE Claim(s)
    BY <1>1 DEF Claim
  <1>2. CASE DockerRun(s)
    BY <1>2 DEF DockerRun
  <1>3. CASE DockerRunFails(s)
    <2>1. /\ finishing' \subseteq FinishCalls
          /\ \A f \in finishing' : f \in finishing \/ (f.session = s /\ f.at = "begin")
      BY <1>3, CallTyped DEF DockerRunFails
    <2>2. PICK started \in BOOLEAN :
            /\ box' = [box EXCEPT ![s] = started]
            /\ IF started THEN Spend("faults") ELSE UNCHANGED spent
      BY <1>3 DEF DockerRunFails
    <2>3. /\ spent' \in [DOMAIN Limits -> Nat]
          /\ started => spent'["faults"] # 0
          /\ \A w \in DOMAIN Limits : spent'[w] = 0 => spent[w] = 0
      BY <2>2, SpendTyped
    <2> QED BY <1>3, <2>1, <2>2, <2>3 DEF DockerRunFails
  <1>4. CASE ConsoleAnswers(s)
    BY <1>4 DEF ConsoleAnswers
  <1>5. CASE ConsoleFails(s)
    <2>1. /\ finishing' \subseteq FinishCalls
          /\ \A f \in finishing' : f \in finishing \/ (f.session = s /\ f.at = "begin")
      BY <1>5, CallTyped DEF ConsoleFails
    <2> QED BY <1>5, <2>1 DEF ConsoleFails
  <1>6. CASE MarkRunning(s)
    BY <1>6 DEF MarkRunning
  <1> QED BY <1>1, <1>2, <1>3, <1>4, <1>5, <1>6 DEF Start

(***************************************************************************)
(* vmFinish                                                                *)
(***************************************************************************)
LEMMA ReleaseKeeps ==
  ASSUME Inv, NEW f \in finishing, FinishRelease(f)
  PROVE  Inv'
  <1>1. finishing' \subseteq finishing /\ up /\ f.at = "release"
    BY DEF FinishRelease
  <1>2. /\ slot' = IF slot = f.session THEN 0 ELSE slot
        /\ state' = [state EXCEPT ![f.session] = "stopped"]
        /\ shown' = f.session
        /\ UNCHANGED <<box, start, watch, empty, viewers, aged, up, spent>>
    BY DEF FinishRelease
  <1>3. f.session \in Sessions /\ f.session \in 0 .. MaxSessions
    BY Constants DEF Inv, TypeOK, FinishCalls
  <1>4. start[f.session] # "new"
    BY <1>3 DEF Inv, Quiet
  <1>5. TypeOK'
    BY <1>1, <1>2, <1>3, Constants DEF Inv, TypeOK
  <1>6. Quiet'
    BY <1>1, <1>2, <1>3, <1>4, Constants DEF Inv, Quiet
  <1>7. Launches'
    BY <1>1, <1>2, <1>3, Constants DEF Inv, TypeOK, Launches, Launching
  <1>8. Removed'
    BY <1>1, <1>2 DEF Inv, Removed
  <1>9. OneMachineInOrder'
    BY <1>1, <1>2 DEF Inv, Removed, OneMachineInOrder, OneMachine
  <1>10. ViewHonest'
    BY <1>2, <1>3 DEF Inv, TypeOK, ViewHonest
  <1> QED BY <1>5, <1>6, <1>7, <1>8, <1>9, <1>10 DEF Inv

LEMMA InvFinish ==
  ASSUME Inv, NEW f \in finishing, Finish(f)
  PROVE  Inv'
  <1> USE Constants DEF Inv, TypeOK, Quiet, Launches, Removed, OneMachineInOrder, OneMachine,
                        ViewHonest, Launching
  <1>0. f.session \in Sessions
    BY DEF FinishCalls
  <1>1. CASE FinishBegin(f)
    BY <1>0, <1>1, AdvanceTyped DEF FinishBegin
  <1>2. CASE FinishDocker(f)
    BY <1>0, <1>2, AdvanceTyped DEF FinishDocker
  <1>3. CASE FinishDockerFails(f)
    BY <1>0, <1>3, AdvanceTyped, SpendTyped DEF FinishDockerFails
  <1>4. CASE FinishRelease(f)
    BY <1>4, ReleaseKeeps
  <1> QED BY <1>1, <1>2, <1>3, <1>4 DEF Finish

(***************************************************************************)
(* vmWatch                                                                 *)
(***************************************************************************)
LEMMA InvWatch ==
  ASSUME Inv, NEW s \in Sessions, Watch(s)
  PROVE  Inv'
  <1> USE Constants DEF Inv, TypeOK, Quiet, Launches, Removed, OneMachineInOrder, OneMachine,
                        ViewHonest, Launching
  <1>0. start[s] = "done"
    BY DEF Watch, WatchTick, WatchDead, WatchIdle, WatchLimit, WatchOn
  <1>1. CASE WatchTick(s)
    BY <1>1 DEF WatchTick
  <1>2. CASE WatchOn(s)
    BY <1>2 DEF WatchOn
  <1>3. CASE WatchDead(s) \/ WatchIdle(s) \/ WatchLimit(s)
    <2>1. PICK why \in {"ended", "idle"} : Give(s, why)
      BY <1>3 DEF WatchDead, WatchIdle, WatchLimit
    <2>2. /\ finishing' \subseteq FinishCalls
          /\ \A f \in finishing' : f \in finishing \/ (f.session = s /\ f.at = "begin")
      BY <2>1, CallTyped DEF Give
    <2>3. /\ spent' \in [DOMAIN Limits -> Nat]
          /\ \A w \in DOMAIN Limits : spent'[w] = 0 => spent[w] = 0
      BY <1>3, SpendTyped DEF WatchDead, WatchIdle, WatchLimit
    <2>4. UNCHANGED <<slot, shown, state, box, start, viewers, up>>
      BY <1>3 DEF WatchDead, WatchIdle, WatchLimit
    <2>5. /\ watch' = [watch EXCEPT ![s] = "off"]
          /\ empty' = [empty EXCEPT ![s] = FALSE]
          /\ aged' = [aged EXCEPT ![s] = FALSE]
      BY <2>1 DEF Give
    <2>6. TypeOK' /\ Quiet'
      <3>1. up' = up /\ up
        BY <1>3 DEF WatchDead, WatchIdle, WatchLimit
      <3> QED BY <1>0, <2>2, <2>3, <2>4, <2>5, <3>1
    <2>7. Launches' /\ Removed' /\ OneMachineInOrder' /\ ViewHonest'
      BY <1>0, <2>2, <2>3, <2>4
    <2> QED BY <2>6, <2>7
  <1> QED BY <1>1, <1>2, <1>3 DEF Watch

(***************************************************************************)
(* Requests, the guest, the clock, exit and restart                        *)
(***************************************************************************)
LEMMA InvRequest ==
  ASSUME Inv, StopRequest \/ Connect
  PROVE  Inv'
  <1> USE Constants DEF Inv, TypeOK, Quiet, Launches, Removed, OneMachineInOrder, OneMachine,
                        ViewHonest, Launching
  <1>0. slot \in Sessions
    BY DEF StopRequest, Connect, Sessions
  <1>1. CASE StopRequest
    <2>1. /\ finishing' \subseteq FinishCalls
          /\ \A f \in finishing' : f \in finishing \/ (f.session = slot /\ f.at = "begin")
      BY <1>0, <1>1, CallTyped DEF StopRequest
    <2>2. /\ spent' \in [DOMAIN Limits -> Nat]
          /\ \A w \in DOMAIN Limits : spent'[w] = 0 => spent[w] = 0
          /\ state[slot] = "starting" => spent'["early"] # 0
      BY <1>1, SpendTyped DEF StopRequest
    <2> QED BY <1>0, <1>1, <2>1, <2>2 DEF StopRequest
  <1>2. CASE Connect
    BY <1>0, <1>2 DEF Connect
  <1> QED BY <1>1, <1>2

LEMMA InvAround ==
  ASSUME Inv, NEW s \in Sessions, Disconnect(s) \/ GuestEnds(s) \/ FourHoursPass(s)
  PROVE  Inv'
  <1> USE Constants DEF Inv, TypeOK, Quiet, Launches, Removed, OneMachineInOrder, OneMachine,
                        ViewHonest, Launching
  <1>1. CASE Disconnect(s)
    BY <1>1 DEF Disconnect
  <1>2. CASE GuestEnds(s)
    BY <1>2 DEF GuestEnds
  <1>3. CASE FourHoursPass(s)
    BY <1>3 DEF FourHoursPass
  <1> QED BY <1>1, <1>2, <1>3

LEMMA InvExit == Inv /\ Exit => Inv'
  <1> SUFFICES ASSUME Inv, Exit PROVE Inv'
    OBVIOUS
  <1>1. /\ spent' \in [DOMAIN Limits -> Nat]
        /\ \A w \in DOMAIN Limits : spent'[w] = 0 => spent[w] = 0
    BY SpendTyped, Constants DEF Exit, Inv
  <1>2. /\ up' = FALSE /\ slot' = 0 /\ shown' = 0 /\ finishing' = {}
        /\ start' = [t \in Sessions |-> IF start[t] = "new" THEN "new" ELSE "done"]
        /\ watch' = [t \in Sessions |-> "off"] /\ viewers' = [t \in Sessions |-> 0]
        /\ UNCHANGED <<state, empty, aged>>
    BY DEF Exit
  <1>3. box' \in [Sessions -> BOOLEAN]
    <2>1. PICK orderly \in BOOLEAN, late \in SUBSET {t \in Sessions : start[t] = "run"} :
            box' = [t \in Sessions |-> t \in late \/ (box[t] /\ ~ orderly)]
      BY DEF Exit
    <2> QED BY <2>1, Zenon
  <1>4. TypeOK'
    <2>1. /\ start' \in [Sessions -> {"new", "run", "wait", "mark", "done"}]
          /\ watch' \in [Sessions -> {"off", "sleep", "probe"}]
          /\ viewers' \in [Sessions -> 0 .. MaxViewers]
      BY <1>2, Constants
    <2>2. slot' \in 0 .. MaxSessions /\ shown' \in 0 .. MaxSessions
      BY <1>2, Constants
    <2>3. finishing' \subseteq FinishCalls /\ up' \in BOOLEAN
      BY <1>2
    <2> QED BY <1>1, <1>2, <1>3, <2>1, <2>2, <2>3 DEF Inv, TypeOK
  <1>5. \A t \in Sessions : start'[t] \in {"new", "done"} /\ watch'[t] = "off"
    BY <1>2
  <1>6. Quiet' /\ Launches' /\ Removed' /\ OneMachineInOrder' /\ ViewHonest'
    BY <1>2, <1>5, Constants
       DEF Quiet, Launches, Launching, Removed, OneMachineInOrder, OneMachine, ViewHonest
  <1> QED BY <1>4, <1>6 DEF Inv

LEMMA InvRestart == Inv /\ Restart => Inv'
  <1> SUFFICES ASSUME Inv, Restart PROVE Inv'
    OBVIOUS
  <1>1. /\ ~up /\ up' = TRUE
        /\ UNCHANGED <<slot, shown, state, start, watch, empty, finishing, viewers, aged>>
    BY DEF Restart
  <1>2. ASSUME box' \in [Sessions -> BOOLEAN],
               spent' \in [DOMAIN Limits -> Nat],
               \A w \in DOMAIN Limits : spent'[w] = 0 => spent[w] = 0,
               spent'["faults"] # 0 \/ \A s \in Sessions : ~box'[s]
        PROVE  Inv'
    <2>1. TypeOK'
      BY <1>1, <1>2 DEF Inv, TypeOK
    <2>2. finishing = {} /\ slot = 0 /\ \A s \in Sessions : start[s] \in {"new", "done"}
      BY <1>1 DEF Inv, Quiet
    <2>3. Quiet'
      BY <1>1, <2>2, Constants DEF Inv, Quiet
    <2>4. Launches'
      BY <1>1, <2>2 DEF Launches, Launching
    <2>5. Removed'
      BY <1>1, <2>2 DEF Removed
    <2>6. OneMachineInOrder'
      BY <1>2 DEF OneMachineInOrder, OneMachine
    <2>7. ViewHonest'
      BY <1>1 DEF Inv, Quiet, ViewHonest
    <2> QED BY <2>1, <2>3, <2>4, <2>5, <2>6, <2>7 DEF Inv
  <1>3. CASE box' = [s \in Sessions |-> FALSE] /\ UNCHANGED spent
    <2>1. box' \in [Sessions -> BOOLEAN] /\ \A s \in Sessions : ~box'[s]
      BY <1>3, Zenon
    <2>2. spent' \in [DOMAIN Limits -> Nat] /\ spent' = spent
      BY <1>3 DEF Inv, TypeOK
    <2> QED BY <1>2, <2>1, <2>2
  <1>4. CASE /\ \E left \in SUBSET {s \in Sessions : box[s]} :
                  left # {} /\ box' = [s \in Sessions |-> s \in left]
             /\ Spend("faults")
    <2>1. /\ spent' \in [DOMAIN Limits -> Nat] /\ spent'["faults"] # 0
          /\ \A w \in DOMAIN Limits : spent'[w] = 0 => spent[w] = 0
      BY <1>4, SpendTyped, Constants DEF Inv
    <2>2. PICK left : box' = [s \in Sessions |-> s \in left]
      BY <1>4
    <2>3. \A s \in Sessions : (s \in left) \in BOOLEAN
      OBVIOUS
    <2>4. box' \in [Sessions -> BOOLEAN]
      BY <2>2, <2>3, Zenon
    <2> QED BY <1>2, <2>1, <2>4
  <1> QED BY <1>3, <1>4 DEF Restart

LEMMA InvHolds == Spec => []Inv
  <1>1. Inv /\ [Next]_vars => Inv'
    <2> SUFFICES ASSUME Inv, [Next]_vars PROVE Inv'
      OBVIOUS
    <2>1. CASE UNCHANGED vars
      BY <2>1 DEF vars, Inv, TypeOK, Quiet, Launches, Removed, OneMachineInOrder, OneMachine,
                  ViewHonest
    <2>2. CASE Next
      BY <2>2, InvStart, InvFinish, InvWatch, InvRequest, InvAround, InvExit, InvRestart DEF Next
    <2> QED BY <2>1, <2>2
  <1> QED BY <1>1, InvInit, PTL DEF Spec

\* The slot, the goroutines of every session and the containers keep their types.
THEOREM TypeCorrect == Spec => []TypeOK
  BY InvHolds, PTL DEF Inv

\* A machine that runs is the one in the slot, as long as no stop came early and
\* no Docker call failed: a machine that is being launched keeps the slot, and one
\* that is being finished is gone before the slot is released.
THEOREM MachineIsTheSlots == Spec => []OneMachineInOrder
  BY InvHolds, PTL DEF Inv

\* A free slot is never shown with a machine that runs, unless a stop came early.
THEOREM ViewIsHonest == Spec => []ViewHonest
  BY InvHolds, PTL DEF Inv
=============================================================================
