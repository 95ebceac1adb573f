--------------------------- MODULE BuildQueueProofs ---------------------------
(***************************************************************************)
(* Theorems about the build queue for any number of builds, crashes and    *)
(* faults, any window size, and with or without compose clients that       *)
(* outlive the server: the inductive invariant of the queue, that the      *)
(* queue implements BuildLifecycle and runs one build at a time, and what  *)
(* retention keeps and takes, through every crash.  The last part is about *)
(* retention alone, for every table: the loop of pruneLocked reclaims what *)
(* Expired describes and keeps what the README promises (RetentionWalk).   *)
(***************************************************************************)
EXTENDS BuildQueue, RetentionWalk, FiniteSetTheorems, WellFoundedInduction, TLAPS

-------------------------------------------------------------------------------
(* The ways the jobs table is rewritten *)

LEMMA WithStateRows ==
  ASSUME row \in [Ids -> Rows], NEW i \in Ids, NEW s \in JobStates
  PROVE  /\ WithState(i, s) \in [Ids -> Rows]
         /\ \A k \in Ids : WithState(i, s)[k].state = IF k = i THEN s ELSE row[k].state
  BY DEF Rows, WithState

LEMMA FavouredRows ==
  ASSUME row \in [Ids -> Rows], NEW i \in Ids, NEW on \in BOOLEAN
  PROVE  /\ Favoured(i, on) \in [Ids -> Rows]
         /\ \A k \in Ids : Favoured(i, on)[k].state = row[k].state
  BY DEF Rows, Favoured

LEMMA FinishedRowsRows ==
  ASSUME row \in [Ids -> Rows], worker.job \in Ids, worker.verdict \in Terminal,
         worker.arts \in BOOLEAN
  PROVE  /\ FinishedRows \in [Ids -> Rows]
         /\ \A k \in Ids : FinishedRows[k].state = IF k = worker.job THEN FinalState
                                                   ELSE row[k].state
<1> DEFINE r == [row[worker.job] EXCEPT !.state = FinalState, !.arts = worker.arts]
<1>1. FinalState \in JobStates
  BY DEF FinalState, JobStates, Terminal
<1>2. row[worker.job] \in Rows
  OBVIOUS
<1>3. r \in Rows /\ r.state = FinalState
  BY <1>1, <1>2 DEF Rows
<1>4. FinishedRows = [row EXCEPT ![worker.job] = r]
  BY DEF FinishedRows
<1>5. QED
  BY <1>3, <1>4

LEMMA QueuedRowRows ==
  ASSUME NEW class \in Targets
  PROVE  QueuedRow(class) \in Rows /\ QueuedRow(class).state = "queued"
<1>1. class \in Classes
  BY QueueAssumption
<1>2. QED
  BY <1>1 DEF QueuedRow, NoRow, Rows, JobStates

LEMMA NoRowRows == NoRow \in Rows /\ NoRow.state = "absent"
  BY DEF NoRow, Rows, JobStates

(* The compose clients *)

LEMMA ClientsChange ==
  ASSUME NEW c \in Clients
  PROVE  /\ [c EXCEPT !.stage = "created"] \in Clients
         /\ [c EXCEPT !.stage = "created"].job = c.job
         /\ [c EXCEPT !.stage = "created"].owned = c.owned
         /\ [c EXCEPT !.owned = FALSE] \in Clients
         /\ ~ [c EXCEPT !.owned = FALSE].owned
  BY DEF Clients

(* Spending leaves the counters what they are. *)
LEMMA SpentTyped ==
  ASSUME spent \in [DOMAIN Budgets -> Nat],
         UNCHANGED spent \/ Spend("crashes") \/ Spend("faults") \/ Spend("vms")
  PROVE  spent' \in [DOMAIN Budgets -> Nat]
BY DEF Spend, Budgets

(* Retention changes no state in the table. *)
LEMMA ReclaimedRows ==
  ASSUME row \in [Ids -> Rows], NEW i \in Ids
  PROVE  /\ Reclaimed(row, {i}) \in [Ids -> Rows]
         /\ \A k \in Ids : Reclaimed(row, {i})[k].state = row[k].state
<1>1. ASSUME NEW k \in Ids
      PROVE  Reclaimed(row, {i})[k] \in Rows /\ Reclaimed(row, {i})[k].state = row[k].state
  BY DEF Reclaimed, Rows
<1>2. QED
  BY <1>1 DEF Reclaimed

LEMMA ExpiredIds ==
  ASSUME NEW rows \in [Ids -> Rows], NEW held
  PROVE  Expired(rows, held) \subseteq Ids
  BY DEF Expired

LEMMA ProceedTyped ==
  ASSUME NEW left \in SUBSET Ids, up \in BOOLEAN, Proceed(left)
  PROVE  prune' \in Passes /\ up' \in BOOLEAN /\ (up => up')
  BY DEF Proceed, Passes

LEMMA NoPassTyped == NoPass \in Passes
  BY DEF NoPass, Passes

LEMMA PruneTyped ==
  ASSUME NEW rows \in [Ids -> Rows], up \in BOOLEAN, PruneLocked(rows)
  PROVE  prune' \in Passes /\ up' \in BOOLEAN /\ (up => up')
  BY ExpiredIds, ProceedTyped DEF PruneLocked

-------------------------------------------------------------------------------
(* Each step keeps the inductive invariant *)

LEMMA RequestKeeps ==
  ASSUME IInv, Request
  PROVE  IInv'
<1> USE QueueAssumption DEF IInv, TypeOK, NoneAhead, SingleActive, WorkerSound, ClientsSound,
        Ids, Workers, Places, JobStates, Terminal, Active, Clients, ContainerStates, Exited,
        Budgets, Idle, Spend
<1>1. ASSUME NEW class \in Targets, Submit(class) PROVE IInv'
  <2>1. QueuedRow(class) \in Rows /\ QueuedRow(class).state = "queued"
    BY QueuedRowRows
  <2>2. /\ row' \in [Ids -> Rows]
        /\ \A k \in Ids : row'[k].state = IF k = last + 1 THEN "queued"
                                          ELSE row[k].state
    BY <1>1, <2>1 DEF Submit
  <2>3. TypeOK'
    BY <1>1, <2>2 DEF Submit
  <2>4. NoneAhead' /\ SingleActive' /\ WorkerSound' /\ ClientsSound'
    BY <1>1, <2>2 DEF Submit
  <2>5. QED
    BY <2>3, <2>4
<1>2. CASE SubmitFails
  <2>1. TypeOK'
    BY <1>2 DEF SubmitFails
  <2>2. NoneAhead' /\ SingleActive' /\ WorkerSound' /\ ClientsSound'
    BY <1>2 DEF SubmitFails
  <2>3. QED
    BY <2>1, <2>2
<1>3. ASSUME NEW i \in Ids, Cancel(i) PROVE IInv'
  <2> DEFINE s == IF row[i].state = "queued" THEN "cancelled" ELSE "cancelling"
  <2>1. row' = WithState(i, s)
    BY <1>3 DEF Cancel
  <2>2. /\ s \in {"cancelled", "cancelling"}
        /\ s = "cancelled" => row[i].state = "queued"
        /\ s = "cancelling" => row[i].state \in Active
        /\ row[i].state # "absent"
    BY <1>3 DEF Cancel
  <2> HIDE DEF s
  <2>3. /\ row' \in [Ids -> Rows]
        /\ \A k \in Ids : row'[k].state = IF k = i THEN s ELSE row[k].state
    <3>1. row \in [Ids -> Rows]
      OBVIOUS
    <3>2. s \in JobStates
      BY <2>2
    <3>3. QED
      BY ONLY <2>1, <3>1, <3>2, WithStateRows
  <2>4. TypeOK'
    BY <1>3, <2>3 DEF Cancel
  <2>5. NoneAhead' /\ SingleActive' /\ WorkerSound' /\ ClientsSound'
    BY <1>3, <2>2, <2>3, ZenonT(60) DEF Cancel
  <2>6. QED
    BY <2>4, <2>5
<1>4. ASSUME NEW i \in Ids, DeleteJob(i) PROVE IInv'
  <2>1. /\ row' \in [Ids -> Rows]
        /\ \A k \in Ids : row'[k].state = IF k = i THEN "absent"
                                          ELSE row[k].state
    BY <1>4, NoRowRows DEF DeleteJob
  <2>2. TypeOK'
    <3>1. container' \in [Ids -> ContainerStates]
      BY <1>4 DEF DeleteJob
    <3>2. spent' \in [DOMAIN Budgets -> Nat]
      <4>1. UNCHANGED spent \/ Spend("faults")
        BY ONLY <1>4 DEF DeleteJob
      <4>2. QED
        BY ONLY <4>1, TypeOK, SpentTyped DEF TypeOK
    <3>3. QED
      BY <1>4, <2>1, <3>1, <3>2 DEF DeleteJob
  <2>3. NoneAhead' /\ SingleActive' /\ WorkerSound' /\ ClientsSound'
    BY <1>4, <2>1 DEF DeleteJob, Deletable
  <2>4. QED
    BY <2>2, <2>3
<1>5. ASSUME NEW i \in Ids, DeleteInterrupted(i) PROVE IInv'
  <2>1. TypeOK'
    BY <1>5 DEF DeleteInterrupted, Deletable
  <2>2. NoneAhead' /\ SingleActive' /\ WorkerSound' /\ ClientsSound'
    BY <1>5 DEF DeleteInterrupted, Deletable
  <2>3. QED
    BY <2>1, <2>2
<1>6. ASSUME NEW i \in Ids, NEW on \in BOOLEAN, SetFavorite(i, on) \/ SetFavoriteUnpruned(i, on)
      PROVE  IInv'
  <2>1. /\ row' \in [Ids -> Rows]
        /\ \A k \in Ids : row'[k].state = row[k].state
    BY <1>6, FavouredRows DEF SetFavorite, SetFavoriteUnpruned
  <2>2. prune' \in Passes /\ up' \in BOOLEAN /\ (up => up')
    <3>1. CASE SetFavorite(i, on)
      BY ONLY <2>1, <3>1, TypeOK, PruneTyped DEF SetFavorite, TypeOK
    <3>2. CASE SetFavoriteUnpruned(i, on)
      BY ONLY <3>2, TypeOK DEF SetFavoriteUnpruned, TypeOK
    <3>3. QED
      BY <1>6, <3>1, <3>2
  <2>3. TypeOK'
    <3>1. UNCHANGED spent \/ Spend("faults")
      BY ONLY <1>6 DEF SetFavorite, SetFavoriteUnpruned
    <3>2. spent' \in [DOMAIN Budgets -> Nat]
      BY ONLY <3>1, TypeOK, SpentTyped DEF TypeOK
    <3>3. UNCHANGED <<last, disk, container, compose, worker, vm, booting>>
      BY ONLY <1>6 DEF SetFavorite, SetFavoriteUnpruned
    <3>4. QED
      BY ONLY <2>1, <2>2, <3>2, <3>3, TypeOK DEF TypeOK
  <2>4. NoneAhead' /\ SingleActive' /\ WorkerSound' /\ ClientsSound'
    <3>1. UNCHANGED <<last, compose, worker>>
      BY ONLY <1>6 DEF SetFavorite, SetFavoriteUnpruned
    <3>2. QED
      BY <2>1, <2>2, <3>1
  <2>5. QED
    BY <2>3, <2>4
<1>7. ASSUME NEW q \in VmRequests, NEW i \in Ids, VmCheck(q, i) PROVE IInv'
  <2>1. TypeOK'
    BY <1>7 DEF VmCheck
  <2>2. NoneAhead' /\ SingleActive' /\ WorkerSound' /\ ClientsSound'
    BY <1>7 DEF VmCheck
  <2>3. QED
    BY <2>1, <2>2
<1>8. ASSUME NEW q \in VmRequests, VmClaim(q) PROVE IInv'
  <2>1. TypeOK'
    BY <1>8 DEF VmClaim
  <2>2. NoneAhead' /\ SingleActive' /\ WorkerSound' /\ ClientsSound'
    BY <1>8 DEF VmClaim
  <2>3. QED
    BY <2>1, <2>2
<1>9. CASE VmEnd
  <2>1. TypeOK'
    BY <1>9 DEF VmEnd
  <2>2. NoneAhead' /\ SingleActive' /\ WorkerSound' /\ ClientsSound'
    BY <1>9 DEF VmEnd
  <2>3. QED
    BY <2>1, <2>2
<1>10. QED
  BY <1>1, <1>2, <1>3, <1>4, <1>5, <1>6, <1>7, <1>8, <1>9 DEF Request

LEMMA PassKeeps ==
  ASSUME IInv, PassStep
  PROVE  IInv'
<1> USE QueueAssumption DEF IInv, TypeOK, NoneAhead, SingleActive, WorkerSound, ClientsSound,
        Ids, Terminal, Active, Budgets, Spend
<1>1. prune.left \subseteq Ids /\ prune.at \in {"none", "ask", "remove", "save"}
  BY DEF Passes
<1>2. \A at \in {"none", "ask", "remove", "save"} : [prune EXCEPT !.at = at] \in Passes
  BY DEF Passes
<1>3. ASSUME NEW i \in Ids, VmHolds(i) PROVE IInv'
  <2>1. prune' \in Passes /\ up' \in BOOLEAN /\ (up => up')
    BY <1>1, <1>2, <1>3, ProceedTyped DEF VmHolds
  <2>2. TypeOK'
    BY <1>3, <2>1 DEF VmHolds
  <2>3. NoneAhead' /\ SingleActive' /\ WorkerSound' /\ ClientsSound'
    BY <1>3, <2>1 DEF VmHolds
  <2>4. QED
    BY <2>2, <2>3
<1>4. ASSUME NEW i \in Ids, RemoveFiles(i) PROVE IInv'
  <2>1. TypeOK'
    BY <1>2, <1>4 DEF RemoveFiles
  <2>2. NoneAhead' /\ SingleActive' /\ WorkerSound' /\ ClientsSound'
    BY <1>4 DEF RemoveFiles
  <2>3. QED
    BY <2>1, <2>2
<1>5. ASSUME NEW i \in Ids, RemoveFails(i) PROVE IInv'
  <2>1. prune' \in Passes /\ up' \in BOOLEAN /\ (up => up')
    BY <1>1, <1>5, ProceedTyped DEF RemoveFails
  <2>2. TypeOK'
    BY <1>5, <2>1 DEF RemoveFails
  <2>3. NoneAhead' /\ SingleActive' /\ WorkerSound' /\ ClientsSound'
    BY <1>5, <2>1 DEF RemoveFails
  <2>4. QED
    BY <2>2, <2>3
<1>6. ASSUME NEW i \in Ids, SaveReclaimed(i) PROVE IInv'
  <2>1. prune' \in Passes /\ up' \in BOOLEAN /\ (up => up')
    BY <1>1, <1>6, ProceedTyped DEF SaveReclaimed
  <2>2. row' \in [Ids -> Rows] /\ \A k \in Ids : row'[k].state = row[k].state
    BY <1>6, ReclaimedRows DEF SaveReclaimed
  <2>3. TypeOK'
    BY <1>6, <2>1, <2>2 DEF SaveReclaimed
  <2>4. NoneAhead' /\ SingleActive' /\ WorkerSound' /\ ClientsSound'
    BY <1>6, <2>1, <2>2 DEF SaveReclaimed
  <2>5. QED
    BY <2>3, <2>4
<1>7. ASSUME NEW i \in Ids, SaveFails(i) PROVE IInv'
  <2>1. prune' \in Passes /\ up' \in BOOLEAN /\ (up => up')
    BY <1>1, <1>7, ProceedTyped DEF SaveFails
  <2>2. TypeOK'
    BY <1>7, <2>1 DEF SaveFails
  <2>3. NoneAhead' /\ SingleActive' /\ WorkerSound' /\ ClientsSound'
    BY <1>7, <2>1 DEF SaveFails
  <2>4. QED
    BY <2>2, <2>3
<1>8. QED
  BY <1>3, <1>4, <1>5, <1>6, <1>7 DEF PassStep

LEMMA WorkerKeeps ==
  ASSUME IInv, WorkerStep
  PROVE  IInv'
<1> USE QueueAssumption DEF IInv, TypeOK, NoneAhead, SingleActive, WorkerSound, ClientsSound,
        Ids, Workers, Places, JobStates, Terminal, Active, Clients, ContainerStates, Exited,
        Budgets, Idle, Spend, At, GoTo, ToFinish
<1>1. ASSUME NEW i \in Ids, Pick(i) PROVE IInv'
  <2>1. i \in Candidates /\ row[i].state \in Active \cup {"queued"}
    BY <1>1 DEF Pick, Candidates, UnderWay, Waiting
  <2>2. row[i].state = "queued" => \A k \in Ids : row[k].state \notin Active
    BY <2>1 DEF Candidates, UnderWay, Waiting
  <2> DEFINE s == IF row[i].state = "queued" THEN "starting" ELSE row[i].state
  <2>3. s \in Active
    BY <2>1
  <2>4. row' = WithState(i, s) /\ worker' = [Idle EXCEPT !.at = "inspect", !.job = i, !.seen = s]
    BY <1>1 DEF Pick
  <2> HIDE DEF s
  <2>5. /\ row' \in [Ids -> Rows]
        /\ \A k \in Ids : row'[k].state = IF k = i THEN s ELSE row[k].state
    BY <2>3, <2>4, WithStateRows, SMTT(60)
  <2>6. /\ worker' \in Workers
        /\ worker'.at = "inspect" /\ worker'.job = i /\ worker'.seen = s
    BY <2>3, <2>4
  <2>7. TypeOK'
    BY <1>1, <2>5, <2>6 DEF Pick
  <2>8. NoneAhead' /\ SingleActive'
    <3>1. last' = last /\ i <= last
      BY <1>1, <2>1 DEF Pick
    <3>2. NoneAhead'
      BY <2>5, <3>1
    <3>3. SingleActive'
      BY <2>1, <2>2, <2>5
    <3>4. QED
      BY <3>2, <3>3
  <2>9. WorkerSound'
    BY <1>1, <2>3, <2>5, <2>6 DEF Pick
  <2>10. ClientsSound'
    BY <1>1 DEF Pick
  <2>11. QED
    BY <2>7, <2>8, <2>9, <2>10
<1>2. CASE FirstInspect
  <2> DEFINE new == [job |-> worker.job, owned |-> TRUE, stage |-> "pulling"]
  <2>1. new \in Clients
    BY <1>2 DEF FirstInspect
  <2>2. \A c \in compose : ~ c.owned
    BY <1>2 DEF FirstInspect
  <2>3. \/ compose' = compose
        \/ /\ compose' = compose \cup {new}
           /\ worker' = [worker EXCEPT !.at = "launch"]
    BY <1>2 DEF FirstInspect
  <2>4. compose' \in SUBSET Clients
    <3>1. compose \in SUBSET Clients
      OBVIOUS
    <3> HIDE DEF Clients, new
    <3>2. QED
      BY ONLY <2>1, <2>3, <3>1
  <2>5. ClientsSound'
    <3>1. CASE compose' = compose
      BY <2>2, <3>1
    <3>2. CASE compose' = compose \cup {new} /\ worker' = [worker EXCEPT !.at = "launch"]
      <4>1. worker'.at = "launch" /\ worker'.job = worker.job /\ new.job = worker.job
        BY <3>2
      <4>2. QED
        BY <2>2, <3>2, <4>1
    <3>3. QED
      BY <2>3, <3>1, <3>2
  <2>6. TypeOK'
    BY <1>2, <2>4 DEF FirstInspect
  <2>7. NoneAhead' /\ SingleActive' /\ WorkerSound'
    BY <1>2 DEF FirstInspect
  <2>8. QED
    BY <2>5, <2>6, <2>7
<1>3. CASE InspectFails
  <2>1. TypeOK'
    BY <1>3 DEF InspectFails
  <2>2. NoneAhead' /\ SingleActive' /\ WorkerSound' /\ ClientsSound'
    BY <1>3 DEF InspectFails
  <2>3. QED
    BY <2>1, <2>2
<1>4. CASE CancelLaunch
  <2>1. TypeOK'
    BY <1>4 DEF CancelLaunch
  <2>2. NoneAhead' /\ SingleActive' /\ WorkerSound' /\ ClientsSound'
    BY <1>4 DEF CancelLaunch
  <2>3. QED
    BY <2>1, <2>2
<1>5. CASE AfterFailedLaunch
  <2>1. /\ worker' \in Workers /\ worker'.at \in {"finish", "mark"}
        /\ worker'.job = worker.job /\ worker'.seen = worker.seen
        /\ worker'.at = "finish" => worker'.verdict = "failed"
    <3>1. CASE container[worker.job] = "missing"
      <4>1. worker' = [worker EXCEPT !.at = "finish", !.verdict = "failed", !.arts = FALSE]
        BY <1>5, <3>1 DEF AfterFailedLaunch
      <4>2. worker \in Workers
        BY <1>5, <3>1 DEF AfterFailedLaunch
      <4>3. QED
        BY <4>1, <4>2
    <3>2. CASE container[worker.job] # "missing"
      BY <1>5, <3>2, SMTT(60) DEF AfterFailedLaunch
    <3>3. QED
      BY <3>1, <3>2
  <2>2. TypeOK'
    BY <1>5, <2>1 DEF AfterFailedLaunch
  <2>3. NoneAhead' /\ SingleActive' /\ ClientsSound'
    BY <1>5 DEF AfterFailedLaunch
  <2>4. WorkerSound'
    BY <1>5, <2>1 DEF AfterFailedLaunch
  <2>5. QED
    BY <2>2, <2>3, <2>4
<1>6. CASE StartCreated
  <2>1. /\ worker' \in Workers /\ worker'.at \in {"finish", "mark"}
        /\ worker'.job = worker.job /\ worker'.seen = worker.seen
        /\ worker'.at = "finish" => worker'.verdict = "failed"
        /\ container' \in [Ids -> ContainerStates]
    <3>1. CASE container[worker.job] = "missing"
      <4>1. worker' = [worker EXCEPT !.at = "finish", !.verdict = "failed", !.arts = FALSE]
        BY <1>6, <3>1 DEF StartCreated
      <4>2. worker \in Workers /\ container' = container
        BY <1>6, <3>1 DEF StartCreated
      <4>3. QED
        BY <4>1, <4>2
    <3>2. CASE container[worker.job] # "missing"
      <4>1. /\ worker' = [worker EXCEPT !.at = "mark"] /\ worker \in Workers
            /\ container' = [container EXCEPT ![worker.job] = "running"]
            /\ container \in [Ids -> ContainerStates]
        BY <1>6, <3>2 DEF StartCreated
      <4>2. container' \in [Ids -> ContainerStates]
        BY ONLY <4>1
      <4>3. QED
        BY <4>1, <4>2
    <3>3. QED
      BY <3>1, <3>2
  <2>2. TypeOK'
    BY <1>6, <2>1 DEF StartCreated
  <2>3. NoneAhead' /\ SingleActive' /\ ClientsSound'
    BY <1>6 DEF StartCreated
  <2>4. WorkerSound'
    BY <1>6, <2>1 DEF StartCreated
  <2>5. QED
    BY <2>2, <2>3, <2>4
<1>7. CASE StartFails
  <2>1. worker' \in Workers
    BY <1>7 DEF StartFails
  <2>2. TypeOK'
    BY <1>7, <2>1 DEF StartFails
  <2>3. NoneAhead' /\ SingleActive' /\ WorkerSound' /\ ClientsSound'
    BY <1>7, <2>1 DEF StartFails
  <2>4. QED
    BY <2>2, <2>3
<1>8. CASE MarkRunning
  <2> DEFINE s == IF row[worker.job].state = "cancelling" THEN "cancelling" ELSE "running"
  <2>1. row' = WithState(worker.job, s)
    BY <1>8 DEF MarkRunning
  <2>2. /\ s \in Active /\ worker.job \in Ids
        /\ row[worker.job].state = "cancelling" => s = "cancelling"
        /\ row[worker.job].state \in Active
    BY <1>8 DEF MarkRunning
  <2> HIDE DEF s
  <2>3. /\ row' \in [Ids -> Rows]
        /\ \A k \in Ids : row'[k].state = IF k = worker.job THEN s ELSE row[k].state
    <3>1. row \in [Ids -> Rows]
      OBVIOUS
    <3>2. s \in JobStates /\ worker.job \in Ids
      BY <2>2
    <3>3. QED
      BY ONLY <2>1, <3>1, <3>2, WithStateRows
  <2>4. TypeOK'
    BY <1>8, <2>3 DEF MarkRunning
  <2>5. NoneAhead' /\ SingleActive' /\ WorkerSound' /\ ClientsSound'
    BY <1>8, <2>2, <2>3, ZenonT(60) DEF MarkRunning
  <2>6. QED
    BY <2>4, <2>5
<1>9. CASE RowFails
  <2>1. TypeOK'
    BY <1>9 DEF RowFails
  <2>2. NoneAhead' /\ SingleActive' /\ WorkerSound' /\ ClientsSound'
    BY <1>9 DEF RowFails
  <2>3. QED
    BY <2>1, <2>2
<1>10. CASE ReadRow
  <2>1. TypeOK'
    BY <1>10 DEF ReadRow
  <2>2. NoneAhead' /\ SingleActive' /\ WorkerSound' /\ ClientsSound'
    BY <1>10 DEF ReadRow
  <2>3. QED
    BY <2>1, <2>2
<1>11. CASE StopContainer
  <2>1. container' \in [Ids -> ContainerStates]
    <3>1. CASE container[worker.job] = "running"
      <4>1. PICK e \in Exited : container' = [container EXCEPT ![worker.job] = e]
        BY <1>11, <3>1 DEF StopContainer
      <4>2. QED
        BY <4>1
    <3>2. CASE container[worker.job] # "running"
      BY <1>11, <3>2 DEF StopContainer
    <3>3. QED
      BY <3>1, <3>2
  <2>2. TypeOK'
    BY <1>11, <2>1 DEF StopContainer
  <2>3. NoneAhead' /\ SingleActive' /\ WorkerSound' /\ ClientsSound'
    BY <1>11, <2>1 DEF StopContainer
  <2>4. QED
    BY <2>2, <2>3
<1>12. CASE StopFails
  <2>1. worker' \in Workers
    BY <1>12 DEF StopFails
  <2>2. TypeOK'
    BY <1>12, <2>1 DEF StopFails
  <2>3. NoneAhead' /\ SingleActive' /\ WorkerSound' /\ ClientsSound'
    BY <1>12, <2>1 DEF StopFails
  <2>4. QED
    BY <2>2, <2>3
<1>13. CASE Look
  <2>1. worker' \in Workers
    BY <1>13, ZenonT(60) DEF Look
  <2>2. disk' \in [Ids -> SUBSET {"dir", "log", "files"}]
    <3>1. \/ disk' = disk
          \/ disk' = [disk EXCEPT ![worker.job] = disk[worker.job] \cup {"files"}]
      BY <1>13 DEF Look
    <3>2. disk \in [Ids -> SUBSET {"dir", "log", "files"}]
      OBVIOUS
    <3>3. QED
      BY ONLY <3>1, <3>2
  <2>3. TypeOK'
    BY <1>13, <2>1, <2>2 DEF Look
  <2>4. NoneAhead' /\ SingleActive' /\ WorkerSound' /\ ClientsSound'
    BY <1>13, <2>1, <2>2, ZenonT(60) DEF Look
  <2>5. QED
    BY <2>3, <2>4
<1>14. CASE LookFails
  <2>1. worker' \in Workers
    BY <1>14 DEF LookFails
  <2>2. TypeOK'
    BY <1>14, <2>1 DEF LookFails
  <2>3. NoneAhead' /\ SingleActive' /\ WorkerSound' /\ ClientsSound'
    BY <1>14, <2>1 DEF LookFails
  <2>4. QED
    BY <2>2, <2>3
<1>15. CASE Finish \/ FinishWithErrors
  <2>1. worker.job \in Ids /\ worker.verdict \in Terminal /\ row[worker.job].state \in Active
    BY <1>15 DEF Finish, FinishWithErrors
  <2>2. FinalState \in Terminal
    BY <2>1 DEF FinalState
  <2>3. /\ FinishedRows \in [Ids -> Rows]
        /\ \A k \in Ids : FinishedRows[k].state = IF k = worker.job THEN FinalState
                                                  ELSE row[k].state
    BY <2>1, FinishedRowsRows
  <2>4. row' \in {row, FinishedRows} /\ row' \in [Ids -> Rows]
    BY <1>15, <2>3 DEF Finish, FinishWithErrors
  <2>5. prune' \in Passes /\ up' \in BOOLEAN /\ (up => up')
    <3>1. Expired(row', 0) \subseteq Ids
      BY <2>4, ExpiredIds
    <3>2. PICK left \in SUBSET Ids : Proceed(left)
      BY <1>15, <3>1 DEF Finish, FinishWithErrors, PruneLocked
    <3>3. QED
      BY <3>2, ProceedTyped
  <2>6. TypeOK'
    <3>1. UNCHANGED spent \/ Spend("faults")
      BY ONLY <1>15 DEF Finish, FinishWithErrors
    <3>2. spent' \in [DOMAIN Budgets -> Nat]
      BY ONLY <3>1, TypeOK, SpentTyped DEF TypeOK
    <3>3. UNCHANGED <<last, disk, container, compose, vm, booting>> /\ worker' = Idle
      BY ONLY <1>15 DEF Finish, FinishWithErrors
    <3>4. Idle \in Workers
      OBVIOUS
    <3>5. QED
      BY ONLY <2>4, <2>5, <3>2, <3>3, <3>4, TypeOK DEF TypeOK
  <2>7. \A k \in Ids : \/ row'[k].state = row[k].state
                      \/ (k = worker.job /\ row'[k].state \in Terminal)
    BY <2>1, <2>2, <2>3, <2>4
  <2>8. NoneAhead' /\ SingleActive'
    BY <1>15, <2>1, <2>7 DEF Finish, FinishWithErrors
  <2>9. WorkerSound' /\ ClientsSound'
    BY <1>15 DEF Finish, FinishWithErrors
  <2>10. QED
    BY <2>6, <2>8, <2>9
<1>16. QED
  BY <1>1, <1>2, <1>3, <1>4, <1>5, <1>6, <1>7, <1>8, <1>9, <1>10, <1>11, <1>12,
     <1>13, <1>14, <1>15 DEF WorkerStep

LEMMA ComposeKeeps ==
  ASSUME IInv, ComposeStep
  PROVE  IInv'
<1> USE QueueAssumption DEF IInv, TypeOK, NoneAhead, SingleActive, WorkerSound, ClientsSound,
        Ids, Workers, Places, JobStates, Terminal, Active, Clients, ContainerStates, Exited,
        Budgets, Idle, Spend
<1>1. ASSUME NEW c \in compose, ComposeCreate(c) PROVE IInv'
  <2> DEFINE made == [c EXCEPT !.stage = "created"]
  <2>1. c \in Clients /\ made \in Clients /\ made.job = c.job /\ made.owned = c.owned
    BY ClientsChange
  <2>2. CASE container[c.job] = "missing"
    <3>1. compose' = (compose \ {c}) \cup {made} /\ worker' = worker
      BY <1>1, <2>2 DEF ComposeCreate
    <3>2. compose' \in SUBSET Clients /\ container' \in [Ids -> ContainerStates]
      BY <1>1, <2>1, <2>2, <3>1, ZenonT(60) DEF ComposeCreate
    <3>3. ClientsSound'
      BY <2>1, <3>1
    <3>4. TypeOK'
      BY <1>1, <3>1, <3>2 DEF ComposeCreate
    <3>5. NoneAhead' /\ SingleActive' /\ WorkerSound'
      BY <1>1, <3>1 DEF ComposeCreate
    <3>6. QED
      BY <3>3, <3>4, <3>5
  <2>3. CASE container[c.job] # "missing"
    <3>1. compose' = compose \ {c} /\ UNCHANGED container
      BY <1>1, <2>3 DEF ComposeCreate
    <3>2. CASE c.owned
      <4>1. worker' = [worker EXCEPT !.at = "unlaunched"] /\ worker.at = "launch"
        BY <1>1, <2>3, <3>2 DEF ComposeCreate
      <4>2. TypeOK'
        BY <1>1, <3>1, <4>1 DEF ComposeCreate
      <4>3. NoneAhead' /\ SingleActive' /\ WorkerSound' /\ ClientsSound'
        BY <1>1, <3>1, <3>2, <4>1 DEF ComposeCreate
      <4>4. QED
        BY <4>2, <4>3
    <3>3. CASE ~ c.owned
      <4>1. worker' = worker
        BY <1>1, <2>3, <3>3 DEF ComposeCreate
      <4>2. QED
        BY <1>1, <3>1, <4>1 DEF ComposeCreate
    <3>4. QED
      BY <3>2, <3>3
  <2>4. QED
    BY <2>2, <2>3
<1>2. ASSUME NEW c \in compose, ComposeStart(c) PROVE IInv'
  <2>1. compose' = compose \ {c} /\ container' \in [Ids -> ContainerStates]
    BY <1>2 DEF ComposeStart
  <2>2. CASE c.owned
    <3>1. PICK p \in {"mark", "unlaunched"} : worker' = [worker EXCEPT !.at = p]
      BY <1>2, <2>2 DEF ComposeStart
    <3>2. worker.at = "launch" /\ \A d \in compose' : ~ d.owned
      BY <2>1, <2>2
    <3>3. TypeOK'
      BY <1>2, <2>1, <3>1 DEF ComposeStart
    <3>4. NoneAhead' /\ SingleActive' /\ WorkerSound' /\ ClientsSound'
      BY <1>2, <3>1, <3>2 DEF ComposeStart
    <3>5. QED
      BY <3>3, <3>4
  <2>3. CASE ~ c.owned
    <3>1. worker' = worker
      BY <1>2, <2>3 DEF ComposeStart
    <3>2. QED
      BY <1>2, <2>1, <3>1 DEF ComposeStart
  <2>4. QED
    BY <2>2, <2>3
<1>3. ASSUME NEW c \in compose, ComposeFails(c) PROVE IInv'
  <2>1. compose' = compose \ {c} /\ container' \in [Ids -> ContainerStates]
    BY <1>3 DEF ComposeFails
  <2>2. CASE c.owned
    <3>1. PICK p \in {"mark", "unlaunched"} : worker' = [worker EXCEPT !.at = p]
      BY <1>3, <2>2 DEF ComposeFails
    <3>2. worker.at = "launch" /\ \A d \in compose' : ~ d.owned
      BY <2>1, <2>2
    <3>3. TypeOK'
      BY <1>3, <2>1, <3>1, SMTT(60) DEF ComposeFails
    <3>4. NoneAhead' /\ SingleActive' /\ WorkerSound' /\ ClientsSound'
      BY <1>3, <3>1, <3>2 DEF ComposeFails
    <3>5. QED
      BY <3>3, <3>4
  <2>3. CASE ~ c.owned
    <3>1. worker' = worker
      BY <1>3, <2>3 DEF ComposeFails
    <3>2. QED
      BY <1>3, <2>1, <3>1, SMTT(60) DEF ComposeFails
  <2>4. QED
    BY <2>2, <2>3
<1>4. QED
  BY <1>1, <1>2, <1>3 DEF ComposeStep

LEMMA OutsideKeeps ==
  ASSUME IInv,
         \/ \E i \in Ids : BuildWrites(i) \/ ContainerExits(i) \/ ExternalRemove(i)
         \/ Crash \/ Restart \/ RestartUnpruned
  PROVE  IInv'
<1> USE QueueAssumption DEF IInv, TypeOK, NoneAhead, SingleActive, WorkerSound, ClientsSound,
        Ids, Workers, Places, JobStates, Terminal, Active, Clients, ContainerStates, Exited,
        Budgets, Idle, Spend
<1>1. ASSUME NEW i \in Ids, BuildWrites(i) PROVE IInv'
  <2>1. TypeOK'
    BY <1>1 DEF BuildWrites
  <2>2. NoneAhead' /\ SingleActive' /\ WorkerSound' /\ ClientsSound'
    BY <1>1 DEF BuildWrites
  <2>3. QED
    BY <2>1, <2>2
<1>2. ASSUME NEW i \in Ids, ContainerExits(i) PROVE IInv'
  <2>1. TypeOK'
    BY <1>2 DEF ContainerExits
  <2>2. NoneAhead' /\ SingleActive' /\ WorkerSound' /\ ClientsSound'
    BY <1>2 DEF ContainerExits
  <2>3. QED
    BY <2>1, <2>2
<1>3. ASSUME NEW i \in Ids, ExternalRemove(i) PROVE IInv'
  <2>1. TypeOK'
    BY <1>3 DEF ExternalRemove
  <2>2. NoneAhead' /\ SingleActive' /\ WorkerSound' /\ ClientsSound'
    BY <1>3 DEF ExternalRemove
  <2>3. QED
    BY <2>1, <2>2
<1>4. CASE Crash
  <2>1. PICK kept \in SUBSET compose : compose' = {[c EXCEPT !.owned = FALSE] : c \in kept}
    BY <1>4, ZenonT(60) DEF Crash
  <2>2. compose' \in SUBSET Clients /\ \A c \in compose' : ~ c.owned
    <3>1. compose \in SUBSET Clients
      OBVIOUS
    <3>2. ASSUME NEW d \in compose' PROVE d \in Clients /\ ~ d.owned
      <4>1. PICK c \in kept : d = [c EXCEPT !.owned = FALSE]
        BY <2>1
      <4>2. c \in Clients
        BY <3>1
      <4> HIDE DEF Clients
      <4>3. QED
        BY ONLY <4>1, <4>2, ClientsChange
    <3>3. QED
      BY ONLY <3>2
  <2>3. TypeOK'
    <3>1. /\ row' \in [Ids -> Rows] /\ last' \in 0..MaxJobs
          /\ disk' \in [Ids -> SUBSET {"dir", "log", "files"}]
          /\ container' \in [Ids -> ContainerStates]
      BY <1>4 DEF Crash
    <3>2. /\ worker' \in Workers /\ up' \in BOOLEAN
          /\ prune' \in Passes
          /\ vm' \in Ids \cup {0} /\ booting' \in [VmRequests -> Ids \cup {0}]
      BY <1>4, NoPassTyped DEF Crash
    <3>3. spent' \in [DOMAIN Budgets -> Nat]
      BY <1>4 DEF Crash
    <3> HIDE DEF Clients
    <3>4. QED
      BY ONLY <2>2, <3>1, <3>2, <3>3
  <2>4. NoneAhead' /\ SingleActive' /\ WorkerSound' /\ ClientsSound'
    BY <1>4, <2>2 DEF Crash
  <2>5. QED
    BY <2>3, <2>4
<1>5. CASE Restart \/ RestartUnpruned
  <2>1. prune' \in Passes /\ up' \in BOOLEAN /\ spent' \in [DOMAIN Budgets -> Nat]
    <3>1. CASE Restart
      BY ONLY <3>1, TypeOK, PruneTyped DEF Restart, TypeOK
    <3>2. CASE RestartUnpruned
      BY ONLY <3>2, TypeOK, SpentTyped DEF RestartUnpruned, TypeOK
    <3>3. QED
      BY ONLY <1>5, <3>1, <3>2
  <2>2. row' = row /\ last' = last /\ worker' = worker /\ worker.at = "idle" /\ compose' = compose
    BY <1>5 DEF Restart, RestartUnpruned, Down
  <2>3. TypeOK'
    BY <1>5, <2>1 DEF Restart, RestartUnpruned
  <2>4. NoneAhead' /\ SingleActive' /\ WorkerSound' /\ ClientsSound'
    BY <2>2
  <2>5. QED
    BY <2>3, <2>4
<1>6. QED
  BY <1>1, <1>2, <1>3, <1>4, <1>5

-------------------------------------------------------------------------------

LEMMA InitHolds == Init => IInv
<1> SUFFICES ASSUME Init PROVE IInv
  OBVIOUS
<1>1. row \in [Ids -> Rows] /\ \A i \in Ids : row[i].state = "absent"
  BY NoRowRows DEF Init
<1>2. TypeOK
  <2>1. /\ last \in 0..MaxJobs /\ disk \in [Ids -> SUBSET {"dir", "log", "files"}]
        /\ container \in [Ids -> ContainerStates] /\ compose \in SUBSET Clients
    BY QueueAssumption DEF Init, ContainerStates
  <2>2. /\ worker \in Workers /\ up \in BOOLEAN /\ prune \in Passes
        /\ vm \in Ids \cup {0} /\ booting \in [VmRequests -> Ids \cup {0}]
    BY NoPassTyped DEF Init, Idle, Workers, Places, JobStates
  <2>3. spent \in [DOMAIN Budgets -> Nat]
    BY DEF Init
  <2>4. QED
    BY <1>1, <2>1, <2>2, <2>3 DEF TypeOK
<1>3. NoneAhead /\ SingleActive /\ WorkerSound /\ ClientsSound
  BY <1>1 DEF Init, NoneAhead, SingleActive, WorkerSound, ClientsSound, Active, Idle
<1>4. QED
  BY <1>2, <1>3 DEF IInv

LEMMA StepKeeps == IInv /\ [Next]_vars => IInv'
<1> SUFFICES ASSUME IInv, [Next]_vars PROVE IInv'
  OBVIOUS
<1>1. CASE Request
  BY <1>1, RequestKeeps
<1>2. CASE WorkerStep
  BY <1>2, WorkerKeeps
<1>3. CASE ComposeStep \/ PassStep
  BY <1>3, ComposeKeeps, PassKeeps
<1>4. CASE \/ \E i \in Ids : BuildWrites(i) \/ ContainerExits(i) \/ ExternalRemove(i)
           \/ Crash \/ Restart \/ RestartUnpruned
  BY <1>4, OutsideKeeps
<1>5. CASE UNCHANGED vars
  BY <1>5 DEF vars, IInv, TypeOK, NoneAhead, SingleActive, WorkerSound, ClientsSound
<1>6. QED
  BY <1>1, <1>2, <1>3, <1>4, <1>5 DEF Next

(* The inductive invariant holds, for every number of builds, crashes and  *)
(* faults (the whole of runner.go, retention.go and the startup of main). *)
THEOREM Invariance == Spec => []IInv
<1>1. QED
  BY InitHolds, StepKeeps, PTL DEF Spec

(* The types of the jobs table, of the worker's locals and of what Docker  *)
(* and the disk hold (TypeOK); not inductive by itself: a verdict is saved *)
(* as a state, so it must be one when finish runs.                         *)
THEOREM TypeCorrect == Spec => []TypeOK
<1>1. IInv => TypeOK
  BY DEF IInv
<1>2. QED
  BY Invariance, <1>1, PTL

(* Whatever the worker read and let go of the lock, it never acts on a     *)
(* build that is over, and never forgets a cancellation (run, finish).     *)
THEOREM WorkerNeverStale == Spec => []WorkerSound
<1>1. IInv => WorkerSound
  BY DEF IInv
<1>2. QED
  BY Invariance, <1>1, PTL

-------------------------------------------------------------------------------
(* What each action does to the states in the table *)

SameStates   == \A k \in Ids : row'[k].state = row[k].state
OnlyState(i, s) == \A k \in Ids : row'[k].state = IF k = i THEN s ELSE row[k].state

LEMMA SubmitStates ==
  ASSUME IInv, NEW class \in Targets, Submit(class)
  PROVE  last + 1 \in Ids /\ OnlyState(last + 1, "queued")
<1>1. QueuedRow(class).state = "queued"
  BY QueuedRowRows
<1>2. last + 1 \in Ids
  BY QueueAssumption DEF IInv, TypeOK, Submit, Ids
<1>3. row \in [Ids -> Rows] /\ row' = [row EXCEPT ![last + 1] = QueuedRow(class)]
  BY DEF IInv, TypeOK, Submit
<1>4. QED
  BY <1>1, <1>2, <1>3 DEF OnlyState

LEMMA CancelStates ==
  ASSUME IInv, NEW i \in Ids, Cancel(i)
  PROVE  OnlyState(i, IF row[i].state = "queued" THEN "cancelled" ELSE "cancelling")
<1> DEFINE s == IF row[i].state = "queued" THEN "cancelled" ELSE "cancelling"
<1>1. row \in [Ids -> Rows] /\ row' = WithState(i, s)
  BY DEF IInv, TypeOK, Cancel
<1>2. s \in JobStates
  BY DEF JobStates, Terminal, Active
<1> HIDE DEF s
<1>3. OnlyState(i, s)
  BY <1>1, <1>2, WithStateRows DEF OnlyState
<1>4. QED
  BY <1>3 DEF s

LEMMA DeleteStates ==
  ASSUME IInv, NEW i \in Ids, DeleteJob(i)
  PROVE  row[i].state \in Terminal /\ OnlyState(i, "absent")
<1>1. row \in [Ids -> Rows] /\ row' = [row EXCEPT ![i] = NoRow]
  BY DEF IInv, TypeOK, DeleteJob
<1>2. row[i].state \in Terminal
  BY DEF DeleteJob, Deletable
<1>3. QED
  BY <1>1, <1>2, NoRowRows DEF OnlyState

LEMMA FavouriteStates ==
  ASSUME IInv, NEW i \in Ids, NEW on \in BOOLEAN, SetFavorite(i, on) \/ SetFavoriteUnpruned(i, on)
  PROVE  SameStates
<1>1. row \in [Ids -> Rows] /\ row' = Favoured(i, on)
  BY DEF IInv, TypeOK, SetFavorite, SetFavoriteUnpruned
<1>2. QED
  BY <1>1, FavouredRows DEF SameStates

LEMMA PassStates ==
  ASSUME IInv, PassStep
  PROVE  SameStates
<1>1. row \in [Ids -> Rows]
  BY DEF IInv, TypeOK
<1>2. row' = row \/ \E i \in Ids : row' = Reclaimed(row, {i})
  BY DEF PassStep, VmHolds, RemoveFiles, RemoveFails, SaveReclaimed, SaveFails
<1>3. QED
  BY <1>1, <1>2, ReclaimedRows DEF SameStates

LEMMA PickStates ==
  ASSUME IInv, NEW i \in Ids, Pick(i)
  PROVE  \/ SameStates
         \/ /\ row[i].state = "queued" /\ OnlyState(i, "starting")
            /\ \A k \in Ids : row[k].state \notin Active
            /\ \A k \in Ids : row[k].state = "queued" => i <= k
<1> DEFINE s == IF row[i].state = "queued" THEN "starting" ELSE row[i].state
<1>1. row \in [Ids -> Rows] /\ row' = WithState(i, s)
  BY DEF IInv, TypeOK, Pick
<1>2. row[i] \in Rows
  BY <1>1
<1>3. s \in JobStates
  BY <1>2 DEF JobStates, Active, Rows
<1> HIDE DEF s
<1>4. OnlyState(i, s)
  BY <1>1, <1>3, WithStateRows DEF OnlyState
<1>5. CASE row[i].state = "queued"
  <2>1. s = "starting"
    BY <1>5 DEF s
  <2>2. UnderWay = {} /\ Candidates = Waiting
    BY <1>5 DEF Pick, Candidates, UnderWay, Waiting, Active
  <2>3. QED
    BY <1>4, <1>5, <2>1, <2>2 DEF Pick, UnderWay, Waiting
<1>6. CASE row[i].state # "queued"
  <2>1. s = row[i].state
    BY <1>6 DEF s
  <2>2. QED
    BY <1>4, <2>1 DEF OnlyState, SameStates
<1>7. QED
  BY <1>5, <1>6

LEMMA MarkStates ==
  ASSUME IInv, MarkRunning
  PROVE  /\ worker.job \in Ids /\ row[worker.job].state \in Active
         /\ OnlyState(worker.job, IF row[worker.job].state = "cancelling"
                                  THEN "cancelling" ELSE "running")
<1> DEFINE s == IF row[worker.job].state = "cancelling" THEN "cancelling" ELSE "running"
<1>1. row \in [Ids -> Rows] /\ row' = WithState(worker.job, s)
  BY DEF IInv, TypeOK, MarkRunning
<1>2. worker.job \in Ids /\ row[worker.job].state \in Active
  BY DEF IInv, WorkerSound, MarkRunning, At
<1>3. s \in JobStates
  BY DEF JobStates, Active
<1> HIDE DEF s
<1>4. OnlyState(worker.job, s)
  BY <1>1, <1>2, <1>3, WithStateRows DEF OnlyState
<1>5. QED
  BY <1>2, <1>4 DEF s

(* The build under way gets a final verdict, "cancelled" exactly if        *)
(* somebody cancelled it.                                                  *)
Ends ==
  /\ worker.at = "finish"
  /\ worker.job \in Ids /\ row[worker.job].state \in Active
  /\ OnlyState(worker.job, FinalState)
  /\ IF row[worker.job].state = "cancelling" THEN FinalState = "cancelled"
     ELSE FinalState \in {"succeeded", "failed"}

LEMMA FinishStates ==
  ASSUME IInv, Finish \/ FinishWithErrors
  PROVE  SameStates \/ Ends
<1>1. row \in [Ids -> Rows] /\ worker \in Workers /\ worker.at = "finish"
  BY DEF IInv, TypeOK, Finish, FinishWithErrors, At
<1>2. /\ worker.job \in Ids /\ row[worker.job].state \in Active
      /\ worker.verdict \in Terminal
      /\ worker.verdict = "cancelled" => row[worker.job].state = "cancelling"
  BY <1>1 DEF IInv, WorkerSound
<1>3. \A k \in Ids : FinishedRows[k].state = IF k = worker.job THEN FinalState
                                             ELSE row[k].state
  <2>1. worker.arts \in BOOLEAN
    BY <1>1 DEF Workers
  <2>2. QED
    BY <1>1, <1>2, <2>1, FinishedRowsRows
<1>4. IF row[worker.job].state = "cancelling" THEN FinalState = "cancelled"
      ELSE FinalState \in {"succeeded", "failed"}
  BY <1>2 DEF FinalState, Terminal
<1>5. row' = row \/ row' = FinishedRows
  BY DEF Finish, FinishWithErrors
<1>6. QED
  BY <1>1, <1>2, <1>3, <1>4, <1>5 DEF Ends, OnlyState, SameStates

(* Everything else leaves the table as it is. *)
Quiet ==
  \/ SubmitFails \/ VmEnd
  \/ \E q \in VmRequests : VmClaim(q) \/ \E i \in Ids : VmCheck(q, i)
  \/ \E i \in Ids : DeleteInterrupted(i)
  \/ FirstInspect \/ InspectFails \/ CancelLaunch \/ AfterFailedLaunch
  \/ StartCreated \/ StartFails \/ RowFails
  \/ ReadRow \/ StopContainer \/ StopFails \/ Look \/ LookFails
  \/ ComposeStep
  \/ \E i \in Ids : BuildWrites(i) \/ ContainerExits(i) \/ ExternalRemove(i)
  \/ Crash \/ Restart \/ RestartUnpruned \/ UNCHANGED vars

LEMMA QuietStates ==
  ASSUME Quiet
  PROVE  row' = row /\ (last' = last \/ SubmitFails)
<1>1. CASE \/ SubmitFails \/ VmEnd
           \/ \E q \in VmRequests : VmClaim(q) \/ \E i \in Ids : VmCheck(q, i)
           \/ \E i \in Ids : DeleteInterrupted(i)
  BY <1>1 DEF SubmitFails, VmClaim, VmEnd, DeleteInterrupted, VmCheck
<1>2. CASE \/ FirstInspect \/ InspectFails \/ CancelLaunch \/ AfterFailedLaunch
           \/ StartCreated \/ StartFails \/ RowFails
  BY <1>2 DEF FirstInspect, InspectFails, CancelLaunch, AfterFailedLaunch, StartCreated,
              StartFails, RowFails
<1>3. CASE ReadRow \/ StopContainer \/ StopFails \/ Look \/ LookFails
  BY <1>3 DEF ReadRow, StopContainer, StopFails, Look, LookFails
<1>4. CASE ComposeStep
  BY <1>4 DEF ComposeStep, ComposeCreate, ComposeStart, ComposeFails
<1>5. CASE \/ \E i \in Ids : BuildWrites(i) \/ ContainerExits(i) \/ ExternalRemove(i)
           \/ Crash \/ Restart \/ RestartUnpruned \/ UNCHANGED vars
  BY <1>5 DEF BuildWrites, ContainerExits, ExternalRemove, Crash, Restart, RestartUnpruned, vars
<1>6. QED
  BY <1>1, <1>2, <1>3, <1>4, <1>5 DEF Quiet

-------------------------------------------------------------------------------
(* The refinement *)

LEMMA SameStatus ==
  ASSUME SameStates
  PROVE  Status' = Status
BY DEF SameStates, Status

LEMMA OneStatus ==
  ASSUME NEW i \in Ids, NEW s, OnlyState(i, s)
  PROVE  /\ Status' = [Status EXCEPT ![i] = StatusOf(s)]
         /\ Status[i] = StatusOf(row[i].state)
<1>1. ASSUME NEW k \in Ids
      PROVE  Status'[k] = IF k = i THEN StatusOf(s) ELSE Status[k]
  BY DEF OnlyState, Status
<1>2. QED
  BY <1>1 DEF Status

LEMMA StatusOfStates ==
  /\ \A s \in {"starting", "running"} : StatusOf(s) = "building"
  /\ StatusOf("cancelling") = "stopping"
  /\ \A s \in Terminal \cup {"queued", "absent"} : StatusOf(s) = s
BY DEF StatusOf, Terminal

LEMMA EndsIsEnd ==
  ASSUME IInv, Ends, last' = last
  PROVE  \E i \in Ids : Lifecycle!End(i)
<1> DEFINE i == worker.job
<1>1. /\ i \in Ids /\ row[i].state \in Active
      /\ Status' = [Status EXCEPT ![i] = StatusOf(FinalState)]
      /\ Status[i] = StatusOf(row[i].state)
  BY OneStatus DEF Ends
<1>2. CASE row[i].state = "cancelling"
  <2>1. Status[i] = "stopping" /\ StatusOf(FinalState) = "cancelled"
    BY <1>1, <1>2, StatusOfStates DEF Ends, Terminal
  <2>2. QED
    BY <1>1, <2>1 DEF Lifecycle!End
<1>3. CASE row[i].state # "cancelling"
  <2>1. Status[i] = "building" /\ StatusOf(FinalState) \in {"succeeded", "failed"}
    BY <1>1, <1>3, StatusOfStates DEF Ends, Terminal, Active
  <2>2. QED
    BY <1>1, <2>1 DEF Lifecycle!End
<1>4. QED
  BY <1>2, <1>3

LEMMA StepSimulation ==
  ASSUME IInv, [Next]_vars
  PROVE  [Lifecycle!Next]_<<Status, last>>
<1> USE DEF Lifecycle!Builds
<1>1. ASSUME NEW class \in Targets, Submit(class) PROVE Lifecycle!Next
  <2>1. /\ Status' = [Status EXCEPT ![last + 1] = "queued"]
        /\ last < MaxJobs /\ last' = last + 1
    <3>1. last + 1 \in Ids /\ OnlyState(last + 1, "queued")
      BY <1>1, SubmitStates
    <3>2. Status' = [Status EXCEPT ![last + 1] = StatusOf("queued")]
      BY <3>1, OneStatus
    <3>3. QED
      BY <1>1, <3>2, StatusOfStates DEF Submit
  <2>2. Lifecycle!Accept
    BY <2>1 DEF Lifecycle!Accept
  <2>3. QED
    BY <2>2 DEF Lifecycle!Next
<1>2. CASE SubmitFails
  <2>1. /\ last + 1 \in Ids /\ last < MaxJobs /\ last' = last + 1
        /\ row[last + 1].state = "absent" /\ row' = row
    BY <1>2, QueueAssumption DEF SubmitFails, IInv, TypeOK, NoneAhead, Ids
  <2>2. Status' = Status /\ Status[last + 1] = "absent"
    BY <2>1, StatusOfStates DEF Status
  <2>3. Status' = [Status EXCEPT ![last + 1] = "absent"]
    BY <2>1, <2>2 DEF Status
  <2>4. Lifecycle!Accept
    BY <2>1, <2>3 DEF Lifecycle!Accept
  <2>5. QED
    BY <2>4 DEF Lifecycle!Next
<1>3. ASSUME NEW i \in Ids, Cancel(i) PROVE [Lifecycle!Next]_<<Status, last>>
  <2>1. last' = last /\ row[i].state \in Active \cup {"queued"}
    BY <1>3 DEF Cancel
  <2>2. CASE row[i].state = "queued"
    <3>1. Status' = [Status EXCEPT ![i] = "cancelled"] /\ Status[i] = "queued"
      BY <1>3, <2>2, CancelStates, OneStatus, StatusOfStates DEF Terminal
    <3>2. Lifecycle!Cancel(i)
      BY <2>1, <3>1 DEF Lifecycle!Cancel
    <3>3. QED
      BY <3>2 DEF Lifecycle!Next, Ids
  <2>3. CASE row[i].state \in {"starting", "running"}
    <3>1. Status' = [Status EXCEPT ![i] = "stopping"] /\ Status[i] = "building"
      BY <1>3, <2>3, CancelStates, OneStatus, StatusOfStates
    <3>2. Lifecycle!Cancel(i)
      BY <2>1, <3>1 DEF Lifecycle!Cancel
    <3>3. QED
      BY <3>2 DEF Lifecycle!Next, Ids
  <2>4. CASE row[i].state = "cancelling"
    <3>1. SameStates
      BY <1>3, <2>4, CancelStates DEF OnlyState, SameStates
    <3>2. QED
      BY <2>1, <3>1, SameStatus
  <2>5. QED
    BY <2>1, <2>2, <2>3, <2>4 DEF Active
<1>4. ASSUME NEW i \in Ids, DeleteJob(i) PROVE Lifecycle!Next
  <2>1. /\ Status' = [Status EXCEPT ![i] = "absent"] /\ last' = last
        /\ Status[i] \in Terminal
    <3>1. row[i].state \in Terminal /\ OnlyState(i, "absent")
      BY <1>4, DeleteStates
    <3>2. Status' = [Status EXCEPT ![i] = StatusOf("absent")] /\ Status[i] = StatusOf(row[i].state)
      BY <3>1, OneStatus
    <3>3. QED
      BY <1>4, <3>1, <3>2, StatusOfStates DEF DeleteJob
  <2>2. Lifecycle!Delete(i)
    BY <2>1 DEF Lifecycle!Delete, Lifecycle!Verdicts, Terminal
  <2>3. QED
    BY <2>2 DEF Lifecycle!Next, Ids
<1>5. ASSUME NEW i \in Ids, Pick(i) PROVE [Lifecycle!Next]_<<Status, last>>
  <2>1. last' = last
    BY <1>5 DEF Pick
  <2>2. CASE SameStates
    BY <2>1, <2>2, SameStatus
  <2>3. CASE /\ row[i].state = "queued" /\ OnlyState(i, "starting")
             /\ \A k \in Ids : row[k].state \notin Active
             /\ \A k \in Ids : row[k].state = "queued" => i <= k
    <3>1. Status' = [Status EXCEPT ![i] = "building"] /\ Status[i] = "queued"
      BY <2>3, OneStatus, StatusOfStates
    <3>2. ASSUME NEW k \in Ids
          PROVE  Status[k] \notin {"building", "stopping"} /\ (Status[k] = "queued" => i <= k)
      <4>1. /\ Status[k] = StatusOf(row[k].state) /\ row[k].state \notin Active
            /\ row[k].state = "queued" => i <= k
        BY <2>3 DEF Status
      <4>2. row[k].state \in JobStates \ Active
        BY <4>1 DEF IInv, TypeOK, Rows
      <4>3. Status[k] = row[k].state
        BY <4>1, <4>2, StatusOfStates DEF JobStates
      <4>4. QED
        BY <4>1, <4>2, <4>3 DEF JobStates, Active, Terminal
    <3>3. Lifecycle!Begin(i)
      BY <2>1, <3>1, <3>2 DEF Lifecycle!Begin, Lifecycle!Ongoing, Ids
    <3>4. QED
      BY <3>3 DEF Lifecycle!Next, Ids
  <2>4. QED
    BY <1>5, <2>2, <2>3, PickStates
<1>6. CASE MarkRunning
  <2>1. last' = last
    BY <1>6 DEF MarkRunning
  <2> DEFINE i == worker.job
             s == IF row[i].state = "cancelling" THEN "cancelling" ELSE "running"
  <2>2. i \in Ids /\ row[i].state \in Active /\ OnlyState(i, s)
    BY <1>6, MarkStates
  <2>3. StatusOf(s) = StatusOf(row[i].state)
    BY <2>2, StatusOfStates DEF Active
  <2>4. Status' = [Status EXCEPT ![i] = Status[i]]
    BY <2>2, <2>3, OneStatus
  <2>5. Status' = Status
    BY <2>2, <2>4 DEF Status
  <2>6. QED
    BY <2>1, <2>5
<1>7. CASE Ends /\ last' = last
  BY <1>7, EndsIsEnd DEF Lifecycle!Next, Ids
<1>8. CASE SameStates /\ last' = last
  BY <1>8, SameStatus
<1>9. CASE Quiet
  <2>1. CASE last' = last
    BY <1>9, <1>8, <2>1, QuietStates DEF SameStates
  <2>2. CASE SubmitFails
    BY <1>2, <2>2
  <2>3. QED
    BY <1>9, <2>1, <2>2, QuietStates
<1>10. CASE Finish \/ FinishWithErrors
  <2>1. last' = last
    BY <1>10 DEF Finish, FinishWithErrors
  <2>2. Ends \/ SameStates
    BY <1>10, FinishStates
  <2>3. QED
    BY <1>7, <1>8, <2>1, <2>2
<1>11. CASE PassStep
  <2>1. last' = last
    BY <1>11 DEF PassStep, VmHolds, RemoveFiles, RemoveFails, SaveReclaimed, SaveFails
  <2>2. QED
    BY <1>8, <1>11, <2>1, PassStates
<1>12. ASSUME NEW i \in Ids, NEW on \in BOOLEAN, SetFavorite(i, on) \/ SetFavoriteUnpruned(i, on)
       PROVE  [Lifecycle!Next]_<<Status, last>>
  <2>1. last' = last
    BY <1>12 DEF SetFavorite, SetFavoriteUnpruned
  <2>2. QED
    BY <1>8, <1>12, <2>1, FavouriteStates
<1>13. CASE Request
  <2>1. \/ \E class \in Targets : Submit(class)
        \/ \E i \in Ids : Cancel(i) \/ DeleteJob(i)
        \/ \E i \in Ids, on \in BOOLEAN : SetFavorite(i, on) \/ SetFavoriteUnpruned(i, on)
        \/ Quiet
    BY <1>13 DEF Request, Quiet
  <2>2. QED
    BY <1>1, <1>3, <1>4, <1>9, <1>12, <2>1
<1>14. CASE WorkerStep
  <2>1. \/ \E i \in Ids : Pick(i)
        \/ MarkRunning \/ Finish \/ FinishWithErrors \/ Quiet
    BY <1>14 DEF WorkerStep, Quiet
  <2>2. QED
    BY <1>5, <1>6, <1>9, <1>10, <2>1
<1>15. CASE ~ Request /\ ~ WorkerStep
  <2>1. Quiet \/ PassStep
    BY <1>15 DEF Next, Quiet
  <2>2. QED
    BY <1>9, <1>11, <2>1
<1>16. QED
  BY <1>13, <1>14, <1>15

(* The queue keeps BuildLifecycle's promises (worker, cancel, finish, run, *)
(* deleteJob, submit): builds begin oldest first and one at a time,        *)
(* verdicts are final, what was cancelled ends cancelled -- through        *)
(* crashes, failed writes and lost containers.                             *)
THEOREM QueueImplementsLifecycle == Spec => LifecycleSpec
<1>1. Init => Lifecycle!Init
  <2> SUFFICES ASSUME Init PROVE Lifecycle!Init
    OBVIOUS
  <2>1. \A i \in Ids : Status[i] = "absent"
    BY NoRowRows, StatusOfStates DEF Init, Status
  <2>2. QED
    BY <2>1 DEF Lifecycle!Init, Lifecycle!Builds, Init, Status, Ids
<1>2. IInv /\ [Next]_vars => [Lifecycle!Next]_<<Status, last>>
  BY StepSimulation
<1>3. QED
  BY <1>1, <1>2, Invariance, PTL DEF Spec, LifecycleSpec, Lifecycle!Spec,
     Lifecycle!lifecycleVars

-------------------------------------------------------------------------------
(* One build at a time *)

LEMMA ContainersKept ==
  ASSUME ChildrenSurvive = FALSE, IInv, ContainersSound, [Next]_vars
  PROVE  ContainersSound'
<1> USE DEF ContainersSound
<1>1. ASSUME NEW class \in Targets, Submit(class) PROVE ContainersSound'
  <2>1. UNCHANGED <<container, worker, compose>>
    BY <1>1 DEF Submit
  <2>2. last + 1 \in Ids /\ last + 1 > last /\ OnlyState(last + 1, "queued")
    BY <1>1, SubmitStates DEF IInv, TypeOK
  <2>3. row[last + 1].state = "absent"
    BY <2>2 DEF IInv, NoneAhead
  <2>4. \A k \in Ids : row[k].state \in Active => row'[k].state \in Active
    BY <2>2, <2>3 DEF OnlyState, Active
  <2>5. QED
    BY <2>1, <2>4
<1>2. ASSUME NEW i \in Ids, Cancel(i) PROVE ContainersSound'
  BY <1>2, CancelStates DEF Cancel, OnlyState, Active
<1>3. ASSUME NEW i \in Ids, DeleteJob(i) PROVE ContainersSound'
  <2>1. UNCHANGED <<worker, compose>> /\ container[i] # "running"
    BY <1>3 DEF DeleteJob, Deletable
  <2>2. \A k \in Ids : container'[k] = "running" => container[k] = "running"
    BY <1>3 DEF DeleteJob, IInv, TypeOK
  <2>3. OnlyState(i, "absent")
    BY <1>3, DeleteStates
  <2>4. QED
    BY <2>1, <2>2, <2>3 DEF OnlyState, IInv, WorkerSound
<1>4. CASE UNCHANGED <<container, worker, compose>> /\ SameStates
  BY <1>4 DEF SameStates
<1>5. ASSUME NEW i \in Ids, NEW on \in BOOLEAN, SetFavorite(i, on) \/ SetFavoriteUnpruned(i, on)
      PROVE  ContainersSound'
  BY <1>4, <1>5, FavouriteStates DEF SetFavorite, SetFavoriteUnpruned
<1>6. ASSUME NEW i \in Ids, DeleteInterrupted(i) PROVE ContainersSound'
  <2>1. UNCHANGED <<row, worker, compose>>
    BY <1>6 DEF DeleteInterrupted
  <2>2. \A k \in Ids : container'[k] = "running" => container[k] = "running"
    BY <1>6 DEF DeleteInterrupted, IInv, TypeOK
  <2>3. QED
    BY <2>1, <2>2 DEF IInv, WorkerSound
<1>7. ASSUME NEW i \in Ids, Pick(i) PROVE ContainersSound'
  <2>1. UNCHANGED <<container, compose>> /\ worker'.at = "inspect"
    BY <1>7 DEF Pick, Idle
  <2>2. \A k \in Ids : row[k].state \in Active => row'[k].state \in Active
    BY <1>7, PickStates DEF SameStates, OnlyState, Active
  <2>3. QED
    BY <2>1, <2>2
<1>8. CASE MarkRunning
  <2>1. UNCHANGED <<container, compose>> /\ worker'.at = "loop"
    BY <1>8 DEF MarkRunning, GoTo, IInv, TypeOK, Workers
  <2>2. \A k \in Ids : row[k].state \in Active => row'[k].state \in Active
    BY <1>8, MarkStates DEF OnlyState, Active
  <2>3. QED
    BY <2>1, <2>2
<1>9. CASE Finish \/ FinishWithErrors
  <2>1. UNCHANGED <<container, compose>> /\ worker' = Idle /\ worker.at = "finish"
    BY <1>9 DEF Finish, FinishWithErrors, At
  <2>2. SameStates \/ Ends
    BY <1>9, FinishStates
  <2>3. \A k \in Ids : container[k] = "running" => row'[k].state = row[k].state
    BY <2>1, <2>2 DEF SameStates, Ends, OnlyState
  <2>4. QED
    BY <2>1, <2>3 DEF Idle
<1>10. CASE Crash
  BY <1>10 DEF Crash, Idle
<1>11. CASE PassStep
  <2>1. UNCHANGED <<container, worker, compose>>
    BY <1>11 DEF PassStep, VmHolds, RemoveFiles, RemoveFails, SaveReclaimed, SaveFails
  <2>2. QED
    BY <1>4, <1>11, <2>1, PassStates
<1>12. CASE \/ SubmitFails \/ VmEnd \/ Restart \/ RestartUnpruned \/ UNCHANGED vars
            \/ \E q \in VmRequests : VmClaim(q) \/ \E i \in Ids : VmCheck(q, i)
            \/ \E i \in Ids : BuildWrites(i)
  BY <1>12 DEF SubmitFails, VmClaim, VmEnd, VmCheck, BuildWrites, Restart, RestartUnpruned, vars
<1>13. ASSUME NEW i \in Ids, ContainerExits(i) \/ ExternalRemove(i) PROVE ContainersSound'
  BY <1>13 DEF ContainerExits, ExternalRemove, Exited, IInv, TypeOK, WorkerSound
<1>14. CASE FirstInspect
  <2>1. UNCHANGED <<container, row>> /\ worker \in Workers
    BY <1>14 DEF FirstInspect, IInv, TypeOK
  <2>2. \A c \in compose' : c.owned
    <3> DEFINE new == [job |-> worker.job, owned |-> TRUE, stage |-> "pulling"]
    <3>1. compose' = compose \/ compose' = compose \cup {new}
      BY <1>14 DEF FirstInspect
    <3>2. new.owned
      OBVIOUS
    <3> HIDE DEF new
    <3>3. QED
      BY <3>1, <3>2
  <2>3. /\ worker'.job = worker.job
        /\ worker'.at \in {"start", "finish"} => container[worker.job] # "running"
    BY <1>14, <2>1 DEF FirstInspect, GoTo, ToFinish, Workers, Exited
  <2>4. QED
    BY <2>1, <2>2, <2>3
<1>15. CASE InspectFails \/ CancelLaunch \/ RowFails \/ ReadRow \/ StopFails \/ LookFails
  <2>1. UNCHANGED <<container, row>> /\ compose' \subseteq compose
    BY <1>15 DEF InspectFails, CancelLaunch, RowFails, ReadRow, StopFails, LookFails
  <2>2. worker'.at \notin {"start", "finish"}
    <3>1. CASE InspectFails \/ RowFails
      BY <3>1 DEF InspectFails, RowFails, Idle
    <3>2. CASE CancelLaunch \/ StopFails \/ LookFails
      BY <3>2 DEF CancelLaunch, StopFails, LookFails, GoTo, IInv, TypeOK, Workers
    <3>3. CASE ReadRow
      BY <3>3 DEF ReadRow, IInv, TypeOK, Workers
    <3>4. QED
      BY <1>15, <3>1, <3>2, <3>3
  <2>3. QED
    BY <2>1, <2>2
<1>16. CASE AfterFailedLaunch
  BY <1>16 DEF AfterFailedLaunch, At, GoTo, ToFinish, IInv, TypeOK, Workers
<1>17. CASE StartCreated
  BY <1>17 DEF StartCreated, At, GoTo, ToFinish, IInv, TypeOK, WorkerSound, Workers
<1>18. CASE StartFails
  BY <1>18 DEF StartFails, At, ToFinish, IInv, TypeOK, Workers
<1>19. CASE StopContainer
  BY <1>19 DEF StopContainer, At, GoTo, Exited, IInv, TypeOK, Workers
<1>20. CASE Look
  BY <1>20 DEF Look, At, GoTo, ToFinish, Exited, IInv, TypeOK, Workers
<1>21. ASSUME NEW c \in compose, ComposeCreate(c) PROVE ContainersSound'
  BY <1>21 DEF ComposeCreate, IInv, TypeOK, Clients, ClientsSound, Workers
<1>22. ASSUME NEW c \in compose, ComposeStart(c) PROVE ContainersSound'
  BY <1>22 DEF ComposeStart, IInv, TypeOK, Clients, ClientsSound, WorkerSound, Workers
<1>23. ASSUME NEW c \in compose, ComposeFails(c) PROVE ContainersSound'
  BY <1>23 DEF ComposeFails, IInv, TypeOK, Clients, ClientsSound, Workers
<1>24. QED
  <2>1. CASE Request
    BY <2>1, <1>1, <1>2, <1>3, <1>5, <1>6, <1>12 DEF Request
  <2>2. CASE WorkerStep
    BY <2>2, <1>7, <1>8, <1>9, <1>14, <1>15, <1>16, <1>17, <1>18, <1>19, <1>20 DEF WorkerStep
  <2>3. CASE ComposeStep
    BY <2>3, <1>21, <1>22, <1>23 DEF ComposeStep
  <2>4. CASE \E i \in Ids : BuildWrites(i) \/ ContainerExits(i) \/ ExternalRemove(i)
    BY <2>4, <1>12, <1>13
  <2>5. QED
    BY <2>1, <2>2, <2>3, <2>4, <1>10, <1>11, <1>12 DEF Next

(* If the service manager takes the compose clients down with the server,  *)
(* at most one container ever runs, and only for the build the table says  *)
(* is under way (worker, run, launch, finish, deleteJob).                  *)
THEOREM OneAtATime == ChildrenSurvive = FALSE => (Spec => []OneBuildAtATime)
<1> SUFFICES ASSUME ChildrenSurvive = FALSE PROVE Spec => []OneBuildAtATime
  OBVIOUS
<1>1. Init => ContainersSound
  BY DEF Init, ContainersSound, Idle
<1>2. IInv /\ ContainersSound /\ [Next]_vars => ContainersSound'
  BY ContainersKept
<1>3. IInv /\ ContainersSound => OneBuildAtATime
  BY DEF IInv, SingleActive, ContainersSound, OneBuildAtATime
<1>4. QED
  BY <1>1, <1>2, <1>3, Invariance, PTL DEF Spec

-------------------------------------------------------------------------------
(* How many builds retention leaves *)

(* A set of numbers has a least element. *)
LEMMA LeastExists ==
  ASSUME NEW S \in SUBSET Nat, S # {}
  PROVE  \E n \in S : \A m \in S : n <= m
<1> DEFINE R == OpToRel(<, Nat)
<1>1. PICK n \in S : \A m \in S : <<m, n>> \notin R
  BY NatLessThanWellFounded, WFMin
<1>2. ASSUME NEW m \in S
      PROVE  n <= m
  <2>1. ~ (m < n)
    BY <1>1 DEF OpToRel
  <2>2. QED
    BY <2>1
<1>3. QED
  BY <1>2

(* The newest builds of a set, K of them or all there are: those with      *)
(* fewer than K newer ones in it.                                          *)
Newest(S, K) == {i \in S : Cardinality({k \in S : k > i}) < K}

LEMMA NewestEnough ==
  ASSUME NEW S \in SUBSET Nat, IsFiniteSet(S), NEW K \in Nat, K <= Cardinality(S)
  PROVE  K <= Cardinality(Newest(S, K))
<1> DEFINE T       == Newest(S, K)
           over(i) == {k \in S : k > i}
           rank    == {Cardinality(over(i)) : i \in S \ T}
<1>1. /\ IsFiniteSet(T) /\ Cardinality(T) \in Nat
      /\ \A i \in S : IsFiniteSet(over(i)) /\ Cardinality(over(i)) \in Nat
  <2>1. T \subseteq S /\ \A i \in S : over(i) \subseteq S
    BY DEF Newest
  <2> HIDE DEF T, over
  <2>2. QED
    BY <2>1, FS_Subset, FS_CardinalityType
<1>2. CASE S \ T = {}
  <2>1. T = S
    BY <1>2 DEF Newest
  <2>2. QED
    BY <2>1
<1>3. CASE S \ T # {}
  <2>1. rank \in SUBSET Nat /\ rank # {}
    BY <1>1, <1>3
  <2>2. PICK n \in rank : \A m \in rank : n <= m
    BY <2>1, LeastExists
  <2>3. PICK i \in S \ T : n = Cardinality(over(i))
    OBVIOUS
  <2>4. ASSUME NEW k \in over(i), k \notin T
        PROVE  FALSE
    <3>1. k \in S \ T /\ i \in Nat /\ k \in Nat /\ k > i
      BY <2>3, <2>4
    <3>2. over(k) \subseteq over(i) /\ k \in over(i) /\ k \notin over(k)
      <4>1. ASSUME NEW j \in over(k)
            PROVE  j \in over(i)
        <5>1. j \in S /\ j \in Nat /\ j > k
          OBVIOUS
        <5>2. j > i
          BY <3>1, <5>1
        <5>3. QED
          BY <5>1, <5>2
      <4>2. over(k) \subseteq over(i)
        BY <4>1
      <4>3. k \notin over(k)
        BY <3>1
      <4>4. k \in over(i)
        OBVIOUS
      <4>5. QED
        BY <4>2, <4>3, <4>4
    <3>3. Cardinality(over(k)) < Cardinality(over(i))
      <4>1. over(k) # over(i)
        BY <3>2
      <4>2. /\ IsFiniteSet(over(i)) /\ Cardinality(over(i)) \in Nat
            /\ Cardinality(over(k)) \in Nat
        BY <1>1, <2>3, <3>1
      <4> HIDE DEF over
      <4>3. QED
        BY <3>2, <4>1, <4>2, FS_Subset
    <3>4. Cardinality(over(k)) \in rank
      BY <3>1
    <3>5. QED
      BY <1>1, <2>2, <2>3, <3>1, <3>3, <3>4
  <2>5. over(i) \subseteq T
    BY <2>4
  <2>6. K <= Cardinality(over(i))
    BY <1>1, <2>3 DEF Newest
  <2>7. Cardinality(over(i)) <= Cardinality(T)
    BY <1>1, <2>5, FS_Subset
  <2>8. QED
    BY <1>1, <2>3, <2>6, <2>7
<1>4. QED
  BY <1>2, <1>3

LEMMA NewestFew ==
  ASSUME NEW S \in SUBSET Nat, IsFiniteSet(S), NEW K \in Nat
  PROVE  /\ IsFiniteSet(Newest(S, K))
         /\ Cardinality(Newest(S, K)) <= K
<1> DEFINE T       == Newest(S, K)
           over(i) == {k \in S : k > i}
<1>1. T \subseteq S /\ IsFiniteSet(T) /\ Cardinality(T) \in Nat
  <2>1. T \subseteq S
    BY DEF Newest
  <2>2. QED
    BY <2>1, FS_Subset, FS_CardinalityType
<1>2. CASE T = {}
  BY <1>2, <1>1, FS_EmptySet
<1>3. CASE T # {}
  <2>1. PICK i \in T : \A k \in T : i <= k
    <3>1. T \in SUBSET Nat
      BY <1>1
    <3> HIDE DEF T
    <3>2. QED
      BY <1>3, <3>1, LeastExists
  <2>2. i \in S /\ Cardinality(over(i)) < K
    BY DEF Newest
  <2>3. IsFiniteSet(over(i)) /\ Cardinality(over(i)) \in Nat /\ i \notin over(i)
    <3>1. over(i) \subseteq S
      OBVIOUS
    <3>2. i \notin over(i)
      BY <2>2
    <3>3. QED
      BY <3>1, <3>2, FS_Subset, FS_CardinalityType
  <2>4. T \subseteq over(i) \cup {i}
    <3>1. ASSUME NEW k \in T, k # i
          PROVE  k \in over(i)
      <4>1. k \in S /\ k \in Nat /\ i \in Nat /\ i <= k
        BY <1>1, <2>1, <2>2
      <4>2. k > i
        BY <3>1, <4>1
      <4>3. QED
        BY <4>1, <4>2
    <3>2. QED
      BY <3>1
  <2>5. /\ IsFiniteSet(over(i) \cup {i})
        /\ Cardinality(over(i) \cup {i}) = Cardinality(over(i)) + 1
    BY <2>3, FS_AddElement
  <2>6. Cardinality(T) <= Cardinality(over(i)) + 1
    BY <2>4, <2>5, FS_Subset
  <2>7. QED
    BY <1>1, <2>2, <2>3, <2>6
<1>4. QED
  BY <1>2, <1>3


LEMMA NewerFinite ==
  ASSUME NEW rows \in [Ids -> Rows], NEW i \in Ids
  PROVE  /\ Newer(rows, i) \in SUBSET Nat
         /\ IsFiniteSet(Newer(rows, i))
         /\ Cardinality(Newer(rows, i)) \in Nat
<1>1. Newer(rows, i) \subseteq Ids /\ Ids \subseteq Nat
  BY QueueAssumption DEF Newer, Ids
<1>2. IsFiniteSet(Ids)
  BY QueueAssumption, FS_Interval DEF Ids
<1>3. QED
  BY <1>1, <1>2, FS_Subset, FS_CardinalityType

(* Reclaiming takes the older builds of a class only: whoever had          *)
(* KeepBuilds newer holders before it has as many after it.                *)
LEMMA WindowAtLeast ==
  ASSUME NEW rows \in [Ids -> Rows], NEW held, NEW saved, saved \subseteq Expired(rows, held),
         NEW i \in Ids, KeepBuilds <= Cardinality(Newer(rows, i))
  PROVE  KeepBuilds <= Cardinality(Newer(Reclaimed(rows, saved), i))
<1> DEFINE S     == Newer(rows, i)
           T     == Newest(S, KeepBuilds)
           after == Reclaimed(rows, saved)
<1>1. /\ S \in SUBSET Nat /\ IsFiniteSet(S) /\ S \subseteq Ids
      /\ after \in [Ids -> Rows]
  <2>1. S \subseteq Ids
    BY DEF Newer
  <2>2. after \in [Ids -> Rows]
    BY DEF Reclaimed, Rows
  <2>3. QED
    BY <2>1, <2>2, NewerFinite
<1>2. KeepBuilds <= Cardinality(T)
  BY <1>1, NewestEnough, KeepBuildsAssumption
<1>3. ASSUME NEW k \in T
      PROVE  k \in Newer(after, i)
  <2>1. k \in S /\ Cardinality({j \in S : j > k}) < KeepBuilds
    BY DEF Newest
  <2>2. k \in Ids /\ k > i /\ Occupies(rows, k) /\ rows[k].class = rows[i].class
    BY <2>1 DEF Newer
  <2>3. {j \in S : j > k} = Newer(rows, k)
    <3>1. ASSUME NEW j \in Ids, j > k
          PROVE  j > i
      BY <2>2, <3>1, QueueAssumption DEF Ids
    <3>2. QED
      BY <2>2, <3>1 DEF Newer
  <2>4. k \notin saved
    BY <2>1, <2>3 DEF Expired, InWindow
  <2>5. after[k] = rows[k] /\ after[i].class = rows[i].class
    BY <2>2, <2>4 DEF Reclaimed, Rows
  <2>6. DOMAIN after = Ids
    BY <1>1
  <2>7. QED
    BY <2>2, <2>5, <2>6 DEF Newer, Occupies
<1>4. T \subseteq Newer(after, i)
  BY <1>3
<1>5. /\ IsFiniteSet(Newer(after, i)) /\ Cardinality(Newer(after, i)) \in Nat
      /\ Cardinality(T) <= Cardinality(Newer(after, i))
      /\ Cardinality(T) \in Nat
  <2>1. IsFiniteSet(Newer(after, i)) /\ Cardinality(Newer(after, i)) \in Nat
    BY <1>1, NewerFinite
  <2> HIDE DEF T, after
  <2>2. QED
    BY <1>4, <2>1, FS_Subset, FS_CardinalityType
<1>6. QED
  BY <1>2, <1>5, KeepBuildsAssumption

(* The holders of slots of a class that no favourite mark protects. *)
Plain(rows, c) == {i \in Ids : Occupies(rows, i) /\ rows[i].class = c /\ ~ rows[i].fav}

LEMMA PlainFinite ==
  ASSUME NEW rows, NEW c
  PROVE  IsFiniteSet(Plain(rows, c)) /\ Cardinality(Plain(rows, c)) \in Nat
<1>1. IsFiniteSet(Ids) /\ Plain(rows, c) \subseteq Ids
  BY QueueAssumption, FS_Interval DEF Ids, Plain
<1>2. QED
  BY <1>1, FS_Subset, FS_CardinalityType

(* Outside the favourites a class holds the KeepBuilds builds of its       *)
(* window and whatever fell out of it and is still there.                  *)
LEMMA WindowAtMost ==
  ASSUME NEW rows \in [Ids -> Rows], NEW spared, IsFiniteSet(spared),
         Expired(rows, 0) \subseteq spared, NEW c
  PROVE  Cardinality(Plain(rows, c)) <= KeepBuilds + Cardinality(spared)
<1> DEFINE S == {i \in Ids : Occupies(rows, i) /\ rows[i].class = c}
           T == Newest(S, KeepBuilds)
           P == Plain(rows, c)
<1>1. S \in SUBSET Nat /\ IsFiniteSet(S)
  <2>1. S \subseteq Ids /\ Ids \subseteq Nat /\ IsFiniteSet(Ids)
    BY QueueAssumption, FS_Interval DEF Ids
  <2>2. QED
    BY <2>1, FS_Subset
<1>2. /\ IsFiniteSet(T) /\ Cardinality(T) <= KeepBuilds /\ Cardinality(T) \in Nat
  <2> HIDE DEF S
  <2>1. QED
    BY <1>1, NewestFew, FS_CardinalityType, KeepBuildsAssumption
<1>3. ASSUME NEW i \in P
      PROVE  i \in T \/ i \in spared
  <2>1. i \in Ids /\ i # 0 /\ Occupies(rows, i) /\ rows[i].class = c /\ ~ rows[i].fav
    BY DEF Plain, Ids
  <2>2. InWindow(rows, i) \/ i \in spared
    BY <2>1 DEF Expired
  <2>3. Newer(rows, i) = {k \in S : k > i}
    BY <2>1 DEF Newer
  <2>4. QED
    BY <2>1, <2>2, <2>3 DEF InWindow, Newest
<1>4. /\ IsFiniteSet(T \cup spared)
      /\ Cardinality(T \cup spared) \in Nat /\ Cardinality(spared) \in Nat
      /\ Cardinality(T \cup spared) <= Cardinality(T) + Cardinality(spared)
  <2> HIDE DEF T
  <2>1. /\ IsFiniteSet(T \cup spared) /\ IsFiniteSet(T \cap spared)
        /\ Cardinality(T \cup spared)
             = Cardinality(T) + Cardinality(spared) - Cardinality(T \cap spared)
    BY <1>2, FS_Union, FS_Intersection
  <2>2. /\ Cardinality(T \cap spared) \in Nat /\ Cardinality(spared) \in Nat
        /\ Cardinality(T \cup spared) \in Nat
    BY <2>1, FS_CardinalityType
  <2>3. QED
    BY <1>2, <2>1, <2>2
<1>5. P \subseteq T \cup spared
  BY <1>3
<1>6. Cardinality(P) <= Cardinality(T \cup spared) /\ Cardinality(P) \in Nat
  BY <1>4, <1>5, FS_Subset, PlainFinite
<1> HIDE DEF P, T
<1>7. Cardinality(P) <= KeepBuilds + Cardinality(spared)
  BY <1>2, <1>4, <1>6, KeepBuildsAssumption
<1>8. QED
  BY <1>7 DEF P

-------------------------------------------------------------------------------
(* The steps of retention, and the others *)

(* Retention meets an error: a table it cannot read, a verdict that is not *)
(* saved, a file it cannot remove, a row it cannot save; all only logged.  *)
RetentionFails ==
  \/ FinishWithErrors \/ RestartUnpruned
  \/ \E i \in Ids : RemoveFails(i) \/ SaveFails(i)
  \/ \E i \in Ids, on \in BOOLEAN : SetFavoriteUnpruned(i, on)

(* Ids that were not handed out have nothing on disk and no class.         *)
NothingAhead == \A i \in Ids : i > last => row[i].class = "none" /\ disk[i] = {}

(* What finish is about to record as collected is there.                   *)
Collected == worker.at = "finish" /\ worker.arts => "files" \in disk[worker.job]

(* A process that is down holds no machine.                                *)
SlotSound == ~ up => vm = 0

(* What a pass has still to visit is expired, although the table was read  *)
(* when it began.                                                          *)
PassSound ==
  /\ prune.at = "none" <=> prune.left = {}
  /\ prune.left \subseteq Expired(row, 0)

RInv == IInv /\ NothingAhead /\ Collected /\ SlotSound /\ PassSound

(* No concern of a pass or of the machine. *)
Aside == UNCHANGED <<prune, up, vm, booting>> /\ spent'["vms"] = spent["vms"]

(* A step of that kind: files go only with the directory, nobody comes to  *)
(* hold a slot or to list files, and the table waits for a.mu.             *)
Calm ==
  /\ Aside
  /\ ~ Unlocked => row' = row
  /\ last <= last'
  /\ \A i \in Ids :
       /\ row'[i].arts => row[i].arts /\ ("dir" \in disk'[i] => "dir" \in disk[i])
       /\ "files" \in disk[i] /\ "dir" \in disk'[i] => "files" \in disk'[i]
       /\ Occupies(row', i) =>
            /\ Occupies(row, i) /\ row'[i].class = row[i].class
            /\ row[i].fav => row'[i].fav
       /\ i > last' => row'[i].class = row[i].class /\ disk'[i] \subseteq disk[i]

MachineStep ==
  \/ \E q \in VmRequests : VmClaim(q) \/ \E i \in Ids : VmCheck(q, i)
  \/ VmEnd

(* The tables retention is run on. *)
Swept(rows) ==
  \/ rows = row
  \/ up /\ worker.at = "finish" /\ rows = FinishedRows
  \/ up /\ \E i \in Ids, on \in BOOLEAN : CanFavour(i, on) /\ rows = Favoured(i, on)

(* finish, setFavorite or main begins a pass, or fails to. *)
Begins ==
  /\ UNCHANGED <<last, disk, vm, booting>> /\ spent'["vms"] = spent["vms"]
  /\ prune.at = "none"
  /\ row' \in [Ids -> Rows] /\ Swept(row')
  /\ \/ PruneLocked(row')
     \/ RetentionFails /\ prune' = NoPass /\ up'

LEMMA WithStateElse ==
  ASSUME row \in [Ids -> Rows], NEW i \in Ids, NEW s \in JobStates, NEW k \in Ids
  PROVE  /\ WithState(i, s)[k].class = row[k].class
         /\ WithState(i, s)[k].arts = row[k].arts
         /\ WithState(i, s)[k].fav = row[k].fav
         /\ WithState(i, s)[k].pruned = row[k].pruned
  BY DEF Rows, WithState

LEMMA FavouredElse ==
  ASSUME row \in [Ids -> Rows], NEW i \in Ids, NEW on \in BOOLEAN, NEW k \in Ids
  PROVE  /\ Favoured(i, on)[k].class = row[k].class
         /\ Favoured(i, on)[k].arts = row[k].arts
  BY DEF Rows, Favoured

LEMMA FinishedElse ==
  ASSUME row \in [Ids -> Rows], worker.job \in Ids, worker.verdict \in Terminal,
         worker.arts \in BOOLEAN, NEW k \in Ids
  PROVE  /\ FinishedRows \in [Ids -> Rows]
         /\ FinishedRows[k].class = row[k].class
         /\ FinishedRows[k].arts = IF k = worker.job THEN worker.arts ELSE row[k].arts
<1> DEFINE r == [row[worker.job] EXCEPT !.state = FinalState, !.arts = worker.arts]
<1>1. FinalState \in JobStates
  BY DEF FinalState, JobStates, Terminal
<1>2. row[worker.job] \in Rows
  OBVIOUS
<1>3. r \in Rows /\ r.class = row[worker.job].class /\ r.arts = worker.arts
  BY <1>1, <1>2 DEF Rows
<1>4. FinishedRows = [row EXCEPT ![worker.job] = r]
  BY DEF FinishedRows
<1> HIDE DEF r
<1>5. FinishedRows \in [Ids -> Rows]
  BY <1>3, <1>4
<1>6. FinishedRows[k] = IF k = worker.job THEN r ELSE row[k]
  BY <1>4
<1>7. QED
  BY <1>3, <1>5, <1>6

LEMMA FaultAside ==
  ASSUME IInv, Spend("faults") \/ UNCHANGED spent
  PROVE  spent'["vms"] = spent["vms"]
  BY DEF IInv, TypeOK, Spend, Budgets

(* A table with one state changed to anything but succeeded.               *)
LEMMA WithStateCalm ==
  ASSUME IInv, Unlocked, Aside, last' = last, disk' = disk, NEW i \in Ids, NEW s \in JobStates,
         s # "succeeded", row' = WithState(i, s)
  PROVE  Calm
<1>1. row \in [Ids -> Rows] /\ last \in Nat
  BY QueueAssumption DEF IInv, TypeOK
<1>2. ASSUME NEW k \in Ids
      PROVE  /\ row'[k].class = row[k].class
             /\ row'[k].arts = row[k].arts
             /\ row'[k].fav = row[k].fav
             /\ row'[k].pruned = row[k].pruned
             /\ row'[k].state = "succeeded" => row[k].state = "succeeded"
  BY <1>1, WithStateElse, WithStateRows
<1>3. last <= last'
  BY <1>1
<1>4. QED
  BY <1>2, <1>3 DEF Calm, Occupies

LEMMA StillCalm ==
  ASSUME IInv, Aside, row' = row, last' = last, disk' = disk
  PROVE  Calm
<1>1. last <= last'
  BY QueueAssumption DEF IInv, TypeOK
<1>2. QED
  BY <1>1 DEF Calm

(* Only the directory entries of one build change.                         *)
LEMMA DiskCalm ==
  ASSUME IInv, Aside, row' = row, last' = last, NEW i \in Ids, i <= last,
         NEW entries, disk' = [disk EXCEPT ![i] = entries],
         "dir" \in entries => "dir" \in disk[i],
         "files" \in disk[i] /\ "dir" \in entries => "files" \in entries
  PROVE  Calm
<1>1. last \in Nat /\ disk \in [Ids -> SUBSET {"dir", "log", "files"}] /\ Ids \subseteq Nat
  BY QueueAssumption DEF IInv, TypeOK, Ids
<1>2. \A k \in Ids : disk'[k] = IF k = i THEN entries ELSE disk[k]
  BY <1>1
<1>3. last <= last' /\ ~ (i > last')
  BY <1>1
<1>4. QED
  BY <1>2, <1>3 DEF Calm

LEMMA RequestShapes ==
  ASSUME IInv, NothingAhead, PassSound, Request
  PROVE  Calm \/ MachineStep \/ Begins
<1>1. /\ row \in [Ids -> Rows] /\ last \in Nat /\ up \in BOOLEAN /\ prune \in Passes
      /\ disk \in [Ids -> SUBSET {"dir", "log", "files"}]
  BY QueueAssumption DEF IInv, TypeOK
<1>2. ASSUME NEW class \in Targets, Submit(class) PROVE Calm
  <2>1. /\ Unlocked /\ Aside /\ last' = last + 1
        /\ row' = [row EXCEPT ![last + 1] = QueuedRow(class)]
        /\ disk' = [disk EXCEPT ![last + 1] = {"dir", "log"}]
    BY <1>2 DEF Submit, Aside
  <2>2. ~ QueuedRow(class).arts /\ QueuedRow(class).state = "queued"
    BY DEF QueuedRow, NoRow
  <2>3. \A k \in Ids : /\ row'[k] = IF k = last + 1 THEN QueuedRow(class) ELSE row[k]
                       /\ disk'[k] = IF k = last + 1 THEN {"dir", "log"} ELSE disk[k]
    BY <1>1, <2>1
  <2>4. ASSUME NEW k \in Ids
        PROVE  /\ row'[k].arts => row[k].arts /\ ("dir" \in disk'[k] => "dir" \in disk[k])
               /\ "files" \in disk[k] /\ "dir" \in disk'[k] => "files" \in disk'[k]
               /\ Occupies(row', k) =>
                    /\ Occupies(row, k) /\ row'[k].class = row[k].class
                    /\ row[k].fav => row'[k].fav
               /\ k > last' => row'[k].class = row[k].class /\ disk'[k] \subseteq disk[k]
    <3>1. CASE k = last + 1
      <4>1. disk[k] = {}
        BY <1>1, <3>1 DEF NothingAhead
      <4>2. row'[k] = QueuedRow(class) /\ ~ (k > last')
        BY <1>1, <2>1, <2>3, <3>1
      <4>3. QED
        BY <2>2, <4>1, <4>2 DEF Occupies
    <3>2. CASE k # last + 1
      BY <2>3, <3>2 DEF Occupies
    <3>3. QED
      BY <3>1, <3>2
  <2>5. last <= last'
    BY <1>1, <2>1
  <2>6. QED
    BY <2>1, <2>4, <2>5 DEF Calm
<1>3. CASE SubmitFails
  <2>1. /\ Aside /\ last' = last + 1 /\ row' = row
        /\ disk' = [disk EXCEPT ![last + 1] = {"log"}]
    BY <1>3, FaultAside DEF SubmitFails, Aside
  <2>2. \A k \in Ids : disk'[k] = IF k = last + 1 THEN {"log"} ELSE disk[k]
    BY <1>1, <2>1
  <2>3. \A k \in Ids : k > last' => k # last + 1
    BY <1>1, <2>1
  <2>4. last <= last'
    BY <1>1, <2>1
  <2>5. QED
    BY <2>1, <2>2, <2>3, <2>4 DEF Calm
<1>4. ASSUME NEW i \in Ids, Cancel(i) PROVE Calm
  <2> DEFINE s == IF row[i].state = "queued" THEN "cancelled" ELSE "cancelling"
  <2>1. /\ Unlocked /\ Aside /\ last' = last /\ disk' = disk /\ row' = WithState(i, s)
    BY <1>4 DEF Cancel, Aside
  <2>2. s \in JobStates /\ s # "succeeded"
    BY DEF JobStates, Terminal, Active
  <2> HIDE DEF s
  <2>3. QED
    BY <2>1, <2>2, WithStateCalm
<1>5. ASSUME NEW i \in Ids, DeleteJob(i) PROVE Calm
  <2>1. /\ Unlocked /\ Aside /\ last' = last /\ row[i].state \in Terminal
        /\ row' = [row EXCEPT ![i] = NoRow]
        /\ disk' = [disk EXCEPT ![i] = {}]
    BY <1>5, FaultAside DEF DeleteJob, Deletable, Aside
  <2>2. \A k \in Ids : /\ row'[k] = IF k = i THEN NoRow ELSE row[k]
                       /\ disk'[k] = IF k = i THEN {} ELSE disk[k]
    BY <1>1, <2>1
  <2>3. ~ (i > last')
    BY <2>1 DEF IInv, NoneAhead, Terminal
  <2>4. ~ NoRow.arts /\ NoRow.state = "absent"
    BY DEF NoRow
  <2>5. last <= last'
    BY <1>1, <2>1
  <2>6. QED
    BY <2>1, <2>2, <2>3, <2>4, <2>5 DEF Calm, Occupies
<1>6. ASSUME NEW i \in Ids, DeleteInterrupted(i) PROVE Calm
  <2>1. PICK gone \in {{"dir"}, {"dir", "files"}, {"dir", "files", "log"}} :
           disk' = [disk EXCEPT ![i] = @ \ gone]
    BY <1>6 DEF DeleteInterrupted
  <2>2. disk' = [disk EXCEPT ![i] = disk[i] \ gone] /\ "dir" \notin disk[i] \ gone
    BY <1>1, <2>1
  <2>3. Aside /\ row' = row /\ last' = last /\ row[i].state \in Terminal
    BY <1>6, FaultAside DEF DeleteInterrupted, Deletable, Aside
  <2>4. i <= last
    BY <1>1, <2>3, QueueAssumption DEF IInv, NoneAhead, Terminal, Ids
  <2>5. QED
    BY <2>2, <2>3, <2>4, DiskCalm
<1>7. ASSUME NEW i \in Ids, NEW on \in BOOLEAN, SetFavorite(i, on) \/ SetFavoriteUnpruned(i, on)
      PROVE  Begins
  <2>1. /\ UNCHANGED <<last, disk, vm, booting>> /\ spent'["vms"] = spent["vms"]
        /\ prune.at = "none" /\ up /\ CanFavour(i, on) /\ row' = Favoured(i, on)
    BY <1>7, FaultAside DEF SetFavorite, SetFavoriteUnpruned, CanFavour, Unlocked
  <2>2. row' \in [Ids -> Rows] /\ Swept(row')
    BY <1>1, <2>1, FavouredRows DEF Swept
  <2>3. prune = NoPass
    BY <1>1, <2>1 DEF PassSound, Passes, NoPass
  <2>4. PruneLocked(row') \/ (RetentionFails /\ prune' = NoPass /\ up')
    BY <1>7, <2>1, <2>3 DEF SetFavorite, SetFavoriteUnpruned, RetentionFails
  <2>5. QED
    BY <2>1, <2>2, <2>4 DEF Begins
<1>8. QED
  BY <1>2, <1>3, <1>4, <1>5, <1>6, <1>7 DEF Request, MachineStep

LEMMA WorkerShapes ==
  ASSUME IInv, PassSound, WorkerStep
  PROVE  Calm \/ Begins
<1>1. /\ row \in [Ids -> Rows] /\ last \in Nat /\ up \in BOOLEAN /\ worker \in Workers
      /\ disk \in [Ids -> SUBSET {"dir", "log", "files"}]
  BY QueueAssumption DEF IInv, TypeOK
<1>2. worker.at # "idle" => worker.job \in Ids /\ worker.job <= last /\ up
  BY <1>1, QueueAssumption DEF IInv, NoneAhead, WorkerSound, Active, Ids
<1>3. ASSUME NEW i \in Ids, Pick(i) PROVE Calm
  <2> DEFINE s == IF row[i].state = "queued" THEN "starting" ELSE row[i].state
  <2>1. Unlocked /\ Aside /\ last' = last /\ disk' = disk /\ row' = WithState(i, s)
    BY <1>3 DEF Pick, Aside
  <2>2. row[i].state \in Active \cup {"queued"}
    BY <1>3 DEF Pick, Candidates, UnderWay, Waiting
  <2>3. s \in JobStates /\ s # "succeeded"
    BY <2>2 DEF JobStates, Active
  <2> HIDE DEF s
  <2>4. QED
    BY <2>1, <2>3, WithStateCalm
<1>4. CASE MarkRunning
  <2> DEFINE s == IF row[worker.job].state = "cancelling" THEN "cancelling" ELSE "running"
  <2>1. /\ Unlocked /\ Aside /\ last' = last /\ disk' = disk
        /\ row' = WithState(worker.job, s) /\ worker.job \in Ids
    BY <1>2, <1>4 DEF MarkRunning, At, Aside
  <2>2. s \in JobStates /\ s # "succeeded"
    BY DEF JobStates, Active
  <2> HIDE DEF s
  <2>3. QED
    BY <2>1, <2>2, WithStateCalm
<1>5. CASE Look
  <2>1. Aside /\ row' = row /\ last' = last /\ worker.job \in Ids /\ worker.job <= last
    BY <1>2, <1>5 DEF Look, At, Aside
  <2>2. \/ disk' = disk
        \/ disk' = [disk EXCEPT ![worker.job] = disk[worker.job] \cup {"files"}]
    BY <1>5 DEF Look
  <2>3. QED
    BY <2>1, <2>2, StillCalm, DiskCalm
<1>6. CASE \/ FirstInspect \/ InspectFails \/ CancelLaunch \/ AfterFailedLaunch
           \/ StartCreated \/ StartFails \/ RowFails
  <2>1. Aside /\ row' = row /\ last' = last /\ disk' = disk
    BY <1>6, FaultAside DEF FirstInspect, InspectFails, CancelLaunch, AfterFailedLaunch,
                StartCreated, StartFails, RowFails, Aside
  <2>2. QED
    BY <2>1, StillCalm
<1>7. CASE ReadRow \/ StopContainer \/ StopFails \/ LookFails
  <2>1. Aside /\ row' = row /\ last' = last /\ disk' = disk
    BY <1>7, FaultAside DEF ReadRow, StopContainer, StopFails, LookFails, Aside
  <2>2. QED
    BY <2>1, StillCalm
<1>8. CASE Finish \/ FinishWithErrors
  <2>1. /\ UNCHANGED <<last, disk, vm, booting>> /\ spent'["vms"] = spent["vms"]
        /\ prune.at = "none" /\ up /\ worker.at = "finish" /\ row' \in {row, FinishedRows}
    BY <1>8, FaultAside DEF Finish, FinishWithErrors, At, Unlocked
  <2>2. worker.verdict \in Terminal /\ worker.arts \in BOOLEAN /\ worker.job \in Ids
    BY <1>1, <1>2, <2>1 DEF IInv, WorkerSound, Workers
  <2>3. row' \in [Ids -> Rows] /\ Swept(row')
    BY <1>1, <2>1, <2>2, FinishedRowsRows DEF Swept
  <2>4. PruneLocked(row') \/ (RetentionFails /\ prune' = NoPass /\ up')
    BY <1>8, <2>1 DEF Finish, FinishWithErrors, PruneLocked, Proceed, NoPass, RetentionFails
  <2>5. QED
    BY <2>1, <2>3, <2>4 DEF Begins
<1>9. QED
  BY <1>3, <1>4, <1>5, <1>6, <1>7, <1>8 DEF WorkerStep

LEMMA StepShapes ==
  ASSUME IInv, NothingAhead, PassSound, [Next]_vars
  PROVE  Calm \/ MachineStep \/ Begins \/ PassStep \/ Crash
<1>1. /\ row \in [Ids -> Rows] /\ last \in Nat /\ up \in BOOLEAN
      /\ disk \in [Ids -> SUBSET {"dir", "log", "files"}]
  BY QueueAssumption DEF IInv, TypeOK
<1>2. CASE ComposeStep
  <2>1. Aside /\ row' = row /\ last' = last /\ disk' = disk
    BY <1>2, FaultAside DEF ComposeStep, ComposeCreate, ComposeStart, ComposeFails, Aside
  <2>2. QED
    BY <2>1, StillCalm
<1>3. ASSUME NEW i \in Ids, BuildWrites(i) PROVE Calm
  <2>1. /\ Aside /\ row' = row /\ last' = last /\ row[i].class = "iso"
        /\ disk' = [disk EXCEPT ![i] = disk[i] \cup {"files"}]
        /\ "dir" \in disk[i]
    BY <1>3 DEF BuildWrites, Aside
  <2>2. i <= last
    BY <1>1, <2>1, QueueAssumption DEF NothingAhead, Ids
  <2>3. QED
    BY <2>1, <2>2, DiskCalm
<1>4. ASSUME NEW i \in Ids, ContainerExits(i) \/ ExternalRemove(i) PROVE Calm
  <2>1. Aside /\ row' = row /\ last' = last /\ disk' = disk
    BY <1>4, FaultAside DEF ContainerExits, ExternalRemove, Aside
  <2>2. QED
    BY <2>1, StillCalm
<1>5. CASE Restart \/ RestartUnpruned
  <2>1. /\ UNCHANGED <<row, last, disk, vm, booting>> /\ spent'["vms"] = spent["vms"]
        /\ prune = NoPass
    BY <1>5, FaultAside DEF Restart, RestartUnpruned, Down
  <2>2. PruneLocked(row') \/ (RetentionFails /\ prune' = NoPass /\ up')
    BY <1>5, <2>1 DEF Restart, RestartUnpruned, RetentionFails
  <2>3. QED
    BY <1>1, <2>1, <2>2 DEF Begins, Swept, NoPass
<1>6. CASE UNCHANGED vars
  <2>1. Aside /\ row' = row /\ last' = last /\ disk' = disk
    BY <1>6 DEF vars, Aside
  <2>2. QED
    BY <2>1, StillCalm
<1>7. QED
  BY <1>2, <1>3, <1>4, <1>5, <1>6, RequestShapes, WorkerShapes DEF Next

(* The tables retention is run on list no more than the one before, except *)
(* what finish has just collected.                                         *)
LEMMA SweptTables ==
  ASSUME IInv, NEW rows, Swept(rows), NEW i \in Ids
  PROVE  /\ rows[i].class = row[i].class
         /\ rows[i].arts => row[i].arts \/ (i = worker.job /\ worker.arts /\ worker.at = "finish")
<1>1. row \in [Ids -> Rows] /\ worker \in Workers
  BY DEF IInv, TypeOK
<1>2. CASE rows = row
  BY <1>2
<1>3. CASE worker.at = "finish" /\ rows = FinishedRows
  <2>1. worker.verdict \in Terminal /\ worker.arts \in BOOLEAN /\ worker.job \in Ids
    BY <1>1, <1>3 DEF IInv, WorkerSound, Workers
  <2>2. QED
    BY <1>1, <1>3, <2>1, FinishedElse
<1>4. ASSUME NEW k \in Ids, NEW on \in BOOLEAN, rows = Favoured(k, on)
      PROVE  rows[i].class = row[i].class /\ rows[i].arts = row[i].arts
  BY <1>1, <1>4, FavouredElse
<1>5. QED
  BY <1>2, <1>3, <1>4 DEF Swept

(* Removing from a table: the expired builds but the one that was taken.   *)
LEMMA ReclaimedOne ==
  ASSUME NEW rows \in [Ids -> Rows], NEW i \in Ids
  PROVE  /\ Reclaimed(rows, {i}) \in [Ids -> Rows]
         /\ ~ Reclaimed(rows, {i})[i].arts
         /\ \A k \in Ids : /\ k # i => Reclaimed(rows, {i})[k] = rows[k]
                           /\ Reclaimed(rows, {i})[k].class = rows[k].class
                           /\ Reclaimed(rows, {i})[k].fav = rows[k].fav
                           /\ Newer(Reclaimed(rows, {i}), k) \subseteq Newer(rows, k)
<1> DEFINE after == Reclaimed(rows, {i})
<1>1. ASSUME NEW k \in Ids
      PROVE  /\ after[k] \in Rows
             /\ after[k] = IF k = i THEN [rows[k] EXCEPT !.arts = FALSE, !.pruned = TRUE]
                           ELSE rows[k]
  BY DEF Reclaimed, Rows
<1>2. after \in [Ids -> Rows]
  BY <1>1 DEF Reclaimed
<1>3. ~ after[i].arts
  <2>1. rows[i] \in Rows
    OBVIOUS
  <2> HIDE DEF after
  <2>2. QED
    BY <1>1, <2>1 DEF Rows
<1>4. ASSUME NEW k \in Ids
      PROVE  after[k].class = rows[k].class /\ after[k].fav = rows[k].fav
  <2>1. rows[k] \in Rows
    OBVIOUS
  <2> HIDE DEF after
  <2>2. QED
    BY <1>1, <2>1 DEF Rows
<1> HIDE DEF after
<1>5. ASSUME NEW k \in Ids
      PROVE  Newer(after, k) \subseteq Newer(rows, k)
  BY <1>1, <1>2, <1>3, <1>4 DEF Newer, Occupies
<1>6. \A k \in Ids : k # i => after[k] = rows[k]
  BY <1>1
<1>7. QED
  BY <1>2, <1>3, <1>4, <1>5, <1>6 DEF after

LEMMA ExpiredOnce ==
  ASSUME NEW rows \in [Ids -> Rows], NEW i \in Ids, i \in Expired(rows, 0)
  PROVE  Expired(Reclaimed(rows, {i}), 0) = Expired(rows, 0) \ {i}
<1> DEFINE after == Reclaimed(rows, {i})
<1>1. /\ after \in [Ids -> Rows] /\ DOMAIN after = Ids /\ DOMAIN rows = Ids /\ ~ after[i].arts
      /\ \A k \in Ids : /\ k # i => after[k] = rows[k]
                        /\ Newer(after, k) \subseteq Newer(rows, k)
  BY ReclaimedOne
<1> HIDE DEF after
<1>2. ASSUME NEW k \in Ids
      PROVE  /\ Cardinality(Newer(after, k)) \in Nat /\ Cardinality(Newer(rows, k)) \in Nat
             /\ Cardinality(Newer(after, k)) <= Cardinality(Newer(rows, k))
  BY <1>1, NewerFinite, FS_Subset
<1>3. ASSUME NEW k \in Expired(after, 0)
      PROVE  k \in Expired(rows, 0) \ {i}
  <2>1. k \in Ids /\ Occupies(after, k) /\ ~ InWindow(after, k) /\ ~ after[k].fav /\ k # 0
    BY <1>1 DEF Expired
  <2>2. k # i
    BY <1>1, <2>1 DEF Occupies
  <2>3. after[k] = rows[k]
    BY <1>1, <2>1, <2>2
  <2>4. ~ InWindow(rows, k)
    BY <1>2, <2>1, KeepBuildsAssumption DEF InWindow
  <2>5. QED
    BY <1>1, <2>1, <2>2, <2>3, <2>4 DEF Expired, Occupies
<1>4. ASSUME NEW k \in Expired(rows, 0), k # i
      PROVE  k \in Expired(after, 0)
  <2>1. k \in Ids /\ Occupies(rows, k) /\ ~ InWindow(rows, k) /\ ~ rows[k].fav /\ k # 0
    BY <1>1 DEF Expired
  <2>2. KeepBuilds <= Cardinality(Newer(rows, k))
    BY <1>2, <2>1, KeepBuildsAssumption DEF InWindow
  <2>3. KeepBuilds <= Cardinality(Newer(after, k))
    <3>1. {i} \subseteq Expired(rows, 0)
      OBVIOUS
    <3>2. QED
      BY <2>1, <2>2, <3>1, WindowAtLeast DEF after
  <2>4. ~ InWindow(after, k)
    BY <1>2, <2>1, <2>3, KeepBuildsAssumption DEF InWindow
  <2>5. QED
    BY <1>1, <1>4, <2>1, <2>4 DEF Expired, Occupies
<1>5. QED
  BY <1>3, <1>4 DEF after

(* What the five steps of a pass do to the table, the disk and the rest of *)
(* it.                                                                     *)
LEMMA PassShape ==
  ASSUME RInv, NEW i \in Ids,
         VmHolds(i) \/ RemoveFiles(i) \/ RemoveFails(i) \/ SaveReclaimed(i) \/ SaveFails(i)
  PROVE  /\ UNCHANGED <<last, worker, vm, booting>> /\ spent'["vms"] = spent["vms"]
         /\ prune.at # "none" /\ i \in prune.left /\ i \in Expired(row, 0)
         /\ row' = row \/ (row' = Reclaimed(row, {i}) /\ i \notin prune'.left)
         /\ disk' = disk \/ disk' = [disk EXCEPT ![i] = disk[i] \ {"files"}]
         /\ prune'.left \in {prune.left, prune.left \ {i}}
         /\ prune'.at = "none" <=> prune'.left = {}
<1>1. prune.at # "none" /\ i \in prune.left
  BY DEF VmHolds, RemoveFiles, RemoveFails, SaveReclaimed, SaveFails, Visits
<1>2. UNCHANGED <<last, worker, vm, booting>>
  BY DEF VmHolds, RemoveFiles, RemoveFails, SaveReclaimed, SaveFails
<1>3. spent'["vms"] = spent["vms"]
  <2>1. UNCHANGED spent \/ Spend("faults")
    BY DEF VmHolds, RemoveFiles, RemoveFails, SaveReclaimed, SaveFails
  <2>2. QED
    BY <2>1, FaultAside DEF RInv
<1>4. i \in Expired(row, 0)
  BY <1>1 DEF RInv, PassSound
<1>5. prune \in Passes /\ prune.left # {}
  BY <1>1 DEF RInv, IInv, TypeOK
<1>6. ASSUME Proceed(prune.left \ {i})
      PROVE  /\ prune'.left = prune.left \ {i}
             /\ prune'.at = "none" <=> prune'.left = {}
  BY <1>6 DEF Proceed
<1>7. ASSUME NEW at \in {"remove", "save"}, prune' = [prune EXCEPT !.at = at]
      PROVE  prune'.left = prune.left /\ prune'.at # "none"
  BY <1>5, <1>7 DEF Passes
<1>8. /\ prune'.left \in {prune.left, prune.left \ {i}}
      /\ prune'.at = "none" <=> prune'.left = {}
  <2>1. CASE VmHolds(i)
    BY <1>5, <1>6, <1>7, <2>1 DEF VmHolds
  <2>2. CASE RemoveFiles(i)
    BY <1>5, <1>7, <2>2 DEF RemoveFiles
  <2>3. CASE RemoveFails(i) \/ SaveReclaimed(i) \/ SaveFails(i)
    BY <1>6, <2>3 DEF RemoveFails, SaveReclaimed, SaveFails
  <2>4. QED
    BY <2>1, <2>2, <2>3
<1>9. row' = row \/ (row' = Reclaimed(row, {i}) /\ i \notin prune'.left)
  <2>1. CASE SaveReclaimed(i)
    BY <1>6, <2>1 DEF SaveReclaimed
  <2>2. CASE VmHolds(i) \/ RemoveFiles(i) \/ RemoveFails(i) \/ SaveFails(i)
    BY <2>2 DEF VmHolds, RemoveFiles, RemoveFails, SaveFails
  <2>3. QED
    BY <2>1, <2>2
<1>10. disk' = disk \/ disk' = [disk EXCEPT ![i] = disk[i] \ {"files"}]
  BY DEF VmHolds, RemoveFiles, RemoveFails, SaveReclaimed, SaveFails
<1>11. QED
  BY <1>1, <1>2, <1>3, <1>4, <1>8, <1>9, <1>10

LEMMA PassSoundKept ==
  ASSUME RInv, [Next]_vars
  PROVE  PassSound'
<1>1. row \in [Ids -> Rows] /\ prune \in Passes
  BY DEF RInv, IInv, TypeOK
<1>2. CASE Calm
  <2>1. prune' = prune /\ up' = up /\ (~ Unlocked => row' = row)
    BY <1>2 DEF Calm, Aside
  <2>2. CASE Unlocked
    BY <2>1, <2>2 DEF RInv, PassSound, Unlocked
  <2>3. CASE ~ Unlocked
    BY <2>1, <2>3 DEF RInv, PassSound
  <2>4. QED
    BY <2>2, <2>3
<1>3. CASE MachineStep
  <2>1. prune' = prune /\ row' = row
    BY <1>3 DEF MachineStep, VmClaim, VmCheck, VmEnd
  <2>2. QED
    BY <2>1 DEF RInv, PassSound
<1>4. CASE Begins
  BY <1>4 DEF Begins, PruneLocked, Proceed, PassSound, NoPass
<1>5. CASE PassStep
  <2>1. PICK i \in Ids :
           VmHolds(i) \/ RemoveFiles(i) \/ RemoveFails(i) \/ SaveReclaimed(i) \/ SaveFails(i)
    BY <1>5 DEF PassStep
  <2>2. /\ i \in Expired(row, 0)
        /\ row' = row \/ (row' = Reclaimed(row, {i}) /\ i \notin prune'.left)
        /\ prune'.left \in {prune.left, prune.left \ {i}}
        /\ prune'.at = "none" <=> prune'.left = {}
    BY <2>1, PassShape
  <2>3. prune.left \subseteq Expired(row, 0)
    BY DEF RInv, PassSound
  <2>4. CASE row' = row
    BY <2>2, <2>3, <2>4 DEF PassSound
  <2>5. CASE row' = Reclaimed(row, {i}) /\ i \notin prune'.left
    <3>1. Expired(row', 0) = Expired(row, 0) \ {i}
      BY <1>1, <2>2, <2>5, ExpiredOnce
    <3>2. QED
      BY <2>2, <2>3, <2>5, <3>1 DEF PassSound
  <2>6. QED
    BY <2>2, <2>4, <2>5
<1>6. CASE Crash
  BY <1>6 DEF Crash, NoPass, PassSound
<1>7. QED
  BY <1>2, <1>3, <1>4, <1>5, <1>6, StepShapes DEF RInv

LEMMA AheadKept ==
  ASSUME RInv, [Next]_vars
  PROVE  NothingAhead'
<1>1. /\ row \in [Ids -> Rows] /\ last \in Nat /\ last' \in Nat /\ Ids \subseteq Nat
      /\ disk \in [Ids -> SUBSET {"dir", "log", "files"}]
  BY StepKeeps, QueueAssumption DEF RInv, IInv, TypeOK, Ids
<1>2. CASE Calm
  <2>1. ASSUME NEW i \in Ids, i > last'
        PROVE  row'[i].class = "none" /\ disk'[i] = {}
    <3>1. i > last
      BY <1>1, <1>2, <2>1 DEF Calm
    <3>2. QED
      BY <1>2, <2>1, <3>1 DEF Calm, RInv, NothingAhead
  <2>2. QED
    BY <2>1 DEF NothingAhead
<1>3. CASE MachineStep \/ Crash
  <2>1. UNCHANGED <<row, last, disk>>
    BY <1>3 DEF MachineStep, VmClaim, VmCheck, VmEnd, Crash
  <2>2. QED
    BY <2>1 DEF RInv, NothingAhead
<1>4. CASE Begins
  BY <1>4, SweptTables DEF Begins, RInv, NothingAhead
<1>5. CASE PassStep
  <2>1. PICK k \in Ids :
           VmHolds(k) \/ RemoveFiles(k) \/ RemoveFails(k) \/ SaveReclaimed(k) \/ SaveFails(k)
    BY <1>5 DEF PassStep
  <2>2. /\ last' = last
        /\ row' = row \/ row' = Reclaimed(row, {k})
        /\ disk' = disk \/ disk' = [disk EXCEPT ![k] = disk[k] \ {"files"}]
    BY <2>1, PassShape
  <2>3. \A i \in Ids : Reclaimed(row, {k})[i].class = row[i].class
    BY <1>1, ReclaimedOne
  <2>4. \A i \in Ids : row'[i].class = row[i].class /\ disk'[i] \subseteq disk[i]
    BY <1>1, <2>2, <2>3
  <2>5. QED
    BY <2>2, <2>4 DEF RInv, NothingAhead
<1>6. QED
  BY <1>2, <1>3, <1>4, <1>5, StepShapes DEF RInv

LEMMA CollectedKept ==
  ASSUME RInv, [Next]_vars
  PROVE  Collected'
<1> SUFFICES ASSUME worker'.at = "finish", worker'.arts
             PROVE  "files" \in disk'[worker'.job]
  BY DEF Collected
<1>1. /\ row \in [Ids -> Rows] /\ last \in Nat /\ worker \in Workers
      /\ disk \in [Ids -> SUBSET {"dir", "log", "files"}]
  BY QueueAssumption DEF RInv, IInv, TypeOK
<1>2. worker.at # "idle" => worker.job \in Ids /\ row[worker.job].state \in Active
  BY DEF RInv, IInv, WorkerSound
<1>3. CASE Look
  <2>1. worker.at = "look"
    BY <1>3 DEF Look, At
  <2>2. /\ \E verdict \in {"succeeded", "failed"} :
             worker' = [worker EXCEPT !.at = "finish", !.verdict = verdict, !.arts = TRUE]
        /\ disk' = [disk EXCEPT ![worker.job] = @ \cup {"files"}]
    BY <1>1, <1>3, <2>1 DEF Look, ToFinish, GoTo, Workers
  <2>3. worker'.job = worker.job
    BY <1>1, <2>2 DEF Workers
  <2>4. QED
    BY <1>1, <1>2, <2>1, <2>2, <2>3
<1>4. CASE worker' = worker
  <2>1. worker.at = "finish" /\ "files" \in disk[worker.job] /\ worker.job \in Ids
    BY <1>2, <1>4 DEF RInv, Collected
  <2>2. ~ (row[worker.job].state \in Terminal) /\ ~ (row[worker.job].state = "absent")
    BY <1>2, <2>1 DEF Active, Terminal
  <2>3. ASSUME NEW class \in Targets, Submit(class) PROVE disk'[worker.job] = disk[worker.job]
    <3>1. disk' = [disk EXCEPT ![last + 1] = {"dir", "log"}]
      BY <2>3 DEF Submit
    <3>2. worker.job # last + 1
      BY <1>1, <2>1, <2>2, QueueAssumption DEF RInv, IInv, NoneAhead, Ids
    <3>3. QED
      BY <1>1, <2>1, <3>1, <3>2
  <2>4. CASE SubmitFails
    <3>1. disk' = [disk EXCEPT ![last + 1] = {"log"}]
      BY <2>4 DEF SubmitFails
    <3>2. worker.job # last + 1
      BY <1>1, <2>1, <2>2, QueueAssumption DEF RInv, IInv, NoneAhead, Ids
    <3>3. QED
      BY <1>1, <1>4, <2>1, <3>1, <3>2
  <2>5. ASSUME NEW i \in Ids, DeleteJob(i) \/ DeleteInterrupted(i)
        PROVE  disk'[worker.job] = disk[worker.job]
    <3>1. i # worker.job
      BY <2>2, <2>5 DEF DeleteJob, DeleteInterrupted, Deletable
    <3>2. QED
      BY <1>1, <2>1, <2>5, <3>1 DEF DeleteJob, DeleteInterrupted
  <2>6. ASSUME NEW i \in Ids,
               VmHolds(i) \/ RemoveFiles(i) \/ RemoveFails(i) \/ SaveReclaimed(i) \/ SaveFails(i)
        PROVE  disk'[worker.job] = disk[worker.job]
    <3>1. /\ i \in Expired(row, 0)
          /\ disk' = disk \/ disk' = [disk EXCEPT ![i] = disk[i] \ {"files"}]
      BY <2>6, PassShape
    <3>2. i # worker.job
      BY <2>2, <3>1 DEF Expired, Occupies, Terminal
    <3>3. QED
      BY <1>1, <2>1, <3>1, <3>2
  <2>7. ASSUME NEW i \in Ids, BuildWrites(i)
        PROVE  "files" \in disk'[worker.job]
    BY <1>1, <2>1, <2>7 DEF BuildWrites
  <2>8. CASE Crash \/ (\E i \in Ids : Pick(i)) \/ Finish \/ FinishWithErrors
    <3>1. CASE Crash \/ Finish \/ FinishWithErrors
      <4>1. worker' = Idle
        BY <3>1 DEF Crash, Finish, FinishWithErrors
      <4>2. QED
        BY <4>1 DEF Idle
    <3>2. ASSUME NEW i \in Ids, Pick(i) PROVE FALSE
      BY <2>1, <3>2 DEF Pick, At
    <3>3. QED
      BY <2>8, <3>1, <3>2
  <2>9. CASE disk' = disk
    BY <1>4, <2>1, <2>9
  <2>10. \/ disk' = disk
         \/ \E class \in Targets : Submit(class)
         \/ SubmitFails
         \/ \E i \in Ids : DeleteJob(i) \/ DeleteInterrupted(i)
         \/ PassStep
         \/ \E i \in Ids : BuildWrites(i)
         \/ Crash \/ Look
         \/ (\E i \in Ids : Pick(i)) \/ Finish \/ FinishWithErrors
    <3>1. CASE Request
      BY <3>1 DEF Request, Cancel, SetFavorite, SetFavoriteUnpruned, VmCheck, VmClaim, VmEnd
    <3>2. CASE WorkerStep
      BY <3>2 DEF WorkerStep, FirstInspect, InspectFails, CancelLaunch, AfterFailedLaunch,
                  StartCreated, StartFails, MarkRunning, RowFails, ReadRow, StopContainer,
                  StopFails, LookFails
    <3>3. CASE ComposeStep
      BY <3>3 DEF ComposeStep, ComposeCreate, ComposeStart, ComposeFails
    <3>4. ASSUME NEW i \in Ids, ContainerExits(i) \/ ExternalRemove(i) PROVE disk' = disk
      BY <3>4 DEF ContainerExits, ExternalRemove
    <3>5. CASE UNCHANGED vars \/ Restart \/ RestartUnpruned
      BY <3>5 DEF vars, Restart, RestartUnpruned
    <3>6. QED
      BY <3>1, <3>2, <3>3, <3>4, <3>5 DEF Next
  <2>11. QED
    BY <1>3, <1>4, <2>1, <2>3, <2>4, <2>5, <2>6, <2>7, <2>8, <2>9, <2>10 DEF PassStep
<1>5. CASE ~ Look /\ worker' # worker
  <2>1. ~ worker'.arts \/ worker'.at # "finish"
    <3>1. CASE Request \/ PassStep \/ UNCHANGED vars \/ Restart \/ RestartUnpruned
          \/ \E i \in Ids : BuildWrites(i) \/ ContainerExits(i) \/ ExternalRemove(i)
      <4>1. worker' = worker
        BY <3>1 DEF Request, Submit, SubmitFails, Cancel, DeleteJob, DeleteInterrupted,
                  SetFavorite, SetFavoriteUnpruned, VmCheck, VmClaim, VmEnd, vars, BuildWrites,
                  ContainerExits, ExternalRemove, Restart, RestartUnpruned, PassStep, VmHolds,
                  RemoveFiles, RemoveFails, SaveReclaimed, SaveFails
      <4>2. QED
        BY <1>5, <4>1
    <3>2. ASSUME NEW i \in Ids, Pick(i) PROVE worker'.at # "finish"
      BY <3>2 DEF Pick, Idle
    <3>3. CASE InspectFails \/ RowFails \/ Finish \/ FinishWithErrors \/ Crash
      <4>1. worker' = Idle
        BY <3>3 DEF InspectFails, RowFails, Finish, FinishWithErrors, Crash
      <4>2. QED
        BY <4>1 DEF Idle
    <3>4. CASE \/ CancelLaunch \/ MarkRunning \/ ReadRow \/ StopContainer
               \/ StopFails \/ LookFails
      BY <1>1, <3>4 DEF CancelLaunch, MarkRunning, ReadRow, StopContainer, StopFails, LookFails,
                  GoTo, Workers
    <3>5. CASE FirstInspect \/ AfterFailedLaunch \/ StartCreated \/ StartFails
      <4>1. \/ worker' = [worker EXCEPT !.at = "launch"]
            \/ worker' = [worker EXCEPT !.at = "start"]
            \/ worker' = [worker EXCEPT !.at = "mark"]
            \/ \E verdict \in Terminal :
                 worker' = [worker EXCEPT !.at = "finish", !.verdict = verdict, !.arts = FALSE]
        BY <3>5 DEF FirstInspect, AfterFailedLaunch, StartCreated, StartFails, GoTo, ToFinish,
                    Terminal
      <4>2. QED
        BY <1>1, <4>1 DEF Workers
    <3>6. ASSUME NEW c \in compose, ComposeCreate(c) \/ ComposeStart(c) \/ ComposeFails(c)
          PROVE  worker'.at # "finish"
      <4>1. \/ worker' = [worker EXCEPT !.at = "unlaunched"]
            \/ worker' = [worker EXCEPT !.at = "mark"]
        BY <1>5, <3>6 DEF ComposeCreate, ComposeStart, ComposeFails
      <4>2. QED
        BY <1>1, <4>1 DEF Workers
    <3>7. QED
      BY <1>5, <3>1, <3>2, <3>3, <3>4, <3>5, <3>6 DEF Next, WorkerStep, ComposeStep
  <2>2. QED
    BY <2>1
<1>6. QED
  BY <1>3, <1>4, <1>5

LEMMA SlotKept ==
  ASSUME RInv, [Next]_vars
  PROVE  SlotSound'
<1>1. CASE Calm \/ Begins
  <2>1. vm' = vm /\ (up => up')
    <3>1. CASE Calm
      BY <3>1 DEF Calm, Aside
    <3>2. CASE Begins
      BY <3>2 DEF Begins, PruneLocked, Proceed
    <3>3. QED
      BY <1>1, <3>1, <3>2
  <2>2. QED
    BY <2>1 DEF RInv, SlotSound
<1>2. CASE MachineStep
  BY <1>2 DEF MachineStep, VmClaim, VmCheck, VmEnd, RInv, SlotSound, Unlocked
<1>3. CASE PassStep
  <2>1. vm' = vm
    BY <1>3 DEF PassStep, VmHolds, RemoveFiles, RemoveFails, SaveReclaimed, SaveFails
  <2>2. up => up'
    BY <1>3 DEF PassStep, VmHolds, RemoveFiles, RemoveFails, SaveReclaimed, SaveFails, Proceed
  <2>3. QED
    BY <2>1, <2>2 DEF RInv, SlotSound
<1>4. CASE Crash
  BY <1>4 DEF Crash, SlotSound
<1>5. QED
  BY <1>1, <1>2, <1>3, <1>4, StepShapes DEF RInv

LEMMA RetentionInvariance == Spec => []RInv
<1>1. Init => RInv
  <2> SUFFICES ASSUME Init PROVE RInv
    OBVIOUS
  <2>1. IInv
    BY InitHolds
  <2>2. NothingAhead
    BY DEF Init, NothingAhead, NoRow
  <2>3. Collected /\ SlotSound /\ PassSound
    BY DEF Init, Collected, SlotSound, PassSound, NoPass, Idle
  <2>4. QED
    BY <2>1, <2>2, <2>3 DEF RInv
<1>2. RInv /\ [Next]_vars => RInv'
  BY StepKeeps, AheadKept, CollectedKept, SlotKept, PassSoundKept DEF RInv
<1>3. QED
  BY <1>1, <1>2, PTL DEF Spec

-------------------------------------------------------------------------------
(* Whose files go, and what is left behind *)

LEMMA StepSpares ==
  ASSUME RInv, [Next]_vars
  PROVE  \A i \in Ids :
           "files" \in disk[i] /\ "files" \notin disk'[i] /\ "dir" \in disk'[i] =>
             ~ row'[i].fav /\ KeepBuilds <= Cardinality(Newer(row', i))
<1> SUFFICES ASSUME NEW i \in Ids, "files" \in disk[i], "files" \notin disk'[i],
                    "dir" \in disk'[i]
             PROVE  ~ row'[i].fav /\ KeepBuilds <= Cardinality(Newer(row', i))
  OBVIOUS
<1>1. /\ row \in [Ids -> Rows] /\ disk \in [Ids -> SUBSET {"dir", "log", "files"}]
  BY DEF RInv, IInv, TypeOK
<1>2. ~ Calm
  BY DEF Calm
<1>3. ~ MachineStep /\ ~ Begins /\ ~ Crash
  BY DEF MachineStep, VmClaim, VmCheck, VmEnd, Begins, Crash
<1>4. PICK k \in Ids :
         VmHolds(k) \/ RemoveFiles(k) \/ RemoveFails(k) \/ SaveReclaimed(k) \/ SaveFails(k)
  BY <1>2, <1>3, StepShapes DEF RInv, PassStep
<1>5. /\ k \in Expired(row, 0)
      /\ disk' = disk \/ disk' = [disk EXCEPT ![k] = disk[k] \ {"files"}]
  BY <1>4, PassShape
<1>6. i = k /\ disk' # disk
  BY <1>1, <1>5
<1>7. row' = row
  BY <1>4, <1>6 DEF VmHolds, RemoveFiles, RemoveFails, SaveReclaimed, SaveFails
<1>8. QED
  BY <1>1, <1>5, <1>6, <1>7, NewerFinite, KeepBuildsAssumption DEF Expired, InWindow

(* Retention never takes the files of a favourite or of one of the newest  *)
(* KeepBuilds of its class, whatever fails, wherever the process dies and  *)
(* whatever happens between two steps of a pass (pruneLocked, from finish, *)
(* setFavorite and main).                                                  *)
THEOREM RetentionTakesOnlyExpired == Spec => RetentionSpares
<1>1. RInv /\ [Next]_vars =>
        [\A i \in Ids :
           "files" \in disk[i] /\ "files" \notin disk'[i] /\ "dir" \in disk'[i] =>
             /\ ~ row'[i].fav
             /\ KeepBuilds <= Cardinality(Newer(row', i))]_vars
  BY StepSpares
<1>2. QED
  BY <1>1, RetentionInvariance, PTL DEF Spec, RetentionSpares

(* What retention may leave behind when it meets no error.                 *)
RetentionSucceeds == [][~ RetentionFails]_vars

Unlisted(rows, i) == rows[i].arts /\ "dir" \in disk[i] /\ "files" \notin disk[i]

(* The files of a listed build are missing only where a pass is about to   *)
(* save the row, or where a crash cut it short there, and then the first   *)
(* pass of the next start takes the row before anybody is served.          *)
LostAreExpired ==
  \A i \in Ids :
    Unlisted(row, i) =>
      \/ up /\ prune.at = "save" /\ Visits(i)
      \/ ~ up /\ prune = NoPass /\ i \in Expired(row, 0)
      \/ ~ up /\ i \in prune.left

LEMMA VisitsOne ==
  ASSUME RInv, NEW i \in Ids, NEW k \in Ids, Visits(i), Visits(k)
  PROVE  i = k
  BY QueueAssumption DEF Visits, Ids

LEMMA LostKept ==
  ASSUME RInv, LostAreExpired, [Next]_vars, ~ RetentionFails
  PROVE  LostAreExpired'
<1>1. /\ row \in [Ids -> Rows] /\ up \in BOOLEAN /\ prune \in Passes
      /\ disk \in [Ids -> SUBSET {"dir", "log", "files"}] /\ 0 \notin Ids
  BY QueueAssumption DEF RInv, IInv, TypeOK, Ids
<1>2. prune.at = "none" <=> prune.left = {}
  BY DEF RInv, PassSound
<1>3. SUFFICES ASSUME NEW i \in Ids,
                      row'[i].arts, "dir" \in disk'[i], "files" \notin disk'[i]
               PROVE  \/ up' /\ prune'.at = "save" /\ Visits(i)'
                      \/ ~ up' /\ prune' = NoPass /\ i \in Expired(row', 0)
                      \/ ~ up' /\ i \in prune'.left
  BY DEF LostAreExpired, Unlisted
<1>4. CASE Calm
  <2>1. Unlisted(row, i)
    BY <1>3, <1>4 DEF Calm, Unlisted
  <2>2. UNCHANGED <<up, prune>> /\ (~ Unlocked => row' = row)
    BY <1>4 DEF Calm, Aside
  <2>3. \/ up /\ prune.at = "save" /\ Visits(i)
        \/ ~ up /\ prune = NoPass /\ i \in Expired(row, 0)
        \/ ~ up /\ i \in prune.left
    BY <2>1 DEF LostAreExpired
  <2>4. QED
    BY <2>2, <2>3 DEF Visits, Unlocked
<1>5. CASE MachineStep
  <2>1. UNCHANGED <<row, disk, up, prune>>
    BY <1>5 DEF MachineStep, VmClaim, VmCheck, VmEnd
  <2>2. QED
    BY <1>3, <2>1 DEF LostAreExpired, Unlisted, Visits
<1>6. CASE Begins
  <2>1. disk' = disk /\ prune.at = "none" /\ Swept(row') /\ PruneLocked(row')
    BY <1>6 DEF Begins
  <2>2. row[i].arts
    <3>1. row[i].arts \/ (i = worker.job /\ worker.arts /\ worker.at = "finish")
      BY <1>3, <2>1, SweptTables DEF RInv
    <3>2. QED
      BY <1>3, <2>1, <3>1 DEF RInv, Collected
  <2>3. ~ up /\ i \in Expired(row, 0)
    BY <1>2, <1>3, <2>1, <2>2 DEF LostAreExpired, Unlisted
  <2>4. row' = row
    BY <2>1, <2>3 DEF Swept
  <2>5. prune'.left = Expired(row, 0) /\ ~ up'
    BY <2>1, <2>3, <2>4 DEF PruneLocked, Proceed
  <2>6. QED
    BY <2>3, <2>5
<1>7. CASE Crash
  <2>1. UNCHANGED <<row, disk>> /\ ~ up' /\ prune' = NoPass
    BY <1>7 DEF Crash
  <2>2. Unlisted(row, i)
    BY <1>3, <2>1 DEF Unlisted
  <2>3. i \in Expired(row, 0)
    BY <2>2 DEF LostAreExpired, Visits, RInv, PassSound
  <2>4. QED
    BY <2>1, <2>3
<1>8. CASE PassStep
  <2>1. PICK k \in Ids : VmHolds(k) \/ RemoveFiles(k) \/ SaveReclaimed(k)
    BY <1>8 DEF PassStep, RetentionFails
  <2>2. k \in prune.left /\ prune.at # "none" /\ prune.left \in SUBSET Ids
    BY <1>1, <2>1 DEF VmHolds, RemoveFiles, SaveReclaimed, Visits, Passes
  <2>3. prune # NoPass
    BY <2>2 DEF NoPass
  <2>4. CASE VmHolds(k)
    <3>1. UNCHANGED <<row, disk>> /\ prune.at = "ask"
      BY <2>4 DEF VmHolds
    <3>2. Unlisted(row, i)
      BY <1>3, <3>1 DEF Unlisted
    <3>3. ~ up /\ i \in prune.left
      BY <2>3, <3>1, <3>2 DEF LostAreExpired
    <3>4. CASE vm = k
      BY <1>1, <3>3, <3>4 DEF RInv, SlotSound
    <3>5. CASE vm # k
      <4>1. prune' = [prune EXCEPT !.at = "remove"] /\ up' = up
        BY <2>4, <3>5 DEF VmHolds
      <4>2. prune'.left = prune.left
        BY <1>1, <4>1 DEF Passes
      <4>3. QED
        BY <3>3, <4>1, <4>2
    <3>6. QED
      BY <3>4, <3>5
  <2>5. CASE RemoveFiles(k)
    <3>1. /\ row' = row /\ up' = up /\ prune' = [prune EXCEPT !.at = "save"]
          /\ prune.at = "remove" /\ Visits(k)
          /\ disk' = [disk EXCEPT ![k] = disk[k] \ {"files"}]
      BY <2>5 DEF RemoveFiles
    <3>2. prune'.left = prune.left /\ prune'.at = "save"
      BY <1>1, <3>1 DEF Passes
    <3>3. CASE i = k
      BY <1>1, <3>1, <3>2, <3>3 DEF Visits
    <3>4. CASE i # k
      <4>1. disk'[i] = disk[i]
        BY <1>1, <3>1, <3>4
      <4>2. ~ up /\ i \in prune.left
        BY <1>3, <2>3, <3>1, <4>1 DEF LostAreExpired, Unlisted
      <4>3. QED
        BY <3>1, <3>2, <4>2
    <3>5. QED
      BY <3>3, <3>4
  <2>6. CASE SaveReclaimed(k)
    <3>1. /\ disk' = disk /\ row' = Reclaimed(row, {k}) /\ Visits(k)
          /\ Proceed(prune.left \ {k})
      BY <2>6 DEF SaveReclaimed
    <3>2. i # k /\ row'[i] = row[i]
      <4> DEFINE after == Reclaimed(row, {k})
      <4>1. /\ ~ after[k].arts
            /\ \A j \in Ids : j # k => after[j] = row[j]
        <5>1. row \in [Ids -> Rows]
          BY <1>1
        <5> HIDE DEF after
        <5>2. QED
          BY <5>1, ReclaimedOne DEF after
      <4>2. row' = after
        BY <3>1
      <4> HIDE DEF after
      <4>3. i # k
        BY <1>3, <4>1, <4>2
      <4>4. QED
        BY <4>1, <4>2, <4>3
    <3>3. Unlisted(row, i)
      BY <1>3, <3>1, <3>2 DEF Unlisted
    <3>4. ~ Visits(i)
      BY <3>1, <3>2, VisitsOne
    <3>5. ~ up /\ i \in prune.left
      BY <2>3, <3>3, <3>4 DEF LostAreExpired
    <3>6. prune'.left = prune.left \ {k} /\ (up' <=> prune'.left = {})
      BY <3>1, <3>5 DEF Proceed
    <3>7. QED
      BY <3>2, <3>5, <3>6
  <2>7. QED
    BY <2>1, <2>4, <2>5, <2>6
<1>9. QED
  BY <1>4, <1>5, <1>6, <1>7, <1>8, StepShapes DEF RInv

(* The files a build lists can be downloaded, wherever the process died,   *)
(* if retention met no error: pruneLocked removes the files of a build     *)
(* before it saves its row, and main repairs what a crash left in between  *)
(* before anybody is served.                                               *)
THEOREM ListedAreThere == Spec /\ RetentionSucceeds => []ListedArtifactsExist
<1>1. Init => LostAreExpired
  BY DEF Init, LostAreExpired, Unlisted, NoRow
<1>2. RInv /\ LostAreExpired /\ [Next]_vars /\ [~ RetentionFails]_vars => LostAreExpired'
  <2> SUFFICES ASSUME RInv, LostAreExpired, [Next]_vars, [~ RetentionFails]_vars
               PROVE  LostAreExpired'
    OBVIOUS
  <2>1. CASE UNCHANGED vars
    BY <2>1 DEF vars, LostAreExpired, Unlisted, Expired, Newer, InWindow, Occupies, Visits
  <2>2. CASE ~ RetentionFails
    BY <2>2, LostKept
  <2>3. QED
    BY <2>1, <2>2
<1>3. LostAreExpired => ListedArtifactsExist
  BY DEF LostAreExpired, Unlisted, ListedArtifactsExist
<1>4. QED
  BY <1>1, <1>2, <1>3, RetentionInvariance, PTL DEF Spec, RetentionSucceeds

-------------------------------------------------------------------------------
(* How many builds of a class keep their artifacts *)

(* The requests between vmStart's check and its claim, and the build the   *)
(* slot belongs to, if any.                                                *)
Boots == {q \in VmRequests : booting[q] # 0}
Held  == {vm} \ {0}

(* Every machine booted or being booted has been paid for.                 *)
SlotBudget ==
  /\ spent["vms"] <= MaxVms
  /\ Cardinality(Held) + Cardinality(Boots) <= spent["vms"]

(* What fell out of the window and a pass has asked about and spared, or   *)
(* may yet spare: the build the machine holds now and, while the pass goes *)
(* on, one more for every request that claims the slot after it.           *)
SparedSoFar == (Expired(row, 0) \ prune.left) \cup Held

PassBudget == Cardinality(SparedSoFar) + Cardinality(Boots) <= Spareable

WInv == SlotBudget /\ (prune.at # "none" => PassBudget) /\ WindowBounded

SlotCounts ==
  /\ IsFiniteSet(Boots) /\ Cardinality(Boots) \in Nat
  /\ Cardinality(Boots) <= Cardinality(VmRequests) /\ Cardinality(VmRequests) \in Nat
  /\ IsFiniteSet(Held) /\ Cardinality(Held) = IF vm = 0 THEN 0 ELSE 1
  /\ IsFiniteSet(SparedSoFar) /\ Cardinality(SparedSoFar) \in Nat

LEMMA SlotFinite == RInv => SlotCounts
<1> SUFFICES ASSUME RInv PROVE SlotCounts
  OBVIOUS
<1>1. Boots \subseteq VmRequests /\ IsFiniteSet(VmRequests)
  BY QueueAssumption DEF Boots
<1>2. /\ IsFiniteSet(Boots) /\ Cardinality(Boots) \in Nat
      /\ Cardinality(Boots) <= Cardinality(VmRequests) /\ Cardinality(VmRequests) \in Nat
  BY <1>1, FS_Subset, FS_CardinalityType
<1>3. IsFiniteSet(Held) /\ Cardinality(Held) = IF vm = 0 THEN 0 ELSE 1
  <2>1. CASE vm = 0
    <3>1. Held = {}
      BY <2>1 DEF Held
    <3>2. QED
      BY <2>1, <3>1, FS_EmptySet
  <2>2. CASE vm # 0
    <3>1. Held = {vm}
      BY <2>2 DEF Held
    <3>2. QED
      BY <2>2, <3>1, FS_Singleton
  <2>3. QED
    BY <2>1, <2>2
<1>4. IsFiniteSet(SparedSoFar)
  <2>1. Expired(row, 0) \ prune.left \subseteq Ids /\ IsFiniteSet(Ids)
    <3>1. row \in [Ids -> Rows] /\ IsFiniteSet(Ids)
      BY QueueAssumption, FS_Interval DEF RInv, IInv, TypeOK, Ids
    <3>2. QED
      BY <3>1, ExpiredIds
  <2>2. IsFiniteSet(Expired(row, 0) \ prune.left)
    BY <2>1, FS_Subset
  <2>3. QED
    BY <1>3, <2>2, FS_Union DEF SparedSoFar
<1>5. QED
  BY <1>2, <1>3, <1>4, FS_CardinalityType DEF SlotCounts

LEMMA SlotFiniteNext == RInv' => SlotCounts'
  BY SlotFinite, PTL

(* The machine and the requests that wait for it.                          *)
LEMMA MachineBudget ==
  ASSUME RInv, RInv', MachineStep
  PROVE  /\ SlotBudget => SlotBudget'
         /\ prune.at # "none" =>
              \/ Held' \subseteq Held /\ Cardinality(Boots') <= Cardinality(Boots)
              \/ Held = {} /\ Cardinality(Boots') + 1 = Cardinality(Boots)
<1>1. /\ booting \in [VmRequests -> Ids \cup {0}] /\ vm \in Ids \cup {0} /\ 0 \notin Ids
      /\ spent["vms"] \in Nat /\ MaxVms \in Nat
  BY QueueAssumption DEF RInv, IInv, TypeOK, Ids, Budgets
<1>2. /\ IsFiniteSet(Boots) /\ Cardinality(Boots) \in Nat
      /\ Cardinality(Held) = IF vm = 0 THEN 0 ELSE 1
      /\ Cardinality(Boots') \in Nat
      /\ Cardinality(Held') = IF vm' = 0 THEN 0 ELSE 1
  BY SlotFinite, SlotFiniteNext DEF SlotCounts
<1>3. ASSUME NEW q \in VmRequests, NEW i \in Ids, VmCheck(q, i)
      PROVE  /\ SlotBudget => SlotBudget'
             /\ prune.at = "none"
  <2>1. /\ booting[q] = 0 /\ booting' = [booting EXCEPT ![q] = i] /\ vm' = vm
        /\ prune.at = "none"
    BY <1>3 DEF VmCheck, Unlocked
  <2>2. spent["vms"] < MaxVms /\ spent'["vms"] = spent["vms"] + 1
    BY <1>3 DEF VmCheck, Spend, Budgets, RInv, IInv, TypeOK
  <2>3. Boots' = Boots \cup {q} /\ q \notin Boots
    BY <1>1, <2>1 DEF Boots
  <2>4. Cardinality(Boots') = Cardinality(Boots) + 1
    BY <1>2, <2>3, FS_AddElement
  <2>5. QED
    BY <1>1, <1>2, <2>1, <2>2, <2>4 DEF SlotBudget
<1>4. ASSUME NEW q \in VmRequests, VmClaim(q)
      PROVE  /\ SlotBudget => SlotBudget'
             /\ \/ Held' \subseteq Held /\ Cardinality(Boots') <= Cardinality(Boots)
                \/ Held = {} /\ Cardinality(Boots') + 1 = Cardinality(Boots)
  <2>1. /\ booting[q] # 0 /\ booting' = [booting EXCEPT ![q] = 0] /\ spent' = spent
        /\ vm' = IF vm = 0 THEN booting[q] ELSE vm
    BY <1>4 DEF VmClaim
  <2>2. Boots' = Boots \ {q} /\ q \in Boots
    BY <1>1, <2>1 DEF Boots
  <2>3. Cardinality(Boots') = Cardinality(Boots) - 1
    BY <1>2, <2>2, FS_RemoveElement
  <2>4. CASE vm = 0
    BY <1>1, <1>2, <2>1, <2>3, <2>4 DEF SlotBudget, Held
  <2>5. CASE vm # 0
    BY <1>1, <1>2, <2>1, <2>3, <2>5 DEF SlotBudget, Held
  <2>6. QED
    BY <2>4, <2>5
<1>5. CASE VmEnd
  <2>1. vm' = 0 /\ booting' = booting /\ spent' = spent
    BY <1>5 DEF VmEnd
  <2>2. Boots' = Boots /\ Held' = {}
    BY <2>1 DEF Boots, Held
  <2>3. QED
    BY <1>1, <1>2, <2>1, <2>2 DEF SlotBudget
<1>6. QED
  BY <1>3, <1>4, <1>5 DEF MachineStep

LEMMA CalmBudget ==
  ASSUME RInv, RInv', WInv, Calm
  PROVE  WInv'
<1>1. UNCHANGED <<prune, up, vm, booting>> /\ spent'["vms"] = spent["vms"]
      /\ (~ Unlocked => row' = row)
  BY DEF Calm, Aside
<1>2. SlotBudget' /\ Boots' = Boots /\ Held' = Held
  BY <1>1 DEF WInv, SlotBudget, Boots, Held
<1>3. ASSUME prune'.at # "none" PROVE PassBudget'
  <2>1. row' = row /\ prune.at # "none"
    BY <1>1, <1>3 DEF Unlocked
  <2>2. SparedSoFar' = SparedSoFar
    BY <1>1, <1>2, <2>1 DEF SparedSoFar
  <2>3. QED
    BY <1>2, <2>1, <2>2 DEF WInv, PassBudget, Spareable
<1>4. ASSUME Unlocked', NEW c \in Classes
      PROVE  Cardinality(Plain(row', c)) <= KeepBuilds + Spareable
  <2>1. Unlocked
    BY <1>1, <1>4 DEF Unlocked
  <2>2. Cardinality(Plain(row, c)) <= KeepBuilds + Spareable
    BY <2>1 DEF WInv, WindowBounded, Plain
  <2>3. Plain(row', c) \subseteq Plain(row, c)
    BY DEF Calm, Plain
  <2>4. /\ IsFiniteSet(Plain(row, c)) /\ Cardinality(Plain(row, c)) \in Nat
        /\ Cardinality(Plain(row', c)) \in Nat
    BY PlainFinite
  <2>5. Cardinality(Plain(row', c)) <= Cardinality(Plain(row, c))
    BY <2>3, <2>4, FS_Subset
  <2>6. Spareable \in Nat
    BY SlotFinite, QueueAssumption DEF SlotCounts, Spareable
  <2>7. QED
    BY <2>2, <2>4, <2>5, <2>6, KeepBuildsAssumption
<1>5. WindowBounded'
  BY <1>4 DEF WindowBounded, Plain, Spareable
<1>6. QED
  BY <1>2, <1>3, <1>5 DEF WInv

LEMMA BeginsBudget ==
  ASSUME RInv, RInv', SlotBudget, Begins, ~ RetentionFails
  PROVE  SlotBudget' /\ PassBudget'
<1>1. UNCHANGED <<vm, booting>> /\ spent'["vms"] = spent["vms"] /\ PruneLocked(row')
  BY DEF Begins
<1>2. SlotBudget' /\ Boots' = Boots /\ Held' = Held
  BY <1>1 DEF SlotBudget, Boots, Held
<1>3. SparedSoFar' = Held
  BY <1>1, <1>2 DEF PruneLocked, Proceed, SparedSoFar
<1>4. /\ Cardinality(Boots) \in Nat /\ Cardinality(VmRequests) \in Nat
      /\ Cardinality(Boots) <= Cardinality(VmRequests)
      /\ Cardinality(Held) = IF vm = 0 THEN 0 ELSE 1
      /\ spent["vms"] \in Nat /\ MaxVms \in Nat
  BY SlotFinite, QueueAssumption DEF SlotCounts, RInv, IInv, TypeOK, Budgets
<1>5. Cardinality(Held) + Cardinality(Boots) <= Spareable
  BY <1>4 DEF SlotBudget, Spareable
<1>6. QED
  BY <1>2, <1>3, <1>5 DEF PassBudget, Spareable

LEMMA PassStepBudget ==
  ASSUME RInv, RInv', SlotBudget, PassBudget, PassStep, ~ RetentionFails
  PROVE  SlotBudget' /\ PassBudget'
<1>1. PICK i \in Ids : VmHolds(i) \/ RemoveFiles(i) \/ SaveReclaimed(i)
  BY DEF PassStep, RetentionFails
<1>2. /\ UNCHANGED <<vm, booting>> /\ spent'["vms"] = spent["vms"]
      /\ i \in prune.left /\ i \in Expired(row, 0)
  BY <1>1, PassShape
<1>3. SlotBudget' /\ Boots' = Boots /\ Held' = Held
  BY <1>2 DEF SlotBudget, Boots, Held
<1>4. row \in [Ids -> Rows] /\ prune \in Passes /\ 0 \notin Ids
  BY QueueAssumption DEF RInv, IInv, TypeOK, Ids
<1>5. SparedSoFar' \subseteq SparedSoFar
  <2>1. CASE VmHolds(i)
    <3>1. row' = row
      BY <2>1 DEF VmHolds
    <3>2. CASE vm = i
      <4>1. prune'.left = prune.left \ {i} /\ i \in Held
        BY <1>4, <2>1, <3>2 DEF VmHolds, Proceed, Held
      <4>2. QED
        BY <1>3, <3>1, <4>1 DEF SparedSoFar
    <3>3. CASE vm # i
      <4>1. prune'.left = prune.left
        BY <1>4, <2>1, <3>3 DEF VmHolds, Passes
      <4>2. QED
        BY <1>3, <3>1, <4>1 DEF SparedSoFar
    <3>4. QED
      BY <3>2, <3>3
  <2>2. CASE RemoveFiles(i)
    <3>1. row' = row /\ prune'.left = prune.left
      BY <1>4, <2>2 DEF RemoveFiles, Passes
    <3>2. QED
      BY <1>3, <3>1 DEF SparedSoFar
  <2>3. CASE SaveReclaimed(i)
    <3>1. row' = Reclaimed(row, {i}) /\ prune'.left = prune.left \ {i}
      BY <2>3 DEF SaveReclaimed, Proceed
    <3>2. Expired(row', 0) = Expired(row, 0) \ {i}
      BY <1>2, <1>4, <3>1, ExpiredOnce
    <3>3. QED
      BY <1>3, <3>1, <3>2 DEF SparedSoFar
  <2>4. QED
    BY <1>1, <2>1, <2>2, <2>3
<1>6. Cardinality(SparedSoFar') <= Cardinality(SparedSoFar)
  BY <1>5, SlotFinite, FS_Subset DEF SlotCounts
<1>7. Cardinality(SparedSoFar') \in Nat /\ Cardinality(SparedSoFar) \in Nat
      /\ Cardinality(Boots) \in Nat /\ Cardinality(VmRequests) \in Nat /\ MaxVms \in Nat
  BY SlotFinite, SlotFiniteNext, QueueAssumption DEF SlotCounts
<1>8. QED
  BY <1>3, <1>6, <1>7 DEF PassBudget, Spareable

(* With nothing left to visit, the class holds its window and what the     *)
(* pass spared.                                                            *)
LEMMA PassOver == RInv /\ PassBudget => WindowBounded
<1> SUFFICES ASSUME RInv, PassBudget, Unlocked, NEW c \in Classes
             PROVE  Cardinality(Plain(row, c)) <= KeepBuilds + Spareable
  BY DEF WindowBounded, Plain
<1>1. row \in [Ids -> Rows] /\ prune.left = {}
  BY DEF RInv, IInv, TypeOK, PassSound, Unlocked
<1>2. Expired(row, 0) \subseteq SparedSoFar
  BY <1>1 DEF SparedSoFar
<1>3. /\ IsFiniteSet(SparedSoFar) /\ Cardinality(SparedSoFar) \in Nat
      /\ Cardinality(Boots) \in Nat /\ Cardinality(VmRequests) \in Nat /\ MaxVms \in Nat
  BY SlotFinite, QueueAssumption DEF SlotCounts
<1>4. Cardinality(Plain(row, c)) <= KeepBuilds + Cardinality(SparedSoFar)
  BY <1>1, <1>2, <1>3, WindowAtMost
<1>5. Cardinality(Plain(row, c)) \in Nat
  BY PlainFinite
<1>6. QED
  BY <1>3, <1>4, <1>5, KeepBuildsAssumption DEF PassBudget, Spareable

LEMMA PassOverNext == RInv' /\ PassBudget' => WindowBounded'
  BY PassOver, PTL

LEMMA WindowKept ==
  ASSUME RInv, RInv', WInv, [Next]_vars, ~ RetentionFails
  PROVE  WInv'
<1>1. CASE Calm
  BY <1>1, CalmBudget
<1>2. CASE MachineStep
  <2>1. UNCHANGED <<row, prune, up>> /\ SlotBudget'
    BY <1>2, MachineBudget DEF MachineStep, VmClaim, VmCheck, VmEnd, WInv
  <2>2. ASSUME prune'.at # "none" PROVE PassBudget'
    <3>1. /\ IsFiniteSet(SparedSoFar) /\ Cardinality(SparedSoFar) \in Nat
          /\ Cardinality(SparedSoFar') \in Nat /\ IsFiniteSet(Held')
          /\ Cardinality(Held') = IF vm' = 0 THEN 0 ELSE 1
          /\ Cardinality(Boots) \in Nat /\ Cardinality(Boots') \in Nat
          /\ Cardinality(VmRequests) \in Nat /\ MaxVms \in Nat
      BY SlotFinite, SlotFiniteNext, QueueAssumption DEF SlotCounts
    <3>2. PassBudget
      BY <2>1, <2>2 DEF WInv
    <3>3. CASE Held' \subseteq Held /\ Cardinality(Boots') <= Cardinality(Boots)
      <4>1. SparedSoFar' \subseteq SparedSoFar
        BY <2>1, <3>3 DEF SparedSoFar
      <4>2. Cardinality(SparedSoFar') <= Cardinality(SparedSoFar)
        BY <3>1, <4>1, FS_Subset
      <4>3. QED
        BY <3>1, <3>2, <3>3, <4>2 DEF PassBudget, Spareable
    <3>4. CASE Held = {} /\ Cardinality(Boots') + 1 = Cardinality(Boots)
      <4>1. SparedSoFar' = SparedSoFar \cup Held'
        BY <2>1, <3>4 DEF SparedSoFar
      <4>2. Cardinality(SparedSoFar') <= Cardinality(SparedSoFar) + 1
        <5>1. CASE vm' = 0
          <6>1. Held' = {}
            BY <5>1 DEF Held
          <6>2. QED
            BY <3>1, <4>1, <6>1
        <5>2. CASE vm' # 0
          <6>1. Held' = {vm'}
            BY <5>2 DEF Held
          <6>2. QED
            <7>1. CASE vm' \in SparedSoFar
              <8>1. SparedSoFar' = SparedSoFar
                BY <4>1, <6>1, <7>1
              <8>2. QED
                BY <3>1, <8>1
            <7>2. CASE vm' \notin SparedSoFar
              <8>1. Cardinality(SparedSoFar \cup {vm'}) = Cardinality(SparedSoFar) + 1
                BY <3>1, <7>2, FS_AddElement
              <8>2. QED
                BY <3>1, <4>1, <6>1, <8>1
            <7>3. QED
              BY <7>1, <7>2
        <5>3. QED
          BY <5>1, <5>2
      <4>3. QED
        BY <3>1, <3>2, <3>4, <4>2 DEF PassBudget, Spareable
    <3>5. QED
      BY <1>2, <2>1, <2>2, <3>3, <3>4, MachineBudget
  <2>3. WindowBounded'
    BY <2>1 DEF WInv, WindowBounded, Unlocked, Spareable, Occupies
  <2>4. QED
    BY <2>1, <2>2, <2>3 DEF WInv
<1>3. CASE Begins
  <2>1. SlotBudget' /\ PassBudget'
    BY <1>3, BeginsBudget DEF WInv
  <2>2. QED
    BY <2>1, PassOverNext DEF WInv
<1>4. CASE PassStep
  <2>1. prune.at # "none"
    BY <1>4 DEF PassStep, VmHolds, RemoveFiles, RemoveFails, SaveReclaimed, SaveFails
  <2>2. SlotBudget' /\ PassBudget'
    BY <1>4, <2>1, PassStepBudget DEF WInv
  <2>3. QED
    BY <2>2, PassOverNext DEF WInv
<1>5. CASE Crash
  <2>1. /\ ~ up' /\ prune' = NoPass /\ vm' = 0 /\ booting' = [q \in VmRequests |-> 0]
        /\ spent'["vms"] = spent["vms"]
    BY <1>5 DEF Crash, Spend, Budgets, RInv, IInv, TypeOK
  <2>2. Boots' = {} /\ Held' = {}
    BY <2>1 DEF Boots, Held
  <2>3. Cardinality({}) = 0 /\ Cardinality(Held) \in Nat /\ Cardinality(Boots) \in Nat
        /\ spent["vms"] \in Nat /\ MaxVms \in Nat
    BY FS_EmptySet, SlotFinite, QueueAssumption DEF SlotCounts, RInv, IInv, TypeOK, Budgets
  <2>4. SlotBudget'
    BY <2>1, <2>2, <2>3 DEF WInv, SlotBudget
  <2>5. QED
    BY <2>1, <2>4 DEF WInv, NoPass, WindowBounded, Unlocked
<1>6. QED
  BY <1>1, <1>2, <1>3, <1>4, <1>5, StepShapes DEF RInv

(* And it does reclaim, if it met no error: once a pass is over, a class   *)
(* keeps outside favourites KeepBuilds builds and no more than the pass    *)
(* could be told to spare, although the machine may be released and taken  *)
(* by others while it goes on (pruneLocked, vmStart).                      *)
THEOREM WindowStaysBounded == Spec /\ RetentionSucceeds => []WindowBounded
<1>1. Init => WInv
  <2> SUFFICES ASSUME Init PROVE WInv
    OBVIOUS
  <2>1. ASSUME NEW c \in Classes
        PROVE  Cardinality(Plain(row, c)) = 0
    <3>1. Plain(row, c) = {}
      BY DEF Init, Plain, Occupies, NoRow
    <3>2. QED
      BY <3>1, FS_EmptySet
  <2>2. Spareable \in Nat
    <3>1. Cardinality(VmRequests) \in Nat
      BY QueueAssumption, FS_CardinalityType
    <3>2. QED
      BY <3>1, QueueAssumption DEF Spareable
  <2>3. WindowBounded
    BY <2>1, <2>2, KeepBuildsAssumption DEF WindowBounded, Plain
  <2>4. Boots = {} /\ Held = {} /\ spent["vms"] = 0 /\ MaxVms \in Nat /\ prune.at = "none"
    BY QueueAssumption DEF Init, Boots, Held, Budgets, NoPass
  <2>5. SlotBudget
    BY <2>4, FS_EmptySet DEF SlotBudget
  <2>6. QED
    BY <2>3, <2>4, <2>5 DEF WInv
<1>2. RInv /\ RInv' /\ WInv /\ [Next]_vars /\ [~ RetentionFails]_vars => WInv'
  <2> SUFFICES ASSUME RInv, RInv', WInv, [Next]_vars, [~ RetentionFails]_vars
               PROVE  WInv'
    OBVIOUS
  <2>1. CASE UNCHANGED vars
    BY <2>1 DEF vars, WInv, WindowBounded, Unlocked, Occupies, SlotBudget, PassBudget, Held, Boots,
                SparedSoFar, Expired, InWindow, Newer, Spareable
  <2>2. CASE ~ RetentionFails
    BY <2>2, WindowKept
  <2>3. QED
    BY <2>1, <2>2
<1>3. WInv => WindowBounded
  BY DEF WInv
<1>4. QED
  BY <1>1, <1>2, <1>3, RetentionInvariance, PTL DEF Spec, RetentionSucceeds

(* Where no removal, save or Docker call fails, retention succeeds.        *)
THEOREM NoFaultNoError == MaxFaults = 0 => (Spec => RetentionSucceeds)
<1> SUFFICES ASSUME MaxFaults = 0 PROVE Spec => RetentionSucceeds
  OBVIOUS
<1>1. IInv => ~ RetentionFails
  <2> SUFFICES ASSUME IInv, RetentionFails PROVE FALSE
    OBVIOUS
  <2>1. spent["faults"] \in Nat
    BY DEF IInv, TypeOK, Budgets
  <2>2. Spend("faults")
    BY DEF RetentionFails, FinishWithErrors, RestartUnpruned, RemoveFails, SaveFails,
           SetFavoriteUnpruned
  <2>3. spent["faults"] < 0
    BY <2>2 DEF Spend, Budgets
  <2>4. QED
    BY <2>1, <2>3
<1>2. IInv /\ [Next]_vars => [~ RetentionFails]_vars
  BY <1>1
<1>3. QED
  BY <1>2, Invariance, PTL DEF Spec, RetentionSucceeds

-------------------------------------------------------------------------------
(* The loop of pruneLocked *)

(* The tables the loop runs over. *)
WalkTyped ==
  /\ recorded \in [1..Builds -> [state : {"succeeded", "failed"}, class : Classes,
                             fav : BOOLEAN, pruned : BOOLEAN, arts : BOOLEAN]]
  /\ pinned \in 0..Builds

Holders(c, i) == {k \in i..Builds : Occupies(recorded, k) /\ recorded[k].class = c}

(* The closed form of what the loop has done once it is past build i. *)
Upto(i) == [window    |-> [c \in Classes |-> Cardinality(Holders(c, i))],
            reclaimed |-> {k \in i..Builds : k \in Expired(recorded, pinned)}]

LEMMA HoldersFinite ==
  ASSUME NEW c, NEW i \in Nat
  PROVE  IsFiniteSet(Holders(c, i)) /\ Cardinality(Holders(c, i)) \in Nat
<1>1. IsFiniteSet(i..Builds)
  BY FS_Interval, BuildsAssumption
<1>2. Holders(c, i) \subseteq i..Builds
  BY DEF Holders
<1>3. QED
  BY <1>1, <1>2, FS_Subset, FS_CardinalityType

(* One more build visited is one more build in the closed form. *)
LEMMA VisitUpto ==
  ASSUME WalkTyped, NEW i \in 1..Builds
  PROVE  Visit(Upto(i + 1), i) = Upto(i)
<1> DEFINE own == recorded[i].class
<1>1. i \in Nat /\ i + 1 \in Nat /\ i \in DOMAIN recorded /\ DOMAIN recorded = 1..Builds
  BY DEF WalkTyped
<1>2. /\ i..Builds = {i} \cup ((i + 1)..Builds)
      /\ i \notin (i + 1)..Builds
  BY BuildsAssumption
<1>3. CASE ~ Occupies(recorded, i)
  <2>1. Visit(Upto(i + 1), i) = Upto(i + 1)
    BY <1>3 DEF Visit
  <2>2. \A c : Holders(c, i) = Holders(c, i + 1)
    BY <1>2, <1>3 DEF Holders
  <2>3. i \notin Expired(recorded, pinned)
    BY <1>3 DEF Expired
  <2>4. {k \in i..Builds : k \in Expired(recorded, pinned)}
          = {k \in (i + 1)..Builds : k \in Expired(recorded, pinned)}
    BY <1>2, <2>3
  <2>5. QED
    BY <2>1, <2>2, <2>4 DEF Upto
<1>4. CASE Occupies(recorded, i)
  <2>1. own \in Classes
    BY DEF WalkTyped
  <2>2. Newer(recorded, i) = Holders(own, i + 1)
    BY <1>1, BuildsAssumption DEF Newer, Holders
  <2>3. Holders(own, i) = Holders(own, i + 1) \cup {i} /\ i \notin Holders(own, i + 1)
    BY <1>2, <1>4 DEF Holders
  <2>4. \A c \in Classes : c # own => Holders(c, i) = Holders(c, i + 1)
    BY <1>2 DEF Holders
  <2>5. Cardinality(Holders(own, i)) = Cardinality(Holders(own, i + 1)) + 1
    BY <1>1, <2>3, HoldersFinite, FS_AddElement
  <2> DEFINE window == [Upto(i + 1).window EXCEPT ![own] = @ + 1]
             keep   == window[own] <= KeepBuilds \/ recorded[i].fav \/ pinned = i
             rest   == Upto(i + 1).reclaimed
  <2>6. window = Upto(i).window
    BY <2>1, <2>4, <2>5 DEF Upto
  <2>7. keep <=> i \notin Expired(recorded, pinned)
    <3>1. window[own] = Cardinality(Newer(recorded, i)) + 1
      BY <2>1, <2>2, <2>5, <2>6 DEF Upto
    <3>2. Cardinality(Newer(recorded, i)) \in Nat
      BY <1>1, <2>2, HoldersFinite
    <3>3. window[own] <= KeepBuilds <=> InWindow(recorded, i)
      BY <3>1, <3>2, KeepBuildsAssumption DEF InWindow
    <3> HIDE DEF window
    <3>4. QED
      BY <1>1, <1>4, <3>3 DEF Expired
  <2>8. Upto(i).reclaimed = IF keep THEN rest ELSE rest \cup {i}
    <3>1. rest = {k \in (i + 1)..Builds : k \in Expired(recorded, pinned)}
      BY DEF Upto
    <3>2. Upto(i).reclaimed = {k \in i..Builds : k \in Expired(recorded, pinned)}
      BY DEF Upto
    <3> HIDE DEF keep
    <3>3. QED
      BY <1>2, <2>7, <3>1, <3>2
  <2>9. Visit(Upto(i + 1), i)
          = [window |-> window, reclaimed |-> IF keep THEN rest ELSE rest \cup {i}]
    BY <1>4 DEF Visit
  <2>10. Upto(i) = [window |-> Upto(i).window, reclaimed |-> Upto(i).reclaimed]
    BY DEF Upto
  <2>11. QED
    <3> HIDE DEF window, keep, rest
    <3>1. QED
      BY <2>6, <2>8, <2>9, <2>10
<1>5. QED
  BY <1>3, <1>4

LEMMA StartUpto == Upto(Builds + 1) = Start
<1>1. (Builds + 1)..Builds = {}
  BY BuildsAssumption
<1>2. \A c : Holders(c, Builds + 1) = {}
  BY <1>1 DEF Holders
<1>3. QED
  BY <1>1, <1>2, FS_EmptySet DEF Upto, Start

LEMMA WalkComputesExpired ==
  ASSUME WalkTyped
  PROVE  Walk = Expired(recorded, pinned)
<1> DEFINE D       == 1..(Builds + 1)
           Loop(f) == [i \in D |-> IF i = Builds + 1 THEN Start ELSE Visit(f[i + 1], i)]
           past    == CHOOSE f : f = Loop(f)
           g       == [i \in D |-> Upto(i)]
<1>1. Walk = past[1].reclaimed
  BY DEF Walk
<1>2. \A i \in D : i # Builds + 1 => i \in 1..Builds /\ i + 1 \in D
  BY BuildsAssumption
<1>3. g = Loop(g)
  BY <1>2, VisitUpto, StartUpto
<1>4. past = Loop(past)
  BY <1>3
<1> HIDE DEF past
<1>5. \A i \in D : past[i] = IF i = Builds + 1 THEN Start ELSE Visit(past[i + 1], i)
  BY <1>4
<1>6. ASSUME NEW j \in D, past[j] # Upto(j)
      PROVE  FALSE
  <2> DEFINE wrong == {n \in 0..Builds : past[Builds + 1 - n] # Upto(Builds + 1 - n)}
  <2>1. wrong # {}
    <3>1. Builds + 1 - j \in 0..Builds /\ Builds + 1 - (Builds + 1 - j) = j
      BY BuildsAssumption
    <3>2. QED
      BY <1>6, <3>1
  <2>2. PICK n \in wrong : \A m \in wrong : n <= m
    <3>1. wrong \in SUBSET Nat
      BY BuildsAssumption
    <3> HIDE DEF wrong
    <3>2. QED
      BY <2>1, <3>1, LeastExists
  <2> DEFINE i == Builds + 1 - n
  <2>3. i \in D /\ past[i] # Upto(i) /\ n \in 0..Builds
    BY BuildsAssumption
  <2>4. i # Builds + 1
    BY <1>5, <2>3, StartUpto
  <2>5. past[i + 1] = Upto(i + 1)
    <3>1. n - 1 \in 0..Builds /\ Builds + 1 - (n - 1) = i + 1 /\ ~ (n <= n - 1)
      BY <2>3, <2>4, BuildsAssumption
    <3>2. n - 1 \notin wrong
      BY <2>2, <3>1
    <3>3. QED
      BY <3>1, <3>2
  <2>6. past[i] = Visit(Upto(i + 1), i)
    BY <1>5, <2>3, <2>4, <2>5
  <2>7. QED
    BY <1>2, <2>3, <2>4, <2>6, VisitUpto
<1>7. past[1] = Upto(1)
  BY <1>6, BuildsAssumption
<1>8. Expired(recorded, pinned) \subseteq 1..Builds
  BY DEF Expired, WalkTyped
<1>9. QED
  BY <1>1, <1>7, <1>8 DEF Upto

LEMMA InitWalkTyped == WalkInit => WalkTyped
<1> SUFFICES ASSUME WalkInit PROVE WalkTyped
  OBVIOUS
<1> DEFINE R == [state : {"succeeded", "failed"}, class : Classes,
                 fav : BOOLEAN, pruned : BOOLEAN, arts : BOOLEAN]
<1>1. recorded \in [1..Builds -> [state : {"succeeded"}, class : Classes, fav : BOOLEAN,
                              pruned : {FALSE}, arts : {TRUE}]
                             \cup
                             [state : {"failed"}, class : Classes, fav : {FALSE},
                              pruned : {FALSE}, arts : {FALSE}]]
  BY DEF WalkInit, Tables
<1>2. [state : {"succeeded"}, class : Classes, fav : BOOLEAN,
       pruned : {FALSE}, arts : {TRUE}] \subseteq R
  OBVIOUS
<1>3. [state : {"failed"}, class : Classes, fav : {FALSE},
       pruned : {FALSE}, arts : {FALSE}] \subseteq R
  OBVIOUS
<1> HIDE DEF R
<1>4. recorded \in [1..Builds -> R]
  BY <1>1, <1>2, <1>3
<1>5. QED
  BY <1>4 DEF R, WalkTyped, WalkInit

LEMMA StepWalkTyped == WalkTyped /\ [WalkNext]_walkVars => WalkTyped'
<1> SUFFICES ASSUME WalkTyped, [WalkNext]_walkVars PROVE WalkTyped'
  OBVIOUS
<1> DEFINE R == [state : {"succeeded", "failed"}, class : Classes,
                 fav : BOOLEAN, pruned : BOOLEAN, arts : BOOLEAN]
<1>1. CASE Prune
  <2>1. \A i \in 1..Builds : recorded[i] \in R
    BY DEF WalkTyped
  <2>2. recorded' = [i \in 1..Builds |-> IF i \in Walk
                                     THEN [recorded[i] EXCEPT !.arts = FALSE, !.pruned = TRUE]
                                     ELSE recorded[i]]
    BY <1>1 DEF Prune, Reclaimed, WalkTyped
  <2>3. \A r \in R : [r EXCEPT !.arts = FALSE, !.pruned = TRUE] \in R
    OBVIOUS
  <2> HIDE DEF R
  <2>4. recorded' \in [1..Builds -> R]
    BY <2>1, <2>2, <2>3
  <2>5. QED
    BY <1>1, <2>4 DEF R, WalkTyped, Prune
<1>2. CASE Release
  BY <1>2, BuildsAssumption DEF WalkTyped, Release
<1>3. CASE UNCHANGED walkVars
  BY <1>3 DEF WalkTyped, walkVars
<1>4. QED
  BY <1>1, <1>2, <1>3 DEF WalkNext

LEMMA AlwaysWalkTyped == WalkSpec => []WalkTyped
  BY InitWalkTyped, StepWalkTyped, PTL DEF WalkSpec

(* The counting pass computes what BuildQueue reclaims. *)
THEOREM LoopIsExpired == WalkSpec => []WalkIsExpired
<1>1. WalkTyped => WalkIsExpired
  BY WalkComputesExpired DEF WalkIsExpired
<1>2. QED
  BY AlwaysWalkTyped, <1>1, PTL

(* A set of builds is determined by its size if it is the newest part of   *)
(* another: what MostRecent chooses is what Newest describes.              *)
LEMMA NewestIsChosen ==
  ASSUME NEW S \in SUBSET Nat, IsFiniteSet(S), NEW K \in Nat, NEW size,
         size = IF Cardinality(S) < K THEN Cardinality(S) ELSE K
  PROVE  Newest(S, K) = CHOOSE T \in SUBSET S :
                          /\ Cardinality(T) = size
                          /\ \A i \in T, k \in S \ T : k < i
<1> DEFINE Best(T) == /\ Cardinality(T) = size
                      /\ \A i \in T, k \in S \ T : k < i
           N       == Newest(S, K)
           over(i) == {k \in S : k > i}
<1>1. Cardinality(S) \in Nat /\ size \in Nat
  BY FS_CardinalityType
<1>2. /\ N \in SUBSET S /\ IsFiniteSet(N) /\ Cardinality(N) \in Nat
      /\ Cardinality(N) <= K
  <2>1. N \in SUBSET S
    BY DEF Newest
  <2>2. QED
    BY <2>1, NewestFew, FS_CardinalityType
<1>3. Cardinality(N) = size
  <2>1. CASE Cardinality(S) < K
    <3>1. ASSUME NEW i \in S PROVE i \in N
      <4>1. over(i) \subseteq S
        OBVIOUS
      <4>2. Cardinality(over(i)) <= Cardinality(S) /\ Cardinality(over(i)) \in Nat
        BY <4>1, FS_Subset, FS_CardinalityType
      <4>3. QED
        BY <1>1, <2>1, <4>2 DEF Newest
    <3>2. N = S
      BY <1>2, <3>1
    <3>3. QED
      BY <2>1, <3>2
  <2>2. CASE ~ (Cardinality(S) < K)
    <3>1. K <= Cardinality(S)
      BY <1>1, <2>2
    <3>2. K <= Cardinality(N)
      BY <3>1, NewestEnough
    <3>3. QED
      BY <1>2, <2>2, <3>2
  <2>3. QED
    BY <2>1, <2>2
<1>4. ASSUME NEW i \in N, NEW k \in S \ N
      PROVE  k < i
  <2>1. i \in S /\ i \in Nat /\ k \in Nat /\ k # i
    BY <1>2
  <2>2. SUFFICES ASSUME k > i PROVE FALSE
    BY <2>1
  <2>3. over(k) \subseteq over(i)
    <3>1. ASSUME NEW j \in over(k) PROVE j \in over(i)
      <4>1. j \in S /\ j \in Nat /\ j > k
        OBVIOUS
      <4>2. QED
        BY <2>1, <2>2, <4>1
    <3>2. QED
      BY <3>1
  <2>4. /\ Cardinality(over(k)) <= Cardinality(over(i))
        /\ Cardinality(over(k)) \in Nat /\ Cardinality(over(i)) \in Nat
    <3>1. over(i) \subseteq S /\ over(k) \subseteq S
      OBVIOUS
    <3>2. IsFiniteSet(over(i)) /\ IsFiniteSet(over(k))
      BY <3>1, FS_Subset
    <3> HIDE DEF over
    <3>3. QED
      BY <2>3, <3>2, FS_Subset, FS_CardinalityType
  <2>5. Cardinality(over(i)) < K /\ ~ (Cardinality(over(k)) < K)
    BY DEF Newest
  <2>6. QED
    BY <2>4, <2>5
<1>5. Best(N)
  BY <1>3, <1>4
<1>6. ASSUME NEW T \in SUBSET S, Best(T)
      PROVE  T = N
  <2>1. IsFiniteSet(T)
    BY FS_Subset
  <2>2. T \subseteq N \/ N \subseteq T
    <3>1. SUFFICES ASSUME NEW i \in T \ N, NEW k \in N \ T
                   PROVE  FALSE
      OBVIOUS
    <3>2. k < i /\ i < k
      BY <1>2, <1>5, <1>6
    <3>3. i \in Nat /\ k \in Nat
      BY <1>2
    <3>4. QED
      BY <3>2, <3>3
  <2>3. Cardinality(T) = Cardinality(N)
    BY <1>3, <1>6
  <2> HIDE DEF N
  <2>4. QED
    BY <1>2, <2>1, <2>2, <2>3, FS_Subset
<1>7. QED
  BY <1>2, <1>5, <1>6

LEMMA MostRecentIsNewest ==
  ASSUME WalkTyped, NEW c \in Classes
  PROVE  MostRecent(c) = Newest(Holders(c, 1), KeepBuilds)
<1> DEFINE S == Holders(c, 1)
<1>1. S \in SUBSET Nat /\ IsFiniteSet(S)
  <2>1. S \in SUBSET Nat
    BY DEF Holders
  <2>2. QED
    BY <2>1, HoldersFinite
<1>2. S = {i \in 1..Builds : Occupies(recorded, i) /\ recorded[i].class = c}
  BY DEF Holders
<1> HIDE DEF S
<1>3. MostRecent(c) = CHOOSE T \in SUBSET S :
                        /\ Cardinality(T) = IF Cardinality(S) < KeepBuilds
                                            THEN Cardinality(S) ELSE KeepBuilds
                        /\ \A i \in T, k \in S \ T : k < i
  BY <1>2 DEF MostRecent
<1>4. QED
  BY <1>1, <1>3, NewestIsChosen, KeepBuildsAssumption DEF S

LEMMA PromiseKept == WalkTyped => WalkKeepsWhatIsPromised
<1> SUFFICES ASSUME WalkTyped PROVE WalkKeepsWhatIsPromised
  OBVIOUS
<1>1. Walk = Expired(recorded, pinned) /\ DOMAIN recorded = 1..Builds
  BY WalkComputesExpired DEF WalkTyped
<1>2. ASSUME NEW i \in 1..Builds, Occupies(recorded, i)
      PROVE  InWindow(recorded, i) <=> \E c \in Classes : i \in MostRecent(c)
  <2>1. recorded[i].class \in Classes
    BY DEF WalkTyped
  <2>2. \A c : i \in Holders(c, 1) <=> recorded[i].class = c
    BY <1>2 DEF Holders
  <2>3. Newer(recorded, i) = {k \in Holders(recorded[i].class, 1) : k > i}
    BY <1>1 DEF Newer, Holders
  <2>4. InWindow(recorded, i) <=> i \in Newest(Holders(recorded[i].class, 1), KeepBuilds)
    BY <2>2, <2>3 DEF InWindow, Newest
  <2>5. \A c \in Classes : i \in Newest(Holders(c, 1), KeepBuilds) => c = recorded[i].class
    BY <2>2 DEF Newest
  <2>6. QED
    BY <2>1, <2>4, <2>5, MostRecentIsNewest
<1>3. \A c \in Classes : MostRecent(c) \subseteq {i \in 1..Builds : Occupies(recorded, i)}
  BY MostRecentIsNewest DEF Newest, Holders
<1>4. \A i \in 1..Builds : Occupies(recorded, i) =>
        (i \in Expired(recorded, pinned) <=> ~ InWindow(recorded, i) /\ ~ recorded[i].fav /\ i # pinned)
  BY <1>1 DEF Expired
<1>5. QED
  BY <1>1, <1>2, <1>3, <1>4 DEF WalkKeepsWhatIsPromised

(* Kept is what the README promises. *)
THEOREM WalkKeepsPromise == WalkSpec => []WalkKeepsWhatIsPromised
  BY AlwaysWalkTyped, PromiseKept, PTL

-------------------------------------------------------------------------------
(* What retention promises for every window size and every table, however  *)
(* many builds it has; held is the build of the machine slot.              *)

TableRows(States) ==
  [state : States, class : Classes \cup {"none"},
   fav : BOOLEAN, pruned : BOOLEAN, arts : BOOLEAN]

(* Reclaiming (pruneArtifacts) touches only the artifact columns: neither  *)
(* the verdict nor the class nor the star of any build changes.            *)
LEMMA ReclaimedKeeps ==
  ASSUME NEW D, NEW States, NEW table \in [D -> TableRows(States)], NEW S, NEW i \in D
  PROVE  /\ Reclaimed(table, S) \in [D -> TableRows(States)]
         /\ Reclaimed(table, S)[i].state = table[i].state
         /\ Reclaimed(table, S)[i].class = table[i].class
         /\ Reclaimed(table, S)[i].fav = table[i].fav
         /\ i \in S => ~ Reclaimed(table, S)[i].arts /\ Reclaimed(table, S)[i].pruned
         /\ i \notin S => Reclaimed(table, S)[i] = table[i]
  BY DEF Reclaimed, TableRows

(* The newer holders of slots after a reclamation are holders before it.   *)
LEMMA ReclaimedNewer ==
  ASSUME NEW D \in SUBSET Int, NEW States, NEW table \in [D -> TableRows(States)], NEW S,
         NEW i \in D
  PROVE  Newer(Reclaimed(table, S), i) \subseteq Newer(table, i)
<1> DEFINE after == Reclaimed(table, S)
<1>1. DOMAIN after = D /\ DOMAIN table = D
  BY DEF Reclaimed
<1>2. SUFFICES ASSUME NEW k \in Newer(after, i)
               PROVE  k \in Newer(table, i)
  OBVIOUS
<1>3. k \in D /\ k > i /\ Occupies(after, k) /\ after[k].class = after[i].class
  BY <1>1, <1>2 DEF Newer
<1>4. k \notin S
  BY <1>3, ReclaimedKeeps DEF Occupies
<1>5. after[k] = table[k] /\ after[i].class = table[i].class
  BY <1>3, <1>4, ReclaimedKeeps
<1>6. QED
  BY <1>1, <1>3, <1>5 DEF Newer, Occupies

(* Retention settles in one run (pruneLocked): right after it reclaimed    *)
(* what had expired nothing has expired, whatever the table and however    *)
(* many runs preceded.                                                     *)
THEOREM RetentionSettles ==
  ASSUME NEW D \in SUBSET Int, IsFiniteSet(D), NEW States,
         NEW table \in [D -> TableRows(States)], NEW held
  PROVE  Expired(Reclaimed(table, Expired(table, held)), held) = {}
<1> DEFINE S == Expired(table, held)
           after == Reclaimed(table, S)
<1>1. DOMAIN after = D /\ DOMAIN table = D
  BY DEF Reclaimed
<1>2. SUFFICES ASSUME NEW i \in Expired(after, held)
               PROVE  FALSE
  OBVIOUS
<1>3. i \in D /\ Occupies(after, i) /\ ~ InWindow(after, i) /\ ~ after[i].fav /\ i # held
  BY <1>1, <1>2 DEF Expired
<1>4. i \notin S
  BY <1>3, ReclaimedKeeps DEF Occupies
<1>5. after[i] = table[i]
  BY <1>3, <1>4 DEF Reclaimed
<1>6. Newer(after, i) \subseteq Newer(table, i)
  BY <1>3, ReclaimedNewer
<1>7. /\ IsFiniteSet(Newer(table, i))
      /\ Cardinality(Newer(after, i)) \in Nat
      /\ Cardinality(Newer(table, i)) \in Nat
      /\ Cardinality(Newer(after, i)) <= Cardinality(Newer(table, i))
  <2>1. Newer(table, i) \subseteq D
    BY <1>1 DEF Newer
  <2>2. IsFiniteSet(Newer(table, i))
    BY <2>1, FS_Subset
  <2>3. QED
    BY <1>6, <2>2, FS_Subset, FS_CardinalityType
<1>8. ~ InWindow(table, i)
  BY <1>3, <1>7, KeepBuildsAssumption DEF InWindow
<1>9. i \in S
  BY <1>1, <1>3, <1>5, <1>8 DEF Expired, Occupies
<1>10. QED
  BY <1>4, <1>9

(* What a run may not touch (pruneLocked): a favourite, the build of the   *)
(* machine slot, and every build with fewer than KeepBuilds newer ones of  *)
(* its class keep their artifacts and their row exactly as they were.      *)
THEOREM RetentionSparesRows ==
  ASSUME NEW D \in SUBSET Int, NEW States, NEW table \in [D -> TableRows(States)], NEW held,
         NEW i \in D, table[i].fav \/ i = held \/ InWindow(table, i)
  PROVE  Reclaimed(table, Expired(table, held))[i] = table[i]
<1>1. i \notin Expired(table, held)
  BY DEF Expired
<1>2. QED
  BY <1>1 DEF Reclaimed
===============================================================================
