------------------------------ MODULE LogStream ------------------------------
(***************************************************************************)
(* The log of one build, from the container to the browser: the goroutine  *)
(* that copies "docker logs --follow" into the log file (captureLogs), the *)
(* worker that waits for it before it gives a verdict (run, finish), the   *)
(* event streams that follow the file (events), and those who remove it    *)
(* (deleteLog, deleteJob).  BuildQueue says how the build got its          *)
(* container; here it has one, and its row says running.                   *)
(*                                                                         *)
(* The container's output is bytes 1, 2, ... and a file is the sequence of *)
(* bytes written to it.  A file that was removed is still there for those  *)
(* who have it open, so files have numbers; the log is the last one made,  *)
(* if it exists.                                                           *)
(***************************************************************************)
EXTENDS Integers, Sequences

CONSTANTS
  Viewers,      \* event streams
  MaxCaptures,  \* captureLogs goroutines under way together (bound)
  MaxBytes,     \* bytes printed by the build (bound)
  MaxFiles,     \* log files made (bound)
  Pipe,         \* bytes a pipe holds
  Chunk,        \* bytes an event carries at most
  Faulty,       \* what may fail: "read" "save" (the row), "write" "docker" "rm"
  MaxFaults,    \* failures (bound)
  MaxCrashes    \* server restarts (bound)

ASSUME LogAssumption ==
  /\ {MaxCaptures, MaxBytes, MaxFaults, MaxCrashes} \subseteq Nat
  /\ {Pipe, Chunk, MaxFiles} \subseteq Nat \ {0}
  /\ Faulty \subseteq {"read", "save", "write", "docker", "rm"}

VARIABLES
  row,       \* the state of the build in the jobs table
  box,       \* the container
  code,      \* the exit code the build ends with is zero
  printed,   \* bytes Docker has of its output
  store,     \* the log files
  made,      \* how many were made
  exists,    \* the last of them is still in the directory
  capture,   \* the goroutines of captureLogs
  worker,    \* the worker goroutine in run
  viewer,    \* the event streams, and how far each browser got
  spent      \* failures and restarts so far

file  == <<store, made, exists>>
build == <<box, code, printed>>
vars  == <<row, build, file, capture, worker, viewer, spent>>

Active   == {"running", "cancelling"}
Terminal == {"succeeded", "failed", "cancelled"}

Files == 1..MaxFiles
Captures == 1..MaxCaptures

NoCapture == [at |-> "none", fd |-> 0, skip |-> 0, sent |-> 0, read |-> 0,
              child |-> "none", stopped |-> FALSE, failed |-> FALSE]
NoRun     == [at |-> "idle", seen |-> "running", capture |-> 0, verdict |-> "failed"]
NoViewer  == [at |-> "off", fd |-> 0, offset |-> 0]

(* submit made an empty log. *)
Init ==
  /\ row = "running"
  /\ box = "running"
  /\ code \in BOOLEAN
  /\ printed = 0
  /\ store = [g \in Files |-> <<>>]
  /\ made = 1
  /\ exists = TRUE
  /\ capture = [c \in Captures |-> NoCapture]
  /\ worker = NoRun
  /\ viewer = [v \in Viewers |-> NoViewer]
  /\ spent = [faults |-> 0, crashes |-> 0]

Fault(what) ==
  /\ what \in Faulty
  /\ spent.faults < MaxFaults
  /\ spent' = [spent EXCEPT !.faults = @ + 1]

-------------------------------------------------------------------------------
(* captureLogs *)

(* Open the log for appending, made anew if there is none, and look at its *)
(* size.                                                                   *)
CaptureOpen(c) ==
  /\ capture[c].at = "new"
  /\ exists \/ made < MaxFiles
  /\ made' = made + IF exists THEN 0 ELSE 1
  /\ exists' = TRUE
  /\ capture' = [capture EXCEPT ![c].at = "start", ![c].fd = made', ![c].skip = Len(store[made'])]
  /\ UNCHANGED <<row, build, store, worker, viewer, spent>>

CaptureStart(c) ==
  /\ capture[c].at = "start"
  /\ ~ capture[c].stopped
  /\ capture' = [capture EXCEPT ![c].at = "follow", ![c].child = "alive"]
  /\ UNCHANGED <<row, build, file, worker, viewer, spent>>

(* The file does not open, or docker logs does not start: not once run has *)
(* been left.                                                              *)
CaptureFails(c) ==
  /\ \/ capture[c].at = "new" /\ Fault("write")
     \/ capture[c].at = "start" /\ Fault("docker")
     \/ capture[c].at = "start" /\ capture[c].stopped /\ UNCHANGED spent
  /\ capture' = [capture EXCEPT ![c].at = "done", ![c].failed = TRUE]
  /\ UNCHANGED <<row, build, file, worker, viewer>>

(* docker logs replays the output from its first byte, as far as the pipe  *)
(* takes it.                                                               *)
ChildSends(c) ==
  /\ capture[c].child = "alive" /\ box # "missing"
  /\ capture[c].sent < printed /\ capture[c].sent - capture[c].read < Pipe
  /\ capture' = [capture EXCEPT ![c].sent = @ + 1]
  /\ UNCHANGED <<row, build, file, worker, viewer, spent>>

(* It ends with the container, is killed by stopLogs, or breaks off. *)
ChildEnds(c) ==
  /\ capture[c].child = "alive"
  /\ \/ /\ box = "exited" /\ capture[c].sent = printed
        /\ capture' = [capture EXCEPT ![c].child = "ended"]
        /\ UNCHANGED spent
     \/ /\ box = "missing" \/ capture[c].stopped
        /\ capture' = [capture EXCEPT ![c].child = "broken"]
        /\ UNCHANGED spent
     \/ Fault("docker") /\ capture' = [capture EXCEPT ![c].child = "broken"]
  /\ UNCHANGED <<row, build, file, worker, viewer>>

CaptureCopies_All(c) ==
  /\ capture[c].at = "follow" /\ ~ capture[c].failed
  /\ capture[c].read < capture[c].sent
  /\ capture' = [capture EXCEPT ![c].read = @ + 1]
  /\ store' = [store EXCEPT ![capture[c].fd] = Append(@, capture[c].read + 1)]
  /\ UNCHANGED <<row, build, made, exists, worker, viewer, spent>>

(* The bytes the file had when it was opened are skipped. *)
CaptureCopies(c) ==
  /\ capture[c].at = "follow" /\ ~ capture[c].failed
  /\ capture[c].read < capture[c].sent
  /\ capture' = [capture EXCEPT ![c].read = @ + 1]
  /\ store' = IF capture[c].read < capture[c].skip
              THEN store
              ELSE [store EXCEPT ![capture[c].fd] = Append(@, capture[c].read + 1)]
  /\ UNCHANGED <<row, build, made, exists, worker, viewer, spent>>

(* A byte that cannot be written ends the copying, not the child. *)
CaptureBreaks(c) ==
  /\ capture[c].at = "follow" /\ ~ capture[c].failed
  /\ capture[c].skip <= capture[c].read /\ capture[c].read < capture[c].sent
  /\ Fault("write")
  /\ capture' = [capture EXCEPT ![c].read = @ + 1, ![c].failed = TRUE]
  /\ UNCHANGED <<row, build, file, worker, viewer>>

CaptureEnds(c) ==
  /\ capture[c].at = "follow"
  /\ capture[c].child \in {"ended", "broken"}
  /\ capture[c].failed \/ capture[c].read = capture[c].sent
  /\ capture' = [capture EXCEPT
       ![c].at = "done",
       ![c].failed = @ \/ capture[c].child = "broken" \/ capture[c].read < capture[c].skip]
  /\ UNCHANGED <<row, build, file, worker, viewer, spent>>

CaptureStep(c) ==
  \/ CaptureOpen(c) \/ CaptureStart(c) \/ CaptureFails(c)
  \/ ChildSends(c) \/ ChildEnds(c)
  \/ CaptureCopies(c) \/ CaptureBreaks(c) \/ CaptureEnds(c)

-------------------------------------------------------------------------------
(* run, from the point where the build is running *)

Stop(c) == capture' = [capture EXCEPT ![c].stopped = TRUE]

LogsDone == capture[worker.capture].at = "done"

RunBegin_AnyRow ==
  /\ worker.at = "idle" /\ row # "deleted"
  /\ IF box = "missing"
     THEN worker' = [worker EXCEPT !.at = "finish", !.verdict = "failed"] /\ UNCHANGED capture
     ELSE \E c \in Captures :
            /\ capture[c].at \in {"none", "done"}
            /\ capture' = [capture EXCEPT ![c] = [NoCapture EXCEPT !.at = "new"]]
            /\ worker' = [worker EXCEPT !.at = "read", !.capture = c]
  /\ UNCHANGED <<row, build, file, viewer, spent>>

RunBegin ==
  /\ worker.at = "idle" /\ row \in Active
  /\ IF box = "missing"
     THEN worker' = [worker EXCEPT !.at = "finish", !.verdict = "failed"] /\ UNCHANGED capture
     ELSE \E c \in Captures :
            /\ capture[c].at \in {"none", "done"}
            /\ capture' = [capture EXCEPT ![c] = [NoCapture EXCEPT !.at = "new"]]
            /\ worker' = [worker EXCEPT !.at = "read", !.capture = c]
  /\ UNCHANGED <<row, build, file, viewer, spent>>

ReadRow ==
  /\ worker.at = "read"
  /\ worker' = [worker EXCEPT !.at = "look", !.seen = row]
  /\ UNCHANGED <<row, build, file, capture, viewer, spent>>

(* The row cannot be read: run returns, and stops its capture without      *)
(* waiting for it.                                                         *)
ReadRowFails ==
  /\ worker.at = "read"
  /\ Fault("read")
  /\ Stop(worker.capture)
  /\ worker' = [worker EXCEPT !.at = "idle"]
  /\ UNCHANGED <<row, build, file, viewer>>

Look_NotWaiting ==
  /\ worker.at = "look"
  /\ box' \in IF worker.seen = "cancelling" /\ box = "running" THEN {"running", "exited"} ELSE {box}
  /\ \/ /\ box' = "missing"
        /\ worker' = [worker EXCEPT !.at = "finish", !.verdict = "failed"]
        /\ Stop(worker.capture)
        /\ UNCHANGED spent
     \/ /\ box' # "missing"
        /\ worker' = [worker EXCEPT !.at = IF box' = "running" THEN "read" ELSE "drain"]
        /\ UNCHANGED <<capture, spent>>
     \/ Fault("docker") /\ worker' = [worker EXCEPT !.at = "read"] /\ UNCHANGED capture
  /\ UNCHANGED <<row, code, printed, file, viewer>>

(* docker stop, when a cancellation was read, then docker inspect, which   *)
(* may not answer.                                                         *)
Look ==
  /\ worker.at = "look"
  /\ box' \in IF worker.seen = "cancelling" /\ box = "running" THEN {"running", "exited"} ELSE {box}
  /\ \/ box' = "missing" /\ worker' = [worker EXCEPT !.at = "gone"] /\ Stop(worker.capture)
        /\ UNCHANGED spent
     \/ /\ box' # "missing"
        /\ worker' = [worker EXCEPT !.at = IF box' = "running" THEN "read" ELSE "drain"]
        /\ UNCHANGED <<capture, spent>>
     \/ Fault("docker") /\ worker' = [worker EXCEPT !.at = "read"] /\ UNCHANGED capture
  /\ UNCHANGED <<row, code, printed, file, viewer>>

DrainTimeout_Never == FALSE /\ UNCHANGED vars

(* The log is not complete five seconds after the container has exited. *)
DrainTimeout ==
  /\ worker.at = "drain"
  /\ ~ LogsDone
  /\ Stop(worker.capture)
  /\ worker' = [worker EXCEPT !.at = "cut"]
  /\ UNCHANGED <<row, build, file, viewer, spent>>

(* collect finds what was to be built, or does not. *)
Collected == {"succeeded", "failed"}

Verdicts_LogsIgnored ==
  IF worker.at = "gone" THEN {"failed"}
  ELSE IF worker.seen = "cancelling" THEN {"cancelled"}
  ELSE IF ~ code THEN {"failed"}
  ELSE Collected

Verdicts ==
  IF worker.at = "gone" THEN {"failed"}
  ELSE IF worker.seen = "cancelling" THEN {"cancelled"}
  ELSE IF ~ code \/ capture[worker.capture].failed THEN {"failed"}
  ELSE Collected

Judge ==
  /\ worker.at \in {"drain", "cut", "gone"}
  /\ LogsDone
  /\ \E v \in Verdicts : worker' = [worker EXCEPT !.at = "finish", !.verdict = v]
  /\ UNCHANGED <<row, build, file, capture, viewer, spent>>

(* finish: a cancellation wins.  A row that is not saved is tried again. *)
Finish ==
  /\ worker.at = "finish"
  /\ \/ row' = (IF row = "cancelling" THEN "cancelled" ELSE worker.verdict) /\ UNCHANGED spent
     \/ Fault("save") /\ UNCHANGED row
  /\ worker' = [worker EXCEPT !.at = "idle"]
  /\ UNCHANGED <<build, file, capture, viewer>>

WorkerStep ==
  RunBegin \/ ReadRow \/ ReadRowFails \/ Look \/ DrainTimeout \/ Judge \/ Finish

-------------------------------------------------------------------------------
(* events *)

Left(v) == Len(store[viewer[v].fd]) - viewer[v].offset

Goes(v, place) == viewer' = [viewer EXCEPT ![v].at = place]

(* From the first byte, or, when the connection was lost, from the last    *)
(* event the browser got; not beyond the end of the file.                  *)
Connect(v) ==
  /\ viewer[v].at = "off"
  /\ row # "deleted" /\ exists
  /\ \E from \in {0, viewer[v].offset} :
       /\ from <= Len(store[made])
       /\ viewer' = [viewer EXCEPT ![v] = [at |-> "read", fd |-> made, offset |-> from]]
  /\ UNCHANGED <<row, build, file, capture, worker, spent>>

Send(v) ==
  /\ viewer[v].at = "read" /\ Left(v) > 0
  /\ viewer' = [viewer EXCEPT ![v].offset = @ + IF Left(v) < Chunk THEN Left(v) ELSE Chunk]
  /\ UNCHANGED <<row, build, file, capture, worker, spent>>

ReadsEnd(v) ==
  /\ viewer[v].at = "read" /\ Left(v) = 0
  /\ Goes(v, "query")
  /\ UNCHANGED <<row, build, file, capture, worker, spent>>

Query_DoneAtOnce(v) ==
  /\ viewer[v].at = "query"
  /\ \/ row = "deleted" /\ Goes(v, "off") /\ UNCHANGED spent
     \/ Fault("read") /\ Goes(v, "off")
     \/ row \in Active /\ Goes(v, "read") /\ UNCHANGED spent
     \/ row \in Terminal /\ Goes(v, "done") /\ UNCHANGED spent
  /\ UNCHANGED <<row, build, file, capture, worker>>

(* What does the row say, some time after the end was read? *)
Query(v) ==
  /\ viewer[v].at = "query"
  /\ \/ row = "deleted" /\ Goes(v, "off") /\ UNCHANGED spent
     \/ Fault("read") /\ Goes(v, "off")
     \/ row \in Active /\ Goes(v, "read") /\ UNCHANGED spent
     \/ row \in Terminal /\ Goes(v, "last") /\ UNCHANGED spent
  /\ UNCHANGED <<row, build, file, capture, worker>>

Last_OffByOne(v) ==
  /\ viewer[v].at = "last"
  /\ Goes(v, IF Left(v) >= 0 THEN "read" ELSE "done")
  /\ UNCHANGED <<row, build, file, capture, worker, spent>>

(* A finished build's last bytes are sent before the done event. *)
Last(v) ==
  /\ viewer[v].at = "last"
  /\ Goes(v, IF Left(v) > 0 THEN "read" ELSE "done")
  /\ UNCHANGED <<row, build, file, capture, worker, spent>>

Disconnect(v) ==
  /\ viewer[v].at \in {"read", "query", "last"}
  /\ Goes(v, "off")
  /\ UNCHANGED <<row, build, file, capture, worker, spent>>

ViewerStep(v) == Send(v) \/ ReadsEnd(v) \/ Query(v) \/ Last(v)

-------------------------------------------------------------------------------
(* Requests: cancel, deleteLog, deleteJob *)

Cancel ==
  /\ row = "running"
  /\ row' = "cancelling"
  /\ UNCHANGED <<build, file, capture, worker, viewer, spent>>

DeleteLog ==
  /\ row \in Terminal /\ exists
  /\ exists' = FALSE
  /\ UNCHANGED <<row, build, store, made, capture, worker, viewer, spent>>

(* Container, whether it goes or not, then log, then row; what fails leaves *)
(* the rest.                                                                *)
DeleteJob ==
  /\ row \in Terminal
  /\ box # "running"
  /\ box' \in {box, "missing"}
  /\ \/ exists' = FALSE /\ row' = "deleted" /\ UNCHANGED spent
     \/ exists' \in {exists, FALSE} /\ Fault("save") /\ UNCHANGED row
  /\ UNCHANGED <<code, printed, store, made, capture, worker, viewer>>

-------------------------------------------------------------------------------
(* The container, those who remove it behind the manager's back, and the   *)
(* server, with its goroutines and connections.                            *)

BuildPrints ==
  /\ box = "running" /\ printed < MaxBytes
  /\ printed' = printed + 1
  /\ UNCHANGED <<row, box, code, file, capture, worker, viewer, spent>>

Exit ==
  /\ box = "running"
  /\ box' = "exited"
  /\ UNCHANGED <<row, code, printed, file, capture, worker, viewer, spent>>

Removed ==
  /\ box # "missing"
  /\ Fault("rm")
  /\ box' = "missing"
  /\ UNCHANGED <<row, code, printed, file, capture, worker, viewer>>

Restart ==
  /\ spent.crashes < MaxCrashes
  /\ spent' = [spent EXCEPT !.crashes = @ + 1]
  /\ capture' = [c \in Captures |-> NoCapture]
  /\ worker' = NoRun
  /\ viewer' = [v \in Viewers |-> IF viewer[v].at = "done" THEN viewer[v]
                                  ELSE [viewer[v] EXCEPT !.at = "off"]]
  /\ UNCHANGED <<row, build, file>>

-------------------------------------------------------------------------------

Next ==
  \/ WorkerStep
  \/ \E c \in Captures : CaptureStep(c)
  \/ \E v \in Viewers : Connect(v) \/ ViewerStep(v) \/ Disconnect(v)
  \/ Cancel \/ DeleteLog \/ DeleteJob
  \/ BuildPrints \/ Exit \/ Removed \/ Restart

Spec == Init /\ [][Next]_vars

(* The server's goroutines run, docker logs answers, and stopLogs kills;   *)
(* nobody has to ask, print or exit.                                       *)
Fairness ==
  /\ WF_vars(WorkerStep)
  /\ \A c \in Captures : WF_vars(CaptureStep(c))
  /\ \A v \in Viewers : WF_vars(ViewerStep(v))

FairSpec == Spec /\ Fairness

-------------------------------------------------------------------------------
(* Type correctness of the row, the container, the files and the goroutines. *)
TypeOK ==
  /\ row \in Active \cup Terminal \cup {"deleted"}
  /\ box \in {"running", "exited", "missing"} /\ code \in BOOLEAN
  /\ printed \in 0..MaxBytes
  /\ store \in [Files -> Seq(1..MaxBytes)]
  /\ made \in 0..MaxFiles /\ exists \in BOOLEAN
  /\ capture \in [Captures ->
       [at : {"none", "new", "start", "follow", "done"}, fd : 0..MaxFiles, skip : Nat,
        sent : 0..MaxBytes, read : 0..MaxBytes, child : {"none", "alive", "ended", "broken"},
        stopped : BOOLEAN, failed : BOOLEAN]]
  /\ worker \in [at : {"idle", "read", "look", "drain", "cut", "gone", "finish"}, seen : Active,
                 capture : 0..MaxCaptures, verdict : Terminal]
  /\ viewer \in [Viewers -> [at : {"off", "read", "query", "last", "done"}, fd : 0..MaxFiles, offset : Nat]]
  /\ spent \in [faults : 0..MaxFaults, crashes : 0..MaxCrashes]

(* A log file is a beginning of what the build printed: no byte missing,   *)
(* doubled or out of order, through restarts, replays, lost connections to *)
(* Docker and failed writes (captureLogs).                                 *)
LogIsOutput == \A g \in Files : \A i \in 1..Len(store[g]) : store[g][i] = i

(* The log of a build that succeeded is all it printed (run: a log that    *)
(* could not be persisted completely fails the build).                     *)
SucceededLogWhole == row = "succeeded" /\ exists => Len(store[made]) = printed

(* A browser that was told the build is done has all of its log, and will  *)
(* not have missed a byte later: nobody writes to it any more (events,     *)
(* finish after logsDone).                                                 *)
DoneSawAll ==
  \A v \in Viewers : viewer[v].at = "done" => viewer[v].offset = Len(store[viewer[v].fd])

(* A build's log does not outlive it, whoever had it open or was about to  *)
(* open it (deleteJob, captureLogs, run).                                  *)
LogDiesWithBuild == row = "deleted" => ~ exists

(* A build whose container has ended gets its verdict, although its log    *)
(* cannot be written or Docker does not give it all (run: five seconds for *)
(* the log, then stopLogs).                                                *)
EndGetsVerdict == box # "running" ~> row \notin Active

(* Whoever follows the log of a finished build is told so, or lost the     *)
(* connection: the stream neither stays open nor rereads for ever (events). *)
StreamsEnd ==
  \A v \in Viewers :
    viewer[v].at \in {"read", "query", "last"} /\ row \notin Active ~> viewer[v].at \in {"done", "off"}

-------------------------------------------------------------------------------
(* What the code does not keep *)

(* No character of two bytes, here 2 and 3, is cut by the end of an event: *)
(* events turns each chunk into a string of its own.                       *)
CharactersWhole ==
  [][\A v \in Viewers : viewer'[v].offset # viewer[v].offset => viewer'[v].offset # 2]_vars
===============================================================================
