-------------------------- MODULE LogStreamProofs --------------------------
(***************************************************************************)
(* Theorems about LogStream for any number of viewers, captures, bytes,    *)
(* files, failing calls and restarts.                                      *)
(*                                                                         *)
(* TypeOK holds of every behaviour.  The other invariants hold of those in *)
(* which no run begins while a capture of an earlier run is under way      *)
(* (Settled): the worker does not wait for one, it sleeps for a second and *)
(* relies on docker logs to end at once.  OneFailureSettles says for which *)
(* failures no behaviour breaks that, and LogsHold concludes.              *)
(***************************************************************************)
EXTENDS LogStream, SequenceTheorems, TLAPS

(* Where the worker has a capture of its own, and where a capture is one.  *)
Watching == {"read", "look", "drain", "cut", "gone"}
Live == {"new", "start", "follow"}

(* TypeOK, in parts that steps leave alone together, with the offsets and  *)
(* counts bounded by what they count.                                      *)
CaptureRecs ==
  [at : {"none", "new", "start", "follow", "done"}, fd : 0..MaxFiles, skip : Nat,
   sent : 0..MaxBytes, read : 0..MaxBytes, child : {"none", "alive", "ended", "broken"},
   stopped : BOOLEAN, failed : BOOLEAN]
WorkerRecs ==
  [at : {"idle", "read", "look", "drain", "cut", "gone", "finish"}, seen : Active,
   capture : 0..MaxCaptures, verdict : Terminal]
ViewerRecs == [at : {"off", "read", "query", "last", "done"}, fd : 0..MaxFiles, offset : Nat]

Bounded(r, sofar) ==
  /\ r.read <= r.sent /\ r.sent <= sofar
  /\ r.at \in {"none", "new", "start"} => r.sent = 0 /\ r.child = "none" /\ ~ r.failed
  /\ r.at \in {"start", "follow"} => r.fd \in Files
  /\ r.child = "alive" => r.at = "follow"
BuildTyped ==
  /\ row \in Active \cup Terminal \cup {"deleted"}
  /\ box \in {"running", "exited", "missing"} /\ code \in BOOLEAN
  /\ printed \in 0..MaxBytes
FileTyped ==
  /\ store \in [Files -> Seq(1..MaxBytes)]
  /\ made \in 1..MaxFiles /\ exists \in BOOLEAN
CaptureTyped ==
  /\ capture \in [Captures -> CaptureRecs]
  /\ \A c \in Captures : Bounded(capture[c], printed)
WorkerTyped ==
  /\ worker \in WorkerRecs
  /\ worker.at # "idle" => row \in Active
  /\ worker.at \in Watching => worker.capture \in Captures
ViewerTyped ==
  /\ viewer \in [Viewers -> ViewerRecs]
  /\ \A v \in Viewers : viewer[v].at # "off" =>
       viewer[v].fd \in Files /\ viewer[v].offset <= Len(store[viewer[v].fd])
SpentTyped == spent \in [faults : 0..MaxFaults, crashes : 0..MaxCrashes]

Typed == BuildTyped /\ FileTyped /\ CaptureTyped /\ WorkerTyped /\ ViewerTyped /\ SpentTyped

LEMMA FaultTyped ==
  ASSUME SpentTyped, NEW what, Fault(what)
  PROVE  SpentTyped'
  BY LogAssumption DEF SpentTyped, Fault

LEMMA OneCaptureTyped ==
  ASSUME CaptureTyped, NEW c \in Captures, NEW r \in CaptureRecs, Bounded(r, printed),
         capture' = [capture EXCEPT ![c] = r], UNCHANGED printed
  PROVE  CaptureTyped'
<1>1. capture' \in [Captures -> CaptureRecs]
  BY DEF CaptureTyped
<1>2. ASSUME NEW d \in Captures PROVE Bounded(capture'[d], printed')
  BY DEF CaptureTyped, Bounded
<1> QED
  BY <1>1, <1>2 DEF CaptureTyped


(* A step in which one capture moves on and nothing else does. *)
LEMMA OnlyCaptureTyped ==
  ASSUME Typed, NEW c \in Captures, NEW r \in CaptureRecs, Bounded(r, printed),
         capture' = [capture EXCEPT ![c] = r],
         UNCHANGED <<row, build, file, worker, viewer>>, SpentTyped'
  PROVE  Typed'
<1>1. CaptureTyped'
  BY OneCaptureTyped DEF Typed, build
<1>2. BuildTyped' /\ FileTyped' /\ WorkerTyped' /\ ViewerTyped'
  BY DEF Typed, BuildTyped, FileTyped, WorkerTyped, ViewerTyped, build, file
<1> QED
  BY <1>1, <1>2 DEF Typed

LEMMA CaptureStepTyped ==
  ASSUME Typed, NEW c \in Captures, CaptureStep(c)
  PROVE  Typed'
<1> DEFINE old == capture[c]
<1>1. old \in CaptureRecs /\ Bounded(old, printed)
  BY DEF Typed, CaptureTyped
<1>2. printed \in 0..MaxBytes /\ MaxBytes \in Nat /\ MaxFiles \in Nat \ {0} /\ SpentTyped
  BY LogAssumption DEF Typed, BuildTyped
<1>3. CASE CaptureOpen(c)
  <2> DEFINE r == [old EXCEPT !.at = "start", !.fd = made', !.skip = Len(store[made'])]
  <2>1. UNCHANGED <<row, box, code, printed, store, worker, viewer, spent>> /\ made' \in 1..MaxFiles
    BY <1>2, <1>3 DEF CaptureOpen, build, Typed, FileTyped
  <2>2. made' \in 0..MaxFiles /\ made' \in Files
    BY <1>2, <2>1 DEF Files
  <2>3. Len(store[made']) \in Nat
    BY <2>2, LenProperties DEF Typed, FileTyped
  <2>4. old.at = "new" /\ capture' = [capture EXCEPT ![c] = r] /\ exists' = TRUE
    BY <1>3 DEF CaptureOpen
  <2>5. r \in CaptureRecs
    BY <1>1, <2>2, <2>3 DEF CaptureRecs
  <2>6. Bounded(r, printed)
    BY <1>1, <2>2, <2>4, <2>5 DEF CaptureRecs, Bounded
  <2>7. CaptureTyped'
    BY <2>1, <2>4, <2>5, <2>6, OneCaptureTyped DEF Typed
  <2>8. FileTyped'
    BY <2>1, <2>4 DEF Typed, FileTyped
  <2> QED
    BY <2>1, <2>7, <2>8 DEF Typed, BuildTyped, WorkerTyped, ViewerTyped, SpentTyped
<1>4. CASE CaptureStart(c)
  <2> DEFINE r == [old EXCEPT !.at = "follow", !.child = "alive"]
  <2>1. capture' = [capture EXCEPT ![c] = r] /\ UNCHANGED <<row, build, file, worker, viewer>>
    BY <1>4 DEF CaptureStart
  <2>2. SpentTyped'
    BY <1>4, <1>2, FaultTyped DEF CaptureStart, SpentTyped
  <2>3. r \in CaptureRecs
    BY <1>1, <1>2, <1>4 DEF CaptureStart, CaptureRecs, Bounded
  <2>4. Bounded(r, printed)
    BY <1>1, <1>2, <1>4, <2>3 DEF CaptureStart, CaptureRecs, Bounded
  <2> QED
    BY <2>1, <2>2, <2>3, <2>4, OnlyCaptureTyped
<1>5. CASE CaptureFails(c)
  <2> DEFINE r == [old EXCEPT !.at = "done", !.failed = TRUE]
  <2>1. capture' = [capture EXCEPT ![c] = r] /\ UNCHANGED <<row, build, file, worker, viewer>>
    BY <1>5 DEF CaptureFails
  <2>2. SpentTyped'
    BY <1>5, <1>2, FaultTyped DEF CaptureFails, SpentTyped
  <2>3. r \in CaptureRecs
    BY <1>1, <1>2, <1>5 DEF CaptureFails, CaptureRecs, Bounded
  <2>4. Bounded(r, printed)
    BY <1>1, <1>2, <1>5, <2>3 DEF CaptureFails, CaptureRecs, Bounded
  <2> QED
    BY <2>1, <2>2, <2>3, <2>4, OnlyCaptureTyped
<1>6. CASE ChildSends(c)
  <2> DEFINE r == [old EXCEPT !.sent = @ + 1]
  <2>1. capture' = [capture EXCEPT ![c] = r] /\ UNCHANGED <<row, build, file, worker, viewer>>
    BY <1>6 DEF ChildSends
  <2>2. SpentTyped'
    BY <1>6, <1>2, FaultTyped DEF ChildSends, SpentTyped
  <2>3. r \in CaptureRecs
    BY <1>1, <1>2, <1>6 DEF ChildSends, CaptureRecs, Bounded
  <2>4. Bounded(r, printed)
    BY <1>1, <1>2, <1>6, <2>3 DEF ChildSends, CaptureRecs, Bounded
  <2> QED
    BY <2>1, <2>2, <2>3, <2>4, OnlyCaptureTyped
<1>7. CASE ChildEnds(c)
  <2>1. PICK how \in {"ended", "broken"} : capture' = [capture EXCEPT ![c].child = how]
    BY <1>7 DEF ChildEnds
  <2> DEFINE r == [old EXCEPT !.child = how]
  <2>2. UNCHANGED <<row, build, file, worker, viewer>> /\ SpentTyped' /\ old.child = "alive"
    BY <1>7, <1>2, FaultTyped DEF ChildEnds, SpentTyped
  <2>3. r \in CaptureRecs
    BY <1>1, <2>1 DEF CaptureRecs
  <2>4. Bounded(r, printed)
    BY <1>1, <1>2, <2>1, <2>2, <2>3 DEF CaptureRecs, Bounded
  <2> QED
    BY <2>1, <2>2, <2>3, <2>4, OnlyCaptureTyped
<1>8. CASE CaptureCopies(c)
  <2> DEFINE r == [old EXCEPT !.read = @ + 1]
  <2>1. /\ capture' = [capture EXCEPT ![c] = r]
        /\ UNCHANGED <<row, build, made, exists, worker, viewer, spent>>
        /\ old.at = "follow" /\ old.read < old.sent
    BY <1>8 DEF CaptureCopies
  <2>2. old.read + 1 \in 1..MaxBytes /\ old.fd \in Files
    BY <1>1, <1>2, <2>1 DEF CaptureRecs, Bounded
  <2>3. r \in CaptureRecs
    BY <1>1, <2>2 DEF CaptureRecs
  <2>4. Bounded(r, printed)
    BY <1>1, <1>2, <2>1, <2>3 DEF CaptureRecs, Bounded
  <2>5. CaptureTyped'
    BY <2>1, <2>3, <2>4, OneCaptureTyped DEF Typed, build
  <2>6. FileTyped' /\ \A g \in Files : Len(store[g]) \in Nat /\ Len(store'[g]) \in Nat
                                       /\ Len(store[g]) <= Len(store'[g])
    <3> DEFINE s == Append(store[old.fd], old.read + 1)
    <3>1. store[old.fd] \in Seq(1..MaxBytes)
      BY <2>2 DEF Typed, FileTyped
    <3>2. s \in Seq(1..MaxBytes) /\ Len(s) = Len(store[old.fd]) + 1 /\ Len(store[old.fd]) \in Nat
      BY <2>2, <3>1, AppendProperties, LenProperties
    <3>3. \A g \in Files : Len(store[g]) \in Nat
      BY LenProperties DEF Typed, FileTyped
    <3> HIDE DEF s
    <3>4. store' = store \/ store' = [store EXCEPT ![old.fd] = s]
      BY <1>8 DEF CaptureCopies, s
    <3>5. store' \in [Files -> Seq(1..MaxBytes)]
      BY <3>2, <3>4 DEF Typed, FileTyped
    <3>6. ASSUME NEW g \in Files
          PROVE  store'[g] = store[g] \/ (g = old.fd /\ store'[g] = s)
      BY <3>4 DEF Typed, FileTyped
    <3> QED
      BY <2>1, <3>2, <3>3, <3>5, <3>6 DEF Typed, FileTyped
  <2>7. ViewerTyped'
    BY <2>1, <2>6 DEF Typed, ViewerTyped, ViewerRecs
  <2> QED
    BY <2>1, <2>5, <2>6, <2>7 DEF Typed, BuildTyped, WorkerTyped, SpentTyped, build
<1>9. CASE CaptureBreaks(c)
  <2> DEFINE r == [old EXCEPT !.read = @ + 1, !.failed = TRUE]
  <2>1. /\ capture' = [capture EXCEPT ![c] = r] /\ UNCHANGED <<row, build, file, worker, viewer>>
        /\ old.at = "follow" /\ old.read < old.sent
    BY <1>9 DEF CaptureBreaks
  <2>2. SpentTyped'
    BY <1>9, <1>2, FaultTyped DEF CaptureBreaks, SpentTyped
  <2>3. old.read + 1 \in 0..MaxBytes
    BY <1>1, <1>2, <2>1 DEF CaptureRecs, Bounded
  <2>4. r \in CaptureRecs
    BY <1>1, <2>3 DEF CaptureRecs
  <2>5. Bounded(r, printed)
    BY <1>1, <1>2, <2>1, <2>4 DEF CaptureRecs, Bounded
  <2> QED
    BY <2>1, <2>2, <2>4, <2>5, OnlyCaptureTyped
<1>10. CASE CaptureEnds(c)
  <2> DEFINE r == [old EXCEPT !.at = "done",
                              !.failed = @ \/ old.child = "broken" \/ old.read < old.skip]
  <2>1. capture' = [capture EXCEPT ![c] = r] /\ UNCHANGED <<row, build, file, worker, viewer>>
    BY <1>10 DEF CaptureEnds
  <2>2. SpentTyped'
    BY <1>10, <1>2 DEF CaptureEnds, SpentTyped
  <2>3. r \in CaptureRecs
    BY <1>1 DEF CaptureRecs
  <2>4. Bounded(r, printed)
    BY <1>1, <1>2, <1>10, <2>3 DEF CaptureEnds, CaptureRecs, Bounded
  <2> QED
    BY <2>1, <2>2, <2>3, <2>4, OnlyCaptureTyped
<1> QED
  BY <1>3, <1>4, <1>5, <1>6, <1>7, <1>8, <1>9, <1>10 DEF CaptureStep

(* stopLogs. *)
LEMMA StopTyped ==
  ASSUME Typed, worker.capture \in Captures, Stop(worker.capture), UNCHANGED printed
  PROVE  CaptureTyped'
<1> DEFINE c == worker.capture
           r == [capture[c] EXCEPT !.stopped = TRUE]
<1>1. capture[c] \in CaptureRecs /\ Bounded(capture[c], printed)
  BY DEF Typed, CaptureTyped
<1>2. r \in CaptureRecs
  BY <1>1 DEF CaptureRecs
<1>3. Bounded(r, printed)
  BY <1>1 DEF CaptureRecs, Bounded
<1>4. capture' = [capture EXCEPT ![c] = r]
  BY DEF Stop
<1> QED
  BY <1>2, <1>3, <1>4, OneCaptureTyped DEF Typed

LEMMA WorkerStepTyped ==
  ASSUME Typed, WorkerStep
  PROVE  Typed'
<1>1. worker \in WorkerRecs /\ SpentTyped
  BY DEF Typed, WorkerTyped
<1>2. CASE RunBegin
  <2>1. UNCHANGED <<row, build, file, viewer, spent>> /\ row \in Active
    BY <1>2 DEF RunBegin
  <2>2. CASE box = "missing"
    <3>1. worker' = [worker EXCEPT !.at = "finish", !.verdict = "failed"] /\ UNCHANGED capture
      BY <1>2, <2>2 DEF RunBegin
    <3>2. WorkerTyped'
      BY <1>1, <2>1, <3>1 DEF WorkerTyped, WorkerRecs, Terminal, Watching
    <3> QED
      BY <2>1, <3>1, <3>2 DEF Typed, BuildTyped, FileTyped, CaptureTyped, ViewerTyped, SpentTyped,
         build, file
  <2>3. CASE box # "missing"
    <3> DEFINE r == [NoCapture EXCEPT !.at = "new"]
    <3>1. PICK c \in Captures : /\ capture' = [capture EXCEPT ![c] = r]
                                /\ worker' = [worker EXCEPT !.at = "read", !.capture = c]
      BY <1>2, <2>3 DEF RunBegin
    <3>2. r \in CaptureRecs /\ Bounded(r, printed)
      <4>1. NoCapture \in CaptureRecs /\ NoCapture.sent = 0 /\ NoCapture.read = 0
            /\ NoCapture.child = "none" /\ ~ NoCapture.failed
        BY LogAssumption DEF CaptureRecs, NoCapture
      <4>2. r \in CaptureRecs /\ r.at = "new" /\ r.sent = 0 /\ r.read = 0
            /\ r.child = "none" /\ ~ r.failed
        BY <4>1 DEF CaptureRecs
      <4> QED
        BY <4>2 DEF Bounded, Typed, BuildTyped
    <3>3. CaptureTyped'
      BY <2>1, <3>1, <3>2, OneCaptureTyped DEF Typed, build
    <3>4. WorkerTyped'
      <4>1. c \in 0..MaxCaptures
        BY LogAssumption DEF Captures
      <4> QED
        BY <1>1, <2>1, <3>1, <4>1 DEF WorkerTyped, WorkerRecs
    <3> QED
      BY <2>1, <3>3, <3>4 DEF Typed, BuildTyped, FileTyped, ViewerTyped, SpentTyped, build, file
  <2> QED
    BY <2>2, <2>3
<1>3. CASE ReadRow
  <2>1. UNCHANGED <<row, build, file, capture, viewer, spent>> /\ worker.at = "read"
        /\ worker' = [worker EXCEPT !.at = "look", !.seen = row]
    BY <1>3 DEF ReadRow
  <2>2. row \in Active /\ worker.capture \in Captures
    BY <2>1 DEF Typed, WorkerTyped, Watching
  <2>3. WorkerTyped'
    BY <1>1, <2>1, <2>2 DEF WorkerTyped, WorkerRecs
  <2> QED
    BY <2>1, <2>3 DEF Typed, BuildTyped, FileTyped, CaptureTyped, ViewerTyped, SpentTyped, build, file
<1>4. CASE ReadRowFails
  <2>1. UNCHANGED <<row, build, file, viewer>> /\ worker.at = "read" /\ Stop(worker.capture)
        /\ worker' = [worker EXCEPT !.at = "idle"]
    BY <1>4 DEF ReadRowFails
  <2>2. SpentTyped'
    BY <1>1, <1>4, FaultTyped DEF ReadRowFails
  <2>3. CaptureTyped'
    BY <2>1, StopTyped DEF Typed, WorkerTyped, Watching, build
  <2>4. WorkerTyped'
    BY <1>1, <2>1 DEF WorkerTyped, WorkerRecs, Watching
  <2> QED
    BY <2>1, <2>2, <2>3, <2>4 DEF Typed, BuildTyped, FileTyped, ViewerTyped, build, file
<1>5. CASE Look
  <2>1. /\ UNCHANGED <<row, code, printed, file, viewer>> /\ worker.at = "look"
        /\ box' \in {box, "running", "exited"}
    BY <1>5 DEF Look
  <2>2. /\ \E place \in {"gone", "read", "drain"} : worker' = [worker EXCEPT !.at = place]
        /\ Stop(worker.capture) \/ UNCHANGED capture
        /\ SpentTyped'
    BY <1>1, <1>5, FaultTyped DEF Look, SpentTyped
  <2>3. row \in Active /\ worker.capture \in Captures
    BY <2>1 DEF Typed, WorkerTyped, Watching
  <2>4. WorkerTyped'
    BY <1>1, <2>1, <2>2, <2>3 DEF WorkerTyped, WorkerRecs, Watching
  <2>5. CaptureTyped'
    <3>1. CASE Stop(worker.capture)
      BY <2>1, <2>3, <3>1, StopTyped
    <3>2. CASE UNCHANGED capture
      BY <2>1, <3>2 DEF Typed, CaptureTyped
    <3> QED
      BY <2>2, <3>1, <3>2
  <2> QED
    BY <2>1, <2>2, <2>4, <2>5 DEF Typed, BuildTyped, FileTyped, ViewerTyped, file
<1>6. CASE DrainTimeout
  <2>1. UNCHANGED <<row, build, file, viewer, spent>> /\ worker.at = "drain" /\ Stop(worker.capture)
        /\ worker' = [worker EXCEPT !.at = "cut"]
    BY <1>6 DEF DrainTimeout
  <2>2. worker.capture \in Captures /\ row \in Active
    BY <2>1 DEF Typed, WorkerTyped, Watching
  <2>3. CaptureTyped'
    BY <2>1, <2>2, StopTyped DEF build
  <2>4. WorkerTyped'
    BY <1>1, <2>1, <2>2 DEF WorkerTyped, WorkerRecs
  <2> QED
    BY <2>1, <2>3, <2>4 DEF Typed, BuildTyped, FileTyped, ViewerTyped, SpentTyped, build, file
<1>7. CASE Judge
  <2>1. UNCHANGED <<row, build, file, capture, viewer, spent>> /\ worker.at \in {"drain", "cut", "gone"}
    BY <1>7 DEF Judge
  <2>2. PICK v \in Verdicts : worker' = [worker EXCEPT !.at = "finish", !.verdict = v]
    BY <1>7 DEF Judge
  <2>3. v \in Terminal
    BY <2>2 DEF Verdicts, Collected, Terminal
  <2>4. WorkerTyped'
    BY <1>1, <2>1, <2>2, <2>3 DEF Typed, WorkerTyped, WorkerRecs, Watching
  <2> QED
    BY <2>1, <2>4 DEF Typed, BuildTyped, FileTyped, CaptureTyped, ViewerTyped, SpentTyped, build, file
<1>8. CASE Finish
  <2>1. UNCHANGED <<build, file, capture, viewer>> /\ worker' = [worker EXCEPT !.at = "idle"]
        /\ row' \in {row, "cancelled", worker.verdict}
    BY <1>8 DEF Finish
  <2>2. SpentTyped'
    BY <1>1, <1>8, FaultTyped DEF Finish, SpentTyped
  <2>3. WorkerTyped' /\ BuildTyped'
    BY <1>1, <2>1 DEF Typed, WorkerTyped, WorkerRecs, BuildTyped, Terminal, Watching, build
  <2> QED
    BY <2>1, <2>2, <2>3 DEF Typed, FileTyped, CaptureTyped, ViewerTyped, build, file
<1> QED
  BY <1>2, <1>3, <1>4, <1>5, <1>6, <1>7, <1>8 DEF WorkerStep

LEMMA OnlyViewerTyped ==
  ASSUME Typed, NEW v \in Viewers, NEW r \in ViewerRecs,
         r.at # "off" => r.fd \in Files /\ r.offset <= Len(store[r.fd]),
         viewer' = [viewer EXCEPT ![v] = r],
         UNCHANGED <<row, build, file, capture, worker>>, SpentTyped'
  PROVE  Typed'
<1>1. viewer' \in [Viewers -> ViewerRecs]
  BY DEF Typed, ViewerTyped
<1>2. ASSUME NEW w \in Viewers, viewer'[w].at # "off"
      PROVE  viewer'[w].fd \in Files /\ viewer'[w].offset <= Len(store[viewer'[w].fd])
  BY <1>2 DEF Typed, ViewerTyped
<1>3. ViewerTyped'
  BY <1>1, <1>2 DEF ViewerTyped, file
<1> QED
  BY <1>3 DEF Typed, BuildTyped, FileTyped, CaptureTyped, WorkerTyped, build, file

LEMMA ConnectionTyped ==
  ASSUME Typed, NEW v \in Viewers, Connect(v) \/ ViewerStep(v) \/ Disconnect(v)
  PROVE  Typed'
<1> DEFINE old == viewer[v]
<1>1. /\ old \in ViewerRecs
      /\ old.at # "off" => old.fd \in Files /\ old.offset <= Len(store[old.fd])
      /\ SpentTyped
  BY DEF Typed, ViewerTyped
<1>2. Chunk \in Nat \ {0} /\ MaxFiles \in Nat
  BY LogAssumption
<1>3. \A g \in Files : Len(store[g]) \in Nat
  BY LenProperties DEF Typed, FileTyped
<1>4. CASE Connect(v)
  <2>1. PICK from \in {0, old.offset} :
          /\ from <= Len(store[made])
          /\ viewer' = [viewer EXCEPT ![v] = [at |-> "read", fd |-> made, offset |-> from]]
    BY <1>4 DEF Connect
  <2> DEFINE r == [at |-> "read", fd |-> made, offset |-> from]
  <2>2. made \in Files /\ made \in 0..MaxFiles
    BY <1>2 DEF Typed, FileTyped, Files
  <2>3. r \in ViewerRecs
    BY <1>1, <2>2 DEF ViewerRecs
  <2>4. UNCHANGED <<row, build, file, capture, worker, spent>>
    BY <1>4 DEF Connect
  <2> QED
    BY <1>1, <2>1, <2>2, <2>3, <2>4, OnlyViewerTyped DEF SpentTyped
<1>5. CASE Send(v)
  <2> DEFINE step == IF Left(v) < Chunk THEN Left(v) ELSE Chunk
             r == [old EXCEPT !.offset = @ + step]
  <2>1. /\ old.at = "read" /\ Left(v) > 0 /\ UNCHANGED <<row, build, file, capture, worker, spent>>
        /\ viewer' = [viewer EXCEPT ![v] = r]
    BY <1>5 DEF Send
  <2>2. old.fd \in Files /\ old.offset \in Nat /\ Len(store[old.fd]) \in Nat
    BY <1>1, <1>3, <2>1 DEF ViewerRecs
  <2>3. old.offset + step \in Nat /\ old.offset + step <= Len(store[old.fd])
    BY <1>2, <2>1, <2>2 DEF Left
  <2> HIDE DEF step
  <2>4. r \in ViewerRecs /\ r.offset = old.offset + step /\ r.fd = old.fd
    BY <1>1, <2>3 DEF ViewerRecs
  <2> QED
    BY <1>1, <2>1, <2>2, <2>3, <2>4, OnlyViewerTyped DEF SpentTyped
<1>6. ASSUME NEW place \in {"off", "read", "query", "last", "done"}, Goes(v, place), old.at # "off",
             UNCHANGED <<row, build, file, capture, worker>>, SpentTyped'
      PROVE  Typed'
  <2> DEFINE r == [old EXCEPT !.at = place]
  <2>1. r \in ViewerRecs /\ r.fd = old.fd /\ r.offset = old.offset
    BY <1>1 DEF ViewerRecs
  <2>2. viewer' = [viewer EXCEPT ![v] = r]
    BY <1>6 DEF Goes
  <2> QED
    BY <1>1, <1>6, <2>1, <2>2, OnlyViewerTyped
<1>7. CASE ReadsEnd(v)
  BY <1>1, <1>6, <1>7 DEF ReadsEnd, SpentTyped
<1>8. CASE Query(v)
  <2>1. SpentTyped'
    BY <1>1, <1>8, FaultTyped DEF Query, SpentTyped
  <2> QED
    BY <1>6, <1>8, <2>1 DEF Query
<1>9. CASE Last(v)
  <2>1. Goes(v, "read") \/ Goes(v, "done")
    BY <1>9 DEF Last
  <2>2. old.at = "last" /\ UNCHANGED <<row, build, file, capture, worker, spent>> /\ SpentTyped'
    BY <1>1, <1>9 DEF Last, SpentTyped
  <2> QED
    BY <1>6, <2>1, <2>2
<1>10. CASE Disconnect(v)
  BY <1>1, <1>6, <1>10 DEF Disconnect, SpentTyped
<1> QED
  BY <1>4, <1>5, <1>7, <1>8, <1>9, <1>10 DEF ViewerStep

(* Requests, the container, those who remove it, and the server. *)
LEMMA OutsideTyped ==
  ASSUME Typed, \/ Cancel \/ DeleteLog \/ DeleteJob
                \/ BuildPrints \/ Exit \/ Removed \/ Restart
  PROVE  Typed'
<1>1. SpentTyped
  BY DEF Typed
<1>2. CASE Cancel
  BY <1>2 DEF Cancel, Typed, BuildTyped, FileTyped, CaptureTyped, WorkerTyped, ViewerTyped,
     SpentTyped, build, file, Active
<1>3. CASE DeleteLog
  BY <1>3 DEF DeleteLog, Typed, BuildTyped, FileTyped, CaptureTyped, WorkerTyped, ViewerTyped,
     SpentTyped, build
<1>4. CASE DeleteJob
  <2>1. /\ row \in Terminal /\ row' \in {row, "deleted"} /\ box' \in {box, "missing"}
        /\ exists' \in {exists, FALSE}
        /\ UNCHANGED <<code, printed, store, made, capture, worker, viewer>>
    BY <1>4 DEF DeleteJob
  <2>2. SpentTyped'
    BY <1>1, <1>4, FaultTyped DEF DeleteJob, SpentTyped
  <2>3. worker.at = "idle"
    BY <2>1 DEF Typed, WorkerTyped, Terminal, Active
  <2> QED
    BY <2>1, <2>2, <2>3 DEF Typed, BuildTyped, FileTyped, CaptureTyped, WorkerTyped, ViewerTyped,
       Watching
<1>5. CASE BuildPrints
  <2>1. UNCHANGED <<row, box, code, file, capture, worker, viewer, spent>>
        /\ printed < MaxBytes /\ printed' = printed + 1
    BY <1>5 DEF BuildPrints
  <2>2. printed \in Nat /\ printed' \in 0..MaxBytes
    BY <2>1, LogAssumption DEF Typed, BuildTyped
  <2>3. ASSUME NEW c \in Captures
        PROVE  Bounded(capture[c], printed')
    <3>1. capture[c] \in CaptureRecs /\ Bounded(capture[c], printed)
      BY DEF Typed, CaptureTyped
    <3> QED
      BY <2>1, <2>2, <3>1 DEF CaptureRecs, Bounded
  <2> QED
    BY <2>1, <2>2, <2>3 DEF Typed, BuildTyped, FileTyped, CaptureTyped, WorkerTyped, ViewerTyped,
       SpentTyped, file
<1>6. CASE Exit
  BY <1>6 DEF Exit, Typed, BuildTyped, FileTyped, CaptureTyped, WorkerTyped, ViewerTyped,
     SpentTyped, file
<1>7. CASE Removed
  <2>1. SpentTyped'
    BY <1>1, <1>7, FaultTyped DEF Removed
  <2> QED
    BY <1>7, <2>1 DEF Removed, Typed, BuildTyped, FileTyped, CaptureTyped, WorkerTyped, ViewerTyped,
       file
<1>8. CASE Restart
  <2>1. /\ UNCHANGED <<row, build, file>>
        /\ spent.crashes < MaxCrashes /\ spent' = [spent EXCEPT !.crashes = @ + 1]
        /\ capture' = [c \in Captures |-> NoCapture] /\ worker' = NoRun
        /\ viewer' = [v \in Viewers |-> IF viewer[v].at = "done" THEN viewer[v]
                                        ELSE [viewer[v] EXCEPT !.at = "off"]]
    BY <1>8 DEF Restart
  <2>2. SpentTyped'
    BY <1>1, <2>1, LogAssumption DEF SpentTyped
  <2>3. NoCapture \in CaptureRecs /\ Bounded(NoCapture, printed)
    BY LogAssumption DEF CaptureRecs, Bounded, NoCapture, Typed, BuildTyped
  <2>4. CaptureTyped'
    BY <2>1, <2>3 DEF CaptureTyped, build
  <2>5. WorkerTyped'
    BY <2>1, LogAssumption DEF WorkerTyped, WorkerRecs, NoRun, Terminal, Active, Watching
  <2>6. ViewerTyped'
    <3>1. \A v \in Viewers : viewer[v] \in ViewerRecs
      BY DEF Typed, ViewerTyped
    <3>2. \A v \in Viewers : viewer'[v] = viewer[v] \/ viewer'[v] = [viewer[v] EXCEPT !.at = "off"]
      BY <2>1
    <3>3. \A v \in Viewers : viewer'[v] \in ViewerRecs /\ (viewer'[v].at # "off" => viewer'[v] = viewer[v])
      BY <3>1, <3>2 DEF ViewerRecs
    <3> QED
      BY <2>1, <3>3 DEF Typed, ViewerTyped, file
  <2> QED
    BY <2>1, <2>2, <2>4, <2>5, <2>6 DEF Typed, BuildTyped, FileTyped, build, file
<1> QED
  BY <1>2, <1>3, <1>4, <1>5, <1>6, <1>7, <1>8

LEMMA StepTyped ==
  ASSUME Typed, [Next]_vars
  PROVE  Typed'
<1>1. CASE UNCHANGED vars
  BY <1>1 DEF vars, build, file, Typed, BuildTyped, FileTyped, CaptureTyped, WorkerTyped, ViewerTyped,
     SpentTyped
<1> QED
  BY <1>1, CaptureStepTyped, WorkerStepTyped, ConnectionTyped, OutsideTyped DEF Next

LEMMA InitTyped == Init => Typed
<1> SUFFICES ASSUME Init PROVE Typed
  OBVIOUS
<1>1. printed = 0 /\ MaxBytes \in Nat /\ MaxFiles \in Nat \ {0} /\ MaxCaptures \in Nat
  BY LogAssumption DEF Init
<1>2. BuildTyped /\ SpentTyped
  BY LogAssumption DEF Init, BuildTyped, SpentTyped, Active
<1>3. FileTyped
  <2>1. <<>> \in Seq(1..MaxBytes)
    BY EmptySeq
  <2> QED
    BY <1>1, <2>1 DEF Init, FileTyped
<1>4. CaptureTyped
  BY <1>1 DEF Init, CaptureTyped, CaptureRecs, Bounded, NoCapture
<1>5. WorkerTyped
  BY <1>1 DEF Init, WorkerTyped, WorkerRecs, NoRun, Active, Terminal, Watching
<1>6. ViewerTyped
  BY <1>1 DEF Init, ViewerTyped, ViewerRecs, NoViewer
<1> QED
  BY <1>2, <1>3, <1>4, <1>5, <1>6 DEF Typed

LEMMA Typing == Spec => []Typed
  BY InitTyped, StepTyped, PTL DEF Spec

(* Every reachable state is well typed: no run of the server, whatever fails *)
(* in it, leaves a goroutine, a file or an event stream in a state the code  *)
(* does not know (captureLogs, run, finish, events).                         *)
THEOREM TypeCorrect == Spec => []TypeOK
<1>1. Typed => TypeOK
  BY LogAssumption DEF Typed, TypeOK, BuildTyped, FileTyped, CaptureTyped, CaptureRecs, WorkerTyped,
     WorkerRecs, ViewerTyped, ViewerRecs, SpentTyped
<1> QED
  BY <1>1, Typing, PTL

-------------------------------------------------------------------------------
(* Who captures *)

AllQuiet == \A c \in Captures : capture[c].at \notin Live

(* worker sleeps a second between two rounds, and a stopped docker logs    *)
(* ends at once: no run begins while a capture of an earlier one is still  *)
(* under way.                                                              *)
Settled == [][RunBegin => AllQuiet]_vars

(* One capture at a time, the worker's own or one it has left behind.      *)
Watched ==
  /\ \A c, d \in Captures : capture[c].at \in Live /\ capture[d].at \in Live => c = d
  /\ \A c \in Captures : capture[c].at \in Live =>
       \/ worker.at \in Watching /\ worker.capture = c
       \/ worker.at = "idle" /\ row \in Active

LEMMA QuietWatched ==
  ASSUME AllQuiet
  PROVE  Watched
  BY DEF AllQuiet, Watched

(* A capture, but for whether it was told to stop. *)
Same(r, q) ==
  /\ r.at = q.at /\ r.fd = q.fd /\ r.skip = q.skip /\ r.sent = q.sent
  /\ r.read = q.read /\ r.child = q.child /\ r.failed = q.failed

AllSame == \A d \in Captures : Same(capture'[d], capture[d])

LEMMA StopSame ==
  ASSUME Typed, Stop(worker.capture)
  PROVE  AllSame
<1>1. capture' = [capture EXCEPT ![worker.capture].stopped = TRUE]
  BY DEF Stop
<1>2. \A d \in Captures : capture[d] \in CaptureRecs
  BY DEF Typed, CaptureTyped
<1> QED
  BY <1>1, <1>2 DEF AllSame, Same, CaptureRecs, Typed, CaptureTyped

(* Only RunBegin gives the worker another capture. *)
LEMMA WorkerSame ==
  ASSUME Typed, WorkerStep, ~ RunBegin
  PROVE  AllSame
<1>1. UNCHANGED capture \/ Stop(worker.capture)
  BY DEF WorkerStep, ReadRow, ReadRowFails, Look, DrainTimeout, Judge, Finish
<1>2. UNCHANGED capture => AllSame
  BY DEF AllSame, Same
<1> QED
  BY <1>1, <1>2, StopSame

(* What RunBegin does to the captures. *)
LEMMA RunBeginFresh ==
  ASSUME Typed, RunBegin
  PROVE  \/ /\ UNCHANGED capture /\ box = "missing"
            /\ worker'.at = "finish" /\ worker'.verdict = "failed"
         \/ \E c \in Captures :
              /\ worker'.at = "read" /\ worker'.capture = c
              /\ capture'[c].at = "new" /\ capture'[c].child = "none"
              /\ \A d \in Captures \ {c} : capture'[d] = capture[d]
<1>1. worker \in WorkerRecs /\ capture \in [Captures -> CaptureRecs]
  BY DEF Typed, WorkerTyped, CaptureTyped
<1>2. CASE box = "missing"
  <2>1. worker' = [worker EXCEPT !.at = "finish", !.verdict = "failed"] /\ UNCHANGED capture
    BY <1>2 DEF RunBegin
  <2> QED
    BY <1>1, <1>2, <2>1 DEF WorkerRecs
<1>3. CASE box # "missing"
  <2> DEFINE r == [NoCapture EXCEPT !.at = "new"]
  <2>1. PICK c \in Captures : /\ capture' = [capture EXCEPT ![c] = r]
                              /\ worker' = [worker EXCEPT !.at = "read", !.capture = c]
    BY <1>3 DEF RunBegin
  <2>2. NoCapture \in CaptureRecs /\ NoCapture.child = "none"
    BY LogAssumption DEF CaptureRecs, NoCapture
  <2>3. r.at = "new" /\ r.child = "none"
    BY <2>2 DEF CaptureRecs
  <2> HIDE DEF r
  <2> QED
    BY <1>1, <2>1, <2>3 DEF WorkerRecs
<1> QED
  BY <1>2, <1>3

(* A step of one capture leaves the others, the worker and the row alone, *)
(* and none comes back to life.                                           *)
LEMMA CaptureStepOwn ==
  ASSUME Typed, NEW c \in Captures, CaptureStep(c)
  PROVE  /\ UNCHANGED <<row, build, worker, viewer>>
         /\ \A d \in Captures \ {c} : capture'[d] = capture[d]
         /\ capture'[c].at \in Live => capture[c].at \in Live
<1>1. capture[c] \in CaptureRecs /\ Bounded(capture[c], printed)
  BY DEF Typed, CaptureTyped
<1>2. capture \in [Captures -> CaptureRecs]
  BY DEF Typed, CaptureTyped
<1>3. UNCHANGED <<row, build, worker, viewer>>
  BY DEF CaptureStep, CaptureOpen, CaptureStart, CaptureFails, ChildSends, ChildEnds, CaptureCopies,
     CaptureBreaks, CaptureEnds
<1>4. ASSUME NEW d \in Captures \ {c} PROVE capture'[d] = capture[d]
  BY <1>2 DEF CaptureStep, CaptureOpen, CaptureStart, CaptureFails, ChildSends, ChildEnds,
     CaptureCopies, CaptureBreaks, CaptureEnds
<1>5. capture[c].at \in Live \/ capture'[c].at = capture[c].at
  BY <1>1, <1>2 DEF Live, CaptureStep, CaptureOpen, CaptureStart, CaptureFails, ChildSends, ChildEnds,
     CaptureCopies, CaptureBreaks, CaptureEnds, CaptureRecs
<1> QED
  BY <1>3, <1>4, <1>5

LEMMA WatchedStep ==
  ASSUME Typed, Watched, [Next]_vars, [RunBegin => AllQuiet]_vars
  PROVE  Watched'
<1>1. worker \in WorkerRecs /\ capture \in [Captures -> CaptureRecs]
  BY DEF Typed, WorkerTyped, CaptureTyped
<1>2. CASE UNCHANGED vars
  BY <1>2 DEF vars, Watched
<1>3. ASSUME NEW c \in Captures, CaptureStep(c) PROVE Watched'
  BY <1>3, CaptureStepOwn DEF Watched
<1>4. CASE RunBegin /\ AllQuiet
  BY <1>4, RunBeginFresh DEF Watched, AllQuiet, Watching
<1>5. CASE WorkerStep /\ ~ RunBegin
  <2>1. \A d \in Captures : capture'[d].at = capture[d].at
    BY <1>5, WorkerSame DEF AllSame, Same
  <2>2. CASE ReadRow \/ Look \/ DrainTimeout
    <3>1. worker.at \in Watching /\ worker'.at \in Watching /\ worker'.capture = worker.capture
      BY <1>1, <2>2 DEF ReadRow, Look, DrainTimeout, Watching, WorkerRecs
    <3> QED
      BY <2>1, <3>1 DEF Watched, Watching
  <2>3. CASE ReadRowFails
    <3>1. row' = row /\ row \in Active /\ worker'.at = "idle"
      BY <1>1, <2>3 DEF ReadRowFails, Typed, WorkerTyped, WorkerRecs
    <3> QED
      BY <2>1, <3>1 DEF Watched
  <2>4. CASE Judge
    <3>1. worker.at \in Watching /\ capture[worker.capture].at = "done"
      BY <2>4 DEF Judge, LogsDone, Watching
    <3> QED
      BY <2>1, <3>1 DEF Watched, Watching, Live
  <2>5. CASE Finish
    <3>1. worker.at = "finish"
      BY <2>5 DEF Finish
    <3> QED
      BY <2>1, <3>1 DEF Watched, Watching
  <2> QED
    BY <1>5, <2>2, <2>3, <2>4, <2>5 DEF WorkerStep
<1>6. CASE \/ \E v \in Viewers : Connect(v) \/ ViewerStep(v) \/ Disconnect(v)
           \/ DeleteLog \/ BuildPrints \/ Exit \/ Removed
  <2>1. UNCHANGED <<row, capture, worker>>
    BY <1>6 DEF Connect, ViewerStep, Send, ReadsEnd, Query, Last, Disconnect, DeleteLog, BuildPrints,
       Exit, Removed
  <2> QED
    BY <2>1 DEF Watched
<1>7. CASE Cancel
  BY <1>7 DEF Cancel, Watched, Active
<1>8. CASE DeleteJob
  <2>1. UNCHANGED <<capture, worker>> /\ row \notin Active
    BY <1>8 DEF DeleteJob, Terminal, Active
  <2>2. worker.at = "idle"
    BY <2>1 DEF Typed, WorkerTyped
  <2> QED
    BY <2>1, <2>2 DEF Watched, Watching
<1>9. CASE Restart
  BY <1>9 DEF Restart, Watched, NoCapture, Live
<1> QED
  BY <1>2, <1>3, <1>4, <1>5, <1>6, <1>7, <1>8, <1>9 DEF Next, WorkerStep

LEMMA OneAtWork == Spec /\ Settled => []Watched
<1>1. Init => Watched
  BY DEF Init, Watched, NoCapture, Live
<1>2. Typed /\ Watched /\ [Next]_vars /\ [RunBegin => AllQuiet]_vars => Watched'
  BY WatchedStep
<1> QED
  BY <1>1, <1>2, Typing, PTL DEF Spec, Settled

-------------------------------------------------------------------------------
(* What is written *)

(* A capture at work on a file has made it as long as what it read, or     *)
(* still skips what was there.                                             *)
CopiedBy(r, s) ==
  /\ r.at = "start" => r.skip = Len(s[r.fd])
  /\ r.at = "follow" /\ ~ r.failed =>
       Len(s[r.fd]) = IF r.read < r.skip THEN r.skip ELSE r.read

Copied == \A c \in Captures : CopiedBy(capture[c], store)

(* Nobody but a capture at work writes. *)
LEMMA OthersLeaveStore ==
  ASSUME Typed, [Next]_vars, ~ \E c \in Captures : CaptureStep(c)
  PROVE  /\ UNCHANGED <<store, made>>
         /\ \A d \in Captures : \/ Same(capture'[d], capture[d])
                                \/ capture'[d].at \in {"none", "new"} /\ capture'[d].child = "none"
<1>1. CASE WorkerStep
  <2>1. UNCHANGED <<store, made>>
    BY <1>1 DEF WorkerStep, RunBegin, ReadRow, ReadRowFails, Look, DrainTimeout, Judge, Finish, file
  <2>2. CASE RunBegin
    BY <2>1, <2>2, RunBeginFresh DEF Same
  <2>3. CASE ~ RunBegin
    BY <1>1, <2>1, <2>3, WorkerSame DEF AllSame
  <2> QED
    BY <2>2, <2>3
<1>2. CASE Restart
  BY <1>2 DEF Restart, NoCapture, file
<1>3. CASE UNCHANGED vars
  BY <1>3 DEF vars, file, Same
<1>4. CASE \/ \E v \in Viewers : Connect(v) \/ ViewerStep(v) \/ Disconnect(v)
           \/ Cancel \/ DeleteLog \/ DeleteJob \/ BuildPrints \/ Exit \/ Removed
  <2>1. UNCHANGED <<store, made, capture>>
    BY <1>4 DEF Connect, ViewerStep, Send, ReadsEnd, Query, Last, Disconnect, Cancel, DeleteLog,
       DeleteJob, BuildPrints, Exit, Removed, file
  <2> QED
    BY <2>1 DEF Same
<1> QED
  BY <1>1, <1>2, <1>3, <1>4 DEF Next

(* What CaptureCopies does to its file. *)
LEMMA CopiesWrites ==
  ASSUME Typed, NEW c \in Captures, CaptureCopies(c)
  PROVE  /\ capture[c].at = "follow" /\ ~ capture[c].failed /\ capture[c].fd \in Files
         /\ capture[c].read \in Nat /\ capture[c].sent \in Nat /\ capture[c].skip \in Nat
         /\ capture[c].read < capture[c].sent /\ capture[c].sent <= printed
         /\ capture' = [capture EXCEPT ![c] = [capture[c] EXCEPT !.read = @ + 1]]
         /\ \A g \in Files : g # capture[c].fd => store'[g] = store[g]
         /\ LET was == store[capture[c].fd]
                is  == store'[capture[c].fd]
            IN /\ Len(was) \in Nat
               /\ capture[c].read < capture[c].skip => is = was
               /\ ~ capture[c].read < capture[c].skip =>
                    /\ Len(is) = Len(was) + 1
                    /\ \A i \in 1..Len(was) : is[i] = was[i]
                    /\ is[Len(is)] = capture[c].read + 1
<1> DEFINE old == capture[c]
           was == store[old.fd]
           s == Append(was, old.read + 1)
<1>1. old \in CaptureRecs /\ Bounded(old, printed) /\ capture \in [Captures -> CaptureRecs]
  BY DEF Typed, CaptureTyped
<1>2. /\ old.at = "follow" /\ ~ old.failed /\ old.read < old.sent
      /\ capture' = [capture EXCEPT ![c].read = @ + 1]
      /\ store' = IF old.read < old.skip THEN store ELSE [store EXCEPT ![old.fd] = s]
  BY DEF CaptureCopies
<1>3. old.fd \in Files /\ old.sent <= printed /\ old.read \in Nat /\ old.sent \in Nat /\ old.skip \in Nat
      /\ old.sent <= MaxBytes
  BY <1>1, <1>2, LogAssumption DEF CaptureRecs, Bounded
<1>4. store \in [Files -> Seq(1..MaxBytes)] /\ was \in Seq(1..MaxBytes) /\ Len(was) \in Nat
  BY <1>3, LenProperties DEF Typed, FileTyped
<1>5. old.read + 1 \in 1..MaxBytes
  BY <1>2, <1>3, LogAssumption
<1>6. Len(s) = Len(was) + 1 /\ s[Len(s)] = old.read + 1 /\ \A i \in 1..Len(was) : s[i] = was[i]
  BY <1>4, <1>5, AppendProperties
<1> HIDE DEF s
<1>7. \A g \in Files : g # old.fd => store'[g] = store[g]
  BY <1>2, <1>4
<1>8. /\ old.read < old.skip => store'[old.fd] = was
      /\ ~ old.read < old.skip => store'[old.fd] = s
  BY <1>2, <1>3, <1>4
<1>9. capture' = [capture EXCEPT ![c] = [old EXCEPT !.read = @ + 1]]
  BY <1>2
<1> HIDE DEF was
<1> QED
  BY <1>2, <1>3, <1>4, <1>6, <1>7, <1>8, <1>9 DEF was

LEMMA CopiedStep ==
  ASSUME Typed, Watched, Copied, LogIsOutput, [Next]_vars
  PROVE  Copied' /\ LogIsOutput'
<1>1. capture \in [Captures -> CaptureRecs] /\ \A d \in Captures : CopiedBy(capture[d], store)
  BY DEF Typed, CaptureTyped, Copied
<1>2. CASE ~ \E c \in Captures : CaptureStep(c)
  <2>1. LogIsOutput'
    BY <1>2, OthersLeaveStore DEF LogIsOutput
  <2> QED
    BY <1>1, <1>2, <2>1, OthersLeaveStore DEF Copied, CopiedBy, Same
<1>3. ASSUME NEW c \in Captures, CaptureStep(c), ~ CaptureCopies(c)
      PROVE  Copied' /\ LogIsOutput'
  <2>1. store' = store
    BY <1>3 DEF CaptureStep, CaptureOpen, CaptureStart, CaptureFails, ChildSends, ChildEnds,
       CaptureBreaks, CaptureEnds, file
  <2>2. capture[c] \in CaptureRecs /\ CopiedBy(capture[c], store)
    BY <1>1
  <2>3. CopiedBy(capture'[c], store)
    <3>1. CASE CaptureOpen(c)
      BY <1>1, <3>1 DEF CaptureOpen, CopiedBy, CaptureRecs
    <3>2. CASE CaptureStart(c)
      <4>1. /\ capture[c].at = "start"
            /\ capture' = [capture EXCEPT ![c].at = "follow", ![c].child = "alive"]
        BY <3>2 DEF CaptureStart
      <4>2. /\ capture'[c].read = capture[c].read /\ capture'[c].skip = capture[c].skip
            /\ capture'[c].fd = capture[c].fd /\ capture'[c].at = "follow"
        BY <1>1, <4>1 DEF CaptureRecs
      <4>3. capture[c].read = 0 /\ capture[c].skip \in Nat
        BY <2>2, <4>1 DEF Typed, CaptureTyped, Bounded, CaptureRecs
      <4> QED
        BY <2>2, <4>1, <4>2, <4>3 DEF CopiedBy
    <3>3. CASE CaptureFails(c)
      BY <1>1, <3>3 DEF CaptureFails, CopiedBy, CaptureRecs
    <3>4. CASE ChildSends(c)
      BY <1>1, <3>4 DEF ChildSends, CopiedBy, CaptureRecs
    <3>5. CASE ChildEnds(c)
      BY <1>1, <3>5 DEF ChildEnds, CopiedBy, CaptureRecs
    <3>6. CASE CaptureBreaks(c)
      BY <1>1, <3>6 DEF CaptureBreaks, CopiedBy, CaptureRecs
    <3>7. CASE CaptureEnds(c)
      BY <1>1, <3>7 DEF CaptureEnds, CopiedBy, CaptureRecs
    <3> QED
      BY <1>3, <3>1, <3>2, <3>3, <3>4, <3>5, <3>6, <3>7 DEF CaptureStep
  <2>4. Copied'
    BY <1>1, <1>3, <2>1, <2>3, CaptureStepOwn DEF Copied
  <2> QED
    BY <2>1, <2>4 DEF LogIsOutput
<1>4. ASSUME NEW c \in Captures, CaptureCopies(c)
      PROVE  Copied' /\ LogIsOutput'
  <2> DEFINE old == capture[c]
             was == store[old.fd]
             is  == store'[old.fd]
  <2>1. /\ old.at = "follow" /\ ~ old.failed /\ old.fd \in Files
        /\ old.read \in Nat /\ old.skip \in Nat
        /\ capture' = [capture EXCEPT ![c] = [old EXCEPT !.read = @ + 1]]
        /\ \A g \in Files : g # old.fd => store'[g] = store[g]
        /\ Len(was) \in Nat
        /\ old.read < old.skip => is = was
        /\ ~ old.read < old.skip => /\ Len(is) = Len(was) + 1
                                    /\ \A i \in 1..Len(was) : is[i] = was[i]
                                    /\ is[Len(is)] = old.read + 1
    BY <1>4, CopiesWrites
  <2>2. Len(was) = IF old.read < old.skip THEN old.skip ELSE old.read
    BY <1>1, <2>1 DEF CopiedBy
  <2>3. \A i \in 1..Len(was) : was[i] = i
    BY <2>1 DEF LogIsOutput
  <2>4. Len(is) \in Nat /\ \A i \in 1..Len(is) : is[i] = i
    <3>1. CASE old.read < old.skip
      BY <2>1, <2>3, <3>1
    <3>2. CASE ~ old.read < old.skip
      <4> HIDE DEF is, was
      <4>1. Len(is) = Len(was) + 1 /\ Len(was) \in Nat /\ Len(was) = old.read
            /\ is[Len(is)] = old.read + 1 /\ \A i \in 1..Len(was) : is[i] = was[i]
        BY <2>1, <2>2, <3>2 DEF is, was
      <4>2. \A i \in 1..Len(is) : i \in 1..Len(was) \/ i = Len(is)
        BY <4>1
      <4>3. ASSUME NEW i \in 1..Len(was) PROVE is[i] = i
        BY <2>3, <4>1
      <4>4. is[Len(is)] = Len(is)
        BY <4>1
      <4> QED
        BY <4>1, <4>2, <4>3, <4>4
    <3> QED
      BY <3>1, <3>2
  <2>5. LogIsOutput'
    BY <2>1, <2>4 DEF LogIsOutput
  <2>6. \A d \in Captures \ {c} : capture[d].at \notin Live /\ capture'[d] = capture[d]
    BY <1>1, <2>1 DEF Watched, Live
  <2>7. /\ capture'[c].at = "follow" /\ capture'[c].fd = old.fd /\ capture'[c].skip = old.skip
        /\ capture'[c].read = old.read + 1
    BY <1>1, <2>1 DEF CaptureRecs
  <2>8. Len(is) = IF old.read + 1 < old.skip THEN old.skip ELSE old.read + 1
    BY <2>1, <2>2
  <2> HIDE DEF is
  <2>9. CopiedBy(capture'[c], store')
    BY <2>7, <2>8 DEF CopiedBy, is
  <2>10. Copied'
    BY <2>6, <2>9 DEF Copied, CopiedBy, Live
  <2> QED
    BY <2>5, <2>10
<1> QED
  BY <1>2, <1>3, <1>4

LEMMA Copying == Spec /\ Settled => [](Copied /\ LogIsOutput)
<1>1. Init => Copied /\ LogIsOutput
  <2>1. Len(<<>>) = 0
    BY EmptySeq
  <2> QED
    BY <2>1 DEF Init, Copied, CopiedBy, NoCapture, LogIsOutput
<1>2. Typed /\ Watched /\ (Copied /\ LogIsOutput) /\ [Next]_vars => (Copied /\ LogIsOutput)'
  BY CopiedStep
<1> QED
  BY <1>1, <1>2, Typing, OneAtWork, PTL DEF Spec

(* A log file is always a beginning of what the build printed, whatever is *)
(* restarted, replayed, broken off or full (captureLogs), provided that no *)
(* run begins before the capture of the one before it has ended.           *)
THEOREM LogsAreOutput == Spec /\ Settled => []LogIsOutput
  BY Copying, PTL

-------------------------------------------------------------------------------
(* What the worker concludes *)

(* The container has ended for whoever thinks so. *)
Over ==
  /\ worker.at \in {"drain", "cut", "gone", "finish"} => box # "running"
  /\ row \notin Active => box # "running"
  /\ \A c \in Captures : capture[c].child = "ended" => capture[c].sent = printed /\ box # "running"

(* What the worker's own capture writes is the log, and all that was sent  *)
(* is in it once it is done.                                               *)
InLog(r) ==
  /\ r.at \in {"start", "follow"} => r.fd = made /\ exists
  /\ r.at = "done" /\ ~ r.failed => r.child = "ended" /\ Len(store[made]) = r.sent

OwnInLog == worker.at \in Watching => InLog(capture[worker.capture])

Judged == worker.at = "finish" /\ worker.verdict = "succeeded" => Len(store[made]) = printed

Concluded == Over /\ OwnInLog /\ Judged /\ SucceededLogWhole

(* A container that has ended neither starts again nor prints. *)
LEMMA BoxStaysEnded ==
  ASSUME [Next]_vars, box # "running"
  PROVE  box' # "running" /\ printed' = printed
<1>1. CASE \E c \in Captures : CaptureStep(c)
  BY <1>1 DEF CaptureStep, CaptureOpen, CaptureStart, CaptureFails, ChildSends, ChildEnds,
     CaptureCopies, CaptureBreaks, CaptureEnds, build
<1>2. CASE WorkerStep
  BY <1>2 DEF WorkerStep, RunBegin, ReadRow, ReadRowFails, Look, DrainTimeout, Judge, Finish, build
<1>3. CASE \E v \in Viewers : Connect(v) \/ ViewerStep(v) \/ Disconnect(v)
  BY <1>3 DEF Connect, ViewerStep, Send, ReadsEnd, Query, Last, Disconnect, build
<1>4. CASE Cancel \/ DeleteLog \/ DeleteJob \/ BuildPrints \/ Exit \/ Removed \/ Restart
  BY <1>4 DEF Cancel, DeleteLog, DeleteJob, BuildPrints, Exit, Removed, Restart, build
<1>5. CASE UNCHANGED vars
  BY <1>5 DEF vars, build
<1> QED
  BY <1>1, <1>2, <1>3, <1>4, <1>5 DEF Next

(* A capture that moves is under way. *)
LEMMA MovesAlive ==
  ASSUME Typed, NEW c \in Captures, CaptureStep(c)
  PROVE  capture[c].at \in Live
<1>1. Bounded(capture[c], printed)
  BY DEF Typed, CaptureTyped
<1> QED
  BY <1>1 DEF Bounded, Live, CaptureStep, CaptureOpen, CaptureStart, CaptureFails, ChildSends,
     ChildEnds, CaptureCopies, CaptureBreaks, CaptureEnds

(* A row that is final stays so, and the worker is not about it. *)
LEMMA FinalStays ==
  ASSUME Typed, [Next]_vars, row \notin Active
  PROVE  row' \notin Active /\ worker.at = "idle" /\ ~ WorkerStep
<1>1. worker.at = "idle"
  BY DEF Typed, WorkerTyped
<1>2. ~ WorkerStep
  BY <1>1 DEF WorkerStep, RunBegin, ReadRow, ReadRowFails, Look, DrainTimeout, Judge, Finish
<1>3. CASE \E c \in Captures : CaptureStep(c)
  BY <1>1, <1>2, <1>3, CaptureStepOwn
<1>4. CASE \E v \in Viewers : Connect(v) \/ ViewerStep(v) \/ Disconnect(v)
  BY <1>1, <1>2, <1>4 DEF Connect, ViewerStep, Send, ReadsEnd, Query, Last, Disconnect
<1>5. CASE Cancel \/ DeleteLog \/ DeleteJob \/ BuildPrints \/ Exit \/ Removed \/ Restart
  BY <1>1, <1>2, <1>5 DEF Cancel, DeleteLog, DeleteJob, BuildPrints, Exit, Removed, Restart, Active
<1>6. CASE UNCHANGED vars
  BY <1>1, <1>2, <1>6 DEF vars
<1> QED
  BY <1>2, <1>3, <1>4, <1>5, <1>6 DEF Next

LEMMA OverStep ==
  ASSUME Typed, Over, [Next]_vars
  PROVE  Over'
<1>1. worker \in WorkerRecs /\ capture \in [Captures -> CaptureRecs]
  BY DEF Typed, WorkerTyped, CaptureTyped
<1>2. ASSUME row' \notin Active
      PROVE  box' # "running"
  <2>1. CASE row \notin Active
    BY <2>1, BoxStaysEnded DEF Over
  <2>2. CASE Finish
    BY <2>2, BoxStaysEnded DEF Over, Finish
  <2>3. CASE row \in Active /\ ~ Finish
    <3>1. row' = row \/ Cancel
      <4>1. CASE \E c \in Captures : CaptureStep(c)
        BY <4>1, CaptureStepOwn
      <4>2. CASE WorkerStep
        BY <2>3, <4>2 DEF WorkerStep, RunBegin, ReadRow, ReadRowFails, Look, DrainTimeout, Judge
      <4>3. CASE \E v \in Viewers : Connect(v) \/ ViewerStep(v) \/ Disconnect(v)
        BY <4>3 DEF Connect, ViewerStep, Send, ReadsEnd, Query, Last, Disconnect
      <4>4. CASE DeleteLog \/ DeleteJob \/ BuildPrints \/ Exit \/ Removed \/ Restart
        BY <2>3, <4>4 DEF DeleteLog, DeleteJob, BuildPrints, Exit, Removed, Restart, Terminal, Active
      <4>5. CASE UNCHANGED vars
        BY <4>5 DEF vars
      <4> QED
        BY <4>1, <4>2, <4>3, <4>4, <4>5 DEF Next
    <3> QED
      BY <1>2, <2>3, <3>1 DEF Cancel, Active
  <2> QED
    BY <2>1, <2>2, <2>3
<1>3. ASSUME worker'.at \in {"drain", "cut", "gone", "finish"}
      PROVE  box' # "running"
  <2>1. CASE worker.at \in {"drain", "cut", "gone", "finish"}
    BY <2>1, BoxStaysEnded DEF Over
  <2>2. CASE RunBegin
    BY <1>3, <2>2, RunBeginFresh, BoxStaysEnded
  <2>3. CASE Look
    BY <1>1, <1>3, <2>3 DEF Look, WorkerRecs
  <2>4. CASE worker' = worker
    BY <1>3, <2>1, <2>4
  <2>5. CASE ReadRow \/ ReadRowFails \/ Finish
    BY <1>1, <1>3, <2>5 DEF ReadRow, ReadRowFails, Finish, WorkerRecs
  <2>6. CASE DrainTimeout \/ Judge
    BY <2>1, <2>6 DEF DrainTimeout, Judge
  <2>7. CASE Restart
    BY <1>3, <2>7 DEF Restart, NoRun
  <2>8. CASE \E c \in Captures : CaptureStep(c)
    BY <2>4, <2>8, CaptureStepOwn
  <2>9. CASE \E v \in Viewers : Connect(v) \/ ViewerStep(v) \/ Disconnect(v)
    BY <2>4, <2>9 DEF Connect, ViewerStep, Send, ReadsEnd, Query, Last, Disconnect
  <2>10. CASE Cancel \/ DeleteLog \/ DeleteJob \/ BuildPrints \/ Exit \/ Removed
    BY <2>4, <2>10 DEF Cancel, DeleteLog, DeleteJob, BuildPrints, Exit, Removed
  <2> QED
    BY <2>2, <2>3, <2>4, <2>5, <2>6, <2>7, <2>8, <2>9, <2>10 DEF Next, WorkerStep, vars
<1>4. ASSUME NEW d \in Captures, capture'[d].child = "ended"
      PROVE  capture'[d].sent = printed' /\ box' # "running"
  <2>1. CASE ~ \E c \in Captures : CaptureStep(c)
    <3>1. capture[d].child = "ended" /\ capture'[d].sent = capture[d].sent
      BY <1>4, <2>1, OthersLeaveStore DEF Same
    <3> QED
      BY <3>1, BoxStaysEnded DEF Over
  <2>2. ASSUME NEW c \in Captures, CaptureStep(c)
        PROVE  capture'[d].sent = printed' /\ box' # "running"
    <3>1. UNCHANGED <<box, printed>>
      BY <2>2, CaptureStepOwn DEF build
    <3>2. CASE c # d
      BY <1>4, <2>2, <3>1, <3>2, CaptureStepOwn DEF Over
    <3>3. CASE c = d /\ ChildEnds(d)
      BY <1>1, <1>4, <3>1, <3>3 DEF ChildEnds, CaptureRecs
    <3>4. CASE c = d /\ ~ ChildEnds(d)
      <4>1. \/ capture'[d].child = capture[d].child /\ capture'[d].sent = capture[d].sent
            \/ capture'[d].child = "alive"
            \/ capture[d].child = "alive"
        BY <1>1, <2>2, <3>4 DEF CaptureStep, CaptureOpen, CaptureStart, CaptureFails, ChildSends,
           CaptureCopies, CaptureBreaks, CaptureEnds, CaptureRecs
      <4>3. capture[d].child = "alive" => capture[d].at = "follow"
        BY DEF Typed, CaptureTyped, Bounded
      <4>2. capture[d].child = "alive" => capture'[d].child = "alive"
        BY <1>1, <2>2, <3>4, <4>3 DEF CaptureStep, CaptureOpen, CaptureStart, CaptureFails,
           ChildSends, CaptureCopies, CaptureBreaks, CaptureEnds, CaptureRecs
      <4> QED
        BY <1>4, <3>1, <4>1, <4>2 DEF Over
    <3> QED
      BY <2>2, <3>2, <3>3, <3>4
  <2> QED
    BY <2>1, <2>2
<1> QED
  BY <1>2, <1>3, <1>4 DEF Over

(* The worker's own capture keeps to the log. *)
LEMMA OwnStep ==
  ASSUME Typed, Watched, Copied, Over, OwnInLog, NEW c \in Captures, CaptureStep(c)
  PROVE  OwnInLog'
<1>1. capture \in [Captures -> CaptureRecs] /\ CopiedBy(capture[c], store) /\ UNCHANGED worker
      /\ capture[c] \in CaptureRecs
  BY CaptureStepOwn DEF Typed, CaptureTyped, Copied
<1>2. SUFFICES ASSUME worker.at \in Watching
               PROVE  InLog(capture[c])'
  <2>1. worker.at \in Watching => worker.capture = c
    BY MovesAlive DEF Watched, Watching
  <2> QED
    BY <1>1, <1>2, <2>1 DEF OwnInLog, InLog
<1>3. worker.capture = c /\ InLog(capture[c])
  BY <1>2, MovesAlive DEF Watched, Watching, OwnInLog
<1>4. CASE CaptureOpen(c)
  BY <1>1, <1>4 DEF CaptureOpen, InLog, CaptureRecs
<1>5. CASE CaptureFails(c)
  BY <1>1, <1>5 DEF CaptureFails, InLog, CaptureRecs
<1>6. CASE CaptureEnds(c)
  <2>1. /\ UNCHANGED file /\ capture[c].at = "follow" /\ capture'[c].at = "done"
        /\ capture'[c].sent = capture[c].sent /\ capture'[c].child = capture[c].child
        /\ ~ capture'[c].failed => /\ ~ capture[c].failed /\ capture[c].child # "broken"
                                   /\ ~ capture[c].read < capture[c].skip
        /\ capture[c].child \in {"ended", "broken"}
        /\ capture[c].failed \/ capture[c].read = capture[c].sent
    BY <1>1, <1>6 DEF CaptureEnds, CaptureRecs
  <2>2. ~ capture'[c].failed =>
          capture[c].child = "ended" /\ Len(store[capture[c].fd]) = capture[c].sent
    <3> SUFFICES ASSUME ~ capture'[c].failed
                 PROVE  capture[c].child = "ended" /\ Len(store[capture[c].fd]) = capture[c].sent
      OBVIOUS
    <3>1. /\ ~ capture[c].failed /\ capture[c].child = "ended" /\ capture[c].read = capture[c].sent
          /\ ~ capture[c].read < capture[c].skip
      BY <2>1
    <3>2. Len(store[capture[c].fd]) = IF capture[c].read < capture[c].skip
                                      THEN capture[c].skip ELSE capture[c].read
      BY <1>1, <2>1, <3>1 DEF CopiedBy
    <3> QED
      BY <3>1, <3>2
  <2>3. capture[c].fd = made /\ exists /\ capture'[c].at = "done"
    BY <1>3, <2>1 DEF InLog
  <2> QED
    BY <2>1, <2>2, <2>3 DEF InLog, file
<1>7. CASE CaptureStart(c) \/ ChildSends(c) \/ ChildEnds(c) \/ CaptureCopies(c) \/ CaptureBreaks(c)
  <2>1. /\ UNCHANGED <<made, exists>> /\ capture[c].at \in {"start", "follow"}
        /\ capture'[c].at = "follow" /\ capture'[c].fd = capture[c].fd
    <3>1. Bounded(capture[c], printed)
      BY DEF Typed, CaptureTyped
    <3> QED
      BY <1>1, <1>7, <3>1 DEF CaptureStart, ChildSends, ChildEnds, CaptureCopies, CaptureBreaks,
         CaptureRecs, file, Bounded
  <2> QED
    BY <1>3, <2>1 DEF InLog
<1> QED
  BY <1>4, <1>5, <1>6, <1>7 DEF CaptureStep

LEMMA ConcludedStep ==
  ASSUME Typed, Watched, Copied, Concluded, [Next]_vars
  PROVE  Concluded'
<1>1. worker \in WorkerRecs /\ Over /\ OwnInLog /\ Judged /\ SucceededLogWhole
  BY DEF Typed, WorkerTyped, Concluded
<1>2. Over'
  BY <1>1, OverStep
<1> SUFFICES OwnInLog' /\ Judged' /\ SucceededLogWhole'
  BY <1>2 DEF Concluded
<1>3. ASSUME NEW c \in Captures, CaptureStep(c)
      PROVE  OwnInLog' /\ Judged' /\ SucceededLogWhole'
  <2>1. OwnInLog'
    BY <1>1, <1>3, OwnStep
  <2>2. worker.at # "finish" /\ row \in Active
    BY <1>3, MovesAlive DEF Watched, Watching, Typed, WorkerTyped
  <2> QED
    BY <1>3, <2>1, <2>2, CaptureStepOwn DEF Judged, SucceededLogWhole, Active
<1>4. CASE WorkerStep
  <2>1. UNCHANGED <<code, printed, store, made, exists>>
    BY <1>4 DEF WorkerStep, RunBegin, ReadRow, ReadRowFails, Look, DrainTimeout, Judge, Finish, file,
       build
  <2>2. row \in Active
    BY <1>4, FinalStays
  <2>3. CASE RunBegin
    <3>1. row' = row
      BY <2>3 DEF RunBegin
    <3>2. OwnInLog' /\ Judged'
      BY <2>3, RunBeginFresh DEF OwnInLog, Judged, Watching, InLog
    <3> QED
      BY <2>2, <3>1, <3>2 DEF SucceededLogWhole, Active
  <2>4. CASE ReadRow \/ ReadRowFails \/ Look \/ DrainTimeout
    <3>1. row' = row /\ worker'.at # "finish"
      BY <1>1, <2>4 DEF ReadRow, ReadRowFails, Look, DrainTimeout, WorkerRecs
    <3>2. worker.at \in Watching /\ worker'.capture = worker.capture
      BY <1>1, <2>4 DEF ReadRow, ReadRowFails, Look, DrainTimeout, WorkerRecs, Watching
    <3>3. Same(capture'[worker.capture], capture[worker.capture])
      <4>1. ~ RunBegin
        BY <3>2 DEF RunBegin, Watching
      <4> QED
        BY <1>4, <3>2, <4>1, WorkerSame DEF AllSame, Typed, WorkerTyped
    <3>4. OwnInLog'
      BY <1>1, <2>1, <3>2, <3>3 DEF OwnInLog, InLog, Same
    <3> QED
      BY <2>2, <3>1, <3>4 DEF Judged, SucceededLogWhole, Active
  <2>5. CASE Judge
    <3>1. UNCHANGED <<row, capture>> /\ worker.at \in {"drain", "cut", "gone"}
          /\ capture[worker.capture].at = "done"
      BY <2>5 DEF Judge, LogsDone
    <3>2. PICK v \in Verdicts : worker' = [worker EXCEPT !.at = "finish", !.verdict = v]
      BY <2>5 DEF Judge
    <3>3. worker'.at = "finish" /\ worker'.verdict = v
      BY <1>1, <3>2 DEF WorkerRecs
    <3>4. v = "succeeded" => ~ capture[worker.capture].failed
      BY <3>2 DEF Verdicts, Collected
    <3>5. worker.capture \in Captures /\ InLog(capture[worker.capture])
      BY <1>1, <3>1 DEF OwnInLog, Watching, Typed, WorkerTyped
    <3>6. v = "succeeded" => Len(store[made]) = printed
      BY <1>1, <3>1, <3>4, <3>5 DEF InLog, Over
    <3> QED
      BY <2>1, <2>2, <3>1, <3>3, <3>6 DEF OwnInLog, Judged, SucceededLogWhole, Watching, Active
  <2>6. CASE Finish
    <3>1. worker.at = "finish" /\ worker'.at = "idle"
          /\ row' \in {row, "cancelled", worker.verdict}
      BY <1>1, <2>6 DEF Finish, WorkerRecs
    <3> QED
      BY <1>1, <2>1, <2>2, <3>1 DEF OwnInLog, Judged, SucceededLogWhole, Watching, Active
  <2> QED
    BY <1>4, <2>3, <2>4, <2>5, <2>6 DEF WorkerStep
<1>5. CASE \E v \in Viewers : Connect(v) \/ ViewerStep(v) \/ Disconnect(v)
  <2>1. UNCHANGED <<row, build, file, capture, worker>>
    BY <1>5 DEF Connect, ViewerStep, Send, ReadsEnd, Query, Last, Disconnect
  <2> QED
    BY <1>1, <2>1 DEF OwnInLog, InLog, Judged, SucceededLogWhole, build, file
<1>6. CASE DeleteLog \/ DeleteJob
  <2>1. /\ row \in Terminal /\ row' \in {row, "deleted"}
        /\ UNCHANGED <<printed, store, made, capture, worker>>
    BY <1>6 DEF DeleteLog, DeleteJob, build
  <2>3. exists' => exists
    BY <1>6, Zenon DEF DeleteLog, DeleteJob
  <2>2. worker.at = "idle"
    BY <2>1 DEF Typed, WorkerTyped, Terminal, Active
  <2> QED
    BY <1>1, <2>1, <2>2, <2>3 DEF OwnInLog, Judged, SucceededLogWhole, Watching
<1>7. CASE Cancel \/ Exit \/ Removed
  <2>1. UNCHANGED <<printed, store, made, exists, capture, worker>> /\ row' \in {row, "cancelling"}
    BY <1>7 DEF Cancel, Exit, Removed, build, file
  <2> QED
    BY <1>1, <2>1 DEF OwnInLog, InLog, Judged, SucceededLogWhole
<1>8. CASE BuildPrints
  <2>1. UNCHANGED <<row, store, made, exists, capture, worker>> /\ box = "running"
    BY <1>8 DEF BuildPrints, file
  <2>2. worker.at # "finish" /\ row # "succeeded"
    BY <1>1, <2>1 DEF Over, Active
  <2> QED
    BY <1>1, <2>1, <2>2 DEF OwnInLog, InLog, Judged, SucceededLogWhole
<1>9. CASE Restart
  BY <1>1, <1>9 DEF Restart, NoRun, OwnInLog, Watching, Judged, SucceededLogWhole, build, file
<1>10. CASE UNCHANGED vars
  BY <1>1, <1>10 DEF vars, build, file, OwnInLog, InLog, Judged, SucceededLogWhole
<1> QED
  BY <1>3, <1>4, <1>5, <1>6, <1>7, <1>8, <1>9, <1>10 DEF Next

LEMMA Concluding == Spec /\ Settled => []Concluded
<1>1. Init => Concluded
  BY DEF Init, NoCapture, NoRun, Concluded, Over, OwnInLog, Judged, SucceededLogWhole, Watching, Active
<1>2. Typed /\ Watched /\ (Copied /\ LogIsOutput) /\ Concluded /\ [Next]_vars => Concluded'
  BY ConcludedStep
<1> QED
  BY <1>1, <1>2, Typing, OneAtWork, Copying, PTL DEF Spec

(* A build is recorded as succeeded only with its whole log, whatever      *)
(* failed, was stopped or was restarted before (run waits for captureLogs  *)
(* and asks what became of it; finish).                                    *)
THEOREM SucceededLogsAreWhole == Spec /\ Settled => []SucceededLogWhole
<1>1. Concluded => SucceededLogWhole
  BY DEF Concluded
<1> QED
  BY <1>1, Concluding, PTL

-------------------------------------------------------------------------------
(* Who reads the log, and what becomes of it *)

(* Nobody is told the end before there is one, and nobody told it has less *)
(* than all.                                                               *)
Told ==
  \A v \in Viewers :
    /\ viewer[v].at \in {"last", "done"} => row \notin Active
    /\ viewer[v].at = "done" => viewer[v].offset = Len(store[viewer[v].fd])

LEMMA ToldStep ==
  ASSUME Typed, Watched, Told, LogDiesWithBuild, [Next]_vars
  PROVE  Told' /\ LogDiesWithBuild'
<1>1. ASSUME NEW c \in Captures, CaptureStep(c)
      PROVE  Told' /\ LogDiesWithBuild'
  <2>1. row \in Active /\ UNCHANGED <<row, viewer>>
    BY <1>1, MovesAlive, CaptureStepOwn DEF Watched, Watching, Typed, WorkerTyped
  <2> QED
    BY <2>1 DEF Told, LogDiesWithBuild, Active
<1>2. CASE WorkerStep
  <2>1. row \in Active /\ UNCHANGED viewer
    BY <1>2, FinalStays DEF WorkerStep, RunBegin, ReadRow, ReadRowFails, Look, DrainTimeout, Judge,
       Finish
  <2>2. row' # "deleted"
    BY <1>2, <2>1 DEF WorkerStep, RunBegin, ReadRow, ReadRowFails, Look, DrainTimeout, Judge, Finish,
       Typed, WorkerTyped, WorkerRecs, Terminal, Active
  <2> QED
    BY <2>1, <2>2 DEF Told, LogDiesWithBuild
<1>3. ASSUME NEW v \in Viewers, Connect(v) \/ ViewerStep(v) \/ Disconnect(v)
      PROVE  Told' /\ LogDiesWithBuild'
  <2>1. UNCHANGED <<row, store, exists>>
    BY <1>3 DEF Connect, ViewerStep, Send, ReadsEnd, Query, Last, Disconnect, file
  <2>2. viewer \in [Viewers -> ViewerRecs]
    BY DEF Typed, ViewerTyped
  <2>3. \A w \in Viewers \ {v} : viewer'[w] = viewer[w]
    BY <1>3, <2>2 DEF Connect, ViewerStep, Send, ReadsEnd, Query, Last, Disconnect, Goes
  <2>4. viewer'[v].at \in {"last", "done"} =>
          /\ row \notin Active
          /\ viewer'[v].at = "done" => viewer'[v].offset = Len(store[viewer'[v].fd])
    <3>1. CASE Connect(v) \/ Send(v) \/ ReadsEnd(v) \/ Disconnect(v)
      <4>1. viewer'[v].at \notin {"last", "done"}
        BY <2>2, <3>1 DEF Connect, Send, ReadsEnd, Disconnect, Goes, ViewerRecs
      <4> QED
        BY <4>1
    <3>2. CASE Query(v)
      <4>1. \/ viewer'[v].at = "last" /\ row \in Terminal
            \/ viewer'[v].at \notin {"last", "done"}
        BY <2>2, <3>2 DEF Query, Goes, ViewerRecs
      <4> QED
        BY <4>1 DEF Terminal, Active
    <3>3. CASE Last(v)
      <4>1. /\ viewer[v].at = "last"
            /\ viewer'[v].fd = viewer[v].fd /\ viewer'[v].offset = viewer[v].offset
            /\ Left(v) > 0 => viewer'[v].at = "read"
        BY <2>2, <3>3 DEF Last, Goes, ViewerRecs
      <4>2. /\ viewer[v].fd \in Files /\ viewer[v].offset <= Len(store[viewer[v].fd])
            /\ viewer[v].offset \in Nat
        BY <2>2, <4>1 DEF Typed, ViewerTyped, ViewerRecs
      <4>3. Len(store[viewer[v].fd]) \in Nat
        BY <4>2, LenProperties DEF Typed, FileTyped
      <4>4. ~ Left(v) > 0 => viewer[v].offset = Len(store[viewer[v].fd])
        BY <4>2, <4>3 DEF Left
      <4> QED
        BY <4>1, <4>4 DEF Told
    <3> QED
      BY <1>3, <3>1, <3>2, <3>3 DEF ViewerStep
  <2>5. Told'
    BY <2>1, <2>3, <2>4 DEF Told
  <2> QED
    BY <2>1, <2>5 DEF LogDiesWithBuild
<1>4. CASE DeleteLog \/ DeleteJob
  <2>1. row \in Terminal /\ row' \in {row, "deleted"} /\ UNCHANGED <<store, viewer>>
    BY <1>4 DEF DeleteLog, DeleteJob
  <2>2. row' = "deleted" => ~ exists'
    BY <1>4 DEF DeleteLog, DeleteJob, Terminal
  <2> QED
    BY <2>1, <2>2 DEF Told, LogDiesWithBuild, Terminal, Active
<1>5. CASE Cancel
  BY <1>5 DEF Cancel, Told, LogDiesWithBuild, Active, file
<1>6. CASE BuildPrints \/ Exit \/ Removed
  <2>1. UNCHANGED <<row, store, exists, viewer>>
    BY <1>6 DEF BuildPrints, Exit, Removed, file
  <2> QED
    BY <2>1 DEF Told, LogDiesWithBuild
<1>7. CASE Restart
  <2>1. UNCHANGED <<row, store, exists>>
        /\ \A v \in Viewers : viewer'[v] = viewer[v] \/ viewer'[v] = [viewer[v] EXCEPT !.at = "off"]
    BY <1>7 DEF Restart, file
  <2>2. \A v \in Viewers : viewer[v] \in ViewerRecs
    BY DEF Typed, ViewerTyped
  <2>3. \A v \in Viewers : viewer'[v] = viewer[v] \/ viewer'[v].at = "off"
    BY <2>1, <2>2 DEF ViewerRecs
  <2> QED
    BY <2>1, <2>3 DEF Told, LogDiesWithBuild
<1>8. CASE UNCHANGED vars
  BY <1>8 DEF vars, file, Told, LogDiesWithBuild
<1> QED
  BY <1>1, <1>2, <1>3, <1>4, <1>5, <1>6, <1>7, <1>8 DEF Next

LEMMA Telling == Spec /\ Settled => [](Told /\ LogDiesWithBuild)
<1>1. Init => Told /\ LogDiesWithBuild
  BY DEF Init, NoViewer, Told, LogDiesWithBuild
<1>2. Typed /\ Watched /\ (Told /\ LogDiesWithBuild) /\ [Next]_vars => (Told /\ LogDiesWithBuild)'
  BY ToldStep
<1> QED
  BY <1>1, <1>2, Typing, OneAtWork, PTL DEF Spec

(* A browser that was told the end has every byte of the log, then and for *)
(* good (events reads the file once more after the row was final; nobody   *)
(* writes after that).                                                     *)
THEOREM DoneHasAll == Spec /\ Settled => []DoneSawAll
<1>1. Told => DoneSawAll
  BY DEF Told, DoneSawAll
<1> QED
  BY <1>1, Telling, PTL

(* A deleted build leaves no log behind: no goroutine that had it open, or *)
(* was about to open it, makes it again (deleteJob, captureLogs, run).     *)
THEOREM DeletedLogsStayDeleted == Spec /\ Settled => []LogDiesWithBuild
  BY Telling, PTL

-------------------------------------------------------------------------------
(* When no run begins too early *)

(* A capture the worker has left, and a container that went away under a   *)
(* build, have each cost a failure of their own kind.                      *)
LeftBehind == \E c \in Captures : /\ capture[c].at \in Live
                                  /\ ~ (worker.at \in Watching /\ worker.capture = c)
Gone == box = "missing" /\ row \in Active

Accounted ==
  /\ LeftBehind => "read" \in Faulty /\ spent.faults >= 1
  /\ Gone => "rm" \in Faulty /\ spent.faults >= 1
  /\ LeftBehind /\ Gone => spent.faults >= 2

LEMMA FaultCounts ==
  ASSUME Typed, NEW what, Fault(what)
  PROVE  what \in Faulty /\ spent'.faults = spent.faults + 1
  BY DEF Typed, SpentTyped, Fault

LEMMA AccountedStep ==
  ASSUME Typed, Accounted, [Next]_vars
  PROVE  Accounted'
<1>1. /\ worker \in WorkerRecs /\ capture \in [Captures -> CaptureRecs]
      /\ spent.faults \in Nat
  BY LogAssumption DEF Typed, WorkerTyped, CaptureTyped, SpentTyped
<1>2. spent'.faults \in Nat /\ spent'.faults >= spent.faults
  <2>1. \/ UNCHANGED spent
        \/ \E what \in Faulty : Fault(what)
        \/ spent' = [spent EXCEPT !.crashes = @ + 1]
    <3>1. CASE \E c \in Captures : CaptureStep(c)
      BY <3>1 DEF CaptureStep, CaptureOpen, CaptureStart, CaptureFails, ChildSends, ChildEnds,
         CaptureCopies, CaptureBreaks, CaptureEnds, Fault
    <3>2. CASE WorkerStep
      BY <3>2 DEF WorkerStep, RunBegin, ReadRow, ReadRowFails, Look, DrainTimeout, Judge, Finish, Fault
    <3>3. CASE \E v \in Viewers : Connect(v) \/ ViewerStep(v) \/ Disconnect(v)
      BY <3>3 DEF Connect, ViewerStep, Send, ReadsEnd, Query, Last, Disconnect, Fault
    <3>4. CASE Cancel \/ DeleteLog \/ DeleteJob \/ BuildPrints \/ Exit \/ Removed \/ Restart
      BY <3>4 DEF Cancel, DeleteLog, DeleteJob, BuildPrints, Exit, Removed, Restart, Fault
    <3>5. CASE UNCHANGED vars
      BY <3>5 DEF vars
    <3> QED
      BY <3>1, <3>2, <3>3, <3>4, <3>5 DEF Next
  <2> QED
    BY <1>1, <2>1, FaultCounts DEF Typed, SpentTyped
<1>3. Gone' => Gone \/ (Removed /\ spent'.faults = spent.faults + 1 /\ "rm" \in Faulty)
  <2> SUFFICES ASSUME Gone', ~ Gone
               PROVE  Removed /\ spent'.faults = spent.faults + 1 /\ "rm" \in Faulty
    OBVIOUS
  <2>1. row \in Active /\ box # "missing"
    BY FinalStays DEF Gone
  <2>2. Removed
    <3>1. ~ \E c \in Captures : CaptureStep(c)
      BY <2>1, CaptureStepOwn DEF Gone, build
    <3>2. ~ WorkerStep
      BY <2>1 DEF Gone, WorkerStep, RunBegin, ReadRow, ReadRowFails, Look, DrainTimeout, Judge, Finish,
         build
    <3>3. ~ \E v \in Viewers : Connect(v) \/ ViewerStep(v) \/ Disconnect(v)
      BY <2>1 DEF Gone, Connect, ViewerStep, Send, ReadsEnd, Query, Last, Disconnect, build
    <3>4. ~ (Cancel \/ DeleteLog \/ DeleteJob \/ BuildPrints \/ Exit \/ Restart)
      BY <2>1 DEF Gone, Cancel, DeleteLog, DeleteJob, BuildPrints, Exit, Restart, build, Terminal, Active
    <3>5. ~ UNCHANGED vars
      BY <2>1 DEF Gone, vars, build
    <3> QED
      BY <3>1, <3>2, <3>3, <3>4, <3>5 DEF Next
  <2> QED
    BY <2>2, FaultCounts DEF Removed
<1>4. LeftBehind' => LeftBehind \/ (ReadRowFails /\ spent'.faults = spent.faults + 1 /\ "read" \in Faulty)
  <2> SUFFICES ASSUME LeftBehind', ~ LeftBehind
               PROVE  ReadRowFails /\ spent'.faults = spent.faults + 1 /\ "read" \in Faulty
    OBVIOUS
  <2>1. PICK c \in Captures : /\ capture'[c].at \in Live
                              /\ ~ (worker'.at \in Watching /\ worker'.capture = c)
    BY DEF LeftBehind
  <2>2. ReadRowFails
    <3>1. ~ \E d \in Captures : CaptureStep(d)
      BY <2>1, CaptureStepOwn DEF LeftBehind
    <3>2. ~ RunBegin
      <4> SUFFICES ASSUME RunBegin PROVE FALSE
        OBVIOUS
      <4>1. worker.at = "idle"
        BY DEF RunBegin
      <4> QED
        BY <2>1, <4>1, RunBeginFresh DEF LeftBehind, Watching
    <3>3. ~ (ReadRow \/ Look \/ DrainTimeout)
      <4> SUFFICES ASSUME ReadRow \/ Look \/ DrainTimeout PROVE FALSE
        OBVIOUS
      <4>1. worker.at \in Watching /\ worker'.at \in Watching /\ worker'.capture = worker.capture
        BY <1>1 DEF ReadRow, Look, DrainTimeout, Watching, WorkerRecs
      <4>2. ~ RunBegin /\ WorkerStep
        BY <4>1 DEF WorkerStep, RunBegin, Watching
      <4>3. capture'[c].at = capture[c].at
        BY <4>2, WorkerSame DEF AllSame, Same
      <4> QED
        BY <2>1, <4>1, <4>3 DEF LeftBehind
    <3>4. ~ (Judge \/ Finish)
      <4> SUFFICES ASSUME Judge \/ Finish PROVE FALSE
        OBVIOUS
      <4>1. UNCHANGED capture
        BY DEF Judge, Finish
      <4>2. \/ capture[worker.capture].at = "done"
            \/ worker.at = "finish"
        BY DEF Judge, Finish, LogsDone
      <4> QED
        BY <2>1, <4>1, <4>2 DEF LeftBehind, Live, Watching
    <3>5. ~ \E v \in Viewers : Connect(v) \/ ViewerStep(v) \/ Disconnect(v)
      BY <2>1 DEF LeftBehind, Connect, ViewerStep, Send, ReadsEnd, Query, Last, Disconnect
    <3>6. ~ (Cancel \/ DeleteLog \/ DeleteJob \/ BuildPrints \/ Exit \/ Removed)
      BY <2>1 DEF LeftBehind, Cancel, DeleteLog, DeleteJob, BuildPrints, Exit, Removed
    <3>7. ~ Restart
      BY <2>1 DEF Restart, NoCapture, Live
    <3>8. ~ UNCHANGED vars
      BY <2>1 DEF LeftBehind, vars
    <3> QED
      BY <3>1, <3>2, <3>3, <3>4, <3>5, <3>6, <3>7, <3>8 DEF Next, WorkerStep
  <2> QED
    BY <2>2, FaultCounts DEF ReadRowFails
<1>5. ~ (ReadRowFails /\ Removed)
  <2> SUFFICES ASSUME ReadRowFails, Removed PROVE FALSE
    OBVIOUS
  <2>1. worker.at = "read" /\ worker' = [worker EXCEPT !.at = "idle"] /\ worker' = worker
    BY DEF ReadRowFails, Removed
  <2> QED
    BY <1>1, <2>1 DEF WorkerRecs
<1> QED
  BY <1>1, <1>2, <1>3, <1>4, <1>5 DEF Accounted

(* The hypothesis of the theorems above is met wherever rows can be read,  *)
(* and wherever one capture and one failure at most occur: a second        *)
(* capture begins next to an old one only after the row could not be read  *)
(* and, if it is to be the only one, the container was removed as well.    *)
THEOREM OneFailureSettles ==
  ASSUME \/ "read" \notin Faulty
         \/ MaxCaptures <= 1 /\ (MaxFaults <= 1 \/ "rm" \notin Faulty)
  PROVE  Spec => Settled
<1>1. Init => Accounted
  BY DEF Init, NoCapture, Accounted, LeftBehind, Gone, Live
<1>2. Typed /\ Accounted /\ [Next]_vars => Accounted'
  BY AccountedStep
<1>3. ASSUME Typed, Accounted, RunBegin
      PROVE  AllQuiet
  <2> SUFFICES ASSUME NEW c \in Captures, capture[c].at \in Live
               PROVE  FALSE
    BY DEF AllQuiet
  <2>1. worker.at = "idle" /\ row \in Active
    BY <1>3 DEF RunBegin
  <2>2. LeftBehind
    BY <2>1 DEF LeftBehind, Watching
  <2>3. "read" \in Faulty /\ MaxCaptures <= 1 /\ (MaxFaults <= 1 \/ "rm" \notin Faulty)
    BY <1>3, <2>2 DEF Accounted
  <2>4. CASE box = "missing"
    <3>1. spent.faults >= 2 /\ "rm" \in Faulty
      BY <1>3, <2>1, <2>2, <2>4 DEF Accounted, Gone
    <3>2. spent.faults \in 0..MaxFaults
      BY <1>3 DEF Typed, SpentTyped
    <3> QED
      BY <2>3, <3>1, <3>2, LogAssumption
  <2>5. CASE box # "missing"
    <3>1. PICK d \in Captures : capture[d].at \in {"none", "done"}
      BY <1>3, <2>5 DEF RunBegin
    <3>2. d = c
      BY <2>3, LogAssumption DEF Captures
    <3> QED
      BY <3>1, <3>2 DEF Live
  <2> QED
    BY <2>4, <2>5
<1>4. Typed /\ Accounted /\ [Next]_vars => [RunBegin => AllQuiet]_vars
  BY <1>3
<1> QED
  BY <1>1, <1>2, <1>4, Typing, PTL DEF Spec, Settled

(* With these failures the log is what the build printed, whole when the   *)
(* build succeeded and when a browser was told the end, and gone with the  *)
(* build, for every number of viewers, bytes and restarts.                 *)
THEOREM LogsHold ==
  ASSUME \/ "read" \notin Faulty
         \/ MaxCaptures <= 1 /\ (MaxFaults <= 1 \/ "rm" \notin Faulty)
  PROVE  Spec => [](LogIsOutput /\ SucceededLogWhole /\ DoneSawAll /\ LogDiesWithBuild)
<1>1. Spec => Settled
  BY OneFailureSettles
<1> QED
  BY <1>1, LogsAreOutput, SucceededLogsAreWhole, DoneHasAll, DeletedLogsStayDeleted, PTL
=============================================================================
