---------------------------- MODULE BuildLifecycle ----------------------------
(***************************************************************************)
(* What the build queue promises, whatever happens underneath: builds are  *)
(* accepted in order, built one at a time in the order they were accepted, *)
(* a finished build never changes its verdict, a build somebody cancelled  *)
(* is never reported as anything but cancelled, and only a finished build  *)
(* can be deleted.  There is no worker, container, crash or database here; *)
(* BuildQueue implements this specification.                               *)
(***************************************************************************)
EXTENDS Integers

CONSTANT MaxJobs

VARIABLES status, accepted

lifecycleVars == <<status, accepted>>

Builds   == 1..MaxJobs
Ongoing  == {"building", "stopping"}
Verdicts == {"succeeded", "failed", "cancelled"}

Init ==
  /\ status = [i \in Builds |-> "absent"]
  /\ accepted = 0

(* An id is used at most once, even if submitting fails. *)
Accept ==
  /\ accepted < MaxJobs
  /\ accepted' = accepted + 1
  /\ \E s \in {"queued", "absent"} : status' = [status EXCEPT ![accepted + 1] = s]

(* The oldest waiting build, and only when nothing else is being built. *)
Begin(i) ==
  /\ \A k \in Builds : status[k] \notin Ongoing
  /\ status[i] = "queued"
  /\ \A k \in Builds : status[k] = "queued" => i <= k
  /\ status' = [status EXCEPT ![i] = "building"]
  /\ UNCHANGED accepted

Cancel(i) ==
  /\ \/ status[i] = "queued"   /\ status' = [status EXCEPT ![i] = "cancelled"]
     \/ status[i] = "building" /\ status' = [status EXCEPT ![i] = "stopping"]
  /\ UNCHANGED accepted

End(i) ==
  /\ \/ /\ status[i] = "building"
        /\ \E v \in {"succeeded", "failed"} : status' = [status EXCEPT ![i] = v]
     \/ /\ status[i] = "stopping"
        /\ status' = [status EXCEPT ![i] = "cancelled"]
  /\ UNCHANGED accepted

Delete(i) ==
  /\ status[i] \in Verdicts
  /\ status' = [status EXCEPT ![i] = "absent"]
  /\ UNCHANGED accepted

Next ==
  \/ Accept
  \/ \E i \in Builds : Begin(i) \/ Cancel(i) \/ End(i) \/ Delete(i)

Spec == Init /\ [][Next]_lifecycleVars
===============================================================================
