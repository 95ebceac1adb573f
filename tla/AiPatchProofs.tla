--------------------------- MODULE AiPatchProofs ---------------------------
(***************************************************************************)
(* Theorems about AiPatch for any number of requests, files, proposals,    *)
(* edits, failing calls and restarts.  The last two are about a calmer     *)
(* world, since without it the model violates them: NeverHalf about one    *)
(* request at a time (OneCalmClient), UndoReachable about pages that take  *)
(* turns over a proposal (OrderlySpec).                                    *)
(***************************************************************************)
EXTENDS AiPatch, TLAPS

\* The proposals that anybody but the generation can have seen: all that were
\* made, but for one that is still being staged.
Known == IF gen.pc = "idle" THEN 1 .. staged ELSE 1 .. (staged - 1)

\* What the tree holds, and what a proposal would be put back to, was written
\* by a proposal that is known, and never by the proposal itself.
OriginalsForeign ==
    /\ \A f \in Paths, i \in Proposals : tree[f] = Proposed(i) => i \in Known
    /\ \A f \in Paths, i \in Proposals, j \in Proposals :
          proposal[i].original[f] = Proposed(j) => j \in Known /\ j # i

\* Whoever may write or put back a proposal's files has a known one.
HandledKnown ==
    /\ patch \in Known \union {0} /\ record \in Known \union {0}
    /\ \A c \in Clients : req[c].p \in Known \union {0}

Inv == TypeOK /\ OriginalsForeign /\ HandledKnown

\* TypeOK, with the parts named that steps treat apart.
ProposalTypes == [files : SUBSET Paths, original : [Paths -> Contents], applied : BOOLEAN]
GenTypes == [pc : {"idle", "read", "publish"}, todo : SUBSET Paths]
RequestTypes == [pc : Pending, p : 0 .. staged, todo : SUBSET Paths, written : SUBSET Paths]
SharedTyped ==
    /\ tree \in [Paths -> Contents]
    /\ mu \in Clients \union {"free"}
    /\ proposal \in [Proposals -> ProposalTypes]
    /\ staged \in 0 .. MaxProposals
    /\ patch \in 0 .. staged /\ record \in 0 .. staged /\ newest \in 0 .. staged
    /\ gen \in GenTypes
Bounds == [edits : 0 .. MaxEdits, faults : 0 .. MaxFaults, crashes : 0 .. MaxCrashes]
Holding == {"write", "restore", "save", "publish", "undoing"}
LockHeld ==
    \A c \in Clients : /\ req[c].pc # "idle" => req[c].p # 0
                       /\ mu = c <=> req[c].pc \in Holding

LEMMA TypeParts ==
    /\ TypeOK <=> SharedTyped /\ req \in [Clients -> RequestTypes] /\ spent \in Bounds /\ LockHeld
    /\ TypeOK' <=> /\ SharedTyped' /\ req' \in [Clients -> RequestTypes]'
                   /\ spent' \in Bounds /\ LockHeld'
  BY DEF TypeOK, SharedTyped, ProposalTypes, GenTypes, RequestTypes, Bounds, LockHeld, Holding

LEMMA Constants ==
    /\ MaxProposals \in Nat /\ MaxEdits \in Nat /\ MaxFaults \in Nat /\ MaxCrashes \in Nat
    /\ "free" \notin Clients
  BY AiPatchAssumption

\* A number tells who wrote the contents.
LEMMA ContentsTold ==
    /\ {Absent, Original, Torn} \subseteq Contents
    /\ \A i \in Proposals : Proposed(i) \in Contents /\ Proposed(i) \notin {Absent, Original, Torn}
    /\ \A i \in Proposals, j \in Proposals : Proposed(i) = Proposed(j) => i = j
    /\ \A k \in 1 .. MaxEdits : Edited(k) \in Contents /\ \A i \in Proposals : Edited(k) # Proposed(i)
  BY Constants DEF Absent, Original, Torn, Proposals, Proposed, Edited, Contents

\* A failing call only adds to the faults, and stays within their bound.
LEMMA FaultTyped ==
    ASSUME spent \in Bounds, NEW call, Fault(call)
    PROVE  spent' \in Bounds
  BY Constants DEF Bounds, Fault

(***************************************************************************)
(* What an EXCEPT leaves typed.                                            *)
(***************************************************************************)
LEMMA TreeWith ==
    ASSUME tree \in [Paths -> Contents], NEW f \in Paths, NEW v \in Contents
    PROVE  [tree EXCEPT ![f] = v] \in [Paths -> Contents]
  OBVIOUS

LEMMA GenWith ==
    ASSUME gen \in GenTypes
    PROVE  /\ \A f \in Paths : [gen EXCEPT !.todo = @ \ {f}] \in GenTypes
           /\ [gen EXCEPT !.pc = "publish"] \in GenTypes
           /\ \A files \in SUBSET Paths : [pc |-> "read", todo |-> files] \in GenTypes
           /\ Quiet \in GenTypes
  <1>1. \A f \in Paths : gen.todo \ {f} \in SUBSET Paths
    BY DEF GenTypes
  <1> QED BY <1>1 DEF GenTypes, Quiet

LEMMA ProposalWith ==
    ASSUME proposal \in [Proposals -> ProposalTypes], NEW i
    PROVE  /\ \A files \in SUBSET Paths :
                [proposal EXCEPT ![i].files = files] \in [Proposals -> ProposalTypes]
           /\ \A f \in Paths, v \in Contents :
                [proposal EXCEPT ![i].original[f] = v] \in [Proposals -> ProposalTypes]
           /\ [proposal EXCEPT ![i].applied = TRUE] \in [Proposals -> ProposalTypes]
  <1>1. \A files \in SUBSET Paths :
                [proposal EXCEPT ![i].files = files] \in [Proposals -> ProposalTypes]
    BY DEF ProposalTypes
  <1>2. ASSUME NEW f \in Paths, NEW v \in Contents, i \in Proposals
        PROVE  [proposal EXCEPT ![i].original[f] = v] \in [Proposals -> ProposalTypes]
    <2>1. [proposal[i].original EXCEPT ![f] = v] \in [Paths -> Contents]
      BY <1>2 DEF ProposalTypes
    <2>2. [proposal[i] EXCEPT !.original[f] = v] \in ProposalTypes
      BY <1>2, <2>1 DEF ProposalTypes
    <2> QED BY <1>2, <2>2
  <1>3. ASSUME i \in Proposals
        PROVE  [proposal EXCEPT ![i].applied = TRUE] \in [Proposals -> ProposalTypes]
    <2>1. [proposal[i] EXCEPT !.applied = TRUE] \in ProposalTypes
      BY <1>3 DEF ProposalTypes
    <2> QED BY <1>3, <2>1
  <1>4. CASE i \notin Proposals
    <2>1. \A v : [proposal EXCEPT ![i] = v] = proposal
      BY <1>4
    <2> QED BY <1>1, <1>4, <2>1
  <1> QED BY <1>1, <1>2, <1>3, <1>4

LEMMA RequestWith ==
    ASSUME req \in [Clients -> RequestTypes], NEW c \in Clients, NEW pc \in Pending,
           NEW todo \in SUBSET Paths
    PROVE  /\ [req EXCEPT ![c].pc = pc, ![c].todo = todo] \in [Clients -> RequestTypes]
           /\ [req EXCEPT ![c].todo = todo] \in [Clients -> RequestTypes]
           /\ \A f \in Paths : [req EXCEPT ![c].todo = todo, ![c].written = @ \union {f}]
                \in [Clients -> RequestTypes]
  <1>1. [req[c] EXCEPT !.pc = pc, !.todo = todo] \in RequestTypes
    BY DEF RequestTypes
  <1>2. [req[c] EXCEPT !.todo = todo] \in RequestTypes
    BY DEF RequestTypes
  <1>3. ASSUME NEW f \in Paths
        PROVE [req[c] EXCEPT !.todo = todo, !.written = @ \union {f}] \in RequestTypes
    <2>1. req[c].written \union {f} \in SUBSET Paths
      BY DEF RequestTypes
    <2> QED BY <2>1 DEF RequestTypes
  <1> QED BY <1>1, <1>2, <1>3

LEMMA InvInit == Init => Inv
  BY Constants, ContentsTold DEF Init, Inv, TypeOK, OriginalsForeign, HandledKnown, Known,
     Untouched, Quiet, Idle, Pending

(***************************************************************************)
(* The generation.                                                         *)
(***************************************************************************)
LEMMA InvReply ==
    ASSUME Inv, NEW files \in SUBSET Paths, Reply(files)
    PROVE  Inv'
  <1>1. SharedTyped'
    <2>1. staged + 1 \in 0 .. MaxProposals /\ 0 .. staged \subseteq 0 .. (staged + 1)
      BY Constants, TypeParts DEF Inv, SharedTyped, Reply
    <2>2. gen' \in GenTypes /\ proposal' \in [Proposals -> ProposalTypes]
      BY TypeParts, GenWith, ProposalWith DEF Inv, SharedTyped, Reply
    <2> QED BY <2>1, <2>2, TypeParts DEF Inv, SharedTyped, Reply
  <1>2. req' \in [Clients -> RequestTypes]'
    BY Constants, TypeParts DEF Inv, SharedTyped, RequestTypes, Reply, Goes, Ends, Idle, Pending
  <1>3. spent' \in Bounds
    BY TypeParts, FaultTyped DEF Inv, Reply
  <1>4. LockHeld'
    BY Constants, TypeParts DEF Inv, SharedTyped, RequestTypes, LockHeld, Holding,
       Reply, Goes, Ends, Idle
  <1>5. OriginalsForeign' /\ HandledKnown'
    BY Constants, ContentsTold DEF Inv, TypeOK, OriginalsForeign, HandledKnown, Known, Proposals,
       Reply, Goes, Ends, Mine, Idle, Quiet
  <1> QED BY <1>1, <1>2, <1>3, <1>4, <1>5, TypeParts DEF Inv

LEMMA InvReadFile ==
    ASSUME Inv, NEW f \in Paths, ReadFile(f)
    PROVE  Inv'
  <1>1. SharedTyped'
    <2>1. tree[f] \in Contents
      BY TypeParts DEF Inv, SharedTyped
    <2>2. gen' \in GenTypes /\ proposal' \in [Proposals -> ProposalTypes]
      BY <2>1, TypeParts, GenWith, ProposalWith DEF Inv, SharedTyped, ReadFile
    <2> QED BY <2>2, TypeParts DEF Inv, SharedTyped, ReadFile
  <1>2. req' \in [Clients -> RequestTypes]'
    BY Constants, TypeParts DEF Inv, SharedTyped, RequestTypes, ReadFile, Goes, Ends, Idle, Pending
  <1>3. spent' \in Bounds
    BY TypeParts, FaultTyped DEF Inv, ReadFile
  <1>4. LockHeld'
    BY Constants, TypeParts DEF Inv, SharedTyped, RequestTypes, LockHeld, Holding,
       ReadFile, Goes, Ends, Idle
  <1>5. OriginalsForeign' /\ HandledKnown'
    BY Constants, ContentsTold DEF Inv, TypeOK, OriginalsForeign, HandledKnown, Known, Proposals,
       ReadFile, Goes, Ends, Mine, Idle, Quiet
  <1> QED BY <1>1, <1>2, <1>3, <1>4, <1>5, TypeParts DEF Inv

LEMMA InvStageFails ==
    ASSUME Inv, StageFails
    PROVE  Inv'
  <1>1. SharedTyped'
    BY Constants, TypeParts, GenWith DEF Inv, SharedTyped, StageFails
  <1>2. req' \in [Clients -> RequestTypes]'
    BY Constants, TypeParts DEF Inv, SharedTyped, RequestTypes, StageFails, Goes, Ends, Idle, Pending
  <1>3. spent' \in Bounds
    BY TypeParts, FaultTyped DEF Inv, StageFails
  <1>4. LockHeld'
    BY Constants, TypeParts DEF Inv, SharedTyped, RequestTypes, LockHeld, Holding,
       StageFails, Goes, Ends, Idle
  <1>5. OriginalsForeign' /\ HandledKnown'
    BY Constants, ContentsTold DEF Inv, TypeOK, OriginalsForeign, HandledKnown, Known, Proposals,
       StageFails, Goes, Ends, Mine, Idle, Quiet
  <1> QED BY <1>1, <1>2, <1>3, <1>4, <1>5, TypeParts DEF Inv

LEMMA InvDropOldRecord ==
    ASSUME Inv, DropOldRecord
    PROVE  Inv'
  <1>1. SharedTyped'
    BY Constants, TypeParts, GenWith DEF Inv, SharedTyped, DropOldRecord
  <1>2. req' \in [Clients -> RequestTypes]'
    BY Constants, TypeParts DEF Inv, SharedTyped, RequestTypes, DropOldRecord, Goes, Ends, Idle, Pending
  <1>3. spent' \in Bounds
    BY TypeParts, FaultTyped DEF Inv, DropOldRecord
  <1>4. LockHeld'
    BY Constants, TypeParts DEF Inv, SharedTyped, RequestTypes, LockHeld, Holding,
       DropOldRecord, Goes, Ends, Idle
  <1>5. OriginalsForeign' /\ HandledKnown'
    BY Constants, ContentsTold DEF Inv, TypeOK, OriginalsForeign, HandledKnown, Known, Proposals,
       DropOldRecord, Goes, Ends, Mine, Idle, Quiet
  <1> QED BY <1>1, <1>2, <1>3, <1>4, <1>5, TypeParts DEF Inv

LEMMA InvStagePublish ==
    ASSUME Inv, StagePublish
    PROVE  Inv'
  <1>1. SharedTyped'
    BY Constants, TypeParts, GenWith DEF Inv, SharedTyped, StagePublish
  <1>2. req' \in [Clients -> RequestTypes]'
    BY Constants, TypeParts DEF Inv, SharedTyped, RequestTypes, StagePublish, Goes, Ends, Idle, Pending
  <1>3. spent' \in Bounds
    BY TypeParts, FaultTyped DEF Inv, StagePublish
  <1>4. LockHeld'
    BY Constants, TypeParts DEF Inv, SharedTyped, RequestTypes, LockHeld, Holding,
       StagePublish, Goes, Ends, Idle
  <1>5. OriginalsForeign' /\ HandledKnown'
    BY Constants, ContentsTold DEF Inv, TypeOK, OriginalsForeign, HandledKnown, Known, Proposals,
       StagePublish, Goes, Ends, Mine, Idle, Quiet
  <1> QED BY <1>1, <1>2, <1>3, <1>4, <1>5, TypeParts DEF Inv

(***************************************************************************)
(* Applying.                                                               *)
(***************************************************************************)
LEMMA InvApplyBegin ==
    ASSUME Inv, NEW c \in Clients, ApplyBegin(c)
    PROVE  Inv'
  <1>1. SharedTyped'
    BY Constants, ContentsTold, TypeParts DEF Inv, SharedTyped, RequestTypes, ApplyBegin
  <1>2. req' \in [Clients -> RequestTypes]'
    BY Constants, TypeParts DEF Inv, SharedTyped, RequestTypes, ApplyBegin, Goes, Ends, Idle, Pending
  <1>3. spent' \in Bounds
    BY TypeParts, FaultTyped DEF Inv, ApplyBegin
  <1>4. LockHeld'
    BY Constants, TypeParts DEF Inv, SharedTyped, RequestTypes, LockHeld, Holding,
       ApplyBegin, Goes, Ends, Idle
  <1>5. OriginalsForeign' /\ HandledKnown'
    BY Constants, ContentsTold DEF Inv, TypeOK, OriginalsForeign, HandledKnown, Known, Proposals,
       ApplyBegin, Goes, Ends, Mine, Idle, Quiet
  <1> QED BY <1>1, <1>2, <1>3, <1>4, <1>5, TypeParts DEF Inv

LEMMA InvApplyCheck ==
    ASSUME Inv, NEW c \in Clients, ApplyCheck(c)
    PROVE  Inv'
  <1>1. SharedTyped'
    BY Constants, ContentsTold, TypeParts DEF Inv, SharedTyped, RequestTypes, ApplyCheck
  <1>2. req' \in [Clients -> RequestTypes]'
    <2>1. req[c].p \in Proposals
      BY Constants, TypeParts DEF Inv, SharedTyped, RequestTypes, LockHeld, Proposals, ApplyCheck
    <2>2. Mine(c).files \in SUBSET Paths
      BY <2>1, TypeParts DEF Inv, SharedTyped, ProposalTypes, Mine
    <2>3. [req EXCEPT ![c].pc = "write", ![c].todo = Mine(c).files] \in [Clients -> RequestTypes]
      BY <2>2, TypeParts, RequestWith DEF Inv, Pending
    <2> QED BY <2>3 DEF ApplyCheck, RequestTypes
  <1>3. spent' \in Bounds
    BY TypeParts, FaultTyped DEF Inv, ApplyCheck
  <1>4. LockHeld'
    BY Constants, TypeParts DEF Inv, SharedTyped, RequestTypes, LockHeld, Holding,
       ApplyCheck, Goes, Ends, Idle
  <1>5. OriginalsForeign' /\ HandledKnown'
    BY Constants, ContentsTold DEF Inv, TypeOK, OriginalsForeign, HandledKnown, Known, Proposals,
       ApplyCheck, Goes, Ends, Mine, Idle, Quiet
  <1> QED BY <1>1, <1>2, <1>3, <1>4, <1>5, TypeParts DEF Inv

LEMMA InvApplyRefused ==
    ASSUME Inv, NEW c \in Clients, ApplyRefused(c)
    PROVE  Inv'
  <1>1. SharedTyped'
    BY Constants, ContentsTold, TypeParts DEF Inv, SharedTyped, RequestTypes, ApplyRefused
  <1>2. req' \in [Clients -> RequestTypes]'
    BY Constants, TypeParts DEF Inv, SharedTyped, RequestTypes, ApplyRefused, Goes, Ends, Idle, Pending
  <1>3. spent' \in Bounds
    BY TypeParts, FaultTyped DEF Inv, ApplyRefused
  <1>4. LockHeld'
    BY Constants, TypeParts DEF Inv, SharedTyped, RequestTypes, LockHeld, Holding,
       ApplyRefused, Goes, Ends, Idle
  <1>5. OriginalsForeign' /\ HandledKnown'
    BY Constants, ContentsTold DEF Inv, TypeOK, OriginalsForeign, HandledKnown, Known, Proposals,
       ApplyRefused, Goes, Ends, Mine, Idle, Quiet
  <1> QED BY <1>1, <1>2, <1>3, <1>4, <1>5, TypeParts DEF Inv

LEMMA InvWriteFile ==
    ASSUME Inv, NEW c \in Clients, NEW f \in Paths, WriteFile(c, f)
    PROVE  Inv'
  <1>1. SharedTyped'
    <2>1. req[c].p \in Proposals
      BY Constants, TypeParts DEF Inv, SharedTyped, RequestTypes, LockHeld, Proposals, WriteFile
    <2>2. tree' \in [Paths -> Contents]
      BY <2>1, TypeParts, TreeWith, ContentsTold DEF Inv, SharedTyped, WriteFile
    <2> QED BY <2>2, TypeParts DEF Inv, SharedTyped, WriteFile
  <1>2. req' \in [Clients -> RequestTypes]'
    <2>1. req[c].todo \ {f} \in SUBSET Paths
      BY TypeParts DEF Inv, RequestTypes
    <2>2. [req EXCEPT ![c].todo = @ \ {f}, ![c].written = @ \union {f}]
            = [req EXCEPT ![c].todo = req[c].todo \ {f}, ![c].written = @ \union {f}]
      BY TypeParts DEF Inv
    <2>3. req' \in [Clients -> RequestTypes]
      BY <2>1, <2>2, TypeParts, RequestWith DEF Inv, WriteFile, Pending
    <2> QED BY <2>3 DEF WriteFile, RequestTypes
  <1>3. spent' \in Bounds
    BY TypeParts, FaultTyped DEF Inv, WriteFile
  <1>4. LockHeld'
    BY Constants, TypeParts DEF Inv, SharedTyped, RequestTypes, LockHeld, Holding,
       WriteFile, Goes, Ends, Idle
  <1>5. OriginalsForeign' /\ HandledKnown'
    <2>1. req[c].p \in Known /\ req[c].p \in Proposals
      BY Constants, TypeParts DEF Inv, SharedTyped, RequestTypes, LockHeld, HandledKnown, Proposals, WriteFile
    <2>2. \A g \in Paths : tree'[g] = tree[g] \/ tree'[g] = Proposed(req[c].p)
      BY TypeParts DEF Inv, SharedTyped, WriteFile
    <2>3. \A g \in Paths, i \in Proposals : tree'[g] = Proposed(i) => i \in Known
      BY <2>1, <2>2, ContentsTold DEF Inv, OriginalsForeign
    <2>4. UNCHANGED Known /\ proposal' = proposal /\ patch' = patch /\ record' = record
      BY DEF WriteFile, Known
    <2>5. \A d \in Clients : req'[d].p = req[d].p
      BY TypeParts DEF Inv, RequestTypes, WriteFile
    <2> QED BY <2>3, <2>4, <2>5 DEF Inv, OriginalsForeign, HandledKnown
  <1> QED BY <1>1, <1>2, <1>3, <1>4, <1>5, TypeParts DEF Inv

LEMMA InvWriteFails ==
    ASSUME Inv, NEW c \in Clients, NEW f \in Paths, WriteFails(c, f)
    PROVE  Inv'
  <1>1. SharedTyped'
    <2>1. tree' \in [Paths -> Contents]
      BY TypeParts, TreeWith, ContentsTold DEF Inv, SharedTyped, WriteFails
    <2> QED BY <2>1, TypeParts DEF Inv, SharedTyped, WriteFails
  <1>2. req' \in [Clients -> RequestTypes]'
    <2>1. req[c].written \in SUBSET Paths
      BY TypeParts DEF Inv, RequestTypes
    <2>2. req' \in [Clients -> RequestTypes]
      BY <2>1, TypeParts, RequestWith DEF Inv, WriteFails, Pending
    <2> QED BY <2>2 DEF WriteFails, RequestTypes
  <1>3. spent' \in Bounds
    BY TypeParts, FaultTyped DEF Inv, WriteFails
  <1>4. LockHeld'
    BY Constants, TypeParts DEF Inv, SharedTyped, RequestTypes, LockHeld, Holding,
       WriteFails, Goes, Ends, Idle
  <1>5. OriginalsForeign' /\ HandledKnown'
    BY Constants, ContentsTold DEF Inv, TypeOK, OriginalsForeign, HandledKnown, Known, Proposals,
       WriteFails, Goes, Ends, Mine, Idle, Quiet
  <1> QED BY <1>1, <1>2, <1>3, <1>4, <1>5, TypeParts DEF Inv

\* A file that is put back is what it was, torn, or left alone.
LEMMA PutBackTyped ==
    ASSUME Inv, NEW c \in Clients, NEW f \in Paths, req[c].pc \in {"restore", "undoing"}, PutBack(c, f)
    PROVE  Inv'
  <1>1. req[c].p \in Proposals
    BY Constants, TypeParts DEF Inv, SharedTyped, RequestTypes, LockHeld, Proposals
  <1>2. Mine(c).original[f] \in Contents
    BY <1>1, TypeParts DEF Inv, SharedTyped, ProposalTypes, Mine
  <1>3. tree' \in {tree, [tree EXCEPT ![f] = Torn], [tree EXCEPT ![f] = Mine(c).original[f]]}
    BY DEF PutBack
  <1>4. SharedTyped'
    <2>1. tree' \in [Paths -> Contents]
      BY <1>2, <1>3, TypeParts, TreeWith, ContentsTold DEF Inv, SharedTyped
    <2> QED BY <2>1, TypeParts DEF Inv, SharedTyped, PutBack
  <1>5. req' \in [Clients -> RequestTypes]'
    <2>1. req[c].todo \ {f} \in SUBSET Paths
      BY TypeParts DEF Inv, RequestTypes
    <2>2. [req EXCEPT ![c].todo = @ \ {f}] = [req EXCEPT ![c].todo = req[c].todo \ {f}]
      BY TypeParts DEF Inv
    <2>3. "idle" \in Pending
      BY DEF Pending
    <2>4. req' \in [Clients -> RequestTypes]
      BY <2>1, <2>2, <2>3, TypeParts, RequestWith DEF Inv, PutBack
    <2> QED BY <2>4 DEF PutBack, RequestTypes
  <1>6. spent' \in Bounds
    BY TypeParts, FaultTyped DEF Inv, PutBack
  <1>7. LockHeld'
    BY TypeParts DEF Inv, RequestTypes, LockHeld, PutBack
  <1>8. OriginalsForeign' /\ HandledKnown'
    <2>1. \A g \in Paths : tree'[g] \in {tree[g], Torn} \/ (g = f /\ tree'[g] = Mine(c).original[f])
      BY <1>3, TypeParts DEF Inv, SharedTyped
    <2>2. UNCHANGED Known /\ proposal' = proposal /\ patch' = patch /\ record' = record
      BY DEF PutBack, Known
    <2>3. \A d \in Clients : req'[d].p = req[d].p
      BY TypeParts DEF Inv, RequestTypes, PutBack
    <2>4. \A g \in Paths, i \in Proposals : tree'[g] = Proposed(i) => i \in Known
      BY <1>1, <2>1, ContentsTold DEF Inv, OriginalsForeign, Mine
    <2> QED BY <2>2, <2>3, <2>4 DEF Inv, OriginalsForeign, HandledKnown
  <1> QED BY <1>4, <1>5, <1>6, <1>7, <1>8, TypeParts DEF Inv

LEMMA InvMarkApplied ==
    ASSUME Inv, NEW c \in Clients, MarkApplied(c)
    PROVE  Inv'
  <1>1. SharedTyped'
    BY TypeParts, ProposalWith DEF Inv, SharedTyped, MarkApplied
  <1>2. req' \in [Clients -> RequestTypes]'
    BY Constants, TypeParts DEF Inv, SharedTyped, RequestTypes, MarkApplied, Goes, Ends, Idle, Pending
  <1>3. spent' \in Bounds
    BY TypeParts, FaultTyped DEF Inv, MarkApplied
  <1>4. LockHeld'
    BY Constants, TypeParts DEF Inv, SharedTyped, RequestTypes, LockHeld, Holding,
       MarkApplied, Goes, Ends, Idle
  <1>5. OriginalsForeign' /\ HandledKnown'
    <2>1. \A i \in Proposals : proposal'[i].original = proposal[i].original
      BY TypeParts DEF Inv, SharedTyped, ProposalTypes, MarkApplied
    <2> QED BY <2>1, TypeParts DEF Inv, RequestTypes, OriginalsForeign, HandledKnown, Known,
       MarkApplied, Goes
  <1> QED BY <1>1, <1>2, <1>3, <1>4, <1>5, TypeParts DEF Inv

LEMMA InvSavePatchRecord ==
    ASSUME Inv, NEW c \in Clients, SavePatchRecord(c)
    PROVE  Inv'
  <1>1. SharedTyped'
    BY Constants, ContentsTold, TypeParts DEF Inv, SharedTyped, RequestTypes, SavePatchRecord
  <1>2. req' \in [Clients -> RequestTypes]'
    BY Constants, TypeParts DEF Inv, SharedTyped, RequestTypes, SavePatchRecord, Goes, Ends, Idle, Pending
  <1>3. spent' \in Bounds
    BY TypeParts, FaultTyped DEF Inv, SavePatchRecord
  <1>4. LockHeld'
    BY Constants, TypeParts DEF Inv, SharedTyped, RequestTypes, LockHeld, Holding,
       SavePatchRecord, Goes, Ends, Idle
  <1>5. OriginalsForeign' /\ HandledKnown'
    BY Constants, ContentsTold DEF Inv, TypeOK, OriginalsForeign, HandledKnown, Known, Proposals,
       SavePatchRecord, Goes, Ends, Mine, Idle, Quiet
  <1> QED BY <1>1, <1>2, <1>3, <1>4, <1>5, TypeParts DEF Inv

LEMMA InvApplyPublish ==
    ASSUME Inv, NEW c \in Clients, ApplyPublish(c)
    PROVE  Inv'
  <1>1. SharedTyped'
    BY Constants, ContentsTold, TypeParts DEF Inv, SharedTyped, RequestTypes, ApplyPublish
  <1>2. req' \in [Clients -> RequestTypes]'
    BY Constants, TypeParts DEF Inv, SharedTyped, RequestTypes, ApplyPublish, Goes, Ends, Idle, Pending
  <1>3. spent' \in Bounds
    BY TypeParts, FaultTyped DEF Inv, ApplyPublish
  <1>4. LockHeld'
    BY Constants, TypeParts DEF Inv, SharedTyped, RequestTypes, LockHeld, Holding,
       ApplyPublish, Goes, Ends, Idle
  <1>5. OriginalsForeign' /\ HandledKnown'
    BY Constants, ContentsTold DEF Inv, TypeOK, OriginalsForeign, HandledKnown, Known, Proposals,
       ApplyPublish, Goes, Ends, Mine, Idle, Quiet
  <1> QED BY <1>1, <1>2, <1>3, <1>4, <1>5, TypeParts DEF Inv

LEMMA InvApplyFailed ==
    ASSUME Inv, NEW c \in Clients, ApplyFailed(c)
    PROVE  Inv'
  <1>1. SharedTyped'
    BY Constants, ContentsTold, TypeParts DEF Inv, SharedTyped, RequestTypes, ApplyFailed
  <1>2. req' \in [Clients -> RequestTypes]'
    BY Constants, TypeParts DEF Inv, SharedTyped, RequestTypes, ApplyFailed, Goes, Ends, Idle, Pending
  <1>3. spent' \in Bounds
    BY TypeParts, FaultTyped DEF Inv, ApplyFailed
  <1>4. LockHeld'
    BY Constants, TypeParts DEF Inv, SharedTyped, RequestTypes, LockHeld, Holding,
       ApplyFailed, Goes, Ends, Idle
  <1>5. OriginalsForeign' /\ HandledKnown'
    BY Constants, ContentsTold DEF Inv, TypeOK, OriginalsForeign, HandledKnown, Known, Proposals,
       ApplyFailed, Goes, Ends, Mine, Idle, Quiet
  <1> QED BY <1>1, <1>2, <1>3, <1>4, <1>5, TypeParts DEF Inv

(***************************************************************************)
(* Rejecting.                                                              *)
(***************************************************************************)
LEMMA InvRejectBegin ==
    ASSUME Inv, NEW c \in Clients, RejectBegin(c)
    PROVE  Inv'
  <1>1. SharedTyped'
    BY Constants, ContentsTold, TypeParts DEF Inv, SharedTyped, RequestTypes, RejectBegin
  <1>2. req' \in [Clients -> RequestTypes]'
    BY Constants, TypeParts DEF Inv, SharedTyped, RequestTypes, RejectBegin, Goes, Ends, Idle, Pending
  <1>3. spent' \in Bounds
    BY TypeParts, FaultTyped DEF Inv, RejectBegin
  <1>4. LockHeld'
    BY Constants, TypeParts DEF Inv, SharedTyped, RequestTypes, LockHeld, Holding,
       RejectBegin, Goes, Ends, Idle
  <1>5. OriginalsForeign' /\ HandledKnown'
    BY Constants, ContentsTold DEF Inv, TypeOK, OriginalsForeign, HandledKnown, Known, Proposals,
       RejectBegin, Goes, Ends, Mine, Idle, Quiet
  <1> QED BY <1>1, <1>2, <1>3, <1>4, <1>5, TypeParts DEF Inv

LEMMA InvUndoBegin ==
    ASSUME Inv, NEW c \in Clients, UndoBegin(c)
    PROVE  Inv'
  <1>1. SharedTyped'
    BY Constants, ContentsTold, TypeParts DEF Inv, SharedTyped, RequestTypes, UndoBegin
  <1>2. req' \in [Clients -> RequestTypes]'
    <2>1. req[c].p \in Proposals
      BY Constants, TypeParts DEF Inv, SharedTyped, RequestTypes, LockHeld, Proposals, UndoBegin
    <2>2. Mine(c).files \in SUBSET Paths
      BY <2>1, TypeParts DEF Inv, SharedTyped, ProposalTypes, Mine
    <2>3. [req EXCEPT ![c].pc = "undoing", ![c].todo = Mine(c).files] \in [Clients -> RequestTypes]
      BY <2>2, TypeParts, RequestWith DEF Inv, Pending
    <2> QED BY <2>3 DEF UndoBegin, RequestTypes
  <1>3. spent' \in Bounds
    BY TypeParts, FaultTyped DEF Inv, UndoBegin
  <1>4. LockHeld'
    BY Constants, TypeParts DEF Inv, SharedTyped, RequestTypes, LockHeld, Holding,
       UndoBegin, Goes, Ends, Idle
  <1>5. OriginalsForeign' /\ HandledKnown'
    BY Constants, ContentsTold DEF Inv, TypeOK, OriginalsForeign, HandledKnown, Known, Proposals,
       UndoBegin, Goes, Ends, Mine, Idle, Quiet
  <1> QED BY <1>1, <1>2, <1>3, <1>4, <1>5, TypeParts DEF Inv

LEMMA InvUndoRefused ==
    ASSUME Inv, NEW c \in Clients, UndoRefused(c)
    PROVE  Inv'
  <1>1. SharedTyped'
    BY Constants, ContentsTold, TypeParts DEF Inv, SharedTyped, RequestTypes, UndoRefused
  <1>2. req' \in [Clients -> RequestTypes]'
    BY Constants, TypeParts DEF Inv, SharedTyped, RequestTypes, UndoRefused, Goes, Ends, Idle, Pending
  <1>3. spent' \in Bounds
    BY TypeParts, FaultTyped DEF Inv, UndoRefused
  <1>4. LockHeld'
    BY Constants, TypeParts DEF Inv, SharedTyped, RequestTypes, LockHeld, Holding,
       UndoRefused, Goes, Ends, Idle
  <1>5. OriginalsForeign' /\ HandledKnown'
    BY Constants, ContentsTold DEF Inv, TypeOK, OriginalsForeign, HandledKnown, Known, Proposals,
       UndoRefused, Goes, Ends, Mine, Idle, Quiet
  <1> QED BY <1>1, <1>2, <1>3, <1>4, <1>5, TypeParts DEF Inv

LEMMA InvUndoEnd ==
    ASSUME Inv, NEW c \in Clients, UndoEnd(c)
    PROVE  Inv'
  <1>1. SharedTyped'
    BY Constants, ContentsTold, TypeParts DEF Inv, SharedTyped, RequestTypes, UndoEnd
  <1>2. req' \in [Clients -> RequestTypes]'
    BY Constants, TypeParts DEF Inv, SharedTyped, RequestTypes, UndoEnd, Goes, Ends, Idle, Pending
  <1>3. spent' \in Bounds
    BY TypeParts, FaultTyped DEF Inv, UndoEnd
  <1>4. LockHeld'
    BY Constants, TypeParts DEF Inv, SharedTyped, RequestTypes, LockHeld, Holding,
       UndoEnd, Goes, Ends, Idle
  <1>5. OriginalsForeign' /\ HandledKnown'
    BY Constants, ContentsTold DEF Inv, TypeOK, OriginalsForeign, HandledKnown, Known, Proposals,
       UndoEnd, Goes, Ends, Mine, Idle, Quiet
  <1> QED BY <1>1, <1>2, <1>3, <1>4, <1>5, TypeParts DEF Inv

LEMMA InvDropPatchRecord ==
    ASSUME Inv, NEW c \in Clients, DropPatchRecord(c)
    PROVE  Inv'
  <1>1. SharedTyped'
    BY Constants, ContentsTold, TypeParts DEF Inv, SharedTyped, RequestTypes, DropPatchRecord
  <1>2. req' \in [Clients -> RequestTypes]'
    BY Constants, TypeParts DEF Inv, SharedTyped, RequestTypes, DropPatchRecord, Goes, Ends, Idle, Pending
  <1>3. spent' \in Bounds
    BY TypeParts, FaultTyped DEF Inv, DropPatchRecord
  <1>4. LockHeld'
    BY Constants, TypeParts DEF Inv, SharedTyped, RequestTypes, LockHeld, Holding,
       DropPatchRecord, Goes, Ends, Idle
  <1>5. OriginalsForeign' /\ HandledKnown'
    BY Constants, ContentsTold DEF Inv, TypeOK, OriginalsForeign, HandledKnown, Known, Proposals,
       DropPatchRecord, Goes, Ends, Mine, Idle, Quiet
  <1> QED BY <1>1, <1>2, <1>3, <1>4, <1>5, TypeParts DEF Inv

LEMMA InvForget ==
    ASSUME Inv, NEW c \in Clients, Forget(c)
    PROVE  Inv'
  <1>1. SharedTyped'
    BY Constants, ContentsTold, TypeParts DEF Inv, SharedTyped, RequestTypes, Forget
  <1>2. req' \in [Clients -> RequestTypes]'
    BY Constants, TypeParts DEF Inv, SharedTyped, RequestTypes, Forget, Goes, Ends, Idle, Pending
  <1>3. spent' \in Bounds
    BY TypeParts, FaultTyped DEF Inv, Forget
  <1>4. LockHeld'
    BY Constants, TypeParts DEF Inv, SharedTyped, RequestTypes, LockHeld, Holding,
       Forget, Goes, Ends, Idle
  <1>5. OriginalsForeign' /\ HandledKnown'
    BY Constants, ContentsTold DEF Inv, TypeOK, OriginalsForeign, HandledKnown, Known, Proposals,
       Forget, Goes, Ends, Mine, Idle, Quiet
  <1> QED BY <1>1, <1>2, <1>3, <1>4, <1>5, TypeParts DEF Inv

(***************************************************************************)
(* The world around the server.                                            *)
(***************************************************************************)
LEMMA InvEdit ==
    ASSUME Inv, NEW f \in Paths, Edit(f)
    PROVE  Inv'
  <1>1. SharedTyped'
    <2>1. spent.edits + 1 \in 1 .. MaxEdits
      BY Constants, TypeParts DEF Inv, Bounds, Edit
    <2>2. tree' \in [Paths -> Contents]
      BY <2>1, TypeParts, TreeWith, ContentsTold DEF Inv, SharedTyped, Edit
    <2> QED BY <2>2, TypeParts DEF Inv, SharedTyped, Edit
  <1>2. req' \in [Clients -> RequestTypes]'
    BY Constants, TypeParts DEF Inv, SharedTyped, RequestTypes, Edit, Goes, Ends, Idle, Pending
  <1>3. spent' \in Bounds
    BY Constants, TypeParts DEF Inv, Edit, Bounds
  <1>4. LockHeld'
    BY Constants, TypeParts DEF Inv, SharedTyped, RequestTypes, LockHeld, Holding,
       Edit, Goes, Ends, Idle
  <1>5. OriginalsForeign' /\ HandledKnown'
    <2>1. spent.edits + 1 \in 1 .. MaxEdits
      BY Constants, TypeParts DEF Inv, Bounds, Edit
    <2>2. \A g \in Paths : tree'[g] = tree[g] \/ tree'[g] = Edited(spent.edits + 1)
      BY TypeParts DEF Inv, SharedTyped, Edit
    <2> QED BY <2>1, <2>2, ContentsTold DEF Inv, OriginalsForeign, HandledKnown, Known, Edit
  <1> QED BY <1>1, <1>2, <1>3, <1>4, <1>5, TypeParts DEF Inv

LEMMA InvRestart ==
    ASSUME Inv, Restart
    PROVE  Inv'
  <1>1. SharedTyped'
    <2>1. tree' = tree \/ \E f \in Paths : tree' = [tree EXCEPT ![f] = Torn]
      BY TypeParts DEF Inv, RequestTypes, Restart
    <2>2. tree' \in [Paths -> Contents]
      BY <2>1, TypeParts, TreeWith, ContentsTold DEF Inv, SharedTyped
    <2>3. record' \in 0 .. staged
      BY Constants, TypeParts DEF Inv, SharedTyped, Restart
    <2> QED BY <2>2, <2>3, TypeParts, GenWith DEF Inv, SharedTyped, Restart
  <1>2. req' \in [Clients -> RequestTypes]'
    BY Constants, TypeParts DEF Inv, SharedTyped, RequestTypes, Restart, Goes, Ends, Idle, Pending
  <1>3. spent' \in Bounds
    BY Constants, TypeParts DEF Inv, Restart, Bounds
  <1>4. LockHeld'
    BY Constants, TypeParts DEF Inv, SharedTyped, RequestTypes, LockHeld, Holding,
       Restart, Goes, Ends, Idle
  <1>5. OriginalsForeign' /\ HandledKnown'
    <2>1. tree' = tree \/ \E f \in Paths : tree' = [tree EXCEPT ![f] = Torn]
      BY TypeParts DEF Inv, RequestTypes, Restart
    <2>2. \A g \in Paths : tree'[g] \in {tree[g], Torn}
      BY <2>1, TypeParts DEF Inv, SharedTyped
    <2>3. Known \subseteq Known' /\ record' \in {record, 0} /\ patch' = record'
      BY Constants, TypeParts DEF Inv, SharedTyped, Restart, Known, Quiet
    <2>4. \A c \in Clients : req'[c].p = 0
      BY DEF Restart, Idle
    <2>5. \A g \in Paths, i \in Proposals : tree'[g] = Proposed(i) => i \in Known'
      BY <2>2, <2>3, ContentsTold DEF Inv, OriginalsForeign
    <2>6. proposal' = proposal
      BY DEF Restart
    <2> QED BY <2>3, <2>4, <2>5, <2>6 DEF Inv, OriginalsForeign, HandledKnown
  <1> QED BY <1>1, <1>2, <1>3, <1>4, <1>5, TypeParts DEF Inv

LEMMA InvNext == Inv /\ [Next]_vars => Inv'
  <1> SUFFICES ASSUME Inv, [Next]_vars PROVE Inv'
    OBVIOUS
  <1>1. CASE Generation
    BY <1>1, InvReply, InvReadFile, InvStageFails, InvDropOldRecord, InvStagePublish DEF Generation
  <1>2. ASSUME NEW c \in Clients, Request(c) PROVE Inv'
    <2>1. CASE \E f \in Paths : \/ WriteFile(c, f) \/ WriteFails(c, f)
                                \/ RestoreFile(c, f) \/ UndoFile(c, f)
      BY <2>1, InvWriteFile, InvWriteFails, PutBackTyped DEF RestoreFile, UndoFile
    <2>2. CASE \/ ApplyBegin(c) \/ ApplyCheck(c) \/ ApplyRefused(c) \/ MarkApplied(c)
               \/ SavePatchRecord(c) \/ ApplyPublish(c) \/ ApplyFailed(c)
      BY <2>2, InvApplyBegin, InvApplyCheck, InvApplyRefused, InvMarkApplied,
         InvSavePatchRecord, InvApplyPublish, InvApplyFailed
    <2>3. CASE \/ RejectBegin(c) \/ UndoBegin(c) \/ UndoRefused(c) \/ UndoEnd(c)
               \/ DropPatchRecord(c) \/ Forget(c)
      BY <2>3, InvRejectBegin, InvUndoBegin, InvUndoRefused, InvUndoEnd, InvDropPatchRecord,
         InvForget
    <2> QED BY <1>2, <2>1, <2>2, <2>3 DEF Request
  <1>3. ASSUME NEW f \in Paths, Edit(f) PROVE Inv'
    BY <1>3, InvEdit
  <1>4. CASE Restart
    BY <1>4, InvRestart
  <1>5. CASE UNCHANGED vars
    BY <1>5 DEF vars, Inv, TypeOK, OriginalsForeign, HandledKnown, Known
  <1> QED BY <1>1, <1>2, <1>3, <1>4, <1>5 DEF Next

(***************************************************************************)
(* The theorems.                                                           *)
(***************************************************************************)

\* Every state is typed; whoever writes files holds a.mu, alone, and works on a
\* proposal that exists (aiworkspace.go 740-751 and 897-903).
THEOREM TypeCorrect == Spec => []TypeOK
  <1>1. Inv => TypeOK
    BY DEF Inv
  <1> QED BY <1>1, InvInit, InvNext, PTL DEF Spec

\* Who comes to hold a.mu in order to write files has checked them.
LEMMA WriterChecked ==
    ASSUME Inv, Next, NEW c \in Clients, mu # c, mu' = c, req'[c].pc = "write"
    PROVE  ApplyCheck(c)
  <1>1. ASSUME NEW d \in Clients, Request(d), mu' # mu, mu' # "free"
        PROVE  ApplyCheck(d) \/ UndoBegin(d)
    BY <1>1 DEF Request, ApplyBegin, ApplyCheck, ApplyRefused, MarkApplied, SavePatchRecord,
       ApplyPublish, ApplyFailed, RejectBegin, UndoBegin, UndoRefused, UndoEnd, DropPatchRecord,
       Forget, WriteFile, WriteFails, RestoreFile, UndoFile, PutBack
  <1>2. ~Generation /\ ~Restart /\ \A f \in Paths : ~Edit(f)
    BY Constants DEF Generation, Reply, ReadFile, StageFails, DropOldRecord, StagePublish, Edit,
       Restart
  <1>3. PICK d \in Clients : ApplyCheck(d) \/ UndoBegin(d)
    BY <1>1, <1>2, Constants DEF Next
  <1>4. d = c
    BY <1>3 DEF ApplyCheck, UndoBegin
  <1>5. ~UndoBegin(c)
    BY TypeParts DEF Inv, RequestTypes, UndoBegin
  <1> QED BY <1>3, <1>4, <1>5

\* No proposal is written over itself, by however many requests that read it as
\* not applied (aiworkspace.go 747-765): its files are what they were, and what
\* they were was not written by it.
THEOREM WrittenOnce == Spec => NeverWrittenTwice
  <1> DEFINE Once == \A c \in Clients : (mu # c /\ mu' = c /\ req'[c].pc = "write")
                                          => ~InTree(req[c].p)
  <1>1. Inv /\ [Next]_vars => [Once]_vars
    <2> SUFFICES ASSUME Inv, Next, NEW c \in Clients, mu # c, mu' = c, req'[c].pc = "write"
                 PROVE  ~InTree(req[c].p)
      OBVIOUS
    <2>1. ApplyCheck(c)
      BY WriterChecked
    <2>2. req[c].p \in Proposals
      BY <2>1, Constants, TypeParts DEF Inv, SharedTyped, RequestTypes, LockHeld, Proposals,
         ApplyCheck
    <2>3. \A f \in proposal[req[c].p].files :
             f \in Paths /\ tree[f] = proposal[req[c].p].original[f]
      BY <2>1, <2>2, TypeParts DEF Inv, SharedTyped, ProposalTypes, ApplyCheck, Unchanged, Mine
    <2> QED BY <2>2, <2>3 DEF Inv, OriginalsForeign, InTree
  <1> QED BY <1>1, InvInit, InvNext, PTL DEF Spec, NeverWrittenTwice

---------------------------------------------------------------------------
(***************************************************************************)
(* What one request at a time keeps, when no write breaks off and nobody   *)
(* kills the server.  Each file in the tree, and each file a proposal      *)
(* would be put back to, tells who wrote it; older proposals are below     *)
(* newer ones, and are only ever put back to, never written again.         *)
(***************************************************************************)

\* One browser with one request under way; writing and putting back a file
\* succeed or do not begin; the server is not killed in between.
OneCalmClient ==
    /\ \A c, d \in Clients : c = d
    /\ Faulty \cap {"write", "undo"} = {}
    /\ MaxCrashes = 0

\* Written or being written: what its files would be put back to matters.
Engaged(i) ==
    \/ proposal[i].applied
    \/ \E c \in Clients : req[c].p = i /\ req[c].pc \in {"write", "restore"}
\* In the tree, or what an engaged proposal would bring back.
Alive(j) ==
    \/ InTree(j)
    \/ \E p \in Proposals : Engaged(p) /\ \E f \in proposal[p].files : proposal[p].original[f] = Proposed(j)

\* Only its own files hold a proposal's contents, and only later proposals
\* would bring them back.
Own == \A f \in Paths, j \in Proposals :
   /\ tree[f] = Proposed(j) => f \in proposal[j].files
   /\ \A i \in Proposals : proposal[i].original[f] = Proposed(j) => f \in proposal[j].files /\ j < i
AppliedKnown == \A i \in Proposals : proposal[i].applied => i \in Known
\* Nothing applied or in the tree is newer than what the screen, the requests
\* and the last reply name.
Latest ==
    /\ newest \in Known \cup {0} /\ patch <= newest
    /\ \A c \in Clients : req[c].p # 0 => patch >= req[c].p
    /\ \A i \in Proposals : (proposal[i].applied \/ InTree(i)) =>
          /\ newest >= i
          /\ patch = 0 \/ patch >= i
          /\ \A c \in Clients : req[c].p = 0 \/ req[c].p >= i
NoTorn == \A f \in Paths : tree[f] # Torn /\ \A i \in Proposals : proposal[i].original[f] # Torn
\* Edits to come are in no file and in no original yet.
Fresh == \A f \in Paths, k \in 1..MaxEdits : k > spent.edits =>
     tree[f] # Edited(k) /\ \A i \in Proposals : proposal[i].original[f] # Edited(k)
\* A proposal above another in the same file goes back to something else than
\* that other one does.
Apart == \A p, j \in Proposals : Engaged(p) /\ Alive(j) /\ j < p =>
    \A g \in proposal[p].files \cap proposal[j].files : proposal[p].original[g] # proposal[j].original[g]
\* Being written or put back, under a.mu.
Halfway(j) == \E c \in Clients : req[c].p = j /\ req[c].pc \in {"write", "restore", "undoing"}
Whole == \A j \in Proposals : Alive(j) /\ ~Halfway(j) => \A g \in proposal[j].files : tree[g] # proposal[j].original[g]
\* What each step of a request has established.
Working == \A c \in Clients :
    /\ req[c].pc = "idle" => req[c].p = 0
    /\ req[c].pc \in {"apply", "write", "restore"} => ~Mine(c).applied
    /\ req[c].pc \in {"undo", "undoing", "save", "publish"} => Mine(c).applied
    /\ req[c].pc \in {"apply", "write"} => req[c].written \subseteq Mine(c).files
    /\ req[c].pc \in {"write", "restore", "undoing"} => req[c].todo \subseteq Mine(c).files
    /\ req[c].pc = "write" => \A g \in Mine(c).files :
          \/ g \in req[c].todo /\ tree[g] # Proposed(req[c].p)
          \/ g \in req[c].written /\ tree[g] # Mine(c).original[g]
    /\ req[c].pc \in {"restore", "undoing"} => \A g \in Mine(c).files :
          g \in req[c].todo \/ tree[g] # Proposed(req[c].p)
    /\ req[c].pc \in {"drop", "forget"} => ~(Mine(c).applied /\ InTree(req[c].p))
\* An empty screen leaves nothing applied to undo.
Shown == patch = 0 /\ newest # 0 => ~(proposal[newest].applied /\ InTree(newest))

Strong == /\ Inv /\ Own /\ AppliedKnown /\ Latest /\ NoTorn /\ Fresh
          /\ Apart /\ Whole /\ Working /\ Shown

LEMMA KnownTyped ==
    ASSUME Inv
    PROVE  /\ Known \subseteq Proposals /\ Proposals \subseteq Nat
           /\ staged \in Nat /\ staged <= MaxProposals /\ spent.edits \in Nat
           /\ tree \in [Paths -> Contents] /\ proposal \in [Proposals -> ProposalTypes]
           /\ req \in [Clients -> RequestTypes] /\ gen \in GenTypes
           /\ patch \in Nat /\ newest \in Nat
           /\ \A c \in Clients : req[c].p \in Nat /\ (req[c].p # 0 => req[c].p \in Known)
  <1>1. SharedTyped /\ req \in [Clients -> RequestTypes] /\ spent \in Bounds
    BY TypeParts DEF Inv
  <1>2. staged \in Nat /\ staged <= MaxProposals /\ MaxProposals \in Nat
    BY <1>1, Constants DEF SharedTyped
  <1>3. Known \subseteq Proposals /\ Proposals \subseteq Nat
    BY <1>2 DEF Known, Proposals
  <1>4. patch \in Nat /\ newest \in Nat /\ spent.edits \in Nat
    BY <1>1, <1>2, Constants DEF SharedTyped, Bounds
  <1>5. \A c \in Clients : req[c].p \in Nat /\ (req[c].p # 0 => req[c].p \in Known)
    <2>1. SUFFICES ASSUME NEW c \in Clients
                   PROVE  req[c].p \in Nat /\ (req[c].p # 0 => req[c].p \in Known)
      OBVIOUS
    <2>2. req[c].p \in Known \union {0}
      BY DEF Inv, HandledKnown
    <2>3. CASE req[c].p = 0
      BY <2>3
    <2>4. CASE req[c].p \in Known
      BY <1>3, <2>4
    <2> QED BY <2>2, <2>3, <2>4
  <1> QED BY <1>1, <1>2, <1>3, <1>4, <1>5 DEF SharedTyped

LEMMA EditsTold ==
    \A k \in 1 .. MaxEdits :
       /\ Edited(k) \notin {Absent, Original, Torn}
       /\ \A i \in Proposals : Edited(k) # Proposed(i)
       /\ \A l \in 1 .. MaxEdits : Edited(k) = Edited(l) => k = l
  BY Constants DEF Absent, Original, Torn, Proposals, Proposed, Edited

\* Only proposals that are known are in the tree, applied or put back to.
LEMMA AliveKnown ==
    ASSUME Strong, NEW i \in Proposals
    PROVE  /\ Engaged(i) => i \in Known
           /\ Alive(i) => i \in Known
           /\ InTree(i) => i \in Known
  <1>0. Inv /\ AppliedKnown /\ OriginalsForeign
    BY DEF Strong, Inv
  <1>1. Engaged(i) => i \in Known
    <2>1. ASSUME NEW c \in Clients, req[c].p = i PROVE i \in Known
      <3>1. i # 0
        BY DEF Proposals
      <3> QED BY <1>0, <2>1, <3>1, KnownTyped
    <2> QED BY <1>0, <2>1 DEF Engaged, AppliedKnown
  <1>2. InTree(i) => i \in Known
    <2>1. proposal[i].files \subseteq Paths
      BY <1>0, KnownTyped DEF ProposalTypes
    <2> QED BY <1>0, <2>1 DEF InTree, OriginalsForeign
  <1>3. Alive(i) => i \in Known
    <2>1. \A p \in Proposals : proposal[p].files \subseteq Paths
      BY <1>0, KnownTyped DEF ProposalTypes
    <2> QED BY <1>0, <1>2, <2>1 DEF Alive, OriginalsForeign
  <1> QED BY <1>1, <1>2, <1>3

\* A request works on nothing older than what is engaged, and on something
\* newer than what is only left to be put back.
LEMMA NothingNewer ==
    ASSUME Strong, NEW c \in Clients, \A d \in Clients : d = c, NEW i \in Proposals
    PROVE  /\ Engaged(i) => req[c].p = 0 \/ req[c].p >= i
           /\ Alive(i) => req[c].p = 0 \/ req[c].p >= i
           /\ Alive(i) /\ req[c].p = i => InTree(i)
  <1>1. Inv /\ Latest /\ Own
    BY DEF Strong
  <1>2. req[c].p \in Nat /\ Proposals \subseteq Nat
    BY <1>1, KnownTyped
  <1>3. \A p \in Proposals : Engaged(p) => req[c].p = 0 \/ req[c].p >= p
    BY <1>1, <1>2 DEF Engaged, Latest
  <1>4. ASSUME NEW p \in Proposals, Engaged(p), NEW f \in proposal[p].files,
               proposal[p].original[f] = Proposed(i)
        PROVE  req[c].p = 0 \/ req[c].p > i
    <2>1. f \in Paths
      BY <1>1, KnownTyped DEF ProposalTypes
    <2>2. i < p
      BY <1>1, <1>4, <2>1 DEF Own
    <2> QED BY <1>2, <1>3, <1>4, <2>2
  <1>5. InTree(i) => req[c].p = 0 \/ req[c].p >= i
    BY <1>1 DEF Latest
  <1>6. i # 0
    BY DEF Proposals
  <1> QED BY <1>2, <1>3, <1>4, <1>5, <1>6 DEF Alive

\* A step that changes neither the tree nor a proposal, engages none and lets
\* go of none that is in the tree in part.
LEMMA FrozenKeeps ==
    ASSUME Strong, Inv', tree' = tree, proposal' = proposal, Known \subseteq Known',
           spent'.edits = spent.edits,
           \A i \in Proposals : Engaged(i)' => Engaged(i),
           \A i \in Proposals : Halfway(i) /\ Alive(i) /\ ~Halfway(i)' =>
              \A g \in proposal[i].files : tree[g] # proposal[i].original[g]
    PROVE  Own' /\ AppliedKnown' /\ NoTorn' /\ Fresh' /\ Apart' /\ Whole'
  <1>1. Own' /\ NoTorn' /\ Fresh'
    BY DEF Strong, Own, NoTorn, Fresh
  <1>2. AppliedKnown'
    BY DEF Strong, AppliedKnown
  <1>3. \A i \in Proposals : Alive(i)' => Alive(i)
    BY DEF Alive, InTree
  <1>4. Apart'
    BY <1>3 DEF Strong, Apart
  <1>5. Whole'
    BY <1>3 DEF Strong, Whole
  <1> QED BY <1>1, <1>2, <1>4, <1>5

\* What is left to show of a step of the only client that leaves the tree and
\* the proposals as they are.
Rest(c) ==
    /\ req[c].p # 0 => patch >= req[c].p
    /\ \A i \in Proposals : (proposal[i].applied \/ InTree(i)) =>
          /\ patch = 0 \/ patch >= i
          /\ req[c].p = 0 \/ req[c].p >= i
    /\ req[c].pc = "idle" => req[c].p = 0
    /\ req[c].pc \in {"apply", "write", "restore"} => ~Mine(c).applied
    /\ req[c].pc \in {"undo", "undoing", "save", "publish"} => Mine(c).applied
    /\ req[c].pc \in {"apply", "write"} => req[c].written \subseteq Mine(c).files
    /\ req[c].pc \in {"write", "restore", "undoing"} => req[c].todo \subseteq Mine(c).files
    /\ req[c].pc = "write" => \A g \in Mine(c).files :
          \/ g \in req[c].todo /\ tree[g] # Proposed(req[c].p)
          \/ g \in req[c].written /\ tree[g] # Mine(c).original[g]
    /\ req[c].pc \in {"restore", "undoing"} => \A g \in Mine(c).files :
          g \in req[c].todo \/ tree[g] # Proposed(req[c].p)
    /\ req[c].pc \in {"drop", "forget"} => ~(Mine(c).applied /\ InTree(req[c].p))

LEMMA RestHolds ==
    ASSUME Strong, NEW c \in Clients
    PROVE  Rest(c)
  BY DEF Strong, Latest, Working, Rest

LEMMA RestKeeps ==
    ASSUME Strong, NEW c \in Clients, \A d \in Clients : d = c, Inv',
           tree' = tree, proposal' = proposal, newest' = newest, gen' = gen, staged' = staged,
           spent'.edits = spent.edits, patch' <= newest',
           \A i \in Proposals : Engaged(i)' => Engaged(i),
           \A i \in Proposals : Halfway(i) /\ Alive(i) /\ ~Halfway(i)' =>
              \A g \in proposal[i].files : tree[g] # proposal[i].original[g],
           Rest(c)', Shown'
    PROVE  Strong'
  <1>1. Known' = Known
    BY DEF Known
  <1>2. Own' /\ AppliedKnown' /\ NoTorn' /\ Fresh' /\ Apart' /\ Whole'
    BY <1>1, FrozenKeeps
  <1>3. Working'
    BY DEF Rest, Working
  <1>4. \A i \in Proposals : InTree(i)' <=> InTree(i)
    BY DEF InTree
  <1>5. Latest'
    BY <1>1, <1>4 DEF Rest, Latest, Strong
  <1> QED BY <1>2, <1>3, <1>5 DEF Strong

LEMMA StrongApplyBegin ==
    ASSUME Strong, Inv', NEW c \in Clients, \A d \in Clients : d = c, ApplyBegin(c)
    PROVE  Strong'
  <1>1. /\ tree' = tree /\ proposal' = proposal /\ newest' = newest /\ gen' = gen
        /\ staged' = staged /\ spent' = spent /\ patch' = patch
        /\ req[c].pc = "idle" /\ patch # 0 /\ ~proposal[patch].applied
    BY DEF ApplyBegin
  <1>2. Inv /\ Rest(c) /\ Latest /\ Shown
    BY RestHolds DEF Strong
  <1>3. req'[c].pc = "apply" /\ req'[c].p = patch /\ req'[c].written = {}
    BY <1>2, KnownTyped DEF ApplyBegin, Idle
  <1>4. patch \in Nat /\ newest \in Nat
    BY <1>2, KnownTyped
  <1>5. \A i \in Proposals : Engaged(i)' => Engaged(i)
    BY <1>1, <1>3 DEF Engaged
  <1>6. \A i \in Proposals : ~Halfway(i)
    BY <1>1 DEF Halfway
  <1>7. Rest(c)'
    BY <1>1, <1>2, <1>3, <1>4 DEF Rest, Mine, InTree, Latest
  <1>8. Shown'
    BY <1>1, <1>2 DEF Shown, InTree
  <1>9. patch' <= newest'
    BY <1>1, <1>2 DEF Latest
  <1> QED BY <1>1, <1>5, <1>6, <1>7, <1>8, <1>9, RestKeeps

LEMMA StrongApplyCheck ==
    ASSUME Strong, Inv', NEW c \in Clients, \A d \in Clients : d = c, ApplyCheck(c)
    PROVE  Strong'
  <1>1. /\ tree' = tree /\ proposal' = proposal /\ newest' = newest /\ gen' = gen
        /\ staged' = staged /\ spent' = spent /\ patch' = patch
        /\ req[c].pc = "apply" /\ Unchanged(Mine(c))
    BY DEF ApplyCheck
  <1>2. Inv /\ Rest(c) /\ Latest /\ Shown
    BY RestHolds DEF Strong
  <1> DEFINE p == req[c].p
  <1>3. /\ req'[c].pc = "write" /\ req'[c].p = p /\ req'[c].todo = Mine(c).files
        /\ req'[c].written = req[c].written
    BY <1>2, KnownTyped DEF ApplyCheck, RequestTypes
  <1>4. p \in Known /\ p \in Proposals /\ p # 0 /\ p \in Nat /\ Proposals \subseteq Nat
    <2>1. p # 0
      BY <1>1, <1>2 DEF Inv, TypeOK
    <2> QED BY <1>2, <2>1, KnownTyped
  <1>5. \A f \in proposal[p].files : tree[f] = proposal[p].original[f] /\ f \in Paths
    BY <1>1, <1>2, <1>4, KnownTyped DEF Unchanged, Mine, ProposalTypes
  <1>6. ~InTree(p)
    BY <1>2, <1>4, <1>5 DEF InTree, Inv, OriginalsForeign
  <1>7. \A i \in Proposals : Engaged(i)' => Engaged(i) \/ i = p
    BY <1>1, <1>3 DEF Engaged
  <1>8. ~Engaged(p)
    BY <1>1, <1>2 DEF Engaged, Rest, Mine
  <1>9. \A i \in Proposals : ~Halfway(i)
    BY <1>1 DEF Halfway
  <1>10. \A i \in Proposals : InTree(i)' <=> InTree(i)
    BY <1>1 DEF InTree
  <1>11. ASSUME NEW i \in Proposals, Alive(i)'
         PROVE  Alive(i) /\ i # p
    <2>1. CASE InTree(i)'
      BY <1>6, <1>10, <2>1 DEF Alive
    <2>2. ASSUME NEW q \in Proposals, Engaged(q)', NEW f \in proposal[q].files,
                 proposal[q].original[f] = Proposed(i)
          PROVE  Alive(i) /\ i # p
      <3>1. f \in Paths /\ i < q
        BY <1>2, <2>2, KnownTyped DEF ProposalTypes, Strong, Own
      <3>2. CASE q = p
        <4>1. tree[f] = Proposed(i)
          BY <1>5, <2>2, <3>2
        <4>2. f \in proposal[i].files
          BY <3>1, <4>1 DEF Strong, Own
        <4>3. InTree(i)
          BY <4>1, <4>2 DEF InTree
        <4> QED BY <1>6, <4>3 DEF Alive
      <3>3. CASE q # p
        <4>1. Engaged(q)
          BY <1>7, <2>2, <3>3
        <4>2. p >= q
          BY <1>4, <4>1, NothingNewer
        <4> QED BY <1>4, <2>2, <3>1, <4>1, <4>2 DEF Alive
      <3> QED BY <3>2, <3>3
    <2>3. Alive(i)' => \/ InTree(i)'
                       \/ \E q \in Proposals : Engaged(q)' /\
                            \E f \in proposal[q].files : proposal[q].original[f] = Proposed(i)
      BY <1>1 DEF Alive
    <2> QED BY <1>11, <2>1, <2>2, <2>3
  <1>12. Own' /\ AppliedKnown' /\ NoTorn' /\ Fresh' /\ Known' = Known
    BY <1>1 DEF Strong, Own, AppliedKnown, NoTorn, Fresh, Known
  <1>13. Whole'
    <2>1. ASSUME NEW j \in Proposals, Alive(j)', NEW g \in proposal[j].files
          PROVE  tree[g] # proposal[j].original[g]
      BY <1>9, <1>11, <2>1 DEF Strong, Whole
    <2> QED BY <1>1, <2>1 DEF Whole
  <1>14. Apart'
    <2>1. ASSUME NEW q \in Proposals, NEW j \in Proposals, Engaged(q)', Alive(j)', j < q,
                 NEW g \in proposal[q].files \cap proposal[j].files
          PROVE  proposal[q].original[g] # proposal[j].original[g]
      <3>1. CASE q = p
        <4>1. tree[g] # proposal[j].original[g]
          BY <1>9, <1>11, <2>1 DEF Strong, Whole
        <4> QED BY <1>5, <3>1, <4>1
      <3>2. CASE q # p
        BY <1>7, <1>11, <2>1, <3>2 DEF Strong, Apart
      <3> QED BY <3>1, <3>2
    <2> QED BY <1>1, <2>1 DEF Apart
  <1>15. Rest(c)'
    <2>1. \A g \in proposal[p].files : tree[g] # Proposed(p)
      BY <1>6 DEF InTree
    <2> QED BY <1>1, <1>2, <1>3, <1>10, <2>1 DEF Rest, Mine
  <1>16. Working' /\ Shown'
    BY <1>1, <1>2, <1>10, <1>15 DEF Rest, Working, Shown, InTree
  <1>17. Latest'
    BY <1>1, <1>2, <1>10, <1>12, <1>15 DEF Rest, Latest
  <1> QED BY <1>12, <1>13, <1>14, <1>16, <1>17 DEF Strong

\* What stays in a step that only moves the request on.
Moves == /\ tree' = tree /\ proposal' = proposal /\ newest' = newest /\ gen' = gen
         /\ staged' = staged /\ spent'.edits = spent.edits

\* A failing call is no edit.
LEMMA FaultIsNoEdit ==
    ASSUME Inv, NEW call, Fault(call)
    PROVE  spent'.edits = spent.edits /\ call \in Faulty
  <1>1. spent \in Bounds
    BY TypeParts DEF Inv
  <1> QED BY <1>1 DEF Fault, Bounds

LEMMA StrongApplyRefused ==
    ASSUME Strong, Inv', NEW c \in Clients, \A d \in Clients : d = c, ApplyRefused(c)
    PROVE  Strong'
  <1>1. Moves /\ patch' = patch /\ req[c].pc = "apply"
    <2>1. spent'.edits = spent.edits
      BY FaultIsNoEdit DEF ApplyRefused, Strong
    <2> QED BY <2>1 DEF ApplyRefused, Moves
  <1>2. Inv /\ Rest(c) /\ Latest /\ Shown /\ patch \in Nat /\ newest \in Nat /\ req[c].p \in Nat
    <2>1. Inv
      BY DEF Strong
    <2> QED BY <2>1, KnownTyped, RestHolds DEF Strong
  <1>3. req'[c].pc = "idle" /\ req'[c].p = 0
    BY <1>1, <1>2, KnownTyped DEF ApplyRefused, Ends, Idle
  <1>4. \A i \in Proposals : Engaged(i)' => Engaged(i)
    BY <1>1, <1>3 DEF Engaged, Moves
  <1>5. \A i \in Proposals : ~Halfway(i)
    BY <1>1 DEF Halfway
  <1>6. Rest(c)'
    BY <1>1, <1>2, <1>3 DEF Rest, Mine, InTree, Moves, Latest
  <1>7. Shown'
    BY <1>1, <1>2 DEF Shown, InTree, Moves
  <1>8. patch' <= newest'
    BY <1>1, <1>2 DEF Latest, Moves
  <1> QED BY <1>1, <1>4, <1>5, <1>6, <1>7, <1>8, RestKeeps DEF Moves

LEMMA StrongWriteFails ==
    ASSUME Strong, Inv', OneCalmClient, NEW c \in Clients, \A d \in Clients : d = c, NEW f \in Paths, WriteFails(c, f)
    PROVE  Strong'
  <1>1. Moves /\ patch' = patch /\ req[c].pc = "write"
    <2>1. Fault("open") /\ tree' = tree
      BY FaultIsNoEdit DEF WriteFails, OneCalmClient, Strong
    <2> QED BY <2>1, FaultIsNoEdit DEF WriteFails, Moves, Strong
  <1>2. Inv /\ Rest(c) /\ Latest /\ Shown /\ patch \in Nat /\ newest \in Nat /\ req[c].p \in Nat
    <2>1. Inv
      BY DEF Strong
    <2> QED BY <2>1, KnownTyped, RestHolds DEF Strong
  <1>3. /\ req'[c].pc = "restore" /\ req'[c].p = req[c].p
        /\ req'[c].todo = req[c].written
    BY <1>1, <1>2, KnownTyped DEF WriteFails, RequestTypes
  <1>4. \A i \in Proposals : Engaged(i)' => Engaged(i)
    BY <1>1, <1>3 DEF Engaged, Moves
  <1>5. \A i \in Proposals : Halfway(i) => Halfway(i)'
    BY <1>1, <1>3 DEF Halfway
  <1>6. Rest(c)'
    BY <1>1, <1>2, <1>3 DEF Rest, Mine, InTree, Moves, Latest
  <1>7. Shown'
    BY <1>1, <1>2 DEF Shown, InTree, Moves
  <1>8. patch' <= newest'
    BY <1>1, <1>2 DEF Latest, Moves
  <1> QED BY <1>1, <1>4, <1>5, <1>6, <1>7, <1>8, RestKeeps DEF Moves

LEMMA StrongSavePatchRecord ==
    ASSUME Strong, Inv', NEW c \in Clients, \A d \in Clients : d = c, SavePatchRecord(c)
    PROVE  Strong'
  <1>1. Moves /\ patch' = patch /\ req[c].pc = "save"
    <2>1. spent'.edits = spent.edits
      BY FaultIsNoEdit DEF SavePatchRecord, Strong
    <2> QED BY <2>1 DEF SavePatchRecord, Moves
  <1>2. Inv /\ Rest(c) /\ Latest /\ Shown /\ patch \in Nat /\ newest \in Nat /\ req[c].p \in Nat
    <2>1. Inv
      BY DEF Strong
    <2> QED BY <2>1, KnownTyped, RestHolds DEF Strong
  <1>3. req'[c].pc = "publish" /\ req'[c].p = req[c].p
    BY <1>1, <1>2, KnownTyped DEF SavePatchRecord, Goes, RequestTypes
  <1>4. \A i \in Proposals : Engaged(i)' => Engaged(i)
    BY <1>1, <1>3 DEF Engaged, Moves
  <1>5. \A i \in Proposals : ~Halfway(i)
    BY <1>1 DEF Halfway
  <1>6. Rest(c)'
    BY <1>1, <1>2, <1>3 DEF Rest, Mine, InTree, Moves, Latest
  <1>7. Shown'
    BY <1>1, <1>2 DEF Shown, InTree, Moves
  <1>8. patch' <= newest'
    BY <1>1, <1>2 DEF Latest, Moves
  <1> QED BY <1>1, <1>4, <1>5, <1>6, <1>7, <1>8, RestKeeps DEF Moves

LEMMA StrongApplyPublish ==
    ASSUME Strong, Inv', NEW c \in Clients, \A d \in Clients : d = c, ApplyPublish(c)
    PROVE  Strong'
  <1>1. Moves /\ patch' = req[c].p /\ req[c].pc = "publish" /\ req[c].p # 0
    BY DEF ApplyPublish, Moves, Strong, Inv, TypeOK
  <1>2. Inv /\ Rest(c) /\ Latest /\ Shown /\ patch \in Nat /\ newest \in Nat /\ req[c].p \in Nat
    <2>1. Inv
      BY DEF Strong
    <2> QED BY <2>1, KnownTyped, RestHolds DEF Strong
  <1>3. req'[c].pc = "idle" /\ req'[c].p = 0
    BY <1>1, <1>2, KnownTyped DEF ApplyPublish, Ends, Idle
  <1>4. \A i \in Proposals : Engaged(i)' => Engaged(i)
    BY <1>1, <1>3 DEF Engaged, Moves
  <1>5. \A i \in Proposals : ~Halfway(i)
    BY <1>1 DEF Halfway
  <1>6. Rest(c)'
    BY <1>1, <1>2, <1>3 DEF Rest, Mine, InTree, Moves, Latest
  <1>7. Shown'
    BY <1>1 DEF Shown
  <1>8. patch' <= newest'
    BY <1>1, <1>2 DEF Latest, Moves, Rest, Inv, TypeOK
  <1> QED BY <1>1, <1>4, <1>5, <1>6, <1>7, <1>8, RestKeeps DEF Moves

LEMMA StrongApplyFailed ==
    ASSUME Strong, Inv', NEW c \in Clients, \A d \in Clients : d = c, ApplyFailed(c)
    PROVE  Strong'
  <1>1. Moves /\ patch' = patch /\ req[c].pc = "restore" /\ req[c].todo = {}
    BY DEF ApplyFailed, Moves
  <1>2. Inv /\ Rest(c) /\ Latest /\ Shown /\ patch \in Nat /\ newest \in Nat /\ req[c].p \in Nat
    <2>1. Inv
      BY DEF Strong
    <2> QED BY <2>1, KnownTyped, RestHolds DEF Strong
  <1>3. req'[c].pc = "idle" /\ req'[c].p = 0
    BY <1>1, <1>2, KnownTyped DEF ApplyFailed, Ends, Idle
  <1>4. \A i \in Proposals : Engaged(i)' => Engaged(i)
    BY <1>1, <1>3 DEF Engaged, Moves
  <1>5. ASSUME NEW i \in Proposals, Halfway(i), Alive(i)
        PROVE  FALSE
    <2>1. req[c].p = i
      BY <1>5 DEF Halfway
    <2>2. InTree(i)
      BY <1>5, <2>1, NothingNewer
    <2>3. \A g \in proposal[i].files : tree[g] # Proposed(i)
      BY <1>1, <1>2, <2>1 DEF Rest, Mine
    <2> QED BY <2>2, <2>3 DEF InTree
  <1>6. Rest(c)'
    BY <1>1, <1>2, <1>3 DEF Rest, Mine, InTree, Moves, Latest
  <1>7. Shown'
    BY <1>1, <1>2 DEF Shown, InTree, Moves
  <1>8. patch' <= newest'
    BY <1>1, <1>2 DEF Latest, Moves
  <1> QED BY <1>1, <1>4, <1>5, <1>6, <1>7, <1>8, RestKeeps DEF Moves

LEMMA StrongRejectBegin ==
    ASSUME Strong, Inv', NEW c \in Clients, \A d \in Clients : d = c, RejectBegin(c)
    PROVE  Strong'
  <1>1. Moves /\ patch' = patch /\ req[c].pc = "idle" /\ patch # 0
    BY DEF RejectBegin, Moves
  <1>2. Inv /\ Rest(c) /\ Latest /\ Shown /\ patch \in Nat /\ newest \in Nat /\ req[c].p \in Nat
    <2>1. Inv
      BY DEF Strong
    <2> QED BY <2>1, KnownTyped, RestHolds DEF Strong
  <1>3. /\ req'[c].p = patch
        /\ req'[c].pc = IF proposal[patch].applied THEN "undo" ELSE "drop"
    BY <1>1, <1>2, KnownTyped DEF RejectBegin, Idle
  <1>4. \A i \in Proposals : Engaged(i)' => Engaged(i)
    BY <1>1, <1>3 DEF Engaged, Moves
  <1>5. \A i \in Proposals : ~Halfway(i)
    BY <1>1 DEF Halfway
  <1>6. Rest(c)'
    BY <1>1, <1>2, <1>3 DEF Rest, Mine, InTree, Moves, Latest
  <1>7. Shown'
    BY <1>1, <1>2 DEF Shown, InTree, Moves
  <1>8. patch' <= newest'
    BY <1>1, <1>2 DEF Latest, Moves
  <1> QED BY <1>1, <1>4, <1>5, <1>6, <1>7, <1>8, RestKeeps DEF Moves

LEMMA StrongUndoBegin ==
    ASSUME Strong, Inv', NEW c \in Clients, \A d \in Clients : d = c, UndoBegin(c)
    PROVE  Strong'
  <1>1. Moves /\ patch' = patch /\ req[c].pc = "undo"
    BY DEF UndoBegin, Moves
  <1>2. Inv /\ Rest(c) /\ Latest /\ Shown /\ patch \in Nat /\ newest \in Nat /\ req[c].p \in Nat
    <2>1. Inv
      BY DEF Strong
    <2> QED BY <2>1, KnownTyped, RestHolds DEF Strong
  <1>3. /\ req'[c].pc = "undoing" /\ req'[c].p = req[c].p
        /\ req'[c].todo = Mine(c).files
    BY <1>1, <1>2, KnownTyped DEF UndoBegin, RequestTypes
  <1>4. \A i \in Proposals : Engaged(i)' => Engaged(i)
    BY <1>1, <1>3 DEF Engaged, Moves
  <1>5. \A i \in Proposals : ~Halfway(i)
    BY <1>1 DEF Halfway
  <1>6. Rest(c)'
    BY <1>1, <1>2, <1>3 DEF Rest, Mine, InTree, Moves, Latest
  <1>7. Shown'
    BY <1>1, <1>2 DEF Shown, InTree, Moves
  <1>8. patch' <= newest'
    BY <1>1, <1>2 DEF Latest, Moves
  <1> QED BY <1>1, <1>4, <1>5, <1>6, <1>7, <1>8, RestKeeps DEF Moves

LEMMA StrongUndoRefused ==
    ASSUME Strong, Inv', NEW c \in Clients, \A d \in Clients : d = c, UndoRefused(c)
    PROVE  Strong'
  <1>1. Moves /\ patch' = patch /\ req[c].pc = "undo"
    <2>1. spent'.edits = spent.edits
      BY FaultIsNoEdit DEF UndoRefused, Strong
    <2> QED BY <2>1 DEF UndoRefused, Moves
  <1>2. Inv /\ Rest(c) /\ Latest /\ Shown /\ patch \in Nat /\ newest \in Nat /\ req[c].p \in Nat
    <2>1. Inv
      BY DEF Strong
    <2> QED BY <2>1, KnownTyped, RestHolds DEF Strong
  <1>3. req'[c].pc = "idle" /\ req'[c].p = 0
    BY <1>1, <1>2, KnownTyped DEF UndoRefused, Ends, Idle
  <1>4. \A i \in Proposals : Engaged(i)' => Engaged(i)
    BY <1>1, <1>3 DEF Engaged, Moves
  <1>5. \A i \in Proposals : ~Halfway(i)
    BY <1>1 DEF Halfway
  <1>6. Rest(c)'
    BY <1>1, <1>2, <1>3 DEF Rest, Mine, InTree, Moves, Latest
  <1>7. Shown'
    BY <1>1, <1>2 DEF Shown, InTree, Moves
  <1>8. patch' <= newest'
    BY <1>1, <1>2 DEF Latest, Moves
  <1> QED BY <1>1, <1>4, <1>5, <1>6, <1>7, <1>8, RestKeeps DEF Moves

LEMMA StrongUndoEnd ==
    ASSUME Strong, Inv', NEW c \in Clients, \A d \in Clients : d = c, UndoEnd(c)
    PROVE  Strong'
  <1>1. Moves /\ patch' = patch /\ req[c].pc = "undoing" /\ req[c].todo = {}
    BY DEF UndoEnd, Moves
  <1>2. Inv /\ Rest(c) /\ Latest /\ Shown /\ patch \in Nat /\ newest \in Nat /\ req[c].p \in Nat
    <2>1. Inv
      BY DEF Strong
    <2> QED BY <2>1, KnownTyped, RestHolds DEF Strong
  <1>3. req'[c].pc = "drop" /\ req'[c].p = req[c].p
    BY <1>1, <1>2, KnownTyped DEF UndoEnd, Goes, RequestTypes
  <1>4. \A i \in Proposals : Engaged(i)' => Engaged(i)
    BY <1>1, <1>3 DEF Engaged, Moves
  <1>5. ASSUME NEW i \in Proposals, Halfway(i), Alive(i)
        PROVE  FALSE
    <2>1. req[c].p = i
      BY <1>5 DEF Halfway
    <2>2. InTree(i)
      BY <1>5, <2>1, NothingNewer
    <2>3. \A g \in proposal[i].files : tree[g] # Proposed(i)
      BY <1>1, <1>2, <2>1 DEF Rest, Mine
    <2> QED BY <2>2, <2>3 DEF InTree
  <1>6. Rest(c)'
    BY <1>1, <1>2, <1>3 DEF Rest, Mine, InTree, Moves, Latest
  <1>7. Shown'
    BY <1>1, <1>2 DEF Shown, InTree, Moves
  <1>8. patch' <= newest'
    BY <1>1, <1>2 DEF Latest, Moves
  <1> QED BY <1>1, <1>4, <1>5, <1>6, <1>7, <1>8, RestKeeps DEF Moves

LEMMA StrongDropPatchRecord ==
    ASSUME Strong, Inv', NEW c \in Clients, \A d \in Clients : d = c, DropPatchRecord(c)
    PROVE  Strong'
  <1>1. Moves /\ patch' = patch /\ req[c].pc = "drop"
    BY DEF DropPatchRecord, Moves
  <1>2. Inv /\ Rest(c) /\ Latest /\ Shown /\ patch \in Nat /\ newest \in Nat /\ req[c].p \in Nat
    <2>1. Inv
      BY DEF Strong
    <2> QED BY <2>1, KnownTyped, RestHolds DEF Strong
  <1>3. req'[c].pc = "forget" /\ req'[c].p = req[c].p
    BY <1>1, <1>2, KnownTyped DEF DropPatchRecord, Goes, RequestTypes
  <1>4. \A i \in Proposals : Engaged(i)' => Engaged(i)
    BY <1>1, <1>3 DEF Engaged, Moves
  <1>5. \A i \in Proposals : ~Halfway(i)
    BY <1>1 DEF Halfway
  <1>6. Rest(c)'
    BY <1>1, <1>2, <1>3 DEF Rest, Mine, InTree, Moves, Latest
  <1>7. Shown'
    BY <1>1, <1>2 DEF Shown, InTree, Moves
  <1>8. patch' <= newest'
    BY <1>1, <1>2 DEF Latest, Moves
  <1> QED BY <1>1, <1>4, <1>5, <1>6, <1>7, <1>8, RestKeeps DEF Moves

LEMMA StrongForget ==
    ASSUME Strong, Inv', NEW c \in Clients, \A d \in Clients : d = c, Forget(c)
    PROVE  Strong'
  <1>1. Moves /\ patch' = 0 /\ req[c].pc = "forget" /\ req[c].p # 0
    BY DEF Forget, Moves, Strong, Inv, TypeOK
  <1>2. Inv /\ Rest(c) /\ Latest /\ Shown /\ patch \in Nat /\ newest \in Nat /\ req[c].p \in Nat
    <2>1. Inv
      BY DEF Strong
    <2> QED BY <2>1, KnownTyped, RestHolds DEF Strong
  <1>3. req'[c].pc = "idle" /\ req'[c].p = 0
    BY <1>1, <1>2, KnownTyped DEF Forget, Ends, Idle
  <1>4. \A i \in Proposals : Engaged(i)' => Engaged(i)
    BY <1>1, <1>3 DEF Engaged, Moves
  <1>5. \A i \in Proposals : ~Halfway(i)
    BY <1>1 DEF Halfway
  <1>6. Rest(c)'
    BY <1>1, <1>2, <1>3 DEF Rest, Mine, InTree, Moves, Latest
  <1>7. Shown'
    <2>1. ASSUME newest # 0, proposal[newest].applied, InTree(newest)
          PROVE  FALSE
      <3>1. newest \in Proposals
        BY <1>2, <2>1, KnownTyped DEF Latest
      <3>2. req[c].p # 0 /\ req[c].p >= newest
        BY <1>1, <1>2, <2>1, <3>1 DEF Rest
      <3>3. req[c].p = newest
        BY <1>2, <3>2 DEF Rest, Latest
      <3> QED BY <1>1, <1>2, <2>1, <3>3 DEF Rest, Mine
    <2> QED BY <1>1, <2>1 DEF Shown, InTree, Moves
  <1>8. patch' <= newest'
    BY <1>1, <1>2 DEF Moves
  <1> QED BY <1>1, <1>4, <1>5, <1>6, <1>7, <1>8, RestKeeps DEF Moves

(***************************************************************************)
(* The generation, which nobody has seen the proposal of yet.              *)
(***************************************************************************)
LEMMA StillKeeps ==
    ASSUME Strong, Inv', tree' = tree, proposal' = proposal, req' = req, spent' = spent,
           Known \subseteq Known', Latest', Shown'
    PROVE  Strong'
  <1>1. Own' /\ AppliedKnown' /\ NoTorn' /\ Fresh' /\ Apart' /\ Whole'
    <2>1. \A i \in Proposals : (Engaged(i)' <=> Engaged(i)) /\ (Halfway(i)' <=> Halfway(i))
      BY DEF Engaged, Halfway
    <2> QED BY <2>1, FrozenKeeps
  <1>2. Working'
    BY DEF Strong, Working, Mine, InTree
  <1> QED BY <1>1, <1>2 DEF Strong

LEMMA StrongStageFails ==
    ASSUME Strong, Inv', StageFails
    PROVE  Strong'
  <1>1. Inv /\ Latest /\ Shown /\ staged \in Nat
    BY KnownTyped DEF Strong
  <1>2. Known \subseteq Known'
    BY <1>1 DEF StageFails, Known, Quiet
  <1>3. Latest' /\ Shown'
    BY <1>1, <1>2 DEF StageFails, Latest, Shown, InTree
  <1> QED BY <1>2, <1>3, StillKeeps DEF StageFails

LEMMA StrongDropOldRecord ==
    ASSUME Strong, Inv', DropOldRecord
    PROVE  Strong'
  <1>1. Inv /\ Latest /\ Shown /\ gen \in GenTypes
    BY KnownTyped DEF Strong
  <1>2. Known' = Known
    BY <1>1 DEF DropOldRecord, Known, GenTypes
  <1>3. Latest' /\ Shown'
    BY <1>1, <1>2 DEF DropOldRecord, Latest, Shown, InTree
  <1> QED BY <1>2, <1>3, StillKeeps DEF DropOldRecord

LEMMA StrongStagePublish ==
    ASSUME Strong, Inv', StagePublish
    PROVE  Strong'
  <1>1. Inv /\ Latest /\ Shown /\ staged \in Nat
    BY KnownTyped DEF Strong
  <1>2. Known' = 1 .. staged /\ Known \subseteq 1 .. staged
    BY <1>1 DEF StagePublish, Known, Quiet
  <1>3. \A c \in Clients : req[c].p # 0 => req[c].p \in 1 .. staged
    BY <1>1, <1>2, KnownTyped
  <1>4. \A i \in Proposals : (proposal[i].applied \/ InTree(i)) => i \in 1 .. staged
    BY <1>2, AliveKnown DEF Strong, AppliedKnown
  <1>5. Latest'
    <2>1. newest' \in Known' \cup {0} /\ patch' <= newest'
      BY <1>1, <1>2 DEF StagePublish
    <2>2. \A c \in Clients : req'[c].p # 0 => patch' >= req'[c].p
      BY <1>1, <1>3 DEF StagePublish
    <2>3. \A i \in Proposals : (proposal'[i].applied \/ InTree(i)') =>
             /\ newest' >= i
             /\ patch' = 0 \/ patch' >= i
             /\ \A c \in Clients : req'[c].p = 0 \/ req'[c].p >= i
      BY <1>1, <1>4 DEF StagePublish, Latest, InTree
    <2> QED BY <2>1, <2>2, <2>3 DEF Latest
  <1>6. Shown'
    BY DEF StagePublish, Shown
  <1> QED BY <1>2, <1>5, <1>6, StillKeeps DEF StagePublish

\* A step that only adds to a proposal nobody has seen, and reads the tree.
LEMMA UnknownKeeps ==
    ASSUME Strong, Inv', tree' = tree, req' = req, newest' = newest, patch' = patch,
           spent' = spent, Known' = Known,
           \A i \in Known : proposal'[i] = proposal[i],
           \A i \in Proposals : proposal'[i].applied <=> proposal[i].applied,
           \A i \in Proposals, f \in Paths :
              \/ proposal'[i].original[f] = proposal[i].original[f]
              \/ proposal'[i].original[f] = tree[f] /\ i \notin Known
    PROVE  Strong'
  <1>1. Inv /\ OriginalsForeign /\ OriginalsForeign' /\ staged \in Nat
    BY KnownTyped DEF Strong, Inv
  <1>2. \A i \in Proposals : proposal[i].files \subseteq Paths /\ proposal'[i].files \subseteq Paths
    BY <1>1, TypeParts DEF Inv, SharedTyped, ProposalTypes
  <1>3. \A i \in Proposals, j \in Known : i \notin Known => j < i
    BY <1>1 DEF Known, Proposals
  <1>4. \A i \in Proposals : InTree(i)' <=> InTree(i)
    BY <1>1, <1>2 DEF InTree, OriginalsForeign
  <1>5. \A i \in Proposals : (Engaged(i)' <=> Engaged(i)) /\ (Halfway(i)' <=> Halfway(i))
    BY DEF Engaged, Halfway
  <1>6. \A i \in Proposals : Alive(i)' => Alive(i)
    BY <1>4, <1>5, AliveKnown DEF Alive
  <1>7. Own'
    <2>1. ASSUME NEW f \in Paths, NEW j \in Proposals, tree[f] = Proposed(j)
          PROVE  f \in proposal'[j].files
      BY <1>1, <2>1 DEF Strong, Own, OriginalsForeign
    <2>2. ASSUME NEW f \in Paths, NEW j \in Proposals, NEW i \in Proposals,
                 proposal'[i].original[f] = Proposed(j)
          PROVE  f \in proposal'[j].files /\ j < i
      <3>1. j \in Known
        BY <1>1, <2>2 DEF OriginalsForeign
      <3>2. CASE proposal'[i].original[f] = proposal[i].original[f]
        BY <2>2, <3>1, <3>2 DEF Strong, Own
      <3>3. CASE proposal'[i].original[f] = tree[f] /\ i \notin Known
        BY <1>3, <2>1, <2>2, <3>1, <3>3
      <3> QED BY <3>2, <3>3
    <2> QED BY <2>1, <2>2 DEF Own
  <1>8. AppliedKnown' /\ NoTorn' /\ Fresh'
    <2>1. AppliedKnown'
      BY DEF Strong, AppliedKnown
    <2>2. NoTorn'
      BY DEF Strong, NoTorn
    <2>3. Fresh'
      BY DEF Strong, Fresh
    <2> QED BY <2>1, <2>2, <2>3
  <1>9. Latest'
    BY <1>4 DEF Strong, Latest
  <1>10. Apart'
    BY <1>5, <1>6, AliveKnown DEF Strong, Apart
  <1>11. Whole'
    BY <1>5, <1>6, AliveKnown DEF Strong, Whole
  <1>12. Working'
    <2>1. \A c \in Clients : req[c].pc # "idle" => req[c].p \in Known /\ req[c].p \in Proposals
      BY <1>1, KnownTyped DEF Inv, TypeOK
    <2>2. ASSUME NEW c \in Clients, req[c].pc # "idle"
          PROVE  proposal'[req[c].p] = proposal[req[c].p] /\ (InTree(req[c].p)' <=> InTree(req[c].p))
      BY <1>4, <2>1, <2>2
    <2>3. ASSUME NEW c \in Clients
          PROVE  Rest(c)'
      <3>1. CASE req[c].pc = "idle"
        BY <1>9, <3>1 DEF Rest, Strong, Working, Latest
      <3>2. CASE req[c].pc # "idle"
        BY <1>9, <2>2, <3>2, RestHolds DEF Rest, Mine, Latest
      <3> QED BY <3>1, <3>2
    <2> QED BY <2>3 DEF Working, Rest
  <1>13. Shown'
    BY <1>1, <1>4, KnownTyped DEF Strong, Shown, Latest
  <1> QED BY <1>7, <1>8, <1>9, <1>10, <1>11, <1>12, <1>13 DEF Strong

LEMMA StrongReply ==
    ASSUME Strong, Inv', NEW files \in SUBSET Paths, Reply(files)
    PROVE  Strong'
  <1>1. Inv /\ staged \in Nat /\ proposal \in [Proposals -> ProposalTypes]
    BY KnownTyped DEF Strong
  <1>2. Known = 1 .. staged /\ Known' = Known
    BY <1>1 DEF Reply, Known
  <1>3. staged + 1 \notin Known
    BY <1>1, <1>2
  <1>4. \A i \in Known : proposal'[i] = proposal[i]
    BY <1>1, <1>3, KnownTyped DEF Reply
  <1>5. \A i \in Proposals : /\ proposal'[i].applied = proposal[i].applied
                             /\ proposal'[i].original = proposal[i].original
    BY <1>1 DEF Reply, ProposalTypes
  <1>6. /\ tree' = tree /\ req' = req /\ newest' = newest /\ patch' = patch /\ spent' = spent
    BY DEF Reply
  <1> QED BY <1>2, <1>4, <1>5, <1>6, UnknownKeeps

LEMMA StrongReadFile ==
    ASSUME Strong, Inv', NEW f \in Paths, ReadFile(f)
    PROVE  Strong'
  <1>1. Inv /\ staged \in Nat /\ proposal \in [Proposals -> ProposalTypes] /\ gen \in GenTypes
    BY KnownTyped DEF Strong
  <1>2. Known = 1 .. (staged - 1) /\ Known' = Known
    BY <1>1 DEF ReadFile, Known, GenTypes
  <1>3. staged \notin Known
    BY <1>1, <1>2
  <1>4. \A i \in Known : proposal'[i] = proposal[i]
    BY <1>1, <1>3, KnownTyped DEF ReadFile
  <1>5. \A i \in Proposals : proposal'[i].applied = proposal[i].applied
    BY <1>1 DEF ReadFile, ProposalTypes
  <1>6. ASSUME NEW i \in Proposals, NEW g \in Paths
        PROVE  \/ proposal'[i].original[g] = proposal[i].original[g]
               \/ proposal'[i].original[g] = tree[g] /\ i \notin Known
    <2>1. CASE i = staged /\ g = f
      BY <1>1, <1>3, <2>1 DEF ReadFile, ProposalTypes
    <2>2. CASE ~(i = staged /\ g = f)
      BY <1>1, <2>2 DEF ReadFile, ProposalTypes
    <2> QED BY <2>1, <2>2
  <1>7. /\ tree' = tree /\ req' = req /\ newest' = newest /\ patch' = patch /\ spent' = spent
    BY DEF ReadFile
  <1> QED BY <1>2, <1>4, <1>5, <1>6, <1>7, UnknownKeeps

(***************************************************************************)
(* The steps that write a file, and the mark that all are written.         *)
(***************************************************************************)

\* The proposal a request works on, and what it rests on.
LEMMA AtWork ==
    ASSUME Strong, NEW c \in Clients, \A d \in Clients : d = c, req[c].pc # "idle"
    PROVE  /\ req[c].p \in Known /\ req[c].p \in Proposals /\ req[c].p # 0
           /\ req[c].p \in Nat /\ newest \in Nat /\ patch \in Nat /\ Proposals \subseteq Nat
           /\ newest >= patch /\ patch >= req[c].p
           /\ proposal[req[c].p].files \subseteq Paths
  <1>1. Inv /\ Latest
    BY DEF Strong
  <1>2. req[c].p # 0
    BY <1>1 DEF Inv, TypeOK
  <1>3. req[c].p \in Known /\ req[c].p \in Proposals /\ newest \in Nat /\ patch \in Nat
    BY <1>1, <1>2, KnownTyped
  <1>4. proposal[req[c].p].files \subseteq Paths
    BY <1>1, <1>3, KnownTyped DEF ProposalTypes
  <1>5. newest >= patch /\ patch >= req[c].p
    BY <1>1, <1>2, <1>3, KnownTyped DEF Latest
  <1> QED BY <1>1, <1>2, <1>3, <1>4, <1>5, KnownTyped

LEMMA StrongWriteFile ==
    ASSUME Strong, Inv', NEW c \in Clients, \A d \in Clients : d = c, NEW f \in Paths,
           WriteFile(c, f)
    PROVE  Strong'
  <1> DEFINE p == req[c].p
  <1>1. /\ req[c].pc = "write" /\ f \in req[c].todo
        /\ proposal' = proposal /\ staged' = staged /\ patch' = patch /\ newest' = newest
        /\ gen' = gen /\ spent' = spent
    BY DEF WriteFile
  <1>2. /\ Inv /\ Rest(c) /\ Latest /\ OriginalsForeign
        /\ tree \in [Paths -> Contents] /\ req \in [Clients -> RequestTypes]
    BY RestHolds, KnownTyped DEF Strong, Inv
  <1>3. /\ p \in Known /\ p \in Proposals /\ p # 0 /\ p \in Nat /\ newest >= patch /\ patch >= p
        /\ proposal[p].files \subseteq Paths /\ Proposals \subseteq Nat
        /\ newest \in Nat /\ patch \in Nat
    BY <1>1, AtWork
  <1>4. tree'[f] = Proposed(p) /\ \A g \in Paths : g # f => tree'[g] = tree[g]
    BY <1>2 DEF WriteFile
  <1>5. /\ req'[c].pc = "write" /\ req'[c].p = p /\ req'[c].todo = req[c].todo \ {f}
        /\ req'[c].written = req[c].written \union {f}
    BY <1>1, <1>2 DEF WriteFile, RequestTypes
  <1>6. f \in proposal[p].files /\ req[c].written \subseteq proposal[p].files
    BY <1>1, <1>2 DEF Rest, Mine
  <1>7. Known' = Known
    BY <1>1 DEF Known
  <1>8. \A i \in Proposals : (Engaged(i)' <=> Engaged(i)) /\ (Halfway(i)' <=> Halfway(i))
    BY <1>1, <1>5 DEF Engaged, Halfway
  <1>9. \A i \in Proposals : InTree(i)' => InTree(i) \/ i = p
    <2>1. \A i \in Proposals : proposal[i].files \subseteq Paths
      BY <1>2, KnownTyped DEF ProposalTypes
    <2> QED BY <1>1, <1>3, <1>4, <2>1, ContentsTold DEF InTree
  <1>10. \A i \in Proposals : Alive(i)' => Alive(i) \/ i = p
    BY <1>1, <1>8, <1>9 DEF Alive
  <1>11. \A i \in Proposals : Engaged(i) \/ Alive(i) => p >= i
    BY <1>3, NothingNewer
  <1>12. Own'
    BY <1>1, <1>3, <1>4, <1>6, ContentsTold DEF Strong, Own
  <1>13. AppliedKnown'
    BY <1>1, <1>7 DEF Strong, AppliedKnown
  <1>14. NoTorn'
    BY <1>1, <1>3, <1>4, ContentsTold DEF Strong, NoTorn
  <1>15. Fresh'
    BY <1>1, <1>3, <1>4, EditsTold DEF Strong, Fresh
  <1>16. Latest'
    <2>1. newest' \in Known' \cup {0} /\ patch' <= newest'
      BY <1>1, <1>2, <1>7 DEF Latest
    <2>2. \A d \in Clients : req'[d].p = req[d].p
      BY <1>5
    <2>3. \A i \in Proposals : (proposal'[i].applied \/ InTree(i)') =>
             /\ newest' >= i
             /\ patch' = 0 \/ patch' >= i
             /\ \A d \in Clients : req'[d].p = 0 \/ req'[d].p >= i
      <3>1. ASSUME NEW i \in Proposals, proposal[i].applied \/ InTree(i)
            PROVE  /\ newest >= i
                   /\ patch = 0 \/ patch >= i
                   /\ \A d \in Clients : req[d].p = 0 \/ req[d].p >= i
        BY <1>2, <3>1 DEF Latest
      <3>2. /\ newest >= p
            /\ patch >= p
            /\ \A d \in Clients : req[d].p >= p
        BY <1>3
      <3> QED BY <1>1, <1>9, <2>2, <3>1, <3>2
    <2> QED BY <1>1, <1>2, <2>1, <2>2, <2>3 DEF Latest
  <1>17. Apart'
    <2>1. ASSUME NEW q \in Proposals, NEW j \in Proposals, Engaged(q), Alive(j)', j < q
          PROVE  Alive(j)
      BY <1>3, <1>10, <1>11, <2>1
    <2> QED BY <1>1, <1>8, <2>1 DEF Strong, Apart
  <1>18. Whole'
    <2>1. ASSUME NEW j \in Proposals, Alive(j)', ~Halfway(j), NEW g \in proposal[j].files
          PROVE  tree'[g] # proposal[j].original[g]
      <3>1. Alive(j) /\ p >= j
        BY <1>1, <1>10, <1>11, <2>1 DEF Halfway
      <3>2. g \in Paths
        BY <1>2, KnownTyped DEF ProposalTypes
      <3>3. CASE g = f
        <4>1. proposal[j].original[f] # Proposed(p)
          BY <1>3, <3>1 DEF Strong, Own
        <4> QED BY <1>4, <3>3, <4>1
      <3>4. CASE g # f
        BY <1>4, <2>1, <3>1, <3>2, <3>4 DEF Strong, Whole
      <3> QED BY <3>3, <3>4
    <2> QED BY <1>1, <1>8, <2>1 DEF Whole
  <1>19. Rest(c)'
    <2>1. \A g \in proposal[p].files :
             \/ g \in req'[c].todo /\ tree'[g] # Proposed(p)
             \/ g \in req'[c].written /\ tree'[g] # proposal[p].original[g]
      <3>1. ASSUME NEW g \in proposal[p].files
            PROVE  \/ g \in req'[c].todo /\ tree'[g] # Proposed(p)
                   \/ g \in req'[c].written /\ tree'[g] # proposal[p].original[g]
        <4>1. CASE g = f
          BY <1>2, <1>3, <1>4, <1>5, <4>1 DEF OriginalsForeign
        <4>2. CASE g # f
          <5>1. \/ g \in req[c].todo /\ tree[g] # Proposed(p)
                \/ g \in req[c].written /\ tree[g] # proposal[p].original[g]
            BY <1>1, <1>2 DEF Rest, Mine
          <5>2. tree'[g] = tree[g]
            BY <1>3, <1>4, <4>2
          <5> QED BY <1>5, <4>2, <5>1, <5>2
        <4> QED BY <4>1, <4>2
      <3> QED BY <3>1
    <2>2. req'[c].todo \subseteq proposal[p].files /\ req'[c].written \subseteq proposal[p].files
      BY <1>1, <1>2, <1>5, <1>6 DEF Rest, Mine
    <2>3. ~proposal[p].applied
      BY <1>1, <1>2 DEF Rest, Mine
    <2> QED BY <1>1, <1>5, <1>16, <2>1, <2>2, <2>3 DEF Rest, Mine, Latest
  <1>20. Working'
    BY <1>19 DEF Working, Rest
  <1>21. Shown'
    BY <1>1, <1>3 DEF Shown
  <1> QED BY <1>12, <1>13, <1>14, <1>15, <1>16, <1>17, <1>18, <1>20, <1>21 DEF Strong

\* A file is put back to what it held: to the work of an older proposal at
\* most, which differs from what that one would be put back to itself.
LEMMA StrongPutBack ==
    ASSUME Strong, Inv', OneCalmClient, NEW c \in Clients, \A d \in Clients : d = c,
           NEW f \in Paths, PutBack(c, f), req[c].pc \in {"restore", "undoing"}
    PROVE  Strong'
  <1> DEFINE p == req[c].p
  <1>1. /\ req[c].pc # "idle" /\ f \in req[c].todo
        /\ proposal' = proposal /\ staged' = staged /\ patch' = patch /\ newest' = newest
        /\ gen' = gen /\ spent' = spent /\ tree' = [tree EXCEPT ![f] = proposal[p].original[f]]
    BY FaultIsNoEdit DEF PutBack, OneCalmClient, Mine, Strong
  <1>2. /\ Inv /\ Rest(c) /\ Latest /\ OriginalsForeign
        /\ tree \in [Paths -> Contents] /\ req \in [Clients -> RequestTypes]
    BY RestHolds, KnownTyped DEF Strong, Inv
  <1>3. /\ p \in Known /\ p \in Proposals /\ p # 0 /\ p \in Nat /\ newest >= patch /\ patch >= p
        /\ proposal[p].files \subseteq Paths /\ Proposals \subseteq Nat
        /\ newest \in Nat /\ patch \in Nat
    BY <1>1, AtWork
  <1>4. tree'[f] = proposal[p].original[f] /\ \A g \in Paths : g # f => tree'[g] = tree[g]
    BY <1>1, <1>2
  <1>5. /\ req'[c].pc = req[c].pc /\ req'[c].p = p /\ req'[c].todo = req[c].todo \ {f}
        /\ req'[c].written = req[c].written
    BY <1>1, <1>2 DEF PutBack, RequestTypes
  <1>6. f \in proposal[p].files
    BY <1>1, <1>2 DEF Rest, Mine
  <1>7. Known' = Known
    BY <1>1 DEF Known
  <1>8. \A i \in Proposals : (Engaged(i)' <=> Engaged(i)) /\ (Halfway(i)' <=> Halfway(i))
    BY <1>1, <1>5 DEF Engaged, Halfway
  <1>9. Engaged(p) /\ Halfway(p)
    BY <1>2 DEF Engaged, Halfway, Rest, Mine
  <1>10. ASSUME NEW i \in Proposals, proposal[p].original[f] = Proposed(i)
         PROVE  Alive(i) /\ i < p /\ f \in proposal[i].files
    <2>1. Alive(i)
      BY <1>3, <1>6, <1>9, <1>10 DEF Alive
    <2> QED BY <1>3, <1>10, <2>1 DEF Strong, Own
  <1>11. \A i \in Proposals : InTree(i)' => InTree(i) \/ (Alive(i) /\ i < p)
    <2>1. \A i \in Proposals : proposal[i].files \subseteq Paths
      BY <1>2, KnownTyped DEF ProposalTypes
    <2> QED BY <1>1, <1>4, <1>10, <2>1 DEF InTree
  <1>12. \A i \in Proposals : Alive(i)' => Alive(i)
    BY <1>1, <1>8, <1>11 DEF Alive
  <1>13. Own'
    BY <1>1, <1>4, <1>10 DEF Strong, Own
  <1>14. AppliedKnown'
    BY <1>1, <1>7 DEF Strong, AppliedKnown
  <1>15. NoTorn' /\ Fresh'
    <2>1. NoTorn'
      BY <1>1, <1>3, <1>4 DEF Strong, NoTorn
    <2>2. Fresh'
      BY <1>1, <1>3, <1>4 DEF Strong, Fresh
    <2> QED BY <2>1, <2>2
  <1>16. Latest'
    <2>1. newest' \in Known' \cup {0} /\ patch' <= newest'
      BY <1>1, <1>2, <1>7 DEF Latest
    <2>2. \A d \in Clients : req'[d].p = req[d].p
      BY <1>5
    <2>3. \A i \in Proposals : (proposal'[i].applied \/ InTree(i)') =>
             /\ newest' >= i
             /\ patch' = 0 \/ patch' >= i
             /\ \A d \in Clients : req'[d].p = 0 \/ req'[d].p >= i
      <3>1. ASSUME NEW i \in Proposals, proposal[i].applied \/ InTree(i)
            PROVE  /\ newest >= i
                   /\ patch = 0 \/ patch >= i
                   /\ \A d \in Clients : req[d].p = 0 \/ req[d].p >= i
        BY <1>2, <3>1 DEF Latest
      <3>2. ASSUME NEW i \in Proposals, i < p
            PROVE  newest >= i /\ patch >= i /\ \A d \in Clients : req[d].p >= i
        <4>1. i \in Nat
          BY <1>3
        <4> QED BY <1>3, <3>2, <4>1
      <3> QED BY <1>1, <1>11, <2>2, <3>1, <3>2
    <2> QED BY <1>1, <1>2, <2>1, <2>2, <2>3 DEF Latest
  <1>17. Apart'
    BY <1>1, <1>8, <1>12 DEF Strong, Apart
  <1>18. Whole'
    <2>1. ASSUME NEW j \in Proposals, Alive(j)', ~Halfway(j), NEW g \in proposal[j].files
          PROVE  tree'[g] # proposal[j].original[g]
      <3>1. Alive(j) /\ j < p
        <4>1. Alive(j) /\ j # p
          BY <1>9, <1>12, <2>1
        <4>2. p >= j
          BY <1>3, <4>1, NothingNewer
        <4> QED BY <1>3, <4>1, <4>2
      <3>2. g \in Paths
        BY <1>2, KnownTyped DEF ProposalTypes
      <3>3. CASE g = f
        <4>1. proposal[p].original[f] # proposal[j].original[f]
          BY <1>3, <1>6, <1>9, <3>1, <3>3 DEF Strong, Apart
        <4> QED BY <1>4, <3>3, <4>1
      <3>4. CASE g # f
        BY <1>4, <2>1, <3>1, <3>2, <3>4 DEF Strong, Whole
      <3> QED BY <3>3, <3>4
    <2> QED BY <1>1, <1>8, <2>1 DEF Whole
  <1>19. Rest(c)'
    <2>1. \A g \in proposal[p].files : g \in req'[c].todo \/ tree'[g] # Proposed(p)
      <3>1. ASSUME NEW g \in proposal[p].files
            PROVE  g \in req'[c].todo \/ tree'[g] # Proposed(p)
        <4>1. CASE g = f
          BY <1>2, <1>3, <1>4, <4>1 DEF OriginalsForeign
        <4>2. CASE g # f
          <5>1. g \in req[c].todo \/ tree[g] # Proposed(p)
            BY <1>2 DEF Rest, Mine
          <5>2. tree'[g] = tree[g]
            BY <1>3, <1>4, <4>2
          <5> QED BY <1>5, <4>2, <5>1, <5>2
        <4> QED BY <4>1, <4>2
      <3> QED BY <3>1
    <2>2. req'[c].todo \subseteq proposal[p].files
      BY <1>2, <1>5 DEF Rest, Mine
    <2>3. /\ req[c].pc = "restore" => ~proposal[p].applied
          /\ req[c].pc = "undoing" => proposal[p].applied
      BY <1>2 DEF Rest, Mine
    <2> QED BY <1>1, <1>5, <1>16, <2>1, <2>2, <2>3 DEF Rest, Mine, Latest
  <1>20. Working'
    BY <1>19 DEF Working, Rest
  <1>21. Shown'
    BY <1>1, <1>3 DEF Shown
  <1> QED BY <1>13, <1>14, <1>15, <1>16, <1>17, <1>18, <1>20, <1>21 DEF Strong

LEMMA StrongMarkApplied ==
    ASSUME Strong, Inv', NEW c \in Clients, \A d \in Clients : d = c, MarkApplied(c)
    PROVE  Strong'
  <1> DEFINE p == req[c].p
  <1>1. /\ req[c].pc = "write" /\ req[c].todo = {}
        /\ tree' = tree /\ staged' = staged /\ patch' = patch /\ newest' = newest
        /\ gen' = gen /\ spent' = spent
    BY DEF MarkApplied
  <1>2. /\ Inv /\ Rest(c) /\ Latest
        /\ proposal \in [Proposals -> ProposalTypes] /\ req \in [Clients -> RequestTypes]
    BY RestHolds, KnownTyped DEF Strong
  <1>3. /\ p \in Known /\ p \in Proposals /\ p # 0 /\ p \in Nat /\ newest >= patch /\ patch >= p
        /\ newest \in Nat /\ patch \in Nat
    BY <1>1, AtWork
  <1>4. \A i \in Proposals : /\ proposal'[i].files = proposal[i].files
                             /\ proposal'[i].original = proposal[i].original
                             /\ i # p => proposal'[i] = proposal[i]
    BY <1>2 DEF MarkApplied, ProposalTypes
  <1>5. proposal'[p].applied
    BY <1>2, <1>3 DEF MarkApplied, ProposalTypes
  <1>6. /\ req'[c].pc = "save" /\ req'[c].p = p
    BY <1>1, <1>2 DEF MarkApplied, Goes, RequestTypes
  <1>7. Known' = Known
    BY <1>1 DEF Known
  <1>8. \A i \in Proposals : Engaged(i)' => Engaged(i)
    BY <1>1, <1>4, <1>6 DEF Engaged
  <1>9. \A i \in Proposals : (InTree(i)' <=> InTree(i)) /\ (Alive(i)' => Alive(i))
    <2>1. \A i \in Proposals : InTree(i)' <=> InTree(i)
      BY <1>1, <1>4 DEF InTree
    <2> QED BY <1>4, <1>8, <2>1 DEF Alive
  <1>10. Own' /\ NoTorn' /\ Fresh'
    <2>1. Own'
      BY <1>1, <1>4 DEF Strong, Own
    <2>2. NoTorn'
      BY <1>1, <1>4 DEF Strong, NoTorn
    <2>3. Fresh'
      BY <1>1, <1>4 DEF Strong, Fresh
    <2> QED BY <2>1, <2>2, <2>3
  <1>11. AppliedKnown'
    BY <1>3, <1>4, <1>7 DEF Strong, AppliedKnown
  <1>12. Latest'
    <2>1. newest' \in Known' \cup {0} /\ patch' <= newest'
      BY <1>1, <1>2, <1>7 DEF Latest
    <2>2. \A d \in Clients : req'[d].p = req[d].p
      BY <1>6
    <2>3. \A i \in Proposals : (proposal'[i].applied \/ InTree(i)') =>
             /\ newest' >= i
             /\ patch' = 0 \/ patch' >= i
             /\ \A d \in Clients : req'[d].p = 0 \/ req'[d].p >= i
      <3>1. ASSUME NEW i \in Proposals, proposal[i].applied \/ InTree(i)
            PROVE  /\ newest >= i
                   /\ patch = 0 \/ patch >= i
                   /\ \A d \in Clients : req[d].p = 0 \/ req[d].p >= i
        BY <1>2, <3>1 DEF Latest
      <3>2. newest >= p /\ patch >= p /\ \A d \in Clients : req[d].p >= p
        BY <1>3
      <3> QED BY <1>1, <1>4, <1>9, <2>2, <3>1, <3>2
    <2> QED BY <1>1, <1>2, <2>1, <2>2, <2>3 DEF Latest
  <1>13. Apart'
    BY <1>4, <1>8, <1>9 DEF Strong, Apart
  <1>14. Whole'
    <2>1. ASSUME NEW j \in Proposals, Alive(j), NEW g \in proposal[j].files, j # p => ~Halfway(j)
          PROVE  tree[g] # proposal[j].original[g]
      <3>1. CASE j = p
        BY <1>1, <1>2, <2>1, <3>1 DEF Rest, Mine
      <3>2. CASE j # p
        BY <2>1, <3>2 DEF Strong, Whole
      <3> QED BY <3>1, <3>2
    <2>2. \A j \in Proposals : j # p => ~Halfway(j)
      BY DEF Halfway
    <2> QED BY <1>1, <1>4, <1>9, <2>1, <2>2 DEF Whole
  <1>15. Rest(c)'
    BY <1>1, <1>5, <1>6, <1>12 DEF Rest, Mine, Latest
  <1>16. Working'
    BY <1>15 DEF Working, Rest
  <1>17. Shown'
    BY <1>1, <1>3 DEF Shown
  <1> QED BY <1>10, <1>11, <1>12, <1>13, <1>14, <1>16, <1>17 DEF Strong

LEMMA StrongEdit ==
    ASSUME Strong, Inv', NEW f \in Paths, Edit(f)
    PROVE  Strong'
  <1> DEFINE k == spent.edits + 1
  <1>1. /\ proposal' = proposal /\ staged' = staged /\ patch' = patch /\ newest' = newest
        /\ gen' = gen /\ req' = req
    BY DEF Edit
  <1>2. /\ Inv /\ tree \in [Paths -> Contents] /\ spent \in Bounds /\ spent.edits \in Nat
        /\ \A i \in Proposals : proposal[i].files \subseteq Paths
    BY KnownTyped, TypeParts DEF Strong, Inv, ProposalTypes
  <1>3. /\ k \in 1 .. MaxEdits /\ k > spent.edits
        /\ spent'.edits = k
    <2>1. spent'.edits = k
      BY <1>2 DEF Edit, Bounds
    <2> QED BY <1>2, <2>1, Constants DEF Edit
  <1>4. tree'[f] = Edited(k) /\ \A g \in Paths : g # f => tree'[g] = tree[g]
    BY <1>2 DEF Edit
  <1>5. /\ Edited(k) # Torn
        /\ \A i \in Proposals : /\ Edited(k) # Proposed(i)
                                /\ Edited(k) # proposal[i].original[f]
        /\ \A l \in 1 .. MaxEdits : Edited(k) = Edited(l) => k = l
    BY <1>3, EditsTold DEF Strong, Fresh
  <1>6. Known' = Known
    BY <1>1 DEF Known
  <1>7. \A i \in Proposals : (Engaged(i)' <=> Engaged(i)) /\ (Halfway(i)' <=> Halfway(i))
    BY <1>1 DEF Engaged, Halfway
  <1>8. \A i \in Proposals : (InTree(i)' => InTree(i)) /\ (Alive(i)' => Alive(i))
    <2>1. \A i \in Proposals : InTree(i)' => InTree(i)
      BY <1>1, <1>2, <1>4, <1>5 DEF InTree
    <2> QED BY <1>1, <1>7, <2>1 DEF Alive
  <1>9. Own' /\ AppliedKnown' /\ NoTorn'
    <2>1. Own'
      BY <1>1, <1>4, <1>5 DEF Strong, Own
    <2>2. NoTorn'
      BY <1>1, <1>4, <1>5 DEF Strong, NoTorn
    <2>3. AppliedKnown'
      BY <1>1, <1>6 DEF Strong, AppliedKnown
    <2> QED BY <2>1, <2>2, <2>3
  <1>10. Fresh'
    <2>1. ASSUME NEW g \in Paths, NEW l \in 1 .. MaxEdits, l > k
          PROVE  tree'[g] # Edited(l) /\ \A i \in Proposals : proposal[i].original[g] # Edited(l)
      <3>1. l > spent.edits /\ l # k
        BY <1>2, <1>3, <2>1
      <3> QED BY <1>4, <1>5, <3>1 DEF Strong, Fresh
    <2> QED BY <1>1, <1>3, <2>1 DEF Fresh
  <1>11. Latest'
    BY <1>1, <1>6, <1>8 DEF Strong, Latest
  <1>12. Apart'
    BY <1>1, <1>7, <1>8 DEF Strong, Apart
  <1>13. Whole'
    <2>1. ASSUME NEW j \in Proposals, Alive(j), ~Halfway(j), NEW g \in proposal[j].files
          PROVE  tree'[g] # proposal[j].original[g]
      <3>1. tree[g] # proposal[j].original[g] /\ g \in Paths
        BY <1>2, <2>1 DEF Strong, Whole
      <3> QED BY <1>4, <1>5, <3>1
    <2> QED BY <1>1, <1>7, <1>8, <2>1 DEF Whole
  <1>14. Working'
    <2>1. ASSUME NEW c \in Clients
          PROVE  Rest(c)'
      <3>1. Rest(c)
        BY RestHolds
      <3>2. CASE req[c].pc = "idle"
        BY <1>1, <1>11, <3>1, <3>2 DEF Rest, Latest
      <3>3. CASE req[c].pc # "idle"
        <4>1. req[c].p \in Proposals
          <5>1. req[c].p # 0
            BY <1>2, <3>3 DEF Inv, TypeOK
          <5> QED BY <1>2, <5>1, KnownTyped
        <4>2. \A g \in Mine(c).files : g \in Paths
          BY <1>2, <4>1 DEF Mine
        <4>3. req[c].pc = "write" => \A g \in Mine(c).files :
                 \/ g \in req[c].todo /\ tree'[g] # Proposed(req[c].p)
                 \/ g \in req[c].written /\ tree'[g] # Mine(c).original[g]
          <5>1. ASSUME req[c].pc = "write", NEW g \in Mine(c).files
                PROVE  \/ g \in req[c].todo /\ tree'[g] # Proposed(req[c].p)
                       \/ g \in req[c].written /\ tree'[g] # Mine(c).original[g]
            <6>1. \/ g \in req[c].todo /\ tree[g] # Proposed(req[c].p)
                  \/ g \in req[c].written /\ tree[g] # Mine(c).original[g]
              BY <3>1, <5>1 DEF Rest
            <6>2. CASE g = f
              BY <1>4, <1>5, <4>1, <6>1, <6>2 DEF Mine
            <6>3. CASE g # f
              BY <1>4, <4>2, <6>1, <6>3
            <6> QED BY <6>2, <6>3
          <5> QED BY <5>1
        <4>4. req[c].pc \in {"restore", "undoing"} => \A g \in Mine(c).files :
                 g \in req[c].todo \/ tree'[g] # Proposed(req[c].p)
          <5>1. ASSUME req[c].pc \in {"restore", "undoing"}, NEW g \in Mine(c).files
                PROVE  g \in req[c].todo \/ tree'[g] # Proposed(req[c].p)
            BY <1>4, <1>5, <3>1, <4>1, <4>2, <5>1 DEF Rest
          <5> QED BY <5>1
        <4>5. InTree(req[c].p)' => InTree(req[c].p)
          <5>1. (req[c].p)' = req[c].p
            BY <1>1
          <5> QED BY <1>1, <1>8, <4>1 DEF InTree
        <4> QED BY <1>1, <1>11, <3>1, <4>3, <4>4, <4>5 DEF Rest, Mine, Latest
      <3> QED BY <3>2, <3>3
    <2> QED BY <2>1 DEF Working, Rest
  <1>15. Shown'
    <2>1. newest # 0 => newest \in Proposals
      BY <1>2, KnownTyped DEF Strong, Latest
    <2>2. newest # 0 => (InTree(newest)' => InTree(newest))
      BY <1>1, <1>8, <2>1 DEF InTree
    <2> QED BY <1>1, <2>2 DEF Strong, Shown
  <1> QED BY <1>9, <1>10, <1>11, <1>12, <1>13, <1>14, <1>15 DEF Strong

LEMMA StrongInit == Init => Strong
  <1> SUFFICES ASSUME Init PROVE Strong
    OBVIOUS
  <1>1. Inv
    BY InvInit
  <1>2. /\ \A f \in Paths : tree[f] \in {Absent, Original}
        /\ \A i \in Proposals : proposal[i].files = {} /\ ~proposal[i].applied
                                /\ \A f \in Paths : proposal[i].original[f] = Absent
        /\ \A c \in Clients : req[c].p = 0 /\ req[c].pc = "idle"
        /\ patch = 0 /\ newest = 0
    BY DEF Init, Untouched, Idle
  <1>3. \A i \in Proposals : Proposed(i) \notin {Absent, Original, Torn}
    BY ContentsTold
  <1>4. Torn \notin {Absent, Original}
    BY DEF Torn, Absent, Original
  <1>5. \A i \in Proposals : ~InTree(i) /\ ~Engaged(i)
    BY <1>2 DEF InTree, Engaged
  <1>6. \A i \in Proposals : ~Alive(i)
    BY <1>5 DEF Alive
  <1>7. Own /\ AppliedKnown /\ NoTorn
    <2>1. Own
      BY <1>2, <1>3 DEF Own
    <2>2. AppliedKnown /\ NoTorn
      BY <1>2, <1>4 DEF AppliedKnown, NoTorn
    <2> QED BY <2>1, <2>2
  <1>8. Fresh
    BY <1>2, EditsTold DEF Fresh
  <1>9. Latest /\ Shown
    BY <1>2, <1>5 DEF Latest, Shown
  <1>10. Apart /\ Whole
    BY <1>5, <1>6 DEF Apart, Whole
  <1>11. Working
    BY <1>2 DEF Working
  <1> QED BY <1>1, <1>7, <1>8, <1>9, <1>10, <1>11 DEF Strong

LEMMA StrongNext ==
    ASSUME OneCalmClient
    PROVE  Strong /\ [Next]_vars => Strong'
  <1> SUFFICES ASSUME Strong, [Next]_vars PROVE Strong'
    OBVIOUS
  <1>0. Inv'
    BY InvNext DEF Strong
  <1>1. CASE Generation
    BY <1>0, <1>1, StrongReply, StrongReadFile, StrongStageFails, StrongDropOldRecord,
       StrongStagePublish DEF Generation
  <1>2. ASSUME NEW c \in Clients, Request(c) PROVE Strong'
    <2>1. \A d \in Clients : d = c
      BY DEF OneCalmClient
    <2>2. CASE \E f \in Paths : \/ WriteFile(c, f) \/ WriteFails(c, f)
                                \/ RestoreFile(c, f) \/ UndoFile(c, f)
      BY <1>0, <2>1, <2>2, StrongWriteFile, StrongWriteFails, StrongPutBack DEF RestoreFile, UndoFile
    <2>3. CASE \/ ApplyBegin(c) \/ ApplyCheck(c) \/ ApplyRefused(c) \/ MarkApplied(c)
               \/ SavePatchRecord(c) \/ ApplyPublish(c) \/ ApplyFailed(c)
      BY <1>0, <2>1, <2>3, StrongApplyBegin, StrongApplyCheck, StrongApplyRefused,
         StrongMarkApplied, StrongSavePatchRecord, StrongApplyPublish, StrongApplyFailed
    <2>4. CASE \/ RejectBegin(c) \/ UndoBegin(c) \/ UndoRefused(c) \/ UndoEnd(c)
               \/ DropPatchRecord(c) \/ Forget(c)
      BY <1>0, <2>1, <2>4, StrongRejectBegin, StrongUndoBegin, StrongUndoRefused, StrongUndoEnd,
         StrongDropPatchRecord, StrongForget
    <2> QED BY <1>2, <2>2, <2>3, <2>4 DEF Request
  <1>3. ASSUME NEW f \in Paths, Edit(f) PROVE Strong'
    BY <1>0, <1>3, StrongEdit
  <1>4. ~Restart
    <2>1. spent.crashes \in Nat
      BY Constants, TypeParts DEF Strong, Inv, Bounds
    <2> QED BY <2>1 DEF Restart, OneCalmClient
  <1>5. CASE UNCHANGED vars
    <2>1. /\ tree' = tree /\ proposal' = proposal /\ req' = req /\ spent' = spent
          /\ gen' = gen /\ staged' = staged /\ patch' = patch /\ newest' = newest
      BY <1>5 DEF vars
    <2>2. Known' = Known
      BY <2>1 DEF Known
    <2>3. Latest' /\ Shown'
      BY <2>1, <2>2 DEF Strong, Latest, Shown, InTree
    <2> QED BY <1>0, <2>1, <2>2, <2>3, StillKeeps
  <1> QED BY <1>1, <1>2, <1>3, <1>4, <1>5 DEF Next

\* Whenever a.mu is free no proposal is in the tree in part and no file is torn
\* ("so the tree is never left with half a proposal in it", aiworkspace.go
\* 784-785), for one request at a time whose writes and undos do not fail and a
\* server that is not killed.
THEOREM NeverHalf ==
    ASSUME OneCalmClient
    PROVE  Spec => []NoHalfProposal
  <1>1. Strong => NoHalfProposal
    <2> SUFFICES ASSUME Strong, mu = "free"
                 PROVE  /\ \A f \in Paths : tree[f] # Torn
                        /\ \A i \in 1 .. staged : InTree(i) =>
                              \A f \in proposal[i].files : tree[f] # proposal[i].original[f]
      BY DEF NoHalfProposal
    <2>1. \A f \in Paths : tree[f] # Torn
      BY DEF Strong, NoTorn
    <2>2. \A c \in Clients : req[c].pc \notin {"write", "restore", "undoing"}
      BY Constants DEF Strong, Inv, TypeOK
    <2>3. ASSUME NEW i \in 1 .. staged, InTree(i), NEW f \in proposal[i].files
          PROVE  tree[f] # proposal[i].original[f]
      <3>1. i \in Proposals
        BY Constants, KnownTyped DEF Strong, Proposals
      <3>2. ~Halfway(i) /\ Alive(i)
        BY <2>2, <2>3 DEF Halfway, Alive
      <3> QED BY <2>3, <3>1, <3>2 DEF Strong, Whole
    <2> QED BY <2>1, <2>3
  <1>2. Strong /\ [Next]_vars => Strong'
    BY StrongNext
  <1> QED BY <1>1, <1>2, StrongInit, PTL DEF Spec

---------------------------------------------------------------------------
(***************************************************************************)
(* What keeps the undo within reach of any number of requests, edits,      *)
(* failing calls and restarts: nothing applied is newer than what the      *)
(* screen, the requests and the record name, and what a reject is about to *)
(* forget has been put back.                                               *)
(***************************************************************************)
Active(c) == req[c].pc # "idle"
Applied(i) == proposal[i].applied

\* A proposal would only be put back to older ones.
Behind ==
    \A f \in Paths, i \in Proposals, j \in Proposals :
        proposal[i].original[f] = Proposed(j) => j < i

\* The newest applied proposal is not beyond the screen, the requests under way
\* or the last reply.
InOrder ==
    /\ newest \in Known \union {0} /\ patch <= newest /\ record <= newest
    /\ \A c \in Clients : IF Active(c) THEN 0 < req[c].p /\ req[c].p <= patch
                                       ELSE req[c] = Idle
    /\ \A i \in Proposals : Applied(i) =>
          /\ i <= newest
          /\ patch = 0 \/ i <= patch
          /\ \A c \in Clients : Active(c) => i <= req[c].p

\* Where a proposal's contents are left while it is written or put back.
PutAway(c) ==
    /\ req[c].pc = "write" => \A f \in Mine(c).files :
          tree[f] = Proposed(req[c].p) => f \in req[c].written
    /\ req[c].pc \in {"restore", "undoing"} => \A f \in Mine(c).files :
          tree[f] = Proposed(req[c].p) => f \in req[c].todo
    /\ req[c].pc \in {"drop", "forget"} => ~(Mine(c).applied /\ InTree(req[c].p))

Standing == newest # 0 /\ Applied(newest) /\ InTree(newest)
OnScreen == Standing => patch # 0

\* The record names what stands, unless it is being written, taken back or saved.
Recorded ==
    "save" \notin Faulty =>
        /\ Standing /\ gen.pc # "publish" =>
              \/ record = newest
              \/ \E c \in Clients : req[c].p = newest /\ req[c].pc \in {"write", "restore", "save"}
        /\ record # 0 => \A i \in Proposals : Applied(i) =>
              i <= record \/ \E c \in Clients : req[c].p = i /\ req[c].pc = "save"

\* Files are put back without a failure and, with restarts, records are saved.
PutsBack == "undo" \notin Faulty /\ (MaxCrashes = 0 \/ "save" \notin Faulty)

UndoInv ==
    /\ Inv /\ Behind /\ InOrder /\ (\A c \in Clients : PutAway(c)) /\ OnScreen /\ Recorded

\* A request's step that leaves the proposals, the screen, the record and the
\* other requests alone.
MovesOnly(c) ==
    /\ proposal' = proposal /\ staged' = staged /\ patch' = patch /\ record' = record
    /\ newest' = newest /\ gen' = gen
    /\ \A d \in Clients : d # c => req'[d] = req[d]

LEMMA ActiveTyped ==
    ASSUME UndoInv
    PROVE  /\ \A c \in Clients : /\ Active(c) => req[c].p \in Known /\ req[c].p \in Proposals
                                 /\ req[c].p \in Nat
           /\ patch \in Nat /\ newest \in Nat /\ record \in Nat /\ staged \in Nat
           /\ newest # 0 => newest \in Known /\ newest \in Proposals
           /\ req \in [Clients -> RequestTypes]
           /\ \A i \in Proposals : proposal[i].files \subseteq Paths
  <1>1. /\ Inv /\ InOrder
    BY DEF UndoInv
  <1>2. record \in Nat
    BY <1>1, TypeParts, KnownTyped DEF Inv, SharedTyped
  <1>3. \A i \in Proposals : proposal[i].files \subseteq Paths
    BY <1>1, KnownTyped DEF ProposalTypes
  <1>4. \A c \in Clients : Active(c) => req[c].p \in Known /\ req[c].p \in Proposals
    BY <1>1, KnownTyped DEF InOrder
  <1> QED BY <1>1, <1>2, <1>3, <1>4, KnownTyped DEF InOrder

\* The newest applied proposal is the one every request under way is about.
LEMMA NewestHandled ==
    ASSUME UndoInv, NEW c \in Clients, Active(c), newest # 0, Applied(newest)
    PROVE  req[c].p = newest /\ patch = newest
  <1>1. /\ newest <= req[c].p /\ req[c].p <= patch /\ patch <= newest
    BY ActiveTyped DEF UndoInv, InOrder
  <1> QED BY <1>1, ActiveTyped

\* While another request writes, holding a.mu, or while it begins, a request's
\* files stay where they are; and nobody is beside one that rejects.
LEMMA OthersPutAway ==
    ASSUME UndoInv, Orderly, NEW c \in Clients, NEW d \in Clients, d # c, req'[d] = req[d],
           \A i \in Proposals : proposal'[i].files = proposal[i].files,
           \/ tree' = tree /\ proposal' = proposal
           \/ tree' = tree /\ Active(c)
           \/ req[c].pc \in Holding
    PROVE  PutAway(d)'
  <1>1. PutAway(d) /\ LockHeld
    BY TypeParts DEF UndoInv, Inv
  <1>2. CASE tree' = tree /\ proposal' = proposal
    BY <1>1, <1>2 DEF PutAway, Mine, InTree
  <1>3. CASE Active(c) /\ (tree' = tree \/ req[c].pc \in Holding)
    <2>1. req[d].pc \notin {"drop", "forget"}
      BY <1>3 DEF Orderly, Rejecting, Active
    <2>2. CASE req[d].pc \in {"write", "restore", "undoing"}
      <3>1. mu = d /\ req[d].p \in Proposals
        BY <1>1, <2>2, ActiveTyped DEF LockHeld, Holding, Active
      <3>2. req[c].pc \notin Holding
        BY <1>1, <3>1 DEF LockHeld
      <3>3. tree' = tree /\ proposal'[req[d].p].files = proposal[req[d].p].files
        BY <1>3, <3>1, <3>2
      <3> QED BY <1>1, <2>1, <3>3 DEF PutAway, Mine
    <2>3. CASE req[d].pc \notin {"write", "restore", "undoing"}
      BY <2>1, <2>3 DEF PutAway
    <2> QED BY <2>2, <2>3
  <1>4. req[c].pc \in Holding => Active(c)
    BY DEF Holding, Active
  <1> QED BY <1>2, <1>3, <1>4

\* What is left to show of such a step.
LEMMA MovesKeep ==
    ASSUME UndoInv, Inv', NEW c \in Clients, MovesOnly(c),
           \A d \in Clients : PutAway(d)',
           \/ req'[c] = Idle
           \/ /\ Active(c)' /\ 0 < req'[c].p /\ req'[c].p <= patch
              /\ \A i \in Proposals : Applied(i) => i <= req'[c].p,
           \A i \in Proposals : InTree(i)' =>
              \/ InTree(i)
              \/ Active(c) /\ i = req[c].p /\ req'[c].p = i /\ req'[c].pc = "write"
              \/ Active(c) /\ i < req[c].p,
           Standing' /\ req[c].p = newest /\ req[c].pc \in {"write", "restore"} =>
              req'[c].p = newest /\ req'[c].pc \in {"write", "restore"},
           req[c].pc # "save"
    PROVE  UndoInv'
  <1>1. /\ \A i \in Proposals : Applied(i)' <=> Applied(i)
        /\ \A i \in Proposals : proposal'[i] = proposal[i]
        /\ newest' = newest /\ patch' = patch /\ record' = record /\ gen' = gen
        /\ Known' = Known
        /\ \A d \in Clients : d # c => req'[d] = req[d]
    BY DEF MovesOnly, Applied, Known
  <1>2. Behind'
    BY <1>1 DEF UndoInv, Behind
  <1>3. InOrder'
    <2>1. \A d \in Clients : IF Active(d)' THEN 0 < req'[d].p /\ req'[d].p <= patch
                                           ELSE req'[d] = Idle
      <3>1. ASSUME NEW d \in Clients, d # c
            PROVE  IF Active(d)' THEN 0 < req'[d].p /\ req'[d].p <= patch ELSE req'[d] = Idle
        BY <1>1, <3>1 DEF UndoInv, InOrder, Active
      <3>2. IF Active(c)' THEN 0 < req'[c].p /\ req'[c].p <= patch ELSE req'[c] = Idle
        BY DEF Active, Idle
      <3> QED BY <3>1, <3>2
    <2>2. \A i \in Proposals : Applied(i) => \A d \in Clients : Active(d)' => i <= req'[d].p
      <3>1. ASSUME NEW d \in Clients, d # c, NEW i \in Proposals, Applied(i), Active(d)'
            PROVE  i <= req'[d].p
        BY <1>1, <3>1 DEF UndoInv, InOrder, Active
      <3>2. ASSUME NEW i \in Proposals, Applied(i), Active(c)'
            PROVE  i <= req'[c].p
        BY <3>2 DEF Active, Idle
      <3> QED BY <3>1, <3>2
    <2> QED BY <1>1, <2>1, <2>2 DEF UndoInv, InOrder
  <1>4. Standing' => \/ Standing
                     \/ /\ newest # 0 /\ Active(c) /\ newest = req[c].p
                        /\ req'[c].p = newest /\ req'[c].pc = "write"
    <2> SUFFICES ASSUME Standing' PROVE Standing \/ /\ newest # 0 /\ Active(c) /\ newest = req[c].p
                                                    /\ req'[c].p = newest /\ req'[c].pc = "write"
      OBVIOUS
    <2>1. newest # 0 /\ newest \in Proposals /\ Applied(newest) /\ InTree(newest)'
      BY <1>1, ActiveTyped DEF Standing, InTree
    <2>2. ~(Active(c) /\ newest < req[c].p)
      BY <2>1, NewestHandled, ActiveTyped
    <2>3. \/ InTree(newest)
          \/ Active(c) /\ newest = req[c].p /\ req'[c].p = newest /\ req'[c].pc = "write"
          \/ Active(c) /\ newest < req[c].p
      <3>1. PICK i \in Proposals : i = newest
        BY <2>1
      <3>2. InTree(i)'
        BY <1>1, <2>1, <3>1 DEF InTree
      <3> QED BY <3>1, <3>2 DEF InTree
    <2> QED BY <2>1, <2>2, <2>3 DEF Standing
  <1>5. OnScreen'
    <2>1. Active(c) => patch # 0
      BY ActiveTyped DEF UndoInv, InOrder
    <2> QED BY <1>1, <1>4, <2>1 DEF UndoInv, OnScreen
  <1>6. Recorded'
    <2>1. ASSUME "save" \notin Faulty, Standing', gen.pc # "publish"
          PROVE  record = newest \/ \E d \in Clients : req'[d].p = newest
                                        /\ req'[d].pc \in {"write", "restore", "save"}
      <3>1. CASE Standing
        BY <1>1, <2>1, <3>1 DEF UndoInv, Recorded
      <3>2. CASE ~Standing
        BY <1>4, <2>1, <3>2
      <3> QED BY <3>1, <3>2
    <2>2. ASSUME "save" \notin Faulty, record # 0, NEW i \in Proposals, Applied(i)
          PROVE  i <= record \/ \E d \in Clients : req'[d].p = i /\ req'[d].pc = "save"
      BY <1>1, <2>2 DEF UndoInv, Recorded
    <2> QED BY <1>1, <2>1, <2>2 DEF Recorded
  <1> QED BY <1>2, <1>3, <1>5, <1>6 DEF UndoInv

LEMMA UndoApplyBegin ==
    ASSUME UndoInv, Inv', Orderly, NEW c \in Clients, ApplyBegin(c)
    PROVE  UndoInv'
  <1>1. /\ MovesOnly(c) /\ tree' = tree /\ req[c].pc = "idle" /\ patch # 0
        /\ req'[c].p = patch /\ req'[c].pc = "apply"
    BY ActiveTyped DEF ApplyBegin, MovesOnly, Idle
  <1>2. \A d \in Clients : PutAway(d)'
    <2>1. PutAway(c)'
      BY <1>1 DEF MovesOnly, PutAway, Mine, InTree
    <2> QED BY <1>1, <2>1, OthersPutAway DEF MovesOnly
  <1>3. \A i \in Proposals : InTree(i)' => InTree(i)
    BY <1>1 DEF MovesOnly, InTree
  <1>4. /\ Active(c)' /\ 0 < req'[c].p /\ req'[c].p <= patch
        /\ \A i \in Proposals : Applied(i) => i <= req'[c].p
    BY <1>1, ActiveTyped DEF UndoInv, InOrder, Active
  <1> QED BY <1>1, <1>2, <1>3, <1>4, MovesKeep

LEMMA UndoRejectBegin ==
    ASSUME UndoInv, Inv', Orderly, NEW c \in Clients, RejectBegin(c)
    PROVE  UndoInv'
  <1>1. /\ MovesOnly(c) /\ tree' = tree /\ req[c].pc = "idle" /\ patch # 0
        /\ req'[c].p = patch /\ req'[c].pc = (IF proposal[patch].applied THEN "undo" ELSE "drop")
    BY ActiveTyped DEF RejectBegin, MovesOnly, Idle
  <1>2. \A d \in Clients : PutAway(d)'
    <2>1. PutAway(c)'
      BY <1>1 DEF MovesOnly, PutAway, Mine, InTree
    <2> QED BY <1>1, <2>1, OthersPutAway DEF MovesOnly
  <1>3. \A i \in Proposals : InTree(i)' => InTree(i)
    BY <1>1 DEF MovesOnly, InTree
  <1>4. /\ Active(c)' /\ 0 < req'[c].p /\ req'[c].p <= patch
        /\ \A i \in Proposals : Applied(i) => i <= req'[c].p
    BY <1>1, ActiveTyped DEF UndoInv, InOrder, Active
  <1> QED BY <1>1, <1>2, <1>3, <1>4, MovesKeep

LEMMA UndoApplyCheck ==
    ASSUME UndoInv, Inv', Orderly, NEW c \in Clients, ApplyCheck(c)
    PROVE  UndoInv'
  <1>1. /\ MovesOnly(c) /\ tree' = tree /\ req[c].pc = "apply"
        /\ req'[c].p = req[c].p /\ req'[c].pc = "write" /\ Unchanged(Mine(c))
    BY ActiveTyped DEF ApplyCheck, MovesOnly, Ends, Goes, Idle
  <1>2. Active(c) /\ req[c].p \in Proposals /\ req[c].p \in Known /\ PutAway(c)
    BY <1>1, ActiveTyped DEF Active, UndoInv
  <1>3. \A d \in Clients : PutAway(d)'
    <2>1. PutAway(c)'
      <3>1. \A f \in Mine(c).files : tree[f] # Proposed(req[c].p)
        BY <1>1, <1>2, ActiveTyped DEF UndoInv, Inv, OriginalsForeign, Unchanged, Mine
      <3> QED BY <1>1, <3>1 DEF MovesOnly, PutAway, Mine
    <2> QED BY <1>1, <1>2, <2>1, OthersPutAway DEF MovesOnly
  <1>4. \A i \in Proposals : InTree(i)' => InTree(i)
    BY <1>1 DEF MovesOnly, InTree
  <1>5. \/ req'[c] = Idle
        \/ /\ Active(c)' /\ 0 < req'[c].p /\ req'[c].p <= patch
           /\ \A i \in Proposals : Applied(i) => i <= req'[c].p
    BY <1>1, <1>2 DEF UndoInv, InOrder, Active
  <1> QED BY <1>1, <1>2, <1>3, <1>4, <1>5, MovesKeep

LEMMA UndoApplyRefused ==
    ASSUME UndoInv, Inv', Orderly, NEW c \in Clients, ApplyRefused(c)
    PROVE  UndoInv'
  <1>1. /\ MovesOnly(c) /\ tree' = tree /\ req[c].pc = "apply"
        /\ req'[c] = Idle
    BY ActiveTyped DEF ApplyRefused, MovesOnly, Ends, Goes, Idle
  <1>2. Active(c) /\ req[c].p \in Proposals /\ req[c].p \in Known /\ PutAway(c)
    BY <1>1, ActiveTyped DEF Active, UndoInv
  <1>3. \A d \in Clients : PutAway(d)'
    <2>1. PutAway(c)'
      BY <1>1 DEF PutAway, Idle
    <2> QED BY <1>1, <1>2, <2>1, OthersPutAway DEF MovesOnly
  <1>4. \A i \in Proposals : InTree(i)' => InTree(i)
    BY <1>1 DEF MovesOnly, InTree
  <1>5. \/ req'[c] = Idle
        \/ /\ Active(c)' /\ 0 < req'[c].p /\ req'[c].p <= patch
           /\ \A i \in Proposals : Applied(i) => i <= req'[c].p
    BY <1>1, <1>2 DEF UndoInv, InOrder, Active
  <1> QED BY <1>1, <1>2, <1>3, <1>4, <1>5, MovesKeep

LEMMA UndoUndoBegin ==
    ASSUME UndoInv, Inv', Orderly, NEW c \in Clients, UndoBegin(c)
    PROVE  UndoInv'
  <1>1. /\ MovesOnly(c) /\ tree' = tree /\ req[c].pc = "undo"
        /\ req'[c].p = req[c].p /\ req'[c].pc = "undoing" /\ req'[c].todo = Mine(c).files
    BY ActiveTyped DEF UndoBegin, MovesOnly, Ends, Goes, Idle
  <1>2. Active(c) /\ req[c].p \in Proposals /\ req[c].p \in Known /\ PutAway(c)
    BY <1>1, ActiveTyped DEF Active, UndoInv
  <1>3. \A d \in Clients : PutAway(d)'
    <2>1. PutAway(c)'
      BY <1>1 DEF MovesOnly, PutAway, Mine
    <2> QED BY <1>1, <1>2, <2>1, OthersPutAway DEF MovesOnly
  <1>4. \A i \in Proposals : InTree(i)' => InTree(i)
    BY <1>1 DEF MovesOnly, InTree
  <1>5. \/ req'[c] = Idle
        \/ /\ Active(c)' /\ 0 < req'[c].p /\ req'[c].p <= patch
           /\ \A i \in Proposals : Applied(i) => i <= req'[c].p
    BY <1>1, <1>2 DEF UndoInv, InOrder, Active
  <1> QED BY <1>1, <1>2, <1>3, <1>4, <1>5, MovesKeep

LEMMA UndoUndoRefused ==
    ASSUME UndoInv, Inv', Orderly, NEW c \in Clients, UndoRefused(c)
    PROVE  UndoInv'
  <1>1. /\ MovesOnly(c) /\ tree' = tree /\ req[c].pc = "undo"
        /\ req'[c] = Idle
    BY ActiveTyped DEF UndoRefused, MovesOnly, Ends, Goes, Idle
  <1>2. Active(c) /\ req[c].p \in Proposals /\ req[c].p \in Known /\ PutAway(c)
    BY <1>1, ActiveTyped DEF Active, UndoInv
  <1>3. \A d \in Clients : PutAway(d)'
    <2>1. PutAway(c)'
      BY <1>1 DEF PutAway, Idle
    <2> QED BY <1>1, <1>2, <2>1, OthersPutAway DEF MovesOnly
  <1>4. \A i \in Proposals : InTree(i)' => InTree(i)
    BY <1>1 DEF MovesOnly, InTree
  <1>5. \/ req'[c] = Idle
        \/ /\ Active(c)' /\ 0 < req'[c].p /\ req'[c].p <= patch
           /\ \A i \in Proposals : Applied(i) => i <= req'[c].p
    BY <1>1, <1>2 DEF UndoInv, InOrder, Active
  <1> QED BY <1>1, <1>2, <1>3, <1>4, <1>5, MovesKeep

LEMMA UndoUndoEnd ==
    ASSUME UndoInv, Inv', Orderly, NEW c \in Clients, UndoEnd(c)
    PROVE  UndoInv'
  <1>1. /\ MovesOnly(c) /\ tree' = tree /\ req[c].pc = "undoing"
        /\ req'[c].p = req[c].p /\ req'[c].pc = "drop" /\ req[c].todo = {}
    BY ActiveTyped DEF UndoEnd, MovesOnly, Ends, Goes, Idle
  <1>2. Active(c) /\ req[c].p \in Proposals /\ req[c].p \in Known /\ PutAway(c)
    BY <1>1, ActiveTyped DEF Active, UndoInv
  <1>3. \A d \in Clients : PutAway(d)'
    <2>1. PutAway(c)'
      BY <1>1, <1>2 DEF MovesOnly, PutAway, Mine, InTree
    <2> QED BY <1>1, <1>2, <2>1, OthersPutAway DEF MovesOnly
  <1>4. \A i \in Proposals : InTree(i)' => InTree(i)
    BY <1>1 DEF MovesOnly, InTree
  <1>5. \/ req'[c] = Idle
        \/ /\ Active(c)' /\ 0 < req'[c].p /\ req'[c].p <= patch
           /\ \A i \in Proposals : Applied(i) => i <= req'[c].p
    BY <1>1, <1>2 DEF UndoInv, InOrder, Active
  <1> QED BY <1>1, <1>2, <1>3, <1>4, <1>5, MovesKeep

LEMMA UndoApplyFailed ==
    ASSUME UndoInv, Inv', Orderly, NEW c \in Clients, ApplyFailed(c)
    PROVE  UndoInv'
  <1>1. /\ MovesOnly(c) /\ tree' = tree /\ req[c].pc = "restore"
        /\ req'[c] = Idle /\ req[c].todo = {}
    BY ActiveTyped DEF ApplyFailed, MovesOnly, Ends, Goes, Idle
  <1>2. Active(c) /\ req[c].p \in Proposals /\ req[c].p \in Known /\ PutAway(c)
    BY <1>1, ActiveTyped DEF Active, UndoInv
  <1>3. \A d \in Clients : PutAway(d)'
    <2>1. PutAway(c)'
      BY <1>1 DEF PutAway, Idle
    <2> QED BY <1>1, <1>2, <2>1, OthersPutAway DEF MovesOnly
  <1>4. \A i \in Proposals : InTree(i)' => InTree(i)
    BY <1>1 DEF MovesOnly, InTree
  <1>5. \/ req'[c] = Idle
        \/ /\ Active(c)' /\ 0 < req'[c].p /\ req'[c].p <= patch
           /\ \A i \in Proposals : Applied(i) => i <= req'[c].p
    BY <1>1, <1>2 DEF UndoInv, InOrder, Active
  <1>6. req[c].p = newest => ~Standing'
    <2>1. ~InTree(req[c].p)
      BY <1>1, <1>2 DEF PutAway, Mine, InTree
    <2> QED BY <1>1, <2>1 DEF MovesOnly, Standing, InTree
  <1> QED BY <1>1, <1>2, <1>3, <1>4, <1>5, <1>6, MovesKeep

LEMMA UndoWriteFile ==
    ASSUME UndoInv, Inv', Orderly, NEW c \in Clients, NEW f \in Paths, WriteFile(c, f)
    PROVE  UndoInv'
  <1>1. /\ MovesOnly(c) /\ req[c].pc = "write" /\ tree'[f] = Proposed(req[c].p)
        /\ \A g \in Paths : g # f => tree'[g] = tree[g]
        /\ req'[c].p = req[c].p /\ req'[c].pc = "write"
        /\ req'[c].written = req[c].written \union {f}
    BY KnownTyped, ActiveTyped DEF WriteFile, MovesOnly, RequestTypes, UndoInv
  <1>2. Active(c) /\ req[c].p \in Proposals /\ req[c].p \in Known /\ PutAway(c)
    BY <1>1, ActiveTyped DEF Active, UndoInv
  <1>3. \A d \in Clients : PutAway(d)'
    <2>1. \A g \in Mine(c).files : g \in Paths
      BY <1>2, ActiveTyped DEF Mine
    <2>2. PutAway(c)'
      BY <1>1, <1>2, <2>1 DEF MovesOnly, PutAway, Mine
    <2> QED BY <1>1, <1>2, <2>2, OthersPutAway DEF MovesOnly, Holding
  <1>4. \A i \in Proposals : InTree(i)' =>
           InTree(i) \/ (i = req[c].p /\ req'[c].p = i /\ req'[c].pc = "write")
    <2>1. ASSUME NEW i \in Proposals, InTree(i)', ~InTree(i)
          PROVE  i = req[c].p
      <3>1. PICK g \in proposal[i].files : tree'[g] = Proposed(i)
        BY <1>1, <2>1 DEF MovesOnly, InTree
      <3>2. g \in Paths /\ tree[g] # Proposed(i)
        BY <2>1, <3>1, ActiveTyped DEF InTree
      <3>3. tree'[g] = Proposed(req[c].p)
        BY <1>1, <3>1, <3>2
      <3> QED BY <1>2, <3>1, <3>3, ContentsTold
    <2> QED BY <1>1, <2>1
  <1>5. /\ Active(c)' /\ 0 < req'[c].p /\ req'[c].p <= patch
        /\ \A i \in Proposals : Applied(i) => i <= req'[c].p
    BY <1>1, <1>2 DEF UndoInv, InOrder, Active
  <1> QED BY <1>1, <1>2, <1>3, <1>4, <1>5, MovesKeep

LEMMA UndoWriteFails ==
    ASSUME UndoInv, Inv', Orderly, NEW c \in Clients, NEW f \in Paths, WriteFails(c, f)
    PROVE  UndoInv'
  <1>1. /\ MovesOnly(c) /\ req[c].pc = "write"
        /\ \A g \in Paths : tree'[g] \in {tree[g], Torn}
        /\ req'[c].p = req[c].p /\ req'[c].pc = "restore" /\ req'[c].todo = req[c].written
    BY KnownTyped, ActiveTyped DEF WriteFails, MovesOnly, RequestTypes, UndoInv
  <1>2. Active(c) /\ req[c].p \in Proposals /\ req[c].p \in Known /\ PutAway(c)
    BY <1>1, ActiveTyped DEF Active, UndoInv
  <1>3. \A i \in Proposals, g \in Paths : tree'[g] = Proposed(i) => tree[g] = Proposed(i)
    BY <1>1, ContentsTold
  <1>4. \A d \in Clients : PutAway(d)'
    <2>1. \A g \in Mine(c).files : g \in Paths
      BY <1>2, ActiveTyped DEF Mine
    <2>2. PutAway(c)'
      BY <1>1, <1>2, <1>3, <2>1 DEF MovesOnly, PutAway, Mine
    <2> QED BY <1>1, <1>2, <2>2, OthersPutAway DEF MovesOnly, Holding
  <1>5. \A i \in Proposals : InTree(i)' => InTree(i)
    BY <1>1, <1>3, ActiveTyped DEF MovesOnly, InTree
  <1>6. /\ Active(c)' /\ 0 < req'[c].p /\ req'[c].p <= patch
        /\ \A i \in Proposals : Applied(i) => i <= req'[c].p
    BY <1>1, <1>2 DEF UndoInv, InOrder, Active
  <1> QED BY <1>1, <1>2, <1>4, <1>5, <1>6, MovesKeep

LEMMA UndoPutBack ==
    ASSUME UndoInv, Inv', Orderly, NEW c \in Clients, NEW f \in Paths,
           PutBack(c, f), req[c].pc \in {"restore", "undoing"}, "undo" \notin Faulty
    PROVE  UndoInv'
  <1>1. /\ MovesOnly(c) /\ tree'[f] = Mine(c).original[f]
        /\ \A g \in Paths : g # f => tree'[g] = tree[g]
        /\ req'[c].p = req[c].p /\ req'[c].pc = req[c].pc /\ req'[c].todo = req[c].todo \ {f}
    BY KnownTyped, ActiveTyped DEF PutBack, Fault, MovesOnly, RequestTypes, UndoInv
  <1>2. Active(c) /\ req[c].p \in Proposals /\ req[c].p \in Known /\ PutAway(c)
    BY ActiveTyped DEF Active, UndoInv
  <1>3. /\ tree'[f] # Proposed(req[c].p)
        /\ \A i \in Proposals : tree'[f] = Proposed(i) => i < req[c].p
    BY <1>1, <1>2 DEF UndoInv, Inv, OriginalsForeign, Behind, Mine
  <1>4. \A d \in Clients : PutAway(d)'
    <2>1. \A g \in Mine(c).files : g \in Paths
      BY <1>2, ActiveTyped DEF Mine
    <2>2. PutAway(c)'
      BY <1>1, <1>2, <1>3, <2>1 DEF MovesOnly, PutAway, Mine
    <2> QED BY <1>1, <1>2, <2>2, OthersPutAway DEF MovesOnly, Holding
  <1>5. \A i \in Proposals : InTree(i)' => InTree(i) \/ i < req[c].p
    BY <1>1, <1>3, ActiveTyped DEF MovesOnly, InTree
  <1>6. /\ Active(c)' /\ 0 < req'[c].p /\ req'[c].p <= patch
        /\ \A i \in Proposals : Applied(i) => i <= req'[c].p
    BY <1>1, <1>2 DEF UndoInv, InOrder, Active
  <1> QED BY <1>1, <1>2, <1>4, <1>5, <1>6, MovesKeep

LEMMA UndoMarkApplied ==
    ASSUME UndoInv, Inv', Orderly, NEW c \in Clients, MarkApplied(c)
    PROVE  UndoInv'
  <1> DEFINE p == req[c].p
  <1>1. /\ tree' = tree /\ staged' = staged /\ patch' = patch /\ record' = record
        /\ newest' = newest /\ gen' = gen
        /\ \A d \in Clients : d # c => req'[d] = req[d]
        /\ req[c].pc = "write" /\ req'[c].p = p /\ req'[c].pc = "save"
    BY KnownTyped, ActiveTyped DEF MarkApplied, Goes, RequestTypes, UndoInv
  <1>2. Active(c) /\ p \in Proposals /\ p \in Known /\ p \in Nat
    BY <1>1, ActiveTyped DEF Active
  <1>3. /\ \A i \in Proposals : /\ proposal'[i].files = proposal[i].files
                                /\ proposal'[i].original = proposal[i].original
                                /\ Applied(i)' <=> Applied(i) \/ i = p
        /\ Known' = Known
    BY <1>1, <1>2, KnownTyped DEF MarkApplied, ProposalTypes, Applied, UndoInv, Known
  <1>4. Behind'
    BY <1>3 DEF UndoInv, Behind
  <1>5. 0 < p /\ p <= patch /\ patch <= newest /\ \A d \in Clients : Active(d) => req[d].p = p
    BY <1>2 DEF UndoInv, InOrder, Orderly, Active
  <1>6. \A d \in Clients : req'[d].p = req[d].p /\ (Active(d)' <=> Active(d))
    BY <1>1 DEF Active
  <1>7. InOrder'
    <2>1. \A d \in Clients : IF Active(d)' THEN 0 < req'[d].p /\ req'[d].p <= patch
                                           ELSE req'[d] = Idle
      BY <1>1, <1>2, <1>6 DEF UndoInv, InOrder
    <2>2. ASSUME NEW i \in Proposals, Applied(i) \/ i = p
          PROVE  /\ i <= newest /\ (patch = 0 \/ i <= patch)
                 /\ \A d \in Clients : Active(d) => i <= req[d].p
      BY <1>2, <1>5, <2>2, ActiveTyped DEF UndoInv, InOrder
    <2> QED BY <1>1, <1>3, <1>6, <2>1, <2>2 DEF UndoInv, InOrder
  <1>8. \A d \in Clients : PutAway(d)'
    <2>1. PutAway(c)'
      BY <1>1 DEF PutAway
    <2> QED BY <1>1, <1>2, <1>3, <2>1, OthersPutAway
  <1>9. OnScreen'
    BY <1>1, <1>5, <1>2, ActiveTyped DEF OnScreen
  <1>10. Recorded'
    <2>1. ASSUME "save" \notin Faulty, Standing', gen.pc # "publish"
          PROVE  record = newest \/ \E d \in Clients : req'[d].p = newest
                                        /\ req'[d].pc \in {"write", "restore", "save"}
      <3>1. newest # 0 /\ newest \in Proposals /\ Applied(newest)'
        BY <1>1, <2>1, ActiveTyped DEF Standing, Applied
      <3>2. newest = p
        <4>1. Applied(newest) \/ newest = p
          BY <1>1, <1>3, <3>1 DEF Applied
        <4> QED BY <1>2, <3>1, <4>1, NewestHandled
      <3> QED BY <1>1, <3>2
    <2>2. ASSUME "save" \notin Faulty, record # 0, NEW i \in Proposals, Applied(i) \/ i = p
          PROVE  i <= record \/ \E d \in Clients : req'[d].p = i /\ req'[d].pc = "save"
      BY <1>1, <2>2 DEF UndoInv, Recorded
    <2> QED BY <1>1, <1>3, <2>1, <2>2 DEF Recorded
  <1> QED BY <1>4, <1>7, <1>8, <1>9, <1>10 DEF UndoInv

LEMMA UndoSavePatchRecord ==
    ASSUME UndoInv, Inv', Orderly, NEW c \in Clients, SavePatchRecord(c)
    PROVE  UndoInv'
  <1> DEFINE p == req[c].p
  <1>1. /\ tree' = tree /\ staged' = staged /\ patch' = patch /\ proposal' = proposal
        /\ newest' = newest /\ gen' = gen
        /\ \A d \in Clients : d # c => req'[d] = req[d]
        /\ req[c].pc = "save" /\ req'[c].p = p /\ req'[c].pc = "publish"
        /\ record' \in {p, record, 0} /\ ("save" \notin Faulty => record' = p)
    BY KnownTyped, ActiveTyped DEF SavePatchRecord, Fault, Goes, RequestTypes, UndoInv
  <1>2. Active(c) /\ p \in Proposals /\ p \in Known /\ p \in Nat
    BY <1>1, ActiveTyped DEF Active
  <1>3. 0 < p /\ p <= patch /\ patch <= newest /\ \A i \in Proposals : Applied(i) => i <= p
    BY <1>2 DEF UndoInv, InOrder
  <1>4. Behind'
    BY <1>1 DEF UndoInv, Behind
  <1>5. InOrder'
    <2>1. \A d \in Clients : req'[d].p = req[d].p /\ (Active(d)' <=> Active(d))
      BY <1>1 DEF Active
    <2>2. record' <= newest
      BY <1>1, <1>2, <1>3, ActiveTyped DEF UndoInv, InOrder
    <2> QED BY <1>1, <1>2, <2>1, <2>2 DEF UndoInv, InOrder, Applied, Known, Active
  <1>6. \A d \in Clients : PutAway(d)'
    <2>1. PutAway(c)'
      BY <1>1 DEF PutAway
    <2> QED BY <1>1, <1>2, <2>1, OthersPutAway
  <1>7. Standing' <=> Standing
    BY <1>1 DEF Standing, Applied, InTree
  <1>8. OnScreen'
    BY <1>1, <1>7 DEF UndoInv, OnScreen
  <1>9. Recorded'
    <2>1. Standing => newest = p
      BY <1>2, NewestHandled DEF Standing
    <2> QED BY <1>1, <1>3, <1>7, <2>1 DEF Recorded, Applied
  <1> QED BY <1>4, <1>5, <1>6, <1>8, <1>9 DEF UndoInv

LEMMA UndoApplyPublish ==
    ASSUME UndoInv, Inv', Orderly, NEW c \in Clients, ApplyPublish(c)
    PROVE  UndoInv'
  <1> DEFINE p == req[c].p
  <1>1. /\ tree' = tree /\ staged' = staged /\ patch' = p /\ proposal' = proposal
        /\ newest' = newest /\ gen' = gen /\ record' = record
        /\ \A d \in Clients : d # c => req'[d] = req[d]
        /\ req[c].pc = "publish" /\ req'[c] = Idle
    BY ActiveTyped DEF ApplyPublish, Ends
  <1>2. Active(c) /\ p \in Proposals /\ p \in Known /\ p \in Nat
    BY <1>1, ActiveTyped DEF Active
  <1>3. /\ 0 < p /\ p <= patch /\ patch <= newest
        /\ \A i \in Proposals : Applied(i) => i <= p
        /\ \A d \in Clients : Active(d) => req[d].p = p
    BY <1>2 DEF UndoInv, InOrder, Orderly, Active
  <1>4. Behind'
    BY <1>1 DEF UndoInv, Behind
  <1>5. InOrder'
    <2>1. \A d \in Clients : d # c => req'[d].p = req[d].p /\ (Active(d)' <=> Active(d))
      BY <1>1 DEF Active
    <2>2. ~Active(c)'
      BY <1>1 DEF Active, Idle
    <2>3. p <= newest
      BY <1>2, <1>3, ActiveTyped
    <2>4. \A d \in Clients : IF Active(d)' THEN 0 < req'[d].p /\ req'[d].p <= p
                                           ELSE req'[d] = Idle
      BY <1>1, <1>2, <1>3, <2>1, <2>2 DEF UndoInv, InOrder
    <2>5. \A i \in Proposals : Applied(i) => \A d \in Clients : Active(d)' => i <= req'[d].p
      BY <2>1, <2>2 DEF UndoInv, InOrder
    <2> QED BY <1>1, <1>3, <2>3, <2>4, <2>5 DEF UndoInv, InOrder, Applied, Known
  <1>6. \A d \in Clients : PutAway(d)'
    <2>1. PutAway(c)'
      BY <1>1 DEF PutAway, Idle
    <2> QED BY <1>1, <1>2, <2>1, OthersPutAway
  <1>7. Standing' <=> Standing
    BY <1>1 DEF Standing, Applied, InTree
  <1>8. OnScreen'
    BY <1>1, <1>3, <1>2 DEF OnScreen
  <1>9. Recorded'
    BY <1>1, <1>7 DEF UndoInv, Recorded, Applied
  <1> QED BY <1>4, <1>5, <1>6, <1>8, <1>9 DEF UndoInv

LEMMA UndoDropPatchRecord ==
    ASSUME UndoInv, Inv', Orderly, NEW c \in Clients, DropPatchRecord(c)
    PROVE  UndoInv'
  <1>1. /\ tree' = tree /\ staged' = staged /\ patch' = patch /\ proposal' = proposal
        /\ newest' = newest /\ gen' = gen /\ record' = 0
        /\ \A d \in Clients : d # c => req'[d] = req[d]
        /\ req[c].pc = "drop" /\ req'[c].p = req[c].p /\ req'[c].pc = "forget"
    BY KnownTyped, ActiveTyped DEF DropPatchRecord, Goes, RequestTypes, UndoInv
  <1>2. Active(c) /\ req[c].p \in Proposals /\ PutAway(c)
    BY <1>1, ActiveTyped DEF Active, UndoInv
  <1>3. Behind'
    BY <1>1 DEF UndoInv, Behind
  <1>4. InOrder'
    <2>1. \A d \in Clients : req'[d].p = req[d].p /\ (Active(d)' <=> Active(d))
      BY <1>1 DEF Active
    <2> QED BY <1>1, <1>2, <2>1, ActiveTyped DEF UndoInv, InOrder, Applied, Known, Active
  <1>5. \A d \in Clients : PutAway(d)'
    <2>1. PutAway(c)'
      BY <1>1, <1>2 DEF PutAway, Mine, InTree
    <2> QED BY <1>1, <1>2, <2>1, OthersPutAway
  <1>6. Standing' <=> Standing
    BY <1>1 DEF Standing, Applied, InTree
  <1>7. ~Standing
    <2>1. Standing => req[c].p = newest
      BY <1>2, NewestHandled DEF Standing
    <2> QED BY <1>1, <1>2, <2>1 DEF Standing, PutAway, Mine, Applied
  <1>8. OnScreen' /\ Recorded'
    BY <1>1, <1>6, <1>7 DEF OnScreen, Recorded
  <1> QED BY <1>3, <1>4, <1>5, <1>8 DEF UndoInv

LEMMA UndoForget ==
    ASSUME UndoInv, Inv', Orderly, NEW c \in Clients, Forget(c)
    PROVE  UndoInv'
  <1>1. /\ tree' = tree /\ staged' = staged /\ patch' = 0 /\ proposal' = proposal
        /\ newest' = newest /\ gen' = gen /\ record' = record
        /\ \A d \in Clients : d # c => req'[d] = req[d]
        /\ req[c].pc = "forget" /\ req'[c] = Idle
    BY ActiveTyped DEF Forget, Ends
  <1>2. Active(c) /\ req[c].p \in Proposals /\ PutAway(c)
    BY <1>1, ActiveTyped DEF Active, UndoInv
  <1>3. Behind'
    BY <1>1 DEF UndoInv, Behind
  <1>4. \A d \in Clients : req'[d] = Idle /\ ~Active(d)'
    <2>1. \A d \in Clients : d # c => ~Active(d)
      BY <1>1, <1>2 DEF Orderly, Rejecting, Active
    <2> QED BY <1>1, <2>1 DEF UndoInv, InOrder, Active, Idle
  <1>5. InOrder'
    BY <1>1, <1>4, ActiveTyped DEF UndoInv, InOrder, Applied, Known
  <1>6. \A d \in Clients : PutAway(d)'
    BY <1>4 DEF PutAway, Idle
  <1>7. Standing' <=> Standing
    BY <1>1 DEF Standing, Applied, InTree
  <1>8. ~Standing
    <2>1. Standing => req[c].p = newest
      BY <1>2, NewestHandled DEF Standing
    <2> QED BY <1>1, <1>2, <2>1 DEF Standing, PutAway, Mine, Applied
  <1>9. Recorded'
    BY <1>1, <1>7, <1>8 DEF UndoInv, Recorded, Applied
  <1> QED BY <1>3, <1>5, <1>6, <1>7, <1>8, <1>9 DEF UndoInv, OnScreen

(***************************************************************************)
(* The generation, an edit, and a restart at rest.                         *)
(***************************************************************************)
LEMMA UndoReply ==
    ASSUME UndoInv, Inv', NEW files \in SUBSET Paths, Reply(files)
    PROVE  UndoInv'
  <1>1. /\ tree' = tree /\ patch' = patch /\ record' = record /\ newest' = newest
        /\ req' = req /\ gen'.pc = "read" /\ gen.pc = "idle" /\ staged' = staged + 1
    BY DEF Reply
  <1>2. /\ staged + 1 \notin Known /\ Known' = Known
        /\ \A i \in Proposals : /\ proposal'[i].original = proposal[i].original
                                /\ Applied(i)' <=> Applied(i)
                                /\ i # staged + 1 => proposal'[i] = proposal[i]
    BY <1>1, ActiveTyped, KnownTyped DEF Reply, Known, Applied, ProposalTypes, UndoInv
  <1>3. \A i \in Known : i \in Proposals /\ proposal'[i] = proposal[i]
    BY <1>2, KnownTyped DEF UndoInv
  <1>4. Behind' /\ InOrder'
    BY <1>1, <1>2 DEF UndoInv, Behind, InOrder, Active
  <1>5. \A d \in Clients : PutAway(d)'
    <2>1. ASSUME NEW d \in Clients, Active(d)
          PROVE  PutAway(d)'
      BY <1>1, <1>3, <2>1, ActiveTyped DEF UndoInv, PutAway, Mine, InTree
    <2>2. ASSUME NEW d \in Clients, ~Active(d)
          PROVE  PutAway(d)'
      BY <1>1, <2>2 DEF PutAway, Active
    <2> QED BY <2>1, <2>2
  <1>6. Standing' <=> Standing
    <2>1. CASE newest # 0
      BY <1>1, <1>3, <2>1, ActiveTyped DEF Standing, Applied, InTree
    <2>2. CASE newest = 0
      BY <1>1, <2>2 DEF Standing
    <2> QED BY <2>1, <2>2
  <1>7. OnScreen' /\ Recorded'
    BY <1>1, <1>2, <1>6 DEF UndoInv, OnScreen, Recorded
  <1> QED BY <1>4, <1>5, <1>7 DEF UndoInv

LEMMA UndoReadFile ==
    ASSUME UndoInv, Inv', NEW f \in Paths, ReadFile(f)
    PROVE  UndoInv'
  <1>1. /\ tree' = tree /\ patch' = patch /\ record' = record /\ newest' = newest
        /\ req' = req /\ gen'.pc = gen.pc /\ gen.pc = "read" /\ staged' = staged
    BY KnownTyped DEF ReadFile, GenTypes, UndoInv
  <1>2. /\ Known' = Known
        /\ \A i \in Proposals : /\ proposal'[i].files = proposal[i].files
                                /\ proposal'[i].applied = proposal[i].applied
    BY <1>1, KnownTyped DEF ReadFile, Known, ProposalTypes, UndoInv
  <1>3. Behind'
    <2>1. ASSUME NEW g \in Paths, NEW i \in Proposals, NEW j \in Proposals,
                 proposal'[i].original[g] = Proposed(j)
          PROVE  j < i
      <3>1. CASE i = staged /\ g = f
        <4>1. proposal'[i].original[g] = tree[f]
          BY <3>1, KnownTyped DEF ReadFile, ProposalTypes, UndoInv
        <4>2. j \in 1 .. (staged - 1)
          BY <1>1, <2>1, <4>1 DEF UndoInv, Inv, OriginalsForeign, Known
        <4> QED BY <3>1, <4>2, ActiveTyped
      <3>2. CASE ~(i = staged /\ g = f)
        <4>1. proposal'[i].original[g] = proposal[i].original[g]
          BY <3>2, KnownTyped DEF ReadFile, ProposalTypes, UndoInv
        <4> QED BY <2>1, <4>1 DEF UndoInv, Behind
      <3> QED BY <3>1, <3>2
    <2> QED BY <2>1 DEF Behind
  <1>4. InOrder'
    BY <1>1, <1>2 DEF UndoInv, InOrder, Active, Applied
  <1>5. \A d \in Clients : PutAway(d)'
    <2>1. ASSUME NEW d \in Clients, Active(d)
          PROVE  PutAway(d)'
      BY <1>1, <1>2, <2>1, ActiveTyped DEF UndoInv, PutAway, Mine, InTree
    <2>2. ASSUME NEW d \in Clients, ~Active(d)
          PROVE  PutAway(d)'
      BY <1>1, <2>2 DEF PutAway, Active
    <2> QED BY <2>1, <2>2
  <1>6. Standing' <=> Standing
    <2>1. CASE newest # 0
      BY <1>1, <1>2, <2>1, ActiveTyped DEF Standing, Applied, InTree
    <2>2. CASE newest = 0
      BY <1>1, <2>2 DEF Standing
    <2> QED BY <2>1, <2>2
  <1>7. OnScreen' /\ Recorded'
    BY <1>1, <1>2, <1>6 DEF UndoInv, OnScreen, Recorded, Applied
  <1> QED BY <1>3, <1>4, <1>5, <1>7 DEF UndoInv

LEMMA UndoStageEnds ==
    ASSUME UndoInv, Inv', StageFails \/ DropOldRecord \/ StagePublish
    PROVE  UndoInv'
  <1>1. /\ tree' = tree /\ proposal' = proposal /\ req' = req /\ staged' = staged
        /\ gen'.pc = "idle" => Known' = 1 .. staged
        /\ gen'.pc # "idle" => Known' = Known
        /\ Known \subseteq Known'
    BY ActiveTyped, KnownTyped DEF StageFails, DropOldRecord, StagePublish, Known, Quiet, GenTypes, UndoInv
  <1>2. /\ \A i \in Proposals : (Applied(i)' <=> Applied(i)) /\ (InTree(i)' <=> InTree(i))
        /\ \A d \in Clients : (Active(d)' <=> Active(d)) /\ PutAway(d)'
        /\ Behind'
    BY <1>1 DEF UndoInv, Behind, PutAway, Mine, InTree, Active, Applied
  <1>3. CASE StageFails \/ DropOldRecord
    <2>1. /\ newest' = newest /\ patch' = patch /\ record' \in {record, 0}
          /\ gen'.pc # "publish" => record' = record /\ gen.pc # "publish"
      <3>1. CASE StageFails
        BY <3>1 DEF StageFails, Quiet
      <3>2. CASE DropOldRecord
        BY <3>2, KnownTyped DEF DropOldRecord, GenTypes, UndoInv
      <3> QED BY <1>3, <3>1, <3>2
    <2>2. InOrder'
      BY <1>1, <1>2, <2>1, ActiveTyped DEF UndoInv, InOrder
    <2>3. Standing' <=> Standing
      BY <1>1, <2>1 DEF Standing, Applied, InTree
    <2>4. OnScreen' /\ Recorded'
      BY <1>1, <1>2, <2>1, <2>3 DEF UndoInv, OnScreen, Recorded
    <2> QED BY <1>2, <2>2, <2>4 DEF UndoInv
  <1>4. CASE StagePublish
    <2>1. /\ newest' = staged /\ patch' = staged /\ record' = record
          /\ gen.pc = "publish" /\ gen'.pc = "idle"
      BY <1>4 DEF StagePublish, Quiet
    <2>2. /\ newest \in (1 .. (staged - 1)) \union {0}
          /\ newest <= staged /\ patch <= staged /\ record <= staged
      BY <2>1, ActiveTyped DEF UndoInv, InOrder, Known
    <2>3. \A i \in Proposals : Applied(i) => i <= newest /\ i <= staged /\ i # staged
      <3>1. ASSUME NEW i \in Proposals, Applied(i) PROVE i <= newest /\ i <= staged /\ i # staged
        <4>1. i <= newest
          BY <3>1 DEF UndoInv, InOrder
        <4>2. i \in Nat /\ i > 0
          BY Constants DEF Proposals
        <4> QED BY <2>2, <4>1, <4>2, ActiveTyped
      <3> QED BY <3>1
    <2>4. InOrder'
      <3>1. \A d \in Clients : IF Active(d) THEN 0 < req[d].p /\ req[d].p <= staged
                                            ELSE req[d] = Idle
        <4>1. ASSUME NEW d \in Clients, Active(d) PROVE 0 < req[d].p /\ req[d].p <= staged
          BY <2>2, <4>1, ActiveTyped DEF UndoInv, InOrder
        <4> QED BY <4>1 DEF UndoInv, InOrder
      <3>2. staged \in Known' \union {0}
        BY <1>1, <2>1, ActiveTyped
      <3>3. \A i \in Proposals : Applied(i) => \A d \in Clients : Active(d) => i <= req[d].p
        BY DEF UndoInv, InOrder
      <3> QED BY <1>1, <1>2, <2>1, <2>2, <2>3, <3>1, <3>2, <3>3, ActiveTyped DEF InOrder
    <2>5. ~Standing'
      <3>1. staged # 0 => staged \in Proposals
        BY ActiveTyped, KnownTyped DEF Proposals, UndoInv
      <3> QED BY <1>1, <2>1, <2>3, <3>1 DEF Standing, Applied
    <2>6. OnScreen' /\ Recorded'
      BY <1>1, <1>2, <2>1, <2>5 DEF UndoInv, OnScreen, Recorded
    <2> QED BY <1>2, <2>4, <2>6 DEF UndoInv
  <1> QED BY <1>3, <1>4

LEMMA UndoEdit ==
    ASSUME UndoInv, Inv', NEW f \in Paths, Edit(f)
    PROVE  UndoInv'
  <1>1. /\ proposal' = proposal /\ patch' = patch /\ record' = record /\ newest' = newest
        /\ req' = req /\ gen' = gen /\ staged' = staged
        /\ \A g \in Paths : tree'[g] \in {tree[g], Edited(spent.edits + 1)}
    BY KnownTyped DEF Edit, UndoInv
  <1>2. \A i \in Proposals, g \in Paths : tree'[g] = Proposed(i) => tree[g] = Proposed(i)
    <2>1. spent.edits + 1 \in 1 .. MaxEdits
      BY KnownTyped, Constants DEF Edit, UndoInv
    <2> QED BY <1>1, <2>1, ContentsTold
  <1>3. Behind' /\ InOrder'
    BY <1>1 DEF UndoInv, Behind, InOrder, Active, Applied, Known
  <1>4. \A i \in Proposals : InTree(i)' => InTree(i)
    BY <1>1, <1>2, ActiveTyped DEF InTree
  <1>5. \A d \in Clients : PutAway(d)'
    <2>1. ASSUME NEW d \in Clients, Active(d)
          PROVE  PutAway(d)'
      <3>1. req[d].p \in Proposals /\ \A g \in Mine(d).files : g \in Paths
        BY <2>1, ActiveTyped DEF Mine
      <3>2. InTree(req[d].p)' => InTree(req[d].p)
        BY <1>1, <1>2, <3>1 DEF InTree, Mine
      <3> QED BY <1>1, <1>2, <3>1, <3>2 DEF UndoInv, PutAway, Mine
    <2>2. ASSUME NEW d \in Clients, ~Active(d)
          PROVE  PutAway(d)'
      BY <1>1, <2>2 DEF PutAway, Active
    <2> QED BY <2>1, <2>2
  <1>6. Standing' => Standing
    <2>1. newest # 0 => newest \in Proposals
      BY ActiveTyped
    <2> QED BY <1>1, <1>2, <2>1, ActiveTyped DEF Standing, Applied, InTree
  <1>7. OnScreen' /\ Recorded'
    BY <1>1, <1>6 DEF UndoInv, OnScreen, Recorded, Applied
  <1> QED BY <1>3, <1>5, <1>7 DEF UndoInv

LEMMA UndoRestart ==
    ASSUME UndoInv, Inv', Restart, AtRest, MaxCrashes = 0 \/ "save" \notin Faulty
    PROVE  UndoInv'
  <1>1. \A d \in Clients : req[d] = Idle
    BY DEF UndoInv, InOrder, AtRest, Active
  <1>2. tree' = tree
    BY <1>1 DEF Restart, Idle
  <1>3. /\ proposal' = proposal /\ newest' = newest /\ staged' = staged
        /\ record' = record /\ patch' = record /\ gen' = Quiet
        /\ \A d \in Clients : req'[d] = Idle
    BY <1>1 DEF Restart, Idle
  <1>4. "save" \notin Faulty
    <2>1. spent.crashes \in Nat /\ spent.crashes < MaxCrashes
      BY TypeParts DEF UndoInv, Inv, Bounds, Restart
    <2> QED BY <2>1
  <1>5. Known \subseteq Known'
    BY <1>3, KnownTyped DEF Known, Quiet, UndoInv
  <1>6. Behind'
    BY <1>3 DEF UndoInv, Behind
  <1>7. \A d \in Clients : ~Active(d)' /\ PutAway(d)'
    BY <1>3 DEF PutAway, Active, Idle
  <1>8. record # 0 => \A i \in Proposals : Applied(i) => i <= record
    BY <1>1, <1>4 DEF UndoInv, Recorded, Idle
  <1>9. InOrder'
    BY <1>3, <1>5, <1>7, <1>8 DEF UndoInv, InOrder, Applied
  <1>10. (Standing' <=> Standing) /\ (Standing => record = newest)
    <2>1. Standing' <=> Standing
      BY <1>2, <1>3 DEF Standing, Applied, InTree
    <2>2. Standing => record = newest
      BY <1>1, <1>4 DEF UndoInv, Recorded, Idle, AtRest
    <2> QED BY <2>1, <2>2
  <1>11. OnScreen' /\ Recorded'
    BY <1>3, <1>8, <1>10 DEF OnScreen, Recorded, Standing, Applied
  <1> QED BY <1>6, <1>7, <1>9, <1>11 DEF UndoInv

LEMMA UndoInit == Init => UndoInv /\ Orderly
  <1> SUFFICES ASSUME Init PROVE UndoInv /\ Orderly
    OBVIOUS
  <1>1. Inv
    BY InvInit
  <1>2. /\ \A i \in Proposals : proposal[i] = Untouched
        /\ \A c \in Clients : req[c] = Idle
        /\ patch = 0 /\ newest = 0 /\ record = 0
    BY DEF Init
  <1>3. Behind
    BY <1>2, ContentsTold DEF Behind, Untouched
  <1>4. InOrder
    BY <1>2 DEF InOrder, Active, Applied, Idle, Untouched
  <1>5. (\A c \in Clients : PutAway(c)) /\ Orderly
    BY <1>2 DEF PutAway, Orderly, Idle
  <1>6. OnScreen /\ Recorded
    BY <1>2 DEF OnScreen, Recorded, Standing
  <1> QED BY <1>1, <1>3, <1>4, <1>5, <1>6 DEF UndoInv

LEMMA UndoNext ==
    ASSUME PutsBack
    PROVE  UndoInv /\ Orderly /\ [OrderlyNext]_vars
             => (UndoInv /\ Orderly)'
  <1> SUFFICES ASSUME UndoInv, Orderly, [OrderlyNext]_vars
               PROVE  UndoInv' /\ Orderly'
    OBVIOUS
  <1>1. Inv'
    BY InvNext DEF UndoInv, OrderlyNext
  <1>2. CASE Next /\ (Restart => AtRest) /\ Orderly'
    <2>1. ASSUME NEW c \in Clients, Request(c) PROVE UndoInv'
      <3>1. CASE \E f \in Paths : \/ WriteFile(c, f) \/ WriteFails(c, f)
                                  \/ RestoreFile(c, f) \/ UndoFile(c, f)
        BY <1>1, <3>1, UndoWriteFile, UndoWriteFails, UndoPutBack DEF PutsBack, RestoreFile, UndoFile
      <3>2. CASE \/ ApplyBegin(c) \/ ApplyCheck(c) \/ ApplyRefused(c) \/ MarkApplied(c)
                 \/ SavePatchRecord(c) \/ ApplyPublish(c) \/ ApplyFailed(c)
        BY <1>1, <3>2, UndoApplyBegin, UndoApplyCheck, UndoApplyRefused, UndoMarkApplied,
           UndoSavePatchRecord, UndoApplyPublish, UndoApplyFailed
      <3>3. CASE \/ RejectBegin(c) \/ UndoBegin(c) \/ UndoRefused(c) \/ UndoEnd(c)
                 \/ DropPatchRecord(c) \/ Forget(c)
        BY <1>1, <3>3, UndoRejectBegin, UndoUndoBegin, UndoUndoRefused, UndoUndoEnd,
           UndoDropPatchRecord, UndoForget
      <3> QED BY <2>1, <3>1, <3>2, <3>3 DEF Request
    <2>2. CASE Generation
      <3>1. CASE \E files \in SUBSET Paths : Reply(files)
        BY <1>1, <1>2, <3>1, UndoReply
      <3>2. CASE \E f \in Paths : ReadFile(f)
        BY <1>1, <1>2, <3>2, UndoReadFile
      <3>3. CASE StageFails \/ DropOldRecord \/ StagePublish
        BY <1>1, <1>2, <3>3, UndoStageEnds
      <3> QED BY <2>2, <3>1, <3>2, <3>3 DEF Generation
    <2>3. CASE Restart
      BY <1>1, <1>2, <2>3, UndoRestart DEF PutsBack
    <2> QED BY <1>1, <1>2, <2>1, <2>2, <2>3, UndoEdit DEF Next
  <1>3. ASSUME UNCHANGED vars PROVE UndoInv' /\ Orderly'
    <2>1. /\ tree' = tree /\ proposal' = proposal /\ req' = req /\ gen' = gen
          /\ staged' = staged /\ patch' = patch /\ newest' = newest /\ record' = record
      BY <1>3 DEF vars
    <2>2. /\ Behind' /\ InOrder' /\ OnScreen' /\ Recorded'
          /\ \A c \in Clients : PutAway(c)'
      BY <2>1 DEF UndoInv, Behind, InOrder, OnScreen, Recorded, PutAway, Standing, Applied,
         InTree, Active, Known, Mine
    <2> QED BY <1>1, <2>1, <2>2 DEF UndoInv, Orderly, Rejecting
  <1> QED BY <1>2, <1>3 DEF OrderlyNext

\* As long as the newest proposal is in the tree it is the one on the screen,
\* so that it can be undone ("the content they replaced is the only way back",
\* aiworkspace.go 834-838): whatever applies, edits, refusals, broken writes and
\* restarts come between, and however many pages apply the same proposal, when a
\* reject does not meet another request, a restart falls at rest, no file fails to
\* be put back and, with restarts, the record is saved.
THEOREM UndoReachable ==
    ASSUME PutsBack
    PROVE  OrderlySpec => []UndoAvailable
  <1>1. UndoInv => UndoAvailable
    <2> SUFFICES ASSUME UndoInv PROVE Standing => patch = newest
      BY DEF UndoAvailable, Standing, Applied
    <2> HAVE Standing
    <2>1. newest \in Proposals /\ patch # 0 /\ patch \in Nat /\ newest \in Nat
      BY ActiveTyped DEF UndoInv, OnScreen, Standing
    <2>2. newest <= patch /\ patch <= newest
      BY <2>1 DEF UndoInv, InOrder, Standing
    <2> QED BY <2>1, <2>2
  <1>2. UndoInv /\ Orderly /\ [OrderlyNext]_vars => (UndoInv /\ Orderly)'
    BY UndoNext
  <1> QED BY <1>1, <1>2, UndoInit, PTL DEF OrderlySpec
=============================================================================
