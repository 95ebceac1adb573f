------------------------------ MODULE AiPatch ------------------------------
(***************************************************************************)
(* The assistant's proposal: staged by a generation, written into the      *)
(* working tree by an apply request, dropped or undone by a reject         *)
(* request, and restored from its record when the server starts again.     *)
(*                                                                         *)
(* A request reads the proposal under aiMu and acts on it under a.mu, with *)
(* nothing held in between; a generation reads the tree and replaces the   *)
(* proposal without a.mu.  Editors write into the tree at any time.        *)
(* Contents are numbers, so that what a file holds tells who wrote it.     *)
(***************************************************************************)
EXTENDS Integers, FiniteSets

CONSTANTS Clients,       \* requests that may be under way together
          Paths,         \* files of the working tree
          Faulty,        \* calls that may fail: "open" "write" "undo" "save"
          MaxProposals,  \* replies that propose files
          MaxEdits,      \* edits by others
          MaxFaults,     \* failing calls
          MaxCrashes     \* restarts of the server

ASSUME AiPatchAssumption ==
    /\ Faulty \subseteq {"open", "write", "undo", "save"}
    /\ {MaxProposals, MaxEdits, MaxFaults, MaxCrashes} \subseteq Nat
    /\ "free" \notin Clients

VARIABLES tree,      \* what each file holds
          mu,        \* who holds a.mu, or "free"
          proposal,  \* the Patch objects, by number
          staged,    \* how many were made
          patch,     \* a.patch, 0 for nil
          record,    \* the proposal in current.json, 0 for none
          newest,    \* the proposal the last recorded reply names
          gen,       \* the one generation: its step, and files left to read
          req,       \* each request: its step, proposal and files left
          spent      \* edits, faults and restarts so far

vars == <<tree, mu, proposal, staged, patch, record, newest, gen, req, spent>>

Absent == 0
Original == 1
Torn == 2                                  \* truncated or partly written
Proposed(i) == 2 + i
Edited(k) == 2 + MaxProposals + k
Contents == 0 .. 2 + MaxProposals + MaxEdits
Proposals == 1 .. MaxProposals

Pending == {"idle", "apply", "write", "restore", "save", "publish",
            "undo", "undoing", "drop", "forget"}
Idle == [pc |-> "idle", p |-> 0, todo |-> {}, written |-> {}]
Quiet == [pc |-> "idle", todo |-> {}]
Untouched == [files |-> {}, original |-> [f \in Paths |-> Absent], applied |-> FALSE]

Init ==
    /\ tree \in [Paths -> {Absent, Original}]
    /\ mu = "free"
    /\ proposal = [i \in Proposals |-> Untouched]
    /\ staged = 0 /\ patch = 0 /\ record = 0 /\ newest = 0
    /\ gen = Quiet
    /\ req = [c \in Clients |-> Idle]
    /\ spent = [edits |-> 0, faults |-> 0, crashes |-> 0]

Fault(call) ==
    /\ call \in Faulty
    /\ spent.faults < MaxFaults
    /\ spent' = [spent EXCEPT !.faults = @ + 1]

Goes(c, pc) == req' = [req EXCEPT ![c].pc = pc]
Ends(c) == req' = [req EXCEPT ![c] = Idle]
Mine(c) == proposal[req[c].p]

---------------------------------------------------------------------------
(* stagePatch, inside the one generation aiMessage allows.                 *)

\* A reply proposes files; from here on it reads them one at a time.
Reply(files) ==
    /\ gen.pc = "idle" /\ staged < MaxProposals /\ files # {}
    /\ staged' = staged + 1
    /\ proposal' = [proposal EXCEPT ![staged + 1].files = files]
    /\ gen' = [pc |-> "read", todo |-> files]
    /\ UNCHANGED <<tree, mu, patch, record, newest, req, spent>>

ReadFile(f) ==
    /\ gen.pc = "read" /\ f \in gen.todo
    /\ proposal' = [proposal EXCEPT ![staged].original[f] = tree[f]]
    /\ gen' = [gen EXCEPT !.todo = @ \ {f}]
    /\ UNCHANGED <<tree, mu, staged, patch, record, newest, req, spent>>

\* An unusable path, a file that cannot be read or compared: nothing is staged.
StageFails ==
    /\ gen.pc = "read"
    /\ gen' = Quiet
    /\ UNCHANGED <<tree, mu, proposal, staged, patch, record, newest, req, spent>>

DropOldRecord ==
    /\ gen.pc = "read" /\ gen.todo = {}
    /\ record' = 0
    /\ gen' = [gen EXCEPT !.pc = "publish"]
    /\ UNCHANGED <<tree, mu, proposal, staged, patch, newest, req, spent>>

StagePublish ==
    /\ gen.pc = "publish"
    /\ patch' = staged /\ newest' = staged
    /\ gen' = Quiet
    /\ UNCHANGED <<tree, mu, proposal, staged, record, req, spent>>

---------------------------------------------------------------------------
(* aiApplyPatch                                                            *)

\* The proposal and its Applied mark are read before a.mu is asked for.
ApplyBegin(c) ==
    /\ req[c].pc = "idle" /\ patch # 0 /\ ~proposal[patch].applied
    /\ req' = [req EXCEPT ![c] = [Idle EXCEPT !.pc = "apply", !.p = patch]]
    /\ UNCHANGED <<tree, mu, proposal, staged, patch, record, newest, gen, spent>>

Unchanged_ExistsOnly(p) ==
    \A f \in p.files : tree[f] = Absent <=> p.original[f] = Absent

\* Every file is still what it was when the proposal was made.
Unchanged(p) == \A f \in p.files : tree[f] = p.original[f]

ApplyCheck(c) ==
    /\ req[c].pc = "apply" /\ mu = "free" /\ Unchanged(Mine(c))
    /\ mu' = c
    /\ req' = [req EXCEPT ![c].pc = "write", ![c].todo = Mine(c).files]
    /\ UNCHANGED <<tree, proposal, staged, patch, record, newest, gen, spent>>

ApplyRefused(c) ==
    /\ req[c].pc = "apply" /\ mu = "free"
    /\ \/ ~Unchanged(Mine(c)) /\ UNCHANGED spent
       \/ Fault("open")
    /\ Ends(c)
    /\ UNCHANGED <<tree, mu, proposal, staged, patch, record, newest, gen>>

WriteFile(c, f) ==
    /\ req[c].pc = "write" /\ f \in req[c].todo
    /\ tree' = [tree EXCEPT ![f] = Proposed(req[c].p)]
    /\ req' = [req EXCEPT ![c].todo = @ \ {f}, ![c].written = @ \union {f}]
    /\ UNCHANGED <<mu, proposal, staged, patch, record, newest, gen, spent>>

WriteFails_NoRestore(c, f) ==
    /\ req[c].pc = "write" /\ f \in req[c].todo
    /\ \/ Fault("open") /\ UNCHANGED tree
       \/ Fault("write") /\ tree' = [tree EXCEPT ![f] = Torn]
    /\ req' = [req EXCEPT ![c].pc = "restore", ![c].todo = {}]
    /\ UNCHANGED <<mu, proposal, staged, patch, record, newest, gen>>

\* The files already written are restored; the failing one is not among them,
\* whether it could not be opened or was truncated and not written.
WriteFails(c, f) ==
    /\ req[c].pc = "write" /\ f \in req[c].todo
    /\ \/ Fault("open") /\ UNCHANGED tree
       \/ Fault("write") /\ tree' = [tree EXCEPT ![f] = Torn]
    /\ req' = [req EXCEPT ![c].pc = "restore", ![c].todo = req[c].written]
    /\ UNCHANGED <<mu, proposal, staged, patch, record, newest, gen>>

\* Putting a file back ignores errors, in a restore and in an undo.
PutBack(c, f) ==
    /\ f \in req[c].todo
    /\ \/ tree' = [tree EXCEPT ![f] = Mine(c).original[f]] /\ UNCHANGED spent
       \/ Fault("undo") /\ tree' \in {tree, [tree EXCEPT ![f] = Torn]}
    /\ req' = [req EXCEPT ![c].todo = @ \ {f}]
    /\ UNCHANGED <<mu, proposal, staged, patch, record, newest, gen>>

RestoreFile(c, f) == req[c].pc = "restore" /\ PutBack(c, f)

ApplyFailed(c) ==
    /\ req[c].pc = "restore" /\ req[c].todo = {}
    /\ mu' = "free"
    /\ Ends(c)
    /\ UNCHANGED <<tree, proposal, staged, patch, record, newest, gen, spent>>

MarkApplied(c) ==
    /\ req[c].pc = "write" /\ req[c].todo = {}
    /\ proposal' = [proposal EXCEPT ![req[c].p].applied = TRUE]
    /\ Goes(c, "save")
    /\ UNCHANGED <<tree, mu, staged, patch, record, newest, gen, spent>>

\* Errors are ignored here too: an old record stays or an empty file is left.
SavePatchRecord(c) ==
    /\ req[c].pc = "save"
    /\ \/ record' = req[c].p /\ UNCHANGED spent
       \/ Fault("save") /\ record' \in {record, 0}
    /\ Goes(c, "publish")
    /\ UNCHANGED <<tree, mu, proposal, staged, patch, newest, gen>>

ApplyPublish(c) ==
    /\ req[c].pc = "publish"
    /\ patch' = req[c].p
    /\ mu' = "free"
    /\ Ends(c)
    /\ UNCHANGED <<tree, proposal, staged, record, newest, gen, spent>>

---------------------------------------------------------------------------
(* aiRejectPatch: an applied proposal is undone first, under a.mu; the     *)
(* record and a.patch are cleared after it was released.                   *)

RejectBegin(c) ==
    /\ req[c].pc = "idle" /\ patch # 0
    /\ req' = [req EXCEPT ![c] = [Idle EXCEPT !.p = patch,
                 !.pc = IF proposal[patch].applied THEN "undo" ELSE "drop"]]
    /\ UNCHANGED <<tree, mu, proposal, staged, patch, record, newest, gen, spent>>

UndoBegin(c) ==
    /\ req[c].pc = "undo" /\ mu = "free"
    /\ mu' = c
    /\ req' = [req EXCEPT ![c].pc = "undoing", ![c].todo = Mine(c).files]
    /\ UNCHANGED <<tree, proposal, staged, patch, record, newest, gen, spent>>

UndoRefused_Forgets(c) ==
    /\ req[c].pc = "undo" /\ mu = "free"
    /\ Fault("open")
    /\ Goes(c, "drop")
    /\ UNCHANGED <<tree, mu, proposal, staged, patch, record, newest, gen>>

UndoRefused(c) ==
    /\ req[c].pc = "undo" /\ mu = "free"
    /\ Fault("open")
    /\ Ends(c)
    /\ UNCHANGED <<tree, mu, proposal, staged, patch, record, newest, gen>>

UndoFile(c, f) == req[c].pc = "undoing" /\ PutBack(c, f)

UndoEnd(c) ==
    /\ req[c].pc = "undoing" /\ req[c].todo = {}
    /\ mu' = "free"
    /\ Goes(c, "drop")
    /\ UNCHANGED <<tree, proposal, staged, patch, record, newest, gen, spent>>

DropPatchRecord(c) ==
    /\ req[c].pc = "drop"
    /\ record' = 0
    /\ Goes(c, "forget")
    /\ UNCHANGED <<tree, mu, proposal, staged, patch, newest, gen, spent>>

Forget(c) ==
    /\ req[c].pc = "forget"
    /\ patch' = 0
    /\ Ends(c)
    /\ UNCHANGED <<tree, mu, proposal, staged, record, newest, gen, spent>>

---------------------------------------------------------------------------
(* The world around the server                                             *)

Edit(f) ==
    /\ spent.edits < MaxEdits
    /\ spent' = [spent EXCEPT !.edits = @ + 1]
    /\ tree' = [tree EXCEPT ![f] = Edited(spent.edits + 1)]
    /\ UNCHANGED <<mu, proposal, staged, patch, record, newest, gen, req>>

\* A crash may tear the file or the record being written; restorePatch then
\* brings back the proposal of the record.
Restart ==
    /\ spent.crashes < MaxCrashes
    /\ spent' = [spent EXCEPT !.crashes = @ + 1]
    /\ tree' \in {tree} \union
         {[tree EXCEPT ![f] = Torn] : f \in UNION {req[c].todo : c \in Clients}}
    /\ record' \in {record} \union {0 : c \in {d \in Clients : req[d].pc = "save"}}
    /\ patch' = record'
    /\ mu' = "free" /\ gen' = Quiet /\ req' = [c \in Clients |-> Idle]
    /\ UNCHANGED <<proposal, staged, newest>>

Request(c) ==
    \/ ApplyBegin(c) \/ ApplyCheck(c) \/ ApplyRefused(c)
    \/ MarkApplied(c) \/ SavePatchRecord(c) \/ ApplyPublish(c) \/ ApplyFailed(c)
    \/ RejectBegin(c) \/ UndoBegin(c) \/ UndoRefused(c) \/ UndoEnd(c)
    \/ DropPatchRecord(c) \/ Forget(c)
    \/ \E f \in Paths : \/ WriteFile(c, f) \/ WriteFails(c, f)
                        \/ RestoreFile(c, f) \/ UndoFile(c, f)

Generation ==
    \/ \E files \in SUBSET Paths : Reply(files)
    \/ \E f \in Paths : ReadFile(f)
    \/ StageFails \/ DropOldRecord \/ StagePublish

Next ==
    \/ Generation
    \/ \E c \in Clients : Request(c)
    \/ \E f \in Paths : Edit(f)
    \/ Restart

Spec == Init /\ [][Next]_vars

---------------------------------------------------------------------------
(* Several pages whose users wait for each other, and restarts at rest.    *)

Rejecting(c) == req[c].pc \in {"undo", "undoing", "drop", "forget"}

\* Requests under way together are about one proposal, and a reject goes on alone.
Orderly ==
    \A c, d \in Clients :
        req[c].pc # "idle" /\ req[d].pc # "idle" =>
            req[c].p = req[d].p /\ (Rejecting(c) => c = d)

\* No request, and no reply that has dropped the old record, is under way.
AtRest == gen.pc # "publish" /\ \A c \in Clients : req[c].pc = "idle"

OrderlyNext == Next /\ (Restart => AtRest) /\ Orderly'
OrderlySpec == Init /\ [][OrderlyNext]_vars

---------------------------------------------------------------------------
(* Properties                                                              *)

\* The shapes, and the two ties the code relies on without a check: a.mu is
\* held by whoever writes files, and every request works on a proposal that
\* exists (aiworkspace.go 740-751 and 897-903).
TypeOK ==
    /\ tree \in [Paths -> Contents]
    /\ mu \in Clients \union {"free"}
    /\ proposal \in [Proposals -> [files : SUBSET Paths,
                                   original : [Paths -> Contents], applied : BOOLEAN]]
    /\ staged \in 0 .. MaxProposals
    /\ {patch, record, newest} \subseteq 0 .. staged
    /\ gen \in [pc : {"idle", "read", "publish"}, todo : SUBSET Paths]
    /\ req \in [Clients -> [pc : Pending, p : 0 .. staged,
                            todo : SUBSET Paths, written : SUBSET Paths]]
    /\ spent \in [edits : 0 .. MaxEdits, faults : 0 .. MaxFaults,
                  crashes : 0 .. MaxCrashes]
    /\ \A c \in Clients :
          /\ req[c].pc # "idle" => req[c].p # 0
          /\ mu = c <=> req[c].pc \in {"write", "restore", "save", "publish", "undoing"}

InTree(i) == \E f \in proposal[i].files : tree[f] = Proposed(i)

\* Whenever a.mu is free -- whenever a build may snapshot the tree -- no
\* proposal is there in part, and no file is torn ("so the tree is never left
\* with half a proposal in it", aiworkspace.go 784-785).
NoHalfProposal ==
    mu = "free" =>
        /\ \A f \in Paths : tree[f] # Torn
        /\ \A i \in 1 .. staged : InTree(i) =>
              \A f \in proposal[i].files : tree[f] # proposal[i].original[f]

\* Two requests that both read the proposal as not applied do not both write
\* it over itself: the originals an undo needs are not what the proposal wrote.
\* Applied is read before a.mu is taken (aiworkspace.go 747), so this rests on
\* the check of the files.
NeverWrittenTwice ==
    [][\A c \in Clients : (mu # c /\ mu' = c /\ req'[c].pc = "write")
                             => ~InTree(req[c].p)]_vars

\* As long as the newest proposal is in the tree, it is the one on the screen,
\* so that it can be undone ("the content they replaced is the only way back",
\* aiworkspace.go 834-838).
UndoAvailable ==
    (newest # 0 /\ proposal[newest].applied /\ InTree(newest)) => patch = newest

\* The proposal on the screen is the one the last reply made ("a new proposal
\* supersedes it", aiworkspace.go 838), not an older one that comes back.
NewestOnScreen == patch \in {0, newest}

\* An applied proposal on the screen is recorded, while no request or reply is
\* under way ("must outlive a restart", aiworkspace.go 834-835).
UndoOutlivesRestart ==
    (/\ patch # 0 /\ proposal[patch].applied /\ InTree(patch)
     /\ gen.pc = "idle" /\ \A c \in Clients : req[c].pc = "idle") => record = patch
=============================================================================
