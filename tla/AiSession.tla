------------------------------ MODULE AiSession ------------------------------
(***************************************************************************)
(* The conversation with the AI assistant (webui/ai.go): the sessions, the *)
(* setting that names the current one, and the account of what was used,   *)
(* all in SQLite; a.aiCancel, the one reply that may be under way, in      *)
(* memory under aiMu.  Requests read and write the database without a lock *)
(* of their own, one statement at a time.  A session is read and written   *)
(* whole.  What a reply proposes for the files is in AiPatch.              *)
(***************************************************************************)
EXTENDS Integers, SequencesExt

CONSTANTS
  Clients,        \* requests under way at once
  AdoptsAlone,    \* is a build only adopted while nothing else is asked?
  MaxSessions,    \* conversations started by hand (bound)
  MaxTurns,       \* replies, and builds adopted (bound)
  MaxFaults,      \* failed statements (bound)
  MaxCrashes      \* server exits (bound)

ASSUME SessionAssumption ==
  /\ AdoptsAlone \in BOOLEAN
  /\ MaxSessions \in Nat /\ MaxTurns \in Nat
  /\ MaxFaults \in Nat /\ MaxCrashes \in Nat

VARIABLES
  sessions,   \* ai_sessions: the rows, numbered as they were created
  current,    \* the setting "ai-session": a row's number, 0 if none
  usage,      \* ai_usage: <<session, turn>>
  aiCancel,   \* the turn that is being generated, 0 if none
  req,        \* client -> the request it has under way
  turns,      \* replies asked for so far; also numbers the adopted builds
  spent       \* how much of each bound has been used

vars == <<sessions, current, usage, aiCancel, req, turns, spent>>
stored == <<sessions, current, usage>>

None == 0
Ids == 1 .. Len(sessions)
NewRow == [turns |-> <<>>, build |-> None]

\* what: the kind; at: its next step; id: the session's number, once known;
\* copy: the session as it was read; turn: the reply, or the build adopted.
Idle == [what |-> "none", at |-> "idle", id |-> None, copy |-> NewRow, turn |-> None]

Init ==
  /\ sessions = <<>> /\ current = None /\ usage = {}
  /\ aiCancel = None
  /\ req = [c \in Clients |-> Idle]
  /\ turns = 0
  /\ spent = [faults |-> 0, crashes |-> 0]

Fault == spent.faults < MaxFaults /\ spent' = [spent EXCEPT !.faults = @ + 1]
At(c, what, at) == req[c].what = what /\ req[c].at = at
Goto(c, at) == req' = [req EXCEPT ![c].at = at]
Done(c) == req' = [req EXCEPT ![c] = Idle]
\* A handler that returns, early or not; that of a reply by its deferred release.
Return_Unreleased(c) == Done(c)
Return(c) == IF req[c].what = "message" THEN Goto(c, "release") ELSE Done(c)

-------------------------------------------------------------------------------
(* The requests as they come in *)

Started(c, what, at, turn) ==
  req' = [req EXCEPT ![c] = [Idle EXCEPT !.what = what, !.at = at, !.turn = turn]]

Adopting == \E c \in Clients : req[c].what = "adopt"
Ready(c) == req[c] = Idle /\ (AdoptsAlone => ~Adopting)

\* aiMessage claims the one generation there may be.
Claim_Always == TRUE
Claim == aiCancel = None

Message(c) ==
  /\ Ready(c) /\ turns < MaxTurns
  /\ Claim
  /\ turns' = turns + 1
  /\ aiCancel' = turns'
  /\ Started(c, "message", "setting", turns')
  /\ UNCHANGED <<stored, spent>>

\* aiAdoptBuild
Adopt(c) ==
  /\ Ready(c) /\ turns < MaxTurns
  /\ AdoptsAlone => req = [d \in Clients |-> Idle]
  /\ turns' = turns + 1
  /\ Started(c, "adopt", "setting", turns')
  /\ UNCHANGED <<stored, aiCancel, spent>>

\* aiInfo and aiUsage
Info(c) ==
  /\ Ready(c)
  /\ Started(c, "info", "setting", None)
  /\ UNCHANGED <<stored, aiCancel, turns, spent>>

\* aiNewSession looks for a reply under way once, and then creates the row.
New(c) ==
  /\ Ready(c) /\ Len(sessions) < MaxSessions
  /\ aiCancel = None
  /\ Started(c, "new", "create", None)
  /\ UNCHANGED <<stored, aiCancel, turns, spent>>

-------------------------------------------------------------------------------
(* aiSession and newAISession *)

\* Where a request goes once it has its session.
AfterSession(what) == CASE what = "message" -> "context" [] what = "adopt" -> "save"
                 [] what = "new" -> "answer" [] OTHER -> "return"

ReadSetting(c) ==
  /\ req[c].at = "setting"
  /\ \/ /\ req' = [req EXCEPT ![c].id = current,
                              ![c].at = IF current = None THEN "create" ELSE "row"]
        /\ UNCHANGED spent
     \/ Fault /\ Goto(c, "create")
  /\ UNCHANGED <<stored, aiCancel, turns>>

ReadRow(c) ==
  /\ req[c].at = "row"
  /\ \/ /\ req' = [req EXCEPT ![c].copy = sessions[req[c].id], ![c].at = AfterSession(req[c].what)]
        /\ UNCHANGED spent
     \/ Fault /\ Goto(c, "create")
  /\ UNCHANGED <<stored, aiCancel, turns>>

CreateRow_PointFirst(c) ==
  /\ req[c].at = "create"
  /\ current' = Len(sessions) + 1
  /\ req' = [req EXCEPT ![c].id = Len(sessions) + 1, ![c].copy = NewRow, ![c].at = "point"]
  /\ UNCHANGED <<sessions, usage, aiCancel, turns, spent>>
CreateRow(c) ==
  /\ req[c].at = "create"
  /\ \/ /\ sessions' = Append(sessions, NewRow)
        /\ req' = [req EXCEPT ![c].id = Len(sessions) + 1, ![c].copy = NewRow, ![c].at = "point"]
        /\ UNCHANGED spent
     \/ Fault /\ Return(c) /\ UNCHANGED sessions
  /\ UNCHANGED <<current, usage, aiCancel, turns>>

Point(c) ==
  /\ req[c].at = "point"
  /\ \/ current' = req[c].id /\ Goto(c, AfterSession(req[c].what)) /\ UNCHANGED spent
     \/ Fault /\ Return(c) /\ UNCHANGED current
  /\ UNCHANGED <<sessions, usage, aiCancel, turns>>

-------------------------------------------------------------------------------
(* What the requests do with it *)

\* buildContext and provider.Chat; either may fail.
Context(c) ==
  /\ At(c, "message", "context")
  /\ Goto(c, "reply") \/ Return(c)
  /\ UNCHANGED <<stored, aiCancel, turns, spent>>

\* The reply has ended: by itself, by its timeout, by aiCancelGeneration or with
\* the client gone.  It is kept, whole or in part, unless it failed before its
\* first word.
Reply(c) ==
  /\ At(c, "message", "reply")
  /\ Goto(c, "save") \/ Return(c)
  /\ UNCHANGED <<stored, aiCancel, turns, spent>>

WithTurn(c) == [req[c].copy EXCEPT !.turns = Append(@, req[c].turn)]
WithBuild(c) == [req[c].copy EXCEPT !.build = req[c].turn]

\* saveAISession of the whole session, its error unheeded; then the account.
SaveReply(c) ==
  /\ At(c, "message", "save")
  /\ \/ sessions' = [sessions EXCEPT ![req[c].id] = WithTurn(c)] /\ UNCHANGED spent
     \/ Fault /\ UNCHANGED sessions
  /\ Goto(c, "record")
  /\ UNCHANGED <<current, usage, aiCancel, turns>>

RecordUsage(c) ==
  /\ At(c, "message", "record")
  /\ \/ usage' = usage \cup {<<req[c].id, req[c].turn>>} /\ UNCHANGED spent
     \/ Fault /\ UNCHANGED usage
  /\ Return(c)
  /\ UNCHANGED <<sessions, current, aiCancel, turns>>

Release(c) ==
  /\ req[c].at = "release"
  /\ aiCancel' = None
  /\ Done(c)
  /\ UNCHANGED <<stored, turns, spent>>

AdoptSave(c) ==
  /\ At(c, "adopt", "save")
  /\ \/ sessions' = [sessions EXCEPT ![req[c].id] = WithBuild(c)] /\ UNCHANGED spent
     \/ Fault /\ UNCHANGED sessions
  /\ Done(c)
  /\ UNCHANGED <<current, usage, aiCancel, turns>>

\* aiNewSession is answered by aiInfo, which looks for the current session by
\* itself: it may find another one, or none at all, and then it makes one more.
AnswerNew(c) ==
  /\ At(c, "new", "answer")
  /\ Started(c, "info", "setting", None)
  /\ UNCHANGED <<stored, aiCancel, turns, spent>>

Respond(c) ==
  /\ req[c].at = "return"
  /\ Done(c)
  /\ UNCHANGED <<stored, aiCancel, turns, spent>>

\* The server exits and is started again: the database is what is left.
Restart ==
  /\ spent.crashes < MaxCrashes
  /\ spent' = [spent EXCEPT !.crashes = @ + 1]
  /\ req' = [c \in Clients |-> Idle]
  /\ aiCancel' = None
  /\ UNCHANGED <<stored, turns>>

\* A handler goes on by itself once it is called.
Step(c) ==
  \/ ReadSetting(c) \/ ReadRow(c) \/ CreateRow(c) \/ Point(c)
  \/ Context(c) \/ Reply(c) \/ SaveReply(c) \/ RecordUsage(c) \/ Release(c)
  \/ AdoptSave(c) \/ AnswerNew(c) \/ Respond(c)

Next ==
  \/ Restart
  \/ \E c \in Clients : Step(c) \/ Message(c) \/ Adopt(c) \/ Info(c) \/ New(c)

\* A reply ends at the latest when its timeout does, so Reply is fair too.
Spec == Init /\ [][Next]_vars /\ \A c \in Clients : WF_vars(Step(c))

-------------------------------------------------------------------------------
(* What should hold. *)

Row == [turns : Seq(1 .. MaxTurns), build : 0 .. MaxTurns]

\* The types of the rows, the settings, the account and the requests.
TypeOK ==
  /\ sessions \in Seq(Row)
  /\ current \in Nat
  /\ usage \subseteq Nat \X (1 .. MaxTurns)
  /\ aiCancel \in 0 .. MaxTurns
  /\ turns \in 0 .. MaxTurns
  /\ req \in [Clients ->
       [what : {"none", "message", "adopt", "new", "info"},
        at : {"idle", "setting", "row", "create", "point", "context", "reply", "save",
              "record", "release", "answer", "return"},
        id : Nat, copy : Row, turn : 0 .. MaxTurns]]

\* The setting, the account and the requests name sessions that exist: neither a
\* restart nor a failure between the two statements of newAISession leaves a
\* setting without its session, whoever else creates one meanwhile.
SettingNamesSession ==
  /\ current \in Ids \cup {None}
  /\ \A u \in usage : u[1] \in Ids
  /\ \A c \in Clients : req[c].id \in Ids \cup {None}

\* No request takes a turn out of a conversation, or the build it remembers,
\* that another put there: only an adoption changes the build, and a reply only
\* adds itself, whatever was read before and however long ago.
NothingForgotten ==
  [][\A s \in Ids :
       /\ IsPrefix(sessions[s].turns, sessions'[s].turns)
       /\ sessions'[s].build # sessions[s].build => \E c \in Clients : AdoptSave(c)]_vars

\* Every reply under way ends, on every way out of its handler: the next can be
\* asked for.
GenerationEnds == aiCancel # None ~> aiCancel = None

\* What was paid for is in the conversation ("The turn is recorded even when it
\* was stopped or failed part way", ai.go).
TurnsKept == \A u \in usage : u[2] \in ToSet(sessions[u[1]].turns)
=============================================================================
