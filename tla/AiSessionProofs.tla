--------------------------- MODULE AiSessionProofs ---------------------------
(***************************************************************************)
(* Theorems about AiSession for any requests and bounds.                   *)
(***************************************************************************)
EXTENDS AiSession, SequenceTheorems, TLAPS

Kinds == {"none", "message", "adopt", "new", "info"}
Places == {"idle", "setting", "row", "create", "point", "context", "reply", "save",
           "record", "release", "answer", "return"}
Requests == [what : Kinds, at : Places, id : Nat, copy : Row, turn : 0 .. MaxTurns]

Typed ==
  /\ sessions \in Seq(Row) /\ current \in 0 .. Len(sessions)
  /\ usage \subseteq Ids \X (1 .. MaxTurns)
  /\ aiCancel \in 0 .. MaxTurns /\ turns \in 0 .. MaxTurns
  /\ req \in [Clients -> Requests]

\* The replies under way are the one that holds the claim.
Claimed ==
  /\ \A c \in Clients : req[c].what = "message" => aiCancel # None /\ req[c].turn = aiCancel
  /\ \A c, d \in Clients : req[c].what = "message" /\ req[d].what = "message" => c = d

\* A request that knows its session names one that exists, and only a reply
\* releases the claim.
Named(c) == /\ req[c].id <= Len(sessions)
            /\ req[c].at \in {"row", "point", "context", "reply", "save", "record"}
                 => req[c].id \in Ids
            /\ req[c].at = "release" => req[c].what = "message"
Exist == \A c \in Clients : Named(c)

Inv == Typed /\ Claimed /\ Exist

LEMMA InvTyped == Inv => TypeOK
  BY SessionAssumption DEF Inv, Typed, TypeOK, Requests, Kinds, Places, Row, Ids

LEMMA InvNames == Inv => SettingNamesSession
  <1> SUFFICES ASSUME Inv PROVE SettingNamesSession
    OBVIOUS
  <1>1. Len(sessions) \in Nat /\ current \in 0 .. Len(sessions)
    BY DEF Inv, Typed
  <1>2. \A u \in usage : u[1] \in Ids
    BY DEF Inv, Typed
  <1>3. ASSUME NEW c \in Clients PROVE req[c].id \in Nat /\ req[c].id <= Len(sessions)
    BY <1>3 DEF Inv, Typed, Exist, Named, Requests
  <1> QED BY <1>1, <1>2, <1>3 DEF SettingNamesSession, Ids, None

LEMMA Constants == NewRow \in Row /\ Idle \in Requests /\ None = 0 /\ MaxTurns \in Nat
  BY SessionAssumption DEF NewRow, Row, None, Idle, Requests, Kinds, Places

LEMMA ReturnTyped ==
  ASSUME NEW c \in Clients, req \in [Clients -> Requests], Return(c)
  PROVE  /\ req' \in [Clients -> Requests]
         /\ \A d \in Clients : d # c => req'[d] = req[d]
         /\ req'[c].at \in {"idle", "release"}
         /\ req'[c].at = "release" => req'[c].what = "message"
         /\ req'[c].what \in {req[c].what, "none"}
         /\ req'[c].id \in {req[c].id, 0}
         /\ req'[c].turn = req[c].turn \/ req'[c].what = "none"
  BY Constants DEF Return, Goto, Done, Requests, Places, Idle, Kinds

\* The request is still the same, wherever it has got to.
Same(c) == /\ req'[c].what = req[c].what /\ req'[c].turn = req[c].turn
           /\ req'[c].id = req[c].id /\ req'[c].copy = req[c].copy

LEMMA GotoTyped ==
  ASSUME NEW c \in Clients, req \in [Clients -> Requests], NEW at \in Places, Goto(c, at)
  PROVE  /\ req' \in [Clients -> Requests]
         /\ \A d \in Clients : d # c => req'[d] = req[d]
         /\ req'[c].at = at /\ Same(c)
  BY DEF Goto, Requests, Same

LEMMA StartedTyped ==
  ASSUME NEW c \in Clients, req \in [Clients -> Requests],
         NEW what \in Kinds, NEW at \in Places, NEW turn \in 0 .. MaxTurns,
         Started(c, what, at, turn)
  PROVE  /\ req' \in [Clients -> Requests]
         /\ \A d \in Clients : d # c => req'[d] = req[d]
         /\ req'[c].what = what /\ req'[c].at = at /\ req'[c].turn = turn /\ req'[c].id = 0
  BY Constants DEF Started, Idle, Requests

LEMMA AfterTyped ==
  \A what : AfterSession(what) \in {"context", "save", "answer", "return"}
  BY DEF AfterSession

\* What a step does to the requests: one of them moves on.
MovesOn(c) ==
  /\ req' \in [Clients -> Requests]
  /\ \A d \in Clients : d # c => req'[d] = req[d]
  /\ req'[c].what \in {req[c].what, "none", "info"}
  /\ req'[c].turn = req[c].turn \/ req'[c].what \in {"none", "info"}

LEMMA StepMovesOn ==
  ASSUME Inv, NEW c \in Clients, Step(c)
  PROVE  MovesOn(c) /\ Named(c)' /\ Len(sessions) <= Len(sessions')
  <1> USE Constants, AfterTyped DEF Inv, Typed, Exist, Named, Ids, MovesOn
  <1>1. CASE ReadSetting(c)
    <2>1. CASE Goto(c, "create")
      BY <1>1, <2>1, GotoTyped DEF ReadSetting, Places, Same, stored
    <2>2. CASE req' = [req EXCEPT ![c].id = current,
                                  ![c].at = IF current = None THEN "create" ELSE "row"]
      <3>1. req' = [req EXCEPT ![c] = [@ EXCEPT !.id = current,
                                         !.at = IF current = None THEN "create" ELSE "row"]]
        BY <2>2
      <3>2. [req[c] EXCEPT !.id = current, !.at = IF current = None THEN "create" ELSE "row"]
              \in Requests
        <4>1. PICK at \in Places : at = IF current = None THEN "create" ELSE "row"
          BY DEF Places
        <4>2. current \in Nat
          OBVIOUS
        <4>3. [req[c] EXCEPT !.id = current, !.at = at] \in Requests
          BY <4>2 DEF Requests
        <4> QED BY <4>1, <4>3
      <3>3. req' \in [Clients -> Requests] /\ \A d \in Clients : d # c => req'[d] = req[d]
        BY <3>1, <3>2
      <3>4. /\ req'[c].what = req[c].what /\ req'[c].turn = req[c].turn
            /\ req'[c].id = current
            /\ req'[c].at = IF current = None THEN "create" ELSE "row"
        BY <3>1 DEF Requests
      <3>5. sessions' = sessions
        BY <1>1 DEF ReadSetting, stored
      <3> QED BY <3>3, <3>4, <3>5
    <2> QED BY <1>1, <2>1, <2>2 DEF ReadSetting
  <1>2. CASE ReadRow(c)
    <2>1. CASE Goto(c, "create")
      BY <1>2, <2>1, GotoTyped DEF ReadRow, Places, Same, stored
    <2>2. CASE req' = [req EXCEPT ![c].copy = sessions[req[c].id],
                                  ![c].at = AfterSession(req[c].what)]
      <3>1. req' = [req EXCEPT ![c] = [@ EXCEPT !.copy = sessions[req[c].id],
                                                !.at = AfterSession(req[c].what)]]
        BY <2>2
      <3>2. sessions[req[c].id] \in Row /\ AfterSession(req[c].what) \in Places
        BY <1>2 DEF ReadRow, Places
      <3>3. [req[c] EXCEPT !.copy = sessions[req[c].id], !.at = AfterSession(req[c].what)]
              \in Requests
        BY <3>2 DEF Requests
      <3>4. req' \in [Clients -> Requests] /\ \A d \in Clients : d # c => req'[d] = req[d]
        BY <3>1, <3>3
      <3>5. /\ req'[c].what = req[c].what /\ req'[c].turn = req[c].turn
            /\ req'[c].id = req[c].id
        BY <3>1 DEF Requests
      <3>6. req[c].id \in Ids /\ sessions' = sessions
        BY <1>2 DEF ReadRow, stored
      <3>7. req[c].at = "row" /\ AfterSession(req[c].what) # "release"
        BY <1>2 DEF ReadRow
      <3>8. req'[c].at = AfterSession(req[c].what)
        BY <3>1 DEF Requests
      <3> QED BY <3>4, <3>5, <3>6, <3>7, <3>8
    <2> QED BY <1>2, <2>1, <2>2 DEF ReadRow
  <1>3. CASE CreateRow(c)
    <2>1. CASE Return(c) /\ UNCHANGED sessions
      BY <2>1, ReturnTyped
    <2>2. CASE /\ sessions' = Append(sessions, NewRow)
               /\ req' = [req EXCEPT ![c].id = Len(sessions) + 1, ![c].copy = NewRow,
                                     ![c].at = "point"]
      <3>1. req' = [req EXCEPT ![c] = [@ EXCEPT !.id = Len(sessions) + 1, !.copy = NewRow,
                                                !.at = "point"]]
        BY <2>2
      <3>2. [req[c] EXCEPT !.id = Len(sessions) + 1, !.copy = NewRow, !.at = "point"]
              \in Requests
        <4>1. Len(sessions) + 1 \in Nat /\ "point" \in Places /\ req[c] \in Requests
          BY DEF Places
        <4> QED BY <4>1 DEF Requests
      <3>3. req' \in [Clients -> Requests] /\ \A d \in Clients : d # c => req'[d] = req[d]
        BY <3>1, <3>2
      <3>4. /\ req'[c].what = req[c].what /\ req'[c].turn = req[c].turn
            /\ req'[c].id = Len(sessions) + 1 /\ req'[c].at = "point"
        BY <3>1 DEF Requests
      <3>5. Len(sessions') = Len(sessions) + 1
        BY <2>2
      <3> QED BY <3>3, <3>4, <3>5
    <2> QED BY <1>3, <2>1, <2>2 DEF CreateRow
  <1>4. CASE Point(c)
    BY <1>4, ReturnTyped, GotoTyped DEF Point, Places, Same
  <1>5. CASE Context(c)
    BY <1>5, ReturnTyped, GotoTyped DEF Context, Places, Same, stored, At
  <1>6. CASE Reply(c)
    BY <1>6, ReturnTyped, GotoTyped DEF Reply, Places, Same, stored, At
  <1>7. CASE SaveReply(c)
    BY <1>7, GotoTyped DEF SaveReply, Places, Same, At
  <1>8. CASE RecordUsage(c)
    BY <1>8, ReturnTyped DEF RecordUsage
  <1>9. CASE Release(c)
    BY <1>9 DEF Release, Done, Idle, stored
  <1>10. CASE AdoptSave(c)
    BY <1>10 DEF AdoptSave, Done, Idle
  <1>11. CASE Respond(c)
    BY <1>11 DEF Respond, Done, Idle, stored
  <1>12. CASE AnswerNew(c)
    BY <1>12, StartedTyped DEF AnswerNew, Kinds, Places, stored
  <1> QED BY <1>1, <1>2, <1>3, <1>4, <1>5, <1>6, <1>7, <1>8, <1>9, <1>10, <1>11, <1>12 DEF Step

LEMMA StepStored ==
  ASSUME Inv, NEW c \in Clients, Step(c)
  PROVE  /\ sessions' \in Seq(Row) /\ current' \in 0 .. Len(sessions')
         /\ usage' \subseteq Ids' \X (1 .. MaxTurns)
         /\ turns' = turns
         /\ aiCancel' = IF Release(c) THEN None ELSE aiCancel
  <1> USE Constants DEF Inv, Typed, Exist, Named, Ids, stored
  <1>1. CASE ReadSetting(c) \/ ReadRow(c) \/ Context(c) \/ Reply(c) \/ AnswerNew(c) \/ Respond(c)
    BY <1>1 DEF ReadSetting, ReadRow, Context, Reply, AnswerNew, Respond, Release, At
  <1>2. CASE CreateRow(c)
    <2>1. /\ current' = current /\ usage' = usage /\ turns' = turns /\ aiCancel' = aiCancel
          /\ ~Release(c)
      BY <1>2 DEF CreateRow, Release
    <2>2. sessions' = Append(sessions, NewRow) \/ sessions' = sessions
      BY <1>2 DEF CreateRow
    <2>3. sessions' \in Seq(Row) /\ Len(sessions) <= Len(sessions')
      BY <2>2
    <2> QED BY <2>1, <2>3
  <1>3. CASE Point(c)
    BY <1>3 DEF Point, Release
  <1>4. CASE SaveReply(c)
    <2>1. WithTurn(c) \in Row
      <3>1. req[c].copy \in Row /\ req[c].turn \in 1 .. MaxTurns
        BY <1>4 DEF SaveReply, At, Claimed, Requests
      <3>2. Append(req[c].copy.turns, req[c].turn) \in Seq(1 .. MaxTurns)
        BY <3>1 DEF Row
      <3> QED BY <3>1, <3>2 DEF WithTurn, Row
    <2> QED BY <1>4, <2>1 DEF SaveReply, At, Release
  <1>5. CASE RecordUsage(c)
    BY <1>5 DEF RecordUsage, At, Release, Claimed
  <1>6. CASE Release(c)
    BY <1>6, SessionAssumption DEF Release
  <1>7. CASE AdoptSave(c)
    <2>1. WithBuild(c) \in Row
      BY <1>7 DEF AdoptSave, At, WithBuild, Requests, Row
    <2> QED BY <1>7, <2>1 DEF AdoptSave, At, Release
  <1> QED BY <1>1, <1>2, <1>3, <1>4, <1>5, <1>6, <1>7 DEF Step

LEMMA InvStep ==
  ASSUME Inv, NEW c \in Clients, Step(c)
  PROVE  Inv'
  <1>1. Typed'
    BY StepMovesOn, StepStored, Constants DEF MovesOn, Typed, Inv
  <1>2. Claimed'
    <2>1. CASE Release(c)
      <3>1. aiCancel' = None /\ req'[c].what = "none"
        BY <2>1, Constants DEF Release, Done, Idle, Inv, Typed
      <3>2. \A d \in Clients : req'[d].what # "message"
        <4>1. req[c].what = "message"
          <5>1. Named(c)
            BY DEF Inv, Exist
          <5>2. req[c].at = "release"
            BY <2>1 DEF Release
          <5> QED BY <5>1, <5>2 DEF Named
        <4>2. \A d \in Clients : d # c => req'[d] = req[d] /\ req[d].what # "message"
          BY <4>1, StepMovesOn DEF MovesOn, Inv, Claimed
        <4> QED BY <3>1, <4>2
      <3> QED BY <3>2 DEF Claimed
    <2>2. CASE ~Release(c)
      BY <2>2, StepMovesOn, StepStored DEF MovesOn, Inv, Claimed
    <2> QED BY <2>1, <2>2
  <1>3. Exist'
    <2>1. \A d \in Clients : d # c => req'[d] = req[d]
      BY StepMovesOn DEF MovesOn
    <2>2. Named(c)' /\ Len(sessions) <= Len(sessions')
      BY StepMovesOn
    <2>3. Len(sessions) \in Nat /\ Len(sessions') \in Nat
      BY <1>1 DEF Inv, Typed
    <2>4. ASSUME NEW d \in Clients, d # c PROVE Named(d)'
      <3>1. Named(d) /\ req[d].id \in Nat /\ req'[d] = req[d]
        BY <2>1, <2>4 DEF Inv, Exist, Typed, Requests
      <3> QED BY <2>2, <2>3, <3>1 DEF Named, Ids
    <2> QED BY <2>2, <2>4 DEF Exist
  <1> QED BY <1>1, <1>2, <1>3 DEF Inv

LEMMA InvStart ==
  ASSUME Inv, NEW c \in Clients, Message(c) \/ Adopt(c) \/ Info(c) \/ New(c)
  PROVE  Inv'
  <1> USE Constants DEF Inv, Typed, Exist, Named, Ids, stored
  <1>1. CASE Message(c)
    <2>1. /\ turns' = turns + 1 /\ aiCancel' = turns' /\ turns' \in 1 .. MaxTurns
          /\ aiCancel = None /\ sessions' = sessions /\ current' = current /\ usage' = usage
      BY <1>1 DEF Message, Claim
    <2>2. Started(c, "message", "setting", turns')
      BY <1>1 DEF Message
    <2>3. /\ req' \in [Clients -> Requests]
          /\ \A d \in Clients : d # c => req'[d] = req[d]
          /\ req'[c].what = "message" /\ req'[c].at = "setting" /\ req'[c].turn = turns'
          /\ req'[c].id = 0
      BY <2>1, <2>2, StartedTyped DEF Kinds, Places
    <2>4. \A d \in Clients : req[d].what # "message"
      BY <2>1 DEF Claimed
    <2>5. Typed'
      BY <2>1, <2>3
    <2>6. Claimed'
      BY <2>1, <2>3, <2>4 DEF Claimed
    <2> QED BY <2>1, <2>3, <2>5, <2>6
  <1>2. ASSUME NEW what \in {"adopt", "info", "new"}, NEW at \in {"setting", "create"},
               NEW turn \in 0 .. MaxTurns, Started(c, what, at, turn),
               turns' \in 0 .. MaxTurns, UNCHANGED <<stored, aiCancel>>
        PROVE  Inv'
    <2>1. /\ req' \in [Clients -> Requests]
          /\ \A d \in Clients : d # c => req'[d] = req[d]
          /\ req'[c].what = what /\ req'[c].at = at /\ req'[c].id = 0
      BY <1>2, StartedTyped DEF Kinds, Places
    <2>2. UNCHANGED <<sessions, current, usage, aiCancel>>
      BY <1>2
    <2>3. Claimed'
      BY <2>1, <2>2 DEF Claimed
    <2> QED BY <1>2, <2>1, <2>2, <2>3
  <1>3. CASE Adopt(c)
    <2>1. turns' \in 0 .. MaxTurns
      BY <1>3 DEF Adopt
    <2> QED BY <1>2, <1>3, <2>1 DEF Adopt
  <1>4. CASE Info(c) \/ New(c)
    BY <1>2, <1>4 DEF Info, New
  <1> QED BY <1>1, <1>2, <1>3, <1>4

LEMMA InvRestart == Inv /\ Restart => Inv'
  BY Constants DEF Inv, Typed, Claimed, Exist, Named, Ids, Restart, stored, Idle

LEMMA InvInit == Init => Inv
  BY Constants DEF Init, Inv, Typed, Claimed, Exist, Named, Ids, Idle

LEMMA InvNext == Inv /\ [Next]_vars => Inv'
  <1> SUFFICES ASSUME Inv, [Next]_vars PROVE Inv'
    OBVIOUS
  <1>1. CASE UNCHANGED vars
    BY <1>1 DEF vars, Inv, Typed, Claimed, Exist, Named, Ids
  <1>2. CASE Next
    BY <1>2, InvStep, InvStart, InvRestart DEF Next
  <1> QED BY <1>1, <1>2

LEMMA InvHolds == Spec => []Inv
  BY InvInit, InvNext, PTL DEF Spec

\* Rows, settings, account and requests keep their types (all of ai.go that is
\* modelled).
THEOREM TypeCorrect == Spec => []TypeOK
  BY InvHolds, InvTyped, PTL

\* No restart, failed statement or session created meanwhile leaves a setting, a
\* request or a line of the account with a session that does not exist
\* (newAISession saves the row before it points to it).
THEOREM SessionsExist == Spec => []SettingNamesSession
  BY InvHolds, InvNames, PTL

(***************************************************************************)
(* No reply and no adoption takes away what another put there.             *)
(***************************************************************************)

\* An adoption under way is the only request there is.
Alone == \A c, d \in Clients : req[c].what = "adopt" /\ c # d => req[d] = Idle

Bearing(c) == /\ req[c].what \in {"message", "adopt"}
              /\ req[c].at \in {"point", "context", "reply", "save"}

\* What a request will write back is still what the database holds.
Fresh == \A c \in Clients : Bearing(c) => req[c].copy = sessions[req[c].id]

LEMMA StepNotIdle ==
  ASSUME NEW c \in Clients, Step(c)
  PROVE  req[c] # Idle
  BY DEF Step, Idle, ReadSetting, ReadRow, CreateRow, Point, Context, Reply, SaveReply,
         RecordUsage, Release, AdoptSave, AnswerNew, Respond, At

LEMMA AloneNext ==
  ASSUME AdoptsAlone, Inv, Alone, [Next]_vars
  PROVE  Alone'
  <1>1. ASSUME NEW c \in Clients, Step(c) PROVE Alone'
    <2>1. \A d \in Clients : d # c => req'[d] = req[d] /\ req[d].what # "adopt"
      BY <1>1, StepMovesOn, StepNotIdle DEF MovesOn, Alone
    <2>2. req'[c].what = "adopt" => req[c].what = "adopt"
      BY <1>1, StepMovesOn DEF MovesOn
    <2> QED BY <2>1, <2>2 DEF Alone
  <1>2. ASSUME NEW c \in Clients, NEW what \in Kinds \ {"adopt"}, NEW at \in Places,
               NEW turn \in 0 .. MaxTurns, Started(c, what, at, turn), Ready(c)
        PROVE  Alone'
    <2>1. \A d \in Clients : req[d].what # "adopt"
      BY <1>2 DEF Ready, Adopting
    <2>2. /\ \A d \in Clients : d # c => req'[d] = req[d]
          /\ req'[c].what = what
      BY <1>2, StartedTyped DEF Inv, Typed
    <2> QED BY <2>1, <2>2 DEF Alone
  <1>3. ASSUME NEW c \in Clients, Message(c) \/ Info(c) \/ New(c) PROVE Alone'
    <2>1. /\ Ready(c)
          /\ \E what \in Kinds \ {"adopt"}, at \in Places, turn \in 0 .. MaxTurns :
               Started(c, what, at, turn)
      BY <1>3, Constants DEF Message, Info, New, Kinds, Places, Inv, Typed
    <2> QED BY <1>2, <2>1
  <1>4. ASSUME NEW c \in Clients, Adopt(c) PROVE Alone'
    <2>1. \A d \in Clients : d # c => req'[d] = Idle
      BY <1>4 DEF Adopt, Started, Inv, Typed
    <2> QED BY <2>1 DEF Alone, Idle
  <1>5. CASE Restart
    BY <1>5 DEF Restart, Alone, Idle
  <1>6. CASE UNCHANGED vars
    BY <1>6 DEF vars, Alone
  <1> QED BY <1>1, <1>3, <1>4, <1>5, <1>6 DEF Next

\* Rows are kept by every step but those that save one, and a row that is saved
\* is the copy with something added.
LEMMA StepKeepsRows ==
  ASSUME Inv, NEW c \in Clients, Step(c)
  PROVE  \/ \A s \in Ids : sessions'[s] = sessions[s]
         \/ SaveReply(c) /\ sessions' = [sessions EXCEPT ![req[c].id] = WithTurn(c)]
         \/ AdoptSave(c) /\ sessions' = [sessions EXCEPT ![req[c].id] = WithBuild(c)]
  <1>1. CASE CreateRow(c)
    <2>1. sessions' = Append(sessions, NewRow) \/ sessions' = sessions
      BY <1>1 DEF CreateRow
    <2>2. \A s \in Ids : Append(sessions, NewRow)[s] = sessions[s]
      BY DEF Inv, Typed, Ids
    <2> QED BY <2>1, <2>2
  <1>2. CASE SaveReply(c) \/ AdoptSave(c)
    BY <1>2 DEF SaveReply, AdoptSave
  <1>3. CASE ~(CreateRow(c) \/ SaveReply(c) \/ AdoptSave(c))
    BY <1>3 DEF Step, ReadSetting, ReadRow, Point, Context, Reply, RecordUsage, Release,
                AnswerNew, Respond, stored
  <1> QED BY <1>1, <1>2, <1>3

LEMMA FreshOthers ==
  ASSUME AdoptsAlone, Inv, Alone, Fresh, NEW c \in Clients, Step(c),
         NEW d \in Clients, d # c, Bearing(d)'
  PROVE  req'[d].copy = sessions'[req'[d].id]
  <1>1. req'[d] = req[d] /\ Bearing(d)
    BY StepMovesOn DEF MovesOn, Bearing
  <1>2. req[d].copy = sessions[req[d].id] /\ req[d].id \in Ids
    BY <1>1 DEF Fresh, Bearing, Inv, Exist, Named
  <1>3. ~SaveReply(c) /\ ~AdoptSave(c)
    <2>1. req[c].what # "adopt"
      BY <1>1 DEF Alone, Bearing, Idle
    <2>2. req[d].what # "adopt"
      BY StepNotIdle DEF Alone
    <2>3. req[c].what # "message"
      BY <1>1, <2>2 DEF Bearing, Inv, Claimed
    <2> QED BY <2>1, <2>3 DEF SaveReply, AdoptSave, At
  <1> QED BY <1>1, <1>2, <1>3, StepKeepsRows

LEMMA FreshOwn ==
  ASSUME Inv, Fresh, NEW c \in Clients, Step(c), Bearing(c)'
  PROVE  req'[c].copy = sessions'[req'[c].id]
  <1> USE AfterTyped DEF Inv, Typed
  <1>0. req'[c].at \in {"point", "context", "reply", "save"}
    BY DEF Bearing
  <1>1. CASE ReadRow(c)
    <2>1. CASE Goto(c, "create")
      BY <1>0, <2>1, GotoTyped DEF Places
    <2>2. CASE req' = [req EXCEPT ![c].copy = sessions[req[c].id],
                                  ![c].at = AfterSession(req[c].what)]
      <3>1. req' = [req EXCEPT ![c] = [@ EXCEPT !.copy = sessions[req[c].id],
                                                !.at = AfterSession(req[c].what)]]
        BY <2>2
      <3>2. req'[c].copy = sessions[req[c].id] /\ req'[c].id = req[c].id
        BY <3>1 DEF Requests
      <3> QED BY <1>1, <3>2 DEF ReadRow, stored
    <2> QED BY <1>1, <2>1, <2>2 DEF ReadRow
  <1>2. CASE CreateRow(c)
    <2>1. CASE Return(c)
      BY <1>0, <2>1, ReturnTyped
    <2>2. CASE /\ sessions' = Append(sessions, NewRow)
               /\ req' = [req EXCEPT ![c].id = Len(sessions) + 1, ![c].copy = NewRow,
                                     ![c].at = "point"]
      <3>1. req' = [req EXCEPT ![c] = [@ EXCEPT !.id = Len(sessions) + 1, !.copy = NewRow,
                                                !.at = "point"]]
        BY <2>2
      <3>2. req'[c].copy = NewRow /\ req'[c].id = Len(sessions) + 1
        BY <3>1 DEF Requests
      <3>3. sessions'[Len(sessions) + 1] = NewRow
        BY <2>2
      <3> QED BY <3>2, <3>3
    <2> QED BY <1>2, <2>1, <2>2 DEF CreateRow
  <1>3. CASE Point(c) \/ Context(c) \/ Reply(c)
    <2>1. ~Return(c)
      BY <1>0, ReturnTyped
    <2>2. PICK at \in Places : Goto(c, at)
      BY <1>3, <2>1 DEF Point, Context, Reply, Places
    <2>3. Same(c) /\ sessions' = sessions
      BY <1>3, <2>2, GotoTyped DEF Point, Context, Reply, stored
    <2>4. Bearing(c)
      BY <1>3, <2>3 DEF Bearing, Point, Context, Reply, At, Same
    <2> QED BY <2>3, <2>4 DEF Same, Fresh
  <1>4. CASE ReadSetting(c)
    <2>1. req'[c].at \in {"create", "row"}
      <3>1. CASE Goto(c, "create")
        BY <3>1, GotoTyped DEF Places
      <3>2. CASE req' = [req EXCEPT ![c].id = current,
                                    ![c].at = IF current = None THEN "create" ELSE "row"]
        BY <3>2 DEF Requests
      <3> QED BY <1>4, <3>1, <3>2 DEF ReadSetting
    <2> QED BY <1>0, <2>1
  <1>5. CASE SaveReply(c)
    BY <1>0, <1>5, GotoTyped DEF SaveReply, Places
  <1>6. CASE RecordUsage(c)
    BY <1>0, <1>6, ReturnTyped DEF RecordUsage
  <1>7. CASE Release(c) \/ AdoptSave(c) \/ Respond(c)
    BY <1>0, <1>7 DEF Release, AdoptSave, Respond, Done, Idle
  <1>8. CASE AnswerNew(c)
    BY <1>0, <1>8 DEF AnswerNew, Started, Idle
  <1> QED BY <1>1, <1>2, <1>3, <1>4, <1>5, <1>6, <1>7, <1>8 DEF Step

LEMMA FreshNext ==
  ASSUME AdoptsAlone, Inv, Alone, Fresh, [Next]_vars
  PROVE  Fresh'
  <1>1. ASSUME NEW c \in Clients, Step(c) PROVE Fresh'
    BY <1>1, FreshOwn, FreshOthers DEF Fresh
  <1>2. ASSUME NEW c \in Clients, Message(c) \/ Adopt(c) \/ Info(c) \/ New(c) PROVE Fresh'
    <2>1. sessions' = sessions
      BY <1>2 DEF Message, Adopt, Info, New, stored
    <2>2. /\ \A d \in Clients : d # c => req'[d] = req[d]
          /\ req'[c].at \in {"setting", "create"}
      BY <1>2, Constants DEF Message, Adopt, Info, New, Started, Idle, Inv, Typed
    <2> QED BY <2>1, <2>2 DEF Fresh, Bearing
  <1>3. CASE Restart
    BY <1>3 DEF Restart, Fresh, Bearing, Idle
  <1>4. CASE UNCHANGED vars
    BY <1>4 DEF vars, Fresh, Bearing
  <1> QED BY <1>1, <1>2, <1>3, <1>4 DEF Next

\* One step of NothingForgotten.
Kept == \A s \in Ids :
  /\ IsPrefix(sessions[s].turns, sessions'[s].turns)
  /\ sessions'[s].build # sessions[s].build => \E c \in Clients : AdoptSave(c)

LEMMA PrefixFacts ==
  ASSUME NEW S, NEW t \in Seq(S), NEW e \in S
  PROVE  IsPrefix(t, t) /\ IsPrefix(t, Append(t, e))
  <1>1. Append(t, e) \in Seq(S) /\ Len(Append(t, e)) = Len(t) + 1 /\ Len(t) \in Nat
    OBVIOUS
  <1>2. /\ SubSeq(t, 1, Len(t)) \in Seq(S) /\ Len(SubSeq(t, 1, Len(t))) = Len(t)
        /\ \A i \in 1 .. Len(t) : SubSeq(t, 1, Len(t))[i] = t[i]
    BY SubSeqProperties
  <1>3. /\ SubSeq(Append(t, e), 1, Len(t)) \in Seq(S)
        /\ Len(SubSeq(Append(t, e), 1, Len(t))) = Len(t)
        /\ \A i \in 1 .. Len(t) : SubSeq(Append(t, e), 1, Len(t))[i] = Append(t, e)[i]
    BY <1>1, SubSeqProperties
  <1>4. \A i \in 1 .. Len(t) : Append(t, e)[i] = t[i]
    OBVIOUS
  <1>5. SubSeq(t, 1, Len(t)) = SubSeq(Append(t, e), 1, Len(t))
    BY <1>2, <1>3, <1>4, SeqEqual
  <1> QED BY <1>1, <1>5 DEF IsPrefix

LEMMA RowsTyped ==
  ASSUME Inv
  PROVE  \A s \in Ids : sessions[s] \in Row /\ sessions[s].turns \in Seq(1 .. MaxTurns)
  <1>1. \A s \in Ids : sessions[s] \in Row
    BY DEF Inv, Typed, Ids
  <1> QED BY <1>1 DEF Row

LEMMA Itself == ASSUME NEW S, NEW t \in Seq(S) PROVE IsPrefix(t, t)
  <1>1. CASE t = <<>>
    BY <1>1, Len(t) = 0 DEF IsPrefix
  <1>2. CASE t # <<>>
    <2>1. Len(t) \in 1 .. Len(t) /\ t[Len(t)] \in S
      BY <1>2
    <2> QED BY <2>1, PrefixFacts
  <1> QED BY <1>1, <1>2

LEMMA SameKept ==
  ASSUME Inv, \A s \in Ids : sessions'[s] = sessions[s]
  PROVE  Kept
  <1>1. \A s \in Ids : IsPrefix(sessions[s].turns, sessions'[s].turns)
    BY RowsTyped, Itself
  <1> QED BY <1>1 DEF Kept

LEMMA StepKeeps ==
  ASSUME AdoptsAlone, Inv, Fresh, NEW c \in Clients, Step(c)
  PROVE  Kept
  <1>1. CASE \A s \in Ids : sessions'[s] = sessions[s]
    BY <1>1, SameKept
  <1>2. CASE SaveReply(c) /\ sessions' = [sessions EXCEPT ![req[c].id] = WithTurn(c)]
    <2> DEFINE id == req[c].id
    <2>1. req[c].copy = sessions[id] /\ id \in Ids
      BY <1>2 DEF SaveReply, At, Fresh, Bearing, Inv, Exist, Named
    <2>2. req[c].turn \in 1 .. MaxTurns
      BY <1>2 DEF SaveReply, At, Inv, Claimed, Typed, Requests, None
    <2>3. /\ WithTurn(c).turns = Append(sessions[id].turns, req[c].turn)
          /\ WithTurn(c).build = sessions[id].build
      BY <2>1, RowsTyped DEF WithTurn, Row
    <2>4. \A s \in Ids : sessions'[s] = IF s = id THEN WithTurn(c) ELSE sessions[s]
      BY <1>2 DEF Inv, Typed, Ids
    <2>5. IsPrefix(sessions[id].turns, WithTurn(c).turns)
      BY <2>1, <2>2, <2>3, RowsTyped, PrefixFacts
    <2>6. \A s \in Ids : IsPrefix(sessions[s].turns, sessions'[s].turns)
      BY <2>4, <2>5, RowsTyped, Itself
    <2>7. \A s \in Ids : sessions'[s].build = sessions[s].build
      BY <2>3, <2>4
    <2> QED BY <2>6, <2>7 DEF Kept
  <1>3. CASE AdoptSave(c) /\ sessions' = [sessions EXCEPT ![req[c].id] = WithBuild(c)]
    <2> DEFINE id == req[c].id
    <2>1. id \in Ids => req[c].copy = sessions[id]
      BY <1>3 DEF AdoptSave, At, Fresh, Bearing
    <2>2. id \in Ids => WithBuild(c).turns = sessions[id].turns
      BY <2>1, RowsTyped DEF WithBuild, Row
    <2>3. \A s \in Ids : sessions'[s] = IF s = id THEN WithBuild(c) ELSE sessions[s]
      BY <1>3 DEF Inv, Typed, Ids
    <2>4. \A s \in Ids : sessions'[s].turns = sessions[s].turns
      BY <2>2, <2>3
    <2>5. \A s \in Ids : IsPrefix(sessions[s].turns, sessions'[s].turns)
      BY <2>4, RowsTyped, Itself
    <2> QED BY <1>3, <2>5 DEF Kept
  <1> QED BY <1>1, <1>2, <1>3, StepKeepsRows

LEMMA NextKeeps ==
  ASSUME AdoptsAlone, Inv, Fresh, [Next]_vars
  PROVE  Kept
  <1>1. ASSUME NEW c \in Clients, Message(c) \/ Adopt(c) \/ Info(c) \/ New(c) PROVE Kept
    BY <1>1, SameKept DEF Message, Adopt, Info, New, stored
  <1>2. CASE Restart \/ UNCHANGED vars
    BY <1>2, SameKept DEF Restart, vars, stored
  <1> QED BY <1>1, <1>2, StepKeeps DEF Next

\* While builds are adopted with nothing else under way, no reply and no
\* adoption takes a turn or a build out of a conversation.
THEOREM NothingIsForgotten ==
  ASSUME AdoptsAlone
  PROVE  Spec => NothingForgotten
  <1>1. Init => Alone /\ Fresh
    BY DEF Init, Alone, Fresh, Bearing, Idle
  <1>2. Inv /\ Alone /\ Fresh /\ [Next]_vars => Alone' /\ Fresh'
    BY AloneNext, FreshNext
  <1>3. Inv /\ Fresh /\ [Next]_vars => [Kept]_vars
    BY NextKeeps
  <1>4. Spec => [][Kept]_vars
    BY <1>1, <1>2, <1>3, InvHolds, PTL DEF Spec
  <1> QED BY <1>4, PTL DEF NothingForgotten, Kept
=============================================================================
