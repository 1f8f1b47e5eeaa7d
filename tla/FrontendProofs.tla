--------------------------- MODULE FrontendProofs ---------------------------
(***************************************************************************)
(* Proofs about the components of MCFrontend, for any records, fields,     *)
(* values, filters and bounds.  A behaviour is one of a single component;  *)
(* each section proves an invariant of one over the variables lent to it.  *)
(***************************************************************************)
EXTENDS MCFrontend, FiniteSets, FiniteSetTheorems, SequenceTheorems, TLAPS

-----------------------------------------------------------------------------
(* Generated client: call is v1, page v2, state v3 and loads v4 *)

CallInv(r) ==
  r \in Api!CallState /\ Api!SettledAsFlagged(r) /\ Api!FlaggedAtTheEnd(r)

ApiInv == Api!TypeOK /\ \A c \in Api!Calls : CallInv(v1[c])

LEMMA NewCallInv == CallInv(Api!NewCall)
<1>1. Api!NewCall \in Api!CallState
  BY DEF Api!NewCall, Api!CallState
<1> QED BY <1>1 DEF CallInv, Api!NewCall, Api!SettledAsFlagged, Api!FlaggedAtTheEnd

LEMMA ApiInvInit == Api!Init => ApiInv
<1>1. Api!NewCall \in Api!CallState
  BY NewCallInv DEF CallInv
<1> QED BY <1>1, NewCallInv, ConstantsAssumption DEF Api!Init, ApiInv, Api!TypeOK, Api!Pages

LEMMA OutcomesAreSequences ==
  \A outcome \in {"value", "nothing", "error", "cancel"} :
    <<outcome>> \in Seq({"value", "nothing", "error", "cancel"})
OBVIOUS

(* request() ends, whatever became of the promise. *)
LEMMA DoneInv ==
  ASSUME NEW r, CallInv(r)
  PROVE  CallInv([r EXCEPT !.step = "done"])
<1>7. [r EXCEPT !.step = "done"] \in Api!CallState
  BY DEF CallInv, Api!CallState
<1>8. Api!SettledAsFlagged([r EXCEPT !.step = "done"])
  BY DEF CallInv, Api!SettledAsFlagged, Api!CallState
<1>9. Api!FlaggedAtTheEnd([r EXCEPT !.step = "done"])
  BY DEF CallInv, Api!FlaggedAtTheEnd, Api!CallState
<1> QED BY <1>7, <1>8, <1>9 DEF CallInv

(* What the promise does with a result. *)
LEMMA RejectedInv ==
  ASSUME NEW r, CallInv(r), r.step = "done"
  PROVE  CallInv(Api!OnReject(r))
<1>1. CASE r.flag # "pending"
  BY <1>1 DEF Api!OnReject
<1>2. CASE r.flag = "pending"
  <2>1. r.settled = <<>>
    BY <1>2 DEF CallInv, Api!SettledAsFlagged
  <2>2. Append(r.settled, "error") = <<"error">>
    BY <2>1
  <2>3. Api!OnReject(r) = [r EXCEPT !.flag = "rejected", !.settled = <<"error">>]
    BY <1>2, <2>2 DEF CallInv, Api!OnReject, Api!CallState
  <2>7. [r EXCEPT !.flag = "rejected", !.settled = <<"error">>] \in Api!CallState
    BY OutcomesAreSequences DEF CallInv, Api!CallState
  <2>8. Api!SettledAsFlagged([r EXCEPT !.flag = "rejected", !.settled = <<"error">>])
    BY DEF CallInv, Api!SettledAsFlagged, Api!CallState
  <2>9. Api!FlaggedAtTheEnd([r EXCEPT !.flag = "rejected", !.settled = <<"error">>])
    BY DEF CallInv, Api!FlaggedAtTheEnd, Api!CallState
  <2> QED BY <2>3, <2>7, <2>8, <2>9 DEF CallInv
<1> QED BY <1>1, <1>2

LEMMA ResolvedInv ==
  ASSUME NEW r, CallInv(r), r.step = "done", r.status \in 200 .. 299, NEW body \in {"value", "nothing"}
  PROVE  CallInv(Api!OnResolve(r, body))
<1>1. CASE r.flag # "pending"
  BY <1>1 DEF Api!OnResolve
<1>2. CASE r.flag = "pending"
  <2>1. r.settled = <<>>
    BY <1>2 DEF CallInv, Api!SettledAsFlagged
  <2>2. Append(r.settled, body) = <<body>>
    BY <2>1
  <2>3. Api!OnResolve(r, body) = [r EXCEPT !.flag = "resolved", !.settled = <<body>>]
    BY <1>2, <2>2 DEF CallInv, Api!OnResolve, Api!CallState
  <2>7. [r EXCEPT !.flag = "resolved", !.settled = <<body>>] \in Api!CallState
    BY OutcomesAreSequences DEF CallInv, Api!CallState
  <2>8. Api!SettledAsFlagged([r EXCEPT !.flag = "resolved", !.settled = <<body>>])
    BY DEF CallInv, Api!SettledAsFlagged, Api!CallState
  <2>9. Api!FlaggedAtTheEnd([r EXCEPT !.flag = "resolved", !.settled = <<body>>])
    BY DEF CallInv, Api!FlaggedAtTheEnd, Api!CallState
  <2> QED BY <2>3, <2>7, <2>8, <2>9 DEF CallInv
<1> QED BY <1>1, <1>2

LEMMA CancelledInv ==
  ASSUME NEW r, CallInv(r), r.flag = "pending", r.step # "idle"
  PROVE  CallInv([r EXCEPT !.flag = "cancelled", !.aborted = r.handlers, !.handlers = FALSE,
                           !.settled = Append(r.settled, "cancel")])
<1> DEFINE next == [r EXCEPT !.flag = "cancelled", !.aborted = r.handlers, !.handlers = FALSE,
                             !.settled = <<"cancel">>]
<1>1. r.settled = <<>>
  BY DEF CallInv, Api!SettledAsFlagged
<1>2. Append(r.settled, "cancel") = <<"cancel">>
  BY <1>1
<1>3. next.handlers \in BOOLEAN /\ next.aborted \in BOOLEAN
  BY DEF CallInv, Api!CallState
<1>7. next \in Api!CallState
  BY OutcomesAreSequences, <1>3 DEF CallInv, Api!CallState
<1>8. Api!SettledAsFlagged(next)
  BY DEF CallInv, Api!SettledAsFlagged, Api!CallState
<1>9. Api!FlaggedAtTheEnd(next)
  BY DEF CallInv, Api!FlaggedAtTheEnd, Api!CallState
<1> QED BY <1>2, <1>7, <1>8, <1>9 DEF CallInv

LEMMA SentInv ==
  ASSUME NEW r, CallInv(r), r.step = "headers", r.flag # "cancelled"
  PROVE  CallInv(Api!SendRequest(r))
<1> DEFINE heard == [r EXCEPT !.handlers = TRUE]
           next == [heard EXCEPT !.step = "fetching", !.sent = 1]
<1>1. r.flag = "pending" /\ r.sent = 0
  BY DEF CallInv, Api!FlaggedAtTheEnd
<1>2. heard \in Api!CallState /\ heard.handlers /\ heard.flag = "pending" /\ heard.sent = 0
  BY <1>1 DEF CallInv, Api!CallState
<1>3. Api!SettledAsFlagged(heard)
  BY <1>1 DEF CallInv, Api!SettledAsFlagged, Api!CallState
<1>4. Api!OnCancel(r) = heard
  BY <1>1 DEF Api!OnCancel
<1> HIDE DEF heard
<1>5. Api!SendRequest(r) = next
  <2>1. heard.sent + 1 = 1
    BY <1>2
  <2>2. Api!SendRequest(r) = [heard EXCEPT !.step = "fetching", !.sent = heard.sent + 1]
    BY <1>4 DEF Api!SendRequest
  <2> QED BY <2>1, <2>2, Zenon
<1>7. next \in Api!CallState
  <2>1. [heard EXCEPT !.step = "fetching"] \in Api!CallState
    BY <1>2 DEF Api!CallState
  <2>2. next = [[heard EXCEPT !.step = "fetching"] EXCEPT !.sent = 1]
    BY <1>2 DEF Api!CallState
  <2>3. 1 \in 0 .. 1
    OBVIOUS
  <2> QED BY <2>1, <2>2, <2>3 DEF Api!CallState
<1>8. Api!SettledAsFlagged(next)
  BY <1>2, <1>3 DEF Api!SettledAsFlagged, Api!CallState
<1>9. Api!FlaggedAtTheEnd(next)
  BY <1>2 DEF Api!FlaggedAtTheEnd, Api!CallState
<1> QED BY <1>5, <1>7, <1>8, <1>9 DEF CallInv

LEMMA CalledInv ==
  ASSUME NEW r \in Api!RequestBody(Api!NewCall)
  PROVE  CallInv(r)
<1>1. CallInv([Api!NewCall EXCEPT !.step = "headers"])
  BY NewCallInv DEF CallInv, Api!NewCall, Api!CallState, Api!SettledAsFlagged, Api!FlaggedAtTheEnd
<1>2. [Api!NewCall EXCEPT !.step = "done"].step = "done"
  BY DEF Api!NewCall
<1> QED BY <1>1, <1>2, NewCallInv, DoneInv, RejectedInv DEF Api!RequestBody

(* A step that leaves one call right leaves all of them right. *)
LEMMA OneCallSteps ==
  ASSUME ApiInv, NEW c \in Api!Calls, NEW r, CallInv(r), v1' = [v1 EXCEPT ![c] = r],
         v2' \in Api!Pages, v3' \in {"none", "nobody", "user"}, v4' \in 0 .. MaxLoads
  PROVE  ApiInv'
BY DEF ApiInv, Api!TypeOK, CallInv

LEMMA ApiInvStep == ApiInv /\ Api!Next => ApiInv'
<1> SUFFICES ASSUME ApiInv, Api!Next
             PROVE  ApiInv'
  OBVIOUS
<1> USE DEF Api!Pages
<1>0. /\ v1 \in [Api!Calls -> Api!CallState] /\ \A c \in Api!Calls : CallInv(v1[c])
      /\ v2 \in Api!Pages /\ v3 \in {"none", "nobody", "user"} /\ v4 \in 0 .. MaxLoads
  BY DEF ApiInv, Api!TypeOK
<1>1. ASSUME NEW c \in Api!Calls, Api!HeadersReady(c)
      PROVE  ApiInv'
  <2>1. CASE v1[c].flag = "cancelled"
    <3>1. CallInv([v1[c] EXCEPT !.step = "done"])
      BY <1>0, DoneInv
    <3>2. v1' = [v1 EXCEPT ![c] = [v1[c] EXCEPT !.step = "done"]]
      BY <1>0, <1>1, <2>1 DEF Api!HeadersReady
    <3> QED BY <1>0, <1>1, <3>1, <3>2, OneCallSteps DEF Api!HeadersReady
  <2>2. CASE v1[c].flag # "cancelled"
    <3>1. CallInv(Api!SendRequest(v1[c]))
      BY <1>0, <1>1, <2>2, SentInv DEF Api!HeadersReady
    <3>2. v1' = [v1 EXCEPT ![c] = Api!SendRequest(v1[c])]
      BY <1>0, <1>1, <2>2 DEF Api!HeadersReady
    <3> QED BY <1>0, <1>1, <3>1, <3>2, OneCallSteps DEF Api!HeadersReady
  <2> QED BY <2>1, <2>2
<1>2. ASSUME NEW c \in Api!Calls, Api!HeadersFail(c) \/ Api!FetchFails(c)
      PROVE  ApiInv'
  <2>1. v1' = [v1 EXCEPT ![c] = Api!OnReject([v1[c] EXCEPT !.step = "done"])] /\ UNCHANGED <<v2, v3, v4>>
    BY <1>0, <1>2 DEF Api!HeadersFail, Api!FetchFails
  <2>2. CallInv([v1[c] EXCEPT !.step = "done"]) /\ [v1[c] EXCEPT !.step = "done"].step = "done"
    BY <1>0, DoneInv DEF Api!CallState
  <2>3. CallInv(Api!OnReject([v1[c] EXCEPT !.step = "done"]))
    BY <2>2, RejectedInv
  <2> QED BY <1>0, <2>1, <2>3, OneCallSteps
<1>3. ASSUME NEW c \in Api!Calls, Api!BodyRead(c)
      PROVE  ApiInv'
  <2> DEFINE done == [v1[c] EXCEPT !.step = "done"]
  <2>0. CallInv(done) /\ done.step = "done" /\ done.status = v1[c].status
    BY <1>0, DoneInv DEF Api!CallState
  <2>1. PICK body \in Api!ResponseBody(v1[c]) :
          v1' = [v1 EXCEPT ![c] = IF Api!CaughtErrorCodes(done.status, body) THEN Api!OnReject(done)
                                  ELSE Api!OnResolve(done, body)]
    BY <1>3 DEF Api!BodyRead
  <2> HIDE DEF done
  <2>2. body \in {"value", "nothing"}
    BY <2>1 DEF Api!ResponseBody
  <2>3. CASE Api!CaughtErrorCodes(done.status, body)
    BY <1>0, <1>3, <2>0, <2>1, <2>3, RejectedInv, OneCallSteps DEF Api!BodyRead
  <2>4. CASE ~Api!CaughtErrorCodes(done.status, body)
    <3>1. done.status \in 200 .. 299
      BY <2>4 DEF Api!CaughtErrorCodes
    <3>2. CallInv(Api!OnResolve(done, body))
      BY <2>0, <2>2, <3>1, ResolvedInv
    <3> QED BY <1>0, <1>3, <2>1, <2>4, <3>2, OneCallSteps DEF Api!BodyRead
  <2> QED BY <2>3, <2>4
<1>4. ASSUME NEW c \in Api!Calls, Api!Cancel(c)
      PROVE  ApiInv'
  <2> DEFINE cancelled == [v1[c] EXCEPT !.flag = "cancelled", !.aborted = v1[c].handlers, !.handlers = FALSE,
                                        !.settled = Append(v1[c].settled, "cancel")]
  <2>1. CallInv(cancelled)
    BY <1>0, <1>4, CancelledInv DEF Api!Cancel
  <2>2. v1' = [v1 EXCEPT ![c] = cancelled]
    BY <1>0, <1>4 DEF Api!Cancel, Api!CallState
  <2> QED BY <1>0, <1>4, <2>1, <2>2, OneCallSteps DEF Api!Cancel
<1>5. ASSUME NEW c \in Api!Calls, NEW s \in Api!Statuses, Api!Answered(c, s)
      PROVE  ApiInv'
  <2> DEFINE answered == [v1[c] EXCEPT !.step = "reading", !.status = s]
  <2>1. CallInv(answered)
    <3>1. CallInv(v1[c]) /\ v1[c].step = "fetching" /\ v1[c].flag \in {"pending", "cancelled"}
      BY <1>0, <1>5 DEF Api!Answered, CallInv, Api!FlaggedAtTheEnd
    <3>2. answered \in Api!CallState
      BY <3>1 DEF CallInv, Api!CallState
    <3>3. Api!SettledAsFlagged(answered)
      BY <3>1, ZenonT(30) DEF CallInv, Api!CallState, Api!SettledAsFlagged
    <3>4. Api!FlaggedAtTheEnd(answered)
      BY <3>1 DEF CallInv, Api!CallState, Api!FlaggedAtTheEnd
    <3> QED BY <3>2, <3>3, <3>4 DEF CallInv
  <2>2. v1' = [v1 EXCEPT ![c] = answered]
    BY <1>0, <1>5 DEF Api!Answered, Api!CallState
  <2> QED BY <1>0, <1>5, <2>1, <2>2, OneCallSteps DEF Api!Answered
<1>6. ASSUME NEW after \in BOOLEAN, Api!GetInitialState(after)
      PROVE  ApiInv'
  <2>0. v2' = v2 /\ v4' \in 0 .. MaxLoads
    BY <1>0, <1>6, ConstantsAssumption DEF Api!GetInitialState
  <2>1. CASE v3' = "nobody" /\ v1' = v1
    BY <1>0, <2>0, <2>1 DEF ApiInv, Api!TypeOK, CallInv
  <2>2. CASE Api!Called("me") /\ v3' = v3
    BY <1>0, <2>0, <2>2, CalledInv, OneCallSteps DEF Api!Called, Api!Calls
  <2> QED BY <1>6, <2>1, <2>2 DEF Api!GetInitialState
<1>7. CASE Api!FetchedUser \/ Api!NotAuthenticated
  BY <1>0, <1>7, NewCallInv, OneCallSteps DEF Api!FetchedUser, Api!NotAuthenticated, Api!Calls
<1>8. CASE Api!OnPageChange \/ Api!GoToMain
  BY <1>0, <1>8 DEF ApiInv, Api!TypeOK, CallInv, Api!OnPageChange, Api!GoToMain, Api!GoToLogin
<1>9. CASE Api!Logout
  BY <1>0, <1>9, CalledInv, OneCallSteps DEF Api!Logout, Api!Called, Api!Calls
<1>10. CASE Api!LoggedOut
  <2>1. v2' \in Api!Pages
    BY <1>0, <1>10 DEF Api!LoggedOut, Api!GoToLogin
  <2> QED BY <1>0, <1>10, <2>1, NewCallInv, OneCallSteps DEF Api!LoggedOut, Api!Calls
<1> QED BY <1>1, <1>2, <1>3, <1>4, <1>5, <1>6, <1>7, <1>8, <1>9, <1>10 DEF Api!Next, Api!Step

LEMMA ApiInvSuffices ==
  ApiInv => Api!TypeOK /\ Api!SettlesOnce /\ Api!CancelledIsNotSent /\ Api!OnlySuccessResolves
<1> SUFFICES ASSUME ApiInv
             PROVE  Api!SettlesOnce /\ Api!CancelledIsNotSent /\ Api!OnlySuccessResolves
  BY DEF ApiInv
<1>1. ASSUME NEW c \in Api!Calls
      PROVE  /\ Len(v1[c].settled) <= 1
             /\ v1[c].flag = "cancelled" => v1[c].settled = <<"cancel">>
             /\ v1[c].flag = "cancelled" /\ v1[c].step = "fetching" => v1[c].aborted
             /\ Api!Settled(c, {"value", "nothing"}) => v1[c].status \in 200 .. 299
  <2>1. CallInv(v1[c])
    BY DEF ApiInv
  <2>2. v1[c].flag \in {"pending", "resolved", "rejected", "cancelled"}
    BY <2>1 DEF CallInv, Api!CallState
  <2>3. v1[c].flag # "resolved" => v1[c].settled \in {<<>>, <<"cancel">>, <<"error">>}
    BY <2>1, <2>2 DEF CallInv, Api!SettledAsFlagged
  <2>4. /\ v1[c].flag = "resolved" => v1[c].settled \in {<<"value">>, <<"nothing">>}
        /\ v1[c].flag = "resolved" => v1[c].status \in 200 .. 299
        /\ v1[c].flag = "cancelled" => v1[c].settled = <<"cancel">>
    BY <2>1 DEF CallInv, Api!SettledAsFlagged
  <2>5. v1[c].flag = "cancelled" /\ v1[c].step = "fetching" => v1[c].aborted
    BY <2>1 DEF CallInv, Api!FlaggedAtTheEnd
  <2>6. /\ \A outcome \in {<<>>, <<"cancel">>, <<"error">>} :
             Len(outcome) <= 1 /\ (Len(outcome) > 0 => outcome[1] \notin {"value", "nothing"})
        /\ \A outcome \in {<<"value">>, <<"nothing">>} : Len(outcome) <= 1
    OBVIOUS
  <2>7. Len(v1[c].settled) <= 1
    BY <2>3, <2>4, <2>6
  <2>8. Api!Settled(c, {"value", "nothing"}) => v1[c].flag = "resolved"
    BY <2>3, <2>6 DEF Api!Settled
  <2> QED BY <2>4, <2>5, <2>7, <2>8
<1> QED BY <1>1 DEF Api!SettlesOnce, Api!CancelledIsNotSent, Api!OnlySuccessResolves

(* For any number of loads: a call settles once, is not sent once it was   *)
(* cancelled, and resolves only with what was answered as a success.       *)
THEOREM CallsSettle == Spec => []CallsSettleAsAnswered
<1>1. Init => (part = "api" => ApiInv)
  BY ApiInvInit DEF Init
<1>2. (part = "api" => ApiInv) /\ [Next]_<<part, v1, v2, v3, v4, v5, v6, v7, v8, v9, v10, v11, v12, v13, v14, v15>> =>
        (part = "api" => ApiInv)'
  <2> SUFFICES ASSUME part = "api" => ApiInv, part' = "api",
                      [Next]_<<part, v1, v2, v3, v4, v5, v6, v7, v8, v9, v10, v11, v12, v13, v14, v15>>
               PROVE  ApiInv'
    OBVIOUS
  <2>1. CASE ApiStep
    BY <2>1, ApiInvStep DEF ApiStep
  <2>2. CASE UNCHANGED <<part, v1, v2, v3, v4, v5, v6, v7, v8, v9, v10, v11, v12, v13, v14, v15>>
    BY <2>2 DEF ApiInv, Api!TypeOK, CallInv
  <2> QED BY <2>1, <2>2 DEF Next, QueryStep, LogsStep, TableStep, ImportStep, CreationStep, RecordStep,
                              ListStep, SwitchesStep, CheckStep
<1>3. (part = "api" => ApiInv) => CallsSettleAsAnswered
  BY ApiInvSuffices DEF CallsSettleAsAnswered
<1> QED BY <1>1, <1>2, <1>3, PTL DEF Spec

-----------------------------------------------------------------------------
(* Permission switches: role is v1, stored v3, permissionsSet v4, requests *)
(* v6 and disturbed v8                                                     *)

SwitchesInv == Switches!TypeOK /\ Switches!StoredIsRemembered

LEMMA SwitchesInvInit == Switches!Init => SwitchesInv
BY DEF Switches!Init, SwitchesInv, Switches!TypeOK, Switches!StoredIsRemembered

LEMMA UpdateFields ==
  ASSUME NEW q \in Switches!Update
  PROVE  /\ q.toggled \in Permissions /\ q.sent \subseteq Permissions /\ q.before \subseteq Permissions
BY DEF Switches!Update

(* The update as the server has answered it. *)
LEMMA ServedUpdate ==
  ASSUME NEW q \in Switches!Update
  PROVE  LET served == [q EXCEPT !.served = TRUE]
         IN  served \in Switches!Update /\ served.served
BY DEF Switches!Update

LEMMA FlippedType ==
  ASSUME NEW S \in SUBSET Permissions, NEW p \in Permissions
  PROVE  Switches!Flipped(S, p) \subseteq Permissions
BY DEF Switches!Flipped

LEMMA SwitchesInvStep == SwitchesInv /\ Switches!Next => SwitchesInv'
<1> SUFFICES ASSUME SwitchesInv, Switches!Next
             PROVE  SwitchesInv'
  OBVIOUS
<1>0. v3 \cup v4 \subseteq Permissions /\ v6 \subseteq Switches!Update
  BY DEF SwitchesInv, Switches!TypeOK
<1>1. ASSUME NEW p \in Permissions, Switches!TogglePermission(p)
      PROVE  SwitchesInv'
  <2> DEFINE q == [toggled |-> p, sent |-> Switches!Flipped(v4, p), before |-> v4, served |-> FALSE]
  <2>1. v3' = v3 /\ v4' = Switches!Flipped(v4, p) /\ v6' = v6 \cup {q} /\ (~v8' => ~v8 /\ v6 = {})
    BY <1>1 DEF Switches!TogglePermission
  <2>2. q \in Switches!Update /\ v4' \subseteq Permissions
    BY <1>0, <2>1, FlippedType DEF Switches!Update
  <2>3. ~v8' => v6' = {q} /\ q.before = v3 /\ q.sent = Switches!Flipped(v3, q.toggled)
    BY <2>1 DEF SwitchesInv, Switches!StoredIsRemembered
  <2> HIDE DEF q
  <2>4. Switches!TypeOK'
    BY <1>0, <2>1, <2>2 DEF Switches!TypeOK
  <2>5. Switches!StoredIsRemembered'
    BY <2>1, <2>3 DEF Switches!StoredIsRemembered, Switches!Flipped
  <2> QED BY <2>4, <2>5 DEF SwitchesInv
<1>2. ASSUME NEW p \in Permissions, Switches!OthersChange(p)
      PROVE  SwitchesInv'
  BY <1>0, <1>2, FlippedType DEF Switches!OthersChange, SwitchesInv, Switches!TypeOK, Switches!StoredIsRemembered
<1>3. ASSUME NEW q \in v6, Switches!Served(q)
      PROVE  SwitchesInv'
  <2> DEFINE served == [q EXCEPT !.served = TRUE]
  <2>1. v3' = q.sent /\ v4' = v4 /\ v6' = (v6 \ {q}) \cup {served} /\ v8' = v8
    BY <1>3 DEF Switches!Served
  <2>2. served \in Switches!Update /\ served.served /\ q.sent \subseteq Permissions
    BY <1>0, ServedUpdate, UpdateFields
  <2> HIDE DEF served
  <2>3. ~v8 => v6' = {served}
    BY <2>1 DEF SwitchesInv, Switches!StoredIsRemembered
  <2>4. Switches!TypeOK'
    BY <1>0, <2>1, <2>2 DEF Switches!TypeOK
  <2>5. Switches!StoredIsRemembered'
    BY <2>1, <2>2, <2>3 DEF Switches!StoredIsRemembered
  <2> QED BY <2>4, <2>5 DEF SwitchesInv
<1>4. ASSUME NEW q \in v6, Switches!Answered(q)
      PROVE  SwitchesInv'
  <2>1. v3' = v3 /\ v4' = q.sent /\ v6' = v6 \ {q} /\ (~v8' => v6' = {} /\ q.sent = v3) /\ q.served
    BY <1>4 DEF Switches!Answered
  <2>2. q.sent \subseteq Permissions
    BY <1>0, UpdateFields
  <2> QED BY <1>0, <2>1, <2>2 DEF SwitchesInv, Switches!TypeOK, Switches!StoredIsRemembered
<1>5. ASSUME NEW q \in v6, Switches!Failed(q)
      PROVE  SwitchesInv'
  <2>1. v3' = v3 /\ v4' = q.before /\ v6' = v6 \ {q} /\ (~v8' => ~v8 /\ ~q.served)
    BY <1>5 DEF Switches!Failed
  <2>2. q.before \subseteq Permissions
    BY <1>0, UpdateFields
  <2> QED BY <1>0, <2>1, <2>2 DEF SwitchesInv, Switches!TypeOK, Switches!StoredIsRemembered
<1> QED BY <1>1, <1>2, <1>3, <1>4, <1>5 DEF Switches!Next

LEMMA SwitchesInvSuffices == SwitchesInv => Switches!SwitchesAreStored /\ Switches!OneToggleOneChange
<1> SUFFICES ASSUME SwitchesInv
             PROVE  Switches!SwitchesAreStored /\ Switches!OneToggleOneChange
  OBVIOUS
<1>1. Switches!SwitchesAreStored
  BY DEF SwitchesInv, Switches!TypeOK, Switches!StoredIsRemembered, Switches!SwitchesAreStored, Switches!IsGranted
<1>2. Switches!OneToggleOneChange
  BY DEF SwitchesInv, Switches!StoredIsRemembered, Switches!OneToggleOneChange
<1> QED BY <1>1, <1>2

-----------------------------------------------------------------------------
(* List: typed is v3, editableData v4, sent v6 and touched v8 *)

LEMMA ListInit == List!Init => List!TypedIsReported /\ List!SentAsShown
BY DEF List!Init, List!TypedIsReported, List!SentAsShown

LEMMA TypedStep == List!TypedIsReported /\ List!Next => List!TypedIsReported'
<1> SUFFICES ASSUME List!TypedIsReported, List!Next
             PROVE  List!TypedIsReported'
  OBVIOUS
<1> USE DEF List!TypedIsReported
<1>1. CASE List!Answered \/ List!OthersChange
  BY <1>1 DEF List!Answered, List!OthersChange
<1>2. CASE List!CreateButton
  BY <1>2 DEF List!CreateButton, List!With
<1>3. ASSUME NEW i \in LineIds, List!StartEdit(i) \/ List!OnDelete(i)
      PROVE  List!TypedIsReported'
  BY <1>3 DEF List!StartEdit, List!OnDelete, List!With, List!Without
<1>4. ASSUME NEW i \in LineIds \cup {0}, List!OnValuesChange(i)
      PROVE  List!TypedIsReported'
  BY <1>4 DEF List!OnValuesChange, List!Report
<1>5. ASSUME NEW i \in LineIds \cup {0}, List!OnSave(i) \/ List!OnCancel(i)
      PROVE  List!TypedIsReported'
  BY <1>5 DEF List!OnSave, List!OnCancel, List!Without, List!Request
<1> QED BY <1>1, <1>2, <1>3, <1>4, <1>5 DEF List!Next

LEMMA SentStep == List!TypedIsReported /\ List!SentAsShown /\ List!Next => List!SentAsShown'
<1> SUFFICES ASSUME List!TypedIsReported, List!SentAsShown, List!Next
             PROVE  List!SentAsShown'
  OBVIOUS
<1> USE DEF List!SentAsShown
<1>1. ASSUME NEW i \in LineIds \cup {0}, List!OnSave(i)
      PROVE  List!SentAsShown'
  BY <1>1 DEF List!OnSave, List!Data, List!TypedIsReported
<1>2. CASE v6' = v6
  BY <1>2
<1> QED BY <1>1, <1>2 DEF List!Next, List!Answered, List!OthersChange, List!CreateButton, List!StartEdit,
                         List!OnDelete, List!OnValuesChange, List!OnCancel

-----------------------------------------------------------------------------
(* Connection check: loading is v1, error v2, timers v3, timer v4, verdict *)
(* v5, age v6 and checks v7                                                *)

LEMMA CheckInvInit == Check!Init => Check!TimerOfItsVerdict
BY ConstantsAssumption DEF Check!Init, Check!TimerOfItsVerdict

LEMMA CheckInvStep == Check!TimerOfItsVerdict /\ Check!Next => Check!TimerOfItsVerdict'
<1> SUFFICES ASSUME Check!TimerOfItsVerdict, Check!Next
             PROVE  Check!TimerOfItsVerdict'
  OBVIOUS
<1> USE DEF Check!TimerOfItsVerdict
<1>0. VerdictTime \in Nat
  BY ConstantsAssumption
<1>1. CASE Check!CheckConnection
  BY <1>1 DEF Check!CheckConnection
<1>2. CASE Check!Answered \/ Check!Thrown
  BY <1>0, <1>2 DEF Check!Answered, Check!Thrown, Check!Finally
<1>3. CASE Check!Tick
  BY <1>0, <1>3 DEF Check!Tick
<1>4. ASSUME NEW n \in DOMAIN v3, Check!Fires(n)
      PROVE  Check!TimerOfItsVerdict'
  BY <1>0, <1>4 DEF Check!Fires
<1> QED BY <1>1, <1>2, <1>3, <1>4 DEF Check!Next

LEMMA CheckInvSuffices == Check!TimerOfItsVerdict => Check!VerdictStays
BY ConstantsAssumption DEF Check!TimerOfItsVerdict, Check!VerdictStays

-----------------------------------------------------------------------------
(* Record: server is v1, use v2, path v3, data v4, fetch v5, saves v6 and  *)
(* clean v8                                                                *)

RecordInv ==
  /\ Record!TypeOK /\ Record!FetchedFirst /\ Record!ShownIsSaved
  /\ v8 => \A s \in v6 : Record!SavesByItself(s)

LEMMA RecordInvInit == Record!Init => RecordInv
<1> SUFFICES ASSUME Record!Init
             PROVE  RecordInv
  OBVIOUS
<1>1. v1 \in [RowIds -> [Attributes -> Texts]] /\ v3 \in RowIds /\ v1[v3] \in [Attributes -> Texts] /\ v6 = {}
  BY DEF Record!Init
<1>2. v2 \in {"page", "popup"} /\ v4 = (IF v2 = "popup" THEN v1[v3] ELSE None) /\ v5 = (IF v2 = "page" THEN v3 ELSE None)
  BY DEF Record!Init
<1> QED BY <1>1, <1>2 DEF RecordInv, Record!TypeOK, Record!FetchedFirst, Record!ShownIsSaved, Record!Records

LEMMA SaveFields ==
  ASSUME NEW s \in Record!Save
  PROVE  s.field \in Attributes /\ s.record \in [Attributes -> Texts] /\ s.id \in RowIds
BY DEF Record!Save, Record!Records

(* The save as the server has it. *)
LEMMA ServedSave ==
  ASSUME NEW s \in Record!Save
  PROVE  LET served == [s EXCEPT !.served = TRUE]
         IN  /\ served \in Record!Save /\ served.served
             /\ served.field = s.field /\ served.record = s.record /\ served.id = s.id
BY DEF Record!Save

LEMMA RecordInvStep == RecordInv /\ Record!Next => RecordInv'
<1> SUFFICES ASSUME RecordInv, Record!Next
             PROVE  RecordInv'
  OBVIOUS
<1>0. /\ v1 \in [RowIds -> [Attributes -> Texts]] /\ v3 \in RowIds
      /\ v4 \in [Attributes -> Texts] \cup {None} /\ v5 \in RowIds \cup {None} /\ v6 \subseteq Record!Save
  BY DEF RecordInv, Record!TypeOK, Record!Records
<1>1. CASE Record!FetchAnswered
  <2>1. v5 # None /\ v4' = v1[v5] /\ v5' = None /\ UNCHANGED <<v1, v2, v3, v6, v8>>
    BY <1>1 DEF Record!FetchAnswered
  <2>2. v6 = {} /\ (v8 => v5 = v3)
    BY <2>1 DEF RecordInv, Record!FetchedFirst
  <2> QED BY <1>0, <2>1, <2>2
          DEF RecordInv, Record!TypeOK, Record!Records, Record!FetchedFirst, Record!ShownIsSaved
<1>2. CASE Record!FetchFails
  <2>1. v5 # None /\ v4' = None /\ v5' = None /\ UNCHANGED <<v1, v2, v3, v6, v8>>
    BY <1>2 DEF Record!FetchFails
  <2>2. v6 = {}
    BY <2>1 DEF RecordInv, Record!FetchedFirst
  <2> QED BY <1>0, <2>1, <2>2
          DEF RecordInv, Record!TypeOK, Record!Records, Record!FetchedFirst, Record!ShownIsSaved
<1>3. CASE Record!EntityChanges
  <2>1. PICK i \in RowIds : v3' = i /\ v4' = v1[i]
    BY <1>3 DEF Record!EntityChanges
  <2>2. v2 = "popup" /\ v8' = (v6 = {}) /\ UNCHANGED <<v1, v2, v5, v6>>
    BY <1>3 DEF Record!EntityChanges
  <2>3. v5 = None
    BY <2>2 DEF RecordInv, Record!FetchedFirst
  <2> QED BY <1>0, <2>1, <2>2, <2>3
          DEF RecordInv, Record!TypeOK, Record!Records, Record!FetchedFirst, Record!ShownIsSaved
<1>4. CASE Record!PathChanges
  <2>1. v3' \in RowIds /\ ~v8' /\ UNCHANGED <<v1, v2, v4, v5, v6>>
    BY <1>4 DEF Record!PathChanges
  <2> QED BY <1>0, <2>1
          DEF RecordInv, Record!TypeOK, Record!Records, Record!FetchedFirst, Record!ShownIsSaved
<1>5. CASE Record!OthersSave
  <2>1. PICK i \in RowIds, f \in Attributes, v \in Texts : v1' = [v1 EXCEPT ![i][f] = v]
    BY <1>5 DEF Record!OthersSave
  <2>2. ~v8' /\ UNCHANGED <<v2, v3, v4, v5, v6>>
    BY <1>5 DEF Record!OthersSave
  <2>3. v1' \in [RowIds -> [Attributes -> Texts]]
    BY <1>0, <2>1
  <2> QED BY <1>0, <2>2, <2>3
          DEF RecordInv, Record!TypeOK, Record!Records, Record!FetchedFirst, Record!ShownIsSaved
<1>6. ASSUME NEW f \in Attributes, NEW v \in Texts, Record!OnSave(f, v)
      PROVE  RecordInv'
  <2> DEFINE s == [field |-> f, record |-> [v4 EXCEPT ![f] = v], id |-> v3, served |-> FALSE]
  <2>1. /\ v5 = None /\ v4 # None /\ v6' = v6 \cup {s} /\ (v8' => v8 /\ v6 = {})
        /\ UNCHANGED <<v1, v2, v3, v4, v5>>
    BY <1>6 DEF Record!OnSave
  <2>2. v4 \in [Attributes -> Texts] /\ [v4 EXCEPT ![f] = v] \in [Attributes -> Texts]
    BY <1>0, <2>1
  <2>3. s \in Record!Save
    BY <1>0, <2>2 DEF Record!Save, Record!Records
  <2>4. [v4 EXCEPT ![f] = v] = [v4 EXCEPT ![f] = [v4 EXCEPT ![f] = v][f]]
    BY <2>2
  <2>5. ~s.served /\ s.id = v3 /\ s.record = [v4 EXCEPT ![s.field] = s.record[s.field]]
    BY <2>4
  <2>6. v8' => v4 = v1[v3]
    BY <2>1 DEF RecordInv, Record!ShownIsSaved
  <2> HIDE DEF s
  <2>7. Record!TypeOK'
    BY <1>0, <2>1, <2>3 DEF Record!TypeOK, Record!Records
  <2>8. v8' => \A t \in v6' : Record!SavesByItself(t)'
    BY <2>1, <2>5, <2>6 DEF Record!SavesByItself
  <2> QED BY <2>1, <2>7, <2>8 DEF RecordInv, Record!FetchedFirst, Record!ShownIsSaved
<1>7. ASSUME NEW s \in v6, Record!SaveServed(s)
      PROVE  RecordInv'
  <2> DEFINE served == [s EXCEPT !.served = TRUE]
  <2>1. /\ ~s.served /\ v1' = [v1 EXCEPT ![s.id][s.field] = s.record[s.field]]
        /\ v6' = (v6 \ {s}) \cup {served} /\ UNCHANGED <<v2, v3, v4, v5, v8>>
    BY <1>7 DEF Record!SaveServed
  <2>2. /\ served \in Record!Save /\ served.served /\ served.record = s.record /\ served.id = s.id
        /\ s.field \in Attributes /\ s.record \in [Attributes -> Texts] /\ s.id \in RowIds
    BY <1>0, ServedSave, SaveFields
  <2> HIDE DEF served
  <2>3. v1' \in [RowIds -> [Attributes -> Texts]] /\ v1'[s.id] = [v1[s.id] EXCEPT ![s.field] = s.record[s.field]]
    BY <1>0, <2>1, <2>2
  <2>4. v8 => v6 = {s} /\ s.id = v3 /\ s.record = [v1[v3] EXCEPT ![s.field] = s.record[s.field]]
    BY <2>1 DEF RecordInv, Record!SavesByItself
  <2>5. v5 = None
    BY DEF RecordInv, Record!FetchedFirst
  <2>6. Record!TypeOK'
    BY <1>0, <2>1, <2>2, <2>3 DEF Record!TypeOK, Record!Records
  <2>7. v8' => v6' = {served} /\ served.record = v1'[v3] /\ served.id = v3
    BY <2>1, <2>2, <2>3, <2>4
  <2>8. v8' => \A t \in v6' : Record!SavesByItself(t)'
    BY <2>1, <2>2, <2>7 DEF Record!SavesByItself
  <2>9. v6' # {}
    BY <2>1
  <2> QED BY <2>1, <2>5, <2>6, <2>8, <2>9 DEF RecordInv, Record!FetchedFirst, Record!ShownIsSaved
<1>8. ASSUME NEW s \in v6, Record!SaveAnswered(s) \/ Record!SaveFails(s)
      PROVE  RecordInv'
  <2>1. /\ (s.served /\ v4' = s.record /\ v8' = v8) \/ (v4' = v4 /\ v8' = (v8 /\ ~s.served))
        /\ v6' = v6 \ {s} /\ UNCHANGED <<v1, v2, v3, v5>>
    BY <1>8 DEF Record!SaveAnswered, Record!SaveFails
  <2>2. s.record \in [Attributes -> Texts]
    BY <1>0, SaveFields
  <2>3. v5 = None
    BY DEF RecordInv, Record!FetchedFirst
  <2>4. v8 => v6 = {s} /\ IF s.served THEN s.record = v1[v3] ELSE v4 = v1[v3]
    BY DEF RecordInv, Record!SavesByItself
  <2>5. Record!TypeOK'
    BY <1>0, <2>1, <2>2 DEF Record!TypeOK, Record!Records
  <2>6. v8' => v6' = {} /\ v4' = v1[v3]
    <3>1. CASE s.served /\ v4' = s.record /\ v8' = v8
      BY <2>1, <2>4, <3>1
    <3>2. CASE v4' = v4 /\ v8' = (v8 /\ ~s.served)
      <4>1. v8' => v8 /\ ~s.served
        BY <3>2
      <4>2. v8' => v6 = {s} /\ v4 = v1[v3]
        BY <2>4, <4>1
      <4> QED BY <2>1, <3>2, <4>2
    <3> QED BY <2>1, <3>1, <3>2
  <2> QED BY <2>1, <2>3, <2>5, <2>6 DEF RecordInv, Record!FetchedFirst, Record!ShownIsSaved
<1> QED BY <1>1, <1>2, <1>3, <1>4, <1>5, <1>6, <1>7, <1>8 DEF Record!Next

-----------------------------------------------------------------------------
(* For any records, lines and permissions: what is in sight is what the    *)
(* server was sent and what it has, unless edits overlapped or the answer  *)
(* to a stored one was lost.  (Descriptions, List, PermissionsList)        *)
EditsInv ==
  /\ part = "record" => RecordInv
  /\ part = "list" => List!TypedIsReported /\ List!SentAsShown
  /\ part = "switches" => SwitchesInv

THEOREM EditsAreSaved == Spec => []EditsAreSavedAsShown
<1>1. Init => EditsInv
  BY RecordInvInit, ListInit, SwitchesInvInit DEF Init, EditsInv
<1>2. EditsInv /\ [Next]_<<part, v1, v2, v3, v4, v5, v6, v7, v8, v9, v10, v11, v12, v13, v14, v15>> => EditsInv'
  <2> SUFFICES ASSUME EditsInv, [Next]_<<part, v1, v2, v3, v4, v5, v6, v7, v8, v9, v10, v11, v12, v13, v14, v15>>
               PROVE  EditsInv'
    OBVIOUS
  <2>1. CASE RecordStep
    BY <2>1, RecordInvStep DEF RecordStep, EditsInv
  <2>2. CASE ListStep
    BY <2>2, TypedStep, SentStep DEF ListStep, EditsInv
  <2>3. CASE SwitchesStep
    BY <2>3, SwitchesInvStep DEF SwitchesStep, EditsInv
  <2>4. CASE UNCHANGED <<part, v1, v2, v3, v4, v5, v6, v7, v8, v9, v10, v11, v12, v13, v14, v15>>
    <3>1. part = "record" => RecordInv'
      BY <2>4 DEF EditsInv, RecordInv, Record!TypeOK, Record!FetchedFirst, Record!ShownIsSaved, Record!SavesByItself
    <3>2. part = "list" => (List!TypedIsReported /\ List!SentAsShown)'
      BY <2>4 DEF EditsInv, List!TypedIsReported, List!SentAsShown
    <3>3. part = "switches" => SwitchesInv'
      BY <2>4 DEF EditsInv, SwitchesInv, Switches!TypeOK, Switches!StoredIsRemembered
    <3> QED BY <2>4, <3>1, <3>2, <3>3 DEF EditsInv
  <2>5. CASE part \notin {"record", "list", "switches"} /\ part' = part
    BY <2>5 DEF EditsInv
  <2> QED BY <2>1, <2>2, <2>3, <2>4, <2>5
          DEF Next, QueryStep, LogsStep, TableStep, ImportStep, CreationStep, CheckStep, ApiStep
<1>3. EditsInv => EditsAreSavedAsShown
  BY SwitchesInvSuffices DEF EditsInv, RecordInv, EditsAreSavedAsShown
<1> QED BY <1>1, <1>2, <1>3, PTL DEF Spec

-----------------------------------------------------------------------------
(* Form of a new record: open is v1, form v2, errors v3, errorsPerSection  *)
(* v4, timers v5, submits v6, left v7 and overlooked v8                    *)

CreationInv == Creation!TypeOK /\ Creation!CountedWhenQuiet

LEMMA CreationInvInit == Creation!Init => CreationInv
<1> SUFFICES ASSUME Creation!Init
             PROVE  CreationInv
  OBVIOUS
<1>1. v7 \in [{"typed", "submits"} -> Nat]
  BY ConstantsAssumption DEF Creation!Init
<1>2. v3 = Creation!NoErrors /\ v4 = Creation!CountFields(Creation!NoErrors) /\ v5 = {} /\ v6 = 0
  BY DEF Creation!Init
<1>3. DOMAIN v4 = Creation!Sections
  BY <1>2 DEF Creation!CountFields
<1> QED BY <1>1, <1>2, <1>3 DEF CreationInv, Creation!TypeOK, Creation!CountedWhenQuiet, Creation!Counted

LEMMA Spent ==
  ASSUME v7 \in [{"typed", "submits"} -> Nat], NEW bound \in {"typed", "submits"}, Creation!Spend(bound)
  PROVE  v7' \in [{"typed", "submits"} -> Nat]
BY DEF Creation!Spend

(* A render leaves debounces where they are. *)
LEMMA RenderedFields ==
  ASSUME NEW T \in SUBSET [field : Creation!Fields, current : BOOLEAN]
  PROVE  LET old == {[t EXCEPT !.current = FALSE] : t \in T}
         IN  /\ old \subseteq [field : Creation!Fields, current : BOOLEAN]
             /\ \A t \in T : \E u \in old : u.field = t.field
<1> DEFINE Old(t) == [t EXCEPT !.current = FALSE]
<1>1. ASSUME NEW t \in T
      PROVE  Old(t) \in [field : Creation!Fields, current : BOOLEAN] /\ Old(t).field = t.field
  OBVIOUS
<1> QED BY <1>1

AgreeIn(s, a, b) == \A g \in Creation!Of(s) : a[g] = b[g]

(* The errors of a section are those of its fields. *)
LEMMA CountElsewhere ==
  ASSUME NEW a, NEW b, NEW s \in Creation!Sections, AgreeIn(s, a, b)
  PROVE  /\ Creation!CountErrors(a)[s] = Creation!CountErrors(b)[s]
         /\ Creation!CountFields(a)[s] = Creation!CountFields(b)[s]
<1>1. \A g \in Creation!Of(s) : a[g] = b[g]
  BY DEF AgreeIn
<1>2. [g \in Creation!Of(s) |-> a[g]] = [g \in Creation!Of(s) |-> b[g]]
  BY <1>1
<1>3. {g \in Creation!Of(s) : a[g] > 0} = {g \in Creation!Of(s) : b[g] > 0}
  BY <1>1
<1> QED BY <1>2, <1>3 DEF Creation!CountErrors, Creation!CountFields

(* The validation of one field leaves the errors of the others. *)
LEMMA ValidatedElsewhere ==
  ASSUME NEW f, NEW values
  PROVE  \A g \in Creation!Fields : g # f => v3[g] = Creation!Validated({f}, values)[g]
BY DEF Creation!Validated

LEMMA RecountedInv ==
  ASSUME CreationInv, v6' \in Nat, v7' \in [{"typed", "submits"} -> Nat], Creation!Recounted(v3')
  PROVE  CreationInv'
<1>1. v4' = Creation!CountFields(v3') /\ v5' = Creation!Rendered
  BY DEF Creation!Recounted
<1>2. v5' \subseteq [field : Creation!Fields, current : BOOLEAN]
  BY <1>1, RenderedFields DEF CreationInv, Creation!TypeOK, Creation!Rendered
<1>3. DOMAIN v4' = Creation!Sections
  BY <1>1 DEF Creation!CountFields
<1>4. \A s \in Creation!Sections : Creation!Counted(s)'
  BY <1>1 DEF Creation!Counted, Creation!CountFields
<1> QED BY <1>1, <1>2, <1>3, <1>4 DEF CreationInv, Creation!TypeOK, Creation!CountedWhenQuiet

LEMMA CreationInvStep == CreationInv /\ Creation!Next => CreationInv'
<1> SUFFICES ASSUME CreationInv, Creation!Next
             PROVE  CreationInv'
  OBVIOUS
<1>0. /\ v5 \subseteq [field : Creation!Fields, current : BOOLEAN] /\ v6 \in Nat
      /\ v7 \in [{"typed", "submits"} -> Nat] /\ DOMAIN v4 = Creation!Sections
  BY DEF CreationInv, Creation!TypeOK
<1>1. CASE Creation!Open
  <2>1. v5' = Creation!Rendered /\ UNCHANGED <<v3, v4, v6, v7, v8>>
    BY <1>1 DEF Creation!Open
  <2>2. /\ v5' \subseteq [field : Creation!Fields, current : BOOLEAN]
        /\ \A t \in v5 : \E u \in v5' : u.field = t.field
    BY <1>0, <2>1, RenderedFields DEF Creation!Rendered
  <2>3. \A s : Creation!Counted(s)' <=> Creation!Counted(s)
    BY <2>1 DEF Creation!Counted, Creation!CountErrors, Creation!CountFields
  <2> QED BY <1>0, <2>1, <2>2, <2>3 DEF CreationInv, Creation!TypeOK, Creation!CountedWhenQuiet
<1>2. ASSUME NEW f \in Creation!Fields, Creation!OnValuesChange(f)
      PROVE  CreationInv'
  <2> DEFINE t == [field |-> f, current |-> TRUE]
  <2>1. /\ \A g \in Creation!Fields : g # f => v3[g] = v3'[g]
        /\ v5' = {u \in v5 : ~u.current} \cup {t}
        /\ v8' = v8 \cup ({FormSections[u.field] : u \in {w \in v5 : w.current}} \ {FormSections[f]})
        /\ UNCHANGED <<v4, v6>>
    <3>1. v3' = Creation!Validated({f}, v2')
      BY <1>2 DEF Creation!OnValuesChange
    <3>2. \A g \in Creation!Fields : g # f => v3[g] = v3'[g]
      BY <3>1 DEF Creation!Validated
    <3> QED BY <1>2, <3>2 DEF Creation!OnValuesChange
  <2>2. v7' \in [{"typed", "submits"} -> Nat]
    BY <1>0, <1>2, Spent DEF Creation!OnValuesChange
  <2>3. t \in [field : Creation!Fields, current : BOOLEAN] /\ t.field = f
    OBVIOUS
  <2> HIDE DEF t
  <2>4. Creation!TypeOK'
    BY <1>0, <2>1, <2>2, <2>3 DEF Creation!TypeOK
  <2>5. ASSUME NEW s \in Creation!Sections \ v8', v6' = 0, \A u \in v5' : FormSections[u.field] # s
        PROVE  Creation!Counted(s)'
    <3>1. FormSections[f] # s
      BY <2>1, <2>3, <2>5
    <3>2. s \notin v8 /\ \A u \in v5 : FormSections[u.field] # s
      BY <2>1, <2>5, <3>1
    <3>3. Creation!Counted(s)
      BY <2>1, <2>5, <3>2 DEF CreationInv, Creation!CountedWhenQuiet
    <3>4. /\ Creation!CountErrors(v3)[s] = Creation!CountErrors(v3')[s]
          /\ Creation!CountFields(v3)[s] = Creation!CountFields(v3')[s]
      <4>1. AgreeIn(s, v3, v3')
        BY <2>1, <3>1 DEF AgreeIn, Creation!Of
      <4> QED BY <4>1, CountElsewhere
    <3>5. /\ Creation!CountErrors(v3)' = Creation!CountErrors(v3')
          /\ Creation!CountFields(v3)' = Creation!CountFields(v3')
      BY DEF Creation!CountErrors, Creation!CountFields, Creation!Of
    <3> QED BY <2>1, <3>3, <3>4, <3>5 DEF Creation!Counted
  <2>6. Creation!CountedWhenQuiet'
    BY <2>5 DEF Creation!CountedWhenQuiet
  <2> QED BY <2>4, <2>6 DEF CreationInv
<1>3. ASSUME NEW t \in v5, Creation!Debounced(t)
      PROVE  CreationInv'
  <2> PICK f \in Creation!Fields : f = t.field
    BY <1>0
  <2>1. /\ \A g \in Creation!Fields : g # f => v3[g] = v3'[g]
        /\ v4' = [v4 EXCEPT ![FormSections[f]] = Creation!CountErrors(v3')[FormSections[f]]]
        /\ v5' = {[u EXCEPT !.current = FALSE] : u \in v5 \ {t}}
        /\ v8' = v8 \ {FormSections[f]}
        /\ UNCHANGED <<v6, v7>>
    BY <1>3, ValidatedElsewhere DEF Creation!Debounced
  <2>2. /\ v5' \subseteq [field : Creation!Fields, current : BOOLEAN]
        /\ \A u \in v5 \ {t} : \E w \in v5' : w.field = u.field
    BY <1>0, <2>1, RenderedFields
  <2>3. Creation!TypeOK'
    BY <1>0, <2>1, <2>2 DEF Creation!TypeOK
  <2>4. ASSUME NEW s \in Creation!Sections \ v8', v6' = 0, \A u \in v5' : FormSections[u.field] # s
        PROVE  Creation!Counted(s)'
    <3>0. /\ Creation!CountErrors(v3)' = Creation!CountErrors(v3')
          /\ Creation!CountFields(v3)' = Creation!CountFields(v3')
      BY DEF Creation!CountErrors, Creation!CountFields, Creation!Of
    <3>1. CASE s = FormSections[f]
      BY <1>0, <2>1, <3>0, <3>1 DEF Creation!Counted
    <3>2. CASE s # FormSections[f]
      <4>1. s \notin v8 /\ \A u \in v5 : FormSections[u.field] # s
        BY <2>1, <2>2, <2>4, <3>2
      <4>2. Creation!Counted(s)
        BY <2>1, <2>4, <4>1 DEF CreationInv, Creation!CountedWhenQuiet
      <4>3. /\ Creation!CountErrors(v3)[s] = Creation!CountErrors(v3')[s]
            /\ Creation!CountFields(v3)[s] = Creation!CountFields(v3')[s]
        <5>1. AgreeIn(s, v3, v3')
          BY <2>1, <3>2 DEF AgreeIn, Creation!Of
        <5> QED BY <5>1, CountElsewhere
      <4>4. v4'[s] = v4[s]
        BY <1>0, <2>1, <3>2
      <4> QED BY <3>0, <4>2, <4>3, <4>4 DEF Creation!Counted
    <3> QED BY <3>1, <3>2
  <2>5. Creation!CountedWhenQuiet'
    BY <2>4 DEF Creation!CountedWhenQuiet
  <2> QED BY <2>3, <2>5 DEF CreationInv
<1>4. CASE Creation!Submit
  <2>1. v7' \in [{"typed", "submits"} -> Nat]
    BY <1>0, <1>4, Spent DEF Creation!Submit
  <2>2. CASE v6' = v6 + 1 /\ UNCHANGED <<v4, v5, v8>>
    BY <1>0, <2>1, <2>2 DEF CreationInv, Creation!TypeOK, Creation!CountedWhenQuiet
  <2>3. CASE v6' = v6 /\ Creation!Recounted(v3')
    BY <1>0, <2>1, <2>3, RecountedInv
  <2> QED BY <1>4, <2>2, <2>3 DEF Creation!Submit
<1>5. CASE Creation!Created \/ Creation!Refused \/ Creation!Cancel
  <2>1. v6' \in Nat /\ v7' = v7
    BY <1>0, <1>5 DEF Creation!Created, Creation!Refused, Creation!Cancel
  <2>2. CASE Creation!Refused
    BY <1>0, <2>1, <2>2, RecountedInv DEF Creation!Refused
  <2>3. CASE v3' = Creation!NoErrors /\ Creation!Recounted(Creation!NoErrors)
    <3>1. Creation!Recounted(v3')
      BY <2>3
    <3> QED BY <1>0, <2>1, <3>1, RecountedInv
  <2> QED BY <1>5, <2>2, <2>3 DEF Creation!Created, Creation!Cancel
<1> QED BY <1>1, <1>2, <1>3, <1>4, <1>5 DEF Creation!Next

LEMMA CreationInvSuffices == CreationInv => Creation!BadgesCountErrors
BY DEF CreationInv, Creation!CountedWhenQuiet, Creation!BadgesCountErrors

-----------------------------------------------------------------------------
(* For any sections, fields, rules and time that a verdict is shown: badges*)
(* count errors, or the fields that show any, and verdicts stay.           *)
(* (Descriptions, useCheckConnection)                                      *)
FormsInv ==
  /\ part = "creation" => CreationInv
  /\ part = "check" => Check!TimerOfItsVerdict

THEOREM FormsTell == Spec => []FormsTellTheirErrors
<1>1. Init => FormsInv
  BY CreationInvInit, CheckInvInit DEF Init, FormsInv
<1>2. FormsInv /\ [Next]_<<part, v1, v2, v3, v4, v5, v6, v7, v8, v9, v10, v11, v12, v13, v14, v15>> => FormsInv'
  <2> SUFFICES ASSUME FormsInv, [Next]_<<part, v1, v2, v3, v4, v5, v6, v7, v8, v9, v10, v11, v12, v13, v14, v15>>
               PROVE  FormsInv'
    OBVIOUS
  <2>1. CASE CreationStep
    BY <2>1, CreationInvStep DEF CreationStep, FormsInv
  <2>2. CASE CheckStep
    BY <2>2, CheckInvStep DEF CheckStep, FormsInv
  <2>3. CASE UNCHANGED <<part, v1, v2, v3, v4, v5, v6, v7, v8, v9, v10, v11, v12, v13, v14, v15>>
    <3>1. part = "creation" => CreationInv'
      BY <2>3 DEF FormsInv, CreationInv, Creation!TypeOK, Creation!CountedWhenQuiet, Creation!Counted,
                  Creation!CountErrors, Creation!CountFields
    <3>2. part = "check" => Check!TimerOfItsVerdict'
      BY <2>3 DEF FormsInv, Check!TimerOfItsVerdict
    <3> QED BY <2>3, <3>1, <3>2 DEF FormsInv
  <2>4. CASE part \notin {"creation", "check"} /\ part' = part
    BY <2>4 DEF FormsInv
  <2> QED BY <2>1, <2>2, <2>3, <2>4
          DEF Next, QueryStep, LogsStep, TableStep, ImportStep, RecordStep, ListStep, SwitchesStep, ApiStep
<1>3. FormsInv => FormsTellTheirErrors
  BY CreationInvSuffices, CheckInvSuffices DEF FormsInv, FormsTellTheirErrors
<1> QED BY <1>1, <1>2, <1>3, PTL DEF Spec

-----------------------------------------------------------------------------
(* Table: rows is v1, filter v2, pending v3, shown v4, lastRequest v5,     *)
(* selected v6, allSelected v7, dialog v8, operation v9, popup v10 and     *)
(* fresh v11                                                               *)

TableInv ==
  /\ Table!TypeOK
  /\ Table!TickedRowsAreInSight
  /\ Table!DialogIsCurrent /\ Table!ConfirmedUnlessOvertaken
  /\ Table!ShownOrAskedFor

RowStates == [RowIds -> Texts \cup {"unused", "gone"}]

LEMMA TableInvInit == Table!Init => TableInv
<1> SUFFICES ASSUME Table!Init
             PROVE  TableInv
  OBVIOUS
<1>1. v1 \in RowStates /\ v2 \in DOMAIN TableFilters
  BY DEF Table!Init, Table!Unused, RowStates
<1>2. /\ v3 = {[filter |-> v2, current |-> TRUE]} /\ v4 = {} /\ v5 = None /\ v6 = {} /\ ~v7
      /\ v8 = None /\ v9 = None /\ v10 = None /\ ~v11
  BY DEF Table!Init
<1>3. v3 \subseteq Table!Requests
  BY <1>1, <1>2 DEF Table!Requests
<1>4. Table!TypeOK
  BY <1>1, <1>2, <1>3 DEF Table!TypeOK, Table!Unused, Table!Gone, RowStates
<1> QED BY <1>2, <1>4 DEF TableInv, Table!TickedRowsAreInSight, Table!DialogIsCurrent,
                          Table!ConfirmedUnlessOvertaken, Table!ShownOrAskedFor

(* A row that is gone never comes back. *)
GoneStays == \A i \in RowIds : v1[i] = "gone" => v1'[i] = "gone"

LEMMA OneRowChanges ==
  ASSUME v1 \in RowStates, NEW id \in RowIds, Table!Create(id) \/ Table!Update(id) \/ Table!Delete(id)
  PROVE  v1' \in RowStates /\ GoneStays
BY ConstantsAssumption DEF Table!Create, Table!Update, Table!Delete, Table!Live, Table!Unused, Table!Gone,
                           RowStates, GoneStays

LEMMA ManyRowsChange ==
  ASSUME v1 \in RowStates, Table!OperationDone
  PROVE  v1' \in RowStates /\ GoneStays
<1>1. Table!Targets \subseteq Table!Live
  BY DEF Table!Targets, Table!Matching
<1>2. PICK v \in Texts \cup {"gone"} : v1' = [i \in RowIds |-> IF i \in Table!Targets THEN v ELSE v1[i]]
  BY DEF Table!OperationDone, Table!Gone
<1> QED BY <1>1, <1>2, ConstantsAssumption DEF Table!Live, RowStates, GoneStays

LEMMA RowsStep ==
  ASSUME v1 \in RowStates, v4 \subseteq RowIds, Table!Next
  PROVE  v1' \in RowStates /\ GoneStays
<1>1. CASE v1' = v1
  BY <1>1 DEF GoneStays
<1>2. CASE Table!OperationDone
  BY <1>2, ManyRowsChange
<1>3. CASE Table!SubmitCreation \/ Table!OthersChange \/ Table!SaveInPopup
  BY <1>3, OneRowChanges DEF Table!SubmitCreation, Table!OthersChange, Table!SaveInPopup
<1>4. ASSUME NEW id \in RowIds, Table!SaveLine(id) \/ Table!DeleteLine(id)
      PROVE  v1' \in RowStates /\ GoneStays
  BY <1>4, OneRowChanges DEF Table!SaveLine, Table!DeleteLine
<1> QED BY <1>1, <1>2, <1>3, <1>4
        DEF Table!Next, Table!ChangeFilter, Table!Reload, Table!Answer, Table!AnswerFails, Table!Tick,
            Table!SelectAll, Table!OpenBulkEdit, Table!OpenBulkDelete, Table!OpenDialog, Table!CloseDialog,
            Table!SubmitBulkEdit, Table!BulkDelete, Table!OperationFails, Table!OpenPopup,
            Table!CancelCreation, Table!ClosePopup

(* A request that is issued is of the filter in use, and the one shown. *)
LEMMA IssuedIsShown ==
  ASSUME v3 \subseteq Table!Requests, v2' \in DOMAIN TableFilters, v3' = Table!Issued(v3, v2')
  PROVE  /\ v3' \subseteq Table!Requests /\ \A r, s \in v3' : r.current /\ s.current => r = s
         /\ Table!ShownOrAskedFor'
<1> DEFINE new == [filter |-> v2', current |-> TRUE]
           Old(r) == [r EXCEPT !.current = FALSE]
<1>1. new \in Table!Requests /\ new.current /\ new.filter = v2'
  BY DEF Table!Requests
<1>2. \A r \in v3 : Old(r) \in Table!Requests /\ ~Old(r).current
  BY DEF Table!Requests
<1>3. v3' = {Old(r) : r \in v3} \cup {new}
  BY DEF Table!Issued
<1> HIDE DEF new, Old
<1>4. v3' \subseteq Table!Requests
  BY <1>1, <1>2, <1>3
<1>5. new \in v3' /\ \A r \in v3' : r.current => r = new
  BY <1>2, <1>3
<1>6. \A r, s \in v3' : r.current /\ s.current => r = s
  BY <1>5
<1>7. Table!ShownOrAskedFor'
  BY <1>1, <1>5 DEF Table!ShownOrAskedFor
<1> QED BY <1>4, <1>6, <1>7

(* The steps that issue a request *)
Issues ==
  \/ Table!ChangeFilter \/ Table!Reload \/ Table!OperationDone \/ Table!SubmitCreation
  \/ (\E id \in RowIds : Table!SaveLine(id)) \/ Table!ClosePopup

LEMMA IssuesStep ==
  ASSUME v2 \in DOMAIN TableFilters, Issues
  PROVE  v2' \in DOMAIN TableFilters /\ v3' = Table!Issued(v3, v2')
BY DEF Issues, Table!ChangeFilter, Table!Reload, Table!OperationDone, Table!SubmitCreation, Table!SaveLine,
       Table!ClosePopup

(* The steps that neither issue a request nor answer one *)
Quiet ==
  \/ Table!Tick \/ Table!SelectAll \/ Table!OpenBulkEdit \/ Table!OpenBulkDelete \/ Table!CloseDialog
  \/ Table!SubmitBulkEdit \/ Table!BulkDelete \/ Table!OperationFails
  \/ (\E kind \in {"creation", "edit"} : Table!OpenPopup(kind)) \/ Table!CancelCreation
  \/ Table!SaveInPopup \/ (\E id \in RowIds : Table!DeleteLine(id)) \/ Table!OthersChange

LEMMA QuietStep ==
  ASSUME Quiet
  PROVE  UNCHANGED <<v2, v3, v5>>
BY DEF Quiet, Table!Tick, Table!SelectAll, Table!OpenBulkEdit, Table!OpenBulkDelete, Table!OpenDialog,
       Table!CloseDialog, Table!SubmitBulkEdit, Table!BulkDelete, Table!OperationFails, Table!OpenPopup,
       Table!CancelCreation, Table!SaveInPopup, Table!DeleteLine, Table!OthersChange, Table!tableVars

LEMMA TableSteps ==
  ASSUME Table!Next
  PROVE  Issues \/ Quiet \/ \E r \in v3 : Table!Answer(r) \/ Table!AnswerFails(r)
BY DEF Table!Next, Issues, Quiet

LEMMA TableTypeStep ==
  ASSUME TableInv, Table!Next
  PROVE  Table!TypeOK'
<1>0. /\ v1 \in RowStates /\ v2 \in DOMAIN TableFilters
      /\ v3 \subseteq Table!Requests /\ \A r, s \in v3 : r.current /\ s.current => r = s
      /\ v4 \subseteq RowIds /\ v6 \subseteq RowIds /\ (v7 => v5 # None)
      /\ (v5 # None => v5.filter \in DOMAIN TableFilters /\ v5.data \subseteq RowIds)
      /\ (v8 # None => DOMAIN v8 = {"kind", "counted"})
      /\ v10 \in {None, "creation", "edit"}
  BY DEF TableInv, Table!TypeOK, Table!Unused, Table!Gone, RowStates
<1>1. v1' \in RowStates
  BY <1>0, RowsStep
<1>2. v2' \in DOMAIN TableFilters /\ v3' \subseteq Table!Requests /\ \A r, s \in v3' : r.current /\ s.current => r = s
  <2>1. CASE Issues
    BY <1>0, <2>1, IssuesStep, IssuedIsShown
  <2>2. CASE Quiet
    BY <1>0, <2>2, QuietStep
  <2>3. ASSUME NEW r \in v3, Table!Answer(r) \/ Table!AnswerFails(r)
        PROVE  v2' = v2 /\ v3' \subseteq v3
    BY <2>3 DEF Table!Answer, Table!AnswerFails
  <2> QED BY <1>0, <2>1, <2>2, <2>3, TableSteps
<1>3. (v5' # None => v5'.filter \in DOMAIN TableFilters /\ v5'.data \subseteq RowIds) /\ (v5 # None => v5' # None)
  <2>1. CASE v5' = v5
    BY <1>0, <2>1
  <2>2. ASSUME NEW r \in v3, Table!Answer(r)
        PROVE  v5' # None /\ v5'.filter \in DOMAIN TableFilters /\ v5'.data \subseteq RowIds
    <3>1. v5' = [filter |-> r.filter, data |-> Table!Matching(r.filter)]
      BY <2>2 DEF Table!Answer
    <3>2. r.filter \in DOMAIN TableFilters /\ Table!Matching(r.filter) \subseteq RowIds
      BY <1>0 DEF Table!Requests, Table!Matching, Table!Live
    <3>3. v5' \in [filter : DOMAIN TableFilters, data : SUBSET RowIds]
      BY <3>1, <3>2
    <3> QED BY <3>3, ConstantsAssumption
  <2>3. ASSUME NEW r \in v3, Table!AnswerFails(r)
        PROVE  v5' = v5
    BY <2>3 DEF Table!AnswerFails
  <2>4. ASSUME Issues
        PROVE  v5' = v5
    BY <2>4 DEF Issues, Table!ChangeFilter, Table!Reload, Table!OperationDone, Table!SubmitCreation,
                Table!SaveLine, Table!ClosePopup
  <2> QED BY <2>1, <2>2, <2>3, <2>4, TableSteps, QuietStep
<1>4. v4' \subseteq RowIds /\ v6' \subseteq RowIds /\ (v7' => v5 # None)
  <2>1. CASE UNCHANGED <<v4, v6, v7>>
    BY <1>0, <2>1
  <2>2. ASSUME NEW r \in v3, Table!Answer(r)
        PROVE  v4' \subseteq RowIds /\ v6' \subseteq RowIds /\ (v7' => v5 # None)
    BY <1>0, <2>2 DEF Table!Answer, Table!Matching, Table!Live
  <2>3. CASE Table!Tick \/ Table!SelectAll \/ \E id \in RowIds : Table!DeleteLine(id)
    BY <1>0, <2>3 DEF Table!Tick, Table!SelectAll, Table!DeleteLine, Table!tableVars, Table!selectionVars
  <2> QED BY <2>1, <2>2, <2>3
          DEF Table!Next, Table!ChangeFilter, Table!Reload, Table!AnswerFails, Table!OpenBulkEdit,
              Table!OpenBulkDelete, Table!OpenDialog, Table!CloseDialog, Table!SubmitBulkEdit, Table!BulkDelete,
              Table!OperationDone, Table!OperationFails, Table!OpenPopup, Table!CancelCreation,
              Table!SubmitCreation, Table!SaveLine, Table!SaveInPopup, Table!ClosePopup, Table!OthersChange,
              Table!tableVars, Table!selectionVars
<1>5. v8' # None => DOMAIN v8' = {"kind", "counted"}
  <2>1. CASE v8' \in {v8, None}
    BY <1>0, <2>1
  <2>2. CASE Table!OpenBulkEdit \/ Table!OpenBulkDelete
    BY <2>2 DEF Table!OpenBulkEdit, Table!OpenBulkDelete, Table!OpenDialog
  <2>3. ASSUME NEW r \in v3, Table!Answer(r)
        PROVE  v8' # None => DOMAIN v8' = {"kind", "counted"}
    BY <1>0, <2>3 DEF Table!Answer, Table!Overtaken
  <2> QED BY <2>1, <2>2, <2>3
          DEF Table!Next, Table!ChangeFilter, Table!Reload, Table!AnswerFails, Table!Tick, Table!SelectAll,
              Table!CloseDialog, Table!SubmitBulkEdit, Table!BulkDelete,
              Table!OperationDone, Table!OperationFails, Table!OpenPopup, Table!CancelCreation,
              Table!SubmitCreation, Table!SaveLine, Table!DeleteLine, Table!SaveInPopup, Table!ClosePopup,
              Table!OthersChange
<1>6. v10' \in {None, "creation", "edit"}
  <2>1. CASE v10' \in {v10, None}
    BY <1>0, <2>1
  <2>2. ASSUME NEW kind \in {"creation", "edit"}, Table!OpenPopup(kind)
        PROVE  v10' \in {None, "creation", "edit"}
    BY <2>2 DEF Table!OpenPopup
  <2> QED BY <2>1, <2>2
          DEF Table!Next, Table!ChangeFilter, Table!Reload, Table!Answer, Table!AnswerFails, Table!Tick,
              Table!SelectAll, Table!OpenBulkEdit, Table!OpenBulkDelete, Table!OpenDialog, Table!CloseDialog,
              Table!SubmitBulkEdit, Table!BulkDelete, Table!OperationDone, Table!OperationFails,
              Table!CancelCreation, Table!SubmitCreation, Table!SaveLine, Table!DeleteLine,
              Table!SaveInPopup, Table!ClosePopup, Table!OthersChange
<1> QED BY <1>1, <1>2, <1>3, <1>4, <1>5, <1>6 DEF Table!TypeOK, Table!Unused, Table!Gone, RowStates

LEMMA TicksStep ==
  ASSUME TableInv, Table!Next
  PROVE  Table!TickedRowsAreInSight'
<1>0. v6 \subseteq RowIds /\ GoneStays
  BY RowsStep DEF TableInv, Table!TypeOK, Table!Unused, Table!Gone, RowStates
<1>1. CASE UNCHANGED <<v4, v6, v7>>
  BY <1>0, <1>1 DEF TableInv, Table!TickedRowsAreInSight, Table!Gone, GoneStays
<1>2. ASSUME NEW r \in v3, Table!Answer(r)
      PROVE  Table!TickedRowsAreInSight'
  BY <1>2 DEF Table!Answer, Table!TickedRowsAreInSight
<1>3. CASE Table!Tick \/ Table!SelectAll
  BY <1>3 DEF Table!Tick, Table!SelectAll, Table!TickedRowsAreInSight, Table!tableVars
<1>4. ASSUME NEW id \in RowIds, Table!DeleteLine(id)
      PROVE  Table!TickedRowsAreInSight'
  <2>1. v1'[id] = "gone" /\ v4' = v4 \ {id} /\ UNCHANGED <<v6, v7>>
    BY <1>4 DEF Table!DeleteLine, Table!Delete, Table!Gone, Table!selectionVars, TableInv, Table!TypeOK
  <2> QED BY <1>0, <2>1 DEF TableInv, Table!TickedRowsAreInSight, Table!Gone, GoneStays
<1> QED BY <1>1, <1>2, <1>3, <1>4
        DEF Table!Next, Table!ChangeFilter, Table!Reload, Table!AnswerFails, Table!OpenBulkEdit,
            Table!OpenBulkDelete, Table!OpenDialog, Table!CloseDialog, Table!SubmitBulkEdit, Table!BulkDelete,
            Table!OperationDone, Table!OperationFails, Table!OpenPopup, Table!CancelCreation,
            Table!SubmitCreation, Table!SaveLine, Table!SaveInPopup, Table!ClosePopup, Table!OthersChange,
            Table!tableVars, Table!selectionVars

LEMMA NothingIsCounted == Table!Cardinality({}) = 0
<1>1. Table!Cardinality({}) = Cardinality({})
  BY DEF Table!Cardinality, Cardinality
<1> QED BY <1>1, FS_EmptySet

LEMMA DialogStep ==
  ASSUME TableInv, Table!Next
  PROVE  Table!DialogIsCurrent'
<1>1. CASE v8' \in {v8, None} /\ UNCHANGED <<v5, v6, v7>>
  BY <1>1 DEF TableInv, Table!DialogIsCurrent, Table!Chosen
<1>2. ASSUME NEW r \in v3, Table!Answer(r)
      PROVE  Table!DialogIsCurrent'
  BY <1>2 DEF TableInv, Table!TypeOK, Table!Answer, Table!Overtaken, Table!DialogIsCurrent
<1>3. CASE Table!Tick \/ Table!SelectAll
  BY <1>3 DEF Table!Tick, Table!SelectAll, Table!DialogIsCurrent
<1>4. ASSUME NEW kind, Table!OpenDialog(kind)
      PROVE  Table!DialogIsCurrent'
  <2>1. v8' = [kind |-> kind, counted |-> Table!Chosen] /\ UNCHANGED <<v5, v6, v7>> /\ Table!RecordsCount > 0
    BY <1>4 DEF Table!OpenDialog, Table!tableVars, Table!selectionVars
  <2>2. v7 \/ v6 # {}
    BY <2>1, NothingIsCounted DEF Table!RecordsCount
  <2>3. v8'.counted = Table!Chosen'
    BY <2>1 DEF Table!Chosen
  <2> QED BY <2>1, <2>2, <2>3 DEF Table!DialogIsCurrent
<1> QED BY <1>1, <1>2, <1>3, <1>4
        DEF Table!Next, Table!ChangeFilter, Table!Reload, Table!AnswerFails, Table!OpenBulkEdit,
            Table!OpenBulkDelete, Table!CloseDialog, Table!SubmitBulkEdit, Table!BulkDelete,
            Table!OperationDone, Table!OperationFails, Table!OpenPopup, Table!CancelCreation,
            Table!SubmitCreation, Table!SaveLine, Table!DeleteLine, Table!SaveInPopup, Table!ClosePopup,
            Table!OthersChange, Table!tableVars, Table!selectionVars

LEMMA ConfirmedStep ==
  ASSUME TableInv, Table!Next
  PROVE  Table!ConfirmedUnlessOvertaken'
<1>1. CASE v9' \in {v9, None}
  BY <1>1 DEF TableInv, Table!ConfirmedUnlessOvertaken
<1>2. ASSUME NEW kind, v8 # None, v9' = Table!BulkRequest(kind)
      PROVE  Table!ConfirmedUnlessOvertaken'
  <2> DEFINE records == IF v7 THEN {} ELSE v6
  <2>1. v9'.asCounted = Table!AsCounted(v5.filter, records)
    BY <1>2 DEF Table!BulkRequest
  <2>2. v8.counted \in {None, Table!Chosen} /\ (v7 \/ v6 # {} \/ v8.counted = None)
    BY <1>2 DEF TableInv, Table!DialogIsCurrent
  <2>3. Table!AsCounted(v5.filter, records)
    BY <2>2 DEF Table!AsCounted, Table!Chosen
  <2> QED BY <2>1, <2>3 DEF Table!ConfirmedUnlessOvertaken
<1> QED BY <1>1, <1>2
        DEF Table!Next, Table!ChangeFilter, Table!Reload, Table!Answer, Table!AnswerFails, Table!Tick,
            Table!SelectAll, Table!OpenBulkEdit, Table!OpenBulkDelete, Table!OpenDialog, Table!CloseDialog,
            Table!SubmitBulkEdit, Table!BulkDelete,
            Table!OperationDone, Table!OperationFails, Table!OpenPopup, Table!CancelCreation,
            Table!SubmitCreation, Table!SaveLine, Table!DeleteLine, Table!SaveInPopup, Table!ClosePopup,
            Table!OthersChange

LEMMA AskedStep ==
  ASSUME TableInv, Table!Next
  PROVE  Table!ShownOrAskedFor'
<1>0. /\ v1 \in RowStates /\ v2 \in DOMAIN TableFilters
      /\ v3 \subseteq Table!Requests /\ \A r, s \in v3 : r.current /\ s.current => r = s
      /\ Table!ShownOrAskedFor /\ None # "edit"
  BY ConstantsAssumption DEF TableInv, Table!TypeOK, Table!Unused, Table!Gone, RowStates
<1>1. CASE Issues
  BY <1>0, <1>1, IssuesStep, IssuedIsShown
<1>2. ASSUME NEW r \in v3, Table!Answer(r)
      PROVE  Table!ShownOrAskedFor'
  <2>1. /\ v3' = v3 \ {r} /\ v4' = (IF r.current THEN Table!Matching(r.filter) ELSE v4)
        /\ v11' = (v11 \/ r.current) /\ UNCHANGED <<v1, v2, v10>>
    BY <1>2 DEF Table!Answer
  <2>2. CASE r.current
    <3>1. \A s \in v3' : ~s.current
      BY <1>0, <2>1, <2>2
    <3>2. v4' = Table!Matching(v2)
      BY <1>0, <2>1, <2>2 DEF Table!ShownOrAskedFor
    <3> QED BY <2>1, <3>1, <3>2 DEF Table!ShownOrAskedFor, Table!Matching, Table!Live
  <2>3. CASE ~r.current
    <3>1. (\A s \in v3' : ~s.current) => \A s \in v3 : ~s.current
      BY <2>1, <2>3
    <3> QED BY <1>0, <2>1, <2>3, <3>1 DEF Table!ShownOrAskedFor, Table!Matching, Table!Live
  <2> QED BY <2>2, <2>3
<1>3. ASSUME NEW r \in v3, Table!AnswerFails(r)
      PROVE  Table!ShownOrAskedFor'
  BY <1>0, <1>3 DEF Table!AnswerFails, Table!ShownOrAskedFor, Table!Matching, Table!Live
<1>4. CASE UNCHANGED <<v1, v2, v3, v4, v11>> /\ (v10' # "edit" => v10 # "edit")
  BY <1>0, <1>4 DEF Table!ShownOrAskedFor, Table!Matching, Table!Live
<1>5. ASSUME NEW id \in RowIds, Table!DeleteLine(id)
      PROVE  Table!ShownOrAskedFor'
  <2>1. /\ v1' = [v1 EXCEPT ![id] = "gone"] /\ v4' = v4 \ {id} /\ UNCHANGED <<v2, v3, v10, v11>>
    BY <1>5 DEF Table!DeleteLine, Table!Delete, Table!Gone
  <2>2. Table!Matching(v2)' = Table!Matching(v2) \ {id}
    BY <1>0, <2>1, ConstantsAssumption DEF Table!Matching, Table!Live, RowStates
  <2> QED BY <1>0, <2>1, <2>2 DEF Table!ShownOrAskedFor
<1>6. CASE Table!SaveInPopup
  BY <1>0, <1>6 DEF Table!SaveInPopup, Table!ShownOrAskedFor, Table!tableVars
<1>7. CASE Table!OthersChange
  BY <1>0, <1>7 DEF Table!OthersChange, Table!ShownOrAskedFor
<1>8. ASSUME NEW kind \in {"creation", "edit"}, Table!OpenPopup(kind)
      PROVE  UNCHANGED <<v1, v2, v3, v4, v11>> /\ (v10' # "edit" => v10 # "edit")
  BY <1>0, <1>8 DEF Table!OpenPopup, Table!tableVars
<1>9. ASSUME Table!CancelCreation
      PROVE  UNCHANGED <<v1, v2, v3, v4, v11>> /\ (v10' # "edit" => v10 # "edit")
  BY <1>9 DEF Table!CancelCreation, Table!tableVars
<1> QED BY <1>1, <1>2, <1>3, <1>4, <1>5, <1>6, <1>7, <1>8, <1>9
        DEF Table!Next, Issues, Table!Tick, Table!SelectAll, Table!OpenBulkEdit, Table!OpenBulkDelete,
            Table!OpenDialog, Table!CloseDialog, Table!SubmitBulkEdit, Table!BulkDelete,
            Table!OperationFails, Table!tableVars

LEMMA TableInvSuffices == TableInv => Table!ShowsOwnChanges
BY ConstantsAssumption DEF TableInv, Table!ShownOrAskedFor, Table!ShowsOwnChanges

(* For any rows, values and filters, and any number of requests under way: *)
(* what is ticked is in sight, a bulk change is the one its dialog asked   *)
(* for unless it was overtaken, and the user's own changes are seen.       *)
THEOREM TablesShow == Spec => []TableIsAsSeen
<1>1. Init => (part = "table" => TableInv)
  BY TableInvInit DEF Init
<1>2. (part = "table" => TableInv) /\ [Next]_<<part, v1, v2, v3, v4, v5, v6, v7, v8, v9, v10, v11, v12, v13, v14, v15>> =>
        (part = "table" => TableInv)'
  <2> SUFFICES ASSUME part = "table" => TableInv, part' = "table",
                      [Next]_<<part, v1, v2, v3, v4, v5, v6, v7, v8, v9, v10, v11, v12, v13, v14, v15>>
               PROVE  TableInv'
    OBVIOUS
  <2>1. CASE TableStep
    BY <2>1, TableTypeStep, TicksStep, DialogStep, ConfirmedStep, AskedStep DEF TableStep, TableInv
  <2>2. CASE UNCHANGED <<part, v1, v2, v3, v4, v5, v6, v7, v8, v9, v10, v11, v12, v13, v14, v15>>
    BY <2>2 DEF TableInv, Table!TypeOK, Table!TickedRowsAreInSight, Table!DialogIsCurrent,
                Table!ConfirmedUnlessOvertaken, Table!ShownOrAskedFor, Table!Matching, Table!Live, Table!Chosen
  <2> QED BY <2>1, <2>2 DEF Next, QueryStep, LogsStep, ApiStep, ImportStep, CreationStep, RecordStep,
                              ListStep, SwitchesStep, CheckStep
<1>3. (part = "table" => TableInv) => TableIsAsSeen
  BY TableInvSuffices DEF TableIsAsSeen, TableInv
<1> QED BY <1>1, <1>2, <1>3, PTL DEF Spec
-----------------------------------------------------------------------------
(* Import: rows is v1, file v2, isLoadingImport v3, changes v4,            *)
(* importResponse v5, serverErrors v6, local v7, resolvedData v8, commit   *)
(* v9, crashed v10, left v11, made v12, unseen v13, relisted v14,          *)
(* untold v15                                                              *)

LEMMA ImportTokens == Import!Tokens = {"7", "8"}
BY DEF Import!Tokens

(* The cells of a file, and those of an export that XLSX has typed *)
Written(t) == [type |-> "text", of |-> t]
Flag(t) == [type |-> "boolean", of |-> t]
Numeral(t) == [type |-> "number", of |-> t]

LEMMA ImportCells ==
  ASSUME NEW t, NEW u
  PROVE  /\ Written(t) = Written(u) <=> t = u
         /\ Numeral(t) = Numeral(u) <=> t = u
         /\ Import!NullCell \notin {Written(t), Flag(t), Numeral(t)}
         /\ Written(t).of = t /\ Numeral(t).of = t
         /\ Import!Printed(Written(t)) = t /\ Import!Printed(Numeral(t)) = t
         /\ Import!Text(t) = Written(t)
BY DEF Import!Printed, Written, Flag, Numeral, Import!Text, Import!NullCell

LEMMA ImportRead ==
  ASSUME NEW t
  PROVE  /\ t \in {"TRUE", "FALSE", "yes", "7", "7.0", "007", "8", "word", "null"} => Import!Raw(t) = Written(t)
         /\ t \in {"TRUE", "FALSE"} => Import!Inferred(t) = Flag(t)
         /\ t \in {"7", "8"} => Import!Inferred(t) = Numeral(t)
         /\ t = "007" => Import!Inferred(t) = Numeral("7")
         /\ t = "word" => Import!Inferred(t) = Written(t)
BY DEF Import!Raw, Import!Inferred, Import!Text, Written, Flag, Numeral

LEMMA ImportTrue ==
  ASSUME NEW t
  PROVE  /\ t \in {"TRUE", "FALSE"} => (Flag(t) \in Import!trueBooleanValues <=> t = "TRUE")
         /\ t \in {"TRUE", "yes", "FALSE"} => (Written(t) \in Import!trueBooleanValues <=> t # "FALSE")
BY DEF Import!trueBooleanValues, Import!Text, Written, Flag

(* What becomes of a cell, in a column of each kind *)
LEMMA ImportSwitches ==
  ASSUME NEW kind, kind = "switch", NEW a, NEW b, Import!NullCell \notin {a, b}
  PROVE  Import!Normalized(kind, a) = Import!Normalized(kind, b) <=>
           (a \in Import!trueBooleanValues <=> b \in Import!trueBooleanValues)
BY DEF Import!Normalized

LEMMA ImportDigits ==
  ASSUME NEW kind, kind = "digit", NEW cell, cell # Import!NullCell, cell.of \in {"7", "7.0", "8"}
  PROVE  Import!Normalized(kind, cell) = IF cell.of = "8" THEN [type |-> "number", of |-> "8"] ELSE [type |-> "number", of |-> "7"]
BY DEF Import!Normalized, Import!NumberIn

LEMMA ImportTexts ==
  ASSUME NEW kind, kind = "text", NEW cell, cell # Import!NullCell
  PROVE  /\ cell \in {Import!Text(""), Import!Text("null")} => Import!Normalized(kind, cell) = Import!NullCell
         /\ cell \notin {Import!Text(""), Import!Text("null")} => Import!Normalized(kind, cell) = Import!Text(Import!Printed(cell))
<1>1. CASE cell \in {Import!Text(""), Import!Text("null")}
  BY <1>1 DEF Import!Normalized
<1>2. CASE cell \notin {Import!Text(""), Import!Text("null")}
  BY <1>2 DEF Import!Normalized
<1> QED BY <1>1, <1>2

LEMMA ImportRelations ==
  ASSUME NEW kind, kind = "relation", NEW cell, cell # Import!NullCell, cell.of \in {"7", "8"}
  PROVE  Import!Normalized(kind, cell) = IF cell.of = "7" THEN [type |-> "text", of |-> "ann"] ELSE [type |-> "text", of |-> "bob"]
BY DEF Import!Normalized, Import!NumberIn, Import!Text

Same(kind, t, typed) ==
  Import!Normalized(kind, Import!Inferred(t)) = Import!Normalized(kind, Import!Raw(typed))

(* What differs for the author of a value differs for the comparison. *)
LEMMA ImportOnlyChanges == Import!OnlyChangesAreUpdates
<1>1. ASSUME NEW kind, kind = "switch", NEW t \in {"TRUE", "FALSE"}, NEW typed \in {"TRUE", "yes", "FALSE"}
      PROVE  Same(kind, t, typed) <=> (t # "FALSE") = (typed # "FALSE")
  <2>1. Import!Inferred(t) = Flag(t) /\ Import!Raw(typed) = Written(typed)
    BY ImportRead
  <2>2. Flag(t) \in Import!trueBooleanValues <=> t # "FALSE"
    BY ImportTrue
  <2>3. Written(typed) \in Import!trueBooleanValues <=> typed # "FALSE"
    BY ImportTrue
  <2>4. Import!NullCell \notin {Flag(t), Written(typed)}
    BY ImportCells
  <2>5. Import!Normalized(kind, Flag(t)) = Import!Normalized(kind, Written(typed)) <=>
          (Flag(t) \in Import!trueBooleanValues <=> Written(typed) \in Import!trueBooleanValues)
    BY <1>1, <2>4, ImportSwitches
  <2> QED BY <2>1, <2>2, <2>3, <2>5 DEF Same
<1>2. ASSUME NEW kind, kind = "digit", NEW t \in {"7", "8"}, NEW typed \in {"7", "7.0", "8"}
      PROVE  Same(kind, t, typed) <=> (t = "8") = (typed = "8")
  <2>1. Import!Inferred(t) = Numeral(t) /\ Import!Raw(typed) = Written(typed)
    BY ImportRead
  <2>2. Numeral(t) # Import!NullCell /\ Numeral(t).of = t
    BY ImportCells
  <2>3. Written(typed) # Import!NullCell /\ Written(typed).of = typed
    BY ImportCells
  <2>4. Import!Normalized(kind, Numeral(t)) = IF t = "8" THEN [type |-> "number", of |-> "8"] ELSE [type |-> "number", of |-> "7"]
    BY <1>2, <2>2, ImportDigits
  <2>5. Import!Normalized(kind, Written(typed)) = IF typed = "8" THEN [type |-> "number", of |-> "8"] ELSE [type |-> "number", of |-> "7"]
    BY <1>2, <2>3, ImportDigits
  <2> QED BY <2>1, <2>4, <2>5 DEF Same
<1>3. ASSUME NEW kind, kind = "text", NEW t \in {"7", "word"}, NEW typed \in {"7", "word", "null", "TRUE", "007"}
      PROVE  Same(kind, t, typed) <=> t = typed
  <2>1. Import!Raw(typed) = Written(typed) /\ Import!Raw(t) = Written(t)
    BY ImportRead
  <2>2. PICK cell : cell = Import!Inferred(t) /\ cell # Import!NullCell /\ Import!Printed(cell) = t /\ cell.of = t
                    /\ cell \in {Numeral(t), Written(t)}
    BY ImportRead, ImportCells
  <2>3. cell \notin {Import!Text(""), Import!Text("null")}
    <3>1. Import!Text("").of = "" /\ Import!Text("null").of = "null"
      BY DEF Import!Text
    <3> QED BY <2>2, <3>1
  <2>4. Import!Normalized(kind, cell) = Written(t)
    <3>1. Import!Normalized(kind, cell) = Import!Text(Import!Printed(cell))
      BY <1>3, <2>2, <2>3, ImportTexts
    <3> QED BY <2>2, <3>1, ImportCells
  <2>5. Written(typed) # Import!NullCell /\ Import!Printed(Written(typed)) = typed /\ Import!Text(typed) = Written(typed)
    BY ImportCells
  <2>6. Written(typed) \in {Import!Text(""), Import!Text("null")} <=> typed = "null"
    BY DEF Written, Import!Text
  <2>7. Import!Normalized(kind, Written(typed)) = IF typed = "null" THEN Import!NullCell ELSE Written(typed)
    BY <1>3, <2>5, <2>6, ImportTexts
  <2>8. Written(t) # Import!NullCell /\ (Written(t) = Written(typed) <=> t = typed)
    BY ImportCells
  <2> QED BY <2>1, <2>2, <2>4, <2>7, <2>8 DEF Same
<1>4. ASSUME NEW kind, kind = "text", NEW t \in {"TRUE", "007"}
      PROVE  Import!Reworded(kind, t)
  <2>1. CASE t = "TRUE"
    <3>1. Import!Inferred(t) = Flag(t) /\ Import!NullCell # Flag(t)
      BY <2>1, ImportRead, ImportCells
    <3>2. Import!Printed(Flag("TRUE")) = "true"
      BY DEF Flag, Import!Printed
    <3> QED BY <1>4, <2>1, <3>1, <3>2 DEF Import!Reworded
  <2>2. CASE t = "007"
    <3>1. Import!Inferred(t) = Numeral("7") /\ Import!NullCell # Numeral("7") /\ Import!Printed(Numeral("7")) = "7"
      BY <2>2, ImportRead, ImportCells
    <3> QED BY <1>4, <2>2, <3>1 DEF Import!Reworded
  <2> QED BY <2>1, <2>2
<1>5. ASSUME NEW kind, kind = "relation", NEW t \in {"7", "8"}, NEW typed \in {"7", "8"}
      PROVE  Same(kind, t, typed) <=> t = typed
  <2>1. Import!Inferred(t) = Numeral(t) /\ Import!Raw(typed) = Written(typed)
    BY ImportRead
  <2>2. Numeral(t) # Import!NullCell /\ Numeral(t).of = t
    BY ImportCells
  <2>3. Written(typed) # Import!NullCell /\ Written(typed).of = typed
    BY ImportCells
  <2>4. Import!Normalized(kind, Numeral(t)) = IF t = "7" THEN [type |-> "text", of |-> "ann"] ELSE [type |-> "text", of |-> "bob"]
    BY <1>5, <2>2, ImportRelations
  <2>5. Import!Normalized(kind, Written(typed)) = IF typed = "7" THEN [type |-> "text", of |-> "ann"] ELSE [type |-> "text", of |-> "bob"]
    BY <1>5, <2>3, ImportRelations
  <2> QED BY <2>1, <2>4, <2>5 DEF Same
<1> DEFINE Exported == [switch |-> {"TRUE", "FALSE"}, digit |-> {"7", "8"}, text |-> {"7", "word", "TRUE", "007"},
                        relation |-> {"7", "8"}]
           Typed == [switch |-> {"TRUE", "yes", "FALSE"}, digit |-> {"7", "7.0", "8"}, text |-> {"7", "word", "null", "TRUE", "007"},
                     relation |-> {"7", "8"}]
           Means == [switch |-> [t \in {"TRUE", "yes", "FALSE"} |-> t # "FALSE"],
                     digit |-> [t \in {"7", "7.0", "8"} |-> t = "8"],
                     text |-> [t \in {"7", "word", "null", "TRUE", "007"} |-> t],
                     relation |-> [t \in {"7", "8"} |-> t]]
<1>6. ASSUME NEW kind \in DOMAIN Exported, NEW t \in Exported[kind], NEW typed \in Typed[kind]
      PROVE  Import!Reworded(kind, t) \/ (Same(kind, t, typed) <=> Means[kind][t] = Means[kind][typed])
  <2>1. CASE kind = "switch"
    BY <1>1, <2>1
  <2>2. CASE kind = "digit"
    BY <1>2, <2>2
  <2>3. CASE kind = "text"
    BY <1>3, <1>4, <2>3
  <2>4. CASE kind = "relation"
    BY <1>5, <2>4
  <2> QED BY <2>1, <2>2, <2>3, <2>4
<1> QED BY <1>6 DEF Import!OnlyChangesAreUpdates, Same

(* Rows change by their next version only. *)
LEMMA ImportRowsStep ==
  ASSUME Import!TypeOK, Import!Next
  PROVE  /\ v1' \in [RowIds -> Import!Versioned]
         /\ \A i \in RowIds : v1'[i] = v1[i] \/ v1'[i].version > v1[i].version
<1>0. v1 \in [RowIds -> Import!Versioned]
  BY DEF Import!TypeOK
<1>1. CASE v1' = v1
  BY <1>0, <1>1
<1>2. CASE v9 # None /\ v1' = [i \in RowIds |->
             IF i \in DOMAIN v9.modified THEN [version |-> v1[i].version + 1, value |-> v9.modified[i].value] ELSE v1[i]]
  <2>1. \A i \in DOMAIN v9.modified : v9.modified[i] \in Import!Versioned
    BY <1>2 DEF Import!TypeOK, Import!IsOfSome
  <2> QED BY <1>0, <1>2, <2>1 DEF Import!Versioned
<1>3. ASSUME NEW i \in RowIds, Import!OthersChange(i)
      PROVE  /\ v1' \in [RowIds -> Import!Versioned]
             /\ \A j \in RowIds : v1'[j] = v1[j] \/ v1'[j].version > v1[j].version
  <2>1. PICK v \in {"7", "8"} : v1' = [v1 EXCEPT ![i] = [version |-> @.version + 1, value |-> v]]
    BY <1>3 DEF Import!OthersChange
  <2> QED BY <1>0, <2>1, ImportTokens DEF Import!Versioned
<1>4. v1' = v1 \/ (\E i \in RowIds : Import!OthersChange(i)) \/ Import!Serve
  BY DEF Import!Next, Import!Export, Import!HandleFile, Import!HandleFileFails, Import!HandleCommit,
         Import!Answered, Import!Invalid, Import!Fails, Import!OpenConflicts, Import!ApplyCurrentValue, Import!OnCancel
<1>5. Import!Serve => v1' = v1 \/ (v9 # None /\ v1' = [i \in RowIds |->
        IF i \in DOMAIN v9.modified THEN [version |-> v1[i].version + 1, value |-> v9.modified[i].value] ELSE v1[i]])
  BY DEF Import!Serve
<1> QED BY <1>1, <1>2, <1>3, <1>4, <1>5

(* What was seen of a version stays so. *)
LEMMA ImportStillSaw ==
  ASSUME v1 \in [RowIds -> Import!Versioned], v1' \in [RowIds -> Import!Versioned],
         \A i \in RowIds : v1'[i] = v1[i] \/ v1'[i].version > v1[i].version,
         NEW i \in RowIds, NEW version \in Nat, NEW value, Import!Saw(i, version, value)
  PROVE  Import!Saw(i, version, value)'
BY DEF Import!Saw, Import!Versioned

LEMMA ImportListed ==
  ASSUME NEW S \in SUBSET RowIds, NEW ids \in Import!SetToSeqs(S)
  PROVE  /\ ids \in Seq(S) /\ \A n, m \in DOMAIN ids : ids[n] = ids[m] => n = m
<1>1. Import!Cardinality(S) \in Nat
  <2>1. IsFiniteSet(S)
    BY ConstantsAssumption, FS_Subset
  <2>2. Cardinality(S) \in Nat
    BY <2>1, FS_CardinalityType
  <2>3. Import!Cardinality(S) = Cardinality(S)
    BY DEF Import!Cardinality, Cardinality
  <2> QED BY <2>2, <2>3
<1>2. PICK k \in Nat : k = Import!Cardinality(S)
  BY <1>1
<1>3. ids \in [1 .. k -> S] /\ \A n, m \in 1 .. k : n # m => ids[n] # ids[m]
  BY <1>2 DEF Import!SetToSeqs
<1> QED BY <1>3

(* Every value about to be overwritten stands next to the version it was   *)
(* seen with, in the comparison, in a conflict, in the tab and in the      *)
(* commit; and no version is ever given twice.                             *)
ImportInv ==
  /\ Import!TypeOK
  /\ Import!ComparedWasSeen /\ Import!ConflictsWereSeen /\ Import!ResolvedInTab
  /\ Import!ResolvedWasSeen /\ Import!CommittedWasSeen
  /\ Import!OnlySeenIsOverwritten
  /\ Import!CreatedIsDone /\ Import!CreatedOnce

LEMMA ImportInvInit == Import!Init => ImportInv
<1> SUFFICES ASSUME Import!Init
             PROVE  ImportInv
  OBVIOUS
<1>1. /\ v1 \in [RowIds -> [version : {1}, value : {"7"}]] /\ v2 = v1
      /\ v4 = None /\ v5 = None /\ v9 = None /\ v7 = None /\ v8 = <<>> /\ v12 = 0 /\ v13 = FALSE /\ v14 = FALSE /\ v15 = 0
  BY DEF Import!Init
<1>2. v1 \in [RowIds -> Import!Versioned] /\ \A i \in RowIds : v1[i].version \in Nat
  BY <1>1, ImportTokens DEF Import!Versioned
<1>3. Import!TypeOK
  BY <1>1, <1>2 DEF Import!TypeOK
<1> QED BY <1>1, <1>2, <1>3
        DEF ImportInv, Import!ComparedWasSeen, Import!ConflictsWereSeen, Import!ResolvedInTab, Import!ResolvedWasSeen, Import!CommittedWasSeen,
            Import!OnlySeenIsOverwritten, Import!CreatedIsDone, Import!CreatedOnce, Import!Conflicting

TabLine == [value : Import!Tokens, current : Import!Tokens]
ResolvedLine == [id : RowIds, version : Nat, value : Import!Tokens]
ConflictLine == [id : RowIds, version : Nat, current : Import!Tokens, imported : Import!Tokens]

LEMMA SequenceIsFunction ==
  ASSUME NEW S, NEW s \in Seq(S)
  PROVE  s \in [1 .. Len(s) -> S] /\ Len(s) \in Nat /\ DOMAIN s = 1 .. Len(s)
OBVIOUS

LEMMA FunctionIsSequence ==
  ASSUME NEW S, NEW n \in Nat, NEW s \in [1 .. n -> S]
  PROVE  s \in Seq(S) /\ Len(s) = n
OBVIOUS

(* The types of what an action leaves. *)
LEMMA ImportTypes ==
  ASSUME Import!TypeOK
  PROVE  /\ v1 \in [RowIds -> Import!Versioned] /\ v2 \in [RowIds -> Import!Versioned]
         /\ v4 # None => /\ v4.created \in BOOLEAN
                         /\ DOMAIN v4.updated \subseteq RowIds /\ v4.updated \in [DOMAIN v4.updated -> Import!Versioned]
                         /\ v4.old \in [RowIds -> Import!Tokens]
         /\ v9 # None => /\ v9 = [new |-> v9.new, modified |-> v9.modified, shown |-> v9.shown, answer |-> v9.answer]
                         /\ v9.new \in BOOLEAN
                         /\ DOMAIN v9.modified \subseteq RowIds /\ v9.modified \in [DOMAIN v9.modified -> Import!Versioned]
                         /\ v9.shown \in [DOMAIN v9.modified -> Import!Tokens]
                         /\ v9.answer \in {None, Undefined} \/ v9.answer \in Seq(ConflictLine)
         /\ v5 \in {None, Undefined} \/ v5 \in Seq(ConflictLine)
         /\ v7 = None \/ v7 \in Seq(TabLine)
         /\ v8 \in Seq(ResolvedLine)
         /\ v12 \in Nat /\ v15 \in Nat
BY DEF Import!TypeOK, Import!IsOfSome, Import!Conflicts, TabLine, ResolvedLine, ConflictLine

LEMMA ImportMountedIs ==
  ASSUME NEW tab \in Seq(TabLine)
  PROVE  tab # None
BY ConstantsAssumption, ImportTokens DEF TabLine

(* What the tab makes of conflicts. *)
LEMMA ImportMounted ==
  ASSUME NEW conflicts \in Seq(ConflictLine)
  PROVE  /\ Import!Initial(conflicts) \in Seq(TabLine)
         /\ DOMAIN Import!Initial(conflicts) = DOMAIN conflicts
         /\ Len(Import!Initial(conflicts)) = Len(conflicts)
         /\ \A n \in DOMAIN conflicts : Import!Initial(conflicts)[n].current = conflicts[n].current
<1> DEFINE tab == Import!Initial(conflicts)
<1>1. /\ conflicts \in [1 .. Len(conflicts) -> ConflictLine]
      /\ Len(conflicts) \in Nat /\ DOMAIN conflicts = 1 .. Len(conflicts)
  BY SequenceIsFunction
<1>2. tab = [n \in 1 .. Len(conflicts) |-> [value |-> conflicts[n].imported, current |-> conflicts[n].current]]
  BY <1>1 DEF Import!Initial
<1>3. \A n \in 1 .. Len(conflicts) : conflicts[n].imported \in Import!Tokens /\ conflicts[n].current \in Import!Tokens
  BY <1>1 DEF ConflictLine
<1>4. tab \in [1 .. Len(conflicts) -> TabLine]
  BY <1>2, <1>3 DEF TabLine
<1>5. tab \in Seq(TabLine) /\ Len(tab) = Len(conflicts)
  BY <1>1, <1>4, FunctionIsSequence
<1> QED BY <1>1, <1>2, <1>5

LEMMA ImportResolved ==
  ASSUME NEW conflicts \in Seq(ConflictLine), NEW tab \in Seq(TabLine),
         Len(tab) <= Len(conflicts)
  PROVE  /\ Import!Resolutions(tab, conflicts) \in Seq(ResolvedLine)
         /\ DOMAIN Import!Resolutions(tab, conflicts) = DOMAIN tab /\ DOMAIN tab \subseteq DOMAIN conflicts
         /\ \A n \in DOMAIN tab : /\ Import!Resolutions(tab, conflicts)[n].id = conflicts[n].id
                                  /\ Import!Resolutions(tab, conflicts)[n].version = conflicts[n].version
<1> DEFINE res == Import!Resolutions(tab, conflicts)
<1>1. /\ conflicts \in [1 .. Len(conflicts) -> ConflictLine]
      /\ Len(conflicts) \in Nat /\ DOMAIN conflicts = 1 .. Len(conflicts)
  BY SequenceIsFunction
<1>2. /\ tab \in [1 .. Len(tab) -> TabLine]
      /\ Len(tab) \in Nat /\ DOMAIN tab = 1 .. Len(tab)
  BY SequenceIsFunction
<1>3. \A n \in 1 .. Len(tab) : conflicts[n].id \in RowIds /\ conflicts[n].version \in Nat /\ tab[n].value \in Import!Tokens
  BY <1>1, <1>2 DEF ConflictLine, TabLine
<1>4. res = [n \in 1 .. Len(tab) |-> [id |-> conflicts[n].id, version |-> conflicts[n].version, value |-> tab[n].value]]
  BY <1>2 DEF Import!Resolutions
<1>5. res \in [1 .. Len(tab) -> ResolvedLine]
  BY <1>3, <1>4 DEF ResolvedLine
<1>6. res \in Seq(ResolvedLine)
  BY <1>2, <1>5, FunctionIsSequence
<1> QED BY <1>1, <1>2, <1>4, <1>5, <1>6

(* What compares the rows with what is in hand. *)
LEMMA ImportHandleFile ==
  ASSUME ImportInv, Import!HandleFile
  PROVE  ImportInv'
<1>1. PICK values \in [RowIds -> {"7", "8"}], new \in BOOLEAN :
        v4' = [created |-> new, updated |-> Import!Updated(values), old |-> [i \in RowIds |-> v1[i].value]]
  BY DEF Import!HandleFile
<1>2. /\ v4 = None /\ ~v10
      /\ v7' = IF Import!Conflicting(v5) THEN Import!Initial(v5) ELSE None
      /\ v8' = IF Import!Conflicting(v5) THEN Import!Resolutions(v7', v5) ELSE v8
      /\ v12' = 0 /\ UNCHANGED <<v1, v2, v3, v5, v6, v9, v10, v13, v14, v15>>
  BY DEF Import!HandleFile
<1>3. Import!TypeOK
  BY DEF ImportInv
<1>4. PICK fresh : fresh = Import!Updated(values)
  OBVIOUS
<1>5. /\ DOMAIN fresh \subseteq RowIds /\ fresh \in [DOMAIN fresh -> Import!Versioned]
      /\ \A i \in DOMAIN fresh : fresh[i].version = v2[i].version
  <2>1. \A i \in RowIds : v2[i].version \in Nat
    BY <1>3, ImportTypes DEF Import!Versioned
  <2> QED BY <1>4, <2>1, ImportTokens DEF Import!Updated, Import!Versioned
<1>6. [i \in RowIds |-> v1[i].value] \in [RowIds -> Import!Tokens]
  BY <1>3, ImportTypes DEF Import!Versioned
<1>7. /\ v4'.created \in BOOLEAN /\ v4'.updated = fresh /\ v4'.old = [i \in RowIds |-> v1[i].value]
      /\ v4' = [created |-> v4'.created, updated |-> v4'.updated, old |-> v4'.old]
  BY <1>1, <1>4
<1>8. Import!Conflicting(v5) =>
        /\ v7' \in Seq(TabLine) /\ v8' \in Seq(ResolvedLine) /\ DOMAIN v7' = DOMAIN v5 /\ DOMAIN v8' = DOMAIN v5
        /\ Len(v7') = Len(v5)
        /\ \A n \in DOMAIN v5 : v7'[n].current = v5[n].current /\ v8'[n].id = v5[n].id /\ v8'[n].version = v5[n].version
  <2> SUFFICES ASSUME Import!Conflicting(v5)
               PROVE  /\ v7' \in Seq(TabLine) /\ v8' \in Seq(ResolvedLine) /\ DOMAIN v7' = DOMAIN v5 /\ DOMAIN v8' = DOMAIN v5
                      /\ Len(v7') = Len(v5)
                      /\ \A n \in DOMAIN v5 :
                           v7'[n].current = v5[n].current /\ v8'[n].id = v5[n].id /\ v8'[n].version = v5[n].version
    OBVIOUS
  <2>1. v5 \in Seq(ConflictLine) /\ Len(v5) \in Nat
    BY <1>3, ImportTypes DEF Import!Conflicting
  <2>2. v7' = Import!Initial(v5) /\ v8' = Import!Resolutions(v7', v5)
    BY <1>2
  <2>3. /\ v7' \in Seq(TabLine) /\ DOMAIN v7' = DOMAIN v5 /\ Len(v7') = Len(v5)
        /\ \A n \in DOMAIN v5 : v7'[n].current = v5[n].current
    BY <2>1, <2>2, ImportMounted
  <2>4. Len(v7') <= Len(v5)
    BY <2>1, <2>3
  <2> QED BY <2>1, <2>2, <2>3, <2>4, ImportResolved
<1>9. (v7' = None \/ v7' \in Seq(TabLine)) /\ v8' \in Seq(ResolvedLine)
  <2>1. v8 \in Seq(ResolvedLine)
    BY <1>3, ImportTypes
  <2> QED BY <1>2, <1>8, <2>1
<1>10. Import!TypeOK'
  BY <1>2, <1>3, <1>5, <1>6, <1>7, <1>9 DEF Import!TypeOK, Import!IsOfSome, Import!Conflicts, TabLine, ResolvedLine
<1>11. Import!ComparedWasSeen'
  <2>1. \A i \in RowIds : v2[i].version <= v1[i].version
    BY DEF ImportInv, Import!ComparedWasSeen
  <2>2. \A i \in RowIds : v2[i].version \in Nat /\ v1[i].version \in Nat
    BY <1>3, ImportTypes DEF Import!Versioned
  <2>3. \A i \in DOMAIN fresh : i \in RowIds /\ v4'.updated[i].version = v2[i].version /\ v4'.old[i] = v1[i].value
    BY <1>5, <1>7
  <2>4. \A i \in DOMAIN fresh : Import!Saw(i, v4.updated[i].version, v4.old[i])'
    BY <1>2, <2>1, <2>2, <2>3 DEF Import!Saw
  <2>5. DOMAIN v4'.updated = DOMAIN fresh
    BY <1>7
  <2> QED BY <1>2, <2>1, <2>4, <2>5 DEF Import!ComparedWasSeen
<1>12. Import!ConflictsWereSeen'
  BY <1>2 DEF ImportInv, Import!ConflictsWereSeen, Import!WereSeen, Import!Saw
<1>13. Import!ResolvedInTab' /\ v4' # None
  <2>1. v4' # None
    <3>1. PICK S \in SUBSET RowIds : S = DOMAIN fresh
      BY <1>5
    <3>2. fresh \in [S -> [version : Nat, value : {"7", "8"}]] /\ v4'.old \in [RowIds -> {"7", "8"}]
      BY <1>5, <1>6, <1>7, <3>1, ImportTokens DEF Import!Versioned
    <3>3. v4' \in [created : BOOLEAN, updated : [S -> [version : Nat, value : {"7", "8"}]], old : [RowIds -> {"7", "8"}]]
      BY <1>7, <3>2
    <3> QED BY <3>3, ConstantsAssumption
  <2>2. v8 = <<>>
    BY <1>2 DEF ImportInv, Import!ResolvedInTab
  <2>3. Import!Conflicting(v5) => Len(v5) \in Nat /\ v7' # None
    BY <1>3, <1>8, ImportTypes, ImportMountedIs DEF Import!Conflicting
  <2> QED BY <1>2, <1>8, <2>1, <2>2, <2>3 DEF Import!ResolvedInTab, Import!Conflicting
<1>14. Import!ResolvedWasSeen'
  <2>1. CASE Import!Conflicting(v5)
    <3>1. Import!WereSeen(v5)
      BY <2>1 DEF ImportInv, Import!ConflictsWereSeen, Import!Conflicting
    <3>3. \A n \in DOMAIN v5 : Import!Saw(v5[n].id, v5[n].version, v5[n].current)
      BY <3>1 DEF Import!WereSeen
    <3>4. \A n \in DOMAIN v5 : Import!Saw(v8'[n].id, v8'[n].version, v7'[n].current)
      BY <1>8, <2>1, <3>3
    <3>5. \A n \in DOMAIN v7' : Import!Saw(v8[n].id, v8[n].version, v7[n].current)'
      BY <1>2, <1>8, <2>1, <3>4 DEF Import!Saw
    <3>6. \A n, m \in DOMAIN v7' : v8'[n].id = v8'[m].id => n = m
      BY <1>8, <2>1, <3>1 DEF Import!WereSeen
    <3> QED BY <1>2, <1>8, <2>1, <1>13, <3>5, <3>6 DEF Import!ResolvedWasSeen
  <2>2. CASE ~Import!Conflicting(v5)
    BY <1>2, <2>2 DEF ImportInv, Import!ResolvedWasSeen, Import!ResolvedInTab, Import!Conflicting
  <2> QED BY <2>1, <2>2
<1>15. Import!CommittedWasSeen' /\ Import!OnlySeenIsOverwritten' /\ Import!CreatedIsDone' /\ Import!CreatedOnce'
  <2>1. v12' <= v15' /\ ~(v12' > v15') /\ v12' <= 1 + v15'
    BY <1>2, <1>3, ImportTypes
  <2>2. Import!CommittedWasSeen' /\ Import!OnlySeenIsOverwritten'
    BY <1>2 DEF ImportInv, Import!CommittedWasSeen, Import!Saw, Import!OnlySeenIsOverwritten
  <2> QED BY <1>2, <2>1, <2>2 DEF ImportInv, Import!CreatedIsDone, Import!CreatedOnce
<1> QED BY <1>10, <1>11, <1>12, <1>13, <1>14, <1>15 DEF ImportInv

(* What is about to be committed, and next to it what was seen. *)
LEMMA ImportModified ==
  ASSUME ImportInv, v4 # None
  PROVE  /\ DOMAIN Import!Modified \subseteq RowIds /\ Import!Modified \in [DOMAIN Import!Modified -> Import!Versioned]
         /\ \A i \in DOMAIN Import!Modified :
              /\ Import!Shown(i) \in Import!Tokens
              /\ ~v14 => Import!Saw(i, Import!Modified[i].version, Import!Shown(i))
<1>0. Import!TypeOK
  BY DEF ImportInv
<1>1. CASE v8 = <<>>
  <2>1. Import!Modified = v4.updated /\ \A i \in RowIds : Import!Shown(i) = v4.old[i]
    BY <1>1 DEF Import!Modified, Import!Shown
  <2>2. \A i \in DOMAIN v4.updated : Import!Saw(i, v4.updated[i].version, v4.old[i])
    BY DEF ImportInv, Import!ComparedWasSeen
  <2> QED BY <1>0, <2>1, <2>2, ImportTypes
<1>2. CASE v8 # <<>>
  <2> DEFINE ids == {r.id : r \in Import!Range(v8)}
             Of(i) == CHOOSE x \in Import!Range(v8) : x.id = i
             At(i) == CHOOSE n \in DOMAIN v8 : v8[n].id = i
  <2>1. v8 \in [1 .. Len(v8) -> ResolvedLine] /\ DOMAIN v8 = 1 .. Len(v8)
    BY <1>0, ImportTypes, SequenceIsFunction
  <2>2. DOMAIN v7 = DOMAIN v8 /\ v7 \in [DOMAIN v8 -> TabLine]
    BY <1>0, <1>2, ImportTypes, SequenceIsFunction DEF ImportInv, Import!ResolvedInTab
  <2>3. Import!Range(v8) = {v8[n] : n \in DOMAIN v8}
    BY DEF Import!Range
  <2>4. /\ Import!Modified = [i \in ids |-> [version |-> Of(i).version, value |-> Of(i).value]]
        /\ \A i : Import!Shown(i) = v7[At(i)].current
    BY <1>2 DEF Import!Modified, Import!Shown
  <2>5. ASSUME NEW i \in ids
        PROVE  /\ i \in RowIds /\ Of(i).version \in Nat /\ Of(i).value \in Import!Tokens
               /\ v7[At(i)].current \in Import!Tokens
               /\ ~v14 => Import!Saw(i, Of(i).version, v7[At(i)].current)
    <3>1. PICK n \in DOMAIN v8 : v8[n].id = i
      BY <2>3
    <3>2. PICK m \in DOMAIN v8 : m = At(i) /\ v8[m].id = i
      BY <3>1
    <3>3. PICK x \in Import!Range(v8) : x = Of(i) /\ x.id = i
      BY <2>3, <3>1
    <3>4. PICK k \in DOMAIN v8 : v8[k] = x
      BY <2>3
    <3>5. i \in RowIds /\ x.version \in Nat /\ x.value \in Import!Tokens /\ v7[m].current \in Import!Tokens
      BY <2>1, <2>2, <3>2, <3>3, <3>4 DEF ResolvedLine, TabLine
    <3>6. ASSUME ~v14
          PROVE  Import!Saw(i, x.version, v7[m].current)
      <4>1. k = m
        BY <1>2, <2>2, <3>2, <3>3, <3>4, <3>6 DEF ImportInv, Import!ResolvedWasSeen
      <4>2. Import!Saw(v8[m].id, v8[m].version, v7[m].current)
        BY <1>2, <2>2, <3>2, <3>6 DEF ImportInv, Import!ResolvedWasSeen
      <4> QED BY <3>2, <3>4, <4>1, <4>2
    <3> QED BY <3>2, <3>3, <3>5, <3>6
  <2> HIDE DEF ids, Of, At
  <2>6. PICK m : m = Import!Modified
    OBVIOUS
  <2>7. DOMAIN m = ids /\ \A i \in ids : m[i] = [version |-> Of(i).version, value |-> Of(i).value]
    BY <2>4, <2>6
  <2>8. \A i \in ids : m[i] \in Import!Versioned /\ m[i].version = Of(i).version
    BY <2>5, <2>7 DEF Import!Versioned
  <2>9. m \in [DOMAIN m -> Import!Versioned]
    BY <2>4, <2>6, <2>7, <2>8
  <2> QED BY <2>4, <2>5, <2>6, <2>7, <2>8, <2>9
<1> QED BY <1>1, <1>2

LEMMA ImportHandleCommit ==
  ASSUME ImportInv, Import!HandleCommit
  PROVE  ImportInv'
<1>0. Import!TypeOK
  BY DEF ImportInv
<1> PICK m : m = Import!Modified
  OBVIOUS
<1> PICK shown : shown = [i \in DOMAIN m |-> Import!Shown(i)]
  OBVIOUS
<1>1. /\ v4 # None /\ v9 = None /\ ~Import!Disabled
      /\ v9' = [new |-> v4.created, modified |-> m, shown |-> shown, answer |-> None]
      /\ v6' = FALSE
      /\ UNCHANGED <<v1, v2, v3, v4, v5, v7, v8, v10, v11, v12, v13, v14, v15>>
  <2>1. /\ v4 # None /\ v9 = None /\ ~Import!Disabled
        /\ v9' = [new |-> v4.created, modified |-> Import!Modified,
                  shown |-> [i \in DOMAIN Import!Modified |-> Import!Shown(i)], answer |-> None]
        /\ v6' = FALSE
        /\ UNCHANGED <<v1, v2, v3, v4, v5, v7, v8, v10, v11, v12, v13, v14, v15>>
    BY DEF Import!HandleCommit, Import!history
  <2> QED BY <2>1
<1>2. /\ DOMAIN m \subseteq RowIds /\ m \in [DOMAIN m -> Import!Versioned]
      /\ shown \in [DOMAIN m -> Import!Tokens]
      /\ \A i \in DOMAIN m : ~v14 => Import!Saw(i, m[i].version, shown[i])
  BY <1>1, ImportModified
<1>3. v9'.new = v4.created /\ v9'.modified = m /\ v9'.shown = shown /\ v9'.answer = None
      /\ v9' = [new |-> v9'.new, modified |-> v9'.modified, shown |-> v9'.shown, answer |-> v9'.answer]
  BY <1>1
<1>4. v4.created \in BOOLEAN /\ DOMAIN shown = DOMAIN m
  BY <1>0, <1>1, <1>2, ImportTypes
<1>5. Import!TypeOK'
  BY <1>0, <1>1, <1>2, <1>3, <1>4 DEF Import!TypeOK, Import!IsOfSome
<1>6. Import!ComparedWasSeen' /\ Import!ConflictsWereSeen' /\ Import!ResolvedInTab' /\ Import!ResolvedWasSeen'
  BY <1>1, <1>3 DEF ImportInv, Import!ComparedWasSeen, Import!ConflictsWereSeen, Import!ResolvedInTab,
     Import!ResolvedWasSeen, Import!WereSeen, Import!Saw, Import!Conflicting
<1>7. Import!CommittedWasSeen'
  BY <1>1, <1>2, <1>3 DEF Import!CommittedWasSeen, Import!Saw
<1>8. Import!OnlySeenIsOverwritten' /\ Import!CreatedIsDone' /\ Import!CreatedOnce'
  <2>1. v5 # <<>>
    BY <1>1 DEF Import!Disabled
  <2>2. v12 <= v15
    BY <1>0, <1>1, <2>1, ImportTypes DEF ImportInv, Import!CreatedIsDone
  <2>3. ~(v12 > v15)
    BY <1>0, <2>2, ImportTypes
  <2> QED BY <1>1, <2>1, <2>2, <2>3 DEF ImportInv, Import!OnlySeenIsOverwritten, Import!CreatedIsDone, Import!CreatedOnce
<1> QED BY <1>5, <1>6, <1>7, <1>8 DEF ImportInv

(* The answer that lists what is outdated *)
LEMMA ImportConflicts ==
  ASSUME Import!TypeOK, v9 # None, NEW ids \in Import!SetToSeqs(Import!Outdated),
         NEW conflicts, conflicts = [n \in DOMAIN ids |-> Import!Conflict(ids[n])]
  PROVE  conflicts \in Seq(ConflictLine) /\ Import!WereSeen(conflicts)
<1>1. Import!Outdated \in SUBSET RowIds /\ Import!Outdated \subseteq DOMAIN v9.modified
  BY ImportTypes DEF Import!Outdated
<1>2. ids \in Seq(Import!Outdated) /\ \A n, m \in DOMAIN ids : ids[n] = ids[m] => n = m
  BY <1>1, ImportListed
<1>3. ids \in [1 .. Len(ids) -> Import!Outdated] /\ Len(ids) \in Nat /\ DOMAIN ids = 1 .. Len(ids)
  BY <1>2, SequenceIsFunction
<1>4. ASSUME NEW n \in 1 .. Len(ids)
      PROVE  /\ conflicts[n] \in ConflictLine
             /\ conflicts[n].id = ids[n] /\ conflicts[n].version = v1[ids[n]].version /\ conflicts[n].current = v1[ids[n]].value
  <2>1. PICK i \in RowIds : i = ids[n] /\ i \in DOMAIN v9.modified
    BY <1>1, <1>3
  <2>2. conflicts[n] = [id |-> i, version |-> v1[i].version, current |-> v1[i].value, imported |-> v9.modified[i].value]
    BY <1>3, <2>1 DEF Import!Conflict
  <2>3. v1[i].version \in Nat /\ v1[i].value \in Import!Tokens /\ v9.modified[i].value \in Import!Tokens
    BY <2>1, ImportTypes DEF Import!Versioned
  <2> QED BY <2>1, <2>2, <2>3 DEF ConflictLine
<1>5. conflicts \in [1 .. Len(ids) -> ConflictLine] /\ DOMAIN conflicts = 1 .. Len(ids)
  BY <1>3, <1>4
<1>6. conflicts \in Seq(ConflictLine)
  BY <1>3, <1>5, FunctionIsSequence
<1>7. ASSUME NEW n \in DOMAIN conflicts
      PROVE  Import!Saw(conflicts[n].id, conflicts[n].version, conflicts[n].current)
  BY <1>4, <1>5 DEF Import!Saw
<1>8. ASSUME NEW n \in DOMAIN conflicts, NEW m \in DOMAIN conflicts, conflicts[n].id = conflicts[m].id
      PROVE  n = m
  BY <1>2, <1>3, <1>4, <1>5, <1>8
<1> QED BY <1>6, <1>7, <1>8 DEF Import!WereSeen

(* What was seen is still, whatever becomes of the rows. *)
LEMMA ImportSeenStays ==
  ASSUME ImportInv, Import!Next, UNCHANGED <<v2, v4, v5, v7, v8, v10, v14>>,
         \/ v9' = v9
         \/ v9 # None /\ v9'.modified = v9.modified /\ v9'.shown = v9.shown /\ v9'.answer \in {<<>>, Undefined}
  PROVE  /\ Import!ComparedWasSeen' /\ Import!ConflictsWereSeen' /\ Import!ResolvedInTab'
         /\ Import!ResolvedWasSeen' /\ Import!CommittedWasSeen'
<1>0. Import!TypeOK
  BY DEF ImportInv
<1>1. /\ v1 \in [RowIds -> Import!Versioned] /\ v1' \in [RowIds -> Import!Versioned]
      /\ \A i \in RowIds : v1'[i] = v1[i] \/ v1'[i].version > v1[i].version
  BY <1>0, ImportRowsStep, ImportTypes
<1>2. ASSUME NEW i \in RowIds, NEW version \in Nat, NEW value, Import!Saw(i, version, value)
      PROVE  Import!Saw(i, version, value)'
  BY <1>1, <1>2, ImportStillSaw
<1>3. Import!ComparedWasSeen'
  <2>1. ASSUME NEW i \in RowIds
        PROVE  v2[i].version <= v1'[i].version
    <3>1. v2[i].version \in Nat /\ v1[i].version \in Nat /\ v1'[i].version \in Nat /\ v2[i].version <= v1[i].version
      BY <1>0, <1>1, ImportTypes DEF Import!Versioned, ImportInv, Import!ComparedWasSeen
    <3> QED BY <1>1, <3>1
  <2>2. ASSUME v4 # None, NEW i \in DOMAIN v4.updated
        PROVE  Import!Saw(i, v4.updated[i].version, v4.old[i])'
    <3>1. PICK version \in Nat : version = v4.updated[i].version
      BY <1>0, <2>2, ImportTypes DEF Import!Versioned
    <3>2. PICK value : value = v4.old[i]
      OBVIOUS
    <3>3. i \in RowIds /\ Import!Saw(i, version, value)
      BY <1>0, <2>2, <3>1, <3>2, ImportTypes DEF ImportInv, Import!ComparedWasSeen
    <3>4. Import!Saw(i, version, value)'
      BY <1>2, <3>3
    <3> QED BY <3>1, <3>2, <3>4
  <2> QED BY <2>1, <2>2 DEF Import!ComparedWasSeen
<1>4. ASSUME NEW conflicts \in Seq(ConflictLine), Import!WereSeen(conflicts)
      PROVE  Import!WereSeen(conflicts)'
  <2>1. ASSUME NEW n \in DOMAIN conflicts
        PROVE  Import!Saw(conflicts[n].id, conflicts[n].version, conflicts[n].current)'
    <3>1. conflicts[n] \in ConflictLine
      BY SequenceIsFunction
    <3>2. PICK i \in RowIds, version \in Nat, value \in Import!Tokens :
            i = conflicts[n].id /\ version = conflicts[n].version /\ value = conflicts[n].current
      BY <3>1 DEF ConflictLine
    <3>3. Import!Saw(i, version, value)
      BY <1>4, <3>2 DEF Import!WereSeen
    <3>4. Import!Saw(i, version, value)'
      BY <1>2, <3>3
    <3> QED BY <3>2, <3>4
  <2> QED BY <1>4, <2>1 DEF Import!WereSeen
<1>5. Import!ConflictsWereSeen'
  <2>1. ASSUME v5 \notin {None, Undefined}
        PROVE  Import!WereSeen(v5)'
    <3>1. PICK conflicts \in Seq(ConflictLine) : conflicts = v5
      BY <1>0, <2>1, ImportTypes
    <3>2. Import!WereSeen(conflicts)
      BY <2>1, <3>1 DEF ImportInv, Import!ConflictsWereSeen
    <3>3. Import!WereSeen(conflicts)'
      BY <1>4, <3>2
    <3> QED BY <3>1, <3>3
  <2>2. ASSUME v9 # None, v9.answer \notin {None, Undefined}
        PROVE  \E conflicts \in Seq(ConflictLine) : conflicts = v9.answer /\ Import!WereSeen(conflicts)'
    <3>1. PICK conflicts \in Seq(ConflictLine) : conflicts = v9.answer
      BY <1>0, <2>2, ImportTypes
    <3>2. Import!WereSeen(conflicts)
      BY <2>2, <3>1 DEF ImportInv, Import!ConflictsWereSeen
    <3>3. Import!WereSeen(conflicts)'
      BY <1>4, <3>2
    <3> QED BY <3>1, <3>3
  <2>3. CASE v9' = v9
    <3>1. v5' \notin {None, Undefined} => Import!WereSeen(v5)'
      BY <2>1
    <3>2. v9' # None /\ v9'.answer \notin {None, Undefined} => Import!WereSeen(v9.answer)'
      BY <2>2, <2>3
    <3> QED BY <3>1, <3>2 DEF Import!ConflictsWereSeen
  <2>4. CASE v9 # None /\ v9'.answer \in {<<>>, Undefined}
    <3>1. v5' \notin {None, Undefined} => Import!WereSeen(v5)'
      BY <2>1
    <3>2. v9'.answer \notin {None, Undefined} => Import!WereSeen(v9.answer)'
      BY <2>4 DEF Import!WereSeen
    <3> QED BY <3>1, <3>2 DEF Import!ConflictsWereSeen
  <2> QED BY <2>3, <2>4
<1>6. Import!ResolvedInTab'
  BY DEF ImportInv, Import!ResolvedInTab, Import!Conflicting
<1>7. Import!ResolvedWasSeen'
  <2>1. ASSUME ~v14, v8 # <<>>, NEW n \in DOMAIN v7
        PROVE  Import!Saw(v8[n].id, v8[n].version, v7[n].current)'
    <3>1. v8[n] \in ResolvedLine /\ v7[n] \in TabLine
      BY <1>0, <2>1, ImportTypes, SequenceIsFunction DEF ImportInv, Import!ResolvedInTab
    <3>2. PICK i \in RowIds, version \in Nat, value \in Import!Tokens :
            i = v8[n].id /\ version = v8[n].version /\ value = v7[n].current
      BY <3>1 DEF ResolvedLine, TabLine
    <3>3. Import!Saw(i, version, value)
      BY <2>1, <3>2 DEF ImportInv, Import!ResolvedWasSeen
    <3>4. Import!Saw(i, version, value)'
      BY <1>2, <3>3
    <3> QED BY <3>2, <3>4
  <2> QED BY <2>1 DEF ImportInv, Import!ResolvedWasSeen, Import!Conflicting
<1>8. Import!CommittedWasSeen'
  <2>1. ASSUME ~v14, v9 # None, NEW i \in DOMAIN v9.modified
        PROVE  \E version, value : /\ version = v9.modified[i].version /\ value = v9.shown[i]
                                   /\ Import!Saw(i, version, value)'
    <3>1. PICK version \in Nat : version = v9.modified[i].version
      BY <1>0, <2>1, ImportTypes DEF Import!Versioned
    <3>2. PICK value : value = v9.shown[i]
      OBVIOUS
    <3>3. i \in RowIds /\ Import!Saw(i, version, value)
      BY <1>0, <2>1, <3>1, <3>2, ImportTypes DEF ImportInv, Import!CommittedWasSeen
    <3>4. Import!Saw(i, version, value)'
      BY <1>2, <3>3
    <3> QED BY <3>1, <3>2, <3>4
  <2>2. ASSUME ~v14, v9 # None, v9'.modified = v9.modified, v9'.shown = v9.shown, NEW i \in DOMAIN v9'.modified
        PROVE  Import!Saw(i, v9.modified[i].version, v9.shown[i])'
    BY <2>1, <2>2
  <2> QED BY <2>2 DEF Import!CommittedWasSeen
<1> QED BY <1>3, <1>5, <1>6, <1>7, <1>8

LEMMA ImportCommitIs ==
  ASSUME NEW S \in SUBSET RowIds,
         NEW sent \in [new : BOOLEAN, modified : [S -> [version : Nat, value : {"7", "8"}]], shown : [S -> {"7", "8"}],
                       answer : {<<>>, Undefined}]
  PROVE  sent # None
<1>1. None \notin [new : BOOLEAN, modified : [S -> [version : Nat, value : {"7", "8"}]], shown : [S -> {"7", "8"}],
                   answer : {<<>>, Undefined}]
  BY ConstantsAssumption, Zenon
<1> QED BY <1>1

LEMMA ImportServe ==
  ASSUME ImportInv, Import!Serve
  PROVE  ImportInv'
<1>0. Import!TypeOK
  BY DEF ImportInv
<1>1. CASE Import!Outdated = {}
  <2>1. /\ v9 # None /\ v9.answer = None
        /\ \/ v9' = [v9 EXCEPT !.answer = <<>>] /\ v15' = v15
           \/ v9' = [v9 EXCEPT !.answer = Undefined] /\ v15' = v15 + 1
        /\ v12' = IF v9.new THEN v12 + 1 ELSE v12
        /\ v13' = (v13 \/ \E i \in DOMAIN v9.modified : v1[i].value # v9.shown[i])
        /\ UNCHANGED <<v2, v3, v4, v5, v6, v7, v8, v10, v11, v14>>
    BY <1>1 DEF Import!Serve, Import!Untell, Import!modal
  <2>2. /\ v9'.new = v9.new /\ v9'.modified = v9.modified /\ v9'.shown = v9.shown
        /\ \/ v9'.answer = <<>> /\ v15' = v15
           \/ v9'.answer = Undefined /\ v15' = v15 + 1
        /\ v9' = [new |-> v9'.new, modified |-> v9'.modified, shown |-> v9'.shown, answer |-> v9'.answer]
    BY <1>0, <2>1, ImportTypes
  <2>3. v1' \in [RowIds -> Import!Versioned] /\ Import!Next
    BY <1>0, ImportRowsStep DEF Import!Next
  <2>4. v12' \in Nat /\ v15' \in Nat
    BY <1>0, <2>1, ImportTypes
  <2>5. Import!TypeOK'
    <3>1. v9'.answer = Undefined \/ v9'.answer \in Import!Conflicts
      <4>1. <<>> \in Import!Conflicts
        BY DEF Import!Conflicts
      <4> QED BY <2>2, <4>1
    <3> QED BY <1>0, <2>1, <2>2, <2>3, <2>4, <3>1 DEF Import!TypeOK, Import!IsOfSome
  <2>6. /\ Import!ComparedWasSeen' /\ Import!ConflictsWereSeen' /\ Import!ResolvedInTab'
        /\ Import!ResolvedWasSeen' /\ Import!CommittedWasSeen'
    BY <2>1, <2>2, <2>3, ImportSeenStays
  <2>7. Import!OnlySeenIsOverwritten'
    <3>1. ASSUME ~v14, NEW i \in DOMAIN v9.modified
          PROVE  v1[i].value = v9.shown[i]
      <4>1. /\ i \in RowIds /\ v9.modified[i].version \in Nat /\ v1[i].version \in Nat
            /\ Import!Saw(i, v9.modified[i].version, v9.shown[i])
        BY <1>0, <2>1, <3>1, ImportTypes DEF ImportInv, Import!CommittedWasSeen, Import!Versioned
      <4>2. v9.modified[i].version \in {None, v1[i].version}
        BY <1>1 DEF Import!Outdated
      <4>3. None \notin Nat
        BY ConstantsAssumption
      <4>4. v9.modified[i].version = v1[i].version
        BY <4>1, <4>2, <4>3
      <4> QED BY <4>1, <4>4 DEF Import!Saw
    <3> QED BY <2>1, <3>1 DEF ImportInv, Import!OnlySeenIsOverwritten
  <2>8. Import!CreatedIsDone' /\ Import!CreatedOnce'
    <3>1. v9' # None
      <4>1. PICK S \in SUBSET RowIds : S = DOMAIN v9.modified
        BY <1>0, <2>1, ImportTypes
      <4>2. /\ v9.new \in BOOLEAN /\ v9.modified \in [S -> [version : Nat, value : {"7", "8"}]]
            /\ v9.shown \in [S -> {"7", "8"}]
        BY <1>0, <2>1, <4>1, ImportTypes, ImportTokens DEF Import!Versioned
      <4>3. v9' \in [new : BOOLEAN, modified : [S -> [version : Nat, value : {"7", "8"}]], shown : [S -> {"7", "8"}],
                    answer : {<<>>, Undefined}]
        BY <2>2, <4>2
      <4> QED BY <4>3, ImportCommitIs
    <3>2. v12 <= v15 /\ v5 # <<>>
      BY <2>1, ConstantsAssumption DEF ImportInv, Import!CreatedIsDone
    <3>3. v12 \in Nat /\ v15 \in Nat
      BY <1>0, ImportTypes
    <3>4. v12' <= 1 + v15 /\ v5' = v5
      BY <2>1, <3>2, <3>3
    <3> QED BY <2>2, <2>4, <3>1, <3>2, <3>3, <3>4 DEF Import!CreatedIsDone, Import!CreatedOnce
  <2> QED BY <2>5, <2>6, <2>7, <2>8 DEF ImportInv
<1>2. CASE Import!Outdated # {}
  <2>1. PICK ids \in Import!SetToSeqs(Import!Outdated) :
          v9' = [v9 EXCEPT !.answer = [n \in DOMAIN ids |-> Import!Conflict(ids[n])]]
    BY <1>2 DEF Import!Serve
  <2>2. /\ v9 # None /\ v9.answer = None
        /\ UNCHANGED <<v1, v2, v3, v4, v5, v6, v7, v8, v10, v11, v12, v13, v14, v15>>
    BY <1>2 DEF Import!Serve, Import!modal
  <2>3. PICK conflicts : conflicts = [n \in DOMAIN ids |-> Import!Conflict(ids[n])]
    OBVIOUS
  <2>4. conflicts \in Seq(ConflictLine) /\ Import!WereSeen(conflicts)
    BY <1>0, <2>2, <2>3, ImportConflicts
  <2>5. /\ v9'.new = v9.new /\ v9'.modified = v9.modified /\ v9'.shown = v9.shown /\ v9'.answer = conflicts
        /\ v9' = [new |-> v9'.new, modified |-> v9'.modified, shown |-> v9'.shown, answer |-> v9'.answer]
    BY <1>0, <2>1, <2>2, <2>3, ImportTypes
  <2>6. Import!TypeOK'
    BY <1>0, <2>2, <2>4, <2>5 DEF Import!TypeOK, Import!IsOfSome, Import!Conflicts, ConflictLine
  <2>7. Import!ConflictsWereSeen'
    BY <2>2, <2>4, <2>5 DEF ImportInv, Import!ConflictsWereSeen, Import!WereSeen, Import!Saw
  <2>8. Import!ComparedWasSeen' /\ Import!ResolvedInTab' /\ Import!ResolvedWasSeen' /\ Import!CommittedWasSeen'
    BY <2>2, <2>5 DEF ImportInv, Import!ComparedWasSeen, Import!ResolvedInTab, Import!CommittedWasSeen,
       Import!ResolvedWasSeen, Import!Saw, Import!Conflicting
  <2>9. Import!OnlySeenIsOverwritten' /\ Import!CreatedIsDone' /\ Import!CreatedOnce'
    <3>1. v12 <= v15 /\ v5 # <<>>
      BY <2>2, ConstantsAssumption DEF ImportInv, Import!CreatedIsDone
    <3>2. ~(v12 > v15)
      BY <1>0, <3>1, ImportTypes
    <3> QED BY <2>2, <3>1, <3>2 DEF ImportInv, Import!OnlySeenIsOverwritten, Import!CreatedIsDone, Import!CreatedOnce
  <2> QED BY <2>6, <2>7, <2>8, <2>9 DEF ImportInv
<1> QED BY <1>1, <1>2

LEMMA ImportAnswered ==
  ASSUME ImportInv, Import!Answered
  PROVE  ImportInv'
<1>0. Import!TypeOK
  BY DEF ImportInv
<1>1. PICK answer : answer = v9.answer /\ v9 # None /\ v9.answer # None
  BY DEF Import!Answered
<1>2. PICK mounted : mounted = IF v7 = None THEN Import!Initial(answer) ELSE v7
  OBVIOUS
<1>3. /\ v5' = answer /\ v9' = None
      /\ UNCHANGED <<v1, v2, v3, v4, v6, v11, v12, v13, v15>>
      /\ IF v4 # None /\ Import!Conflicting(answer)
         THEN /\ v7' = mounted
              /\ v10' = (v10 \/ Len(mounted) > Len(answer))
              /\ v8' = IF Len(mounted) > Len(answer) THEN v8 ELSE Import!Resolutions(mounted, answer)
              /\ v14' = (v14 \/ v7 \notin {None, <<>>})
         ELSE UNCHANGED <<v7, v8, v10, v14>>
  BY <1>1, <1>2 DEF Import!Answered
<1>4. answer = Undefined \/ (answer \in Seq(ConflictLine) /\ Import!WereSeen(answer))
  BY <1>0, <1>1, ImportTypes DEF ImportInv, Import!ConflictsWereSeen
<1>5. Import!ComparedWasSeen' /\ Import!CommittedWasSeen' /\ Import!OnlySeenIsOverwritten'
  BY <1>3 DEF ImportInv, Import!ComparedWasSeen, Import!CommittedWasSeen, Import!Saw, Import!OnlySeenIsOverwritten
<1>6. Import!ConflictsWereSeen'
  BY <1>3, <1>4 DEF Import!ConflictsWereSeen, Import!WereSeen, Import!Saw
<1>7. Import!CreatedIsDone' /\ Import!CreatedOnce'
  BY <1>1, <1>3 DEF ImportInv, Import!CreatedIsDone, Import!CreatedOnce
<1>8. CASE ~(v4 # None /\ Import!Conflicting(answer))
  <2>1. Import!TypeOK'
    BY <1>0, <1>3, <1>4, <1>8 DEF Import!TypeOK, Import!IsOfSome, Import!Conflicts, ConflictLine
  <2> QED BY <1>3, <1>5, <1>6, <1>7, <1>8, <2>1
          DEF ImportInv, Import!ResolvedInTab, Import!ResolvedWasSeen, Import!Saw, Import!Conflicting
<1>9. CASE v4 # None /\ Import!Conflicting(answer)
  <2>1. answer \in Seq(ConflictLine) /\ Import!WereSeen(answer)
    BY <1>4, <1>9 DEF Import!Conflicting
  <2>2. /\ mounted \in Seq(TabLine) /\ Len(mounted) \in Nat /\ Len(answer) \in Nat
        /\ mounted # None
        /\ v7 = None => /\ DOMAIN mounted = DOMAIN answer /\ Len(mounted) = Len(answer)
                        /\ \A n \in DOMAIN answer : mounted[n].current = answer[n].current
        /\ v7 # None => mounted = v7
    BY <1>0, <1>2, <2>1, ImportMounted, ImportMountedIs, ImportTypes, SequenceIsFunction
  <2>3. Len(mounted) <= Len(answer) =>
          /\ Import!Resolutions(mounted, answer) \in Seq(ResolvedLine)
          /\ DOMAIN Import!Resolutions(mounted, answer) = DOMAIN mounted
          /\ \A n \in DOMAIN mounted : /\ Import!Resolutions(mounted, answer)[n].id = answer[n].id
                                       /\ Import!Resolutions(mounted, answer)[n].version = answer[n].version
    BY <2>1, <2>2, ImportResolved
  <2>4. v7' \in Seq(TabLine) /\ v8' \in Seq(ResolvedLine)
    BY <1>0, <1>3, <1>9, <2>2, <2>3, ImportTypes
  <2>5. Import!TypeOK'
    BY <1>0, <1>3, <2>1, <2>4 DEF Import!TypeOK, Import!IsOfSome, Import!Conflicts, TabLine, ResolvedLine, ConflictLine
  <2>6. Import!ResolvedInTab'
    <3>1. CASE Len(mounted) > Len(answer)
      <4>1. v7 # None /\ mounted = v7
        BY <2>2, <3>1
      <4> QED BY <1>3, <1>9, <3>1, <4>1 DEF ImportInv, Import!ResolvedInTab
    <3>2. CASE Len(mounted) <= Len(answer)
      <4>1. v7' = mounted /\ DOMAIN v8' = DOMAIN mounted /\ v5' = answer /\ v4' # None
        BY <1>3, <1>9, <2>2, <2>3, <3>2
      <4> QED BY <2>2, <3>2, <4>1 DEF Import!ResolvedInTab
    <3> QED BY <2>2, <3>1, <3>2
  <2>7. Import!ResolvedWasSeen'
    <3> SUFFICES ASSUME ~v14'
                 PROVE  Import!ResolvedWasSeen'
      BY DEF Import!ResolvedWasSeen
    <3>0. /\ v7' = mounted /\ v14' = (v14 \/ v7 \notin {None, <<>>})
          /\ v8' = IF Len(mounted) > Len(answer) THEN v8 ELSE Import!Resolutions(mounted, answer)
      BY <1>3, <1>9
    <3>1. CASE v7 = None
      <4>1. DOMAIN mounted = DOMAIN answer /\ v8' = Import!Resolutions(mounted, answer) /\ Len(mounted) <= Len(answer)
        BY <2>2, <3>0, <3>1
      <4>2. \A n \in DOMAIN answer : Import!Saw(answer[n].id, answer[n].version, answer[n].current)
        BY <2>1 DEF Import!WereSeen
      <4>3. \A n \in DOMAIN v7' : /\ v8'[n].id = answer[n].id /\ v8'[n].version = answer[n].version
                                  /\ v7'[n].current = answer[n].current
        BY <2>2, <2>3, <3>0, <3>1, <4>1
      <4>4. \A n \in DOMAIN v7' : Import!Saw(v8[n].id, v8[n].version, v7[n].current)'
        BY <1>3, <3>0, <4>1, <4>2, <4>3 DEF Import!Saw
      <4>5. \A n, m \in DOMAIN v7' : v8'[n].id = v8'[m].id => n = m
        BY <2>1, <3>0, <4>1, <4>3 DEF Import!WereSeen
      <4>6. v5' = answer
        BY <1>3
      <4> QED BY <3>0, <4>1, <4>3, <4>4, <4>5, <4>6 DEF Import!ResolvedWasSeen
    <3>2. CASE v7 = <<>> /\ v7 # None
      <4>1. mounted = <<>> /\ Len(mounted) <= Len(answer) /\ Len(mounted) = 0 /\ DOMAIN mounted = {}
        BY <2>2, <3>2
      <4>2. v8' = Import!Resolutions(mounted, answer)
        BY <2>2, <3>0, <4>1
      <4>3. v8' \in Seq(ResolvedLine) /\ DOMAIN v8' = {}
        BY <2>3, <4>1, <4>2
      <4>4. v8' = <<>>
        BY <4>3, SequenceIsFunction
      <4> QED BY <3>0, <4>1, <4>4 DEF Import!ResolvedWasSeen
    <3> QED BY <3>0, <3>1, <3>2
  <2> QED BY <1>5, <1>6, <1>7, <2>5, <2>6, <2>7 DEF ImportInv
<1> QED BY <1>8, <1>9

LEMMA ImportApplyCurrentValue ==
  ASSUME ImportInv, NEW k \in Nat, Import!ApplyCurrentValue(k)
  PROVE  ImportInv'
<1>0. Import!TypeOK
  BY DEF ImportInv
<1>1. /\ ~v10 /\ v4 # None /\ v7 # None /\ k \in DOMAIN v7 /\ Import!Conflicting(v5)
      /\ v7' = [v7 EXCEPT ![k].value = v7[k].current]
      /\ v8' = Import!Resolutions(v7', v5)
      /\ UNCHANGED <<v1, v2, v3, v4, v5, v6, v9, v10, v11, v12, v13, v14, v15>>
  BY DEF Import!ApplyCurrentValue, Import!history
<1>2. /\ v5 \in Seq(ConflictLine) /\ Len(v5) \in Nat
      /\ v7 \in [1 .. Len(v7) -> TabLine] /\ Len(v7) \in Nat /\ DOMAIN v7 = 1 .. Len(v7)
  BY <1>0, <1>1, ImportTypes, SequenceIsFunction DEF Import!Conflicting
<1>3. /\ v7' \in [1 .. Len(v7) -> TabLine] /\ \A n \in DOMAIN v7 : v7'[n].current = v7[n].current
  BY <1>1, <1>2 DEF TabLine
<1>4. v7' \in Seq(TabLine) /\ Len(v7') = Len(v7) /\ DOMAIN v7' = DOMAIN v7
  BY <1>2, <1>3, FunctionIsSequence
<1>5. Len(v7') <= Len(v5)
  BY <1>1, <1>4 DEF ImportInv, Import!ResolvedInTab
<1>6. /\ v8' \in Seq(ResolvedLine) /\ DOMAIN v8' = DOMAIN v7' /\ DOMAIN v7' \subseteq DOMAIN v5
      /\ \A n \in DOMAIN v7' : v8'[n].id = v5[n].id /\ v8'[n].version = v5[n].version
  <2>1. v8' = Import!Resolutions(v7', v5)
    BY <1>1
  <2>2. v5 \in Seq(ConflictLine) /\ v7' \in Seq(TabLine) /\ Len(v7') <= Len(v5)
    BY <1>2, <1>4, <1>5
  <2> QED BY <2>1, <2>2, ImportResolved
<1>7. Import!TypeOK'
  BY <1>0, <1>1, <1>4, <1>6 DEF Import!TypeOK, Import!IsOfSome, Import!Conflicts, TabLine, ResolvedLine, ConflictLine
<1>8. Import!ResolvedInTab'
  <2>1. v7' # None
    BY <1>4, ImportMountedIs
  <2> QED BY <1>1, <1>5, <1>6, <2>1 DEF Import!ResolvedInTab
<1>9. Import!ResolvedWasSeen'
  <2> SUFFICES ASSUME ~v14
               PROVE  /\ DOMAIN v7' = DOMAIN v5
                      /\ \A n \in DOMAIN v7' : v7'[n].current = v5[n].current
                      /\ \A n \in DOMAIN v7' : Import!Saw(v8[n].id, v8[n].version, v7[n].current)'
                      /\ \A n, m \in DOMAIN v7' : v8'[n].id = v8'[m].id => n = m
    BY <1>1 DEF Import!ResolvedWasSeen
  <2>1. DOMAIN v7 = DOMAIN v5 /\ \A n \in DOMAIN v7 : v7[n].current = v5[n].current
    BY <1>1, <1>2 DEF ImportInv, Import!ResolvedWasSeen
  <2>2. Import!WereSeen(v5)
    BY <1>1 DEF ImportInv, Import!ConflictsWereSeen, Import!Conflicting
  <2>3. \A n \in DOMAIN v5 : Import!Saw(v5[n].id, v5[n].version, v5[n].current)
    BY <2>2 DEF Import!WereSeen
  <2>4. \A n \in DOMAIN v7' : Import!Saw(v8[n].id, v8[n].version, v7[n].current)'
    <3>1. \A n \in DOMAIN v7' : /\ v8'[n].id = v5[n].id /\ v8'[n].version = v5[n].version
                                /\ v7'[n].current = v5[n].current
      <4>1. \A n \in DOMAIN v7' : v7'[n].current = v5[n].current
        BY <1>3, <1>4, <2>1
      <4> QED BY <1>6, <4>1
    <3>2. v1' = v1
      BY <1>1
    <3>3. \A n \in DOMAIN v7' : Import!Saw(v5[n].id, v5[n].version, v5[n].current)
      BY <1>4, <2>1, <2>3
    <3>4. \A n \in DOMAIN v7' : Import!Saw(v8'[n].id, v8'[n].version, v7'[n].current)
      BY <3>1, <3>3
    <3> QED BY <3>2, <3>4 DEF Import!Saw
  <2>5. \A n, m \in DOMAIN v7' : v8'[n].id = v8'[m].id => n = m
    BY <1>6, <2>2 DEF Import!WereSeen
  <2> QED BY <1>3, <1>4, <2>1, <2>4, <2>5
<1>10. /\ Import!ComparedWasSeen' /\ Import!CommittedWasSeen' /\ Import!OnlySeenIsOverwritten' /\ Import!ConflictsWereSeen'
       /\ Import!CreatedIsDone' /\ Import!CreatedOnce'
  BY <1>1 DEF ImportInv, Import!ComparedWasSeen, Import!CommittedWasSeen, Import!Saw, Import!OnlySeenIsOverwritten,
     Import!ConflictsWereSeen, Import!WereSeen, Import!CreatedIsDone, Import!CreatedOnce
<1> QED BY <1>7, <1>8, <1>9, <1>10 DEF ImportInv

LEMMA NoMore ==
  ASSUME NEW n \in Nat, NEW m \in Nat, n <= m
  PROVE  ~(n > m) /\ n <= 1 + m
OBVIOUS

(* The steps that neither compare, commit nor answer *)
LEMMA ImportOthers ==
  ASSUME ImportInv,
         \/ Import!Export \/ Import!HandleFileFails \/ Import!Invalid \/ Import!Fails
         \/ Import!OpenConflicts \/ Import!OnCancel
         \/ \E i \in RowIds : Import!OthersChange(i)
  PROVE  ImportInv'
<1>0. Import!TypeOK
  BY DEF ImportInv
<1>1. CASE \E i \in RowIds : Import!OthersChange(i)
  <2>1. /\ UNCHANGED <<v2, v3, v4, v5, v6, v7, v8, v9, v10, v12, v13, v14, v15>>
        /\ Import!Next
    BY <1>1 DEF Import!OthersChange, Import!modal, Import!history, Import!Next
  <2>2. v1' \in [RowIds -> Import!Versioned]
    BY <1>0, <2>1, ImportRowsStep
  <2>3. Import!TypeOK'
    BY <1>0, <2>1, <2>2 DEF Import!TypeOK, Import!IsOfSome
  <2>4. /\ Import!ComparedWasSeen' /\ Import!ConflictsWereSeen' /\ Import!ResolvedInTab'
        /\ Import!ResolvedWasSeen' /\ Import!CommittedWasSeen'
    BY <2>1, ImportSeenStays
  <2> QED BY <2>1, <2>3, <2>4 DEF ImportInv, Import!OnlySeenIsOverwritten, Import!CreatedIsDone, Import!CreatedOnce
<1>2. CASE Import!Export \/ Import!HandleFileFails
  <2>1. v2' \in {v1, v2} /\ UNCHANGED <<v1, v4, v5, v6, v7, v8, v9, v10, v11, v12, v13, v14, v15>>
    BY <1>2 DEF Import!Export, Import!HandleFileFails, Import!modal, Import!history
  <2>2. \A i \in RowIds : v2'[i].version <= v1'[i].version
    BY <1>0, <2>1, ImportTypes DEF ImportInv, Import!ComparedWasSeen, Import!Versioned
  <2>3. Import!TypeOK'
    BY <1>0, <2>1 DEF Import!TypeOK, Import!IsOfSome
  <2> QED BY <2>1, <2>2, <2>3
      DEF ImportInv, Import!ComparedWasSeen, Import!CommittedWasSeen, Import!Saw, Import!OnlySeenIsOverwritten,
          Import!ConflictsWereSeen, Import!WereSeen, Import!CreatedIsDone, Import!CreatedOnce,
          Import!ResolvedInTab, Import!ResolvedWasSeen, Import!Conflicting
<1>3. CASE Import!Invalid \/ Import!Fails
  <2>1. /\ v9 # None /\ v9' = None
        /\ (v9.answer # <<>> /\ v15' = v15) \/ v15' = v15 + 1
        /\ UNCHANGED <<v1, v2, v4, v5, v7, v8, v10, v11, v12, v13, v14>>
    <3>1. CASE Import!Invalid
      BY <3>1, ConstantsAssumption DEF Import!Invalid, Import!history
    <3>2. CASE Import!Fails
      BY <3>2 DEF Import!Fails, Import!Untell, Import!modal
    <3> QED BY <1>3, <3>1, <3>2
  <2>2. v15 \in Nat /\ v15' \in Nat /\ v12 \in Nat
    BY <1>0, <2>1, ImportTypes
  <2>3. Import!TypeOK'
    BY <1>0, <2>1, <2>2 DEF Import!TypeOK, Import!IsOfSome
  <2>4. Import!CreatedIsDone' /\ Import!CreatedOnce'
    <3>1. v12 <= v15'
      BY <2>1, <2>2 DEF ImportInv, Import!CreatedIsDone, Import!CreatedOnce
    <3>2. v12' = v12 /\ v9' = None
      BY <2>1
    <3>3. ~(v12' > v15') /\ v12' <= 1 + v15'
      BY <2>2, <3>1, <3>2, NoMore
    <3> QED BY <3>2, <3>3 DEF Import!CreatedIsDone, Import!CreatedOnce
  <2> QED BY <2>1, <2>3, <2>4
      DEF ImportInv, Import!ComparedWasSeen, Import!CommittedWasSeen, Import!Saw, Import!OnlySeenIsOverwritten,
          Import!ConflictsWereSeen, Import!WereSeen, Import!ResolvedInTab, Import!ResolvedWasSeen, Import!Conflicting
<1>4. CASE Import!OnCancel
  <2>1. /\ v4' = None /\ v5' = None /\ v7' = None /\ v8' = <<>>
        /\ UNCHANGED <<v1, v2, v9, v10, v11, v12, v13, v14, v15>>
    BY <1>4 DEF Import!OnCancel, Import!history
  <2>2. Import!TypeOK'
    BY <1>0, <2>1 DEF Import!TypeOK, Import!IsOfSome
  <2> QED BY <2>1, <2>2, ConstantsAssumption
      DEF ImportInv, Import!ComparedWasSeen, Import!CommittedWasSeen, Import!Saw, Import!OnlySeenIsOverwritten,
          Import!ConflictsWereSeen, Import!WereSeen, Import!CreatedIsDone, Import!CreatedOnce,
          Import!ResolvedInTab, Import!ResolvedWasSeen, Import!Conflicting
<1>5. CASE Import!OpenConflicts
  <2>1. /\ v4 # None /\ ~v10 /\ v5 = Undefined /\ v7 = None /\ v7' = <<>>
        /\ UNCHANGED <<v1, v2, v4, v5, v6, v8, v9, v10, v11, v12, v13, v14, v15>>
    BY <1>5 DEF Import!OpenConflicts, Import!history
  <2>2. v8 = <<>>
    BY <2>1 DEF ImportInv, Import!ResolvedInTab
  <2>3. Import!TypeOK'
    BY <1>0, <2>1 DEF Import!TypeOK, Import!IsOfSome
  <2> QED BY <2>1, <2>2, <2>3
      DEF ImportInv, Import!ComparedWasSeen, Import!CommittedWasSeen, Import!Saw, Import!OnlySeenIsOverwritten,
          Import!ConflictsWereSeen, Import!WereSeen, Import!CreatedIsDone, Import!CreatedOnce,
          Import!ResolvedInTab, Import!ResolvedWasSeen, Import!Conflicting
<1> QED BY <1>1, <1>2, <1>3, <1>4, <1>5

LEMMA ImportInvStep == ImportInv /\ Import!Next => ImportInv'
<1>1. \A k \in 1 .. Import!Cardinality(RowIds) : k \in Nat
  OBVIOUS
<1> QED BY <1>1, ImportHandleFile, ImportHandleCommit, ImportServe, ImportAnswered, ImportApplyCurrentValue, ImportOthers
        DEF Import!Next

(* For any records, any files compared and any changes by others: a value  *)
(* is taken for changed exactly when its author means another, but for     *)
(* text that inference rewords; no commit overwrites a value its user was  *)
(* not shown unless conflicts were listed anew over those being resolved;  *)
(* and new records are created once, and once more for each success that   *)
(* was not told to be without conflicts.                                   *)
(* (useImportExport, ChangesModal, ConflictsTab)                           *)
THEOREM ImportsAreReviewed == Spec => []ImportIsAsReviewed
<1>1. Init => (part = "import" => ImportInv)
  BY ImportInvInit DEF Init
<1>2. (part = "import" => ImportInv) /\ [Next]_<<part, v1, v2, v3, v4, v5, v6, v7, v8, v9, v10, v11, v12, v13, v14, v15>> =>
        (part = "import" => ImportInv)'
  <2> SUFFICES ASSUME part = "import" => ImportInv, part' = "import",
                      [Next]_<<part, v1, v2, v3, v4, v5, v6, v7, v8, v9, v10, v11, v12, v13, v14, v15>>
               PROVE  ImportInv'
    OBVIOUS
  <2>1. CASE ImportStep
    BY <2>1, ImportInvStep DEF ImportStep
  <2>2. CASE UNCHANGED <<part, v1, v2, v3, v4, v5, v6, v7, v8, v9, v10, v11, v12, v13, v14, v15>>
    <3>1. UNCHANGED <<v1, v2, v3, v4, v5, v6, v7, v8, v9, v10, v11, v12, v13, v14, v15>> /\ ImportInv
      BY <2>2
    <3>2. (Import!TypeOK /\ Import!ComparedWasSeen /\ Import!ConflictsWereSeen)'
      BY <3>1 DEF ImportInv, Import!TypeOK, Import!ComparedWasSeen, Import!ConflictsWereSeen, Import!WereSeen, Import!Saw
    <3>3. (Import!ResolvedInTab /\ Import!ResolvedWasSeen)'
      BY <3>1 DEF ImportInv, Import!ResolvedInTab, Import!ResolvedWasSeen, Import!Conflicting, Import!Saw
    <3>4. (Import!CommittedWasSeen /\ Import!OnlySeenIsOverwritten /\ Import!CreatedIsDone /\ Import!CreatedOnce)'
      BY <3>1 DEF ImportInv, Import!CommittedWasSeen, Import!OnlySeenIsOverwritten, Import!CreatedIsDone,
                  Import!CreatedOnce, Import!Saw
    <3> QED BY <3>2, <3>3, <3>4 DEF ImportInv
  <2> QED BY <2>1, <2>2 DEF Next, QueryStep, LogsStep, ApiStep, TableStep, CreationStep, RecordStep,
                              ListStep, SwitchesStep, CheckStep
<1>3. (part = "import" => ImportInv) => ImportIsAsReviewed
  BY ImportOnlyChanges DEF ImportIsAsReviewed, ImportInv
<1> QED BY <1>1, <1>2, <1>3, PTL DEF Spec
-----------------------------------------------------------------------------
(* Query: choice is v1, base v2, keyword v3, columnsState v4 *)

(* Every column that is shown is in a group that is. *)
QueryInv ==
  /\ Query!TypeOK /\ DOMAIN v1 = Query!Searchable /\ DOMAIN v2 = Query!Searchable
  /\ Query!ShownColumnsAreInSight

(* Of a state of columns that nothing shown is hidden in its group *)
InGroups(state) ==
  \A c \in QueryColumns : state[c] # "hidden" => state[QueryParent[c]] # "hidden"

LEMMA QueryInGroups == Query!ShownColumnsAreInSight <=> InGroups(v4)
BY DEF Query!ShownColumnsAreInSight, Query!InSight, Query!Hidden, InGroups

LEMMA QueryColumnsStates ==
  ASSUME NEW S
  PROVE  /\ Query!ColumnsStates(S) \in [QueryColumns -> {"unset", "shown", "hidden"}]
         /\ InGroups(Query!ColumnsStates(S))
<1>1. ASSUME NEW c \in QueryColumns, c \in S \/ Query!Children(c) \cap S # {}
      PROVE  LET p == QueryParent[c] IN p \in S \/ Query!Children(p) \cap S # {}
  BY <1>1, TablesFit DEF Query!ConstantsFit, Query!GroupsFit, Query!Children
<1> QED BY <1>1, TablesFit DEF Query!ConstantsFit, Query!GroupsFit, Query!ColumnsStates, InGroups

LEMMA QueryInvInit == Query!Init => QueryInv
<1> SUFFICES ASSUME Query!Init
             PROVE  QueryInv
  OBVIOUS
<1>1. /\ v4 \in [QueryColumns -> {"unset", "shown", "hidden"}] /\ InGroups(v4)
  <2>1. CASE QueryDefaultColumnState = Undefined
    BY <2>1, TablesFit DEF Query!Init, InGroups, Query!ConstantsFit, Query!GroupsFit
  <2>2. CASE QueryDefaultColumnState # Undefined
    BY <2>2, QueryColumnsStates DEF Query!Init
  <2> QED BY <2>1, <2>2
<1> QED BY <1>1, QueryInGroups DEF Query!Init, QueryInv, Query!TypeOK, Query!NoChoice

(* A column that is ticked brings its group; one that is not takes its columns. *)
LEMMA QueryTicked ==
  ASSUME NEW c \in QueryColumns, NEW show \in BOOLEAN,
         v4 \in [QueryColumns -> {"unset", "shown", "hidden"}], InGroups(v4)
  PROVE  LET state == Query!WithParents(Query!Ticked(c, show))
         IN  state \in [QueryColumns -> {"unset", "shown", "hidden"}] /\ InGroups(state)
<1> DEFINE value == Query!Ticked(c, show)
           state == Query!WithParents(value)
<1>1. value \in [QueryColumns -> {"unset", "shown", "hidden"}]
  BY DEF Query!Ticked
<1> HIDE DEF value
<1>2. state \in [QueryColumns -> {"unset", "shown", "hidden"}]
  BY <1>1 DEF Query!WithParents
<1>3. ASSUME NEW d \in QueryColumns, state[d] # "hidden"
      PROVE  state[QueryParent[d]] # "hidden"
  <2> DEFINE p == QueryParent[d]
  <2>1. p \in QueryColumns /\ QueryParent[p] = p
    BY TablesFit DEF Query!ConstantsFit, Query!GroupsFit
  <2>2. CASE p = d
    BY <1>3, <2>2
  <2>3. CASE p # d /\ value[d] = "shown"
    BY <2>1, <2>3 DEF Query!WithParents, Query!Children
  <2>4. CASE p # d /\ value[d] # "shown"
    <3>1. Query!Children(d) = {}
      BY <2>1, <2>4, TablesFit DEF Query!ConstantsFit, Query!GroupsFit, Query!Children
    <3>2. value[d] = "unset"
      BY <1>1, <1>3, <2>4, <3>1 DEF Query!WithParents
    <3>3. d # c /\ p # c /\ v4[d] = "unset"
      BY <3>2 DEF value, Query!Ticked
    <3>4. v4[p] # "hidden" /\ v4[p] \in {"unset", "shown"}
      BY <2>1, <3>3 DEF InGroups
    <3>5. value[p] = v4[p]
      BY <2>1, <3>3 DEF value, Query!Ticked
    <3> QED BY <2>1, <3>4, <3>5 DEF Query!WithParents
  <2> QED BY <2>2, <2>3, <2>4
<1> QED BY <1>2, <1>3 DEF value, InGroups

LEMMA QueryInvStep == QueryInv /\ Query!Next => QueryInv'
<1> SUFFICES ASSUME QueryInv, Query!Next
             PROVE  QueryInv'
  OBVIOUS
<1>0. /\ Query!TypeOK /\ DOMAIN v1 = Query!Searchable /\ DOMAIN v2 = Query!Searchable /\ InGroups(v4)
  BY QueryInGroups DEF QueryInv
<1>1. ASSUME NEW c \in Query!Searchable, Query!ChooseFilter(c)
      PROVE  QueryInv'
  <2>1. PICK ch \in QueryDropdownChoices[c] : v1' = [v1 EXCEPT ![c] = ch] /\ UNCHANGED <<v2, v3, v4>>
    BY <1>1 DEF Query!ChooseFilter
  <2> QED BY <1>0, <2>1 DEF QueryInv, Query!TypeOK, Query!ShownColumnsAreInSight, Query!InSight, Query!Hidden
<1>2. ASSUME NEW c \in Query!Searchable, Query!ChooseBase(c)
      PROVE  QueryInv'
  <2>1. PICK ch \in QueryPageFilters[c] : v2' = [v2 EXCEPT ![c] = ch] /\ UNCHANGED <<v1, v3, v4>>
    BY <1>2 DEF Query!ChooseBase
  <2> QED BY <1>0, <2>1 DEF QueryInv, Query!TypeOK, Query!ShownColumnsAreInSight, Query!InSight, Query!Hidden
<1>3. CASE Query!Search
  BY <1>0, <1>3 DEF Query!Search, QueryInv, Query!TypeOK, Query!ShownColumnsAreInSight, Query!InSight, Query!Hidden
<1>4. ASSUME v4' \in [QueryColumns -> {"unset", "shown", "hidden"}], InGroups(v4'), UNCHANGED <<v1, v2, v3>>
      PROVE  QueryInv'
  <2>1. Query!ShownColumnsAreInSight'
    BY <1>4 DEF Query!ShownColumnsAreInSight, Query!InSight, Query!Hidden, InGroups
  <2> QED BY <1>0, <1>4, <2>1 DEF QueryInv, Query!TypeOK
<1>5. CASE Query!ChooseColumnsSet
  BY <1>4, <1>5, QueryColumnsStates DEF Query!ChooseColumnsSet
<1>6. ASSUME NEW c \in QueryColumns, Query!OnColumnsChange(c)
      PROVE  QueryInv'
  <2>1. PICK show \in BOOLEAN : v4' = Query!WithParents(Query!Ticked(c, show)) /\ UNCHANGED <<v1, v2, v3>>
    BY <1>6 DEF Query!OnColumnsChange
  <2> QED BY <1>0, <1>4, <2>1, QueryTicked DEF Query!TypeOK
<1> QED BY <1>1, <1>2, <1>3, <1>5, <1>6 DEF Query!Next

LEMMA QueryItems ==
  ASSUME NEW v, NEW s
  PROVE  /\ ~Query!Item(v).list /\ Query!Item(v).items = <<v>>
         /\ Query!List(s).list /\ Query!List(s).items = s
         /\ Query!IsFilterValueSet(Query!List(s))
         /\ v \notin {Undefined, Null, Empty} => Query!IsFilterValueSet(Query!Item(v))
BY DEF Query!Item, Query!List, Query!IsFilterValueSet

(* What a range asks: its bounds are numbers, the open ones ask nothing. *)
LEMMA QueryRange ==
  ASSUME NEW col, NEW ch, Query!RangeFits(col, ch), col.numeric \in BOOLEAN,
         NEW row, row[col.filterField] \in Int \cup {Null},
         NEW x, x = Query!List(<<ch.from, ch.to>>)
  PROVE  /\ ~Query!Ignored(col, x)
         /\ Query!Meets(row, Query!Condition(col, x)) <=> Query!Means(ch, row[col.filterField])
<1> DEFINE v == row[col.filterField]
<1>1. /\ ch.kind = "range" /\ Query!FilterOperator(col) = "between" /\ ~col.uuid
      /\ ch.from \in Int \cup {Undefined} /\ ch.to \in Int \cup {Undefined}
      /\ col.numeric => ch.from \in QueryNumbers \cup {Undefined} /\ ch.to \in QueryNumbers \cup {Undefined}
      /\ v \in Int \cup {Null}
  BY DEF Query!RangeFits
<1>2. x.list /\ x.items = <<ch.from, ch.to>> /\ x.items # <<>> /\ x.items[1] = ch.from /\ x.items[2] = ch.to
      /\ DOMAIN x.items = {1, 2}
  <2>1. x.list /\ x.items = <<ch.from, ch.to>>
    BY QueryItems
  <2>2. DOMAIN <<ch.from, ch.to>> = {1, 2}
    OBVIOUS
  <2> QED BY <2>1, <2>2
<1>3. ~Query!Ignored(col, x)
  <2>1. x \notin {Query!Item(Empty), Query!Item(Undefined)}
    BY <1>2, QueryItems
  <2>2. ASSUME col.numeric, NEW bound \in Query!Bounds(x)
        PROVE  Query!Finite(bound)
    <3>1. PICK n \in QueryNumbers : bound = Query!Item(n)
      BY <1>1, <1>2, <2>2 DEF Query!Bounds
    <3>2. bound.items = <<n>>
      BY <3>1, QueryItems
    <3> QED BY <3>2 DEF Query!Finite
  <2> QED BY <1>1, <1>2, <2>1, <2>2 DEF Query!Ignored
<1>4. Query!Means(ch, v) <=> /\ ch.from # Undefined => v # Null /\ v >= ch.from
                             /\ ch.to # Undefined => v # Null /\ v <= ch.to
  BY <1>1 DEF Query!Means
<1>5. CASE ch.from = Undefined
  <2>1. Query!Condition(col, x) = [field |-> col.filterField, operator |-> "lte", items |-> <<ch.to>>]
    BY <1>1, <1>2, <1>5 DEF Query!Condition
  <2>2. Query!Meets(row, Query!Condition(col, x)) <=> ch.to = Undefined \/ (v # Null /\ v <= ch.to)
    BY <2>1 DEF Query!Meets
  <2> QED BY <1>3, <1>4, <1>5, <2>2
<1>6. CASE ch.from # Undefined /\ ch.to = Undefined
  <2>1. Query!Condition(col, x) = [field |-> col.filterField, operator |-> "gte", items |-> <<ch.from>>]
    BY <1>1, <1>2, <1>6 DEF Query!Condition
  <2>2. Query!Meets(row, Query!Condition(col, x)) <=> v # Null /\ v >= ch.from
    BY <1>6, <2>1 DEF Query!Meets
  <2> QED BY <1>3, <1>4, <1>6, <2>2
<1>7. CASE ch.from # Undefined /\ ch.to # Undefined
  <2>1. Query!Condition(col, x) = [field |-> col.filterField, operator |-> "between", items |-> <<ch.from, ch.to>>]
    BY <1>1, <1>2, <1>7 DEF Query!Condition
  <2>2. Query!Meets(row, Query!Condition(col, x)) <=> v # Null /\ ch.from <= v /\ v <= ch.to
    BY <2>1 DEF Query!Meets
  <2> QED BY <1>1, <1>3, <1>4, <1>7, <2>2
<1> QED BY <1>5, <1>6, <1>7

(* A condition that compares *)
LEMMA QueryCompared ==
  ASSUME NEW row, NEW cond, Query!Compares(cond.operator), NEW value, value \notin {Undefined, Null},
         cond.items = <<value>>
  PROVE  Query!Meets(row, cond) <=> row[cond.field] = value
<1>1. <<value>> # <<Undefined>>
  OBVIOUS
<1>2. \A v : v \in Query!Range(<<value>>) <=> v = value
  BY DEF Query!Range
<1>3. \A v : <<value>> = <<v>> <=> v = value
  OBVIOUS
<1>4. Query!Meets(row, cond) <=>
        row[cond.field] # Null /\ IF cond.operator = "in" THEN row[cond.field] \in Query!Range(<<value>>)
                                  ELSE <<value>> = <<row[cond.field]>>
  <2>1. cond.operator \notin {"between", "gte", "lte", "isNull", "notNull"}
    BY DEF Query!Compares
  <2> QED BY <1>1, <2>1 DEF Query!Meets
<1> QED BY <1>2, <1>3, <1>4

(* What a number asks *)
LEMMA QueryNumber ==
  ASSUME NEW col, NEW ch, Query!NumberFits(col, ch), NEW row,
         col.numeric \in BOOLEAN, col.uuid \in BOOLEAN,
         NEW x, x.items = <<ch.value>>,
         ~(col.uuid /\ (x.list \/ ch.value \notin QueryUuids))
  PROVE  /\ ~Query!Ignored(col, x)
         /\ Query!Meets(row, Query!Condition(col, x)) <=> Query!Means(ch, row[col.filterField])
<1> DEFINE v == row[col.filterField]
<1>1. /\ ch.kind = "number" /\ Query!Compares(Query!FilterOperator(col))
      /\ ch.value # Undefined /\ ch.value # Null /\ ch.value # Empty
      /\ col.numeric => ch.value \in QueryNumbers
  BY DEF Query!NumberFits
<1>2. x.items # <<>> /\ x.items[1] = ch.value
  OBVIOUS
<1>3. ~Query!Ignored(col, x)
  <2>1. x # Query!Item(Empty) /\ x # Query!Item(Undefined)
    <3>1. Query!Item(Empty).items = <<Empty>> /\ Query!Item(Undefined).items = <<Undefined>>
      BY QueryItems
    <3>2. <<ch.value>> # <<Empty>> /\ <<ch.value>> # <<Undefined>>
      BY <1>1
    <3> QED BY <3>1, <3>2
  <2>2. col.numeric => Query!Finite(x)
    <3>1. Len(<<ch.value>>) = 1 /\ <<ch.value>>[1] = ch.value
      OBVIOUS
    <3> QED BY <1>1, <3>1 DEF Query!Finite
  <2>3. Query!FilterOperator(col) # "between"
    BY <1>1 DEF Query!Compares
  <2>4. ~(col.numeric /\ \E bound \in {x} : ~Query!Finite(bound))
    BY <2>2
  <2>5. ~(col.uuid /\ (x.list \/ x.items[1] \notin QueryUuids))
    BY <1>2
  <2> QED BY <2>1, <2>3, <2>4, <2>5 DEF Query!Ignored
<1>4. Query!Condition(col, x) = [field |-> col.filterField, operator |-> Query!FilterOperator(col), items |-> <<ch.value>>]
  <2>1. PICK operator : operator = Query!FilterOperator(col)
    OBVIOUS
  <2>2. operator # "between" /\ operator # "isNull" /\ operator # "notNull"
    BY <1>1, <2>1 DEF Query!Compares
  <2>3. PICK items : items = x.items /\ items = <<ch.value>> /\ items # <<Null>>
    <3>1. <<ch.value>> # <<Null>>
      BY <1>1
    <3> QED BY <1>2, <3>1
  <2>4. Query!Condition(col, x) = [field |-> col.filterField, operator |-> operator, items |-> items]
    BY <2>1, <2>2, <2>3 DEF Query!Condition
  <2> QED BY <2>1, <2>3, <2>4
<1>5. Query!Meets(row, Query!Condition(col, x)) <=> v = ch.value
  BY <1>1, <1>4, QueryCompared
<1>6. Query!Means(ch, v) <=> v = ch.value
  BY <1>1 DEF Query!Means
<1> QED BY <1>3, <1>5, <1>6

(* What the options that are ticked ask *)
LEMMA QueryOptions ==
  ASSUME NEW col, NEW ch, Query!OptionsFit(col, ch), NEW row,
         col.numeric \in BOOLEAN, col.uuid \in BOOLEAN, NEW x, x = Query!List(ch.chosen)
  PROVE  /\ ~Query!Ignored(col, x)
         /\ Query!Meets(row, Query!Condition(col, x)) <=> Query!Means(ch, row[col.filterField])
<1> DEFINE v == row[col.filterField]
<1>1. /\ ch.kind = "options" /\ Query!FilterOperator(col) = "in" /\ ~col.numeric /\ ~col.uuid
      /\ ch.chosen # <<Undefined>>
      /\ Null \in Query!Range(ch.chosen) => ch.chosen = <<Null>>
  BY DEF Query!OptionsFit
<1>2. x.list /\ x.items = ch.chosen
  BY QueryItems
<1>3. ~Query!Ignored(col, x)
  <2>1. x \notin {Query!Item(Empty), Query!Item(Undefined)}
    BY <1>2, QueryItems
  <2> QED BY <1>1, <2>1 DEF Query!Ignored
<1>4. Query!Means(ch, v) <=> v \in Query!Range(ch.chosen)
  BY <1>1 DEF Query!Means
<1>5. CASE ch.chosen = <<Null>>
  <2>1. Query!Condition(col, x) = Query!IsNull(col.filterField)
    BY <1>1, <1>2, <1>5 DEF Query!Condition
  <2>2. Query!Meets(row, Query!IsNull(col.filterField)) <=> v = Null
    BY DEF Query!Meets, Query!IsNull
  <2>3. v \in Query!Range(<<Null>>) <=> v = Null
    BY DEF Query!Range
  <2> QED BY <1>3, <1>4, <1>5, <2>1, <2>2, <2>3
<1>6. CASE ch.chosen # <<Null>>
  <2>1. Query!Condition(col, x) = [field |-> col.filterField, operator |-> "in", items |-> ch.chosen]
    BY <1>1, <1>2, <1>6 DEF Query!Condition
  <2>2. Query!Meets(row, Query!Condition(col, x)) <=> v # Null /\ v \in Query!Range(ch.chosen)
    BY <1>1, <2>1 DEF Query!Meets
  <2> QED BY <1>1, <1>3, <1>4, <1>6, <2>2
<1> QED BY <1>5, <1>6

(* The condition of a column asks what its filter means, or nothing does. *)
LEMMA QueryFilter ==
  ASSUME Query!TypeOK, NEW c \in Query!Searchable, NEW row \in QueryRows
  PROVE  LET col == QuerySearchableColumns[c]
             x == Query!FilterValue(c)
         IN  Query!Ignored(col, x) \/ Query!Meets(row, Query!Condition(col, x)) <=>
               Query!Means(IF v1[c].kind = "none" THEN v2[c] ELSE v1[c], row[col.filterField])
<1> DEFINE col == QuerySearchableColumns[c]
           x == Query!FilterValue(c)
<1>1. col.numeric \in BOOLEAN /\ col.uuid \in BOOLEAN /\ Query!FiltersFit(c)
  BY TablesFit DEF Query!ConstantsFit
<1> DEFINE filter == Query!SelectedKeys(v1[c])
<1>2. /\ v1[c] \in QueryDropdownChoices[c] \cup {Query!NoChoice}
      /\ v2[c] \in QueryPageFilters[c] \cup {Query!NoChoice}
      /\ x = IF Query!IsFilterValueSet(filter) THEN filter ELSE Query!BaseValue(v2[c])
  BY DEF Query!TypeOK, Query!FilterValue
<1> HIDE DEF col, x, filter
<1>3. CASE v1[c] # Query!NoChoice
  <2>1. \/ Query!NumberFits(col, v1[c]) /\ ~col.uuid
        \/ (Query!RangeFits(col, v1[c]) /\ Query!Ordered(col))
        \/ Query!OptionsFit(col, v1[c])
    BY <1>1, <1>2, <1>3 DEF Query!FiltersFit, col
  <2>2. CASE Query!NumberFits(col, v1[c]) /\ ~col.uuid
    <3>1. v1[c].kind = "number"
      BY <2>2 DEF Query!NumberFits
    <3>2. x = Query!List(<<v1[c].value>>)
      BY <1>2, <3>1, QueryItems DEF filter, Query!SelectedKeys
    <3>3. x.items = <<v1[c].value>> /\ ~(col.uuid /\ (x.list \/ v1[c].value \notin QueryUuids))
      BY <2>2, <3>2, QueryItems
    <3> QED BY <1>1, <2>2, <3>1, <3>3, QueryNumber DEF col, x
  <2>3. CASE Query!RangeFits(col, v1[c]) /\ Query!Ordered(col)
    <3>1. v1[c].kind = "range"
      BY <2>3 DEF Query!RangeFits
    <3>2. x = Query!List(<<v1[c].from, v1[c].to>>)
      BY <1>2, <3>1, QueryItems DEF filter, Query!SelectedKeys
    <3>3. row[col.filterField] \in Int \cup {Null}
      BY <2>3 DEF Query!Ordered
    <3> QED BY <1>1, <2>3, <3>1, <3>2, <3>3, QueryRange DEF col, x
  <2>4. CASE Query!OptionsFit(col, v1[c])
    <3>1. v1[c].kind = "options"
      BY <2>4 DEF Query!OptionsFit
    <3>2. x = Query!List(v1[c].chosen)
      BY <1>2, <3>1, QueryItems DEF filter, Query!SelectedKeys
    <3> QED BY <1>1, <2>4, <3>1, <3>2, QueryOptions DEF col, x
  <2> QED BY <2>1, <2>2, <2>3, <2>4
<1>4. CASE v1[c] = Query!NoChoice
  <2>1. v1[c].kind = "none" /\ x = Query!BaseValue(v2[c])
    <3>1. v1[c].kind = "none" /\ filter = Query!Item(Null)
      BY <1>4 DEF Query!NoChoice, Query!SelectedKeys, filter
    <3>2. ~Query!IsFilterValueSet(filter)
      BY <3>1 DEF Query!IsFilterValueSet
    <3> QED BY <1>2, <3>1, <3>2
  <2>2. CASE v2[c] = Query!NoChoice
    <3>1. x = Query!Item(Undefined)
      BY <2>1, <2>2 DEF Query!NoChoice, Query!BaseValue
    <3>2. Query!Ignored(col, x)
      BY <3>1 DEF Query!Ignored
    <3>3. Query!Means(v2[c], row[col.filterField])
      BY <2>2 DEF Query!NoChoice, Query!Means
    <3> QED BY <2>1, <3>2, <3>3 DEF col, x
  <2>3. CASE v2[c] # Query!NoChoice
    <3>1. \/ Query!NumberFits(col, v2[c]) /\ (col.uuid => v2[c].value \in QueryUuids)
          \/ (Query!RangeFits(col, v2[c]) /\ Query!Ordered(col))
      BY <1>1, <1>2, <2>3 DEF Query!FiltersFit, col
    <3>2. CASE Query!NumberFits(col, v2[c]) /\ (col.uuid => v2[c].value \in QueryUuids)
      <4>1. v2[c].kind = "number"
        BY <3>2 DEF Query!NumberFits
      <4>2. x = Query!Item(v2[c].value)
        BY <2>1, <4>1 DEF Query!BaseValue
      <4>3. PICK ch : ch = v2[c] /\ Query!NumberFits(col, ch) /\ x.items = <<ch.value>>
                      /\ ~(col.uuid /\ (x.list \/ ch.value \notin QueryUuids))
        BY <1>1, <3>2, <4>2, QueryItems
      <4>4. /\ ~Query!Ignored(col, x)
            /\ Query!Meets(row, Query!Condition(col, x)) <=> Query!Means(ch, row[col.filterField])
        BY <1>1, <4>3, QueryNumber
      <4> QED BY <2>1, <4>3, <4>4 DEF col, x
    <3>3. CASE Query!RangeFits(col, v2[c]) /\ Query!Ordered(col)
      <4>1. v2[c].kind = "range"
        BY <3>3 DEF Query!RangeFits
      <4>2. x = Query!List(<<v2[c].from, v2[c].to>>)
        BY <2>1, <4>1 DEF Query!BaseValue
      <4>3. row[col.filterField] \in Int \cup {Null}
        BY <3>3 DEF Query!Ordered
      <4> QED BY <1>1, <2>1, <3>3, <4>2, <4>3, QueryRange DEF col, x
    <3> QED BY <3>1, <3>2, <3>3
  <2> QED BY <2>2, <2>3
<1> QED BY <1>3, <1>4

LEMMA QueryFilters ==
  ASSUME NEW row
  PROVE  (\A cond \in Query!Query.filters : Query!Meets(row, cond)) <=>
           \A c \in Query!Searchable :
             LET col == QuerySearchableColumns[c]
                 x == Query!FilterValue(c)
             IN  Query!Ignored(col, x) \/ Query!Meets(row, Query!Condition(col, x))
<1>1. Query!Query.filters = Query!FiltersSearch
  BY DEF Query!Query
<1> QED BY <1>1 DEF Query!FiltersSearch

(* Where a word is looked for. *)
LEMMA QueryWord ==
  ASSUME Query!TypeOK, Query!ShownColumnsAreInSight, NEW row \in QueryRows, NEW word \in Query!Range(v3)
  PROVE  (\E cond \in Query!KeywordSearch(word) : Query!Meets(row, cond)) <=>
           \E c \in Query!Searchable :
             /\ Query!InSight(c) /\ QuerySearchableColumns[c].searchField # Null
             /\ row[QuerySearchableColumns[c].searchField] = word
<1> DEFINE Looked(c) ==
             /\ QuerySearchableColumns[c].searchField # Null
             /\ ~Query!Hidden(c)
             /\ QuerySearchableColumns[c].numeric => Query!Finite(Query!Item(word))
             /\ QuerySearchableColumns[c].uuid => word \in QueryUuids
           Cond(c) == [field |-> QuerySearchableColumns[c].searchField,
                       operator |-> QuerySearchableColumns[c].operator, items |-> <<word>>]
<1>1. v3 \in QueryKeywords /\ word \notin {Undefined, Null}
  <2>1. v3 \in QueryKeywords
    BY DEF Query!TypeOK, Query!Range
  <2> QED BY <2>1, TablesFit DEF Query!ConstantsFit
<1>2. (\E cond \in Query!KeywordSearch(word) : Query!Meets(row, cond)) <=>
        \E c \in Query!Searchable : Looked(c) /\ Query!Meets(row, Cond(c))
  BY DEF Query!KeywordSearch
<1>3. ASSUME NEW c \in Query!Searchable
      PROVE  Looked(c) /\ Query!Meets(row, Cond(c)) <=>
               /\ Query!InSight(c) /\ QuerySearchableColumns[c].searchField # Null
               /\ row[QuerySearchableColumns[c].searchField] = word
  <2> DEFINE col == QuerySearchableColumns[c]
  <2>1. col.numeric \in BOOLEAN /\ col.uuid \in BOOLEAN /\ Query!SearchFits(c) /\ c \in QueryColumns
    BY TablesFit DEF Query!ConstantsFit
  <2>2. Query!InSight(c) <=> ~Query!Hidden(c)
    BY <2>1 DEF Query!ShownColumnsAreInSight, Query!InSight
  <2>3. CASE col.searchField = Null
    BY <2>3
  <2>4. CASE col.searchField # Null
    <3>1. Query!Compares(col.operator)
      BY <2>1, <2>4 DEF Query!SearchFits
    <3>2. Query!Meets(row, Cond(c)) <=> row[col.searchField] = word
      <4>1. Cond(c).operator = col.operator /\ Cond(c).items = <<word>> /\ Cond(c).field = col.searchField
        OBVIOUS
      <4> QED BY <1>1, <3>1, <4>1, QueryCompared
    <3>3. (col.numeric /\ ~Query!Finite(Query!Item(word))) \/ (col.uuid /\ word \notin QueryUuids) =>
            row[col.searchField] # word
      BY <1>1, <2>1, <2>4 DEF Query!SearchFits
    <3> QED BY <2>1, <2>2, <2>4, <3>2, <3>3
  <2> QED BY <2>3, <2>4
<1> QED BY <1>2, <1>3

LEMMA QuerySelects == QueryInv => Query!QuerySelectsWhatIsChosen
<1> SUFFICES ASSUME QueryInv, NEW row \in QueryRows
             PROVE  Query!Selected(row) <=>
                      /\ \A c \in Query!Searchable :
                           Query!Means(IF v1[c].kind = "none" THEN v2[c] ELSE v1[c],
                                       row[QuerySearchableColumns[c].filterField])
                      /\ \A word \in Query!Range(v3) : \E c \in Query!Searchable :
                           /\ Query!InSight(c) /\ QuerySearchableColumns[c].searchField # Null
                           /\ row[QuerySearchableColumns[c].searchField] = word
  BY DEF Query!QuerySelectsWhatIsChosen
<1>0. Query!TypeOK /\ Query!ShownColumnsAreInSight
  BY DEF QueryInv
<1>1. (\A cond \in Query!Query.filters : Query!Meets(row, cond)) <=>
        \A c \in Query!Searchable :
          Query!Means(IF v1[c].kind = "none" THEN v2[c] ELSE v1[c], row[QuerySearchableColumns[c].filterField])
  BY <1>0, QueryFilters, QueryFilter
<1>2. Query!Query.words = {Query!KeywordSearch(word) : word \in Query!Range(v3)}
  BY DEF Query!Query
<1>3. (\A searched \in Query!Query.words : \E cond \in searched : Query!Meets(row, cond)) <=>
        \A word \in Query!Range(v3) : \E cond \in Query!KeywordSearch(word) : Query!Meets(row, cond)
  BY <1>2
<1>4. \A word \in Query!Range(v3) :
        (\E cond \in Query!KeywordSearch(word) : Query!Meets(row, cond)) <=>
          \E c \in Query!Searchable :
            /\ Query!InSight(c) /\ QuerySearchableColumns[c].searchField # Null
            /\ row[QuerySearchableColumns[c].searchField] = word
  BY <1>0, QueryWord
<1> QED BY <1>1, <1>3, <1>4 DEF Query!Selected

(* For any columns, groups of them and sets, and filters that are offered  *)
(* what they take: a table asks for the rows that its filters describe,    *)
(* with each word in a column in sight, and no column shown is in a group  *)
(* that is hidden.                                                         *)
(* (getTableDataQueryParams, tableTools, useColumnsSets)                   *)
THEOREM QueriesAreAsShown == Spec => []QueryIsAsShown
<1>1. Init => (part = "query" => QueryInv)
  BY QueryInvInit DEF Init
<1>2. (part = "query" => QueryInv) /\ [Next]_<<part, v1, v2, v3, v4, v5, v6, v7, v8, v9, v10, v11, v12, v13, v14, v15>> =>
        (part = "query" => QueryInv)'
  <2> SUFFICES ASSUME part = "query" => QueryInv, part' = "query",
                      [Next]_<<part, v1, v2, v3, v4, v5, v6, v7, v8, v9, v10, v11, v12, v13, v14, v15>>
               PROVE  QueryInv'
    OBVIOUS
  <2>1. CASE QueryStep
    BY <2>1, QueryInvStep DEF QueryStep
  <2>2. CASE UNCHANGED <<part, v1, v2, v3, v4, v5, v6, v7, v8, v9, v10, v11, v12, v13, v14, v15>>
    BY <2>2 DEF QueryInv, Query!TypeOK, Query!ShownColumnsAreInSight, Query!InSight, Query!Hidden
  <2> QED BY <2>1, <2>2 DEF Next, TableStep, LogsStep, ApiStep, ImportStep, CreationStep, RecordStep,
                              ListStep, SwitchesStep, CheckStep
<1>3. (part = "query" => QueryInv) => QueryIsAsShown
  BY QuerySelects DEF QueryIsAsShown, QueryInv
<1> QED BY <1>1, <1>2, <1>3, PTL DEF Spec

-----------------------------------------------------------------------------
(* Event logs: choice is v1, base v2, keyword v3, columnsState v4, options *)
(* v5 and clicks v6                                                         *)

(* A row meets a condition here as it does there. *)
LEMMA LogsMeets ==
  ASSUME NEW row, NEW cond
  PROVE  Logs!Table!Meets(row, cond) <=> Query!Meets(row, cond)
BY DEF Logs!Table!Meets, Query!Meets, Logs!Table!Range, Query!Range

LEMMA LogsCondition ==
  ASSUME NEW col, NEW x
  PROVE  Logs!Table!Condition(col, x) = Query!Condition(col, x)
BY DEF Logs!Table!Condition, Query!Condition, Logs!Table!FilterOperator, Query!FilterOperator,
       Logs!Table!IsNull, Query!IsNull, Logs!Table!NotNull, Query!NotNull

LEMMA LogsMeans ==
  ASSUME NEW ch, NEW v
  PROVE  Logs!Table!Means(ch, v) <=> Query!Means(ch, v)
BY DEF Logs!Table!Means, Query!Means, Logs!Table!Range, Query!Range

LEMMA LogsIgnored ==
  ASSUME NEW col, NEW x, col.numeric = FALSE, col.uuid = FALSE, x.list
  PROVE  ~Logs!Table!Ignored(col, x)
BY DEF Logs!Table!Ignored, Logs!Table!Item

Ticked == {"logType", "service", "user", "userRole", "method", "logLevel"}
Numerals == {"duration", "statusCode"}

(* What a column that is searched is like *)
Plain(col) ==
  /\ col.uuid = FALSE /\ col.numeric \in BOOLEAN
  /\ Query!Compares(col.operator)
  /\ col.numeric = TRUE => col.searchField \in Numerals
Options(col) == Query!FilterOperator(col) = "in" /\ col.numeric = FALSE

LEMMA LogsStrings == Undefined \notin {"in", "between"} /\ Null \notin {"in", "between"}
BY LogsFit

LEMMA LogsKinds ==
  ASSUME NEW field
  PROVE  /\ Plain(Logs!Chosen(field)) /\ Options(Logs!Chosen(field))
         /\ Plain(Logs!Text(field))
         /\ Plain(Logs!ChosenOrText(field)) /\ Options(Logs!ChosenOrText(field))
         /\ Plain(Logs!Searched(field, "equals"))
         /\ field \in Numerals => Plain(Logs!Numeric(field))
<1>1. Plain(Logs!Chosen(field)) /\ Options(Logs!Chosen(field))
  BY LogsStrings DEF Plain, Options, Logs!Chosen, Logs!Searched, Query!FilterOperator, Query!Compares
<1>2. Plain(Logs!Text(field))
  BY LogsStrings DEF Plain, Options, Logs!Text, Logs!Searched, Query!FilterOperator, Query!Compares
<1>3. Plain(Logs!ChosenOrText(field)) /\ Options(Logs!ChosenOrText(field))
  BY LogsStrings DEF Plain, Options, Logs!ChosenOrText, Logs!Text, Logs!Searched, Query!FilterOperator, Query!Compares
<1>4. Plain(Logs!Searched(field, "equals"))
  BY LogsStrings DEF Plain, Options, Logs!Searched, Query!FilterOperator, Query!Compares
<1>5. field \in Numerals => Plain(Logs!Numeric(field))
  BY LogsStrings DEF Plain, Options, Logs!Numeric, Logs!Searched, Query!FilterOperator, Query!Compares
<1> QED BY <1>1, <1>2, <1>3, <1>4, <1>5

LEMMA LogsColumns ==
  ASSUME NEW c \in DOMAIN Logs!eventLogsSearchableColumns
  PROVE  LET col == Logs!eventLogsSearchableColumns[c]
         IN  /\ Plain(col)
             /\ c \in Ticked => Options(col)
             /\ c = "createdAt" => /\ Query!FilterOperator(col) = "between" /\ col.numeric = FALSE
                                   /\ col.filterField = "createdAt"
             /\ c \notin Ticked => Logs!Filters(c) = {}
             /\ c \in Logs!Columns
<1> DEFINE columns == Logs!eventLogsSearchableColumns
<1>1. DOMAIN columns = {"logType", "serviceId", "userRole", "method", "logLevel", "service", "user", "externalUserId",
        "action", "entity", "entityId", "url", "ipAddress", "userAgent", "duration", "statusCode", "createdAt"}
  BY DEF Logs!eventLogsSearchableColumns
<1>2. c \in Logs!Columns
  BY <1>1 DEF Logs!Columns
<1>3. c \notin Ticked => Logs!Filters(c) = {}
  BY <1>1 DEF Ticked, Logs!Filters, Logs!WhoColumns, Logs!WhatColumns, Logs!HowColumns
<1>4. CASE c = "createdAt"
  <2>1. columns[c] = [Logs!Chosen("createdAt") EXCEPT !.filterOperator = "between"]
    BY <1>4 DEF Logs!eventLogsSearchableColumns
  <2>2. /\ Plain(columns[c]) /\ Query!FilterOperator(columns[c]) = "between" /\ columns[c].numeric = FALSE
        /\ columns[c].filterField = "createdAt"
    BY <2>1, LogsStrings DEF Plain, Logs!Chosen, Logs!Searched, Query!FilterOperator, Query!Compares
  <2>3. c \notin Ticked
    BY <1>4 DEF Ticked
  <2> QED BY <1>2, <1>3, <2>2, <2>3
<1>5. CASE c \in {"logType", "userRole", "logLevel"}
  <2>1. columns[c] = Logs!Chosen(c)
    BY <1>5 DEF Logs!eventLogsSearchableColumns
  <2> QED BY <1>2, <1>3, <1>5, <2>1, LogsKinds
<1>6. CASE c \in {"method", "service"}
  <2>1. columns[c] = Logs!ChosenOrText(c)
    BY <1>6 DEF Logs!eventLogsSearchableColumns
  <2> QED BY <1>2, <1>3, <1>6, <2>1, LogsKinds
<1>7. CASE c = "user"
  <2>1. columns[c] = [Logs!ChosenOrText("user.name") EXCEPT !.filterField = "user.id"]
    BY <1>7 DEF Logs!eventLogsSearchableColumns
  <2>2. Plain(columns[c]) /\ Options(columns[c])
    BY <2>1, LogsStrings DEF Plain, Options, Logs!ChosenOrText, Logs!Text, Logs!Searched, Query!FilterOperator, Query!Compares
  <2> QED BY <1>2, <1>3, <1>7, <2>2
<1>8. CASE c \in Numerals
  <2>1. columns[c] = Logs!Numeric(c)
    BY <1>8 DEF Logs!eventLogsSearchableColumns, Numerals
  <2>2. c \notin Ticked /\ c # "createdAt"
    BY <1>8 DEF Ticked, Numerals
  <2> QED BY <1>2, <1>3, <1>8, <2>1, <2>2, LogsKinds
<1>9. CASE c \in {"serviceId", "externalUserId", "action", "entity", "entityId", "url", "ipAddress", "userAgent"}
  <2>1. columns[c] = Logs!Text(c) \/ columns[c] = Logs!Searched(c, "equals")
    BY <1>9 DEF Logs!eventLogsSearchableColumns
  <2>2. c \notin Ticked /\ c # "createdAt"
    BY <1>9 DEF Ticked
  <2> QED BY <1>2, <1>3, <2>1, <2>2, LogsKinds
<1> QED BY <1>1, <1>4, <1>5, <1>6, <1>7, <1>8, <1>9 DEF Numerals

(* What is ticked is offered by the dropdown, one value or all of them. *)
LEMMA LogsTicks ==
  ASSUME NEW c \in DOMAIN Logs!eventLogsSearchableColumns, NEW t \in Logs!Ticks(c)
  PROVE  /\ c \in Ticked
         /\ t # <<Undefined>> /\ Null \notin Query!Range(t)
<1> DEFINE F == Logs!Filters(c)
<1>1. c \in Logs!Columns
  BY LogsColumns
<1>2. IsFiniteSet(F) /\ Undefined \notin F /\ Null \notin F
  BY <1>1, LogsFit
<1>3. F # {} /\ \E n \in Nat : t \in [1 .. n -> F]
  <2>1. CASE \E a \in F : t = <<a>>
    <3>1. PICK a \in F : t = <<a>>
      BY <2>1
    <3>2. t \in [1 .. 1 -> F]
      BY <3>1
    <3> QED BY <3>1, <3>2
  <2>2. CASE F # {} /\ t = Logs!SetToSeq(F)
    <3>1. PICK n \in Nat : n = Logs!Cardinality(F) /\ \E f \in [1 .. n -> F] : Logs!IsInjective(f)
      <4>1. Cardinality(F) \in Nat /\ ExistsBijection(1 .. Cardinality(F), F)
        BY <1>2, FS_CardinalityType
      <4>2. \E f \in [1 .. Cardinality(F) -> F] : \A a, b \in DOMAIN f : f[a] = f[b] => a = b
        BY <4>1 DEF ExistsBijection, Bijection, Injection, IsInjective
      <4>3. Logs!Cardinality(F) = Cardinality(F)
        BY DEF Logs!Cardinality, Cardinality
      <4> QED BY <4>1, <4>2, <4>3 DEF Logs!IsInjective
    <3>2. t = CHOOSE f \in [1 .. n -> F] : Logs!IsInjective(f)
      BY <2>2, <3>1 DEF Logs!SetToSeq
    <3>3. t \in [1 .. n -> F]
      BY <3>1, <3>2
    <3> QED BY <2>2, <3>3
  <2> QED BY <2>1, <2>2 DEF Logs!Ticks
<1>4. PICK n \in Nat : t \in [1 .. n -> F]
  BY <1>3
<1>5. Null \notin Query!Range(t)
  BY <1>2, <1>4 DEF Query!Range
<1>6. t # <<Undefined>>
  <2>1. 1 \in DOMAIN <<Undefined>> /\ <<Undefined>>[1] = Undefined
    OBVIOUS
  <2>2. \A i \in DOMAIN t : t[i] # Undefined
    BY <1>2, <1>4
  <2> QED BY <2>1, <2>2
<1>7. c \in Ticked
  BY <1>3, LogsColumns
<1> QED BY <1>5, <1>6, <1>7

(* What was chosen is what is offered. *)
LogsInv ==
  /\ DOMAIN v1 = DOMAIN Logs!eventLogsSearchableColumns /\ DOMAIN v2 = DOMAIN Logs!eventLogsSearchableColumns
  /\ \A c \in DOMAIN Logs!eventLogsSearchableColumns :
       v1[c] \in Logs!DropdownChoices[c] /\ v2[c] \in Logs!PageFilters[c]
  /\ v3 \in LogsKeywords \cup {<<>>}

LEMMA LogsInvInit == Logs!Init => LogsInv
<1> SUFFICES ASSUME Logs!Init
             PROVE  LogsInv
  OBVIOUS
<1>1. /\ v1 = [c \in DOMAIN Logs!eventLogsSearchableColumns |-> [kind |-> "none"]]
      /\ v2 = v1 /\ v3 = <<>>
  BY DEF Logs!Init, Logs!Table!Init, Logs!Table!Searchable, Logs!Table!NoChoice
<1>2. ASSUME NEW c \in DOMAIN Logs!eventLogsSearchableColumns
      PROVE  [kind |-> "none"] \in Logs!DropdownChoices[c] /\ [kind |-> "none"] \in Logs!PageFilters[c]
  <2>1. Undefined \in {1, 2, Undefined}
    OBVIOUS
  <2>2. [kind |-> "none"] = Logs!BaseFilters(Undefined, Undefined)
    BY DEF Logs!BaseFilters
  <2>3. [kind |-> "none"] \in Logs!PageFilters[c]
    BY <2>1, <2>2 DEF Logs!PageFilters
  <2> QED BY <2>3 DEF Logs!DropdownChoices
<1> QED BY <1>1, <1>2 DEF LogsInv

LEMMA LogsInvStep == LogsInv /\ Logs!Next => LogsInv'
<1> SUFFICES ASSUME LogsInv, Logs!Next
             PROVE  LogsInv'
  OBVIOUS
<1>1. ASSUME NEW c \in DOMAIN Logs!eventLogsSearchableColumns, Logs!Filter(c)
      PROVE  LogsInv'
  <2>1. PICK ch \in Logs!DropdownChoices[c] : v1' = [v1 EXCEPT ![c] = ch] /\ UNCHANGED <<v2, v3>>
    BY <1>1 DEF Logs!Filter, Logs!Table!ChooseFilter
  <2> QED BY <2>1 DEF LogsInv
<1>2. CASE Logs!DateRange
  <2>1. PICK ch \in Logs!PageFilters["createdAt"] : v2' = [v2 EXCEPT !["createdAt"] = ch] /\ UNCHANGED <<v1, v3>>
    BY <1>2 DEF Logs!DateRange, Logs!Table!ChooseBase
  <2> QED BY <2>1 DEF LogsInv
<1>3. CASE Logs!Search
  BY <1>3 DEF LogsInv, Logs!Search, Logs!Table!Search
<1>4. CASE UNCHANGED <<v1, v2, v3>>
  BY <1>4 DEF LogsInv
<1> QED BY <1>1, <1>2, <1>3, <1>4
        DEF Logs!Next, Logs!UsersFetched, Logs!ServiceNamesFetched, Logs!query, Logs!ShowOrHide, Logs!SelectSet,
            Logs!Table!OnColumnsChange, Logs!Table!ChooseColumnsSet

LEMMA LogsFilter ==
  ASSUME LogsInv, NEW c \in DOMAIN Logs!eventLogsSearchableColumns, NEW row \in LogsRows
  PROVE  LET col == Logs!eventLogsSearchableColumns[c]
             x == Logs!Table!FilterValue(c)
         IN  Logs!Table!Ignored(col, x) \/ Logs!Table!Meets(row, Logs!Table!Condition(col, x)) <=>
               Logs!Table!Means(IF v1[c].kind = "none" THEN v2[c] ELSE v1[c], row[col.filterField])
<1> DEFINE col == Logs!eventLogsSearchableColumns[c]
           x == Logs!Table!FilterValue(c)
           filter == Logs!Table!SelectedKeys(v1[c])
<1>1. /\ v1[c] \in Logs!DropdownChoices[c] /\ v2[c] \in Logs!PageFilters[c]
      /\ x = IF Logs!Table!IsFilterValueSet(filter) THEN filter ELSE Logs!Table!BaseValue(v2[c])
  BY DEF LogsInv, Logs!Table!FilterValue
<1>2. col.uuid = FALSE /\ col.numeric \in BOOLEAN /\ col.uuid \in BOOLEAN
  BY LogsColumns DEF Plain
<1> HIDE DEF col, x, filter
<1>3. ASSUME NEW ch, NEW y, y = Query!List(ch.chosen) \/ y = Query!List(<<ch.from, ch.to>>), x = y, col.numeric = FALSE,
             ch = IF v1[c].kind = "none" THEN v2[c] ELSE v1[c],
             Query!Meets(row, Query!Condition(col, y)) <=> Query!Means(ch, row[col.filterField])
      PROVE  Logs!Table!Ignored(col, x) \/ Logs!Table!Meets(row, Logs!Table!Condition(col, x)) <=>
               Logs!Table!Means(ch, row[col.filterField])
  <2>1. ~Logs!Table!Ignored(col, x)
    <3>1. y.list
      BY <1>3, QueryItems
    <3> QED BY <1>2, <1>3, <3>1, LogsIgnored
  <2>2. Logs!Table!Condition(col, x) = Query!Condition(col, y)
    BY <1>3, LogsCondition
  <2> QED BY <1>3, <2>1, <2>2, LogsMeets, LogsMeans
<1>4. CASE v1[c] # [kind |-> "none"]
  <2>1. PICK t \in Logs!Ticks(c) : v1[c] = [kind |-> "options", chosen |-> t]
    BY <1>1, <1>4 DEF Logs!DropdownChoices
  <2>2. c \in Ticked /\ t # <<Undefined>> /\ Null \notin Query!Range(t)
    BY LogsTicks
  <2>3. Options(col)
    BY <2>2, LogsColumns DEF col
  <2>4. v1[c].kind = "options" /\ v1[c].chosen = t
    BY <2>1
  <2>5. Query!OptionsFit(col, v1[c])
    BY <1>2, <2>2, <2>3, <2>4 DEF Query!OptionsFit, Options
  <2>6. x = Query!List(v1[c].chosen)
    <3>1. filter = Query!List(v1[c].chosen)
      BY <2>4 DEF filter, Logs!Table!SelectedKeys, Logs!Table!List, Query!List
    <3>2. Logs!Table!IsFilterValueSet(filter)
      BY <3>1 DEF Logs!Table!IsFilterValueSet, Logs!Table!Item, Query!List
    <3> QED BY <1>1, <3>1, <3>2
  <2>7. Query!Meets(row, Query!Condition(col, x)) <=> Query!Means(v1[c], row[col.filterField])
    BY <1>2, <2>5, <2>6, QueryOptions
  <2>8. v1[c] = IF v1[c].kind = "none" THEN v2[c] ELSE v1[c]
    BY <2>4
  <2>9. col.numeric = FALSE
    BY <2>3 DEF Options
  <2> QED BY <1>3, <2>6, <2>7, <2>8, <2>9 DEF col, x
<1>5. CASE v1[c] = [kind |-> "none"]
  <2>1. v1[c].kind = "none" /\ x = Logs!Table!BaseValue(v2[c])
    <3>1. v1[c].kind = "none" /\ filter = Logs!Table!Item(Null)
      BY <1>5 DEF Logs!Table!SelectedKeys, filter
    <3>2. ~Logs!Table!IsFilterValueSet(filter)
      BY <3>1 DEF Logs!Table!IsFilterValueSet
    <3> QED BY <1>1, <3>1, <3>2
  <2>2. CASE v2[c] = [kind |-> "none"]
    <3>1. x = Logs!Table!Item(Undefined)
      BY <2>1, <2>2 DEF Logs!Table!BaseValue
    <3>2. Logs!Table!Ignored(col, x)
      BY <3>1 DEF Logs!Table!Ignored
    <3>3. Logs!Table!Means(v2[c], row[col.filterField])
      BY <2>2 DEF Logs!Table!Means
    <3> QED BY <2>1, <3>2, <3>3 DEF col, x
  <2>3. CASE v2[c] # [kind |-> "none"]
    <3>1. c = "createdAt"
      BY <1>1, <2>3 DEF Logs!PageFilters
    <3>2. PICK from \in Int, to \in Int : v2[c] = [kind |-> "range", from |-> from, to |-> to]
      BY <1>1, <2>3, <3>1 DEF Logs!PageFilters, Logs!BaseFilters
    <3>3. Query!FilterOperator(col) = "between" /\ col.numeric = FALSE /\ col.filterField = "createdAt"
      BY <3>1, LogsColumns DEF col
    <3>4. Query!RangeFits(col, v2[c])
      BY <1>2, <3>2, <3>3 DEF Query!RangeFits
    <3>5. x = Query!List(<<v2[c].from, v2[c].to>>)
      BY <2>1, <3>2 DEF Logs!Table!BaseValue, Logs!Table!List, Query!List
    <3>6. row[col.filterField] \in Int \cup {Null}
      BY <3>3, LogsFit
    <3>7. Query!Meets(row, Query!Condition(col, x)) <=> Query!Means(v2[c], row[col.filterField])
      BY <1>2, <3>4, <3>5, <3>6, QueryRange
    <3>8. v2[c] = IF v1[c].kind = "none" THEN v2[c] ELSE v1[c]
      BY <2>1
    <3> QED BY <1>3, <3>3, <3>5, <3>7, <3>8 DEF col, x
  <2> QED BY <2>2, <2>3
<1> QED BY <1>4, <1>5

LEMMA LogsWord ==
  ASSUME LogsInv, NEW row \in LogsRows, NEW word \in Logs!Table!Range(v3)
  PROVE  (\E cond \in Logs!Table!KeywordSearch(word) : Logs!Table!Meets(row, cond)) <=>
           \E c \in DOMAIN Logs!eventLogsSearchableColumns :
             /\ Logs!Table!InSight(c) /\ Logs!eventLogsSearchableColumns[c].searchField # Null
             /\ row[Logs!eventLogsSearchableColumns[c].searchField] = word
<1> DEFINE column(c) == Logs!eventLogsSearchableColumns[c]
           Looked(c) ==
             /\ column(c).searchField # Null
             /\ ~Logs!Table!Hidden(c)
             /\ column(c).numeric => Logs!Table!Finite(Logs!Table!Item(word))
             /\ column(c).uuid => word \in {}
           Cond(c) == [field |-> column(c).searchField, operator |-> column(c).operator, items |-> <<word>>]
<1>1. word \notin {Undefined, Null}
  <2>1. v3 \in LogsKeywords
    BY DEF LogsInv, Logs!Table!Range
  <2> QED BY <2>1, LogsFit DEF Logs!Table!Range
<1>2. (\E cond \in Logs!Table!KeywordSearch(word) : Logs!Table!Meets(row, cond)) <=>
        \E c \in DOMAIN Logs!eventLogsSearchableColumns : Looked(c) /\ Logs!Table!Meets(row, Cond(c))
  BY DEF Logs!Table!KeywordSearch, Logs!Table!Searchable
<1>3. ASSUME NEW c \in DOMAIN Logs!eventLogsSearchableColumns
      PROVE  Looked(c) /\ Logs!Table!Meets(row, Cond(c)) <=>
               /\ Logs!Table!InSight(c) /\ column(c).searchField # Null
               /\ row[column(c).searchField] = word
  <2> DEFINE col == column(c)
  <2>1. Plain(col) /\ c \in Logs!Columns
    BY LogsColumns
  <2>2. Logs!Table!InSight(c) <=> ~Logs!Table!Hidden(c)
    BY <2>1 DEF Logs!Table!InSight
  <2>3. Logs!Table!Meets(row, Cond(c)) <=> row[col.searchField] = word
    <3>1. Cond(c).operator = col.operator /\ Cond(c).items = <<word>> /\ Cond(c).field = col.searchField
      OBVIOUS
    <3>2. Query!Compares(col.operator)
      BY <2>1 DEF Plain
    <3> QED BY <1>1, <3>1, <3>2, QueryCompared, LogsMeets
  <2>4. ASSUME col.numeric = TRUE, row[col.searchField] = word
        PROVE  Logs!Table!Finite(Logs!Table!Item(word))
    <3>1. word \in {"5", "200"}
      BY <1>1, <2>1, <2>4, LogsFit DEF Plain, Numerals
    <3>2. Logs!Table!Item(word).items = <<word>>
      BY DEF Logs!Table!Item
    <3>3. Len(<<word>>) = 1 /\ <<word>>[1] = word
      OBVIOUS
    <3> QED BY <3>1, <3>2, <3>3 DEF Logs!Table!Finite
  <2> QED BY <2>1, <2>2, <2>3, <2>4 DEF Plain
<1> QED BY <1>2, <1>3

LEMMA LogsSelects == LogsInv => Logs!LogsAreTheChosenOnes
<1> SUFFICES ASSUME LogsInv, NEW row \in LogsRows
             PROVE  Logs!Table!Selected(row) <=>
                      /\ \A c \in DOMAIN Logs!eventLogsSearchableColumns :
                           Logs!Table!Means(IF v1[c].kind = "none" THEN v2[c] ELSE v1[c],
                                            row[Logs!eventLogsSearchableColumns[c].filterField])
                      /\ \A word \in Logs!Table!Range(v3) : \E c \in DOMAIN Logs!eventLogsSearchableColumns :
                           /\ Logs!Table!InSight(c) /\ Logs!eventLogsSearchableColumns[c].searchField # Null
                           /\ row[Logs!eventLogsSearchableColumns[c].searchField] = word
  BY DEF Logs!LogsAreTheChosenOnes, Logs!Table!QuerySelectsWhatIsChosen, Logs!Table!Searchable
<1>1. Logs!Table!Query.filters = Logs!Table!FiltersSearch
      /\ Logs!Table!Query.words = {Logs!Table!KeywordSearch(word) : word \in Logs!Table!Range(v3)}
  BY DEF Logs!Table!Query
<1>2. (\A cond \in Logs!Table!FiltersSearch : Logs!Table!Meets(row, cond)) <=>
        \A c \in DOMAIN Logs!eventLogsSearchableColumns :
          LET col == Logs!eventLogsSearchableColumns[c]
              x == Logs!Table!FilterValue(c)
          IN  Logs!Table!Ignored(col, x) \/ Logs!Table!Meets(row, Logs!Table!Condition(col, x))
  BY DEF Logs!Table!FiltersSearch, Logs!Table!Searchable
<1>3. (\A cond \in Logs!Table!Query.filters : Logs!Table!Meets(row, cond)) <=>
        \A c \in DOMAIN Logs!eventLogsSearchableColumns :
          Logs!Table!Means(IF v1[c].kind = "none" THEN v2[c] ELSE v1[c], row[Logs!eventLogsSearchableColumns[c].filterField])
  BY <1>1, <1>2, LogsFilter
<1>4. (\A searched \in Logs!Table!Query.words : \E cond \in searched : Logs!Table!Meets(row, cond)) <=>
        \A word \in Logs!Table!Range(v3) : \E cond \in Logs!Table!KeywordSearch(word) : Logs!Table!Meets(row, cond)
  BY <1>1
<1> QED BY <1>3, <1>4, LogsWord DEF Logs!Table!Selected

(* For any users, services, event logs and keywords, and however long the  *)
(* table is used: it asks for the logs that were described, with any of    *)
(* the values ticked, in the range of time, and with each word in a column *)
(* in sight.  (useEventLogsColumns with eventLogsSearchableColumns)        *)
THEOREM LogsAreAsShown == Spec => []LogsAreTheChosenOnes
<1>1. Init => (part = "logs" => LogsInv)
  BY LogsInvInit DEF Init
<1>2. (part = "logs" => LogsInv) /\ [Next]_<<part, v1, v2, v3, v4, v5, v6, v7, v8, v9, v10, v11, v12, v13, v14, v15>> =>
        (part = "logs" => LogsInv)'
  <2> SUFFICES ASSUME part = "logs" => LogsInv, part' = "logs",
                      [Next]_<<part, v1, v2, v3, v4, v5, v6, v7, v8, v9, v10, v11, v12, v13, v14, v15>>
               PROVE  LogsInv'
    OBVIOUS
  <2>1. CASE LogsStep
    BY <2>1, LogsInvStep DEF LogsStep
  <2>2. CASE UNCHANGED <<part, v1, v2, v3, v4, v5, v6, v7, v8, v9, v10, v11, v12, v13, v14, v15>>
    BY <2>2 DEF LogsInv
  <2> QED BY <2>1, <2>2 DEF Next, TableStep, QueryStep, ApiStep, ImportStep, CreationStep, RecordStep,
                              ListStep, SwitchesStep, CheckStep
<1>3. (part = "logs" => LogsInv) => LogsAreTheChosenOnes
  BY LogsSelects DEF LogsAreTheChosenOnes
<1> QED BY <1>1, <1>2, <1>3, PTL DEF Spec
=============================================================================
