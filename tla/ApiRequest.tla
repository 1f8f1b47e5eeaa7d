----------------------------- MODULE ApiRequest -----------------------------
(***************************************************************************)
(* A call of the generated API client and the pages that hang on it.       *)
(*                                                                         *)
(* request() runs in steps: the headers are awaited, then the fetch, then  *)
(* the body.  Between any two of them the caller may cancel the promise.   *)
(* The flags of CancelablePromise, and not the steps, keep the outcome     *)
(* single: a step that ends late finds the promise settled.                *)
(*                                                                         *)
(* getInitialState loads the user with one call, logout ends the session   *)
(* with another.  Addresses, headers and bodies are left out.              *)
(***************************************************************************)
EXTENDS Naturals, Sequences

CONSTANT MaxLoads   \* bound: calls of getInitialState

VARIABLES
    call,       \* per call: the promise and the step request() is in
    page,       \* the pathname of the history
    state,      \* the user in the initial state: none yet, nobody, user
    loads       \* calls of getInitialState so far

vars == <<call, page, state, loads>>

Calls == {"me", "logout"}
Pages == {"main", "login", "reset"}
Statuses == {200, 204, 401}

\* flag, settled: the promise.  step, status: request().  handlers, aborted:
\* what cancel() reaches.  sent: the fetches
NewCall == [flag |-> "pending", settled |-> <<>>, step |-> "idle", status |-> 0,
            handlers |-> FALSE, aborted |-> FALSE, sent |-> 0]

CallState == [flag : {"pending", "resolved", "rejected", "cancelled"},
              settled : Seq({"value", "nothing", "error", "cancel"}),
              step : {"idle", "headers", "fetching", "reading", "done"}, status : {0} \cup Statuses,
              handlers : BOOLEAN, aborted : BOOLEAN, sent : 0..1]

TypeOK ==
    /\ call \in [Calls -> CallState]
    /\ page \in Pages
    /\ state \in {"none", "nobody", "user"}
    /\ loads \in 0..MaxLoads

-----------------------------------------------------------------------------
(* CancelablePromise *)

OnResolve(r, v) ==
    IF r.flag # "pending" THEN r
    ELSE [r EXCEPT !.flag = "resolved", !.settled = Append(@, v)]

\* Mutant of OnReject: the flag of a cancelled promise is not looked at
OnRejectAnyway(r) ==
    IF r.flag \in {"resolved", "rejected"} THEN r
    ELSE [r EXCEPT !.flag = "rejected", !.settled = Append(@, "error")]

OnReject(r) ==
    IF r.flag # "pending" THEN r
    ELSE [r EXCEPT !.flag = "rejected", !.settled = Append(@, "error")]

OnCancel(r) ==
    IF r.flag # "pending" THEN r ELSE [r EXCEPT !.handlers = TRUE]

Cancel(c) ==
    /\ call[c].step # "idle" /\ call[c].flag = "pending"
    /\ call' = [call EXCEPT ![c].flag = "cancelled",
                            ![c].aborted = call[c].handlers,
                            ![c].handlers = FALSE,
                            ![c].settled = Append(@, "cancel")]
    /\ UNCHANGED <<page, state, loads>>

-----------------------------------------------------------------------------
(* request *)

\* The body may be one that cannot be written as JSON
RequestBody(r) == {[r EXCEPT !.step = "headers"], OnReject([r EXCEPT !.step = "done"])}

Called(c) == \E r \in RequestBody(NewCall) : call' = [call EXCEPT ![c] = r]

SendRequest(r) == [OnCancel(r) EXCEPT !.step = "fetching", !.sent = @ + 1]

\* Mutant of HeadersReady: the fetch is sent although the promise was cancelled
HeadersReadySent(c) ==
    /\ call[c].step = "headers"
    /\ call' = [call EXCEPT ![c] = SendRequest(call[c])]
    /\ UNCHANGED <<page, state, loads>>

HeadersReady(c) ==
    /\ call[c].step = "headers"
    /\ call' = [call EXCEPT ![c] =
                    IF call[c].flag = "cancelled" THEN [@ EXCEPT !.step = "done"]
                    ELSE SendRequest(call[c])]
    /\ UNCHANGED <<page, state, loads>>

\* A resolver of the token or of the headers throws
HeadersFail(c) ==
    /\ call[c].step = "headers"
    /\ call' = [call EXCEPT ![c] = OnReject([@ EXCEPT !.step = "done"])]
    /\ UNCHANGED <<page, state, loads>>

Answered(c, s) ==
    /\ call[c].step = "fetching" /\ ~call[c].aborted
    /\ call' = [call EXCEPT ![c].step = "reading", ![c].status = s]
    /\ UNCHANGED <<page, state, loads>>

\* The network fails, or the fetch is aborted
FetchFails(c) ==
    /\ call[c].step = "fetching"
    /\ call' = [call EXCEPT ![c] = OnReject([@ EXCEPT !.step = "done"])]
    /\ UNCHANGED <<page, state, loads>>

\* An answer without a body, and one whose body cannot be read, give undefined
ResponseBody(r) ==
    CASE r.status = 204 -> {"nothing"}
      [] r.aborted -> {"nothing"}
      [] OTHER -> {"nothing", "value"}

\* Mutant of CaughtErrorCodes: an answer is an error only when it has a body
CaughtErrorCodesWithBody(s, body) == s \notin 200..299 /\ body = "value"

CaughtErrorCodes(s, body) == s \notin 200..299

BodyRead(c) ==
    /\ call[c].step = "reading"
    /\ \E body \in ResponseBody(call[c]) :
        LET r == [call[c] EXCEPT !.step = "done"] IN
        call' = [call EXCEPT ![c] =
            IF CaughtErrorCodes(r.status, body) THEN OnReject(r)
            ELSE OnResolve(r, body)]
    /\ UNCHANGED <<page, state, loads>>

-----------------------------------------------------------------------------
(* getInitialState *)

GoToLogin == page' = "login"

Settled(c, o) == Len(call[c].settled) > 0 /\ call[c].settled[1] \in o

\* The application asks for its state when it starts, and again after a login
GetInitialState(afterLogin) ==
    /\ loads < MaxLoads /\ loads' = loads + 1
    /\ call["me"].step = "idle"
    /\ IF page \in {"login", "reset"} /\ ~afterLogin
       THEN state' = "nobody" /\ UNCHANGED call
       ELSE Called("me") /\ UNCHANGED state
    /\ UNCHANGED page

FetchedUser ==
    /\ Settled("me", {"value"}) /\ call["me"].step = "done"
    /\ state' = "user"
    /\ call' = [call EXCEPT !["me"] = NewCall]
    /\ UNCHANGED <<page, loads>>

\* getInitialState throws and the state stays what it was
NotAuthenticated ==
    /\ Settled("me", {"nothing", "error", "cancel"}) /\ call["me"].step = "done"
    /\ call' = [call EXCEPT !["me"] = NewCall]
    /\ UNCHANGED <<page, state, loads>>

\* The layout calls it when it has rendered and whenever the page changes
OnPageChange ==
    /\ loads > 0 /\ call["me"].step = "idle"
    /\ page # "login" /\ state # "user"
    /\ GoToLogin
    /\ UNCHANGED <<call, state, loads>>

GoToMain ==
    /\ page = "login" /\ state = "user"
    /\ page' = "main"
    /\ UNCHANGED <<call, state, loads>>

Logout ==
    /\ state = "user" /\ call["logout"].step = "idle"
    /\ Called("logout")
    /\ UNCHANGED <<page, state, loads>>

LoggedOut ==
    /\ call["logout"].step = "done" /\ call["logout"].settled # <<>>
    /\ IF Settled("logout", {"value", "nothing"}) THEN GoToLogin ELSE UNCHANGED page
    /\ call' = [call EXCEPT !["logout"] = NewCall]
    /\ UNCHANGED <<state, loads>>

-----------------------------------------------------------------------------
Init ==
    /\ call = [c \in Calls |-> NewCall]
    /\ page \in Pages
    /\ state = "none"
    /\ loads = 0

Step(c) == HeadersReady(c) \/ HeadersFail(c) \/ FetchFails(c) \/ BodyRead(c)

Next ==
    \/ \E c \in Calls : Step(c) \/ Cancel(c)
    \/ \E c \in Calls, s \in Statuses : Answered(c, s)
    \/ \E after \in BOOLEAN : GetInitialState(after)
    \/ FetchedUser \/ NotAuthenticated \/ OnPageChange \/ GoToMain
    \/ Logout \/ LoggedOut

-----------------------------------------------------------------------------
(* Properties *)

\* A promise settles at most once, a cancelled one with CancelError and nothing
\* else, whatever the fetch it aborted brings afterwards
SettlesOnce ==
    \A c \in Calls :
        /\ Len(call[c].settled) <= 1
        /\ call[c].flag = "cancelled" => call[c].settled = <<"cancel">>

\* A fetch that runs for a cancelled promise is one that was aborted: a promise
\* cancelled while its headers were awaited sends nothing afterwards
CancelledIsNotSent ==
    \A c \in Calls : call[c].flag = "cancelled" /\ call[c].step = "fetching" => call[c].aborted

\* What the caller gets as a value was answered with a status of success: an
\* error whose body is empty or cannot be read is still an error to the caller
OnlySuccessResolves ==
    \A c \in Calls : Settled(c, {"value", "nothing"}) => call[c].status \in 200..299

\* A promise has settled as its flag says, whatever step request() is in
SettledAsFlagged(r) ==
    /\ r.flag = "pending" => r.settled = <<>>
    /\ r.flag = "cancelled" => r.settled = <<"cancel">>
    /\ r.flag = "rejected" => r.settled = <<"error">>
    /\ r.flag = "resolved" => r.settled \in {<<"value">>, <<"nothing">>} /\ r.status \in 200..299

\* Only the end of request() settles what was not cancelled, and a fetch can be
\* aborted from when it is sent
FlaggedAtTheEnd(r) ==
    /\ r.step # "done" => r.flag \in {"pending", "cancelled"}
    /\ r.step \in {"idle", "headers"} => r.sent = 0
    /\ r.step = "fetching" => IF r.flag = "pending" THEN r.handlers ELSE r.aborted
=============================================================================
