------------------------------ MODULE EventLogs ------------------------------
(***************************************************************************)
(* The audit trail of requests in users-backend: a middleware and an       *)
(* interceptor that log each request, the buffer they log to, and the cron *)
(* job that saves it, next to users who are deleted and a process that     *)
(* ends.                                                                   *)
(*                                                                         *)
(* A request is refused by a guard (or has no route), or reaches its       *)
(* handler.  The rows of one save are inserted together or not at all, and *)
(* event_logs refers to users: a row of a user who is gone is refused.     *)
(***************************************************************************)
EXTENDS Integers, FiniteSets

CONSTANTS
  Requests, Users,
  MaxSaves,    \* bound: cron runs under way at once
  MaxWarnings, MaxFaults,   \* bounds: lines of the logger, failed saves and ends
  None

VARIABLES
  request,     \* what is known of each request
  logsStore,   \* the buffer
  saving,      \* the batches whose saves are awaited
  table,       \* rows of event_logs
  users,       \* users that exist
  left,        \* what remains of each bound
  lost         \* history: rows that a failed save or the end of the process has taken

vars == <<request, logsStore, saving, table, users, left, lost>>

(* What @SkipEventsLog says of a route; "unrouted" requests have none. *)
Routes == {"plain", "skipped", "unrouted"}

Step(r, from, to) == request[r].stage = from /\ request' = [request EXCEPT ![r] = to]
Spend(bound) == left[bound] > 0 /\ left' = [left EXCEPT ![bound] = @ - 1]

-----------------------------------------------------------------------------
(* EventLogsService *)

(* Mutant of Audit: the request is not marked. *)
AuditUnmarked(r, req, by, status) ==
  /\ request' = [request EXCEPT ![r] = req]
  /\ logsStore' =
       IF req.requestHandled THEN logsStore
       ELSE logsStore \cup {[of |-> r, by |-> by, user |-> req.user, status |-> status]}

(* audit of the request req, that was r until then: once. *)
Audit(r, req, by, status) ==
  /\ request' = [request EXCEPT ![r] = [req EXCEPT !.requestHandled = TRUE]]
  /\ logsStore' =
       IF req.requestHandled THEN logsStore
       ELSE logsStore \cup {[of |-> r, by |-> by, user |-> req.user, status |-> status]}

(* warn and error of EventLogsLogger, through applicationLog. *)
ApplicationLog ==
  /\ Spend("warnings")
  /\ logsStore' = logsStore \cup {[of |-> None, by |-> "logger", user |-> None, status |-> None]}
  /\ UNCHANGED <<request, saving, table, users, lost>>

(* Every ten seconds; a run does not wait for the one before. *)
SaveAccumulatedLogs ==
  /\ logsStore # {} /\ Cardinality(saving) < MaxSaves
  /\ saving' = saving \cup {logsStore}
  /\ logsStore' = {}
  /\ UNCHANGED <<request, table, users, left, lost>>

Known(rows) == \A log \in rows : log.user \in users \cup {None}

Saved(rows) ==
  /\ Known(rows)
  /\ table' = table \cup rows
  /\ saving' = saving \ {rows}
  /\ UNCHANGED <<request, logsStore, users, left, lost>>

(* The catch of the save: the rows are gone. *)
SaveFails(rows) ==
  /\ IF Known(rows) THEN Spend("faults") ELSE UNCHANGED left
  /\ lost' = lost \cup rows
  /\ saving' = saving \ {rows}
  /\ UNCHANGED <<request, logsStore, table, users>>

-----------------------------------------------------------------------------
(* EventLogMiddleware and EventLogInterceptor *)

NewRequest == [stage |-> "new", route |-> None, user |-> None, status |-> None,
               requestHandled |-> FALSE, failed |-> FALSE]

(* use: the middleware listens to the end of the answer. *)
Use(r) ==
  /\ \E route \in Routes : Step(r, "new", [NewRequest EXCEPT !.stage = "guards", !.route = route])
  /\ UNCHANGED <<logsStore, saving, table, users, left, lost>>

(* A guard redirects or throws, before or after it has found the user; or  *)
(* no route is found.  The interceptor is never asked.                     *)
Refuse(r) ==
  /\ \E user \in users \cup {None}, status \in {302, 401} :
       /\ request[r].route = "unrouted" => user = None /\ status = 401
       /\ Step(r, "guards", [request[r] EXCEPT !.stage = "answering", !.user = user, !.status = status])
  /\ UNCHANGED <<logsStore, saving, table, users, left, lost>>

Intercept(r) ==
  /\ request[r].route # "unrouted"
  /\ \E user \in users \cup {None} :
       Step(r, "guards", [request[r] EXCEPT !.stage = "handler", !.user = user])
  /\ UNCHANGED <<logsStore, saving, table, users, left, lost>>

Answer(r, status) == [request[r] EXCEPT !.stage = "answering", !.status = status]

(* tap: the handler has returned, and may have set a status of its own. *)
Returned(r) ==
  /\ request[r].stage = "handler"
  /\ \E status \in {200, 302} :
       IF request[r].route = "skipped"
       THEN request' = [request EXCEPT ![r] = Answer(r, status)] /\ UNCHANGED logsStore
       ELSE Audit(r, Answer(r, status), "interceptor", status)
  /\ UNCHANGED <<saving, table, users, left, lost>>

(* Mutant of Thrown: the status of the response, which is set later. *)
ThrownAsReturned(r) ==
  /\ request[r].stage = "handler"
  /\ \E status \in {400, 500} :
       IF request[r].route = "skipped"
       THEN request' = [request EXCEPT ![r] = Answer(r, status)] /\ UNCHANGED logsStore
       ELSE Audit(r, Answer(r, status), "interceptor", 200)
  /\ UNCHANGED <<saving, table, users, left, lost>>

(* catchError: the handler has thrown.  An error without a status is logged*)
(* as 500; that of a query is answered as 400 (TypeOrmExceptionFilter).    *)
Thrown(r) ==
  /\ request[r].stage = "handler"
  /\ \E status \in {400, 500}, query \in BOOLEAN :
       LET req == [Answer(r, status) EXCEPT !.failed = query]
       IN  IF request[r].route = "skipped"
           THEN request' = [request EXCEPT ![r] = req] /\ UNCHANGED logsStore
           ELSE Audit(r, req, "interceptor", IF query THEN 500 ELSE status)
  /\ UNCHANGED <<saving, table, users, left, lost>>

(* The client is gone: the handler was run to its end, and the answer is   *)
(* never finished.                                                         *)
Abort(r) ==
  /\ Step(r, "answering", [request[r] EXCEPT !.stage = "aborted"])
  /\ UNCHANGED <<logsStore, saving, table, users, left, lost>>

(* Mutant of Finish: redirections are fine, too. *)
FinishErrors(r) ==
  /\ request[r].stage = "answering"
  /\ LET req == [request[r] EXCEPT !.stage = "done"]
     IN  IF req.requestHandled \/ req.status \in 200 .. 399
         THEN request' = [request EXCEPT ![r] = req] /\ UNCHANGED logsStore
         ELSE Audit(r, req, "middleware", req.status)
  /\ UNCHANGED <<saving, table, users, left, lost>>

(* The middleware logs what was not logged yet, unless all went well; it   *)
(* knows no skip options.                                                  *)
Finish(r) ==
  /\ request[r].stage = "answering"
  /\ LET req == [request[r] EXCEPT !.stage = "done"]
     IN  IF req.requestHandled \/ req.status \in 200 .. 299
         THEN request' = [request EXCEPT ![r] = req] /\ UNCHANGED logsStore
         ELSE Audit(r, req, "middleware", req.status)
  /\ UNCHANGED <<saving, table, users, left, lost>>

-----------------------------------------------------------------------------
(* Outside *)

(* A user of whom a row is stored cannot be deleted. *)
DeleteUser(u) ==
  /\ u \in users /\ \A log \in table : log.user # u
  /\ users' = users \ {u}
  /\ UNCHANGED <<request, logsStore, saving, table, left, lost>>

(* The process ends and starts anew: nothing is flushed, and a save that is*)
(* under way is stored or not.                                             *)
End ==
  /\ Spend("faults")
  /\ \E done \in SUBSET {rows \in saving : Known(rows)} :
       /\ table' = table \cup UNION done
       /\ lost' = lost \cup logsStore \cup UNION (saving \ done)
  /\ logsStore' = {} /\ saving' = {}
  /\ request' = [r \in Requests |->
       IF request[r].stage \in {"guards", "handler", "answering"} THEN [request[r] EXCEPT !.stage = "aborted"] ELSE request[r]]
  /\ UNCHANGED users

-----------------------------------------------------------------------------
Init ==
  /\ request = [r \in Requests |-> NewRequest]
  /\ logsStore = {} /\ table = {} /\ lost = {}
  /\ saving = {}
  /\ users = Users
  /\ left = [warnings |-> MaxWarnings, faults |-> MaxFaults]

Next ==
  \/ \E r \in Requests :
       Use(r) \/ Refuse(r) \/ Intercept(r) \/ Returned(r) \/ Thrown(r) \/ Abort(r) \/ Finish(r)
  \/ SaveAccumulatedLogs
  \/ \E rows \in saving : Saved(rows) \/ SaveFails(rows)
  \/ \E u \in Users : DeleteUser(u)
  \/ ApplicationLog
  \/ End

Spec == Init /\ [][Next]_vars

-----------------------------------------------------------------------------
(* Properties *)

Statuses == {None, 200, 302, 400, 401, 500}
Request == [stage : {"new", "guards", "handler", "answering", "done", "aborted"},
            route : Routes \cup {None}, user : Users \cup {None}, status : Statuses,
            requestHandled : BOOLEAN, failed : BOOLEAN]
Log == [of : Requests \cup {None}, by : {"logger", "interceptor", "middleware"},
        user : Users \cup {None}, status : Statuses]

TypeOK ==
  /\ request \in [Requests -> Request]
  /\ logsStore \cup table \cup lost \cup UNION saving \subseteq Log
  /\ users \subseteq Users
  /\ left \in [{"warnings", "faults"} -> Nat]

Logs == logsStore \cup table \cup UNION saving
LogsOf(r) == {log \in Logs : log.of = r}

(* A request is logged at most once, though the interceptor and the        *)
(* middleware both look at it and saves overlap.                           *)
(* (requestHandled, saveAccumulatedLogs)                                   *)
LoggedOnce == \A r \in Requests : Cardinality(LogsOf(r)) <= 1

ToBeLogged(r) ==
  /\ request[r].stage = "done"
  /\ request[r].status \notin 200 .. 299 \/ request[r].route # "skipped"

(* A request that was answered leaves a row, whoever answered it and with  *)
(* what; but for routes that are to be skipped, and rows that went down    *)
(* with their batch or with the process.                                   *)
(* (EventLogMiddleware, EventLogInterceptor, saveAccumulatedLogs)          *)
EveryAnswerIsLogged ==
  \A r \in Requests : ToBeLogged(r) => LogsOf(r) # {} \/ \E log \in lost : log.of = r

(* A request is marked as handled when it leaves its row, and is neither   *)
(* before its handler is done; what is not marked when it is answered needs*)
(* no row, or gets one from the middleware.                                *)
NoneIsMissed(req) ==
  /\ req.stage \in {"new", "guards", "handler"} => ~req.requestHandled
  /\ req.stage = "answering" /\ ~req.requestHandled /\ req.status \in 200 .. 299 =>
       req.route = "skipped"
  /\ req.stage = "done" /\ ~req.requestHandled =>
       req.status \in 200 .. 299 /\ req.route = "skipped"

MarkedWithItsRow(r) ==
  /\ request[r].requestHandled <=> \E log \in Logs \cup lost : log.of = r
  /\ \A log, other \in Logs : log.of = r /\ other.of = r => log = other

(* The row tells the status that was sent, and the user it was sent to;    *)
(* but for failed queries, which are logged as 500 and answered as 400.    *)
(* (the tap and catchError of the interceptor, audit)                      *)
LoggedAsAnswered ==
  \A log \in Logs : log.of # None =>
    LET req == request[log.of]
    IN  /\ log.user = req.user
        /\ ~req.failed => log.status = req.status
=============================================================================
