----------------------------- MODULE MCServices -----------------------------
(* Model-checking instance of the services that keep records, tell of them *)
(* and call others, each by itself: a behaviour is one of the service in   *)
(* part, to which the variables are lent; those it has no use for stay at  *)
(* None.  A constant that is not given to an instance is the one of its    *)
(* name here.                                                              *)
EXTENDS Integers, TLC

CONSTANTS
  Requests,     \* requests of the event logs and of the API tokens
  Callers,      \* requests that change records
  Processes,    \* processes of one service; users or targets of a page
  Owners,       \* users with API tokens
  Users,        \* users of the event logs
  Sockets,      \* sockets of the `/ws` gateway
  RecordIds, Fields, RecordValues,   \* records of the audit trail
  None,
  MaxSaves, MaxWarnings, MaxFaults, MaxSockets, MaxSends, MaxFrames,
  MaxTime, MaxRows, MaxAsked, MaxRuns, MaxTokens, MaxRequests, MaxChanges   \* bounds

ASSUME ConstantsAssumption ==
  /\ {MaxSaves, MaxWarnings, MaxFaults, MaxSockets, MaxSends, MaxFrames,
      MaxTime, MaxRows, MaxAsked, MaxRuns, MaxTokens, MaxRequests, MaxChanges} \subseteq Nat
  /\ MaxTokens > 0   \* a token may be there from the start
  /\ None \notin Requests \cup Users \cup [Fields -> RecordValues]
  /\ None \notin Int /\ \A ids \in SUBSET Processes : ids # None

VARIABLES part, v1, v2, v3, v4, v5, v6, v7, v8, v9, v10

Rest4 == <<v5>>
Rest5 == <<v6>>
Rest6 == <<v7>>
Rest7 == <<v8, v9, v10>>

-----------------------------------------------------------------------------
Logs == INSTANCE EventLogs WITH
  request <- v1, logsStore <- v2, saving <- v3, table <- v4, users <- v5, left <- v6, lost <- v7

Audit == INSTANCE AuditTrail WITH
  rows <- v1, used <- v2, trail <- v3, operation <- v4, overlapped <- v5, halfway <- v6,
  Requests <- Callers, Ids <- RecordIds, Values <- RecordValues

(* Units small enough for a few ticks to reach the week, of four, with its *)
(* day of two. *)
Charts == INSTANCE Timeline WITH
  now <- v1, rows <- v2, page <- v3, range <- v4, pending <- v5, requests <- v6, shown <- v7,
  clicked <- v8, stale <- v9, purged <- v10,
  Units <- <<1, 1, 1, 2, 4>>, targetBars <- 1,
  Zones <- {[before |-> 0, after |-> 0], [before |-> 1, after |-> 2]}, Change <- 2,
  Kept <- 3, Hour <- 2, updateInterval <- 2, DateRanges <- {<<0, 3>>},
  MaxRequests <- MaxAsked

Outbound == INSTANCE OutboundClients WITH
  sockets <- v1, timers <- v2, sends <- v3, wire <- v4, frames <- v5

Uptime == INSTANCE ApiUptime WITH
  now <- v1, rows <- v2, process <- v3, runs <- v4

Settings == INSTANCE Notifications WITH
  stored <- v1, page <- v2, saves <- v3, count <- v4, agrees <- v5, sender <- v6

Cards == INSTANCE StatisticCards WITH
  kind <- v1, updateInterval <- v2, named <- v3, window <- v4, pending <- v5, data <- v6, late <- v7,
  Named <- Processes, MaxWindows <- 3, MaxPending <- 2

Tokens == INSTANCE ApiTokens WITH
  tokens <- v1, issued <- v2, users <- v3, request <- v4, came <- v5, changes <- v6,
  Users <- Owners

Ws == INSTANCE WsAuth WITH
  link <- v1, auth <- v2, clients <- v3, clientsToTerminate <- v4, peer <- v5, heartbeat <- v6, guard <- v7

-----------------------------------------------------------------------------
Init ==
  /\ part \in {"logs", "audit", "charts", "cards", "outbound", "uptime", "settings", "tokens", "sockets"}
  /\ CASE part = "logs"     -> Logs!Init
       [] part = "audit"    -> Audit!Init /\ v7 = None
       [] part = "charts"   -> Charts!Init
       [] part = "cards"    -> Cards!Init
       [] part = "outbound" -> Outbound!Init /\ v6 = None /\ v7 = None
       [] part = "uptime"   -> Uptime!Init /\ v5 = None /\ v6 = None /\ v7 = None
       [] part = "settings" -> Settings!Init /\ v7 = None
       [] part = "tokens"   -> Tokens!Init /\ v7 = None
       [] part = "sockets"  -> Ws!Init
  /\ part # "charts" => v8 = None /\ v9 = None /\ v10 = None

LogsStep     == part = "logs"     /\ Logs!Next     /\ UNCHANGED <<part, Rest7>>
AuditStep    == part = "audit"    /\ Audit!Next    /\ UNCHANGED <<part, Rest6, Rest7>>
ChartsStep   == part = "charts"   /\ Charts!Next   /\ UNCHANGED part
CardsStep    == part = "cards"    /\ Cards!Next    /\ UNCHANGED <<part, Rest7>>
OutboundStep == part = "outbound" /\ Outbound!Next /\ UNCHANGED <<part, Rest5, Rest6, Rest7>>
UptimeStep   == part = "uptime"   /\ Uptime!Next   /\ UNCHANGED <<part, Rest4, Rest5, Rest6, Rest7>>
SettingsStep == part = "settings" /\ Settings!Next /\ UNCHANGED <<part, Rest6, Rest7>>
TokensStep   == part = "tokens"   /\ Tokens!Next   /\ UNCHANGED <<part, Rest6, Rest7>>
SocketsStep  == part = "sockets"  /\ Ws!Next       /\ UNCHANGED <<part, Rest7>>

Next ==
  \/ LogsStep \/ AuditStep \/ ChartsStep \/ CardsStep \/ OutboundStep
  \/ UptimeStep \/ SettingsStep \/ TokensStep \/ SocketsStep

Spec == Init /\ [][Next]_<<part, v1, v2, v3, v4, v5, v6, v7, v8, v9, v10>>

Symmetry ==
  Permutations(Requests) \cup Permutations(Callers) \cup Permutations(Processes) \cup Permutations(Sockets)

-----------------------------------------------------------------------------
(* Properties *)

(* Every request whose answer has to be logged is logged once, by the      *)
(* middleware or the interceptor, with the status and the user it had,     *)
(* unless its row was lost with a failed save or the process.              *)
(* (EventLogsService, its middleware and its interceptor)                  *)
AnswersAreLogged ==
  part = "logs" =>
    Logs!TypeOK /\ Logs!LoggedOnce /\ Logs!EveryAnswerIsLogged /\ Logs!LoggedAsAnswered

(* The audit rows of a record tell how it came to what it is, but for      *)
(* operations that overlapped or ended halfway.  (AuditLogBaseService)     *)
TrailIsTrue == part = "audit" => Audit!TypeOK /\ Audit!TrailTellsHistory /\ Audit!OutcomeIsLogged

(* A chart shows its range, its bars add up to the rows there are, unless  *)
(* they are weeks, which are empty, and the range of a clicked bar holds   *)
(* the rows of the bar; cards that spin wait for an answer.                *)
(* (getTimeline, EventLogsTimeline, charts and cards of the statistics)    *)
ChartsAddUp ==
  /\ part = "charts" => Charts!BarsAddUp /\ Charts!ZoomKeepsRecords /\ Charts!ShownIsOfRange
  /\ part = "cards" => Cards!SpinnerAwaitsAnAnswer

(* An outbound client keeps one connection, and what is sent arrives in    *)
(* order.  (WebsocketsClients)                                             *)
ClientsKeepOrder == part = "outbound" => Outbound!TypeOK /\ Outbound!OneConnection /\ Outbound!SendsAreOrdered

(* A row of uptime tells of no time at which its process did not run.      *)
(* (ApiStatisticService)                                                   *)
UptimeIsOfItsProcess == part = "uptime" => Uptime!TypeOK /\ Uptime!PeriodIsOfItsProcess

(* A message is delivered only when it was allowed while it was on its     *)
(* way, and the switches of the page show what is stored.                  *)
(* (TelegrafService, SettingsService, NotificationsSettings)               *)
NotificationsAsSet ==
  part = "settings" =>
    Settings!TypeOK /\ Settings!DeliveredWasAllowed /\ Settings!SwitchesShowWhatIsStored

(* A request with a token is served only if its user was there and had the *)
(* permissions while it was judged, and nobody changes a token of others.  *)
(* (TokensAuthStrategy, JwtAuthGuard, MyTokensController)                  *)
TokensAreOfTheirUsers == part = "tokens" => Tokens!TypeOK /\ Tokens!ServedWasAllowed /\ Tokens!OwnTokensOnly

(* A connected client whose pong was received since the last check is not  *)
(* terminated by the next one.  (WsAuthService: checkClients, its 'pong'   *)
(* listener)                                                               *)
HeartbeatsAreFair == part = "sockets" => Ws!TypeOK /\ Ws!MarkedAwaitsPong
=============================================================================
