# boar-pack, modelled in TLA+

This directory holds TLA+ models of the stateful parts of boar-pack, the TLC
configurations that check them on small instances, and proofs that TLAPS checks
for every instance.  Every definition is translated from the source under
`src/packages/`; `PROJECT.json` names the lines each one stands for, the
hazards the properties are aimed at, and the mutants that show each property can fail.

Inside this directory: `tlasany M.tla` parses a module,
`tlc -workers 2 -config X.cfg MCM.tla` runs a configuration,
`tlapm MProofs.tla` checks proofs.

## 1. Inventory

boar-pack is a set of npm packages: three NestJS backends, which an application
composes into one or more Node processes over one PostgreSQL database, and
three React frontends.  Inside a process JavaScript runs one callback at a
time; everything hard happens at an `await`, at a timer or event, between two
processes, or when a process dies.

| Component | State it keeps | Operations | What is hard | Correct when |
|---|---|---|---|---|
| Sessions (`users-backend`: auth, jwt-auth, revoked-tokens) | table of revoked tokens; users; the tokens in clients' hands | login, token, refresh, logout, login-as-user, cleanup | check-then-act over awaited queries, clock and cleanup between them | what was revoked, logged out or deleted is never served again |
| Websocket authentication (`ws-auth`) | map of authenticated clients, clients due for termination, a promise per socket | connect, authenticate, message, ping/pong, terminate | close before authentication answers; pong against the next check | live clients stay, lost ones go, no message waits for ever |
| Cluster supervisor (`common-backend`: cluster) | map of worker processes; restart timers | fork, exit, restart, start, stop | the gap between exit and fork, commands in that gap | each worker runs once, comes back, and stays stopped when stopped |
| Frontend websocket client (`common-frontend`: WebsocketClient) | one socket, one timer, a queue, a status | connect, send, reconnect, close, the socket's events | events of old sockets acting on the new one | one connection, no payload lost or doubled, close is final |
| Outbound clients (`common-backend`: websockets) | socket, configuration and timer of each client | connect, send with timeout, reconnect, close | a new socket nobody is given, listeners of sends that were given up | one connection or timer at a time; messages once and in order |
| Provider monitoring (`liquidity-monitor-backend`) | interval, journal of warnings in memory, problematic periods in the table | check, update periods, notify | overlapping checks with stale ages, lost messages, restarts | periods agree with quotes; silence and recovery are told |
| Quotes and users' connections statistics | counters in memory, rows in tables | increment, save, purge, timelines | overlapping saves, a failed save, timezone cuts | nothing counted twice, losses only by faults, timelines add up |
| API uptime (`liquidity-monitor-backend`: api-statistic) | one row per run of the process | insert, heartbeat, last heartbeat | heartbeats that overtake each other, crashes, several processes of one service | no period reaches beyond its process |
| Event logs (`users-backend`: event-logs) | buffer of logs, table | log by middleware and by interceptor, application log, save, purge, timeline | two places that log, several ways a request ends, a save that fails, days cut in two timezones | one row per request, as it was answered; bars add up |
| Audit logs (`users-backend`: audit-logs) | table of audit rows | create, update and delete with their rows | four awaited queries outside of a transaction | the trail of a record tells its history |
| User administration, CASL | users, permissions, `request.user` | CRUD with guards, seeding, packing of abilities | a decision on a snapshot of the requester, soft deletion | an administrator remains, rights are given by who has them |
| API tokens (`users-backend`: tokens) | tokens and their users | authenticate by token, create, rename, delete | token, user and permission read at one time, used at another | served only while all three were there; nobody changes tokens of others |
| Settings, Telegram (`users-backend`: settings, telegraf) | settings table, settings page | load, switch, save, send | two reads for one message, saves that overlap | a message was allowed while it was sent |
| Frontend table (`common-frontend`: Table) | query, columns in sight, last answer, ticks, dialogs, edits | filter, search, choose columns, tick, bulk change, edit, import | answers out of order, state of different renders, conflicts and retries | what is asked for, changed and imported is what was shown |
| Frontend descriptions, list, forms (`common-frontend`) | record, form, errors, timers, items edited | fetch, edit, save, submit, check a connection | debounces and timers beside submits, saves that fail | what is shown is what is stored, errors are told where they are |
| Users frontend, liquidity monitor frontend | range, data and requests of each chart; permission switches; user of the page | choose, click, refresh, toggle, log in and out | late and failed answers | charts and switches show what they say |
| Generated API client | promise, step, cancellation of each call | call, cancel, settle | a cancel between any two steps | a call settles once, and as answered |

Interactions: the access strategy of Sessions authenticates every HTTP request
and, by way of passport, every socket of the websocket gateway; the monitoring reads Settings and sends
through Telegram; the cluster supervisor forks the processes the other backends
run in, so each of them may be many at once; the frontend client talks to a
gateway like that of `ws-auth`; an API token stands in for a session in front of the same
policies; the pages send their requests through the generated client.  Hashing, exception filters, schedule,
scripts and rendering keep no state worth a model.
`PROJECT.json` lists every component with its status.

## 2. Modules

| Module | Models | Abstract specification / proofs |
|---|---|---|
| `AuthSessions` | sessions | `AuthSessionsProofs` |
| `WsAuth` | websocket authentication and heartbeat; safety in `MCServices`, liveness in `MCWsAuth` | `ServicesProofs` |
| `ClusterSupervisor` | cluster supervisor | `ClusterSupervisorProofs` |
| `WebsocketClient` | frontend websocket client | `WebsocketClientProofs` |
| `ProviderMonitoring` | provider monitoring | `ProviderMonitoringProofs` |
| `Statistics` | both statistics with their timelines | implements `LossyCounters`, `StatisticsProofs` |
| `UserAdministration` | users, seeding, the guards in front of their routes | `UserAdministrationProofs` |
| `OutboundClients` | outbound websocket clients | `ServicesProofs` |
| `ApiUptime` | API uptime statistic | `ServicesProofs` |
| `EventLogs` | event logs: middleware, interceptor, buffer | `ServicesProofs` |
| `AuditTrail` | audit logs | `ServicesProofs` |
| `ApiTokens` | API tokens: guard, strategy, routes | `ServicesProofs` |
| `Notifications` | settings page, settings, Telegram | `ServicesProofs` |
| `Timeline` | the timelines of events and of both statistics, with the query behind them | `ServicesProofs` |
| `StatisticCards` | cards of users' and targets' connections | `ServicesProofs` |
| `TableQuery` | filters, keyword and columns of a table, and the query they make | `FrontendProofs` |
| `EventLogsTable` | the table of event logs, an instance of `TableQuery` | `FrontendProofs` |
| `TableView` | requests, ticks, bulk changes and edits of a table | `FrontendProofs` |
| `ImportChanges` | import of a file, review and commit | `FrontendProofs` |
| `ListView` | editable list | `FrontendProofs` |
| `RecordView` | description of one record | `FrontendProofs` |
| `CreationForm` | form of a new record in tabs | `FrontendProofs` |
| `ConnectionCheck` | `useCheckConnection` | `FrontendProofs` |
| `PermissionSwitches` | permission switches of a user | `FrontendProofs` |
| `ApiRequest` | generated API client, `getInitialState` and the redirects | `FrontendProofs` |

`MCAuthSessions`, `MCWsAuth`, `MCClusterSupervisor`, `MCWebsocketClient`,
`MCProviderMonitoring`, `MCStatistics` and `MCUserAdministration` hold what TLC needs beside a
configuration: symmetry sets, scaled sequences, and, where one run covers two
instances, the variable that tells them apart.

`MCServices` and `MCFrontend` check components that share nothing, several in one run.
Each behaviour is one of the component that `part` names at the start; the module
lends it the variables `v1`, `v2`, ... through `INSTANCE ... WITH`, and every other
variable stays at `None`.  What an instance does not fix is a constant of these modules,
with its value in `Services.cfg` or `Frontend.cfg`.
A property of such a run says `part = "x" => ...` of the properties that the
component's module states and explains; `ServicesProofs` and `FrontendProofs` prove
it for every value of those constants.

Operators named in comments as a
"Mutant of" something are used by no specification; they are the faulty variants
`PROJECT.json` substitutes to see a property fail.

### AuthSessions

A request in flight is a small state machine, `check -> revoke -> lookup ->
handler`, with one step per awaited query of `JWTStrategy.validate`,
`JwtAuthRefreshStrategy.validate` and the controllers, so that any other
request, `CleanupExpiredTokens` and the clock may come between.  `tokens` is
every JWT ever signed, because a client may present any of them at any time;
`revoked` is the table, with its unique `jti` and `ON CONFLICT DO NOTHING`.
Time is finer than a second (`Sec` ticks) because claims are whole seconds and
columns are not.  `dead`, `late` and `spent` are history that no guard reads.
UUIDs are numbered pairs: they never collide.  A request may end at any step,
which stands for failing queries and dying processes.

One thing `RevokedNeverServed` does not claim: a request so slow that its token
expires and is purged between the signature check and the query gets through;
the property says the token is then past its lifetime.

### WsAuth

`link` is the server's end of each socket, `auth` what the promise in
`socketsAuthenticators` holds, `heartbeat` a ping or pong on its way.
Authentication answers in any of three ways (a user, no user, an error of
passport) at any later time, also after the socket has closed.  The peer may
fall silent; then no close event ever comes.  The guard may be run for one
message at a time per socket.

### ClusterSupervisor

`proc` is every process ever forked, with its state (`up`, `listening`, `dead`
before the primary has seen the exit, `gone` after) and the signals sent to it.
Between exit and fork a worker is only in `delayed` (the timer) or `starting`
(the awaited settings), never in the map: that gap is where commands go
wrong.  One registered cluster is modelled, since clusters share nothing.

### WebsocketClient

`sock` is every socket the client ever created and whether it still has the
client's listeners; `current` is `this.socket`; `latest` and `older` are the
pending timers the field `reconnectTimeout` does and does not name.  `orderly`
is chosen at the start: an orderly owner calls `reconnect()` only from its
close handler.  Nothing in the class enforces that, so the properties say which
of the two owners they are about.  `CloseIsFinal` says of an orderly one that from `close()` to
its next `reconnect()` no timer is pending and every socket is closing or closed; `StatusIsCurrent`, that it reads
"open" only on the word of the connection in use.  The owner's open handler may send one
payload; it does nothing else.

### ProviderMonitoring

One check is a record with the progress of its two halves
(`updateProblematicPeriods`, `sendNotifications`), which `Promise.allSettled`
runs side by side, and the ages it has read, which go stale.  The reading of
providers and of their latest quotes is one step.  The journal is in memory and
dies with the process; the open periods do not.  A write or a message may
fail.  Ages saturate just above the largest one the code compares with.

### Statistics and LossyCounters

`memory` holds the counters, `job` the queries under way (two crons or two runs
of one cron may overlap), `table` the totals of the rows by instant.
`Take` hands a buffer to a save and clears it; a failed save may or may not
have stored its rows.  `LossyCounters` is the promise: a count is pending, then
stored once; it is lost only in a step with a fault, and leaves the store only
after a week.  `Statistics` implements it under the mapping pending = memory +
in flight, stored = the rows younger than a week.  Timelines are computed as the
SQL does: `generate_series` from one `startOf` to another, joined on `date_trunc`.  The two are
different weeks, moment's Sunday against Postgres's Monday (`Sunday`), so a weekly bar joins no
row: `TimelineCountsAll` claims the sums for every other unit, and of weeks that they count nothing.
The units of the run are 1, 1, 1, 2 and 4 ticks with one bar wanted, so that its clock reaches the week.
Timezones have a fixed offset; daylight saving is not modelled (see the hazard).

### UserAdministration

`users` is the table, by email, soft-deleted rows included, because the unique
constraint on the email sees them and `count()` does not.  `req` is every request
in flight, over all processes, with `request.user` as it was when the strategy
answered: `PoliciesGuard` and `UsersEditingGuard` read nothing else, so they are
made part of the step that ends the request, which is the same as judging
it at its beginning.  An update is two steps, `FindOne` and `UpdateOne`: the
row it found is laid under the body and saved whole.  `managing` is chosen at
the start: `addPermissionToAction` lets a host give any permission the
management of users, and this repository gives it to none.  `overtaken` and
`raced` are history: a request is overtaken when another changes the table while
it is in flight.

Two administrators who demote each other at once leave none, and an update
overtaken by a deletion brings the user back, since nothing in the code is
transactional here: `AdministratorRemains` and `AdminsMakeAdmins` are claimed
until an overtaken request commits.  `StartsAgain` has the same limit for a
reason worth knowing: once overlapping requests have deleted every user,
the seeding counts none, its insert meets the deleted row, and no process that
runs `UsersModule` starts any more.

### OutboundClients

`sockets` is every socket opened, `timers` the pending reconnections, `sends` each
message with the socket it was meant for, `wire` what arrived.  The host is the one
of the service's tests: it connects one configuration, keeps the socket it was
given, asks for a reconnection only from `onClose`, and sends and closes whenever it
likes.  After a reconnection it cannot reach the new socket, and `close()` never
clears the timer (it looks for a number where Node gives an object), so that a close
is final is claimed nowhere.

### ApiUptime

A heartbeat takes its time first and updates the row later, so two of one process
may overtake each other.  Several processes share the name of a service and the
table.  Inserting the first row takes longer than the clock's resolution; without
that a period could be empty.  A crash before the first heartbeat leaves a row
without an end, of which the property says nothing.

### EventLogs

A request passes guards, handler and the end of its answer, and may be refused,
throw, be redirected or lose its client.  The middleware and the interceptor both
look at it; `requestHandled` keeps its row single.  A batch is saved in one
statement: one row of a deleted user, a failing query or the end of the process
takes all of its rows, which `lost` remembers.  Masking and formatting of bodies are
left out.

### AuditTrail

`AuditLogBaseService` over a CRUD service: read, save, read again, log, each an
awaited step of up to three requests.  `overlapped` and `halfway` are history: the
trail tells the whole truth of a record only where no two operations overlapped and
none ended between its change and its row.  `OutcomeIsLogged` is what is left
where they did overlap.

### ApiTokens

The guard reads the token with its user, the policies are judged on that, and the
handler reads and writes again, while users are deleted and permissions withdrawn.
The routes of one's own tokens and those of an administrator have each their filter (`Mine`,
`Filter`).  `since` is what was stored at each moment of the request.  What a JWT brings is
taken from `AuthSessions`: here it names a user.  Saving a token that has gone fails,
because the row it found carries no hash.

### Notifications

The settings page, the table and `TelegrafService`, which reads the bot and the chat
in one query and the switch of the notification's type in another.  `since` is every
state of the settings the message has lived through.  The page awaits none of its
saves: that it shows what is stored is claimed only while saves were served one by one.

### Timeline and StatisticCards

`GetTimeline` is the query of `event-logs.service.ts` with `startOf`, `date_trunc` and
`generate_series` in whole ticks; the zone of the browser may change its offset once
(`Change`), and the claims exclude ranges it falls in, as the code there drops rows.
Weekly bars are empty, as in `Statistics`, and `BarsAddUp` says so.
The pages ask with every new range, and answers arrive in any order; the four pages
differ in what a failure leaves.  `StatisticCards` is the effect that asks for
the cards: it depends on the hour alone, so that targets named late are not asked
for before the hour moves on.

### TableQuery and EventLogsTable

`TableQuery` computes the query of `getTableDataQueryParams` from what was chosen in
each dropdown, the filters of the page, the keyword and the columns in sight, and
judges the rows the server may hold by it, with SQL's null.  The property compares
that with what the choices mean, which is defined separately and much simpler.  Two
levels of columns, as the packages use them.  Outside the claim,
because the code does not treat them so: options that mix null
with values, a text filter cleared to an empty text, a range cleared at both ends over
a filter of the page, several values for a numeric `in`, and a keyword with two spaces
in a row.  Sorting and pages are not modelled.  `ConstantsFit` says what a table has to be given for
that: groups one level deep, dropdowns that offer what the operator of the filter takes, and rows that do not
hold a word in a column that cannot be searched for it.  `EventLogsTable` instantiates `TableQuery` with the
columns, sets and searchable columns of users-frontend.

### TableView, ImportChanges

`TableView`: `pending` are the requests under way, of which ProTable shows the
last one's answer while `request` of the table runs for every one of them.  A server's
reading and its answer are one step, and one bulk operation is under way at a time.
A dialog counts records and its button acts on what is ticked then: where an answer
arrives in between these differ, so `ConfirmedUnlessOvertaken` is named for what it
excludes.

`ImportChanges`: the exported file, edited, against a fresh export parsed with type
inference; the commit with the versions of the file; the server that refuses all of
it or nothing, and lists conflicts in any order; the conflicts, whose tab keeps what it was
mounted with.  `Exported`,
`Typed` and `Means` give a column of each kind with spellings an export would not use.
A success answers with an empty list of conflicts, or with none (`Undefined`), since the field is optional:
Commit is disabled by an empty list alone, so that after the other, or after a lost answer, it creates the new
records again.  `untold` counts those successes, and `CreatedOnce` allows one creation more for each;
`MaxUntold` bounds them.  Type inference rewords some text, TRUE to `true` and 007 to 7, which is then taken for
changed though nobody touched it, while a change to the reworded form is missed: `Reworded` excepts
it from `OnlyChangesAreUpdates`.  Dates, which inference also recognises, are not modelled.
That resolving a conflict drops the updates that had none, that a failed export leaves
the button loading and that a list of conflicts which gets shorter throws are
behaviour of the model, too; no property claims that every update arrives, and conflicts listed anew
(`relisted`) and lost answers (`lost`) are excluded by name.

### CreationForm, RecordView, ListView, ConnectionCheck, PermissionSwitches

Small machines of one component each.  `CreationForm` is the form in tabs: a
debounce renewed by every render recounts the section that changed, beside submits,
refusals and a modal that stays mounted.  A value breaks any number of the rules of its field (`Broken`), and
fields without rules (outside `Ruled`) are never validated.  The code counts in two ways, errors after the debounce
(`CountErrors`) and fields with errors after a submit (`CountFields`): `BadgesCountErrors` asks for one of the two.
`RecordView` is a record edited field by
field, by its page or in a popup; a save that the server has stored may still fail on its way back,
and then the old value stays in sight (`clean` excludes it).  `ListView` looks a saved line up in the report of
the last keystroke.  `ConnectionCheck` is the one timer that takes the icon down.
`PermissionSwitches` sends the whole set and rolls back to the set it remembers.
Where overlapping saves, or changes of others, leave the view other than the server, a history
variable (`overlooked`, `clean`, `touched`, `disturbed`) marks it and the property
excludes it.

### ApiRequest

A call is a chain of awaited steps, headers, fetch, body, that a cancel may come
between.  The consumer is `getInitialState`, the redirects of the layout, and logout.
The consumer of a cancelled call waits for its steps to end.  The calls by which umi
asks for the initial state are external.

## 3. Runs

| Run | Properties | Instance and why it is enough |
|---|---|---|
| `sessions` | `TypeOK`, `RevocationHolds`, `RevokedNeverServed`, `DeletedNeverServed` | two requests, two pairs.  Either one user, access tokens of 1 s, refresh tokens of 2 s and a half-second clock to 2.5 s: every token expires and every row is purged.  Or an administrator and a user without a clock: the deletion falls between any two steps of the other request |
| `sessions_reuse` (violation) | `RefreshTokenUsedOnce` | two requests with one refresh token |
| `cluster` | `RestartNeverDuplicates`, `KeepsRunning` | two workers with delay, a crash, a kill from outside, two commands, one edit of the settings |
| `cluster_stop` (violation) | `StopIsFinal` | one worker, one crash, one command |
| `ws_auth` | `LostClientsAreForgotten`, `MessagesGetAVerdict` | two sockets, nothing else bounded |
| `wsclient` | `InOrderOnce`, `OneConnection`, `OrderlyDropsNothing`, `CloseIsFinal`, `StatusIsCurrent` | three sockets, four payloads, three reconnects |
| `wsclient_drop` (violation) | `NothingDropped` | two sockets, one payload, one reconnect |
| `monitoring` | `OneOpenPeriodAlone`, `SilenceIsToldAlone`, `RecoveryIsToldAlone`, `PeriodsFollowQuotesOverlap` | one provider.  One check at a time, two growing pauses of one and two ticks, a restart, a failure and two edits; or two checks at once, with nothing else going wrong.  Time is unbounded, ages saturate |
| `statistics` | `TimelineCountsAll`, `CountersCount`, `BuffersDrain` | one key of each kind, three counts, two jobs, one fault, retention of two ticks in a clock of three |
| `user_administration` | `TypeOK`, `AdministratorRemains`, `AdminsMakeAdmins`, `StartsAgain` | two users, two requests in flight, two processes, three changes: enough for one change to overtake another and for a chain of appointments |
| `services` | `AnswersAreLogged`, `TrailIsTrue`, `ChartsAddUp`, `ClientsKeepOrder`, `UptimeIsOfItsProcess`, `NotificationsAsSet`, `TokensAreOfTheirUsers`, `HeartbeatsAreFair` | see below |
| `frontend` | `QueryIsAsShown`, `LogsAreTheChosenOnes`, `TableIsAsSeen`, `ImportIsAsReviewed`, `FormsTellTheirErrors`, `EditsAreSavedAsShown`, `CallsSettleAsAnswered` | see below |

The instances of the two runs of several components, as `MCServices`, `MCFrontend`
and their configurations have them:

| Component | Bounds | Enough for |
|---|---|---|
| `EventLogs` | two requests, one user, two saves at once, one warning, one fault | a batch that loses the row of another request |
| `AuditTrail` | two records of two fields, three operations in all | an operation that overlaps two others |
| `Timeline` | units of 1, 1, 1, 2 and 4 ticks, one bar wanted, clock of three, two rows, three requests, two zones (one with a change of offset) | every unit, the week too, a zoom into a bar, an answer overtaken and one that failed |
| `StatisticCards` | two ids, three hours, two requests at once | targets named before, between and after the hours |
| `OutboundClients` | three sockets, three messages, one frame | a reconnection twice, sends before and after each |
| `ApiUptime` | two processes, two rows, clock of three | a heartbeat that is overtaken, a crash beside another process |
| `Notifications` | two changes of settings, one message | a change between any two reads |
| `ApiTokens` | two users, two tokens, two requests, one deletion or withdrawal | a deletion between any two queries |
| `WsAuth` | two sockets, nothing else bounded | a ping or a pong of one socket between any two steps of the other |
| `TableQuery` | a numeric column and a relation in a group, an identity; eighteen rows, nulls among them | every kind of filter on every row |
| `EventLogsTable` | the columns as they are, three logs, two clicks | a filter with a range of time, a hidden column with a keyword |
| `TableView` | two ids, two values, two filters, two requests at once | an answer that arrives while a dialog is open |
| `ImportChanges` | two records, two imports, one change by others, one success untold | a commit, its conflict, a second commit; a creation made twice |
| `CreationForm` | three fields in two tabs, one without rules, a value that breaks two rules, five edits, three submits | a refusal between a change and its debounce, two counts that differ |
| `RecordView` | two records, two fields, four edits | a save answered after the record was exchanged, one stored whose answer is lost |
| `ListView` | two records and a new line, five edits | two lines open at once, one saved, one cancelled |
| `ConnectionCheck` | four checks of three ticks | a check while the icon of the one before is up |
| `PermissionSwitches` | two permissions, two requests at once, three changes | a toggle beside another's change |
| `ApiRequest` | two calls, three loads | a cancel between any two steps |

The order of model values of a kind is never looked at, so the runs use symmetry where they check
invariants only.

What the violations show:

- `sessions_reuse`: `isTokenRevoked` and the insert are two queries, so two
  refreshes with one token both get a pair; `docs/auth-refresh-token.md:52` says a
  used token is immediately revoked to prevent reuse.
- `cluster_stop`: a stop finds nothing in the map while the worker waits for its
  restart, which goes on; the README of `common-backend` promises runtime
  start/stop.
- `wsclient_drop`: the open event of an older socket flushes the queue into the
  newer one that is still connecting; the comment in `send` says payloads wait
  for the next open event.

One disagreement has no run: the setting that switches the monitoring on is read
only when its module starts (`provider-monitoring.service.ts:48`), and the README of
`liquidity-monitor-backend` says it is toggled at runtime.  The model has the
code's reading, and the liveness properties assume the setting is not edited.

Deadlock is checked in `ws_auth` and `monitoring`; the others have spent
counters or a bounded clock and may stop.

### Fairness

- `ClusterSupervisor`: the primary's event loop runs what is queued, a signalled
  process dies.  Nobody is obliged to crash, to send commands or to edit.
- `WsAuth`: the interval fires, passport answers, a resolved promise resumes the
  guard.  Nothing is asked of the peer or the network.
- `ProviderMonitoring`: the process is started again, time passes, the interval
  fires and awaited calls return.  Quotes may stop for ever.
- `Statistics`: crons fire and queries are answered.  The fairness of the two saving
  crons is strong, because the bound `Jobs` may be used up whenever they
  fire, which in the code it never is.

- `UserAdministration`: a process that is down is started again, and one that keeps being
  started does not die each time while it seeds (strong fairness of `CreateDefaultAdmin`).
  Nothing is asked of requests.

`AuthSessions`, `WebsocketClient` and the modules of `services` and `frontend` state safety
only: what they promise of the future depends on users, networks or other services,
which nothing obliges to answer.

## 4. Proofs

TLAPS checks these for every value of the constants that the modules assume.

`AuthSessionsProofs`

- `TypeCorrect`: `Spec => []TypeOK`, by way of `Typed`, which adds that
  a request carries a token where its route needs one.
- `RevocationIsNeverForgotten`: `Spec => []RevocationHolds`.
  The invariant is not inductive by itself: the cleanup could delete the one row
  that covers a token.  `RevocationInv` adds that pairs are named freshly
  (`TokensNamed`, `TokensDistinct`, `RowsNamed`, `DeadNamed`), and `RowsCover`:
  whatever is in `dead` has a row that lives at least as long as any token it
  covers.  `TicksToSeconds` and `SecondsToTicks` are the arithmetic between
  claims in seconds and columns in ticks.
- `RevokedRequestsAreRejected` and `DeletedUsersAreRejected`: from `LateInv`,
  which says of each request begun too late where it can have got to.

`UserAdministrationProofs`

- `TypeCorrect`, by way of `Typed`, which adds that an update under way has found a row.
- `AnAdministratorRemains` and `OnlyAdminsAppoint`, for any number of users,
  requests and processes.  Neither is inductive: what a guard decides is about
  the requester's row when the request began.  `Fresh` says that a request not
  overtaken still knows the table, its own row and the one it is to update; a
  commit makes every other request overtaken (`CommitKeepsFresh`), and one that
  is fresh leaves its own administrator in place (`CommitKeepsAdmins`).

`ClusterSupervisorProofs`, for any finite set of workers

- `TypeCorrect`, and `SupervisorNeverDuplicates`: `Spec => []RestartNeverDuplicates`.
  The property counts processes that are up; what keeps them from meeting is `OneOfEach`:
  of a worker no command has started there is at most one process in the map, at most one
  timer or start, never both, and nothing before the cluster has booted.  The
  sums it speaks of are cardinalities, hence the assumption that `Workers` is finite.

`WebsocketClientProofs`, for any number of sockets, payloads and reconnections

- `TypeCorrect`; `OneConnectionAtATime`, `ClosedStaysClosed`, `StatusIsOfTheSocket`.
  One invariant, `SocketInv`, carries the three: the socket in use is the one listened to
  (`CurrentIsHeard`), an orderly client has one socket, timer or neither (`OneAtATime`), a socket
  that is open under the status was reported so (`OpenIsVouched`).
- `PayloadsKeepOrder`, for any owner, and `NothingIsDropped`, for an orderly one.
  A flush keeps the order only because nothing waits while
  the socket in use is open; `PayloadInv` adds that (`OpenIsFlushed`).

`ProviderMonitoringProofs`

- `TypeCorrect`, and `OnePeriodAtATime`: `OneOpenPeriodAlone`, both under the hypothesis `OneCheck`,
  that no check outlives the interval; the run has instances of both kinds, and of two
  checks at once the property says nothing.  A check acts on what it planned from periods it read before:
  `PlanIsCurrent` says that its plan to insert still meets a provider without an open period.

`ServicesProofs`, about `MCServices` with any constants that satisfy its assumption

- `EveryAnswerLeavesOneRow` (`EventLogs`): `LogsInv` ties the mark on a request to its
  row, in the buffer, in a save, stored or lost (`MarkedWithItsRow`), and says that none that is answered
  was missed (`NoneIsMissed`).
- `TrailsAreTrue` (`AuditTrail`): a row is written from what was read two steps earlier.
  `AuditInv` says that the operation that is alone still continues the trail
  (`AloneItContinues`), and which row it owes (`Owes`).
- `ClientsSendInOrder` (`OutboundClients`): `OutboundInv` says that one of socket and timer is under
  way (`OneUnderWay`) and that a socket is closed and flushed once (`ClosesOnce`, `FlushesOnce`).
- `PeriodsAreOfTheirProcess` (`ApiUptime`): heartbeats in flight carry times of their process.
- `MessagesAreAllowed` (`Notifications`): each answer the message holds was true of a state
  it has lived through.
- `TokensServeTheirUsers` (`ApiTokens`): what a request has read was stored while it ran.
- `HeartbeatIsFair` (`WsAuth`): `MarkedAwaitsPong` says nothing of a socket that is marked but is no
  client, which might be added later without a ping: `SocketsInv` adds that a
  socket is marked only once authenticated (`OnceAuthenticated`), and asked for once (`AskedOnce`).
- `ChartsShow` (`Timeline`, `StatisticCards`): if the first bar and the end of a range have one offset,
  one does for every bar (`ChartsOneOffset`), and the sum over bars is that over instants by `SumOfParts`
  of `StatisticsProofs`, cited through an INSTANCE.  What was clicked still holds the rows it counted
  unless they were purged (`ClickedHolds`, from `BarsHold`); the last range is asked for or shown, or
  failed (`CurrentIsAsked`); a card without an interval awaits nothing (`NothingYetIsAwaited`).  Units
  and timezones are those of `MCServices`; rows, clock and requests are any.

`StatisticsProofs`, for any providers, users, targets, pauses and any finite set of overlapping jobs

- Lemmas about sums over finite sets: a sum exists and is unique, grows by what is added, shrinks by
  what is taken, and splits over the bars of a timeline.  The library's induction takes an operator as a
  parameter, so they are proved from the smallest set that would refute them (`SmallestSubset`).
- `TypeCorrect`, from `StatisticsInv`, which adds that no row is of the future (`NothingAfterNow`) and that
  a purge deletes rows that are a week old (`PurgesOldRows`).
- `CountersAreLossyCounters`: `Spec => CountersCount`, the implementation of `LossyCounters`, step by
  step: a count maps to `Count`, a take to a stutter, a save to `Store`, or to a stutter if there was nothing to
  store, a failed save to `Lose`, a purge to a stutter, since its rows were given up before, the end of
  the process to `Lose`, a tick to `Expire`.
- `TimelinesCountAll`: `Spec => []TimelineCountsAll`, by lemmas about division (which bar an instant
  falls into) and `SumOfBars`; of weeks, by `Sunday`: a week that starts on a Sunday starts on no Monday.

`FrontendProofs`, about `MCFrontend` likewise

- `CallsSettle` (`ApiRequest`): a call is settled as its flags say (`SettledAsFlagged`), which are
  set at its last step only (`FlaggedAtTheEnd`).
- `EditsAreSaved` (`RecordView`, `ListView`, `PermissionSwitches`): that a save finds what was fetched
  for its record (`FetchedFirst`, `SavesByItself`), that the report holds what was typed
  (`TypedIsReported`), that what was stored is remembered (`StoredIsRemembered`).
- `FormsTell` (`CreationForm`, `ConnectionCheck`): a section no debounce waits for has been counted
  (`CountedWhenQuiet`); the timer is the one of the verdict in sight (`TimerOfItsVerdict`).
- `TablesShow` (`TableView`): a dialog holds the ticks it was opened with unless an answer came
  in between (`DialogIsCurrent`), and every filter that is not shown is being asked for
  (`ShownOrAskedFor`).
- `ImportsAreReviewed` (`ImportChanges`), for any records, files compared and changes by others: wherever a
  value stands next to a version, the value was that version's, so that an accepted version proves it is still
  the value (`Saw`).  `ComparedWasSeen` says so of the comparison, `ConflictsWereSeen` of an answer,
  `ResolvedWasSeen` of the tab, as long as its lines are those of the conflicts (`ResolvedInTab`), and
  `CommittedWasSeen` of what is sent.  `CreatedIsDone` says that after an answered creation no commit is
  left to send.  That differences are what their authors mean is proved for the spellings `MCFrontend` gives.
- `QueriesAreAsShown` (`TableQuery`), for any columns, groups, sets of columns, filters and rows with
  `ConstantsFit`: a column that is shown is in a group that is (`InGroups`), since a set shows the groups of its
  columns and a tick brings its group (`QueryTicked`); the condition a column makes of a range, a number or
  options is met by the values they mean (`QueryRange`, `QueryNumber`, `QueryOptions`), and a word is
  looked for wherever it may be in sight (`QueryWord`).
- `LogsAreAsShown` (`EventLogsTable`), for any users, services, logs and keywords with `LogsFit`: what was chosen
  is what its dropdown or the page offers (`LogsInv`), so that it holds no null (`LogsTicks`), and every
  searched column's operator takes it (`LogsColumns`, `LogsKinds`: options come with `in`, the range of
  time with `between`, and numbers are looked for only where a column has them).  Its conditions are those of
  `TableQuery`, so that `QueryRange`, `QueryOptions` and `QueryCompared` say what they select: `LogsMeets`,
  `LogsCondition` and `LogsMeans` carry these lemmas over from one instance to the other.

Only model-checked is liveness, under the fairness of section 3, and with it `ENABLED`, which TLAPS does not
treat.

No module declares a RECURSIVE operator.

## 5. Not modelled

- Social login: the exchange runs inside passport and the provider; what follows it
  is the login `AuthSessions` has.
- Password hashing, the schedule's switch, exception filters, loggers and query
  extensions, the scripts that generate clients: stateless.
- Of users, changes of emails and passwords; of CASL, conditions on rows, packed rules and
  filtered fields.
- Of event logs, masking and formatting of bodies and the wording `EventLogExplanation` gives a log.
- Of the cluster, the broker between workers and the settings handed over to them.
- Of the frontends, sorting, pages and looks; `SearchSelect` and `RelationSelect`, which
  ask at every keystroke and show whichever answer came last; comments; columns of the tables of users and
  tokens; forms that are not in tabs.
- Of the liquidity monitor's frontend, how charts look.

## 6. Plan

Every safety property a passing run checks is a theorem.  What would carry the proofs further:

- differences that are what their authors mean (`ImportsAreReviewed`) for every spelling of a value, where the
  theorem now takes the spellings `MCFrontend` gives;
- steps towards liveness as action properties: that what is waited for is handed on by no step but its answer.
