------------------------- MODULE ProviderMonitoring -------------------------
(***************************************************************************)
(* ProviderMonitoringService of liquidity-monitor-backend: every ten       *)
(* seconds a check compares the age of each provider's latest quote with   *)
(* its threshold, keeps the table of problematic periods, and sends        *)
(* Telegram messages with a growing pause between repeated warnings.       *)
(*                                                                         *)
(* A check awaits the database and the settings between its steps, and the *)
(* next one does not wait for it.  The journal of warnings is in memory.   *)
(* Ages are counted in ticks and saturate: only "later than" matters.      *)
(***************************************************************************)
EXTENDS Integers, Sequences, FiniteSets

CONSTANTS
  Providers,
  Threshold,           \* provider.threshold, in seconds
  TicksPerSecond,      \* fine enough for Math.round to matter
  exponentialBackoff,  \* pauses between warnings, in ticks
  Checks,              \* 1 .. n: as many checks can be under way at once
  MaxCrashes,          \* bound: restarts of the process
  MaxFailures,         \* bound: failed upserts and lost messages
  MaxEdits             \* bound: changes of the setting or of a threshold

ASSUME ConstantsAssumption ==
  /\ {Threshold, TicksPerSecond, MaxCrashes, MaxFailures, MaxEdits} \subseteq Nat
  /\ Threshold > 0 /\ TicksPerSecond > 0
  /\ exponentialBackoff \in Seq(Nat) /\ exponentialBackoff # <<>>
  /\ Checks \subseteq Nat

VARIABLES
  setting,     \* Notifications.QuotesByProviderStatus is SettingsValues.YES
  watched,     \* the providers that have a threshold
  age,         \* ticks since the latest quote stored for each provider
  open,        \* provider -> ids of its periods without an upper bound
  up,          \* whether the process runs
  interval,    \* providerActivityInterval is set
  journal,     \* notificationsJournal
  check,       \* the checks under way
  left,        \* what remains of each bound
  told,        \* history: the last message delivered about each provider
  warned       \* history: a warning was delivered since a check saw it active

process == <<up, interval>>
world == <<setting, watched, age>>
history == <<told, warned>>
vars == <<setting, watched, age, open, up, interval, journal, check, left, told, warned>>

Upto(n, m) == IF n < m THEN n + 1 ELSE n

AgeCap == (Threshold + 1) * TicksPerSecond
PauseCap == CHOOSE n \in {exponentialBackoff[i] : i \in DOMAIN exponentialBackoff} :
              \A i \in DOMAIN exponentialBackoff : exponentialBackoff[i] <= n

None == [attempts |-> -1, since |-> 0]
Entry == [attempts : 0 .. Len(exponentialBackoff), since : 0 .. PauseCap]

Ids == 1 .. (2 * Cardinality(Checks) + 1)
CheckState ==
  [periods : {"done", "find", "upsert"}, messages : {"done", "setting", "send"},
   providers : SUBSET Providers, age : [Providers -> 0 .. AgeCap],
   plan : [Providers -> {"keep", "open", "close"}], found : [Providers -> {0} \cup Ids],
   send : [Providers -> {"nothing", "silent", "active"}]]
Idle == [periods |-> "done", messages |-> "done", providers |-> {},
         age |-> [p \in Providers |-> 0],
         plan |-> [p \in Providers |-> "keep"], found |-> [p \in Providers |-> 0],
         send |-> [p \in Providers |-> "nothing"]]

(* Promise.allSettled: a check ends when both of its halves have. *)
Settled(k) == IF k.periods = "done" /\ k.messages = "done" THEN Idle ELSE k

Bounds == [crashes |-> MaxCrashes, failures |-> MaxFailures, edits |-> MaxEdits]

Spend(bound) == left[bound] > 0 /\ left' = [left EXCEPT ![bound] = @ - 1]

-----------------------------------------------------------------------------
(* Process *)

(* onModuleInit: the only call of startMonitoring. *)
OnModuleInit ==
  /\ ~up
  /\ up' = TRUE
  /\ interval' = setting
  /\ UNCHANGED <<world, open, journal, check, left, history>>

(* The process dies, or is stopped: onModuleDestroy clears the interval,   *)
(* and what no query has committed is gone.                                *)
Stop ==
  /\ up /\ Spend("crashes")
  /\ up' = FALSE
  /\ interval' = FALSE
  /\ journal' = [p \in Providers |-> None]
  /\ check' = [c \in Checks |-> Idle]
  /\ UNCHANGED <<world, open, history>>

(* checkProviderActivity up to Promise.allSettled: the providers with a    *)
(* threshold, and the age of their latest quotes when they are read.       *)
StartCheck(c) ==
  /\ interval /\ check[c] = Idle /\ watched # {}
  /\ check' = [check EXCEPT ![c] =
       [Idle EXCEPT !.periods = "find", !.messages = "setting",
                    !.providers = watched, !.age = age]]
  /\ UNCHANGED <<world, open, process, journal, left, history>>

-----------------------------------------------------------------------------
(* updateProblematicPeriods *)

(* diff > provider.threshold, on a fractional number of seconds. *)
Late(a) == a > Threshold * TicksPerSecond

(* Mutant of Plan: a provider is closed as soon as it is found open. *)
PlanFlips(c, found) ==
  [p \in Providers |->
    IF p \notin check[c].providers THEN "keep"
    ELSE IF Late(check[c].age[p]) /\ found[p] = 0 THEN "open"
    ELSE IF found[p] # 0 THEN "close"
    ELSE "keep"]

(* Mutant of Plan: the periods that are open are not looked at. *)
PlanOpens(c, found) ==
  [p \in Providers |->
    IF p \in check[c].providers /\ Late(check[c].age[p]) THEN "open" ELSE "keep"]

(* What the check is to write for each provider. *)
Plan(c, found) ==
  [p \in Providers |->
    IF p \notin check[c].providers THEN "keep"
    ELSE IF Late(check[c].age[p]) /\ found[p] = 0 THEN "open"
    ELSE IF ~Late(check[c].age[p]) /\ found[p] # 0 THEN "close"
    ELSE "keep"]

(* getOpenProblematicPeriods, whose Map keeps one row of each provider,    *)
(* and the decision, taken at once on the ages of that moment.             *)
FindPeriods(c) ==
  /\ check[c].periods = "find"
  /\ \E found \in [Providers -> {0} \cup Ids] :
       /\ \A p \in Providers :
            IF open[p] = {} THEN found[p] = 0 ELSE found[p] \in open[p]
       /\ LET plan == Plan(c, found) IN
          check' = [check EXCEPT ![c] = Settled([@ EXCEPT
            !.periods = IF \E p \in Providers : plan[p] # "keep" THEN "upsert" ELSE "done",
            !.plan = plan,
            !.found = [p \in Providers |-> IF plan[p] = "close" THEN found[p] ELSE 0]])]
  /\ UNCHANGED <<world, open, process, journal, left, history>>

FreshId(p) ==
  CHOOSE i \in Ids : i \notin open[p] /\ \A c \in Checks : check[c].found[p] # i

UpsertPeriods(c) ==
  /\ check[c].periods = "upsert"
  /\ check' = [check EXCEPT ![c] = Settled([@ EXCEPT !.periods = "done",
                                              !.plan = Idle.plan, !.found = Idle.found])]
  /\ \/ /\ open' = [p \in Providers |->
               CASE check[c].plan[p] = "open" -> open[p] \cup {FreshId(p)}
                 [] check[c].plan[p] = "close" -> open[p] \ {check[c].found[p]}
                 [] OTHER -> open[p]]
        /\ UNCHANGED left
     \/ Spend("failures") /\ UNCHANGED open
  /\ UNCHANGED <<world, process, journal, history>>

-----------------------------------------------------------------------------
(* sendNotifications *)

(* Math.round(diff) > provider.threshold: half a second over and more. *)
LateRounded(a) == 2 * (a - Threshold * TicksPerSecond) >= TicksPerSecond

Silent(c) == {p \in check[c].providers : LateRounded(check[c].age[p])}
Active(c) == check[c].providers \ Silent(c)

(* Mutant of Due: no pause ever ends. *)
DueOnce(p) == journal[p] = None

Due(p) ==
  \/ journal[p] = None
  \/ /\ journal[p].attempts < Len(exponentialBackoff)
     /\ journal[p].since >= exponentialBackoff[journal[p].attempts + 1]

(* Mutant of Messages: a recovery is not announced. *)
MessagesOfSilence(c) ==
  [p \in Providers |-> IF p \in Silent(c) /\ Due(p) THEN "silent" ELSE "nothing"]

Messages(c) ==
  [p \in Providers |->
    IF p \in Silent(c) /\ Due(p) THEN "silent"
    ELSE IF p \in Active(c) /\ journal[p] # None THEN "active"
    ELSE "nothing"]

JournalAfter(messages) ==
  [p \in Providers |->
    CASE messages[p] = "silent" -> [attempts |-> journal[p].attempts + 1, since |-> 0]
      [] messages[p] = "active" -> None
      [] OTHER -> journal[p]]

(* The setting is read; unless it is off, the journal is brought up to     *)
(* date and the messages are handed to Telegram, in one synchronous loop.  *)
SendNotifications(c) ==
  /\ check[c].messages = "setting"
  /\ warned' = [p \in Providers |-> warned[p] /\ p \notin Active(c)]
  /\ IF setting
     THEN /\ check' = [check EXCEPT ![c].messages = "send", ![c].send = Messages(c)]
          /\ journal' = JournalAfter(Messages(c))
     ELSE /\ check' = [check EXCEPT ![c] = Settled([@ EXCEPT !.messages = "done"])]
          /\ UNCHANGED journal
  /\ UNCHANGED <<world, open, process, left, told>>

(* TelegrafService.sendMessage reads the setting again, and only logs a    *)
(* delivery that fails.                                                    *)
Deliver(c, p) ==
  LET message == check[c].send[p] IN
  /\ check[c].messages = "send" /\ message # "nothing"
  /\ check' = [check EXCEPT ![c].send[p] = "nothing"]
  /\ \/ /\ setting
        /\ told' = [told EXCEPT ![p] = message]
        /\ warned' = [warned EXCEPT ![p] = @ \/ message = "silent"]
        /\ UNCHANGED left
     \/ ~setting /\ UNCHANGED <<history, left>>
     \/ Spend("failures") /\ UNCHANGED history
  /\ UNCHANGED <<world, open, process, journal>>

(* await Promise.all(notifications) *)
EndMessages(c) ==
  /\ check[c].messages = "send" /\ \A p \in Providers : check[c].send[p] = "nothing"
  /\ check' = [check EXCEPT ![c] = Settled([@ EXCEPT !.messages = "done"])]
  /\ UNCHANGED <<world, open, process, journal, left, history>>

-----------------------------------------------------------------------------
(* The world *)

Quote(p) ==
  /\ age' = [age EXCEPT ![p] = 0]
  /\ UNCHANGED <<setting, watched, open, process, journal, check, left, history>>

Tick ==
  /\ age' = [p \in Providers |-> Upto(age[p], AgeCap)]
  /\ journal' = [p \in Providers |->
       IF journal[p] = None THEN None ELSE [journal[p] EXCEPT !.since = Upto(@, PauseCap)]]
  /\ check' = [c \in Checks |-> [check[c] EXCEPT !.age = [p \in Providers |->
       IF p \in check[c].providers THEN Upto(check[c].age[p], AgeCap) ELSE 0]]]
  /\ UNCHANGED <<setting, watched, open, process, left, history>>

(* SettingsService.setEventSettings, through the settings page. *)
Toggle ==
  /\ Spend("edits")
  /\ setting' = ~setting
  /\ UNCHANGED <<watched, age, open, process, journal, check, history>>

(* The host's providers gain or lose a threshold. *)
EditThreshold(p) ==
  /\ Spend("edits")
  /\ watched' = IF p \in watched THEN watched \ {p} ELSE watched \cup {p}
  /\ UNCHANGED <<setting, age, open, process, journal, check, history>>

-----------------------------------------------------------------------------
Init ==
  /\ setting \in BOOLEAN
  /\ watched = Providers
  /\ age = [p \in Providers |-> AgeCap]
  /\ open = [p \in Providers |-> {}]
  /\ up = FALSE
  /\ interval = FALSE
  /\ journal = [p \in Providers |-> None]
  /\ check = [c \in Checks |-> Idle]
  /\ left = Bounds
  /\ told = [p \in Providers |-> "nothing"]
  /\ warned = [p \in Providers |-> FALSE]

Step(c) ==
  \/ StartCheck(c) \/ FindPeriods(c) \/ UpsertPeriods(c)
  \/ SendNotifications(c) \/ EndMessages(c)
  \/ \E p \in Providers : Deliver(c, p)

Next ==
  \/ OnModuleInit \/ Stop \/ Tick \/ Toggle
  \/ \E p \in Providers : Quote(p) \/ EditThreshold(p)
  \/ \E c \in Checks : Step(c)

Spec == Init /\ [][Next]_vars

(* The process comes up, time passes, the interval fires and every call a *)
(* check awaits returns.  Quotes may stop for ever.                        *)
Fairness ==
  /\ WF_vars(OnModuleInit) /\ WF_vars(Tick)
  /\ \A c \in Checks :
       /\ WF_vars(StartCheck(c))
       /\ WF_vars(FindPeriods(c) \/ UpsertPeriods(c))
       /\ WF_vars(SendNotifications(c) \/ EndMessages(c) \/ \E p \in Providers : Deliver(c, p))

FairSpec == Spec /\ Fairness

-----------------------------------------------------------------------------
(* Types: what each variable may hold. *)
TypeOK ==
  /\ {setting, up, interval} \subseteq BOOLEAN
  /\ watched \subseteq Providers
  /\ age \in [Providers -> 0 .. AgeCap]
  /\ open \in [Providers -> SUBSET Ids]
  /\ journal \in [Providers -> Entry \cup {None}]
  /\ check \in [Checks -> CheckState]
  /\ left \in [{"crashes", "failures", "edits"} -> Nat]
  /\ told \in [Providers -> {"nothing", "silent", "active"}]
  /\ warned \in [Providers -> BOOLEAN]

(* While no check outlives the interval, no sequence of restarts, failed   *)
(* writes and edited thresholds leaves a provider two open periods.        *)
OneOpenPeriod ==
  \A p \in Providers : Cardinality(open[p]) <= 1

(* The monitoring runs for p, whose quotes keep coming faster than its     *)
(* threshold, also by the time a check compares the one it has read.       *)
Quoting(p) ==
  interval /\ p \in watched /\ \A a \in {age[p]} \cup {check[c].age[p] : c \in Checks} : ~Late(a)

Quiet(p) == interval /\ p \in watched /\ Late(age[p])

(* README.md: a check "opens a problematic period ... when a provider goes *)
(* quiet, closes it on recovery".  Whatever checks overlap, the table comes*)
(* to agree with a provider that stays as it is.                           *)
PeriodsFollowQuotes ==
  \A p \in Providers :
    /\ <>[]Quiet(p) => <>[](open[p] # {})
    /\ <>[]Quoting(p) => <>[](open[p] = {})

(* provider-monitoring.spec.ts: "going stale again warns immediately (no   *)
(* leftover backoff)".  A provider that falls silent for good is warned    *)
(* about after the last check that saw it active, whatever restarts and    *)
(* failures come between.  Where a setting was edited that may not be so:  *)
(* a recovery seen while it is off leaves the old attempts in the journal. *)
SilenceIsTold ==
  \A p \in Providers :
    <>[](Quiet(p) /\ setting /\ left.edits = MaxEdits) => <>[]warned[p]

(* A provider that recovers for good after a warning is reported active,   *)
(* unless a restart lost the journal or Telegram lost the report.          *)
RecoveryIsTold ==
  \A p \in Providers :
    <>[](Quoting(p) /\ setting /\ left = Bounds) => <>[](told[p] # "silent")
=============================================================================
