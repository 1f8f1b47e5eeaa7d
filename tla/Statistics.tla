----------------------------- MODULE Statistics -----------------------------
(***************************************************************************)
(* The statistics of liquidity-monitor-backend, kept by one process:       *)
(* quotes per provider (QuotesStatisticService), and quotes per user and   *)
(* per target (UsersConnectionsStatisticService).                          *)
(*                                                                         *)
(* Counters accumulate in memory.  Every five seconds a cron job takes a   *)
(* buffer and awaits its save; the next run does not wait for the last.    *)
(* Rows are kept for a week and purged at midnight.  A job that dies with  *)
(* the process has changed nothing.  Time counts in the smallest unit of a *)
(* timeline.                                                               *)
(***************************************************************************)
EXTENDS Integers, Sequences, FiniteSets, FiniteSetsExt, Functions

CONSTANTS
  Providers, Users, TComplexTarget, Targets, TargetIds,
  Jobs,           \* cron runs that can be under way at once
  Week,           \* ONE_WEEK_MS
  Day,            \* midnights are the multiples of Day
  Units,          \* lengths of a second, minute, hour, day and week
  targetBars,
  Offsets,        \* distances of the timezones asked for from UTC
  MaxTime,        \* bound: the clock
  MaxIncrements,  \* bound: quotes counted
  MaxFaults       \* bound: failed saves and ends of the process

ASSUME ConstantsAssumption ==
  /\ {Week, Day, targetBars} \subseteq Nat \ {0}
  /\ {MaxTime, MaxIncrements, MaxFaults} \subseteq Nat
  /\ Units \in Seq(Nat \ {0}) /\ Len(Units) = 5
  /\ \A i \in 1 .. 4 : Units[i] < Units[5]
  /\ Offsets \subseteq Int
  /\ IsFiniteSet(Jobs)

VARIABLES
  now,      \* Date.now(), and the clock of the database
  up,       \* whether the process runs
  memory,   \* quotesNumberByProvider, quotesNumberByUser, quotesNumberByTarget
  job,      \* the queries that are awaited
  table,    \* key -> time -> total of the rows created then
  left      \* what remains of each bound

vars == <<now, up, memory, job, table, left>>

QuoteKeys == {"quotes"} \X Providers
UserKeys == {"users"} \X Users \X TComplexTarget
TargetKeys == {"targets"} \X Targets \X TargetIds
Keys == QuoteKeys \cup UserKeys \cup TargetKeys
KeysOf(stage) ==
  CASE stage = "quotes" -> QuoteKeys [] stage = "users" -> UserKeys [] stage = "targets" -> TargetKeys

Nothing == [k \in Keys |-> 0]
Idle == [stage |-> "none", stats |-> Nothing, at |-> 0]
Spend(bound) == left[bound] > 0 /\ left' = [left EXCEPT ![bound] = @ - 1]

-----------------------------------------------------------------------------
(* Counting *)

(* incrementQuotesNumber(provider) *)
IncrementProvider(k) ==
  /\ k \in QuoteKeys
  /\ memory' = [memory EXCEPT ![k] = @ + 1]

(* incrementQuotesNumber(userId, target) *)
IncrementUser(k) ==
  /\ k \in UserKeys
  /\ memory' = [memory EXCEPT ![k] = @ + 1]

(* incrementQuotesNumberByTarget(target, targetId) *)
IncrementTarget(k) ==
  /\ k \in TargetKeys
  /\ memory' = [memory EXCEPT ![k] = @ + 1]

Increment(k) ==
  /\ up /\ Spend("increments")
  /\ IncrementProvider(k) \/ IncrementUser(k) \/ IncrementTarget(k)
  /\ UNCHANGED <<now, up, job, table>>

Counted(stage) == \E k \in KeysOf(stage) : memory[k] > 0

(* Mutant of Take: the buffer is cleared when its rows are saved. *)
TakeCopy(j, stage) ==
  /\ job' = [job EXCEPT ![j] = [Idle EXCEPT !.stage = stage,
               !.stats = [k \in Keys |-> IF k \in KeysOf(stage) THEN memory[k] ELSE 0]]]
  /\ UNCHANGED memory

(* A buffer is turned into rows and cleared, then repo.save(stats) is sent.*)
(* Counts that are zero give no row.                                       *)
Take(j, stage) ==
  /\ job' = [job EXCEPT ![j] = [Idle EXCEPT !.stage = stage,
               !.stats = [k \in Keys |-> IF k \in KeysOf(stage) THEN memory[k] ELSE 0]]]
  /\ memory' = [k \in Keys |-> IF k \in KeysOf(stage) THEN 0 ELSE memory[k]]

SaveAccumulatedQuotes(j) ==
  /\ up /\ job[j] = Idle
  /\ Counted("quotes") /\ Take(j, "quotes")
  /\ UNCHANGED <<now, up, table, left>>

(* Mutant of SaveAccumulatedConnections: no users, no targets. *)
SaveAccumulatedUsersFirst(j) ==
  /\ up /\ job[j] = Idle
  /\ Counted("users") /\ Take(j, "users")
  /\ UNCHANGED <<now, up, table, left>>

(* The users first; the targets when there is nothing to save of users. *)
SaveAccumulatedConnections(j) ==
  /\ up /\ job[j] = Idle
  /\ IF Counted("users")
     THEN Take(j, "users")
     ELSE Counted("targets") /\ Take(j, "targets")
  /\ UNCHANGED <<now, up, table, left>>

Saving(j) == job[j].stage \in {"quotes", "users", "targets"}

Insert(stats) ==
  [k \in Keys |-> [table[k] EXCEPT ![now] = @ + stats[k]]]

(* The save of the users is followed by the targets counted by then. *)
Saved(j) ==
  /\ Saving(j)
  /\ table' = Insert(job[j].stats)
  /\ IF job[j].stage = "users" /\ Counted("targets")
     THEN Take(j, "targets")
     ELSE job' = [job EXCEPT ![j] = Idle] /\ UNCHANGED memory
  /\ UNCHANGED <<now, up, left>>

(* The error ends the run: its rows are gone, or they are stored and only  *)
(* the answer is lost; the targets wait for another run.                   *)
SaveFailed(j) ==
  /\ Saving(j) /\ Spend("faults")
  /\ \/ table' = Insert(job[j].stats)
     \/ UNCHANGED table
  /\ job' = [job EXCEPT ![j] = Idle]
  /\ UNCHANGED <<now, up, memory>>

-----------------------------------------------------------------------------
(* Purging, by each service of its own table *)

PurgedKeys(stage) == IF stage = "purgeQuotes" THEN QuoteKeys ELSE UserKeys \cup TargetKeys

(* At midnight; a cutoff before the first instant would delete nothing. *)
DeleteOldStatistic(j, stage) ==
  /\ up /\ job[j] = Idle
  /\ now % Day = 0 /\ now >= Week
  /\ \E k \in PurgedKeys(stage) : \E t \in 0 .. (now - Week) : table[k][t] > 0
  /\ job' = [job EXCEPT ![j] = [Idle EXCEPT !.stage = stage, !.at = now - Week]]
  /\ UNCHANGED <<now, up, memory, table, left>>

(* created_at <= :oneWeekAgo *)
Purged(j) ==
  /\ job[j].stage \in {"purgeQuotes", "purgeUsers"}
  /\ table' = [k \in Keys |-> [t \in 0 .. MaxTime |->
       IF k \in PurgedKeys(job[j].stage) /\ t <= job[j].at THEN 0 ELSE table[k][t]]]
  /\ job' = [job EXCEPT ![j] = Idle]
  /\ UNCHANGED <<now, up, memory, left>>

-----------------------------------------------------------------------------
(* The process *)

Start ==
  /\ ~up
  /\ up' = TRUE
  /\ UNCHANGED <<now, memory, job, table, left>>

(* The end of the process, by a crash or a SIGTERM: nothing is flushed. *)
End ==
  /\ up /\ Spend("faults")
  /\ up' = FALSE
  /\ memory' = Nothing
  /\ job' = [j \in Jobs |-> Idle]
  /\ UNCHANGED <<now, table>>

Tick ==
  /\ now < MaxTime
  /\ now' = now + 1
  /\ UNCHANGED <<up, memory, job, table, left>>

-----------------------------------------------------------------------------
(* Reading *)

Instants == 0 .. MaxTime
Between(k, s, e) == SumFunctionOnSet(table[k], {t \in Instants : s <= t /\ t <= e})

(* getOldestStatsDate: MIN(created_at), or a week ago where there is none. *)
OldestStatsDate(keys) ==
  LET dates == {t \in Instants : \E k \in keys : table[k][t] > 0}
  IN IF dates = {} THEN now - Week ELSE Min(dates)

(* The first unit that makes at most targetBars bars. *)
DetermineInterval(s, e) ==
  LET fits == {i \in DOMAIN Units : e - s <= targetBars * Units[i]}
  IN IF fits = {} THEN Len(Units) ELSE Min(fits)

(* date_trunc(interval, t, timezone): a week starts on a Monday. *)
DateTrunc(t, unit, offset) == t - ((t + offset) % unit)

(* How long before the Monday the week of moment starts: on the Sunday. *)
AWeek == Units[Len(Units)]
Sunday(unit) == IF unit = AWeek THEN Units[Len(Units) - 1] ELSE 0

(* startOf(interval) in a timezone *)
StartOf(t, unit, offset) == DateTrunc(t, unit, offset + Sunday(unit))

(* Mutant of TimeSeries: the series ends before the interval of endTime. *)
TimeSeriesShort(s, e, unit, offset) ==
  {t \in StartOf(s, unit, offset) .. (StartOf(e, unit, offset) - 1) :
     (t - StartOf(s, unit, offset)) % unit = 0}

(* generate_series($1, $2, '1 interval') *)
TimeSeries(s, e, unit, offset) ==
  {t \in StartOf(s, unit, offset) .. StartOf(e, unit, offset) :
     (t - StartOf(s, unit, offset)) % unit = 0}

(* The left join on date_trunc(created_at) = bar and created_at between.   *)
Records(k, s, e, unit, offset, bar) ==
  SumFunctionOnSet(table[k],
                   {t \in Instants : s <= t /\ t <= e /\ DateTrunc(t, unit, offset) = bar})

Timeline(keys, s, e, offset) ==
  LET unit == Units[DetermineInterval(s, e)]
  IN [k \in keys |-> [bar \in TimeSeries(s, e, unit, offset) |->
                       Records(k, s, e, unit, offset, bar)]]

GetTimeline(s, e, offset) == Timeline(QuoteKeys, s, e, offset)
GetConnectionsTimeline(s, e, offset) == Timeline(UserKeys, s, e, offset)
GetTargetsTimeline(s, e) == Timeline(TargetKeys, s, e, 0)

-----------------------------------------------------------------------------
Init ==
  /\ now = 0
  /\ up = FALSE
  /\ memory = Nothing
  /\ job = [j \in Jobs |-> Idle]
  /\ table = [k \in Keys |-> [t \in 0 .. MaxTime |-> 0]]
  /\ left = [increments |-> MaxIncrements, faults |-> MaxFaults]

Step(j) ==
  \/ SaveAccumulatedQuotes(j) \/ SaveAccumulatedConnections(j)
  \/ Saved(j) \/ SaveFailed(j)
  \/ \E stage \in {"purgeQuotes", "purgeUsers"} : DeleteOldStatistic(j, stage)
  \/ Purged(j)

Next ==
  \/ Start \/ End \/ Tick
  \/ \E k \in Keys : Increment(k)
  \/ \E j \in Jobs : Step(j)

Spec == Init /\ [][Next]_vars

(* The crons fire and every query is answered.  A cron does not wait for a *)
(* free slot: that it might is an artefact of the bound Jobs, which strong *)
(* fairness takes back.                                                    *)
Fairness ==
  /\ SF_vars(\E j \in Jobs : SaveAccumulatedQuotes(j))
  /\ SF_vars(\E j \in Jobs : SaveAccumulatedConnections(j))
  /\ \A j \in Jobs :
       WF_vars(Saved(j) \/ SaveFailed(j) \/ Purged(j))

FairSpec == Spec /\ Fairness

-----------------------------------------------------------------------------
Job == [stage : {"none", "quotes", "users", "targets", "purgeQuotes", "purgeUsers"},
        stats : [Keys -> Nat], at : 0 .. MaxTime]

(* Types: what each variable may hold. *)
TypeOK ==
  /\ now \in 0 .. MaxTime
  /\ up \in BOOLEAN
  /\ memory \in [Keys -> Nat]
  /\ job \in [Jobs -> Job]
  /\ table \in [Keys -> [Instants -> Nat]]
  /\ left \in [{"increments", "faults"} -> Nat]

(* No row is of the future. *)
NothingAfterNow == \A k \in Keys : \A t \in Instants : t > now => table[k][t] = 0

(* A purge carries no counts, and its cutoff is a week old when it is sent.*)
PurgesOldRows ==
  \A j \in Jobs :
    job[j].stage \in {"purgeQuotes", "purgeUsers"} => job[j].stats = Nothing /\ job[j].at <= now - Week

InFlight(k) == SumFunction([j \in Jobs |-> job[j].stats[k]])
AWeekAgo == IF now < Week THEN 0 ELSE now - Week + 1

Counters ==
  INSTANCE LossyCounters WITH
    counted <- MaxIncrements - left.increments,
    pending <- [k \in Keys |-> memory[k] + InFlight(k)],
    stored <- [k \in Keys |-> Between(k, AWeekAgo, now)],
    faults <- <<left.faults, up>>

(* Overlapping runs store each quote at most once, only a failed query or  *)
(* the end of the process loses any, and no purge takes a row younger than *)
(* a week.                                                                 *)
CountersCount == Counters!Spec

(* README.md, "in-memory counters flushed to Postgres every 5s": no buffer *)
(* is held back for ever by an empty one or by a save that failed.         *)
BuffersDrain == \A k \in Keys : memory[k] > 0 ~> memory[k] = 0

Weekly(s, e) == Units[DetermineInterval(s, e)] = AWeek

SumsUp(timeline, s, e) ==
  \A k \in DOMAIN timeline : SumFunction(timeline[k]) = Between(k, s, e)

NoRecords(timeline) ==
  \A k \in DOMAIN timeline : \A bar \in DOMAIN timeline[k] : timeline[k][bar] = 0

(* Where the longest unit can do it. *)
FewBars(timeline, s, e) ==
  e - s <= targetBars * AWeek =>
    \A k \in DOMAIN timeline : Cardinality(DOMAIN timeline[k]) <= targetBars + 1

CountsAll(timeline, s, e) ==
  /\ IF Weekly(s, e) THEN NoRecords(timeline) ELSE SumsUp(timeline, s, e)
  /\ FewBars(timeline, s, e)

(* Whatever start, end and timezone are asked for, the bars of a timeline  *)
(* are few and, unless they are weeks, their records add up to the rows    *)
(* between the two; without a start they add up to the whole table.  Weeks *)
(* start on Sundays in the series and on Mondays in the join: no weekly bar*)
(* counts a row.                                                           *)
TimelineCountsAll ==
  /\ \A s \in 0 .. now : \A e \in s .. now : \A offset \in Offsets :
       /\ CountsAll(GetTimeline(s, e, offset), s, e)
       /\ CountsAll(GetConnectionsTimeline(s, e, offset), s, e)
       /\ CountsAll(GetTargetsTimeline(s, e), s, e)
  /\ \A keys \in {QuoteKeys, UserKeys, TargetKeys} :
       LET oldest == OldestStatsDate(keys)
           timeline == Timeline(keys, oldest, now, 0)
       IN  CountsAll(timeline, oldest, now) /\ (Weekly(oldest, now) \/ SumsUp(timeline, 0, MaxTime))
=============================================================================
