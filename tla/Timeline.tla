------------------------------- MODULE Timeline -------------------------------
(***************************************************************************)
(* The timelines of events on the pages of users-frontend and              *)
(* liquidity-monitor-frontend, and the getTimeline that answers them: bars *)
(* that count rows, a click on a bar that narrows the page to it, answers  *)
(* that arrive in any order.                                               *)
(*                                                                         *)
(* Time counts in the smallest unit.  A timezone may change its offset,    *)
(* once, at Change; the database itself runs in UTC.                       *)
(***************************************************************************)
EXTENDS Integers, Sequences, FiniteSetsExt, Functions

CONSTANTS
  Units,        \* lengths of a second, minute, hour, day and week
  targetBars,
  Zones,        \* timezones of browsers: offsets before and after Change
  Change,
  Kept,         \* age beyond which rows are purged
  Hour, updateInterval,
  DateRanges,   \* what can be chosen above the table: <<start, end>>
  MaxTime, MaxRows, MaxRequests, \* bounds: the clock, rows, requests
  None

VARIABLES
  now,
  rows,      \* instant -> rows created then
  page,      \* the component, and the timezone of its browser
  range,     \* startTime and endTime
  pending,   \* requests under way: the range, and whether it is the last one asked for
  requests,  \* how many there have been
  shown,     \* the data, and the range they are of
  (* History: the bar that was clicked to get this range; whether an answer*)
  (* was overtaken by that of an earlier request, or lost; whether rows    *)
  (* have been purged.                                                     *)
  clicked, stale, purged

view == <<range, pending, requests, shown, clicked, stale>>
vars == <<now, rows, page, view, purged>>

Instants == 0 .. MaxTime
Everything == [from |-> None, to |-> None]

-----------------------------------------------------------------------------
(* getTimeline *)

Offset(zone, t) == IF t < Change THEN zone.before ELSE zone.after

(* Where the unit begins that holds the local time of t. *)
Started(t, unit, zone, shift) ==
  LET local == t + Offset(zone, t)
      start == local - ((local + shift) % unit)
  IN  start - Offset(zone, start - Offset(zone, t))

(* How long before the Monday the week of moment starts: on the Sunday. *)
AWeek == Units[Len(Units)]
Sunday(unit) == IF unit = AWeek THEN Units[Len(Units) - 1] ELSE 0

(* startOf(interval) of moment *)
StartOf(t, unit, zone) == Started(t, unit, zone, Sunday(unit))

(* date_trunc(interval, t, timezone): a week starts on a Monday. *)
DateTrunc(t, unit, zone) == Started(t, unit, zone, 0)

DetermineInterval(s, e) ==
  LET fits == {i \in DOMAIN Units : e - s <= targetBars * Units[i]}
  IN  IF fits = {} THEN Len(Units) ELSE Min(fits)

(* Without a row, the oldest one is of 1970. *)
OldestLogDate ==
  LET dates == {t \in Instants : rows[t] > 0} IN IF dates = {} THEN 0 ELSE Min(dates)

Count(T) == SumFunctionOnSet(rows, T)
Between(s, e) == {t \in Instants : s <= t /\ t <= e}

(* Mutant of Bar: it ends where it starts. *)
BarStart(time, unit, zone, s, e) ==
  [end |-> time, records |-> Count({t \in Between(s, e) : DateTrunc(t, unit, zone) = time})]

(* One line of the query: the left join counts what was created in the     *)
(* interval that starts at time and between the start and the end asked    *)
(* for.                                                                    *)
Bar(time, unit, zone, s, e) ==
  [end |-> time + unit, records |-> Count({t \in Between(s, e) : DateTrunc(t, unit, zone) = time})]

(* Mutant of Series: it ends before the interval of the end. *)
SeriesShort(begin, end, unit) == {t \in begin .. end - 1 : (t - begin) % unit = 0}

(* generate_series, in UTC: it does not follow a change of the offset. *)
Series(begin, end, unit) == {t \in begin .. end : (t - begin) % unit = 0}

(* The bars by the times they start at. *)
GetTimeline(r, zone) ==
  LET s == IF r.from = None THEN OldestLogDate ELSE r.from
      e == IF r.to = None THEN now ELSE r.to
      unit == Units[DetermineInterval(s, e)]
  IN  [time \in Series(StartOf(s, unit, zone), StartOf(e, unit, zone), unit) |-> Bar(time, unit, zone, s, e)]

NoBars == [time \in {} |-> None]

Total(bars) == SumFunction([time \in DOMAIN bars |-> bars[time].records])

-----------------------------------------------------------------------------
(* The pages *)

Asked(r) == {[q EXCEPT !.current = FALSE] : q \in pending} \cup {[range |-> r, current |-> TRUE]}

(* Mutant of SetRange: the effect looks at startTime only. *)
SetRangeByStart(r) ==
  /\ requests < MaxRequests
  /\ range' = r
  /\ IF r.from = range.from THEN UNCHANGED <<pending, requests>> ELSE pending' = Asked(r) /\ requests' = requests + 1
  /\ UNCHANGED <<now, rows, page, shown, stale, purged>>

(* handleDateRangeChange, and the effect that asks for the new range. *)
SetRange(r) ==
  /\ requests < MaxRequests
  /\ range' = r
  /\ IF r = range THEN UNCHANGED <<pending, requests>> ELSE pending' = Asked(r) /\ requests' = requests + 1
  /\ UNCHANGED <<now, rows, page, shown, stale, purged>>

(* The dates chosen above the table of event logs. *)
Choose ==
  /\ page.name # "cards"
  /\ \E r \in {[from |-> d[1], to |-> d[2]] : d \in DateRanges} \cup {Everything} : SetRange(r)
  /\ clicked' = None

(* interval:click *)
Click ==
  /\ page.name # "cards" /\ shown # None
  /\ \E time \in DOMAIN shown.bars :
       LET bar == shown.bars[time]
       IN  /\ SetRange([from |-> time, to |-> bar.end])
           /\ clicked' = [range |-> [from |-> time, to |-> bar.end], records |-> bar.records]

(* The cards move to the last hour. *)
Update ==
  /\ page.name = "cards"
  /\ now % updateInterval = 0
  /\ SetRange([from |-> now - Hour, to |-> now])
  /\ UNCHANGED clicked

Answered(q) ==
  /\ shown' = [range |-> q.range, bars |-> GetTimeline(q.range, page.zone)]
  /\ pending' = pending \ {q}
  /\ stale' = ~q.current
  /\ UNCHANGED <<now, rows, page, range, requests, clicked, purged>>

Failed(q, bars) ==
  /\ shown' = bars
  /\ pending' = pending \ {q}
  /\ stale' = TRUE
  /\ UNCHANGED <<now, rows, page, range, requests, clicked, purged>>

(* No catch: what was shown stays. *)
EventLogsFail(q) == page.name = "eventLogs" /\ Failed(q, shown)
(* An empty chart. *)
QuotesFail(q) == page.name = "quotes" /\ Failed(q, [range |-> q.range, bars |-> NoBars])
ConnectionsFail(q) == page.name = "connections" /\ Failed(q, [range |-> q.range, bars |-> NoBars])
(* An error in place of the cards. *)
CardsFail(q) == page.name = "cards" /\ Failed(q, None)

-----------------------------------------------------------------------------
(* The table *)

(* Saved rows get the time of the database. *)
Create ==
  /\ Count(Instants) < MaxRows
  /\ rows' = [rows EXCEPT ![now] = @ + 1]
  /\ UNCHANGED <<now, page, view, purged>>

DeleteOldRows ==
  /\ \E t \in 0 .. now - Kept : rows[t] > 0
  /\ rows' = [t \in Instants |-> IF t <= now - Kept THEN 0 ELSE rows[t]]
  /\ purged' = TRUE
  /\ UNCHANGED <<now, page, view>>

Tick ==
  /\ now < MaxTime
  /\ now' = now + 1
  /\ UNCHANGED <<rows, page, view, purged>>

-----------------------------------------------------------------------------
Init ==
  /\ now = 0 /\ rows = [t \in Instants |-> 0]
  /\ page \in [name : {"eventLogs", "quotes", "connections", "cards"}, zone : Zones]
  /\ range = Everything
  /\ pending = {[range |-> range, current |-> TRUE]} /\ requests = 1
  /\ shown = None /\ clicked = None /\ stale = FALSE /\ purged = FALSE

Next ==
  \/ Choose \/ Click \/ Update
  \/ \E q \in pending : Answered(q) \/ EventLogsFail(q) \/ QuotesFail(q) \/ ConnectionsFail(q) \/ CardsFail(q)
  \/ Create \/ DeleteOldRows \/ Tick

Spec == Init /\ [][Next]_vars

-----------------------------------------------------------------------------
(* Properties *)

Spans == [from : Int \cup {None}, to : Int \cup {None}]

TypeOK ==
  /\ now \in Instants /\ rows \in [Instants -> Nat]
  /\ page \in [name : {"eventLogs", "quotes", "connections", "cards"}, zone : Zones]
  /\ range \in Spans
  /\ pending \subseteq [range : Spans, current : BOOLEAN]
  /\ {stale, purged} \subseteq BOOLEAN

Steady(s, e) == Offset(page.zone, s) = Offset(page.zone, e)

(* Whatever range is asked for, in whatever timezone, the bars count each  *)
(* row of the range once; unless the offset of the timezone changes within.*)
(* Bars of weeks count no row: the series starts them on Sundays, the join *)
(* on Mondays.  (getTimeline of EventLogsService)                          *)
BarsAddUp ==
  \A s \in Instants : \A e \in s .. now :
    LET zone == page.zone
        unit == Units[DetermineInterval(s, e)]
        total == Total(GetTimeline([from |-> s, to |-> e], zone))
    IN  /\ unit = AWeek => total = 0
        /\ unit # AWeek /\ Offset(zone, StartOf(s, unit, zone)) = Offset(zone, e) => total = Count(Between(s, e))

(* A bar is as long as a unit, and starts where one does. *)
IsBar(start, end) ==
  \E unit \in Range(Units) :
    /\ start \in Int /\ end = start + unit
    /\ \E offset \in {page.zone.before, page.zone.after} : (start + offset + Sunday(unit)) % unit = 0

(* The rows that a bar has counted are still between its ends. *)
Holds(start, end, records) ==
  /\ IsBar(start, end)
  /\ records \in Nat /\ (end = start + AWeek => records = 0)
  /\ purged \/ (Steady(start - Hour, end) => records <= Count(Between(start, end)))

BarsHold ==
  shown # None =>
    /\ IsFiniteSet(DOMAIN shown.bars)
    /\ \A time \in DOMAIN shown.bars : Holds(time, shown.bars[time].end, shown.bars[time].records)

ClickedHolds == clicked # None => Holds(clicked.range.from, clicked.range.to, clicked.records)

(* The last range is asked for, or shown, or a failure is. *)
CurrentIsAsked ==
  /\ \A q \in pending : q.current => q.range = range
  /\ stale \/ (\E q \in pending : q.current) \/ shown.range = range

(* A click on a bar leads to a timeline that has all of its records, and is*)
(* not coarser.  (onReady of the timelines, with getTimeline)              *)
ZoomKeepsRecords ==
  clicked # None /\ shown # None /\ shown.range = clicked.range /\ Steady(clicked.range.from - Hour, clicked.range.to) =>
    \/ stale \/ purged
    \/ Total(shown.bars) >= clicked.records

(* When every request has been answered in its turn, the bars are of the   *)
(* range that the page says.                                               *)
(* (the effects of EventLogsTimeline, QuotesStatisticTimeline and the cards)*)
ShownIsOfRange == pending = {} /\ ~stale => shown.range = range
=============================================================================
