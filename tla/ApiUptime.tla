------------------------------ MODULE ApiUptime ------------------------------
(***************************************************************************)
(* ApiStatisticService: the times a service was up.                        *)
(*                                                                         *)
(* A process writes one row when its module starts and moves the end of    *)
(* its period with every heartbeat and when it is stopped.  The processes  *)
(* share the table and the name of the service.  A heartbeat takes the     *)
(* time first and updates later, so two of one process may overtake each   *)
(* other.  A round trip to the database takes longer than the resolution   *)
(* of the clock.                                                           *)
(***************************************************************************)
EXTENDS Naturals, FiniteSets

CONSTANTS
    Processes,   \* processes of one service (model values)
    MaxTime,     \* bound: ticks of the clock
    MaxRuns      \* bound: rows ever written

VARIABLES
    now,      \* the clock
    rows,     \* the table: the period of each row, to = Infinity while it is open
    process,  \* per process: whether it runs, its row and the updates under way
    runs      \* history, per row: when its process ended

vars == <<now, rows, process, runs>>

Infinity == MaxTime + 1
Ids == 1..MaxRuns
Times == 0..MaxTime
Stopped == [state |-> "stopped", lastInsertedId |-> 0, start |-> 0, updates |-> {}]

Row == [id : Ids, from : Times, to : 0..Infinity]
Process == [state : {"stopped", "starting", "running", "stopping"},
            lastInsertedId : {0} \cup Ids, start : Times, updates : SUBSET Times]

TypeOK ==
    /\ now \in Times
    /\ rows \subseteq Row
    /\ process \in [Processes -> Process]
    /\ runs \in [Ids -> 0..Infinity]

-----------------------------------------------------------------------------
OnModuleInit(p) ==
    /\ process[p].state = "stopped" /\ Cardinality(rows) < MaxRuns
    /\ process' = [process EXCEPT ![p] = [Stopped EXCEPT !.state = "starting", !.start = now]]
    /\ UNCHANGED <<now, rows, runs>>

Saved(p) ==
    /\ process[p].state = "starting" /\ now > process[p].start
    /\ Cardinality(rows) < MaxRuns
    /\ LET id == Cardinality(rows) + 1 IN
        /\ rows' = rows \cup {[id |-> id, from |-> process[p].start, to |-> Infinity]}
        /\ process' = [process EXCEPT ![p].state = "running", ![p].lastInsertedId = id]
    /\ UNCHANGED <<now, runs>>

\* Every five seconds; a process without a row has nothing to extend
UpdateUptimeStatistic(p) ==
    /\ process[p].state = "running" /\ process[p].lastInsertedId # 0
    /\ process' = [process EXCEPT ![p].updates = @ \cup {now}]
    /\ UNCHANGED <<now, rows, runs>>

\* Mutant of Extended: the rows of the service instead of the row of the process
ExtendedByName(id, r) == TRUE

Extended(id, r) == r.id = id

\* The update sets the end of the row, whatever it was
Update(p) ==
    /\ \E t \in process[p].updates :
        /\ rows' = {IF Extended(process[p].lastInsertedId, r) THEN [r EXCEPT !.to = t] ELSE r : r \in rows}
        /\ process' = [process EXCEPT ![p].updates = @ \ {t}]
    /\ UNCHANGED <<now, runs>>

\* A heartbeat that fails is logged by the scheduler
UpdateFails(p) ==
    /\ \E t \in process[p].updates : process' = [process EXCEPT ![p].updates = @ \ {t}]
    /\ UNCHANGED <<now, rows, runs>>

OnModuleDestroy(p) ==
    /\ process[p].state = "running"
    /\ process' = [process EXCEPT ![p].state = "stopping", ![p].updates = @ \cup {now}]
    /\ UNCHANGED <<now, rows, runs>>

End(p) ==
    /\ process[p].state # "stopped"
    /\ process[p].state = "stopping" => process[p].updates = {}
    /\ process' = [process EXCEPT ![p] = Stopped]
    /\ runs' = [id \in Ids |-> IF process[p].lastInsertedId = id
                               THEN now ELSE runs[id]]
    /\ UNCHANGED <<now, rows>>

Crash(p) == process[p].state \in {"starting", "running"} /\ End(p)
Exit(p) == process[p].state = "stopping" /\ End(p)

Tick ==
    /\ now < MaxTime /\ now' = now + 1
    /\ UNCHANGED <<rows, process, runs>>

-----------------------------------------------------------------------------
Init ==
    /\ now = 0
    /\ rows = {}
    /\ process = [p \in Processes |-> Stopped]
    /\ runs = [id \in Ids |-> Infinity]

Next ==
    \/ Tick
    \/ \E p \in Processes :
        \/ OnModuleInit(p) \/ Saved(p) \/ UpdateUptimeStatistic(p) \/ Update(p)
        \/ UpdateFails(p) \/ OnModuleDestroy(p) \/ Crash(p) \/ Exit(p)

-----------------------------------------------------------------------------
(* Properties *)

\* Each row has an id of its own, given out in order; a row no process has
\* written yet is of no process that ended
RowsAreNumbered ==
    /\ IsFiniteSet(rows) /\ Cardinality(rows) <= MaxRuns
    /\ \A r \in rows : r.id <= Cardinality(rows)
    /\ \A r, s \in rows : r.id = s.id => r = s
    /\ \A id \in Ids : id > Cardinality(rows) => runs[id] = Infinity

\* A process has a row from when it was saved until it ends, and shares it with
\* no other process
OwnsItsRow(p) ==
    LET id == process[p].lastInsertedId IN
    IF process[p].state \in {"running", "stopping"}
    THEN /\ id \in 1..Cardinality(rows) /\ runs[id] = Infinity
         /\ \A o \in Processes \ {p} : process[o].lastInsertedId # id
    ELSE id = 0 /\ process[p].updates = {}

\* Its updates have times it has lived through, after it started
UpdatesAreOfItsLife(p) ==
    /\ process[p].start <= now
    /\ \A t \in process[p].updates : t <= now
    /\ \A r \in rows : r.id = process[p].lastInsertedId =>
         r.from < now /\ \A t \in process[p].updates : r.from < t

\* A period that has an end is within the life of its own process: not empty,
\* and over when the process was; crashes, restarts and the heartbeats of the
\* other processes of the service do not stretch it
PeriodIsOfItsProcess ==
    \A r \in rows : r.to # Infinity => r.from < r.to /\ r.to <= runs[r.id] /\ r.to <= now
=============================================================================
