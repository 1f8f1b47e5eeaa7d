---------------------------- MODULE StatisticCards ----------------------------
(***************************************************************************)
(* The cards of liquidity-monitor-frontend that show the connections of    *)
(* the last hour, one for each user or target the page names.  The page    *)
(* may come to know them later; the hour moves on with an interval, if     *)
(* there is one.                                                           *)
(***************************************************************************)
EXTENDS Naturals, FiniteSets

CONSTANTS
  Named,        \* ids of users or targets the page may name
  MaxWindows,   \* bound: how often the hour moves on
  MaxPending,   \* bound: requests under way at once
  None

VARIABLES
  kind,            \* "users" or "targets"
  updateInterval,  \* whether there is one
  named,           \* users or targets: undefined is None
  window,          \* which last hour: startTime and endTime
  pending,         \* requests under way: the hour, and who it asks for
  data,            \* null is None; the rows of an answer, without any after a failure
  late             \* history: targets were named after their request was due

page == <<kind, updateInterval>>
vars == <<kind, updateInterval, named, window, pending, data, late>>

-----------------------------------------------------------------------------
(* getUsersConnectionsStatistic asks for everyone. *)
UsersRequest(w) == {[window |-> w, ids |-> Named]}

(* getTargetsConnectionsStatistic asks for nothing without a target. *)
TargetsRequest(ids, w) == IF ids \in {None, {}} THEN {} ELSE {[window |-> w, ids |-> ids]}

Request(k, ids, w) == IF k = "users" THEN UsersRequest(w) ELSE TargetsRequest(ids, w)

(* The effect that asks depends on the hour alone. *)
NameOthers ==
  /\ named' \in SUBSET Named
  /\ named' # named
  /\ late' = (late \/ kind = "targets")
  /\ UNCHANGED <<page, window, pending, data>>

(* The interval: the hour moves on, and the effect asks for it. *)
Update ==
  /\ updateInterval /\ window < MaxWindows /\ Cardinality(pending) < MaxPending
  /\ window' = window + 1
  /\ pending' = pending \cup Request(kind, named, window')
  /\ late' = FALSE
  /\ UNCHANGED <<page, named, data>>

Answered(q) ==
  /\ \E rows \in SUBSET q.ids : data' = rows
  /\ pending' = pending \ {q}
  /\ UNCHANGED <<page, named, window, late>>

(* Mutant of Fails: a failure is only logged. *)
FailsSilently(q) ==
  /\ pending' = pending \ {q}
  /\ UNCHANGED <<page, named, window, data, late>>

Fails(q) ==
  /\ data' = {}
  /\ pending' = pending \ {q}
  /\ UNCHANGED <<page, named, window, late>>

-----------------------------------------------------------------------------
UsersLoading == data = None \/ named = None
TargetsLoading == named \notin {None, {}} /\ data = None

Init ==
  /\ kind \in {"users", "targets"} /\ updateInterval \in BOOLEAN
  /\ named \in {None} \cup SUBSET Named
  /\ window = 0
  /\ pending = Request(kind, named, window)
  /\ data = None /\ late = FALSE

Next == NameOthers \/ Update \/ \E q \in pending : Answered(q) \/ Fails(q)

Spec == Init /\ [][Next]_vars

-----------------------------------------------------------------------------
(* Properties *)

TypeOK ==
  /\ kind \in {"users", "targets"} /\ updateInterval \in BOOLEAN /\ late \in BOOLEAN
  /\ named \in {None} \cup SUBSET Named /\ data \in {None} \cup SUBSET Named
  /\ window \in Nat
  /\ pending \subseteq [window : Nat, ids : SUBSET Named]

(* Until the first answer there is a request, or a reason for none. *)
NothingYetIsAwaited ==
  data = None => pending # {} \/ (kind = "targets" /\ (named \in {None, {}} \/ updateInterval \/ late))

(* Cards that show a spinner wait for something: an answer under way, the  *)
(* next turn of the interval, or users that the page is yet to name; unless*)
(* their targets were named only after the request would have been made.   *)
(* (UsersConnectionsStatisticCards, TargetsConnectionsStatisticCards)      *)
SpinnerAwaitsAnAnswer ==
  (IF kind = "users" THEN UsersLoading ELSE TargetsLoading) =>
    \/ pending # {} \/ updateInterval
    \/ kind = "users" /\ named = None
    \/ late
=============================================================================
