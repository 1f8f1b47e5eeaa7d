-------------------------- MODULE PermissionSwitches --------------------------
(***************************************************************************)
(* PermissionsList of users-frontend: the switches of a user's permissions.*)
(* A toggle is shown at once, the server is sent the whole set, and what   *)
(* it answers, or what was shown before when it fails, replaces the set.   *)
(*                                                                         *)
(* The spinner covers the switches but disables none: the keyboard still   *)
(* reaches one while a request is under way.                               *)
(***************************************************************************)
EXTENDS Naturals, FiniteSets

CONSTANTS
  Permissions,
  MaxRequests,   \* bound: requests under way at once
  MaxChanges     \* bound: toggles, and changes by others

VARIABLES
  role,          \* of the user whose permissions they are
  canManageAll,  \* of the user in front of the page
  stored,        \* the permissions on the server
  permissionsSet,
  loading,
  requests,      \* updates under way
  changes,
  disturbed      \* history: another change came between one of this page and its answer

fixed == <<role, canManageAll>>
vars == <<role, canManageAll, stored, permissionsSet, loading, requests, changes, disturbed>>

Change == changes < MaxChanges /\ changes' = changes + 1
Flipped(S, p) == IF p \in S THEN S \ {p} ELSE S \cup {p}

-----------------------------------------------------------------------------
DisabledSwitch == role = "ADMIN" \/ ~canManageAll
IsGranted(p) == role = "ADMIN" \/ p \in permissionsSet

TogglePermission(p) ==
  /\ ~DisabledSwitch /\ Change /\ Cardinality(requests) < MaxRequests
  /\ loading' = TRUE
  /\ permissionsSet' = Flipped(permissionsSet, p)
  /\ requests' = requests \cup
       {[toggled |-> p, sent |-> permissionsSet', before |-> permissionsSet, served |-> FALSE]}
  /\ disturbed' = (disturbed \/ requests # {})
  /\ UNCHANGED <<fixed, stored>>

(* The update of the server, which takes the set as it is sent, and answers with it. *)
Served(q) ==
  /\ ~q.served
  /\ stored' = q.sent
  /\ requests' = (requests \ {q}) \cup {[q EXCEPT !.served = TRUE]}
  /\ UNCHANGED <<fixed, permissionsSet, loading, changes, disturbed>>

Answered(q) ==
  /\ q.served
  /\ permissionsSet' = q.sent
  /\ loading' = FALSE
  /\ requests' = requests \ {q}
  /\ disturbed' = (requests' # {} \/ q.sent # stored)
  /\ UNCHANGED <<fixed, stored, changes>>

(* Mutant of Failed: the switch stays where it was put. *)
FailedAsToggled(q) ==
  /\ loading' = FALSE
  /\ requests' = requests \ {q}
  /\ disturbed' = (disturbed \/ q.served)
  /\ UNCHANGED <<fixed, stored, permissionsSet, changes>>

(* The server refuses, or its answer is lost. *)
Failed(q) ==
  /\ permissionsSet' = q.before
  /\ loading' = FALSE
  /\ requests' = requests \ {q}
  /\ disturbed' = (disturbed \/ q.served)
  /\ UNCHANGED <<fixed, stored, changes>>

OthersChange(p) ==
  /\ Change
  /\ stored' = Flipped(stored, p)
  /\ disturbed' = TRUE
  /\ UNCHANGED <<fixed, permissionsSet, loading, requests>>

-----------------------------------------------------------------------------
Init ==
  /\ role \in {"ADMIN", "USER"} /\ canManageAll \in BOOLEAN
  /\ stored \in SUBSET Permissions /\ permissionsSet = stored
  /\ loading = FALSE /\ requests = {} /\ changes = 0 /\ disturbed = FALSE

Next ==
  \/ \E p \in Permissions : TogglePermission(p) \/ OthersChange(p)
  \/ \E q \in requests : Served(q) \/ Answered(q) \/ Failed(q)

Spec == Init /\ [][Next]_vars

-----------------------------------------------------------------------------
(* Properties *)

(* When nothing is under way the switches are as the server has them, also *)
(* after updates that failed; unless changes have overlapped, or an answer *)
(* was lost.  (PermissionsList)                                            *)
SwitchesAreStored ==
  requests = {} /\ ~disturbed /\ role = "USER" => {p \in Permissions : IsGranted(p)} = stored

(* The whole set is sent, and yet it changes the one permission that was   *)
(* toggled; unless changes have overlapped.  (PermissionsList)             *)
OneToggleOneChange ==
  \A q \in requests : ~q.served /\ ~disturbed => q.sent = Flipped(stored, q.toggled)

(* The shape of an update and of the state. *)
Update == [toggled : Permissions, sent : SUBSET Permissions, before : SUBSET Permissions, served : BOOLEAN]

TypeOK ==
  /\ stored \cup permissionsSet \subseteq Permissions
  /\ requests \subseteq Update

(* While no change has overlapped another, the page remembers what is      *)
(* stored: in its switches, or in the one update under way.                *)
StoredIsRemembered ==
  ~disturbed =>
    /\ requests = {} => permissionsSet = stored
    /\ \A q \in requests : requests = {q}
    /\ \A q \in requests : ~q.served => q.before = stored /\ q.sent = Flipped(stored, q.toggled)
=============================================================================
