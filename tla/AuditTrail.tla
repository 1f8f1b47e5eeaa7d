------------------------------ MODULE AuditTrail ------------------------------
(***************************************************************************)
(* AuditLogBaseService of users-backend: a CRUD service that writes down   *)
(* what it has done to a record, old and new values, after it has done it. *)
(*                                                                         *)
(* Each operation is a chain of awaited queries; those of concurrent       *)
(* requests interleave, any of them can fail, and the process can end.     *)
(* TypeORM saves an entity by comparing it with the row: fields that differ*)
(* are written, and a row that is gone is inserted.                        *)
(***************************************************************************)
EXTENDS Integers, Sequences, FiniteSets

CONSTANTS
  Ids,
  Fields, Values,
  Requests,
  None

VARIABLES
  rows,       \* the table: id -> field -> value, or None
  used,       \* ids that were given to a record
  trail,      \* audit_logs
  operation,  \* what each request has got to
  (* History: ids whose operations overlapped, or were left halfway. *)
  overlapped, halfway

history == <<overlapped, halfway>>
vars == <<rows, used, trail, operation, history>>

Records == [Fields -> Values]
Changes == UNION {[F -> Values] : F \in (SUBSET Fields) \ {{}}}
NoOperation == [stage |-> "idle"]
Done == [stage |-> "done"]

Log(action, id, old, new) == [action |-> action, id |-> id, old |-> old, new |-> new]
IdsOf(q) == IF operation[q].stage \in {"idle", "done"} THEN {} ELSE operation[q].ids
Busy == UNION {IdsOf(q) : q \in Requests}

(* An operation on ids begins; it overlaps those under way. *)
Begin(q, op) ==
  /\ operation[q] = NoOperation
  /\ operation' = [operation EXCEPT ![q] = op]
  /\ overlapped' = overlapped \cup (op.ids \cap Busy)
  /\ UNCHANGED halfway

Continue(q, stage, op) == operation[q].stage = stage /\ operation' = [operation EXCEPT ![q] = op]

-----------------------------------------------------------------------------
(* super.createOne: the record is inserted. *)
CreateOne(q, id) ==
  /\ id \notin used /\ used' = used \cup {id}
  /\ \E new \in Records :
       /\ rows' = [rows EXCEPT ![id] = new]
       /\ Begin(q, [stage |-> "audit", ids |-> {id}, logs |-> <<Log("CREATE", id, None, new)>>])
  /\ UNCHANGED trail

(* super.createMany; the logs are given no action. *)
CreateMany(q) ==
  /\ Ids \cap used = {} /\ used' = Ids
  /\ \E new \in Records :
       /\ rows' = [id \in Ids |-> new]
       /\ Begin(q, [stage |-> "unaudited", ids |-> Ids])
  /\ UNCHANGED trail

(* getOneOrFail, for an update of some fields or a deletion. *)
UpdateOne(q, id) ==
  /\ rows[id] # None
  /\ \E dto \in Changes :
       Begin(q, [stage |-> "save", ids |-> {id}, id |-> id, found |-> rows[id], dto |-> dto])
  /\ UNCHANGED <<rows, used, trail>>

DeleteOne(q, id) ==
  /\ rows[id] # None
  /\ Begin(q, [stage |-> "remove", ids |-> {id}, id |-> id, found |-> rows[id]])
  /\ UNCHANGED <<rows, used, trail>>

(* repo.save: what was found, and what the request changes of it. *)
Save(q) ==
  LET op == operation[q] IN
  /\ Continue(q, "save", [op EXCEPT !.stage = "reread"])
  /\ rows' = [rows EXCEPT ![op.id] = [f \in Fields |-> IF f \in DOMAIN op.dto THEN op.dto[f] ELSE op.found[f]]]
  /\ UNCHANGED <<used, trail, history>>

(* Mutant of Reread: the record that was found is the one that was changed.*)
RereadAliased(q) ==
  LET op == operation[q] IN
  /\ operation[q].stage = "reread" /\ rows[op.id] # None
  /\ Continue(q, "reread", [stage |-> "audit", ids |-> op.ids, logs |-> <<Log("UPDATE", op.id, rows[op.id], rows[op.id])>>])
  /\ UNCHANGED <<rows, used, trail, history>>

(* The result is read anew; a record that is gone again is not found.      *)
Reread(q) ==
  LET op == operation[q] IN
  /\ operation[q].stage = "reread" /\ rows[op.id] # None
  /\ Continue(q, "reread", [stage |-> "audit", ids |-> op.ids, logs |-> <<Log("UPDATE", op.id, op.found, rows[op.id])>>])
  /\ UNCHANGED <<rows, used, trail, history>>

Remove(q) ==
  LET op == operation[q] IN
  /\ Continue(q, "remove", [stage |-> "audit", ids |-> op.ids, logs |-> <<Log("DELETE", op.id, op.found, None)>>])
  /\ rows' = [rows EXCEPT ![op.id] = None]
  /\ UNCHANGED <<used, trail, history>>

(* Mutant of CreateAuditLog: the row is never written. *)
CreateAuditLogDropped(q) ==
  /\ operation[q].stage = "audit"
  /\ Continue(q, "audit", Done)
  /\ UNCHANGED <<rows, used, trail, history>>

(* createAuditLog *)
CreateAuditLog(q) ==
  /\ operation[q].stage = "audit"
  /\ trail' = trail \o operation[q].logs
  /\ Continue(q, "audit", Done)
  /\ UNCHANGED <<rows, used, history>>

(* A query fails, or the process ends: what was done stays done.  The logs *)
(* of createMany are refused for want of an action.                        *)
Fails(q) ==
  /\ operation[q].stage \notin {"idle", "done"}
  /\ operation' = [operation EXCEPT ![q] = Done]
  /\ halfway' = halfway \cup (IF operation[q].stage \in {"save", "remove"} THEN {} ELSE operation[q].ids)
  /\ UNCHANGED <<rows, used, trail, overlapped>>

-----------------------------------------------------------------------------
Init ==
  /\ rows = [id \in Ids |-> None]
  /\ used = {} /\ trail = <<>> /\ overlapped = {} /\ halfway = {}
  /\ operation = [q \in Requests |-> NoOperation]

Next ==
  \E q \in Requests :
    \/ \E id \in Ids : CreateOne(q, id) \/ UpdateOne(q, id) \/ DeleteOne(q, id)
    \/ CreateMany(q) \/ Save(q) \/ Reread(q) \/ Remove(q) \/ CreateAuditLog(q) \/ Fails(q)

Spec == Init /\ [][Next]_vars

-----------------------------------------------------------------------------
(* Properties *)

Logs == [action : {"CREATE", "UPDATE", "DELETE"}, id : Ids, old : Records \cup {None}, new : Records \cup {None}]
Removals == {op \in [stage : {"remove"}, ids : SUBSET Ids, id : Ids, found : Records] : op.ids = {op.id}}
Updates == {op \in [stage : {"save", "reread"}, ids : SUBSET Ids, id : Ids, found : Records, dto : Changes] :
              op.ids = {op.id}}
Audits == {[stage |-> "audit", ids |-> {log.id}, logs |-> <<log>>] : log \in Logs}
Operations ==
  {NoOperation, Done, [stage |-> "unaudited", ids |-> Ids]} \cup Removals \cup Updates \cup Audits

TypeOK ==
  /\ rows \in [Ids -> Records \cup {None}]
  /\ operation \in [Requests -> Operations]
  /\ trail \in Seq(Logs)
  /\ used \cup overlapped \cup halfway \subseteq Ids

(* The first n logs leave a record in this state. *)
Leaves(id, n, state) ==
  \/ \E m \in 1 .. n : /\ trail[m].id = id /\ trail[m].new = state
                       /\ \A k \in m + 1 .. n : trail[k].id # id
  \/ state = None /\ \A m \in 1 .. n : trail[m].id # id

Continues(id) == \A n \in DOMAIN trail : trail[n].id = id => Leaves(id, n - 1, trail[n].old)
IsLogged(id) == \E n \in DOMAIN trail : trail[n].id = id /\ trail[n].new = rows[id]

(* The trail of a record whose operations did not overlap and all came to  *)
(* an end tells its whole history: each log starts from what the one before*)
(* it left, and the last one leaves what the table holds.                  *)
(* (AuditLogBaseService)                                                   *)
TrailTellsHistory ==
  \A id \in Ids \ (overlapped \cup halfway \cup Busy) :
    Continues(id) /\ Leaves(id, Len(trail), rows[id])

(* Where operations overlap, one may overwrite what another has done and   *)
(* the logs may come in another order; yet the state that comes of it has  *)
(* been logged by whoever wrote it, unless an operation was left halfway.  *)
(* (updateOne rereads what it logs, deleteOne logs after it)               *)
OutcomeIsLogged ==
  \A id \in used \ (halfway \cup Busy) : IsLogged(id)

(* An id that was not given to a record has none, and no trail. *)
UnusedIsUntouched ==
  /\ Busy \subseteq used
  /\ \A n \in DOMAIN trail : trail[n].id \in used
  /\ \A id \in Ids \ used : rows[id] = None

(* The one operation under way on a record has found it as the trail leaves*)
(* it, and will log it as it is.                                           *)
AloneItContinues(id) ==
  /\ Continues(id)
  /\ id \notin Busy => Leaves(id, Len(trail), rows[id])
  /\ \A q \in Requests : id \in IdsOf(q) =>
       LET op == operation[q] IN
       /\ \A p \in Requests : id \in IdsOf(p) => p = q
       /\ op.stage \in {"save", "remove"} => Leaves(id, Len(trail), rows[id])
       /\ op.stage \in {"save", "remove", "reread"} => Leaves(id, Len(trail), op.found)
       /\ op.stage = "audit" => Leaves(id, Len(trail), op.logs[1].old) /\ op.logs[1].new = rows[id]

(* The operation that wrote the record will log it, or is left halfway. *)
Owes(q, id) ==
  /\ id \in IdsOf(q) /\ operation[q].stage \in {"unaudited", "reread", "audit"}
  /\ operation[q].stage = "audit" => operation[q].logs[1].new = rows[id]
=============================================================================
