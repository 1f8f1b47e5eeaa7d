------------------------------ MODULE RecordView ------------------------------
(***************************************************************************)
(* The description of one record in common-frontend: fetched by its page,  *)
(* once, or given by the popup of a table, and edited field by field.      *)
(*                                                                         *)
(* Each field is edited on its own, and saves may overlap; a save sends    *)
(* the field and shows the record that it came with.                       *)
(***************************************************************************)
EXTENDS Integers, FiniteSets

CONSTANTS
  Ids, Fields, Values,
  MaxEdits,     \* bound: edits of the user, changes of others and of the path
  None

VARIABLES
  server,       \* id -> record
  use,          \* "page", with getOne, or "popup", with an entity
  path,         \* the record meant: pathParams, or the entity
  data,         \* what is shown: a record, or None
  fetch,        \* the fetch under way: the id asked for, or None
  saves,        \* onSave calls under way: field, record, id, and whether the server has it
  edits,        \* edits left
  clean         \* history: saves did not overlap, nobody else saved, the record stayed,
                \* and no answer of the server was lost

vars == <<server, use, path, data, fetch, saves, edits, clean>>

Edit == edits > 0 /\ edits' = edits - 1

-----------------------------------------------------------------------------
(* requestData, on mount: shown, or not found. *)
FetchAnswered ==
  /\ fetch # None
  /\ data' = server[fetch]
  /\ fetch' = None
  /\ UNCHANGED <<server, use, path, saves, edits, clean>>

FetchFails ==
  /\ fetch # None
  /\ data' = None
  /\ fetch' = None
  /\ UNCHANGED <<server, use, path, saves, edits, clean>>

(* The popup gets another entity, which it shows; saves of the one before  *)
(* go on.                                                                  *)
EntityChanges ==
  /\ use = "popup" /\ Edit
  /\ \E i \in Ids : path' = i /\ data' = server[i]
  /\ clean' = (saves = {})
  /\ UNCHANGED <<server, use, fetch, saves>>

(* The page gets another path: saves go there, but nothing is fetched.     *)
PathChanges ==
  /\ use = "page" /\ Edit
  /\ \E i \in Ids \ {path} : path' = i
  /\ clean' = FALSE
  /\ UNCHANGED <<server, use, data, fetch, saves>>

(* onSave, of a value that is valid. *)
OnSave(f, v) ==
  /\ Edit /\ fetch = None /\ data # None
  /\ \A s \in saves : s.field # f
  /\ saves' = saves \cup {[field |-> f, record |-> [data EXCEPT ![f] = v], id |-> path, served |-> FALSE]}
  /\ clean' = (clean /\ saves = {})
  /\ UNCHANGED <<server, use, path, data, fetch>>

SaveServed(s) ==
  /\ ~s.served
  /\ server' = [server EXCEPT ![s.id][s.field] = s.record[s.field]]
  /\ saves' = (saves \ {s}) \cup {[s EXCEPT !.served = TRUE]}
  /\ UNCHANGED <<use, path, data, fetch, edits, clean>>

SaveAnswered(s) ==
  /\ s.served
  /\ data' = s.record
  /\ saves' = saves \ {s}
  /\ UNCHANGED <<server, use, path, fetch, edits, clean>>

(* Mutant of SaveFails: what was typed is shown all the same. *)
SaveFailsShown(s) ==
  /\ data' = s.record
  /\ saves' = saves \ {s}
  /\ clean' = (clean /\ ~s.served)
  /\ UNCHANGED <<server, use, path, fetch, edits>>

(* The catch of onSave: the server has refused it, or has it and only the  *)
(* answer is lost.                                                         *)
SaveFails(s) ==
  /\ saves' = saves \ {s}
  /\ clean' = (clean /\ ~s.served)
  /\ UNCHANGED <<server, use, path, data, fetch, edits>>

OthersSave ==
  /\ Edit
  /\ \E i \in Ids, f \in Fields, v \in Values : server' = [server EXCEPT ![i][f] = v]
  /\ clean' = FALSE
  /\ UNCHANGED <<use, path, data, fetch, saves>>

-----------------------------------------------------------------------------
Init ==
  /\ server \in [Ids -> [Fields -> Values]]
  /\ use \in {"page", "popup"} /\ path \in Ids
  /\ data = IF use = "popup" THEN server[path] ELSE None
  /\ fetch = IF use = "page" THEN path ELSE None
  /\ saves = {} /\ edits = MaxEdits /\ clean = TRUE

Next ==
  \/ FetchAnswered \/ FetchFails \/ EntityChanges \/ PathChanges \/ OthersSave
  \/ \E f \in Fields, v \in Values : OnSave(f, v)
  \/ \E s \in saves : SaveServed(s) \/ SaveAnswered(s) \/ SaveFails(s)

Spec == Init /\ [][Next]_vars

-----------------------------------------------------------------------------
(* Properties *)

(* What is shown, once nothing is under way, is what the server holds of   *)
(* the record, unless saves overlapped, others saved, the record was       *)
(* exchanged under a save or under its page, or a save was stored whose    *)
(* answer was lost: the value from before it is shown on.                  *)
(* (onSave, requestData and the entity effect of Descriptions)             *)
ShownIsSaved == clean /\ saves = {} /\ fetch = None /\ data # None => data = server[path]

(* The shape of records, saves and the state. *)
Records == [Fields -> Values]
Save == [field : Fields, record : Records, id : Ids, served : BOOLEAN]

TypeOK ==
  /\ server \in [Ids -> Records] /\ path \in Ids
  /\ data \in Records \cup {None} /\ fetch \in Ids \cup {None}
  /\ saves \subseteq Save

(* The record is fetched once, by its page, before anything is saved. *)
FetchedFirst ==
  /\ fetch # None => use = "page" /\ saves = {}
  /\ fetch # None /\ clean => fetch = path

(* A save by itself is of the record in sight: until it is served that is  *)
(* what the server holds, and then its own record is.                      *)
SavesByItself(s) ==
  /\ saves = {s} /\ s.id = path
  /\ IF s.served THEN s.record = server[path]
     ELSE data = server[path] /\ s.record = [server[path] EXCEPT ![s.field] = s.record[s.field]]
=============================================================================
