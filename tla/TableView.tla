------------------------------ MODULE TableView ------------------------------
(***************************************************************************)
(* A table of common-frontend between its user and its server: requests    *)
(* that answer late or not at all, rows ticked for a bulk change, the      *)
(* dialogs that confirm one, rows edited in line and in popups.            *)
(*                                                                         *)
(* A row is a value, a filter admits a set of values, and an id is never   *)
(* given twice.  ProTable shows the answer of the last request it issued   *)
(* and drops those of the earlier ones, which have run our request anyway. *)
(***************************************************************************)
EXTENDS Integers, FiniteSets, FiniteSetsExt

CONSTANTS
  Ids,          \* ids of the rows
  Values,
  Filters,      \* name -> the values it admits
  MaxPending,   \* requests under way at once
  None

Unused == "unused"
Gone == "gone"

VARIABLES
  rows,         \* the server: id -> value, Unused or Gone
  filter,       \* what the toolbar filters by
  pending,      \* requests under way: filter, and whether it is the last one issued
  shown,        \* ids of the rows in sight
  lastRequest,  \* the query answered last, and the ids answered
  selected,     \* selectedRecords
  allSelected,
  dialog,       \* the bulk dialog on the screen, and what it has counted: None once an answer arrived
  operation,    \* the bulk change under way, and whether it is what its dialog had counted
  popup,        \* the row or the form being edited
  fresh         \* history: the rows in sight are those of an answer, but for what others changed

vars == <<rows, filter, pending, shown, lastRequest, selected, allSelected, dialog, operation, popup, fresh>>
serverVars == <<rows>>
tableVars == <<filter, pending, shown, lastRequest, fresh>>
selectionVars == <<selected, allSelected>>

Live == {i \in Ids : rows[i] \in Values}
Matching(f) == {i \in Live : rows[i] \in Filters[f]}

-----------------------------------------------------------------------------
(* Requests *)

(* Mutant of Issued: the requests before are shown, too. *)
IssuedBeside(requests, f) == requests \cup {[filter |-> f, current |-> TRUE]}

(* A request supersedes the ones before it. *)
Issued(requests, f) ==
  {[r EXCEPT !.current = FALSE] : r \in requests} \cup {[filter |-> f, current |-> TRUE]}

Room == Cardinality(pending) < MaxPending

ChangeFilter ==
  /\ Room /\ dialog = None /\ popup = None
  /\ \E f \in DOMAIN Filters \ {filter} :
       /\ filter' = f
       /\ pending' = Issued(pending, f)
  /\ UNCHANGED <<rows, shown, lastRequest, selected, allSelected, dialog, operation, popup, fresh>>

(* The effect of new parameters, the reload button. *)
Reload ==
  /\ Room
  /\ pending' = Issued(pending, filter)
  /\ UNCHANGED <<rows, filter, shown, lastRequest, selected, allSelected, dialog, operation, popup, fresh>>

Overtaken(d) == IF d = None THEN d ELSE [d EXCEPT !.counted = None]

(* Mutant of Answer: what is ticked is kept. *)
AnswerKeepsTicks(r) ==
  /\ pending' = pending \ {r}
  /\ lastRequest' = [filter |-> r.filter, data |-> Matching(r.filter)]
  /\ shown' = IF r.current THEN Matching(r.filter) ELSE shown
  /\ fresh' = (fresh \/ r.current)
  /\ dialog' = Overtaken(dialog)
  /\ UNCHANGED <<rows, filter, selected, allSelected, operation, popup>>

(* The answer of request: nothing is ticked any more, but "all" stays. *)
Answer(r) ==
  /\ pending' = pending \ {r}
  /\ selected' = {}
  /\ lastRequest' = [filter |-> r.filter, data |-> Matching(r.filter)]
  /\ shown' = IF r.current THEN Matching(r.filter) ELSE shown
  /\ fresh' = (fresh \/ r.current)
  /\ dialog' = Overtaken(dialog)
  /\ UNCHANGED <<rows, filter, allSelected, operation, popup>>

AnswerFails(r) ==
  /\ pending' = pending \ {r}
  /\ fresh' = (fresh /\ ~r.current)
  /\ UNCHANGED <<rows, filter, shown, lastRequest, selected, allSelected, dialog, operation, popup>>

-----------------------------------------------------------------------------
(* Rows ticked *)

Tick ==
  /\ dialog = None /\ popup = None
  /\ \E S \in SUBSET shown : selected' = S
  /\ allSelected' = FALSE
  /\ UNCHANGED <<rows, tableVars, dialog, operation, popup>>

SelectAll ==
  /\ dialog = None /\ popup = None
  /\ lastRequest # None
  /\ selected' = lastRequest.data
  /\ allSelected' = TRUE
  /\ UNCHANGED <<rows, tableVars, dialog, operation, popup>>

-----------------------------------------------------------------------------
(* Bulk changes *)

(* What the buttons and the dialogs count. *)
Chosen == IF allSelected THEN [all |-> TRUE, filter |-> lastRequest.filter, ids |-> {}]
                         ELSE [all |-> FALSE, filter |-> None, ids |-> selected]
RecordsCount == Cardinality(IF allSelected THEN lastRequest.data ELSE selected)

OpenDialog(kind) ==
  /\ dialog = None /\ popup = None
  /\ RecordsCount > 0
  /\ dialog' = [kind |-> kind, counted |-> Chosen]
  /\ UNCHANGED <<rows, tableVars, selectionVars, operation, popup>>

OpenBulkEdit == OpenDialog("edit")
OpenBulkDelete == OpenDialog("delete")

CloseDialog ==
  /\ dialog # None
  /\ dialog' = None
  /\ UNCHANGED <<rows, tableVars, selectionVars, operation, popup>>

(* The dialog named the records that are asked for, or an answer overtook it. *)
AsCounted(requested, records) ==
  \/ dialog.counted = None
  \/ IF dialog.counted.all
     THEN records = {} /\ requested = dialog.counted.filter
     ELSE records # {} /\ records = dialog.counted.ids

(* Mutant of BulkRequest: the filter of the toolbar, whatever was answered.*)
BulkRequestOfToolbar(kind) ==
  LET records == IF allSelected THEN {} ELSE selected
  IN  [kind |-> kind, filter |-> filter, records |-> records, asCounted |-> AsCounted(filter, records)]

(* onSubmit and onDelete: what is ticked now.  No records stand for all    *)
(* those of the query.                                                     *)
BulkRequest(kind) ==
  LET records == IF allSelected THEN {} ELSE selected
  IN  [kind |-> kind, filter |-> lastRequest.filter, records |-> records,
       asCounted |-> AsCounted(lastRequest.filter, records)]

SubmitBulkEdit ==
  /\ dialog # None /\ operation = None
  /\ dialog.kind = "edit"
  /\ operation' = BulkRequest("edit")
  /\ UNCHANGED <<rows, tableVars, selectionVars, dialog, popup>>

BulkDelete ==
  /\ dialog # None /\ operation = None
  /\ dialog.kind = "delete"
  /\ operation' = BulkRequest("delete")
  /\ dialog' = None
  /\ UNCHANGED <<rows, tableVars, selectionVars, popup>>

Targets == IF operation.records = {} THEN Matching(operation.filter) ELSE operation.records \cap Live

(* Mutant of OperationDone: nothing is asked for again. *)
OperationDoneQuietly ==
  /\ operation # None /\ Room
  /\ \E v \in IF operation.kind = "edit" THEN Values ELSE {Gone} :
       rows' = [i \in Ids |-> IF i \in Targets THEN v ELSE rows[i]]
  /\ operation' = None
  /\ dialog' = IF operation.kind = "edit" THEN None ELSE dialog
  /\ UNCHANGED <<tableVars, selectionVars, popup>>

(* The server has done it: the table is asked for again, and onClose shuts *)
(* the dialog that is open then.                                           *)
OperationDone ==
  /\ operation # None /\ Room
  /\ \E v \in IF operation.kind = "edit" THEN Values ELSE {Gone} :
       rows' = [i \in Ids |-> IF i \in Targets THEN v ELSE rows[i]]
  /\ operation' = None
  /\ dialog' = IF operation.kind = "edit" THEN None ELSE dialog
  /\ pending' = Issued(pending, filter)
  /\ UNCHANGED <<filter, shown, lastRequest, fresh, selectionVars, popup>>

OperationFails ==
  /\ operation # None
  /\ operation' = None
  /\ UNCHANGED <<rows, tableVars, selectionVars, dialog, popup>>

-----------------------------------------------------------------------------
(* Single rows *)

Create(id) == /\ rows[id] = Unused
              /\ \E v \in Values : rows' = [rows EXCEPT ![id] = v]

Update(id) == /\ id \in Live
              /\ \E v \in Values : rows' = [rows EXCEPT ![id] = v]

Delete(id) == /\ id \in Live
              /\ rows' = [rows EXCEPT ![id] = Gone]

(* The create button, which opens a popup or adds a line on top of the     *)
(* table, and the popup of the record the page names.                      *)
OpenPopup(kind) ==
  /\ dialog = None /\ popup = None
  /\ popup' = kind
  /\ UNCHANGED <<rows, tableVars, selectionVars, dialog, operation>>

(* A refused creation keeps its form, with the errors; a cancelled one     *)
(* only shuts it.                                                          *)
CancelCreation ==
  /\ popup = "creation"
  /\ popup' = None
  /\ UNCHANGED <<rows, tableVars, selectionVars, dialog, operation>>

(* onCreateSubmit and onSave of a new line: created, shut, asked for again.*)
SubmitCreation ==
  /\ popup = "creation" /\ Room
  /\ \E id \in Ids : Create(id)
  /\ popup' = None
  /\ pending' = Issued(pending, filter)
  /\ UNCHANGED <<filter, shown, lastRequest, fresh, selectionVars, dialog, operation>>

(* onSave of a line that was there. *)
SaveLine(id) ==
  /\ id \in shown /\ dialog = None /\ popup = None /\ Room
  /\ Update(id)
  /\ pending' = Issued(pending, filter)
  /\ UNCHANGED <<filter, shown, lastRequest, fresh, selectionVars, dialog, operation, popup>>

(* onDelete of a line: ProTable drops the row, and nothing is asked for. *)
DeleteLine(id) ==
  /\ id \in shown /\ dialog = None /\ popup = None
  /\ Delete(id)
  /\ shown' = shown \ {id}
  /\ UNCHANGED <<filter, pending, lastRequest, fresh, selectionVars, dialog, operation, popup>>

(* The popup of a record saves field by field, and the table is asked for  *)
(* again when it is shut.                                                  *)
SaveInPopup ==
  /\ popup = "edit"
  /\ \E id \in shown : Update(id)
  /\ UNCHANGED <<tableVars, selectionVars, dialog, operation, popup>>

ClosePopup ==
  /\ popup = "edit" /\ Room
  /\ popup' = None
  /\ pending' = Issued(pending, filter)
  /\ UNCHANGED <<rows, filter, shown, lastRequest, fresh, selectionVars, dialog, operation>>

(* Other users of the same server. *)
OthersChange ==
  /\ \E id \in Ids : Create(id) \/ Update(id) \/ Delete(id)
  /\ fresh' = FALSE
  /\ UNCHANGED <<filter, pending, shown, lastRequest, selectionVars, dialog, operation, popup>>

-----------------------------------------------------------------------------
Init ==
  /\ rows \in [Ids -> Values \cup {Unused}]
  /\ filter \in DOMAIN Filters
  /\ pending = {[filter |-> filter, current |-> TRUE]}
  /\ shown = {} /\ selected = {} /\ allSelected = FALSE
  /\ lastRequest = None /\ dialog = None /\ operation = None /\ popup = None
  /\ fresh = FALSE

Next ==
  \/ ChangeFilter \/ Reload
  \/ \E r \in pending : Answer(r) \/ AnswerFails(r)
  \/ Tick \/ SelectAll
  \/ OpenBulkEdit \/ OpenBulkDelete \/ CloseDialog
  \/ SubmitBulkEdit \/ BulkDelete \/ OperationDone \/ OperationFails
  \/ \E kind \in {"creation", "edit"} : OpenPopup(kind)
  \/ CancelCreation \/ SubmitCreation \/ SaveInPopup \/ ClosePopup
  \/ \E id \in Ids : SaveLine(id) \/ DeleteLine(id)
  \/ OthersChange

Spec == Init /\ [][Next]_vars

-----------------------------------------------------------------------------
(* Properties *)

Requests == [filter : DOMAIN Filters, current : BOOLEAN]

(* The shape of the state, with at most one request that will be shown.    *)
(* (Table, useBulkEditing)                                                 *)
TypeOK ==
  /\ rows \in [Ids -> Values \cup {Unused, Gone}]
  /\ filter \in DOMAIN Filters
  /\ pending \subseteq Requests /\ \A r, s \in pending : r.current /\ s.current => r = s
  /\ shown \subseteq Ids /\ selected \subseteq Ids
  /\ allSelected => lastRequest # None
  /\ lastRequest # None => lastRequest.filter \in DOMAIN Filters /\ lastRequest.data \subseteq Ids
  /\ dialog # None => DOMAIN dialog = {"kind", "counted"}
  /\ popup \in {None, "creation", "edit"}

(* A row that is ticked is one the user sees, whatever answers arrive, in  *)
(* whatever order; unless it has been deleted meanwhile.                   *)
(* (request of Table, rowSelection of useBulkEditing)                      *)
TickedRowsAreInSight == ~allSelected => \A i \in selected : i \in shown \/ rows[i] = Gone

(* A bulk change asks for exactly the records that its dialog named, if no *)
(* answer arrived while the dialog was open.                               *)
(* (BulkEditDialog, BulkDeleteButton, onSubmit and onDelete)               *)
ConfirmedUnlessOvertaken == operation # None => operation.asCounted

(* When nothing is under way, the rows in sight are those of the server    *)
(* that the filter admits: every change of the table's own user is seen,   *)
(* unless others have changed rows or the request has failed since.        *)
(* (the reloads of useBulkEditing, useEditableTable, useCreation and Table)*)
ShowsOwnChanges ==
  fresh /\ pending = {} /\ popup = None => shown = Matching(filter)

(* What is ticked and counted while a dialog is open stays as it is until  *)
(* an answer arrives.                                                      *)
DialogIsCurrent ==
  dialog # None => dialog.counted \in {None, Chosen} /\ (allSelected \/ selected # {} \/ dialog.counted = None)

(* The request that will be shown is of the filter in use; without one,    *)
(* the rows in sight are the ones there are.                               *)
ShownOrAskedFor ==
  /\ \A r \in pending : r.current => r.filter = filter
  /\ fresh /\ popup # "edit" /\ (\A r \in pending : ~r.current) => shown = Matching(filter)
=============================================================================
