------------------------------- MODULE ListView -------------------------------
(***************************************************************************)
(* The editable list of common-frontend: items that are opened for editing *)
(* in line, several at once, saved or cancelled one by one, while the list *)
(* is asked for again after every save.                                    *)
(*                                                                         *)
(* ProList reports all items at every keystroke; the list keeps that       *)
(* report, and looks a saved item up in it.                                *)
(***************************************************************************)
EXTENDS Integers, FiniteSets, Functions

CONSTANTS
  Ids,          \* not 0, the line that is new
  Values,
  Created,      \* createNewDefaultParams
  MaxEdits,     \* bound: keystrokes, and changes of others
  None

VARIABLES
  server,       \* id -> value, or None
  items,        \* the items in sight: id -> value
  typed,        \* the lines being edited: id, or 0 -> what the line shows
  editableData, \* the report of the last keystroke
  answers,      \* requests under way
  sent,         \* what the last save sent, and what its line showed
  edits,
  touched       \* history: lines typed into since they were opened

vars == <<server, items, typed, editableData, answers, sent, edits, touched>>

Edit == edits > 0 /\ edits' = edits - 1
Live == {i \in Ids : server[i] # None}
Without(f, i) == [j \in DOMAIN f \ {i} |-> f[j]]
With(f, i, v) == [j \in DOMAIN f \cup {i} |-> IF j = i THEN v ELSE f[j]]

-----------------------------------------------------------------------------
(* request, first and after each save.  ProList shows the answer of the    *)
(* last one.                                                               *)
Request ==
  /\ answers' = TRUE
  /\ UNCHANGED items

Answered ==
  /\ answers
  /\ items' = [i \in Live |-> server[i]]
  /\ answers' = FALSE
  /\ UNCHANGED <<server, typed, editableData, sent, edits, touched>>

(* The edit button of an item, and the create button. *)
StartEdit(i) ==
  /\ Edit
  /\ i \in DOMAIN items \ DOMAIN typed
  /\ typed' = With(typed, i, items[i])
  /\ touched' = touched \ {i}
  /\ UNCHANGED <<server, items, editableData, answers, sent>>

CreateButton ==
  /\ Edit /\ 0 \notin DOMAIN typed
  /\ typed' = With(typed, 0, Created)
  /\ touched' = touched \ {0}
  /\ UNCHANGED <<server, items, editableData, answers, sent>>

(* All items as they are, those being edited as typed. *)
Report(lines) == [i \in DOMAIN items \cup DOMAIN lines |-> IF i \in DOMAIN lines THEN lines[i] ELSE items[i]]

(* Mutant of OnValuesChange: the report of the keystroke before. *)
OnValuesChangeLate(i) ==
  /\ Edit /\ i \in DOMAIN typed
  /\ \E v \in Values :
       /\ typed' = [typed EXCEPT ![i] = v]
       /\ editableData' = Report(typed)
  /\ touched' = touched \cup {i}
  /\ UNCHANGED <<server, items, answers, sent>>

OnValuesChange(i) ==
  /\ Edit /\ i \in DOMAIN typed
  /\ \E v \in Values :
       /\ typed' = [typed EXCEPT ![i] = v]
       /\ editableData' = Report(typed')
  /\ touched' = touched \cup {i}
  /\ UNCHANGED <<server, items, answers, sent>>

Data(i) == IF i \in DOMAIN editableData THEN editableData[i] ELSE typed[i]

(* onSave of an item, or of the new line, which gets an id of the server.  *)
(* The report is kept.                                                     *)
OnSave(i) ==
  /\ i \in DOMAIN typed
  /\ IF i = 0
     THEN \E j \in Ids \ Live : server' = [server EXCEPT ![j] = Data(i)]
     ELSE i \in Live /\ server' = [server EXCEPT ![i] = Data(i)]
  /\ sent' = [id |-> i, data |-> Data(i), shown |-> typed[i], touched |-> i \in touched]
  /\ typed' = Without(typed, i)
  /\ Request
  /\ UNCHANGED <<editableData, edits, touched>>

(* onCancel puts the item of the report back as it was. *)
OnCancel(i) ==
  /\ i \in DOMAIN typed
  /\ typed' = Without(typed, i)
  /\ editableData' = IF i \in DOMAIN editableData \cap DOMAIN items THEN [editableData EXCEPT ![i] = items[i]] ELSE editableData
  /\ UNCHANGED <<server, items, answers, sent, edits, touched>>

(* onDelete; the list is not asked for again. *)
OnDelete(i) ==
  /\ Edit
  /\ i \in Live \cap DOMAIN items
  /\ server' = [server EXCEPT ![i] = None]
  /\ items' = Without(items, i)
  /\ typed' = Without(typed, i)
  /\ UNCHANGED <<editableData, answers, sent, touched>>

OthersChange ==
  /\ Edit
  /\ \E i \in Ids, v \in Values \cup {None} : server' = [server EXCEPT ![i] = v]
  /\ UNCHANGED <<items, typed, editableData, answers, sent, touched>>

-----------------------------------------------------------------------------
Nothing == [i \in {} |-> None]

Init ==
  /\ server \in [Ids -> Values \cup {None}]
  /\ items = Nothing /\ typed = Nothing /\ editableData = Nothing
  /\ answers = TRUE /\ sent = None /\ edits = MaxEdits /\ touched = {}

Next ==
  \/ Answered \/ CreateButton \/ OthersChange
  \/ \E i \in Ids : StartEdit(i) \/ OnDelete(i)
  \/ \E i \in Ids \cup {0} : OnValuesChange(i) \/ OnSave(i) \/ OnCancel(i)

Spec == Init /\ [][Next]_vars

-----------------------------------------------------------------------------
(* Properties *)

(* A save sends what its line shows, though it is looked up in a report of *)
(* the whole list, which other lines, cancelled ones and answers that came *)
(* meanwhile share; if the line has been typed into since it was opened.   *)
(* (editableData of List)                                                  *)
SentAsShown == sent # None /\ sent.touched => sent.data = sent.shown

(* A line that has been typed into is in the report, as it is shown. *)
TypedIsReported ==
  \A i \in DOMAIN typed \cap touched : i \in DOMAIN editableData /\ editableData[i] = typed[i]
=============================================================================
