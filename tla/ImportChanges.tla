---------------------------- MODULE ImportChanges ----------------------------
(***************************************************************************)
(* The import of a table of common-frontend: an exported file comes back   *)
(* edited, is compared with a fresh export (useImportExport), and what     *)
(* differs is committed and its conflicts resolved (ChangesModal,          *)
(* ConflictsTab), while other users change the same records.               *)
(*                                                                         *)
(* A record has a version and one column; its text is a token.  The server *)
(* refuses the whole commit when a version is not the current one.         *)
(***************************************************************************)
EXTENDS Integers, SequencesExt

CONSTANTS
  Ids,
  valueType,    \* the kind of the column
  Exported,     \* kind -> what the server writes to the export
  InitialValues,
  Typed,        \* kind -> what users may write to the file
  NumberOf,     \* tokens that read as numbers -> the number, as it is printed
  Relation,     \* ids of a relation -> the name of what is meant
  Means,        \* kind -> token -> what its author means
  MaxImports, MaxChanges, MaxUntold, \* bounds: files compared, changes of others, see untold
  Undefined,    \* a response without conflicts, which are optional
  None

VARIABLES
  rows,         \* the server: id -> version and value
  file,         \* rows as they were when the file was exported
  isLoadingImport,
  changes,      \* diffResult, with the values compared
  importResponse,
  serverErrors,
  local,        \* ConflictsTab's resolvedData, or None before it is mounted
  resolvedData,
  commit,       \* the commit under way: its payload, and the answer
  crashed,      \* an effect has thrown: nothing is rendered any more
  left,         \* what remains of each bound
  (* History, read by no guard: *)
  made,         \* new records that this import has created
  unseen,       \* a value was overwritten that the user was not shown
  relisted,     \* conflicts were answered while others were being resolved
  untold        \* successes not told to be without conflicts: the answer is lost,
                \* or has no list of them

server == <<rows>>
modal == <<importResponse, serverErrors, local, resolvedData>>
history == <<made, unseen, relisted, untold>>
vars == <<rows, file, isLoadingImport, changes, modal, commit, crashed, left, history>>

-----------------------------------------------------------------------------
(* Comparison *)

NullCell == [type |-> "null", of |-> ""]
Text(t) == [type |-> "text", of |-> t]

(* XLSX.read: the export is parsed with type inference, the file is not. *)
Raw(t) == IF t = "" THEN NullCell ELSE Text(t)
Inferred(t) ==
  CASE t \in {"TRUE", "FALSE"} -> [type |-> "boolean", of |-> t]
    [] t \in DOMAIN NumberOf -> [type |-> "number", of |-> NumberOf[t]]
    [] OTHER -> Raw(t)

(* String(value) *)
Printed(cell) ==
  IF cell.type = "boolean" THEN IF cell.of = "TRUE" THEN "true" ELSE "false" ELSE cell.of

(* Number(value) *)
NumberIn(cell) == IF cell.of \in DOMAIN NumberOf THEN NumberOf[cell.of] ELSE "NaN"

trueBooleanValues == {[type |-> "boolean", of |-> "TRUE"]} \cup {Text(t) : t \in {"TRUE", "True", "true", "1", "yes", "on"}}

(* Mutant of Normalized: numbers keep the type they were parsed with. *)
NormalizedAsParsed(kind, cell) ==
  IF cell = NullCell \/ (kind # "switch" /\ cell \in {Text(""), Text("null")}) THEN NullCell
  ELSE IF kind = "switch" THEN [type |-> "boolean", of |-> cell \in trueBooleanValues]
  ELSE cell

(* normalizeRow, for the one column; a relation is compared by its name. *)
Normalized(kind, cell) ==
  IF cell = NullCell \/ (kind = "text" /\ cell \in {Text(""), Text("null")}) THEN NullCell
  ELSE CASE kind = "relation" -> IF NumberIn(cell) \in DOMAIN Relation THEN Text(Relation[NumberIn(cell)]) ELSE NullCell
         [] kind = "switch" -> [type |-> "boolean", of |-> cell \in trueBooleanValues]
         [] kind = "digit" -> [type |-> "number", of |-> NumberIn(cell)]
         [] kind = "text" -> Text(Printed(cell))

Differs(t, typed) == Normalized(valueType, Inferred(t)) # Normalized(valueType, Raw(typed))

(* Mutant of Updated: the version is left to the server. *)
UpdatedUnversioned(values) ==
  [i \in {j \in Ids : Differs(rows[j].value, values[j])} |-> [version |-> None, value |-> values[i]]]

(* The rows that differ, with the version of the file. *)
Updated(values) ==
  [i \in {j \in Ids : Differs(rows[j].value, values[j])} |-> [version |-> file[i].version, value |-> values[i]]]

-----------------------------------------------------------------------------
(* The export and the file *)

Export ==
  /\ ~crashed
  /\ file' = rows
  /\ UNCHANGED <<rows, isLoadingImport, changes, modal, commit, crashed, left, history>>

Conflicting(response) == response \notin {None, Undefined, <<>>}

(* What ConflictsTab makes of conflicts when it is mounted. *)
Initial(conflicts) == [n \in DOMAIN conflicts |-> [value |-> conflicts[n].imported, current |-> conflicts[n].current]]

(* Its effect: the n-th resolution is that of the n-th conflict.  Without  *)
(* an n-th conflict it throws.                                             *)
Resolutions(tab, conflicts) ==
  [n \in DOMAIN tab |-> [id |-> conflicts[n].id, version |-> conflicts[n].version, value |-> tab[n].value]]

(* handleFileAsync.  The modal opens where an earlier answer has left it.  *)
HandleFile ==
  /\ ~crashed /\ changes = None /\ ~isLoadingImport
  /\ left.imports > 0 /\ left' = [left EXCEPT !.imports = @ - 1]
  /\ \E values \in [Ids -> Typed[valueType]], new \in BOOLEAN :
       changes' = [created |-> new, updated |-> Updated(values), old |-> [i \in Ids |-> rows[i].value]]
  /\ local' = IF Conflicting(importResponse) THEN Initial(importResponse) ELSE None
  /\ resolvedData' = IF Conflicting(importResponse) THEN Resolutions(local', importResponse) ELSE resolvedData
  /\ made' = 0
  /\ UNCHANGED <<rows, file, isLoadingImport, importResponse, serverErrors, commit, crashed, unseen, relisted, untold>>

(* No file, or an export that is not answered: the button keeps loading,   *)
(* and a click on it does nothing any more.                                *)
HandleFileFails ==
  /\ ~crashed /\ changes = None /\ ~isLoadingImport
  /\ isLoadingImport' = TRUE
  /\ UNCHANGED <<rows, file, changes, modal, commit, crashed, left, history>>

-----------------------------------------------------------------------------
(* ChangesModal *)

(* An empty list of conflicts, and no other answer, ends the import. *)
Disabled ==
  \/ importResponse = <<>>
  \/ serverErrors
  \/ DOMAIN changes.updated = {} /\ ~changes.created

Modified ==
  IF resolvedData # <<>>
  THEN [i \in {r.id : r \in Range(resolvedData)} |->
         LET r == CHOOSE x \in Range(resolvedData) : x.id = i IN [version |-> r.version, value |-> r.value]]
  ELSE changes.updated

(* What the user has been shown of a record that is sent. *)
Shown(i) ==
  IF resolvedData # <<>>
  THEN local[CHOOSE n \in DOMAIN resolvedData : resolvedData[n].id = i].current
  ELSE changes.old[i]

(* Mutant of HandleCommit: a click while the commit is under way. *)
HandleCommitTwice ==
  /\ ~crashed /\ changes # None /\ ~Disabled
  /\ serverErrors' = FALSE
  /\ commit' = [new |-> changes.created, modified |-> Modified,
                shown |-> [i \in DOMAIN Modified |-> Shown(i)], answer |-> None]
  /\ UNCHANGED <<rows, file, isLoadingImport, changes, importResponse, local, resolvedData, crashed, left, history>>

(* A button that is loading takes no click. *)
HandleCommit ==
  /\ ~crashed /\ changes # None /\ commit = None /\ ~Disabled
  /\ serverErrors' = FALSE
  /\ commit' = [new |-> changes.created, modified |-> Modified,
                shown |-> [i \in DOMAIN Modified |-> Shown(i)], answer |-> None]
  /\ UNCHANGED <<rows, file, isLoadingImport, changes, importResponse, local, resolvedData, crashed, left, history>>

(* The server: all of it, or the conflicts, in whatever order it lists them. *)
Outdated == {i \in DOMAIN commit.modified : commit.modified[i].version \notin {None, rows[i].version}}

Conflict(i) == [id |-> i, version |-> rows[i].version, current |-> rows[i].value, imported |-> commit.modified[i].value]

Untell == untold < MaxUntold /\ untold' = untold + 1

(* What was made has no conflicts; whether their list comes with it, empty,*)
(* is up to the server.                                                    *)
Serve ==
  /\ commit # None /\ commit.answer = None
  /\ LET m == commit.modified IN
     IF Outdated = {}
     THEN /\ rows' = [i \in Ids |-> IF i \in DOMAIN m THEN [version |-> rows[i].version + 1, value |-> m[i].value] ELSE rows[i]]
          /\ \/ commit' = [commit EXCEPT !.answer = <<>>] /\ UNCHANGED untold
             \/ commit' = [commit EXCEPT !.answer = Undefined] /\ Untell
          /\ made' = IF commit.new THEN made + 1 ELSE made
          /\ unseen' = (unseen \/ \E i \in DOMAIN m : rows[i].value # commit.shown[i])
     ELSE /\ \E ids \in SetToSeqs(Outdated) :
               commit' = [commit EXCEPT !.answer = [n \in DOMAIN ids |-> Conflict(ids[n])]]
          /\ UNCHANGED <<rows, made, unseen, untold>>
  /\ UNCHANGED <<file, isLoadingImport, changes, modal, crashed, left, relisted>>

(* then of onCommit.  The conflicts tab is mounted once, and keeps what it *)
(* has been mounted with.                                                  *)
Answered ==
  /\ commit # None /\ commit.answer # None
  /\ importResponse' = commit.answer
  /\ LET mounted == IF local = None THEN Initial(commit.answer) ELSE local
         short == Len(mounted) > Len(commit.answer)
     IN  IF changes # None /\ Conflicting(commit.answer)
         THEN /\ local' = mounted
              /\ crashed' = (crashed \/ short)
              /\ resolvedData' = IF short THEN resolvedData ELSE Resolutions(mounted, commit.answer)
              /\ relisted' = (relisted \/ local \notin {None, <<>>})
         ELSE UNCHANGED <<local, resolvedData, crashed, relisted>>
  /\ commit' = None
  /\ UNCHANGED <<rows, file, isLoadingImport, changes, serverErrors, left, made, unseen, untold>>

(* catch of onCommit: refused as invalid, or failed, or the answer is lost.*)
Invalid ==
  /\ commit # None /\ commit.answer = None
  /\ serverErrors' = TRUE
  /\ commit' = None
  /\ UNCHANGED <<rows, file, isLoadingImport, changes, importResponse, local, resolvedData, crashed, left, history>>

Fails ==
  /\ commit # None
  /\ IF commit.answer = <<>> THEN Untell ELSE UNCHANGED untold
  /\ commit' = None
  /\ UNCHANGED <<rows, file, isLoadingImport, changes, modal, crashed, left, made, unseen, relisted>>

(* The tab of the conflicts can be opened when there is no list of them,   *)
(* and is then mounted without lines.                                      *)
OpenConflicts ==
  /\ ~crashed /\ changes # None /\ importResponse = Undefined /\ local = None
  /\ local' = <<>>
  /\ UNCHANGED <<rows, file, isLoadingImport, changes, importResponse, serverErrors, resolvedData, commit, crashed, left, history>>

(* The button of a line; a conflict without a line has none. *)
ApplyCurrentValue(n) ==
  /\ ~crashed /\ changes # None
  /\ local # None /\ n \in DOMAIN local /\ Conflicting(importResponse)
  /\ local' = [local EXCEPT ![n].value = local[n].current]
  /\ resolvedData' = Resolutions(local', importResponse)
  /\ UNCHANGED <<rows, file, isLoadingImport, changes, importResponse, serverErrors, commit, crashed, left, history>>

OnCancel ==
  /\ ~crashed /\ changes # None
  /\ changes' = None
  /\ importResponse' = None /\ serverErrors' = FALSE
  /\ resolvedData' = <<>> /\ local' = None
  /\ UNCHANGED <<rows, file, isLoadingImport, commit, crashed, left, history>>

OthersChange(i) ==
  /\ left.changes > 0 /\ left' = [left EXCEPT !.changes = @ - 1]
  /\ \E v \in Exported[valueType] : rows' = [rows EXCEPT ![i] = [version |-> @.version + 1, value |-> v]]
  /\ UNCHANGED <<file, isLoadingImport, changes, modal, commit, crashed, history>>

-----------------------------------------------------------------------------
Init ==
  /\ rows \in [Ids -> [version : {1}, value : InitialValues]]
  /\ file = rows
  /\ isLoadingImport = FALSE /\ serverErrors = FALSE /\ crashed = FALSE
  /\ changes = None /\ importResponse = None /\ commit = None
  /\ local = None /\ resolvedData = <<>>
  /\ left = [imports |-> MaxImports, changes |-> MaxChanges]
  /\ made = 0 /\ unseen = FALSE /\ relisted = FALSE /\ untold = 0

Next ==
  \/ Export \/ HandleFile \/ HandleFileFails
  \/ HandleCommit \/ Serve \/ Answered \/ Invalid \/ Fails \/ OpenConflicts \/ OnCancel
  \/ \E n \in 1 .. Cardinality(Ids) : ApplyCurrentValue(n)
  \/ \E i \in Ids : OthersChange(i)

Spec == Init /\ [][Next]_vars

-----------------------------------------------------------------------------
(* Properties *)

Tokens == InitialValues \cup Exported[valueType] \cup Typed[valueType]
Versioned == [version : Nat, value : Tokens]
IsOfSome(f, S) == DOMAIN f \subseteq Ids /\ f \in [DOMAIN f -> S]
Conflicts == Seq([id : Ids, version : Nat, current : Tokens, imported : Tokens])

TypeOK ==
  /\ {rows, file} \subseteq [Ids -> Versioned]
  /\ changes # None =>
       /\ changes = [created |-> changes.created, updated |-> changes.updated, old |-> changes.old]
       /\ changes.created \in BOOLEAN /\ IsOfSome(changes.updated, Versioned) /\ changes.old \in [Ids -> Tokens]
  /\ commit # None =>
       /\ commit = [new |-> commit.new, modified |-> commit.modified, shown |-> commit.shown, answer |-> commit.answer]
       /\ commit.new \in BOOLEAN /\ IsOfSome(commit.modified, Versioned)
       /\ commit.shown \in [DOMAIN commit.modified -> Tokens]
       /\ commit.answer \in {None, Undefined} \/ commit.answer \in Conflicts
  /\ importResponse \in {None, Undefined} \/ importResponse \in Conflicts
  /\ local = None \/ local \in Seq([value : Tokens, current : Tokens])
  /\ resolvedData \in Seq([id : Ids, version : Nat, value : Tokens])
  /\ {made, untold} \subseteq Nat

(* Text that inference takes for something else which prints otherwise: a  *)
(* TRUE, the number 007.                                                   *)
Reworded(kind, t) == kind = "text" /\ Inferred(t) # NullCell /\ Printed(Inferred(t)) # t

(* The file and the fresh export are parsed differently, and yet a value is*)
(* taken for changed exactly when its author means something else than the *)
(* server holds, in a column of any kind; but for text that inference      *)
(* rewords, which is taken for changed though nobody touched it.           *)
(* (normalizeRow and the diff of handleFileAsync)                          *)
OnlyChangesAreUpdates ==
  changes # None /\ commit = None /\ importResponse = None =>
    \A kind \in DOMAIN Exported : \A t \in Exported[kind], typed \in Typed[kind] :
      Reworded(kind, t) \/ (Normalized(kind, Inferred(t)) # Normalized(kind, Raw(typed)) <=> Means[kind][t] # Means[kind][typed])

(* However versions move, no commit overwrites a value its user was not    *)
(* shown, in the comparison or next to the conflict; unless conflicts were *)
(* listed anew over the ones being resolved.                               *)
(* (TDiffResult, ChangesModal, ConflictsTab)                               *)
OnlySeenIsOverwritten == unseen => relisted

(* The value was the one of that version, if the record still has it. *)
Saw(i, version, value) ==
  version < rows[i].version \/ (version = rows[i].version /\ value = rows[i].value)

(* What the user has compared, and the file. *)
ComparedWasSeen ==
  /\ \A i \in Ids : file[i].version <= rows[i].version
  /\ changes # None => \A i \in DOMAIN changes.updated : Saw(i, changes.updated[i].version, changes.old[i])

(* The conflicts of an answer. *)
WereSeen(conflicts) ==
  /\ \A n \in DOMAIN conflicts : Saw(conflicts[n].id, conflicts[n].version, conflicts[n].current)
  /\ \A n, m \in DOMAIN conflicts : conflicts[n].id = conflicts[m].id => n = m

ConflictsWereSeen ==
  /\ importResponse \notin {None, Undefined} => WereSeen(importResponse)
  /\ commit # None /\ commit.answer \notin {None, Undefined} => WereSeen(commit.answer)

(* Resolutions are the lines of a tab, and a tab is of a modal; one that   *)
(* fits no conflicts has thrown.                                           *)
ResolvedInTab ==
  /\ changes = None => local = None
  /\ local = None => resolvedData = <<>>
  /\ resolvedData # <<>> => DOMAIN local = DOMAIN resolvedData
  /\ ~crashed /\ changes # None /\ Conflicting(importResponse) => Len(local) <= Len(importResponse)

(* The resolutions stand next to what was current. *)
ResolvedWasSeen ==
  ~relisted =>
    /\ changes # None /\ Conflicting(importResponse) /\ local # <<>> =>
         /\ DOMAIN local = DOMAIN importResponse
         /\ \A n \in DOMAIN local : local[n].current = importResponse[n].current
    /\ resolvedData # <<>> =>
         /\ \A n \in DOMAIN local : Saw(resolvedData[n].id, resolvedData[n].version, local[n].current)
         /\ \A n, m \in DOMAIN local : resolvedData[n].id = resolvedData[m].id => n = m

CommittedWasSeen ==
  ~relisted /\ commit # None => \A i \in DOMAIN commit.modified : Saw(i, commit.modified[i].version, commit.shown[i])

(* An import that has created its records once more than it was not told of*)
(* is over, or about to be.                                                *)
CreatedIsDone ==
  /\ commit # None => importResponse # <<>>
  /\ commit # None /\ commit.answer # <<>> => made <= untold
  /\ made > untold => changes = None \/ importResponse = <<>> \/ (commit # None /\ commit.answer = <<>>)

(* The new records of a file are created once, however often it is         *)
(* committed, and once more for each success whose answer was lost or had  *)
(* no list of conflicts: Commit is disabled by an empty list alone.        *)
(* (handleCommitClick, the footer of ChangesModal)                         *)
CreatedOnce == made <= 1 + untold
=============================================================================
