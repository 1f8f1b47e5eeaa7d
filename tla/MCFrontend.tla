----------------------------- MODULE MCFrontend -----------------------------
(* Model-checking instance of the components of the frontends, which know  *)
(* nothing of each other: each behaviour is one of the component in part,  *)
(* to which the variables are lent; those it has no use for stay at None.  *)
(* A constant that is not given to an instance is the one of its name here.*)
EXTENDS Integers, Sequences, FiniteSets, TLC

CONSTANTS
  ann, bob, id1, id2, Undefined, Null, Empty, True,   \* values of a query
  (* of a table and its columns, see TableQuery *)
  QueryColumns, QueryParent, QueryColumnsSets, QueryDefaultColumnState, QuerySearchableColumns,
  QueryIdColumnName, QueryJoinFields, QueryDropdownChoices, QueryPageFilters,
  QueryKeywords, QueryRows, QueryNumbers, QueryUuids,
  LogsRows, LogsKeywords, Users, Services,   \* of the event logs
  RowIds, LineIds,   \* records of a table and of a description; lines of a list
  Attributes,        \* fields of a description
  Texts,             \* what a row, a field or a line may hold
  TableFilters,      \* filter of a table -> the texts it admits
  FormSections,      \* field of a form -> its section
  FormBroken,        \* value of a field -> rules it breaks
  FormRuled,         \* fields of a form that have rules
  EmptyValue,
  DefaultText,       \* of a new line
  Permissions,
  VerdictTime,       \* ticks that the verdict on a connection stays
  None,
  MaxPending, MaxTyped, MaxSubmits, MaxFieldEdits, MaxLineEdits,
  MaxRequests, MaxToggles, MaxChecks, MaxLoads, MaxImports, MaxChanges, MaxUntold, MaxClicks   \* bounds

ASSUME ConstantsAssumption ==
  /\ {VerdictTime, MaxPending, MaxTyped, MaxSubmits, MaxFieldEdits, MaxLineEdits,
      MaxRequests, MaxToggles, MaxChecks, MaxLoads, MaxImports, MaxChanges, MaxUntold, MaxClicks} \subseteq Nat
  /\ Texts \cap {"unused", "gone"} = {}
  /\ IsFiniteSet(RowIds)
  /\ None \notin {"edit", "check", "warning", <<>>}
  /\ None \notin Seq([value : {"7", "8"}, current : {"7", "8"}])
  /\ None \notin [filter : DOMAIN TableFilters, data : SUBSET RowIds]
  /\ \A S \in SUBSET RowIds :
       LET sent == [S -> [version : Nat, value : {"7", "8"}]]
       IN  /\ None \notin [created : BOOLEAN, updated : sent, old : [RowIds -> {"7", "8"}]]
           /\ None \notin [new : BOOLEAN, modified : sent, shown : [S -> {"7", "8"}], answer : {<<>>, Undefined}]
  /\ None \notin Nat

VARIABLES part, v1, v2, v3, v4, v5, v6, v7, v8, v9, v10, v11, v12, v13, v14, v15

Rest4 == <<v5, v6>>
Rest6 == <<v7, v8>>
Rest8 == <<v9, v10, v11>>
Rest11 == <<v12, v13, v14, v15>>

-----------------------------------------------------------------------------
(* TableQuery, for any columns whose filters are offered what they take;   *)
(* as values, a numeric column and a relation in a group, and an identity. *)

Column(field) ==
  [filterField |-> field, searchField |-> field, operator |-> "containsLow",
   filterOperator |-> Undefined, numeric |-> FALSE, uuid |-> FALSE]
NoFilter == {[kind |-> "none"]}
RangeOf(from, to) == [kind |-> "range", from |-> from, to |-> to]

Groups == [request |-> "request", duration |-> "request", user |-> "request", entityId |-> "entityId"]
SetsOfColumns == [Requests |-> {"duration", "user"}, Audit |-> {"user", "entityId"}, Entities |-> {"entityId"}]
SearchedColumns ==
  [duration |-> [Column("duration") EXCEPT !.operator = "equals", !.filterOperator = "between", !.numeric = TRUE],
   user |-> [Column("user.name") EXCEPT !.filterField = "user.id", !.filterOperator = "in"],
   entityId |-> [Column("entityId") EXCEPT !.operator = "equals", !.uuid = TRUE]]
Dropdowns ==
  [duration |-> NoFilter \cup {RangeOf(1, Undefined), RangeOf(Undefined, 0), RangeOf(0, 1)},
   user |-> NoFilter \cup [kind : {"options"}, chosen : {<<id1>>, <<id1, id2>>, <<Null>>}],
   entityId |-> NoFilter]
PageOffers ==
  [duration |-> NoFilter \cup {RangeOf(1, Undefined)},
   user |-> NoFilter,
   entityId |-> NoFilter \cup {[kind |-> "number", value |-> id1]}]
Words == {<<>>, <<1>>, <<ann, id1>>}
Records ==
  {("duration" :> d) @@ ("user.id" :> u[1]) @@ ("user.name" :> u[2]) @@ ("entityId" :> e) :
     d \in {0, 1, Null}, u \in {<<id1, ann>>, <<id2, bob>>, <<Null, Null>>}, e \in {id1, Null}}


Query == INSTANCE TableQuery WITH
  choice <- v1, base <- v2, keyword <- v3, columnsState <- v4,
  Columns <- QueryColumns, parent <- QueryParent, columnsSets <- QueryColumnsSets,
  defaultColumnState <- QueryDefaultColumnState, searchableColumns <- QuerySearchableColumns,
  idColumnName <- QueryIdColumnName, joinFields <- QueryJoinFields,
  DropdownChoices <- QueryDropdownChoices, PageFilters <- QueryPageFilters,
  Keywords <- QueryKeywords, Rows <- QueryRows, Numbers <- QueryNumbers, Uuids <- QueryUuids

(* Groups one level deep, and each filter is offered what its operator takes. *)
ASSUME TablesFit == Query!ConstantsFit

-----------------------------------------------------------------------------
(* EventLogsTable: what users did, and what the system logged by itself. *)

EventLog(type, role, uid, name, method, duration, createdAt) ==
  [logType |-> type, serviceId |-> "host1", userRole |-> role, method |-> method, logLevel |-> "Info",
   service |-> "main", externalUserId |-> Null, action |-> "getManyBase", entity |-> "users",
   entityId |-> Null, url |-> "/users", ipAddress |-> Null, userAgent |-> Null, duration |-> duration,
   statusCode |-> "200", createdAt |-> createdAt] @@ ("user.id" :> uid @@ "user.name" :> name)

LogRecords ==
  {EventLog("Audit", "Admin", "id1", "ann", "GET", "5", 1),
   EventLog("Audit", "User", "id2", "bob", "POST", "200", 2),
   EventLog("Application", "System", Null, Null, Null, Null, 2)}
LogWords == {<<>>, <<"GET">>, <<"ann", "5">>, <<"users", "POST">>}

Logs == INSTANCE EventLogsTable WITH
  choice <- v1, base <- v2, keyword <- v3, columnsState <- v4, options <- v5, clicks <- v6,
  Rows <- LogsRows, Keywords <- LogsKeywords

(* Logs have times, or none, and numbers where they are searched for as such. *)
ASSUME LogsFit ==
  /\ \A c \in Logs!Columns : IsFiniteSet(Logs!Filters(c)) /\ {Undefined, Null} \cap Logs!Filters(c) = {}
  /\ {Undefined, Null} \cap {"in", "between"} = {} /\ Undefined \notin Int
  /\ \A keywords \in LogsKeywords : \A n \in DOMAIN keywords : keywords[n] \notin {Undefined, Null}
  /\ \A row \in LogsRows : /\ row["createdAt"] \in Int \cup {Null}
                           /\ {row["duration"], row["statusCode"]} \subseteq {"5", "200", Null}

-----------------------------------------------------------------------------
Table == INSTANCE TableView WITH
  rows <- v1, filter <- v2, pending <- v3, shown <- v4, lastRequest <- v5, selected <- v6,
  allSelected <- v7, dialog <- v8, operation <- v9, popup <- v10, fresh <- v11,
  Ids <- RowIds, Values <- Texts, Filters <- TableFilters

(* ImportChanges: a relation, and columns of each kind with spellings that *)
(* exports do not use.                                                     *)
Import == INSTANCE ImportChanges WITH
  rows <- v1, file <- v2, isLoadingImport <- v3, changes <- v4, importResponse <- v5, serverErrors <- v6,
  local <- v7, resolvedData <- v8, commit <- v9, crashed <- v10, left <- v11,
  made <- v12, unseen <- v13, relisted <- v14, untold <- v15,
  Ids <- RowIds, valueType <- "relation", InitialValues <- {"7"},
  Exported <- [switch |-> {"TRUE", "FALSE"}, digit |-> {"7", "8"}, text |-> {"7", "word", "TRUE", "007"}, relation |-> {"7", "8"}],
  Typed <- [switch |-> {"TRUE", "yes", "FALSE"}, digit |-> {"7", "7.0", "8"}, text |-> {"7", "word", "null", "TRUE", "007"},
            relation |-> {"7", "8"}],
  NumberOf <- [t \in {"7", "7.0", "007", "8"} |-> IF t = "8" THEN "8" ELSE "7"],
  Relation <- [t \in {"7", "8"} |-> IF t = "7" THEN "ann" ELSE "bob"],
  Means <-
    [switch |-> [t \in {"TRUE", "yes", "FALSE"} |-> t # "FALSE"],
     digit |-> [t \in {"7", "7.0", "8"} |-> t = "8"],
     text |-> [t \in {"7", "word", "null", "TRUE", "007"} |-> t],
     relation |-> [t \in {"7", "8"} |-> t]]

-----------------------------------------------------------------------------
(* The forms *)

Creation == INSTANCE CreationForm WITH
  open <- v1, form <- v2, errors <- v3, errorsPerSection <- v4, timers <- v5, submits <- v6,
  left <- v7, overlooked <- v8,
  section <- FormSections, Broken <- FormBroken, Ruled <- FormRuled, Empty <- EmptyValue

Record == INSTANCE RecordView WITH
  server <- v1, use <- v2, path <- v3, data <- v4, fetch <- v5, saves <- v6, edits <- v7, clean <- v8,
  Ids <- RowIds, Fields <- Attributes, Values <- Texts, MaxEdits <- MaxFieldEdits

Switches == INSTANCE PermissionSwitches WITH
  role <- v1, canManageAll <- v2, stored <- v3, permissionsSet <- v4, loading <- v5, requests <- v6,
  changes <- v7, disturbed <- v8, MaxChanges <- MaxToggles

List == INSTANCE ListView WITH
  server <- v1, items <- v2, typed <- v3, editableData <- v4, answers <- v5, sent <- v6,
  edits <- v7, touched <- v8,
  Ids <- LineIds, Values <- Texts, Created <- DefaultText, MaxEdits <- MaxLineEdits

Check == INSTANCE ConnectionCheck WITH
  loading <- v1, error <- v2, timers <- v3, timer <- v4, verdict <- v5, age <- v6, checks <- v7,
  Shown <- VerdictTime

(* The generated client, and the page that calls it first *)
Api == INSTANCE ApiRequest WITH
  call <- v1, page <- v2, state <- v3, loads <- v4

-----------------------------------------------------------------------------
Init ==
  /\ part \in {"query", "logs", "table", "import", "creation", "record", "list", "switches", "check", "api"}
  /\ CASE part = "query"    -> Query!Init /\ v5 = None /\ v6 = None
       [] part = "logs"     -> Logs!Init
       [] part = "table"    -> Table!Init
       [] part = "import"   -> Import!Init
       [] part = "creation" -> Creation!Init
       [] part = "record"   -> Record!Init
       [] part = "list"     -> List!Init
       [] part = "switches" -> Switches!Init
       [] part = "check"    -> Check!Init /\ v8 = None
       [] part = "api"      -> Api!Init /\ v5 = None /\ v6 = None
  /\ part \in {"query", "logs", "api"} => v7 = None /\ v8 = None
  /\ part \notin {"table", "import"} => v9 = None /\ v10 = None /\ v11 = None
  /\ part # "import" => v12 = None /\ v13 = None /\ v14 = None /\ v15 = None

QueryStep    == part = "query"    /\ Query!Next    /\ UNCHANGED <<part, Rest4, Rest6, Rest8, Rest11>>
LogsStep     == part = "logs"     /\ Logs!Next     /\ UNCHANGED <<part, Rest6, Rest8, Rest11>>
TableStep    == part = "table"    /\ Table!Next    /\ UNCHANGED <<part, Rest11>>
ImportStep   == part = "import"   /\ Import!Next   /\ UNCHANGED part
CreationStep == part = "creation" /\ Creation!Next /\ UNCHANGED <<part, Rest8, Rest11>>
RecordStep   == part = "record"   /\ Record!Next   /\ UNCHANGED <<part, Rest8, Rest11>>
ListStep     == part = "list"     /\ List!Next     /\ UNCHANGED <<part, Rest8, Rest11>>
SwitchesStep == part = "switches" /\ Switches!Next /\ UNCHANGED <<part, Rest8, Rest11>>
CheckStep    == part = "check"    /\ Check!Next    /\ UNCHANGED <<part, v8, Rest8, Rest11>>
ApiStep      == part = "api"      /\ Api!Next      /\ UNCHANGED <<part, Rest4, Rest6, Rest8, Rest11>>

Next ==
  \/ QueryStep \/ LogsStep \/ TableStep \/ ImportStep
  \/ CreationStep \/ RecordStep \/ ListStep \/ SwitchesStep \/ CheckStep \/ ApiStep

Spec == Init /\ [][Next]_<<part, v1, v2, v3, v4, v5, v6, v7, v8, v9, v10, v11, v12, v13, v14, v15>>

Symmetry == Permutations(RowIds)

-----------------------------------------------------------------------------
(* Values of the constants: a filter that admits every row and one that    *)
(* admits some; three fields in two tabs, with values that break no rule,  *)
(* one or two.                                                             *)

AnyOrSome == [any |-> {"a", "b"}, some |-> {"a"}]
TwoSections == [a |-> "s", b |-> "s", c |-> "t"]
RulesBroken == [ok |-> 0, bad |-> 1, worse |-> 2]

-----------------------------------------------------------------------------
(* Properties *)

(* However columns and sets of columns are switched and filters chosen, a  *)
(* table asks for the rows that its filters describe, with each word in a  *)
(* column in sight, and no column shown is out of sight in a hidden group. *)
(* (getTableDataQueryParams, tableTools, useColumnsSets)                   *)
QueryIsAsShown ==
  part = "query" => Query!TypeOK /\ Query!QuerySelectsWhatIsChosen /\ Query!ShownColumnsAreInSight

(* The same of the event logs with the columns they are given.             *)
(* (useEventLogsColumns, eventLogsSearchableColumns)                       *)
LogsAreTheChosenOnes == part = "logs" => Logs!LogsAreTheChosenOnes

(* Whatever order answers come in, what is ticked is in sight, a bulk      *)
(* change is the one its dialog asked for unless an answer overtook it,    *)
(* and the user's own changes are seen.                                    *)
(* (Table, useBulkEditing, useEditableTable, useCreation)                  *)
TableIsAsSeen ==
  part = "table" =>
    Table!TypeOK /\ Table!TickedRowsAreInSight /\ Table!ConfirmedUnlessOvertaken /\ Table!ShowsOwnChanges

(* An import sends what was changed in the file, text that type inference  *)
(* rewords excepted, overwrites no value that its user was not shown, and  *)
(* creates its new records once, and again only for a success it was not   *)
(* told to be without conflicts.                                           *)
(* (useImportExport, ChangesModal, ConflictsTab)                           *)
ImportIsAsReviewed ==
  part = "import" => Import!OnlyChangesAreUpdates /\ Import!OnlySeenIsOverwritten /\ Import!CreatedOnce

(* What is said of a form is so: the badges of its sections count the      *)
(* errors shown there, after a pause, or the fields that show any, after a *)
(* submit, and the verdict on a connection stays while it is due.          *)
(* (Descriptions, useCheckConnection)                                      *)
FormsTellTheirErrors ==
  /\ part = "creation" => Creation!BadgesCountErrors
  /\ part = "check" => Check!VerdictStays

(* What is in sight is what the server is sent, and what it has, unless    *)
(* edits overlapped or the answer to one that was stored was lost: of a    *)
(* record that is edited field by field, of a list edited by lines, and of *)
(* permissions that are switched one by one.                               *)
(* (Descriptions, List, PermissionsList)                                   *)
EditsAreSavedAsShown ==
  /\ part = "record" => Record!ShownIsSaved
  /\ part = "list" => List!SentAsShown
  /\ part = "switches" => Switches!SwitchesAreStored /\ Switches!OneToggleOneChange

(* A call of the server settles once, is not sent once it was cancelled,   *)
(* and is taken for a success only when the server said so.                *)
(* (CancelablePromise and request of the generated client)                 *)
CallsSettleAsAnswered ==
  part = "api" => Api!TypeOK /\ Api!SettlesOnce /\ Api!CancelledIsNotSent /\ Api!OnlySuccessResolves
=============================================================================
