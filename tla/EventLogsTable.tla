--------------------------- MODULE EventLogsTable ---------------------------
(***************************************************************************)
(* The table of the event logs in users-frontend: TableQuery with the      *)
(* columns, the sets of columns and the searchable columns it is given     *)
(* there.                                                                  *)
(*                                                                         *)
(* Users and services to filter by are fetched when the table appears: no  *)
(* choice of them is offered before.                                       *)
(***************************************************************************)
EXTENDS Integers, Sequences, SequencesExt

CONSTANTS
  MaxClicks,   \* bound: what the user does to the table
  Users,       \* the ids of the users there are
  Services,
  Rows,        \* records: column -> value, a user by id and name
  Keywords,
  Undefined, Null, Empty, True

VARIABLES choice, base, keyword, columnsState, options, clicks

query == <<choice, base, keyword, columnsState>>
vars == <<choice, base, keyword, columnsState, options, clicks>>

-----------------------------------------------------------------------------
(* A column: what can be ticked in its dropdown, nothing when it has none. *)

logTypes == {"Audit", "Operational", "Application"}
logLevels == {"Info", "Warning", "Error"}
Methods == {"GET", "POST", "PUT", "PATCH", "DELETE", "OPTIONS", "HEAD"}

WhoColumns ==
  [logType |-> logTypes, service |-> Services, serviceId |-> {}, createdAt |-> {},
   user |-> Users, userRole |-> {"Admin", "User", "Guest", "System"},
   userName |-> {}, externalUserId |-> {}]

WhatColumns ==
  [action |-> {}, entity |-> {}, entityId |-> {}, method |-> Methods, url |-> {}, payload |-> {}]

HowColumns ==
  [ipAddress |-> {}, userAgent |-> {}, duration |-> {}, statusCode |-> {}, logLevel |-> logLevels]

Filters(c) ==
  IF c \in DOMAIN WhoColumns THEN WhoColumns[c]
  ELSE IF c \in DOMAIN WhatColumns THEN WhatColumns[c] ELSE HowColumns[c]

Columns ==
  {"logType", "service", "serviceId", "createdAt", "user", "userRole", "userName",
   "externalUserId", "action", "entity", "entityId", "method", "url", "payload",
   "ipAddress", "userAgent", "duration", "statusCode", "logLevel"}

columnsSets ==
  [Audit |-> {"createdAt", "logType", "entity", "action", "entityId", "user", "logLevel"},
   Operational |-> {"createdAt", "logType", "entity", "entityId", "service", "serviceId",
                    "action", "userRole", "logLevel"},
   Application |-> {"createdAt", "logType", "service", "serviceId", "logLevel", "payload"},
   Requests |-> {"service", "createdAt", "user", "method", "url", "duration", "statusCode"},
   HTTP |-> {"createdAt", "method", "url", "ipAddress", "userAgent"}]

Searched(field, operator) ==
  [filterField |-> field, searchField |-> field, operator |-> operator,
   filterOperator |-> Undefined, numeric |-> FALSE, uuid |-> FALSE]

Chosen(field) == [Searched(field, "equals") EXCEPT !.searchField = Null, !.filterOperator = "in"]
Text(field) == Searched(field, "containsLow")
ChosenOrText(field) == [Text(field) EXCEPT !.filterOperator = "in"]
Numeric(field) == [Searched(field, "equals") EXCEPT !.numeric = TRUE]

(* Mutant of eventLogsSearchableColumns: the method is filtered as it is   *)
(* searched.                                                               *)
eventLogsSearchableColumnsMethod ==
  [logType |-> Chosen("logType"), serviceId |-> Text("serviceId"),
   userRole |-> Chosen("userRole"), method |-> Text("method"),
   logLevel |-> Chosen("logLevel"), service |-> ChosenOrText("service"),
   user |-> [ChosenOrText("user.name") EXCEPT !.filterField = "user.id"],
   externalUserId |-> Text("externalUserId"), action |-> Text("action"),
   entity |-> Text("entity"), entityId |-> Searched("entityId", "equals"),
   url |-> Text("url"), ipAddress |-> Text("ipAddress"),
   userAgent |-> Text("userAgent"), duration |-> Numeric("duration"),
   statusCode |-> Numeric("statusCode"),
   createdAt |-> [Chosen("createdAt") EXCEPT !.filterOperator = "between"]]

eventLogsSearchableColumns ==
  [logType |-> Chosen("logType"), serviceId |-> Text("serviceId"),
   userRole |-> Chosen("userRole"), method |-> ChosenOrText("method"),
   logLevel |-> Chosen("logLevel"), service |-> ChosenOrText("service"),
   user |-> [ChosenOrText("user.name") EXCEPT !.filterField = "user.id"],
   externalUserId |-> Text("externalUserId"), action |-> Text("action"),
   entity |-> Text("entity"), entityId |-> Searched("entityId", "equals"),
   url |-> Text("url"), ipAddress |-> Text("ipAddress"),
   userAgent |-> Text("userAgent"), duration |-> Numeric("duration"),
   statusCode |-> Numeric("statusCode"),
   createdAt |-> [Chosen("createdAt") EXCEPT !.filterOperator = "between"]]

(* What is ticked comes as a list: one value, or all of them. *)
Ticks(c) == {<<a>> : a \in Filters(c)} \cup {SetToSeq(S) : S \in {Filters(c)} \ {{}}}
DropdownChoices ==
  [c \in DOMAIN eventLogsSearchableColumns |->
     {[kind |-> "none"]} \cup {[kind |-> "options", chosen |-> t] : t \in Ticks(c)}]

(* A range of time is both its ends, and none while one is missing. *)
BaseFilters(startTime, endTime) ==
  IF startTime # Undefined /\ endTime # Undefined
  THEN [kind |-> "range", from |-> startTime, to |-> endTime] ELSE [kind |-> "none"]
PageFilters ==
  [c \in DOMAIN eventLogsSearchableColumns |->
     IF c = "createdAt" THEN {BaseFilters(from, to) : from, to \in {1, 2, Undefined}}
     ELSE {[kind |-> "none"]}]

Table == INSTANCE TableQuery WITH
  parent <- [c \in Columns |-> c],
  defaultColumnState <- Undefined,
  searchableColumns <- eventLogsSearchableColumns,
  idColumnName <- "id", joinFields <- {"user"},
  Numbers <- {"5", "200"}, Uuids <- {}

-----------------------------------------------------------------------------
Click == clicks < MaxClicks /\ clicks' = clicks + 1 /\ UNCHANGED options

UsersFetched ==
  /\ options.users = {} /\ options' = [options EXCEPT !.users = Users]
  /\ UNCHANGED <<query, clicks>>

ServiceNamesFetched ==
  /\ options.services = {} /\ options' = [options EXCEPT !.services = Services]
  /\ UNCHANGED <<query, clicks>>

(* Only what is offered can be ticked. *)
Offered(c) ==
  CASE c = "user" -> options.users
    [] c = "service" -> options.services
    [] OTHER -> Filters(c)

Filter(c) ==
  /\ Click
  /\ Table!ChooseFilter(c)
  /\ choice'[c].kind = "options" => Range(choice'[c].chosen) \subseteq Offered(c)

DateRange == Click /\ Table!ChooseBase("createdAt")
ShowOrHide(c) == Click /\ Table!OnColumnsChange(c)
SelectSet == Click /\ Table!ChooseColumnsSet
Search == Click /\ Table!Search

Init ==
  /\ Table!Init
  /\ options = [users |-> {}, services |-> {}]
  /\ clicks = 0

Next ==
  \/ UsersFetched \/ ServiceNamesFetched
  \/ \E c \in DOMAIN eventLogsSearchableColumns : Filter(c)
  \/ \E c \in Columns : ShowOrHide(c)
  \/ DateRange \/ SelectSet \/ Search

-----------------------------------------------------------------------------
(* Properties *)

(* With the columns as they are given to it, the table asks for the event  *)
(* logs that the user described: with any of the values ticked in each     *)
(* dropdown, in the range of time, and with each word of the keyword in a  *)
(* column that is in sight.                                                *)
(* (useEventLogsColumns with eventLogsSearchableColumns)                   *)
LogsAreTheChosenOnes == Table!QuerySelectsWhatIsChosen
=============================================================================
