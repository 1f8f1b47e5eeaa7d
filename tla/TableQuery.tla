----------------------------- MODULE TableQuery -----------------------------
(***************************************************************************)
(* What a table of common-frontend asks its server for: the filters of the *)
(* columns and those of the page, the keyword, and the columns in sight,   *)
(* translated to a query by getTableDataQueryParams and tableTools.        *)
(*                                                                         *)
(* A text contains another when they are equal.                            *)
(* A value of a filter is one item or a list of items.                     *)
(***************************************************************************)
EXTENDS Integers, Sequences, Functions

CONSTANTS
  Columns,             \* keys of the columns, groups included
  parent,              \* column -> the group it is in, or itself; no group is in another
  columnsSets,         \* name -> columns that the set shows
  defaultColumnState,  \* the set chosen first, or Undefined: all columns are shown
  searchableColumns,   \* column -> how it is filtered and searched
  idColumnName,
  joinFields,          \* columns of relations, which the server joins
  DropdownChoices,             \* column -> what can be chosen in its dropdown
  PageFilters,         \* column -> what the page may ask for
  Keywords,            \* sequences of words
  Rows,                \* records the server may hold: field -> value
  Numbers, Uuids,
  Undefined, Null, Empty, True

Searchable == DOMAIN searchableColumns

VARIABLES
  choice,        \* what the user chose in the dropdown of each column
  base,          \* what the page filters by: baseFilters
  keyword,
  columnsState   \* chosenColumnsSet: what is said of each column, if anything

vars == <<choice, base, keyword, columnsState>>

Item(v) == [list |-> FALSE, items |-> <<v>>]
List(s) == [list |-> TRUE, items |-> s]

-----------------------------------------------------------------------------
(* Columns in sight *)

Children(c) == {d \in Columns \ {c} : parent[d] = c}

(* Mutant of ColumnsStates: a group is judged by its own key. *)
ColumnsStatesByKey(shownCols) ==
  [c \in Columns |-> IF c \in shownCols THEN "unset" ELSE "hidden"]

(* getColumnsStates: a column outside of the set is hidden, and so is a    *)
(* group of which nothing is shown.                                        *)
ColumnsStates(shownCols) ==
  [c \in Columns |-> IF c \in shownCols \/ Children(c) \cap shownCols # {} THEN "unset" ELSE "hidden"]

ChooseColumnsSet ==
  /\ \E name \in DOMAIN columnsSets : columnsState' = ColumnsStates(columnsSets[name])
  /\ UNCHANGED <<choice, base, keyword>>

(* checkParentVisibility: a child that is said to be shown brings its group*)
WithParents(value) ==
  [c \in Columns |-> IF \E d \in Children(c) : value[d] = "shown" THEN "shown" ELSE value[c]]

(* The column settings tick a column with all that is in it. *)
Ticked(c, show) ==
  [d \in Columns |-> IF d = c \/ parent[d] = c THEN IF show THEN "shown" ELSE "hidden" ELSE columnsState[d]]

OnColumnsChange(c) ==
  /\ \E show \in BOOLEAN : columnsState' = WithParents(Ticked(c, show))
  /\ UNCHANGED <<choice, base, keyword>>

Hidden(c) == columnsState[c] = "hidden"

-----------------------------------------------------------------------------
(* Filters *)

NoChoice == [kind |-> "none"]

ChooseFilter(c) ==
  /\ \E ch \in DropdownChoices[c] : choice' = [choice EXCEPT ![c] = ch]
  /\ UNCHANGED <<base, keyword, columnsState>>

ChooseBase(c) ==
  /\ \E ch \in PageFilters[c] : base' = [base EXCEPT ![c] = ch]
  /\ UNCHANGED <<choice, keyword, columnsState>>

Search ==
  /\ keyword' \in Keywords
  /\ UNCHANGED <<choice, base, columnsState>>

(* What a dropdown makes of a choice.  antd reports null for no choice. *)
SelectedKeys(ch) ==
  CASE ch.kind = "none" -> Item(Null)
    [] ch.kind = "number" -> List(<<ch.value>>)
    [] ch.kind = "range" -> List(<<ch.from, ch.to>>)
    [] ch.kind = "options" -> List(ch.chosen)
    [] ch.kind = "filled" -> List(<<IF ch.filled THEN 1 ELSE 0>>)

BaseValue(ch) ==
  CASE ch.kind = "none" -> Item(Undefined)
    [] ch.kind = "number" -> Item(ch.value)
    [] ch.kind = "range" -> List(<<ch.from, ch.to>>)

IsFilterValueSet(x) == x \notin {Item(v) : v \in {Undefined, Null, Empty}}

FilterValue(c) ==
  LET filter == SelectedKeys(choice[c])
  IN  IF IsFilterValueSet(filter) THEN filter ELSE BaseValue(base[c])

(* Number.isFinite(Number(x)): a list is read as its only item, an empty   *)
(* text and null as zero.                                                  *)
Finite(x) ==
  \/ x.items = <<>>
  \/ Len(x.items) = 1 /\ x.items[1] \in Numbers \cup {Null, Empty}
  \/ x = List(<<Undefined>>)

FilterOperator(col) == IF col.filterOperator = Undefined THEN col.operator ELSE col.filterOperator

Bounds(x) == {Item(x.items[i]) : i \in {j \in DOMAIN x.items : x.items[j] # Undefined}}

(* Mutant of Ignored: a range is read as one number, which it never is. *)
IgnoredAsOne(col, x) ==
  \/ x \in {Item(Empty), Item(Undefined)}
  \/ col.numeric /\ ~Finite(x)
  \/ col.uuid /\ (x.list \/ x.items[1] \notin Uuids)

(* A bound of a range has to be numeric on its own. *)
Ignored(col, x) ==
  LET numericValues == IF FilterOperator(col) = "between" /\ x.list THEN Bounds(x) ELSE {x}
  IN  \/ x \in {Item(Empty), Item(Undefined)}
      \/ col.numeric /\ \E bound \in numericValues : ~Finite(bound)
      \/ col.uuid /\ (x.list \/ x.items[1] \notin Uuids)

IsNull(field) == [field |-> field, operator |-> "isNull", items |-> <<>>]
NotNull(field) == [field |-> field, operator |-> "notNull", items |-> <<>>]

(* The condition of one column. *)
Condition(col, x) ==
  LET field == col.filterField
      operator == FilterOperator(col)
      first == IF x.items = <<>> THEN Undefined ELSE x.items[1]
      If(op, items) == [field |-> field, operator |-> op, items |-> items]
  IN  CASE operator = "between" /\ x.list /\ first = Undefined -> If("lte", <<x.items[2]>>)
        [] operator = "between" /\ x.list /\ first # Undefined /\ x.items[2] = Undefined -> If("gte", <<first>>)
        [] operator = "isNull" -> IF first = True THEN IsNull(field) ELSE NotNull(field)
        [] operator = "notNull" -> IF first = True THEN NotNull(field) ELSE IsNull(field)
        [] operator \in {"in", "inLow", "equals"} /\ x.items = <<Null>> -> IsNull(field)
        [] OTHER -> If(operator, x.items)

FiltersSearch ==
  {Condition(searchableColumns[c], FilterValue(c)) :
     c \in {d \in Searchable : ~Ignored(searchableColumns[d], FilterValue(d))}}

(* Where a word of the keyword is looked for. *)
KeywordSearch(word) ==
  {[field |-> col.searchField, operator |-> col.operator, items |-> <<word>>] :
     col \in {searchableColumns[c] : c \in
       {d \in Searchable :
          /\ searchableColumns[d].searchField # Null
          /\ ~Hidden(d)
          /\ searchableColumns[d].numeric => Finite(Item(word))
          /\ searchableColumns[d].uuid => word \in Uuids}}}

(* getTableDataQueryParams, but for sorting and pages: the search and the  *)
(* fields that are not answered anyhow.                                    *)
Query ==
  [filters |-> FiltersSearch,
   words |-> {KeywordSearch(word) : word \in Range(keyword)},
   fields |-> Columns \ ({idColumnName} \cup joinFields)]

-----------------------------------------------------------------------------
(* What a table has to be given *)

(* Groups are one level deep. *)
GroupsFit == \A c \in Columns : parent[c] \in Columns /\ parent[parent[c]] = parent[c]

(* Operators that compare a value with one that is given. *)
Compares(operator) == operator \notin {"between", "gte", "lte", "isNull", "notNull"}

NumberFits(col, ch) ==
  /\ ch.kind = "number" /\ Compares(FilterOperator(col))
  /\ ch.value \notin {Undefined, Null, Empty}
  /\ col.numeric => ch.value \in Numbers

RangeFits(col, ch) ==
  /\ ch.kind = "range" /\ FilterOperator(col) = "between" /\ ~col.uuid
  /\ {ch.from, ch.to} \subseteq Int \cup {Undefined}
  /\ col.numeric => {ch.from, ch.to} \subseteq Numbers \cup {Undefined}

Ordered(col) == \A row \in Rows : row[col.filterField] \in Int \cup {Null}

(* Nothing is looked for beside other values. *)
OptionsFit(col, ch) ==
  /\ ch.kind = "options" /\ FilterOperator(col) = "in" /\ ~col.numeric /\ ~col.uuid
  /\ ch.chosen # <<Undefined>>
  /\ Null \in Range(ch.chosen) => ch.chosen = <<Null>>

(* The dropdown and the page offer what the filter of the column takes. *)
FiltersFit(c) ==
  LET col == searchableColumns[c]
  IN  /\ \A ch \in DropdownChoices[c] \ {NoChoice} :
           (NumberFits(col, ch) /\ ~col.uuid) \/ (RangeFits(col, ch) /\ Ordered(col)) \/ OptionsFit(col, ch)
      /\ \A ch \in PageFilters[c] \ {NoChoice} :
           (NumberFits(col, ch) /\ (col.uuid => ch.value \in Uuids)) \/ (RangeFits(col, ch) /\ Ordered(col))

(* A column that a word is not looked for in does not hold it. *)
SearchFits(c) ==
  LET col == searchableColumns[c]
  IN  col.searchField # Null =>
        /\ Compares(col.operator)
        /\ \A keywords \in Keywords : \A word \in Range(keywords) :
             (col.numeric /\ ~Finite(Item(word))) \/ (col.uuid /\ word \notin Uuids) =>
               \A row \in Rows : row[col.searchField] # word

ConstantsFit ==
  /\ Undefined \notin Int \cup {Null, Empty}
  /\ Searchable \subseteq Columns /\ GroupsFit
  /\ defaultColumnState \in DOMAIN columnsSets \cup {Undefined}
  /\ \A keywords \in Keywords : Range(keywords) \cap {Undefined, Null} = {}
  /\ \A c \in Searchable :
       /\ {searchableColumns[c].numeric, searchableColumns[c].uuid} \subseteq BOOLEAN
       /\ FiltersFit(c) /\ SearchFits(c)

-----------------------------------------------------------------------------
(* The server *)

(* A condition as the database judges it: an open range asks nothing, and  *)
(* null meets no comparison.                                               *)
Meets(row, cond) ==
  LET v == row[cond.field]
      is(op) == cond.operator = op
  IN  CASE is("isNull") -> v = Null
        [] is("notNull") -> v # Null
        [] OTHER ->
             \/ cond.items = <<Undefined>>
             \/ /\ v # Null
                /\ CASE is("gte") -> v >= cond.items[1]
                     [] is("lte") -> v <= cond.items[1]
                     [] is("between") -> cond.items[1] <= v /\ v <= cond.items[2]
                     [] is("in") -> v \in Range(cond.items)
                     [] OTHER -> cond.items = <<v>>

Selected(row) ==
  /\ \A cond \in Query.filters : Meets(row, cond)
  /\ \A word \in Query.words : \E cond \in word : Meets(row, cond)

-----------------------------------------------------------------------------
Init ==
  /\ choice = [c \in Searchable |-> NoChoice]
  /\ base = [c \in Searchable |-> NoChoice]
  /\ keyword = <<>>
  /\ columnsState = IF defaultColumnState = Undefined THEN [c \in Columns |-> "unset"]
                    ELSE ColumnsStates(columnsSets[defaultColumnState])

Next ==
  \/ \E c \in Searchable : ChooseFilter(c) \/ ChooseBase(c)
  \/ \E c \in Columns : OnColumnsChange(c)
  \/ ChooseColumnsSet
  \/ Search

Spec == Init /\ [][Next]_vars

-----------------------------------------------------------------------------
(* Properties *)

TypeOK ==
  /\ \A c \in Searchable : choice[c] \in DropdownChoices[c] \cup {NoChoice} /\ base[c] \in PageFilters[c] \cup {NoChoice}
  /\ keyword \in Keywords \cup {<<>>}
  /\ columnsState \in [Columns -> {"unset", "shown", "hidden"}]

(* What a choice means to the user, for a value of the column. *)
Means(ch, v) ==
  CASE ch.kind = "none" -> TRUE
    [] ch.kind = "number" -> v = ch.value
    [] ch.kind = "range" ->
         /\ ch.from # Undefined => v # Null /\ v >= ch.from
         /\ ch.to # Undefined => v # Null /\ v <= ch.to
    [] ch.kind = "options" -> v \in Range(ch.chosen)
    [] ch.kind = "filled" -> ch.filled <=> v # Null

InSight(c) == ~Hidden(c) /\ ~Hidden(parent[c])

(* The rows asked for are the ones the user sees described above the table:*)
(* those that every filter admits, the one of the page where the user set  *)
(* none, and that hold every word of the keyword in some column in sight.  *)
(* (getFiltersSearch, applyKeywordToSearch and the filter dropdowns)       *)
QuerySelectsWhatIsChosen ==
  \A row \in Rows :
    Selected(row) <=>
      /\ \A c \in Searchable :
           Means(IF choice[c].kind = "none" THEN base[c] ELSE choice[c],
                 row[searchableColumns[c].filterField])
      /\ \A word \in Range(keyword) : \E c \in Searchable :
           /\ InSight(c) /\ searchableColumns[c].searchField # Null
           /\ row[searchableColumns[c].searchField] = word

(* However sets of columns and single columns are switched, a column that  *)
(* is shown is never out of sight in a group that is hidden.               *)
(* (getColumnsStates, columnsState.onChange)                               *)
ShownColumnsAreInSight == \A c \in Columns : ~Hidden(c) => InSight(c)
=============================================================================
