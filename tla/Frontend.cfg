CONSTANTS
  ann = ann
  bob = bob
  id1 = id1
  id2 = id2
  Undefined = Undefined
  Null = Null
  Empty = Empty
  True = True
  QueryColumns = {"request", "duration", "user", "entityId"}
  QueryParent <- Groups
  QueryColumnsSets <- SetsOfColumns
  QueryDefaultColumnState = "Requests"
  QuerySearchableColumns <- SearchedColumns
  QueryIdColumnName = "id"
  QueryJoinFields = {"user"}
  QueryDropdownChoices <- Dropdowns
  QueryPageFilters <- PageOffers
  QueryKeywords <- Words
  QueryRows <- Records
  QueryNumbers = {0, 1}
  QueryUuids = {id1, id2}
  LogsRows <- LogRecords
  LogsKeywords <- LogWords
  Users = {"id1", "id2"}
  Services = {"main", "monitor"}
  RowIds = {i1, i2}
  LineIds = {1, 2}
  Attributes = {"f", "g"}
  Texts = {"a", "b"}
  TableFilters <- AnyOrSome
  FormSections <- TwoSections
  FormBroken <- RulesBroken
  FormRuled = {"a", "c"}
  EmptyValue = "bad"
  DefaultText = "a"
  Permissions = {"view", "manage"}
  VerdictTime = 3
  None = None
  MaxPending = 2
  MaxTyped = 5
  MaxSubmits = 3
  MaxFieldEdits = 4
  MaxLineEdits = 5
  MaxRequests = 2
  MaxToggles = 3
  MaxChecks = 4
  MaxLoads = 3
  MaxImports = 2
  MaxChanges = 1
  MaxUntold = 1
  MaxClicks = 2
SPECIFICATION Spec
SYMMETRY Symmetry
INVARIANTS
  QueryIsAsShown
  LogsAreTheChosenOnes
  TableIsAsSeen
  ImportIsAsReviewed
  FormsTellTheirErrors
  EditsAreSavedAsShown
  CallsSettleAsAnswered
CHECK_DEADLOCK FALSE
