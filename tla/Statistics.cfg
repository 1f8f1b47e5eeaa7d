CONSTANTS
  Providers = {p1}
  Users = {u1}
  TComplexTarget = {"FIX_SERVER"}
  Targets = {"BRIDGE"}
  TargetIds = {t1}
  Jobs = {1, 2}
  Week = 2
  Day = 2
  Units <- ScaledUnits
  targetBars = 1
  Offsets = {0, 1}
  MaxTime = 3
  MaxIncrements = 3
  MaxFaults = 1
SPECIFICATION FairSpec
INVARIANT TimelineCountsAll
PROPERTIES CountersCount BuffersDrain
CHECK_DEADLOCK FALSE
