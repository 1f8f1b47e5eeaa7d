CONSTANTS
  Providers = {p1}
  Threshold = 1
  TicksPerSecond = 2
  exponentialBackoff <- TwoPauses
  Checks = {1}
  MaxCrashes = 1
  MaxFailures = 1
  MaxEdits = 2
SPECIFICATION MCSpec
INVARIANTS OneOpenPeriodAlone
PROPERTIES SilenceIsToldAlone RecoveryIsToldAlone PeriodsFollowQuotesOverlap
