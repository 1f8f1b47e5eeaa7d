CONSTANTS
  Workers = {w1}
  RestartDelay = TRUE
  MaxCrashes = 1
  MaxOomKills = 0
  MaxCommands = 1
  MaxEdits = 0
SPECIFICATION Spec
INVARIANT StopIsFinal
CHECK_DEADLOCK FALSE
