CONSTANTS
  Workers = {w1, w2}
  RestartDelay = TRUE
  MaxCrashes = 1
  MaxOomKills = 1
  MaxCommands = 2
  MaxEdits = 1
SPECIFICATION FairSpec
INVARIANT RestartNeverDuplicates
PROPERTY KeepsRunning
CHECK_DEADLOCK FALSE
