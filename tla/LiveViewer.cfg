SPECIFICATION FairSpec
CONSTANTS
  Scenarios = {hover}
  Seeds = {a}
  MaxRuns = 1
  MaxLog = 6
  MaxTime = 1
  Keep = 1
  MaxLosses = 2
  MaxFeed = 1
INVARIANT ShowsTheWorld
PROPERTIES ReachesTheViewer Reconnects
CHECK_DEADLOCK FALSE
