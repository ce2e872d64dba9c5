SPECIFICATION Spec
CONSTANTS
  Scenarios = {hover, race}
  Seeds = {a, b}
  MaxRuns = 2
  MaxLog = 5
  MaxTime = 0
  Keep = 1
  MaxLosses = 1
  MaxFeed = 1
INVARIANT RightEpisode
CHECK_DEADLOCK FALSE
