SPECIFICATION FairSpec
CONSTANTS
  Callers = {c1}
  Workers = {w1}
  Tiles = {1, 2, 3}
  Capacity = 0
  Reserves = {2}
  Recent = 2
  MaxCalls = 4
INVARIANTS SizeBound UnderWayIsCached OneCopyEach GeneratedOnce
PROPERTIES CallsReturn PrefetchRuns
CHECK_DEADLOCK FALSE
