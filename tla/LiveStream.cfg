SPECIFICATION FairSpec
CONSTANTS
  Conns = {c1}
  Scenarios = {hover}
  Seeds = {a}
  Queue = 2
  Buffer = 1
  Window = 1
  MaxRuns = 1
  MaxLog = 7
  MaxTime = 1
INVARIANTS Unbroken ReaderUnderstands NeverWaits
PROPERTIES IsFairFeed CloseReturns
CHECK_DEADLOCK FALSE
