CONSTANTS
  Agents = {car, walker}
  Flown = {}
  Walkers = {walker}
  CommandTimeout = 1
  EpisodeTime = 3
  MaxSteps = 3
  MaxCommands = 2
  MaxResets = 1
  MaxPauses = 2
SPECIFICATION FairSpec
INVARIANT Obeys
PROPERTIES ClockContinuous ResetKept WaitsForAll ServicesAnswered KeepsStepping
