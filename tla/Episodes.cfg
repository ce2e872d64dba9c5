CONSTANTS
  Worlds = {1}
  Agents = {"a", "car"}
  Learners = {"a"}
  Kinematic = {"car"}
  Sensing = {}
  Freezing = {"a", "car"}
  Decimation = 2
  KinematicDivider = 2
  PedestrianDivider = 1
  SensorDivider = 1
  Latency = 0
  Seeds = {}
  TimeLimit = 2
  MaxEpisodes = 1
  MaxLength = 2
  MaxResets = 0
SPECIFICATION EpisodesSpec
INVARIANT Frozen
