CONSTANTS
  Connectors <- MCConnectors
  Groups <- MCGroups
  Exclusive <- MCExclusive
  Roads <- MCRoads
  PendingTimeout = 20
  Legs <- MCLegs
  WalkLong = 2
  Needs = {5, 14}
  Kerb = 1
  Curb = 1
  Clear = 6
  Across = {"s1", "sx"}
  Stuck = 2
  HitHold = 1
  Dwells = {1, 2}
  Drivers = {1, 2, 3, 4}
  StopLanes = {"n1", "s1"}
  Heading <- MCHeading
  Rank <- MCRank
  Scenes <- MCScenes
  MaxSpeed = 15
  ZoneIn = 2
  ZoneOut = 3
  DecideFrom = 15
  GrantFrom = 7
  CriticalGap = 3
  Deadlock = 3
  MaxHolds = 1
  Cars = {1, 2}
  Street = 3
  RoadLong = 5
  Exits <- MCExits
  TopSpeed = 2
  MinChange = 2
  KeepRoute = 4
  Cooldown = 2
  GiveUpAfter = 2
  Starts <- MCStarts
  MaxLate = 1
  Line = 3
  BusStops = {1, 3}
  Dwellings = {1, 2}
  Worlds = {1, 2}
  Agents = {"a", "b"}
  Learners = {"a", "b"}
  Kinematic = {}
  Sensing = {"a"}
  Freezing = {"a"}
  Decimation = 2
  KinematicDivider = 2
  PedestrianDivider = 1
  SensorDivider = 2
  Latency = 1
  Seeds = {}
  TimeLimit = 2
  MaxEpisodes = 1
  MaxLength = 2
  MaxResets = 1
SPECIFICATION Spec
INVARIANTS Cleared LeftIsTrue CarriagewayKnown AcrossInTime ZonesApart StoppedTogether InStep RightEpisode ReadingsOnTime
PROPERTIES RedOnlyIfCaught RaisedForRed RedIsRaised AllThrough RoadClears ServedEachRound EndsOnce ReturnsCount
CHECK_DEADLOCK FALSE
