SPECIFICATION BusSpec
CONSTANTS
  Line = 3
  BusStops = {2}
  Dwellings = {1, 2}
PROPERTY ServedEachRound
