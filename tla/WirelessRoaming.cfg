SPECIFICATION FairSpec
CONSTANTS
  d1 = d1
  a1 = a1
  a2 = a2
  Devices = {d1}
  Stations = {d1}
  AccessPoints = {a1, a2}
  LogCapacity = 2
  MaxMoves = 2
  OfflineTimeout = 1
  BusCapacity = 1
  MaxTime = 2
PROPERTIES
  PublishedAfterOfflineTime
CHECK_DEADLOCK FALSE
