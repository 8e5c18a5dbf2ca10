SPECIFICATION ContendedSpec
CONSTANTS
  d1 = d1
  d2 = d2
  a1 = a1
  a2 = a2
  Devices = {d1, d2}
  Addresses = {a1}
  OfflineTimeout = 2
  ConfirmationWindow = 1
  ProbeWindow = 1
  IdSpace = 3
  DetectOffline = TRUE
  MaxConcurrentProbes = 1
  SettleWindow = 0
  TrafficCapacity = 1
  NetlinkCapacity = 1
  MaxTime = 3
  MaxInputs = 1
PROPERTIES
  DepartureNoticed
