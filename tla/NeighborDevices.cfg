SPECIFICATION Spec
CONSTANTS
  d1 = d1
  d2 = d2
  a1 = a1
  a2 = a2
  Devices = {d1, d2}
  Addresses = {a1, a2}
  OfflineTimeout = 3
  ConfirmationWindow = 1
  ProbeWindow = 2
  IdSpace = 100
  DetectOffline = TRUE
  MaxConcurrentProbes = 1
  SettleWindow = 1
  TrafficCapacity = 1
  NetlinkCapacity = 1
  MaxTime = 4
  MaxInputs = 2
CONSTRAINT
  Focus
INVARIANTS
  IInv
  EventsFollowTracker
  EventsAlternate
  SnapshotIsSilent
  ProbeBudget
  NoProbeForgotten
  PendingHasProbe
PROPERTIES
  OfflineTimeElapsed
  TwoFailedProbes
  ImplementsPresence
