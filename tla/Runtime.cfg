SPECIFICATION FairSpec
CONSTANTS
  dhcp = dhcp
  hostapd = hostapd
  neighbor = neighbor
  d1 = d1
  d2 = d2
  Devices = {d1, d2}
  Collectors = {hostapd, neighbor}
  ConnectOnly = {}
  Unforgiving = {neighbor}
  Spawning = {hostapd}
  BusCapacity = 1
  MaxEvents = 3
CONSTRAINT
  FocusTypes
ACTION_CONSTRAINT
  FocusStep
INVARIANTS
  TypeOK
  CaughtUp
  NothingOutlivesRun
  FailureIsReported
PROPERTIES
  ImplementsFeed
  OneEndsAll
  NewsIsPublished
