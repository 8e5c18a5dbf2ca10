SPECIFICATION Spec
CONSTANTS
  dhcp = dhcp
  hostapd = hostapd
  neighbor = neighbor
  d1 = d1
  d2 = d2
  Devices = {d1}
  Collectors = {dhcp}
  ConnectOnly = {dhcp}
  Unforgiving = {}
  Spawning = {}
  BusCapacity = 1
  MaxEvents = 1
INVARIANTS
  StopIsNoFailure
