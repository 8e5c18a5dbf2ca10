SPECIFICATION FairServiceSpec
CONSTANTS
  Devices = {d1}
  SystemHostname = "router"
  Configs <- SomeConfigs
  Retry = 1
  BusCapacity = 1
  MaxEdits = 2
  MaxAnnouncements = 3
INVARIANTS
  TypeOK
  ServiceMatchesConfig
  BeliefFollowsState
PROPERTIES
  StopsOnlyWhenTold
  Served
