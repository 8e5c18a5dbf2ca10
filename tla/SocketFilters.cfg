SPECIFICATION InputSpec
CONSTANTS
  Lengths = {13, 21, 35, 37, 38, 42, 46, 54}
  Tagged <- NoneOneOrTwoTags
  EtherTypes = {2048, 2054, 34525, 35020}
  Fragments = {0, 16384, 8192, 1}
  Protocols = {6, 17}
  HeaderWords = {5, 6}
  Ports = {53, 67, 68}
  Payloads <- SomePayloads
  IPv4Len = 2
INVARIANTS
  TypeOK
  DhcpFilterIsExact
  DhcpFilterFitsParser
  TrafficFilterFitsParser
  ParsedAsGiven
  StaysInPayload
CHECK_DEADLOCK FALSE
