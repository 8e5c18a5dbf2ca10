SPECIFICATION FocusSpec
SYMMETRY Interchangeable
CONSTANTS
  m1 = m1
  m2 = m2
  x1 = x1
  i1 = i1
  i2 = i2
  h1 = h1
  h2 = h2
  Absent = Absent
  ClientMACs = {m1, m2}
  Transactions = {x1}
  IPs = {i1, i2}
  Hostnames = {h1}
  TTL = 2
  SocketCapacity = 1
  MaxTime = 2
  MaxFrames = 4
INVARIANTS
  TypeOK
  TableFollowsLog
PROPERTIES
  ConnectedIffHandshake
  EventIsOfItsHandshake
