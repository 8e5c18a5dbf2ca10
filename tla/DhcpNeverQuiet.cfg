SPECIFICATION FairSpec
CONSTANTS
  m1 = m1
  m2 = m2
  x1 = x1
  i1 = i1
  i2 = i2
  h1 = h1
  h2 = h2
  Absent = Absent
  ClientMACs = {m1}
  Transactions = {x1}
  IPs = {}
  Hostnames = {}
  TTL = 1
  SocketCapacity = 1
  MaxTime = 2
PROPERTIES
  StopsWhenCanceled
