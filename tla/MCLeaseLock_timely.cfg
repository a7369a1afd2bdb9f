SPECIFICATION FairSpec
CONSTANTS
  c1 = c1
  c2 = c2
  Clients = {c1, c2}
  Nobody = Nobody
  TTL = 7
  Poll = 2
  Timeout <- ImpatientTimeout
  Skew <- MCSkew
  MaxSkew = 0
  MaxDelay = 1
  MaxStart = 4
  MaxTime = 9
INVARIANTS
  WorkExclusive
PROPERTIES
  AcquireSettles
CHECK_DEADLOCK FALSE
