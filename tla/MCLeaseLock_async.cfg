SPECIFICATION Spec
CONSTANTS
  c1 = c1
  c2 = c2
  Clients = {c1, c2}
  Nobody = Nobody
  TTL = 3
  Poll = 2
  Timeout <- MCTimeout
  Skew <- MCSkew
  MaxSkew = 1
  MaxDelay = 20
  MaxStart = 3
  MaxTime = 6
INVARIANTS
  Exclusive
PROPERTIES
  ImplementsCell
  StaleLeaseYields
CHECK_DEADLOCK FALSE
