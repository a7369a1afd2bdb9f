SPECIFICATION Spec
CONSTANTS
  Clients = {c1, c2, c3}
  Nobody = Nobody
  TTL = 1
  MaxTime = 2
SYMMETRY Symmetry
INVARIANT OneWinner
CHECK_DEADLOCK FALSE
