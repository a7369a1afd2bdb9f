SPECIFICATION Spec
CONSTANTS
  Clients = {c1, c2, c3}
  Nobody = Nobody
  TTL = 2
  MaxTime = 5
SYMMETRY Symmetry
INVARIANTS
  BoundedDebris
  OneWinnerUntilSwapped
PROPERTIES
  CellUntilSwapped
CHECK_DEADLOCK FALSE
