SPECIFICATION Spec
CONSTANTS
  x = x
  y = y
  z = z
  k1 = k1
  k2 = k2
  a = a
  b = b
  Names = {x, y, z}
  Templates <- TwoTemplates
  Forgettable = {b}
  MaxMounted = 2
  MaxApplies = 3
  MaxBreaks = 1
  None = None
SYMMETRY Symmetry
INVARIANTS
  RemovalsSpare
  RenameChangesNothing
  RetryAccepted
  CompletedHolds
PROPERTIES
  NothingForgotten
CHECK_DEADLOCK FALSE
