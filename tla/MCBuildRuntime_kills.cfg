SPECIFICATION Spec
CONSTANTS
  NoOne = NoOne
  Commands = {c1, c2}
  Cleaners = {k1}
  MaxKills = 2
INVARIANTS
  RunningRecorded
  SparesOthers
  WorkUndisturbed
PROPERTIES
  LockFreed
  OrphansEnd
CHECK_DEADLOCK FALSE
