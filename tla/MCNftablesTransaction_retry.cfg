SPECIFICATION Spec
CONSTANTS
  v1 = v1
  Transactions = 1
  Attempts = 2
  Versions <- OneVersion
  Faults <- Lost
  MaxReboots = 0
INVARIANT Serialized
CHECK_DEADLOCK FALSE
