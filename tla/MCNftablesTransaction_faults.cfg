SPECIFICATION FairSpec
CONSTANTS
  v1 = v1
  Transactions = 2
  Attempts = 2
  Versions <- OneVersion
  Faults <- AllFaults
  MaxReboots = 1
INVARIANTS
  RollbackRestores
  ConfirmedHolds
  ReportHolds
  Exclusive
CONSTRAINT Bounded
PROPERTIES
  EventuallySettled
CHECK_DEADLOCK FALSE
