SPECIFICATION FairSpec
CONSTANTS
  r1 = r1
  r2 = r2
  m1 = m1
  m2 = m2
  a = a
  b = b
  Runs = {r1, r2}
  Hosts = {1, 2}
  Machines = {m1, m2}
  Items = {1}
  Versions = {a, b}
  Configs <- Edited
  Parallel <- Workers
  Debug = FALSE
  Nobody = Nobody
  Old <- a
  MaxEdits = 1
INVARIANTS
  OnLeasedMachine
  ReviewedHolds
  CompletedIsApplied
PROPERTIES
  Returns
CHECK_DEADLOCK FALSE
