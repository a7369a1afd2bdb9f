SPECIFICATION Spec
CONSTANTS
  Versions = {"v1", "v2"}
  Components = {"file", "ca", "archive", "plain", "directory", "account", "apk", "kernel", "system", "service", "docker", "hook", "build", "protected build"}
  MaxEdits = 2
  MaxFaults = 2
  MaxDrifts = 1
  MaxTroubles = 3
INVARIANTS
  CompletedHolds
  RetryCompletes
  NothingLeft
  PriorKept
  BuildClaimed
CHECK_DEADLOCK FALSE
