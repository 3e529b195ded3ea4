SPECIFICATION Spec
CONSTANTS
  Requests <- Several
  MaxWorkers = 2
  Faults = {"engine"}
INVARIANTS FailuresAreIsolated
CHECK_DEADLOCK FALSE
