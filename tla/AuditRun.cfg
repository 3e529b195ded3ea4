SPECIFICATION FairSpec
CONSTANTS
  Requests <- Several
  MaxWorkers = 2
  Faults = {"engine", "database"}
INVARIANTS StatusesAgree OutcomesAccountedFor
PROPERTIES JobEnds
CHECK_DEADLOCK FALSE
