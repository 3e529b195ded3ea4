SPECIFICATION MSpec
CONSTANTS
  n1 = n1
  n2 = n2
  None = None
  Node = {n1, n2}
  Edge = {}
  Rank <- InOrder
  Writes = {n2}
  Barred = {}
  MaxRetries <- Once
  Worker = {w1, w2}
  Operations = {}
  MaxStarts = 1
  Faults = {"tool", "crash"}
  Specialist = {seo, growth}
  Interventions = {"pause", "resume", "cancel", "recover", "recover_as_viewer"}
  MaxAsked = 2
INVARIANTS HistoryIsLegal EverySpecialistHeard CompletedMissionIsDone SettlesUndisturbed
SYMMETRY Symmetry
CHECK_DEADLOCK FALSE
