SPECIFICATION Spec
CONSTANTS
  n1 = n1
  n2 = n2
  n3 = n3
  None = None
  Node = {n1, n2, n3}
  Edge <- Fork
  Rank <- OutOfOrder
  Writes = {n2}
  Barred = {}
  MaxRetries <- Once
  Worker = {w1, w2}
  Operations = {"start", "pause", "resume", "cancel", "step"}
  MaxStarts = 1
  Faults = {"tool", "crash"}
SYMMETRY Symmetry
INVARIANTS DependenciesFirst CompletedMeansDone
CHECK_DEADLOCK FALSE
