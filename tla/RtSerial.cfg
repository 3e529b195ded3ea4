SPECIFICATION LiveSpec
CONSTANTS
  n1 = n1
  n2 = n2
  n3 = n3
  None = None
  Node = {n1, n2, n3}
  Edge <- Fork
  Rank <- OutOfOrder
  Writes = {n2}
  Barred = {}
  MaxRetries <- Once
  Worker = {w1}
  Operations = {"start", "pause", "resume", "cancel", "step"}
  MaxStarts = 2
  Faults = {"tool"}
INVARIANTS ServedInOrder
PROPERTIES ImplementsPlanRun PlanSettles
CHECK_DEADLOCK FALSE
