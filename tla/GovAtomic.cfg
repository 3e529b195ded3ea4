SPECIFICATION FairSpec
CONSTANTS
  f1 = f1
  f2 = f2
  f3 = f3
  m1 = m1
  va = va
  vb = vb
  None = None
  Fix = {f1, f3}
  AutoFix <- Auto
  Media = {m1}
  Value = {va, vb}
  TargetOf <- Shared
  Proposed <- Wanted
  Request = {r1, r2, r3}
  MaxActive = 1
  MaxEdits = 0
  Faults = {"refused", "timeout"}
INVARIANTS HistoryIsTrue
PROPERTIES ImplementsAtomic DecisionsDecide
CHECK_DEADLOCK FALSE
