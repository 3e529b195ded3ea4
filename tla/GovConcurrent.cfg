SPECIFICATION Spec
CONSTANTS
  f1 = f1
  f2 = f2
  f3 = f3
  m1 = m1
  va = va
  vb = vb
  None = None
  Fix = {f1, f2, f3}
  AutoFix <- Auto
  Media = {m1}
  Value = {va, vb}
  TargetOf <- Shared
  Proposed <- Wanted
  Request = {r1, r2, r3}
  MaxActive = 2
  MaxEdits = 1
  Faults = {"refused", "timeout", "bad_reply", "crash"}
SYMMETRY Symmetry
INVARIANTS AppliedIsReversible AuditAccountsForRequests
PROPERTIES PublishesOnlyAuditedFixes
CHECK_DEADLOCK FALSE
