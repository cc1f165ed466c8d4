CONSTANTS
  s1 = s1  s2 = s2  b1 = b1  b2 = b2  l1 = l1  l2 = l2
  p1 = p1  p2 = p2  p3 = p3
  None = None
  Secrets <- OneSecret
  Batches <- OneBatch
  BatchSize = 1
  Links <- OneLink
  Procs <- OneProc
  MaxAttempts = 2
  MaxStep = 1
  FindsByToken = FALSE
  Scenarios <- Unlocking
SPECIFICATION Spec
SYMMETRY Symmetry
INVARIANTS
  LinkIsHonoured
CHECK_DEADLOCK FALSE
