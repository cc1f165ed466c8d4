CONSTANTS
  s1 = s1  s2 = s2  b1 = b1  b2 = b2  l1 = l1  l2 = l2
  p1 = p1  p2 = p2  p3 = p3
  None = None
  Secrets <- TwoSecrets
  Batches <- TwoBatches
  BatchSize = 1
  Links <- OneLink
  Procs <- TwoProcs
  MaxAttempts = 2
  MaxStep = 2
  FindsByToken = TRUE
  Scenarios <- EveryScenario
SPECIFICATION Spec
SYMMETRY Symmetry
INVARIANTS
  TypeOK
  TotpSingleUse
  RecoverySingleUse
  RetiredStayOut
  TotpIsConfirmed
  WrongAnswersBounded
CHECK_DEADLOCK FALSE
