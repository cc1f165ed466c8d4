CONSTANTS
  alice = alice  bob = bob
  k1 = k1  k2 = k2  k3 = k3
  p1 = p1  p2 = p2  p3 = p3
  None = None
  Accounts <- OneAccount
  Tokens <- TwoTokens
  Procs <- ThreeProcs
  MaxAttempts = 2
  ResetTtl = 3
  LinkTtl = 2
  CodeTtl = 1
  UnlockTtl = 3
  MaxTime = 3
SPECIFICATION Spec
SYMMETRY Symmetry
INVARIANTS
  TypeOK
  ConsumedIsGone
  GuessesBounded
PROPERTIES
  SlotOnlyAdvances
CHECK_DEADLOCK FALSE
