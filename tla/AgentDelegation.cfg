CONSTANTS
  alice = alice  bob = bob  pact1 = pact1  pact2 = pact2
  read = read  write = write
  d1 = d1  d2 = d2  d3 = d3  t1 = t1  t2 = t2  t3 = t3
  p1 = p1  p2 = p2  p3 = p3
  None = None
  Accounts <- TwoAccounts
  Agents <- TwoAgents
  Scopes <- TwoScopes
  Devices <- TwoDevices
  Grants = {1, 2}
  Tokens <- TwoTokens
  Procs <- TwoProcs
  DeviceTtl = 1
  GrantTtl = 3
  AccessTtl = 1
  MaxTime = 2
  Env <- AllEvents
SPECIFICATION Spec
SYMMETRY Symmetry
CONSTRAINT Bounds
INVARIANTS
  TypeOK
  SingleUse
  RightHolder
  ScopesConsented
  OneLiveGrant
PROPERTIES
  DecisionIsFinal
  ReuseRevokes
CHECK_DEADLOCK FALSE
