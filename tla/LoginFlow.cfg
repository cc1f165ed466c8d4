CONSTANTS
  Accounts = {a1, a2}
  Nobody = Nobody
  Uids = {u1, u2}
  NoUid = NoUid
  Requests = {r1, r2}
  Scenarios <- MCScenarios
  MaxAttempts = 2
  MaxTime = 2
SPECIFICATION Spec
CHECK_DEADLOCK FALSE
INVARIANT TypeOK
PROPERTIES ChallengeAnswered DisabledStaysOut
