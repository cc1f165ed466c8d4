CONSTANTS
  web1 = web1  web2 = web2  web3 = web3  ace = ace
  None = None  Dead = Dead
  Instances <- TwoInstances
  Cli <- OneCli
  Keep = 2
  MaxEvents = 2
  Scenarios <- EveryScenario
SPECIFICATION FairSpec
INVARIANTS
  TypeOK
PROPERTIES
  NoLostRotation
  RotatesOnlyOldKey
  OldKeyIsReplaced
  PropagatesAfterBaseline
CHECK_DEADLOCK FALSE
