CONSTANTS
  web1 = web1  web2 = web2  web3 = web3  ace = ace
  None = None  Dead = Dead
  Instances <- OneInstance
  Cli <- OneCli
  Keep = 2
  MaxEvents = 1
  Scenarios <- ManualRotation
SPECIFICATION FairSpec
PROPERTIES
  EverywhereTheSame
CHECK_DEADLOCK FALSE
