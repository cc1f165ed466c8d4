------------------------- MODULE MCKeystoreRotation -------------------------
EXTENDS KeystoreRotation, TLC

CONSTANTS web1, web2, web3, ace

OneInstance == {web1}
TwoInstances == {web1, web2}
ThreeInstances == {web1, web2, web3}
NoCli == {}
OneCli == {ace}

\* the scheduler alone, with processes that die; the administrator alone, from
\* the first boot on; the scheduler with a vault and a lock that fail it; and with
\* no lock at all
EveryScenario ==
  {{"age", "restart"}, {"manual", "empty"}, {"age", "lockExpires", "reloadFails"},
   {"age", "restart", "noLock"}}
ManualRotation == {{"manual"}}
=============================================================================
