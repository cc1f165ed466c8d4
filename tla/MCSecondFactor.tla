-------------------------- MODULE MCSecondFactor --------------------------
EXTENDS SecondFactor, TLC

CONSTANTS s1, s2, b1, b2, l1, l2, p1, p2, p3

OneSecret == {s1}
TwoSecrets == {s1, s2}
NoBatch == {}
OneBatch == {b1}
TwoBatches == {b1, b2}
NoLink == {}
OneLink == {l1}
TwoLinks == {l1, l2}
OneProc == {p1}
TwoProcs == {p1, p2}
ThreeProcs == {p1, p2, p3}

\* requests one after the other, which manage the factor between the challenges; the
\* same with passkeys, and with a lock that is lifted or runs out; and requests that
\* overlap, on a factor that is not managed meanwhile
EveryScenario ==
  {{"manage"}, {"manage", "unlock", "expire", "passkey"}, {"overlap"}}
Unlocking == {{"unlock"}}

\* secrets, batches, links and requests are interchangeable
Symmetry ==
  Permutations(Secrets) \cup Permutations(Batches) \cup Permutations(Links)
    \cup Permutations(Procs)
=============================================================================
