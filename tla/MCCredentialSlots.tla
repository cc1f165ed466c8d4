------------------------- MODULE MCCredentialSlots -------------------------
EXTENDS CredentialSlots, TLC

CONSTANTS alice, bob, k1, k2, k3, p1, p2, p3

OneAccount == {alice}
TwoAccounts == {alice, bob}
TwoTokens == {k1, k2}
ThreeTokens == {k1, k2, k3}
TwoProcs == {p1, p2}
ThreeProcs == {p1, p2, p3}

\* accounts, credentials and requests are interchangeable
Symmetry == Permutations(Accounts) \cup Permutations(Tokens) \cup Permutations(Procs)
=============================================================================
