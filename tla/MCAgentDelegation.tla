------------------------- MODULE MCAgentDelegation -------------------------
EXTENDS AgentDelegation, TLC

CONSTANTS alice, bob, pact1, pact2, read, write, d1, d2, d3, t1, t2, t3,
          p1, p2, p3

OneAccount == {alice}
TwoAccounts == {alice, bob}
OneAgent == {pact1}
TwoAgents == {pact1, pact2}
OneScope == {read}
TwoScopes == {read, write}
TwoDevices == {d1, d2}
NoToken == {}
TwoTokens == {t1, t2}
TwoProcs == {p1, p2}

NoEvent == {}
AllEvents == EnvEvents

\* Two bounds of the run over two accounts, agents and scopes: everything may happen as
\* long as one account and one scope are in play; or both accounts approve for one agent,
\* all that it asks for or less, and again, while grants are revoked.
InPlay == {d \in Devices : device[d] # None}
AgentsInPlay == {device[d].agent : d \in InPlay}
ScopesInPlay == UNION {device[d].requested : d \in InPlay}
AccountsInPlay ==
  ({device[d].account : d \in InPlay} \cup {proc[p].account : p \in Procs} \cup (Accounts \ active))
    \ {None}
OneConsent == Cardinality(AccountsInPlay) <= 1 /\ Cardinality(ScopesInPlay) <= 1
StepUps ==
  /\ Cardinality(AgentsInPlay) <= 1 /\ now = 0 /\ active = Accounts
  /\ \A p \in Procs : proc[p].pc # "dead"
  /\ \A d \in InPlay : device[d].status # "denied"
Bounds == OneConsent \/ StepUps

\* requests, codes, pairs, scopes, accounts and agents are interchangeable
Symmetry ==
  Permutations(Procs) \cup Permutations(Devices) \cup Permutations(Tokens)
    \cup Permutations(Scopes) \cup Permutations(Accounts)
    \cup Permutations(Agents)
=============================================================================
