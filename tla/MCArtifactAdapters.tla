-------------------------- MODULE MCArtifactAdapters --------------------------
EXTENDS ArtifactAdapters, TLC

MCScenarios ==
  {[adapter |-> "database", overlap |-> TRUE, mixedTtl |-> FALSE],
   [adapter |-> "redis", overlap |-> FALSE, mixedTtl |-> FALSE],
   [adapter |-> "redis", overlap |-> TRUE, mixedTtl |-> FALSE]}
MCTtls == {1, 2}
\* Where calls on Redis overlap a consume or a revocation, a session is saved once.
Bounds == Redis /\ env.overlap => \A id \in Ids : saves[id] <= 1
Symmetric == Permutations(Calls) \cup Permutations(Tokens)
===============================================================================
