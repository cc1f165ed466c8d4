------------------------------ MODULE MCSignOut ------------------------------
EXTENDS SignOut, TLC

Bounds(c, r, t) == [calls |-> c, requests |-> r, until |-> t]
Apps(overlapping, failing, bounds) == bounds @@
  [accounts |-> {Owner}, console |-> "none", apps |-> TRUE, overlap |-> overlapping, failures |-> failing]
Host(people, host, bounds) == bounds @@
  [accounts |-> people, console |-> host, apps |-> FALSE, overlap |-> FALSE, failures |-> FALSE]
MCScenarios ==
  {Apps(FALSE, TRUE, Bounds(1, 0, 3)), Apps(FALSE, TRUE, Bounds(2, 0, 1)),
   Apps(TRUE, FALSE, Bounds(1, 0, 3))}
  \cup UNION {{Host(Accounts, h, Bounds(1, 1, 1)), Host({Owner}, h, Bounds(0, 2, 1))} :
                h \in {"guard", "bridge"}}
Symmetric == Permutations(Calls) \cup Permutations(Requests)
===============================================================================
