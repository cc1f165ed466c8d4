----------------------------- MODULE MCPoppySignIn -----------------------------
(* Instances of PoppySignIn for TLC. *)
EXTENDS PoppySignIn, TLC

Symmetric == Permutations(Procs) \cup Permutations(Accounts)

OneRow == {CHOOSE i \in Requests : TRUE}
OneScope == {CHOOSE s \in Scopes : TRUE}
Of(uses, rows, n) == [uses |-> uses, rows |-> rows, scopes |-> Scopes, inFlight |-> n]
Plain(uses, rows, n) == [Of(uses, rows, n) EXCEPT !.scopes = OneScope]

MCScenarios == {
  \* Two tabs and two exchanges of one code, narrower scopes, lapses and the clean-up;
  \* a device code with handlers that are lost; guesses of a mailed code.
  Of({"authorize", "narrow", "lapse", "sweep", "crash"}, OneRow, 2),
  Of({"device", "crash", "bar", "refresh"}, OneRow, 2),
  Plain({"mediated", "lapse"}, Requests, 2),
  \* Bearers minted while the grant ends: by a reused code, a sign-out or both.
  Plain({"authorize", "bearer", "refresh", "leave"}, OneRow, 2),
  \* A Session over which two accounts sign in, and what cuts them off.
  Plain({"complete", "access", "disconnect", "drop"}, {}, 2),
  Plain({"complete", "access", "all", "bar"}, {}, 2),
  \* The block of the agent, with loads of the registry that overlap it or fail.
  Plain({"device", "block", "stale", "crash"}, OneRow, 2),
  Plain({"complete", "access", "block"}, {}, 1),
  \* A browser that joins, is logged in on its own, or both.
  Plain({"complete", "access", "join", "own", "disconnect"}, OneRow, 1),
  Plain({"device", "access", "join", "lapse", "leave"}, Requests, 2)
}
===============================================================================
