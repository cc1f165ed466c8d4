------------------------------ MODULE IdpSessions ------------------------------
(* What the parts that sign a person out share: the sessions of the IdP, kept  *)
(* by oidc-provider through its adapter, each with an account, the second of   *)
(* its login and whether it is transient (signed in without "remember me").    *)
EXTENDS Naturals, FiniteSets

CONSTANTS Sessions,    \* the ids a session may have
          Accounts, Owner, \* the people, and the one whose access is revoked
          NoSession, Nobody,
          Scenarios,   \* the environments a behaviour may have
          MaxTime      \* bound on the clock

VARIABLES env,         \* the scenario
          now,         \* the clock, in seconds
          sessions     \* id -> unused, live or gone

\* Who signs in, what the host runs, what may go wrong; and the bounds of the scenario.
Scenario == [accounts : SUBSET Accounts, console : {"none", "guard", "bridge"}, apps : BOOLEAN,
             overlap : BOOLEAN, failures : BOOLEAN,
             calls : Nat, requests : Nat, until : 1..MaxTime]

ASSUME TimeAssumption == MaxTime \in Nat \ {0}
ASSUME OwnerAssumption == Owner \in Accounts
ASSUME AbsenceAssumption == NoSession \notin Sessions /\ Nobody \notin Accounts
ASSUME ScenarioAssumption == Scenarios \subseteq Scenario

Unused == [state |-> "unused"]
LiveSession(a, t, transient) ==
  [state |-> "live", account |-> a, loginTs |-> t, transient |-> transient]
GoneSession(a) == [state |-> "gone", account |-> a]
SessionRows == [state : {"unused"}] \cup [state : {"gone"}, account : Accounts]
  \cup [state : {"live"}, account : Accounts, loginTs : 1..MaxTime, transient : BOOLEAN]

Live(s) == s \in Sessions /\ sessions[s].state = "live"
LiveOf(a) == {s \in Sessions : Live(s) /\ sessions[s].account = a}
StartedBy(a) == {s \in Sessions : sessions[s].state # "unused" /\ sessions[s].account = a}

\* The resume that follows completeLogin: the provider opens a session.
OpenSession(s, a, transient) ==
  /\ sessions[s] = Unused
  /\ sessions' = [sessions EXCEPT ![s] = LiveSession(a, now, transient)]

\* Session.destroy, which does nothing to an id that is not stored.
DestroySession(s) ==
  sessions' = IF Live(s) THEN [sessions EXCEPT ![s] = GoneSession(sessions[s].account)]
                         ELSE sessions
===============================================================================
