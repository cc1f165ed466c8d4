------------------------------ MODULE MCLoginFlow ------------------------------
(* Instances of LoginFlow for TLC. *)
EXTENDS LoginFlow

Base == [configured |-> FALSE, required |-> 0, custom |-> FALSE, devices |-> FALSE, stepUp |-> {},
         uids |-> Uids, paths |-> {}, churn |-> {}, inFlight |-> 1]
Configured == [Base EXCEPT !.configured = TRUE]
One == {CHOOSE u \in Uids : TRUE}

MCScenarios == {
  \* The challenge of the old configuration: trusted devices, passkeys, an expired password,
  \* social and custom logins, a client that asks to step up.
  [Base EXCEPT !.devices = TRUE, !.churn = {"enable", "reset", "unkey"}, !.paths = {"magic", "code"}],
  [Base EXCEPT !.devices = TRUE, !.churn = {"key", "reset"},
               !.paths = {"magic", "code", "options", "passkey"}],
  [Base EXCEPT !.churn = {"key"}, !.paths = {"identifier", "otp", "options", "passkey"}],
  [Base EXCEPT !.churn = {"stale"}, !.paths = {"identifier", "password", "expired", "code"}],
  [Base EXCEPT !.churn = {"bar"}, !.paths = {"social", "continue", "code"}],
  [Base EXCEPT !.churn = {"enable"}, !.paths = {"corp", "magic", "code"}],
  [Base EXCEPT !.devices = TRUE, !.stepUp = One, !.churn = {"key", "unkey"},
               !.paths = {"magic", "code", "options", "passkey"}],
  \* The flow of cfg.mfa: overlapping requests, lapses, passkeys, trusted devices, three
  \* factors, social and custom logins.
  [Configured EXCEPT !.custom = TRUE, !.uids = One, !.inFlight = 2,
                     !.paths = {"magic", "code", "begin", "custom"}],
  [Configured EXCEPT !.custom = TRUE, !.churn = {"lapse", "bar"},
                     !.paths = {"magic", "code", "begin", "custom"}],
  [Configured EXCEPT !.churn = {"key", "bar"}, !.paths = {"identifier", "options", "passkey", "code"}],
  [Configured EXCEPT !.devices = TRUE, !.churn = {"key", "reset"}, !.paths = {"magic", "options", "passkey"}],
  [Configured EXCEPT !.required = 3, !.custom = TRUE, !.uids = One, !.churn = {"stale"},
                     !.paths = {"identifier", "switch", "password", "expired", "code", "begin", "custom"}],
  [Configured EXCEPT !.churn = {"bar"}, !.paths = {"social", "continue", "code"}],
  [Configured EXCEPT !.required = 2, !.custom = TRUE, !.stepUp = One, !.churn = {"bar"},
                     !.paths = {"corp", "begin", "custom"}]
}
===============================================================================
