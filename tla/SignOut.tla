-------------------------------- MODULE SignOut --------------------------------
(* The revocations of a person's access and the browser sessions that follow the *)
(* IdP, over the same sessions.                                                  *)
EXTENDS SessionRevocation, ConsoleSession

vars == <<env, now, sessions, apps, outcome, calls, console>>

\* The owner signs in on a device of its own, from where an app signs in too.
DeviceSignIn(s) ==
  /\ env.apps
  /\ OpenSession(s, Owner, FALSE)
  /\ UNCHANGED <<env, now, apps, outcome, calls, console>>

Tick ==
  /\ env.apps /\ now < env.until
  /\ now' = now + 1
  /\ UNCHANGED <<env, sessions, apps, outcome, calls, console>>

Init ==
  /\ env \in Scenarios
  /\ now = 1
  /\ sessions = [s \in Sessions |-> Unused]
  /\ RevocationInit
  /\ ConsoleInit

Next ==
  \/ Tick
  \/ \E s \in Sessions : DeviceSignIn(s)
  \/ RevocationNext /\ UNCHANGED console
  \/ ConsoleNext /\ UNCHANGED <<apps, outcome, calls>>

Spec == Init /\ [][Next]_vars

-----------------------------------------------------------------------------
(* Properties. *)

\* Every variable has its type.
TypeOK ==
  /\ env \in Scenario /\ now \in 1..MaxTime /\ sessions \in [Sessions -> SessionRows]
  /\ grants \in [Sessions -> {"none", "live", "gone"}]
  /\ access \subseteq Sessions /\ refresh \subseteq Sessions /\ refreshing \subseteq Sessions
  /\ cookie \in [Sessions -> 0..MaxTime]
  /\ revokedAt \in 0..MaxTime /\ agents \in BOOLEAN
  /\ recorded \subseteq Calls /\ spared \subseteq Sessions
  /\ pc \in [Calls -> Stages] /\ kind \in [Calls -> Kinds]
  /\ prev \in [Calls -> SUBSET Sessions] /\ keep \in [Calls -> Sessions \cup {NoSession}]
  /\ cutoff \in [Calls -> 0..Latest]
  /\ left \in [Calls -> SUBSET Sessions] /\ found \in [Calls -> SUBSET Sessions]
  /\ started \in [Calls -> SUBSET Sessions]
  /\ idpCookie \in Sessions \cup {NoSession} /\ rp \in RpSessions /\ disabled \subseteq Accounts
  /\ step \in [Requests -> Steps] /\ does \in [Requests -> {"visit", "logout"}]
  /\ mine \in [Requests -> RpSessions] /\ wrote \in [Requests -> BOOLEAN]
  /\ idp \in [Requests -> Sessions \cup {NoSession}] /\ loaded \in [Requests -> RpSessions]
  /\ open \in [Requests -> SUBSET Sessions] /\ barred \in [Requests -> SUBSET Accounts]
  /\ out \in BOOLEAN /\ cleanSince \in [Requests -> BOOLEAN]

Finished(c) == pc[c] = "done" /\ kind[c] \in {"all", "single"}

\* Nothing of a device that signed in before a revocation began is left when the
\* revocation returns, nor comes back: its session and its app's grant are gone,
\* and the delegations of personal agents with them; unless the app's refresh was
\* being answered meanwhile, its tokens are gone too, and, when the row was
\* written, its cookie is refused at its next request. Whatever an earlier call
\* that failed half-way had already destroyed (admin_sessions_service.ts revokeAll,
\* revokeAllExcept; backchannel_revocation_middleware.ts).
OldDevicesCutOff ==
  \A c \in Calls : Finished(c) =>
    /\ ~agents
    /\ \A s \in started[c] \ {keep[c]} :
         /\ ~Live(s) /\ grants[s] # "live"
         /\ ~env.overlap =>
              /\ s \notin access \cup refresh
              /\ c \in recorded /\ cutoff[c] = Latest => IsRevoked(s)

\* A revocation that preserves a session leaves the app of that session signed in:
\* a cookie is refused only once a row was written that does not preserve it
\* (revokeAllExcept dates its row before the preserved login).
PreservedKeepsItsApp ==
  [][\A s \in spared : cookie[s] # 0 => cookie'[s] # 0]_vars

\* A request that ends signed in through a link was begun before the session of
\* the IdP it is linked to ended, is of that session's account, and, through the
\* guard, of an account that was enabled. Through the guard it does not turn the
\* login it found into another account's, linked or not; the bridge may, once the
\* session behind a linked login is over (ensureRpSession, ensureConsoleSession).
ConsoleFollowsIdp ==
  [][\A r \in Requests :
       step[r] = "store" /\ step'[r] = "idle" /\ does[r] = "visit" /\ IsRpSignedIn(mine[r]) =>
         /\ mine[r].link # NoSession =>
              /\ mine[r].link \in open[r]
              /\ AccountOf(mine[r].link) = mine[r].account
              /\ env.console = "guard" => mine[r].account \notin barred[r]
         /\ env.console = "guard" /\ IsRpSignedIn(loaded[r]) =>
              mine[r].account = loaded[r].account]_vars

\* A logout that ended the browser's session at the IdP stays in effect: a request
\* that begins after it, with no login since, ends signed out, although a request in
\* flight during the logout may have stored the login it had loaded once more: that
\* login's link leads to a session that is gone (endRpSession, endBridgedIdpSession).
\* A login without a link has nothing to be refused by; the logout counts only when
\* no request in flight holds one (out).
LogoutSticks ==
  [][\A r \in Requests :
       step[r] = "store" /\ step'[r] = "idle" /\ does[r] = "visit" /\ cleanSince[r]
         => ~IsRpSignedIn(mine[r])]_vars
===============================================================================
