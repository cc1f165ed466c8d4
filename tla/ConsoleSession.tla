----------------------------- MODULE ConsoleSession -----------------------------
(* A browser whose session at the host follows its session at the IdP: through  *)
(* the RP guard, which restores and renews remembered logins                    *)
(* (host/oidc_rp_guard.ts, host/persistent_rp_session.ts), or through the bridge *)
(* of the account console (host/idp_session_bridge.ts). Requests of one browser *)
(* overlap: each works on the session it loaded, and may store all of it when it *)
(* ends.                                                                         *)
EXTENDS IdpSessions

CONSTANTS Requests

VARIABLES idpCookie,      \* the session of the IdP in the browser's signed cookie
          rp,             \* the browser's session at the host: account and linked session
          disabled,       \* the accounts that are disabled
          step, does,     \* where each request stands, and what it is for
          mine, wrote,    \* the session it loaded, as it changed it, and whether it did
          idp,            \* the session of the IdP it read
          loaded,         \* history: the session as it was loaded
          open, barred,   \* history: sessions not gone, accounts disabled when it began
          out, cleanSince \* history: no login since the last logout; since before the request

requests == <<step, does, mine, wrote, idp, loaded, open, barred, cleanSince>>
console == <<idpCookie, rp, disabled, requests, out>>

Empty == [account |-> Nobody, link |-> NoSession]
RpSessions == [account : Accounts \cup {Nobody}, link : Sessions \cup {NoSession}]
Steps == {"idle", "read", "gate", "renew", "destroy", "store"}
IsRpSignedIn(m) == m.account # Nobody
Local(m) == IsRpSignedIn(m) /\ m.link = NoSession
AccountOf(s) == sessions[s].account

ConsoleInit ==
  /\ idpCookie = NoSession
  /\ rp = Empty
  /\ disabled = {}
  /\ step = [r \in Requests |-> "idle"]
  /\ does = [r \in Requests |-> "visit"]
  /\ mine = [r \in Requests |-> Empty]
  /\ wrote = [r \in Requests |-> FALSE]
  /\ idp = [r \in Requests |-> NoSession]
  /\ loaded = [r \in Requests |-> Empty]
  /\ open = [r \in Requests |-> {}]
  /\ barred = [r \in Requests |-> {}]
  /\ out = FALSE
  /\ cleanSince = [r \in Requests |-> FALSE]

-----------------------------------------------------------------------------
(* What starts a login, and what ends one elsewhere. *)

\* The browser signs in at the IdP: the session's cookie replaces the former one.
BrowserSignIn(s, a, transient) ==
  /\ env.console # "none" /\ a \notin disabled
  /\ OpenSession(s, a, transient)
  /\ idpCookie' = s
  /\ out' = FALSE
  /\ cleanSince' = [r \in Requests |-> FALSE]
  /\ UNCHANGED <<env, now, rp, disabled, step, does, mine, wrote, idp, loaded, open, barred>>

\* OidcRpGuard.login after the OIDC callback, or the console's own login: the
\* account is stored, without a link.
LocalLogin(a) ==
  /\ env.console # "none" /\ a \notin disabled
  /\ rp' = [account |-> a, link |-> NoSession]
  /\ out' = FALSE
  /\ cleanSince' = [r \in Requests |-> FALSE]
  /\ UNCHANGED <<env, now, sessions, idpCookie, disabled, step, does, mine, wrote, idp, loaded, open, barred>>

DisableAccount(a) ==
  /\ env.console # "none" /\ a \notin disabled
  /\ disabled' = disabled \cup {a}
  /\ UNCHANGED <<env, now, sessions, idpCookie, rp, requests, out>>

-----------------------------------------------------------------------------
(* A request. *)

Goto(r, next) == step' = [step EXCEPT ![r] = next]
Keep(r, m) == mine' = [mine EXCEPT ![r] = m] /\ wrote' = [wrote EXCEPT ![r] = TRUE]
Untouched == UNCHANGED <<mine, wrote>>

\* The host loads the session the browser's cookie names; env.requests bounds how
\* many are in flight.
Load(r, what) ==
  /\ step[r] = "idle" /\ Cardinality({q \in Requests : step[q] # "idle"}) < env.requests
  /\ Goto(r, "read")
  /\ does' = [does EXCEPT ![r] = what]
  /\ mine' = [mine EXCEPT ![r] = rp]
  /\ wrote' = [wrote EXCEPT ![r] = FALSE]
  /\ idp' = [idp EXCEPT ![r] = idpCookie]
  /\ loaded' = [loaded EXCEPT ![r] = rp]
  /\ open' = [open EXCEPT ![r] = {s \in Sessions : sessions[s].state # "gone"}]
  /\ barred' = [barred EXCEPT ![r] = disabled]
  /\ cleanSince' = [cleanSince EXCEPT ![r] = out]
  /\ UNCHANGED <<env, now, sessions, idpCookie, rp, disabled, out>>

\* readIdpSession: the session the cookie of the request names, if it is stored.
Stored(r) == IF Live(idp[r]) THEN idp[r] ELSE NoSession

\* variant: a linked session is not compared with the one the cookie names.
DecideGuardWithoutLink(r) ==
  LET m == mine[r]
      s == Stored(r)
  IN IF s = NoSession \/ (IsRpSignedIn(m) /\ AccountOf(s) # m.account) \/ sessions[s].transient
       THEN Untouched /\ Goto(r, "store")
     ELSE Untouched /\ Goto(r, "gate")

\* ensureRpSession, up to the account: a linked session follows the one it is
\* linked to, and a local one is never turned into another account's.
DecideGuard(r) ==
  LET m == mine[r]
      s == Stored(r)
      signedIn == IsRpSignedIn(m)
      linked == m.link # NoSession
  IN IF signedIn /\ linked /\ (s # m.link \/ AccountOf(s) # m.account)
       THEN Keep(r, Empty) /\ Goto(r, "store")
     ELSE IF s = NoSession \/ (signedIn /\ AccountOf(s) # m.account) \/ sessions[s].transient
       THEN Untouched /\ Goto(r, "store")
     ELSE Untouched /\ Goto(r, "gate")

\* ensureConsoleSession, up to the account.
DecideBridge(r) ==
  LET m == mine[r]
      s == Stored(r)
      linked == m.link # NoSession
  IN IF IsRpSignedIn(m) /\ (~linked \/ (s = m.link /\ AccountOf(s) = m.account))
       THEN Untouched /\ Goto(r, "store")
     ELSE /\ IF IsRpSignedIn(m) /\ linked THEN Keep(r, Empty) ELSE Untouched
          /\ Goto(r, IF s = NoSession THEN "store" ELSE "gate")

ReadIdp(r) ==
  /\ step[r] = "read" /\ does[r] = "visit"
  /\ idp' = [idp EXCEPT ![r] = Stored(r)]
  /\ IF env.console = "guard" THEN DecideGuard(r) ELSE DecideBridge(r)
  /\ UNCHANGED <<env, now, sessions, idpCookie, rp, disabled, does, loaded, open, barred, out, cleanSince>>

\* The request ends signed in through the session it read.
Linked(r) == [account |-> AccountOf(idp[r]), link |-> idp[r]]

\* assertAccountEnabled: the guard clears a session it had, the bridge opens none.
Gate(r) ==
  /\ step[r] = "gate"
  /\ \/ /\ AccountOf(idp[r]) \in disabled
        /\ IF env.console = "guard" /\ IsRpSignedIn(mine[r]) THEN Keep(r, Empty) ELSE Untouched
        /\ Goto(r, "store")
     \/ /\ AccountOf(idp[r]) \notin disabled
        /\ \/ env.console = "guard" /\ Untouched /\ Goto(r, "renew")
           \/ env.console = "bridge" /\ Keep(r, Linked(r)) /\ Goto(r, "store")
  /\ UNCHANGED <<env, now, sessions, idpCookie, rp, disabled, does, idp, loaded, open, barred, out, cleanSince>>

\* renewSession, which fails once the session is gone; a session renewed less than
\* a minute ago is not renewed again.
Renew(r) ==
  /\ step[r] = "renew"
  /\ \/ /\ Live(idp[r]) \/ (IsRpSignedIn(mine[r]) /\ mine[r].link = idp[r])
        /\ Keep(r, Linked(r))
     \/ /\ ~Live(idp[r])
        /\ IF mine[r].link # NoSession THEN Keep(r, Empty) ELSE Untouched
  /\ Goto(r, "store")
  /\ UNCHANGED <<env, now, sessions, idpCookie, rp, disabled, does, idp, loaded, open, barred, out, cleanSince>>

\* endRpSession and endBridgedIdpSession read the session of the IdP; the bridge
\* ends it only when the console came from it.
ReadForLogout(r) ==
  /\ step[r] = "read" /\ does[r] = "logout"
  /\ idp' = [idp EXCEPT ![r] = IF env.console = "guard" \/ Stored(r) = mine[r].link
                               THEN Stored(r) ELSE NoSession]
  /\ Goto(r, "destroy")
  /\ UNCHANGED <<env, now, sessions, idpCookie, rp, disabled, does, mine, wrote, loaded, open,
                 barred, out, cleanSince>>

\* variant: the logout forgets the local session only.
DestroyNothing(r) ==
  /\ step[r] = "destroy"
  /\ UNCHANGED sessions
  /\ Keep(r, Empty)
  /\ Goto(r, "store")
  /\ UNCHANGED <<env, now, idpCookie, rp, disabled, does, idp, loaded, open, barred, out, cleanSince>>

DestroyIdp(r) ==
  /\ step[r] = "destroy"
  /\ DestroySession(idp[r])
  /\ Keep(r, Empty)
  /\ Goto(r, "store")
  /\ UNCHANGED <<env, now, idpCookie, rp, disabled, does, idp, loaded, open, barred, out, cleanSince>>

\* The request ends. What it stores is the whole session it worked on, whoever else has
\* stored meanwhile; it may leave its host's session alone only if it changed no key of it,
\* the login's or another (the mark of sudo mode, a challenge, a flash message). A logout
\* counts from here on, unless a request in flight still holds a login that no session of
\* the IdP stands behind: it may store that again.
Store(r) ==
  /\ step[r] = "store"
  /\ Goto(r, "idle")
  /\ rp' \in {mine[r]} \cup (IF wrote[r] THEN {} ELSE {rp})
  /\ out' = (out \/ /\ does[r] = "logout" /\ (idp[r] = idpCookie \/ ~Live(idpCookie))
                    /\ \A q \in Requests : ~Local(mine[q]))
  /\ does' = [does EXCEPT ![r] = "visit"]
  /\ mine' = [mine EXCEPT ![r] = Empty]
  /\ wrote' = [wrote EXCEPT ![r] = FALSE]
  /\ idp' = [idp EXCEPT ![r] = NoSession]
  /\ loaded' = [loaded EXCEPT ![r] = Empty]
  /\ open' = [open EXCEPT ![r] = {}]
  /\ barred' = [barred EXCEPT ![r] = {}]
  /\ cleanSince' = [cleanSince EXCEPT ![r] = FALSE]
  /\ UNCHANGED <<env, now, sessions, idpCookie, disabled>>

ConsoleNext ==
  \/ \E s \in Sessions, a \in env.accounts, transient \in BOOLEAN : BrowserSignIn(s, a, transient)
  \/ \E a \in env.accounts : LocalLogin(a) \/ DisableAccount(a)
  \/ \E r \in Requests :
       \/ Load(r, "visit") \/ Load(r, "logout") \/ ReadIdp(r) \/ Gate(r) \/ Renew(r)
       \/ ReadForLogout(r) \/ DestroyIdp(r) \/ Store(r)
===============================================================================
