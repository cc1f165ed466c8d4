---------------------------- MODULE SignOutProofs ----------------------------
(* TLAPS proofs about SignOut, for any sessions, people, calls, requests and    *)
(* scenarios: type correctness, OldDevicesCutOff, PreservedKeepsItsApp,         *)
(* ConsoleFollowsIdp and LogoutSticks.                                          *)
(*                                                                              *)
(* The two halves meet in the sessions only, and these only advance             *)
(* (SessionsAdvance): RevocationInv says where each call stands and what it has *)
(* cut off already, ConsoleInv what each request holds of the session it        *)
(* loaded; each survives what the other half does.                              *)
EXTENDS SignOut, TLAPS

State(s) == sessions[s].state

\* A session is opened once, with the time of the clock, and ends once; its account stays.
SessionsAdvance ==
  \A s \in Sessions :
    /\ State(s) # "unused" => State(s)' # "unused" /\ AccountOf(s)' = AccountOf(s)
    /\ State(s) = "gone" => State(s)' = "gone"
    /\ State(s) = "live" /\ State(s)' = "live" => sessions'[s] = sessions[s]
    /\ State(s) = "unused" /\ State(s)' = "live" => sessions'[s].loginTs = now /\ now' = now

SharedTypes == env \in Scenario /\ now \in 1..MaxTime /\ sessions \in [Sessions -> SessionRows]

RevocationTypes ==
  /\ grants \in [Sessions -> {"none", "live", "gone"}]
  /\ access \subseteq Sessions /\ refresh \subseteq Sessions /\ refreshing \subseteq Sessions
  /\ cookie \in [Sessions -> 0..MaxTime]
  /\ revokedAt \in 0..MaxTime /\ agents \in BOOLEAN
  /\ recorded \subseteq Calls /\ spared \subseteq Sessions
  /\ pc \in [Calls -> Stages] /\ kind \in [Calls -> Kinds]
  /\ prev \in [Calls -> SUBSET Sessions] /\ keep \in [Calls -> Sessions \cup {NoSession}]
  /\ cutoff \in [Calls -> 0..Latest]
  /\ left \in [Calls -> SUBSET Sessions] /\ found \in [Calls -> SUBSET Sessions]
  /\ started \in [Calls -> SUBSET Sessions]

ConsoleTypes ==
  /\ idpCookie \in Sessions \cup {NoSession} /\ rp \in RpSessions /\ disabled \subseteq Accounts
  /\ step \in [Requests -> Steps] /\ does \in [Requests -> {"visit", "logout"}]
  /\ mine \in [Requests -> RpSessions] /\ wrote \in [Requests -> BOOLEAN]
  /\ idp \in [Requests -> Sessions \cup {NoSession}] /\ loaded \in [Requests -> RpSessions]
  /\ open \in [Requests -> SUBSET Sessions] /\ barred \in [Requests -> SUBSET Accounts]
  /\ out \in BOOLEAN /\ cleanSince \in [Requests -> BOOLEAN]

-----------------------------------------------------------------------------
(* The invariant of the revocations. *)

\* The timestamps lie in the past, and an app's cookie is no older than the login
\* of its session.
Dated ==
  /\ revokedAt <= now
  /\ \A s \in Sessions :
       /\ cookie[s] <= now
       /\ cookie[s] # 0 \/ s \in refreshing => State(s) # "unused"
       /\ Live(s) => sessions[s].loginTs <= now
       /\ Live(s) /\ cookie[s] # 0 => sessions[s].loginTs <= cookie[s]

\* Without refreshes in flight, whatever is stored is stored under a live grant.
TokensOfGrants ==
  ~env.overlap => refreshing = {} /\ \A s \in access \cup refresh : grants[s] = "live"

\* A row that preserves a session is older than the cookie of its app.
Sparing ==
  /\ spared # {} => revokedAt < now
  /\ \A s \in spared \cap Sessions : cookie[s] # 0 => revokedAt < cookie[s]

Cutting == {"grants", "access", "refresh", "byGrant"}
Others(c) == started[c] \ {keep[c]}

\* What a call that stands where it stands has cut off, or is about to.
Cut(c) ==
  /\ pc[c] \in {"idle", "login", "listed"} => started[c] = {} /\ cutoff[c] = Latest
  /\ pc[c] \in {"login", "listed"} => kind[c] = "single"
  /\ kind[c] \in {"client", "org"} => started[c] = {}
  /\ \A s \in started[c] : State(s) # "unused"
  /\ pc[c] = "sessions" => \A s \in Others(c) : Live(s) => s \in left[c]
  /\ pc[c] \in Cutting \cup {"agents", "done"} => \A s \in Others(c) : ~Live(s)
  /\ pc[c] \in Cutting => \A s \in Others(c) :
       grants[s] = "live" => s \in found[c] \/ (pc[c] = "byGrant" /\ s \in left[c])
  /\ pc[c] \in {"agents", "done"} => \A s \in Others(c) : grants[s] # "live"
  /\ Finished(c) => ~agents

\* The grants a call listed had been given, and the one it is about to destroy has no tokens.
Listed(c) ==
  /\ \A s \in found[c] : grants[s] # "none"
  /\ pc[c] = "byGrant" => \A s, x \in left[c] : s = x
  /\ pc[c] = "byGrant" => \A s \in left[c] :
       grants[s] # "none" /\ (~env.overlap => s \notin access \cup refresh)

\* The row a call writes.
Dates(c) ==
  /\ c \in recorded => pc[c] \in {"agents", "done", "failed"}
  /\ c \in recorded /\ pc[c] \in {"agents", "done"} /\ cutoff[c] = Latest /\ ~env.overlap =>
       \A s \in Others(c) : IsRevoked(s)
  /\ cutoff[c] # Latest =>
       /\ cutoff[c] < now /\ keep[c] \in Sessions
       /\ cookie[keep[c]] # 0 => cutoff[c] < cookie[keep[c]]

RevocationInv ==
  /\ Dated /\ TokensOfGrants /\ Sparing
  /\ \A c \in Calls : Cut(c) /\ Listed(c) /\ Dates(c)

-----------------------------------------------------------------------------
(* The invariant of the console. *)

Known(s) == s \in Sessions => State(s) # "unused"

\* A link leads to a session that was opened, and under the guard to one that is remembered.
Tied(m) ==
  m.link # NoSession =>
    /\ State(m.link) # "unused"
    /\ env.console = "guard" /\ Live(m.link) => ~sessions[m.link].transient

\* After a logout with no login since, the browser's session at the IdP is gone, and
\* what the host has, or a request in flight may store, is at most linked to one.
LoggedOut ==
  out => ~Live(idpCookie) /\ ~Local(rp) /\ \A r \in Requests : ~Local(mine[r])

Seen(r) ==
  /\ step[r] # "idle" => \A s \in Sessions : State(s) # "gone" => s \in open[r]
  /\ barred[r] \subseteq disabled
  /\ Known(idp[r]) /\ Tied(mine[r])

Passing(r) ==
  /\ step[r] \in {"gate", "renew"} =>
       /\ does[r] = "visit" /\ idp[r] \in open[r]
       /\ env.console = "guard" /\ Live(idp[r]) => ~sessions[idp[r]].transient
  /\ step[r] = "gate" /\ env.console # "guard" => ~IsRpSignedIn(mine[r])
  /\ step[r] = "renew" => AccountOf(idp[r]) \notin barred[r]
  /\ step[r] = "store" /\ does[r] = "visit" /\ IsRpSignedIn(mine[r]) /\ mine[r].link # NoSession =>
       /\ mine[r].link \in open[r] /\ AccountOf(mine[r].link) = mine[r].account
       /\ env.console = "guard" => mine[r].account \notin barred[r]
  /\ step[r] = "store" /\ does[r] = "logout" => mine[r] = Empty /\ wrote[r] /\ ~Live(idp[r])

\* The guard keeps the login a request found until it clears it or signs in the same account.
Same(r) ==
  env.console = "guard" =>
    /\ step[r] \in {"read", "gate", "renew"} => mine[r] = loaded[r]
    /\ step[r] \in {"gate", "renew"} /\ IsRpSignedIn(loaded[r]) => AccountOf(idp[r]) = loaded[r].account
    /\ step[r] = "store" /\ does[r] = "visit" /\ IsRpSignedIn(loaded[r]) /\ IsRpSignedIn(mine[r]) =>
         mine[r].account = loaded[r].account

Clean(r) ==
  cleanSince[r] =>
    /\ ~Live(idp[r]) /\ step[r] \notin {"idle", "gate", "renew"}
    /\ step[r] = "read" /\ IsRpSignedIn(mine[r]) => mine[r].link # NoSession
    /\ step[r] = "store" /\ does[r] = "visit" => ~IsRpSignedIn(mine[r])

ConsoleInv ==
  /\ Known(idpCookie) /\ Tied(rp) /\ LoggedOut
  /\ \A r \in Requests : Seen(r) /\ Passing(r) /\ Same(r) /\ Clean(r)

IInv == SharedTypes /\ RevocationTypes /\ ConsoleTypes /\ RevocationInv /\ ConsoleInv

-----------------------------------------------------------------------------
(* Types, and what the two halves share. *)

LEMMA TypeParts == TypeOK <=> SharedTypes /\ RevocationTypes /\ ConsoleTypes
BY DEF TypeOK, SharedTypes, RevocationTypes, ConsoleTypes

\* The rows of the sessions, by their state.
LEMMA Rows ==
  ASSUME SharedTypes, NEW s \in Sessions
  PROVE  /\ State(s) \in {"unused", "live", "gone"} /\ (Live(s) <=> State(s) = "live")
         /\ State(s) # "unused" => AccountOf(s) \in Accounts
         /\ Live(s) => sessions[s].loginTs \in 1..MaxTime
BY DEF SharedTypes, SessionRows, State, Live, AccountOf

LEMMA InitInv == Init => IInv
<1> SUFFICES ASSUME Init PROVE IInv
  OBVIOUS
<1> USE TimeAssumption, AbsenceAssumption, ScenarioAssumption
<1>1. SharedTypes
  BY DEF Init, SharedTypes, Unused, SessionRows
<1>2. RevocationTypes
  BY DEF Init, RevocationInit, RevocationTypes, Stages, Kinds, Latest
<1>3. ConsoleTypes
  BY DEF Init, ConsoleInit, ConsoleTypes, RpSessions, Empty, Steps
<1>4. RevocationInv
  BY DEF Init, RevocationInit, RevocationInv, Dated, TokensOfGrants, Sparing, Cut, Listed, Dates,
    Cutting, Finished, Live, State, Unused, Latest, Others
<1>5. ConsoleInv
  BY DEF Init, ConsoleInit, ConsoleInv, Known, Tied, LoggedOut, Seen, Passing, Same,
    Clean, Empty, IsRpSignedIn, Local
<1> QED BY <1>1, <1>2, <1>3, <1>4, <1>5 DEF IInv

\* Opening a session, ending one and leaving them alone is all that happens to them.
LEMMA Opening ==
  ASSUME SharedTypes, NEW s \in Sessions, NEW a \in Accounts, NEW transient \in BOOLEAN,
         OpenSession(s, a, transient), now' = now, env' = env
  PROVE  SharedTypes' /\ SessionsAdvance
BY TimeAssumption DEF OpenSession, SharedTypes, SessionRows, LiveSession, Unused, SessionsAdvance,
  State, AccountOf

LEMMA Destroying ==
  ASSUME SharedTypes, NEW s, DestroySession(s), now' = now, env' = env
  PROVE  SharedTypes' /\ SessionsAdvance /\ ~Live(s)'
BY DEF DestroySession, SharedTypes, SessionRows, GoneSession, SessionsAdvance, State, AccountOf, Live

LEMMA Leaving == ASSUME UNCHANGED sessions PROVE SessionsAdvance
BY DEF SessionsAdvance, State, AccountOf

\* What advance means for a session that is not live, and for a known one.
LEMMA StaysOut ==
  ASSUME SharedTypes, SharedTypes', SessionsAdvance, NEW s
  PROVE  /\ Known(s) /\ ~Live(s) => ~Live(s)'
         /\ Known(s) => Known(s)'
         /\ s \in Sessions /\ State(s) # "unused" => State(s)' # "unused" /\ AccountOf(s)' = AccountOf(s)
         /\ s \in Sessions /\ State(s) # "unused" /\ Live(s)' => Live(s) /\ sessions'[s] = sessions[s]
BY DEF SharedTypes, SessionRows, Known, SessionsAdvance, Live, State, AccountOf

\* What one half does to the sessions is no matter to the other.
LEMMA RevocationFrame ==
  ASSUME SharedTypes, SharedTypes', SessionsAdvance, RevocationTypes, RevocationInv,
         UNCHANGED <<env, apps, outcome, calls>>, now' >= now
  PROVE  RevocationTypes' /\ RevocationInv'
<1> USE DEF apps, outcome, calls
<1>1. RevocationTypes'
  BY DEF RevocationTypes
<1>2. now \in Nat /\ now' \in Nat
  BY TimeAssumption DEF SharedTypes
<1>3. Dated'
  <2> SUFFICES ASSUME NEW s \in Sessions
               PROVE  /\ cookie[s] <= now'
                      /\ cookie[s] # 0 \/ s \in refreshing => State(s)' # "unused"
                      /\ Live(s)' => sessions'[s].loginTs <= now'
                      /\ Live(s)' /\ cookie[s] # 0 => sessions'[s].loginTs <= cookie[s]
    BY <1>2 DEF Dated, RevocationInv, RevocationTypes
  <2>1. /\ cookie[s] \in Nat /\ cookie[s] <= now
        /\ cookie[s] # 0 \/ s \in refreshing => State(s) # "unused"
    BY TimeAssumption DEF RevocationInv, RevocationTypes, Dated
  <2>2. CASE State(s) = "unused"
    <3>1. Live(s)' => sessions'[s].loginTs = now
      BY <2>2 DEF SessionsAdvance, Live, State
    <3> QED BY <2>1, <2>2, <3>1, <1>2
  <2>3. CASE State(s) # "unused"
    <3>1. Live(s)' => Live(s) /\ sessions'[s] = sessions[s] /\ sessions[s].loginTs \in 1..MaxTime
      BY <2>3, StaysOut, Rows
    <3> QED BY <2>1, <2>3, <3>1, <1>2, StaysOut, TimeAssumption DEF RevocationInv, Dated
  <2> QED BY <2>2, <2>3
<1>4. TokensOfGrants' /\ Sparing'
  BY <1>2, TimeAssumption DEF RevocationInv, RevocationTypes, TokensOfGrants, Sparing
<1>5. ASSUME NEW c \in Calls PROVE Cut(c)' /\ Listed(c)' /\ Dates(c)'
  <2>1. Cut(c)'
    <3>1. \A s \in started[c] : s \in Sessions /\ State(s) # "unused"
      BY DEF RevocationInv, Cut, RevocationTypes
    <3>2. \A s \in started[c] : State(s)' # "unused" /\ (Live(s)' => Live(s))
      BY <3>1, StaysOut
    <3> QED BY <3>2 DEF RevocationInv, Cut, Others, Finished
  <2>2. Listed(c)'
    BY DEF RevocationInv, Listed
  <2>3. Dates(c)'
    BY <1>2, TimeAssumption DEF RevocationInv, RevocationTypes, Dates, Others, IsRevoked, Latest
  <2> QED BY <2>1, <2>2, <2>3
<1> QED BY <1>1, <1>3, <1>4, <1>5 DEF RevocationInv

LEMMA ConsoleFrame ==
  ASSUME SharedTypes, SharedTypes', SessionsAdvance, ConsoleTypes, ConsoleInv,
         UNCHANGED <<env, console>>
  PROVE  ConsoleTypes' /\ ConsoleInv'
<1> USE DEF console, requests
<1>1. ConsoleTypes'
  BY DEF ConsoleTypes
<1>2. Known(idpCookie)' /\ Tied(rp)' /\ LoggedOut'
  <2>1. rp.link # NoSession => rp.link \in Sessions
    BY DEF ConsoleTypes, RpSessions
  <2> QED BY <2>1, StaysOut DEF ConsoleInv, Tied, LoggedOut, Local, IsRpSignedIn
<1>3. ASSUME NEW r \in Requests PROVE Seen(r)' /\ Passing(r)' /\ Same(r)' /\ Clean(r)'
  <2>1. /\ mine[r].link # NoSession => mine[r].link \in Sessions
        /\ open[r] \subseteq Sessions
    BY DEF ConsoleTypes, RpSessions
  <2>2. \A s \in Sessions : State(s) = "gone" => State(s)' = "gone"
    BY DEF SessionsAdvance
  <2>3. Known(idp[r])
    BY DEF ConsoleInv, Seen
  <2>4. Seen(r)'
    BY <2>1, <2>2, <2>3, StaysOut DEF ConsoleInv, Seen, Tied
  <2>5. Passing(r)'
    <3>1. mine[r].link # NoSession => State(mine[r].link) # "unused"
      BY DEF ConsoleInv, Seen, Tied
    <3>2. idp[r] \in open[r] => State(idp[r]) # "unused"
      BY <2>1, <2>3 DEF Known
    <3> QED BY <2>1, <2>3, <3>1, <3>2, StaysOut DEF ConsoleInv, Passing
  <2>6. Clean(r)'
    BY <2>3, StaysOut DEF ConsoleInv, Clean
  <2>7. Same(r)'
    <3>1. step[r] \in {"gate", "renew"} => idp[r] \in Sessions /\ State(idp[r]) # "unused"
      BY <2>1, <2>3 DEF ConsoleInv, Passing, Known
    <3>2. step[r] \in {"gate", "renew"} => AccountOf(idp[r])' = AccountOf(idp[r])
      BY <3>1, StaysOut
    <3> QED BY <3>2 DEF ConsoleInv, Same
  <2> QED BY <2>4, <2>5, <2>6, <2>7
<1> QED BY <1>1, <1>2, <1>3 DEF ConsoleInv

-----------------------------------------------------------------------------
(* The steps of the revocations and of the apps. *)

\* Neither touches the sessions, but for the revocation that destroys them.
LEMMA RevocationSessions ==
  ASSUME SharedTypes, RevocationNext
  PROVE  SharedTypes' /\ SessionsAdvance /\ env' = env /\ now' = now
<1>1. ASSUME NEW c \in Calls, DestroyListed(c)
      PROVE  SharedTypes' /\ SessionsAdvance /\ env' = env /\ now' = now
  BY <1>1, Destroying DEF DestroyListed
<1>2. ASSUME UNCHANGED <<env, now, sessions>>
      PROVE  SharedTypes' /\ SessionsAdvance /\ env' = env /\ now' = now
  BY <1>2, Leaving DEF SharedTypes
<1>3. ASSUME NEW s \in Sessions,
             AppSignIn(s) \/ AppRefresh(s) \/ BeginAppRefresh(s) \/ EndAppRefresh(s) \/ AppRequest(s)
      PROVE  UNCHANGED <<env, now, sessions>>
  BY <1>3 DEF AppSignIn, AppRefresh, BeginAppRefresh, EndAppRefresh, AppRequest
<1>4. ASSUME NEW c \in Calls,
             \/ BeginLogin(c) \/ FindNewSession(c) \/ ListSessions(c) \/ ListGrants(c)
             \/ ListAccessTokens(c) \/ ListRefreshTokens(c) \/ DestroyToken(c) \/ RevokeByGrantId(c)
             \/ DestroyGrant(c) \/ Record(c) \/ EndClientGrants(c) \/ RevokeAgentGrants(c) \/ Fail(c)
      PROVE  UNCHANGED <<env, now, sessions>>
  BY <1>4 DEF BeginLogin, FindNewSession, ListSessions, ListSessionsDated, ListGrants, ListAccessTokens,
    ListRefreshTokens, ListTokens, DestroyToken, RevokeByGrantId, DestroyGrant, Record, EndClientGrants,
    RevokeAgentGrants, Fail
<1> QED BY <1>1, <1>2, <1>3, <1>4 DEF RevocationNext

LEMMA RevocationTyped ==
  ASSUME SharedTypes, RevocationTypes, RevocationNext
  PROVE  RevocationTypes'
<1> USE TimeAssumption DEF RevocationTypes, apps, outcome, calls
<1>1. ASSUME NEW s \in Sessions, AppSignIn(s) PROVE RevocationTypes'
  BY <1>1 DEF AppSignIn, SharedTypes
<1>2. ASSUME NEW s \in Sessions, AppRefresh(s) PROVE RevocationTypes'
  BY <1>2 DEF AppRefresh, Refreshed, SharedTypes
<1>3. ASSUME NEW s \in Sessions, BeginAppRefresh(s) PROVE RevocationTypes'
  BY <1>3 DEF BeginAppRefresh, SharedTypes
<1>4. ASSUME NEW s \in Sessions, EndAppRefresh(s) PROVE RevocationTypes'
  BY <1>4 DEF EndAppRefresh, Refreshed, SharedTypes
<1>5. ASSUME NEW s \in Sessions, AppRequest(s) PROVE RevocationTypes'
  BY <1>5 DEF AppRequest, SharedTypes
<1>6. ASSUME NEW c \in Calls, BeginLogin(c) PROVE RevocationTypes'
  BY <1>6 DEF BeginLogin, LiveOf, Stages, Kinds
<1>7. ASSUME NEW c \in Calls, FindNewSession(c) PROVE RevocationTypes'
  BY <1>7 DEF FindNewSession, LiveOf, Stages, Kinds
<1>8. ASSUME NEW c \in Calls, ListSessions(c) PROVE RevocationTypes'
  BY <1>8 DEF ListSessions, ListSessionsDated, LiveOf, StartedBy, Latest, Live, SharedTypes, SessionRows, Stages, Kinds
<1>9. ASSUME NEW c \in Calls, DestroyListed(c) PROVE RevocationTypes'
  BY <1>9 DEF DestroyListed, Stages, Kinds
<1>10. ASSUME NEW c \in Calls, ListGrants(c) PROVE RevocationTypes'
  BY <1>10 DEF ListGrants, Concerned, Stages, Kinds
<1>11. ASSUME NEW c \in Calls, ListAccessTokens(c) PROVE RevocationTypes'
  BY <1>11 DEF ListAccessTokens, ListTokens, Stages, Kinds
<1>12. ASSUME NEW c \in Calls, ListRefreshTokens(c) PROVE RevocationTypes'
  BY <1>12 DEF ListRefreshTokens, ListTokens, Stages, Kinds
<1>13. ASSUME NEW c \in Calls, DestroyToken(c) PROVE RevocationTypes'
  BY <1>13 DEF DestroyToken, Stages, Kinds
<1>14. ASSUME NEW c \in Calls, RevokeByGrantId(c) PROVE RevocationTypes'
  BY <1>14 DEF RevokeByGrantId, Stages, Kinds
<1>15. ASSUME NEW c \in Calls, DestroyGrant(c) PROVE RevocationTypes'
  BY <1>15 DEF DestroyGrant, Stages, Kinds
<1>16. ASSUME NEW c \in Calls, Record(c) PROVE RevocationTypes'
  BY <1>16 DEF Record, Latest, SharedTypes, Stages, Kinds
<1>17. ASSUME NEW c \in Calls, EndClientGrants(c) PROVE RevocationTypes'
  BY <1>17 DEF EndClientGrants, Stages, Kinds
<1>18. ASSUME NEW c \in Calls, RevokeAgentGrants(c) PROVE RevocationTypes'
  BY <1>18 DEF RevokeAgentGrants, Stages, Kinds
<1>19. ASSUME NEW c \in Calls, Fail(c) PROVE RevocationTypes'
  BY <1>19 DEF Fail, Stages, Kinds
<1> QED BY <1>1, <1>2, <1>3, <1>4, <1>5, <1>6, <1>7, <1>8, <1>9, <1>10, <1>11, <1>12, <1>13, <1>14, <1>15, <1>16, <1>17, <1>18, <1>19 DEF RevocationNext

\* The facts about the tables: what the app of a session signs in or refreshes is
\* dated now, and what ends a grant has taken its tokens.
LEMMA TablesStay ==
  ASSUME SharedTypes, RevocationTypes, RevocationInv, RevocationNext
  PROVE  (Dated /\ TokensOfGrants /\ Sparing)'
<1> DEFINE Tables == Dated /\ TokensOfGrants /\ Sparing
<1> SUFFICES Tables'
  OBVIOUS
<1>1. now \in Nat \ {0} /\ env' = env /\ now' = now
  BY TimeAssumption, RevocationSessions DEF SharedTypes
<1>2. SharedTypes' /\ SessionsAdvance /\ RevocationTypes'
  BY RevocationSessions, RevocationTyped
<1> USE <1>1, TimeAssumption DEF RevocationTypes, apps, outcome, calls, Dated, TokensOfGrants, Sparing
<1> USE DEF RevocationInv
<1>3. ASSUME NEW s \in Sessions, AppSignIn(s) PROVE Tables'
  <2>1. sessions[s].loginTs \in Nat /\ sessions[s].loginTs <= now /\ State(s) = "live"
    BY <1>3, Rows DEF AppSignIn
  <2> QED BY <1>3, <2>1 DEF AppSignIn, Live, State
<1>4. ASSUME NEW s \in Sessions, Refreshed(s), cookie[s] # 0 \/ s \in refreshing,
             refreshing' \subseteq refreshing, ~env.overlap => grants[s] = "live",
             UNCHANGED <<env, now, sessions, grants, outcome, calls>>
      PROVE  Tables'
  <2>1. Live(s) => sessions[s].loginTs \in Nat /\ sessions[s].loginTs <= now
    BY Rows
  <2>2. State(s) # "unused"
    BY <1>4
  <2> QED BY <1>4, <2>1, <2>2 DEF Refreshed, Live, State
<1>5. ASSUME NEW s \in Sessions, AppRefresh(s) PROVE Tables'
  BY <1>4, <1>5 DEF AppRefresh, CanRefresh
<1>6. ASSUME NEW s \in Sessions, BeginAppRefresh(s) PROVE Tables'
  BY <1>6 DEF BeginAppRefresh, Live, State
<1>7. ASSUME NEW s \in Sessions, EndAppRefresh(s) PROVE Tables'
  BY <1>4, <1>7 DEF EndAppRefresh
<1>8. ASSUME NEW s \in Sessions, AppRequest(s) PROVE Tables'
  BY <1>8 DEF AppRequest, Live, State
<1>9. ASSUME UNCHANGED <<env, now, sessions, apps, outcome>> PROVE Tables'
  BY <1>9 DEF Live, State
<1>10. ASSUME NEW c \in Calls,
              \/ BeginLogin(c) \/ FindNewSession(c) \/ ListSessions(c) \/ ListGrants(c)
              \/ ListAccessTokens(c) \/ ListRefreshTokens(c) \/ EndClientGrants(c) \/ Fail(c)
       PROVE  UNCHANGED <<env, now, sessions, apps, outcome>>
  BY <1>10 DEF BeginLogin, FindNewSession, ListSessions, ListSessionsDated, ListGrants,
    ListAccessTokens, ListRefreshTokens, ListTokens, EndClientGrants, Fail
<1>11. ASSUME NEW c \in Calls, DestroyListed(c) PROVE Tables'
  <2>1. UNCHANGED <<env, now, apps, outcome>>
    BY <1>11 DEF DestroyListed
  <2>2. ASSUME NEW s \in Sessions
        PROVE  /\ cookie[s] <= now
               /\ cookie[s] # 0 \/ s \in refreshing => State(s)' # "unused"
               /\ Live(s)' => sessions'[s].loginTs <= now
               /\ Live(s)' /\ cookie[s] # 0 => sessions'[s].loginTs <= cookie[s]
    <3>1. Live(s)' => State(s) # "unused"
      BY <1>11 DEF DestroyListed, DestroySession, Live, State, GoneSession, SharedTypes
    <3>2. /\ State(s) # "unused" => State(s)' # "unused"
          /\ Live(s)' /\ State(s) # "unused" => Live(s) /\ sessions'[s] = sessions[s]
      BY <1>2, StaysOut
    <3> QED BY <3>1, <3>2
  <2>3. Dated'
    BY <2>1, <2>2
  <2>4. TokensOfGrants' /\ Sparing'
    BY <2>1
  <2> QED BY <2>3, <2>4
<1>12. ASSUME NEW c \in Calls, DestroyToken(c) PROVE Tables'
  BY <1>12 DEF DestroyToken, Live, State
<1>13. ASSUME NEW c \in Calls, RevokeByGrantId(c) PROVE Tables'
  BY <1>13 DEF RevokeByGrantId, Live, State
<1>14. ASSUME NEW c \in Calls, DestroyGrant(c) PROVE Tables'
  BY <1>14 DEF DestroyGrant, Listed, Live, State
<1>15. ASSUME NEW c \in Calls, Record(c) PROVE Tables'
  <2>1. UNCHANGED <<env, now, sessions, apps>>
    BY <1>15 DEF Record
  <2>2. Dates(c) /\ cutoff[c] \in Nat
    BY DEF Latest
  <2>3. revokedAt' <= now /\ Sparing'
    BY <1>15, <2>1, <2>2 DEF Record, Dates, Latest
  <2>4. Dated'
    BY <2>1, <2>3 DEF Live, State
  <2>5. TokensOfGrants'
    BY <2>1
  <2> QED BY <2>3, <2>4, <2>5
<1>16. ASSUME NEW c \in Calls, RevokeAgentGrants(c) PROVE Tables'
  BY <1>16 DEF RevokeAgentGrants, Live, State
<1> QED BY <1>3, <1>5, <1>6, <1>7, <1>8, <1>9, <1>10, <1>11, <1>12, <1>13, <1>14, <1>15, <1>16
        DEF RevocationNext

\* A call that has cut something off finds it cut off at its next step, whatever other
\* calls and the apps do: what is gone does not come back, and what comes is of a live session.
LEMMA CutStays ==
  ASSUME SharedTypes, RevocationTypes, RevocationInv, RevocationNext, NEW d \in Calls
  PROVE  Cut(d)'
<1> USE TimeAssumption, AbsenceAssumption DEF RevocationTypes, apps, outcome, calls, Cut, Cutting, Finished, Others, Live, State, SharedTypes
<1> USE DEF RevocationInv
<1>1. ASSUME NEW s \in Sessions, AppSignIn(s) PROVE Cut(d)'
  BY <1>1 DEF AppSignIn
<1>2. ASSUME NEW s \in Sessions, AppRefresh(s) PROVE Cut(d)'
  BY <1>2 DEF AppRefresh, Refreshed, CanRefresh
<1>3. ASSUME NEW s \in Sessions, BeginAppRefresh(s) PROVE Cut(d)'
  BY <1>3 DEF BeginAppRefresh
<1>4. ASSUME NEW s \in Sessions, EndAppRefresh(s) PROVE Cut(d)'
  BY <1>4 DEF EndAppRefresh, Refreshed
<1>5. ASSUME NEW s \in Sessions, AppRequest(s) PROVE Cut(d)'
  BY <1>5 DEF AppRequest
<1>6. ASSUME NEW c \in Calls, BeginLogin(c) PROVE Cut(d)'
  BY <1>6 DEF BeginLogin, LiveOf, CanBegin
<1>7. ASSUME NEW c \in Calls, FindNewSession(c) PROVE Cut(d)'
  BY <1>7 DEF FindNewSession, LiveOf
<1>8. ASSUME NEW c \in Calls, ListSessions(c) PROVE Cut(d)'
  <2>1. CASE d = c
    <3>1. started'[c] = StartedBy(Owner) /\ left'[c] = LiveOf(Owner) \ {keep[c]}
          /\ pc'[c] = "sessions" /\ kind'[c] \in {"all", "single"} /\ keep' = keep
      BY <1>8 DEF ListSessions, ListSessionsDated
    <3>2. sessions' = sessions /\ agents' = agents
      BY <1>8 DEF ListSessions, ListSessionsDated
    <3> QED BY <2>1, <3>1, <3>2 DEF StartedBy, LiveOf
  <2>2. CASE d # c
    BY <1>8, <2>2 DEF ListSessions, ListSessionsDated
  <2> QED BY <2>1, <2>2
<1>9. ASSUME NEW c \in Calls, DestroyListed(c) PROVE Cut(d)'
  BY <1>9 DEF DestroyListed, DestroySession, GoneSession
<1>10. ASSUME NEW c \in Calls, ListGrants(c) PROVE Cut(d)'
  BY <1>10 DEF ListGrants, Concerned, CanBegin
<1>11. ASSUME NEW c \in Calls, ListAccessTokens(c) PROVE Cut(d)'
  BY <1>11 DEF ListAccessTokens, ListTokens
<1>12. ASSUME NEW c \in Calls, ListRefreshTokens(c) PROVE Cut(d)'
  BY <1>12 DEF ListRefreshTokens, ListTokens
<1>13. ASSUME NEW c \in Calls, DestroyToken(c) PROVE Cut(d)'
  BY <1>13 DEF DestroyToken
<1>14. ASSUME NEW c \in Calls, RevokeByGrantId(c) PROVE Cut(d)'
  BY <1>14 DEF RevokeByGrantId
<1>15. ASSUME NEW c \in Calls, DestroyGrant(c) PROVE Cut(d)'
  BY <1>15 DEF DestroyGrant, Listed
<1>16. ASSUME NEW c \in Calls, Record(c) PROVE Cut(d)'
  BY <1>16 DEF Record, Latest, GrantsDestroyed
<1>17. ASSUME NEW c \in Calls, EndClientGrants(c) PROVE Cut(d)'
  BY <1>17 DEF EndClientGrants, GrantsDestroyed
<1>18. ASSUME NEW c \in Calls, RevokeAgentGrants(c) PROVE Cut(d)'
  BY <1>18 DEF RevokeAgentGrants
<1>19. ASSUME NEW c \in Calls, Fail(c) PROVE Cut(d)'
  BY <1>19 DEF Fail
<1> QED BY <1>1, <1>2, <1>3, <1>4, <1>5, <1>6, <1>7, <1>8, <1>9, <1>10, <1>11, <1>12, <1>13,
          <1>14, <1>15, <1>16, <1>17, <1>18, <1>19 DEF RevocationNext

\* Grants are listed when they are live, and lose their tokens before they are destroyed.
LEMMA ListedStays ==
  ASSUME SharedTypes, RevocationTypes, RevocationInv, RevocationNext, NEW d \in Calls
  PROVE  Listed(d)'
<1> USE TimeAssumption, AbsenceAssumption DEF RevocationTypes, apps, outcome, calls, Listed, TokensOfGrants
<1> USE DEF RevocationInv
<1>1. ASSUME NEW s \in Sessions, AppSignIn(s) PROVE Listed(d)'
  BY <1>1 DEF AppSignIn
<1>2. ASSUME NEW s \in Sessions, AppRefresh(s) PROVE Listed(d)'
  BY <1>2 DEF AppRefresh, Refreshed, CanRefresh
<1>3. ASSUME NEW s \in Sessions, BeginAppRefresh(s) PROVE Listed(d)'
  BY <1>3 DEF BeginAppRefresh
<1>4. ASSUME NEW s \in Sessions, EndAppRefresh(s) PROVE Listed(d)'
  BY <1>4 DEF EndAppRefresh, Refreshed
<1>5. ASSUME NEW s \in Sessions, AppRequest(s) PROVE Listed(d)'
  BY <1>5 DEF AppRequest
<1>6. ASSUME NEW c \in Calls, BeginLogin(c) PROVE Listed(d)'
  BY <1>6 DEF BeginLogin, LiveOf, CanBegin
<1>7. ASSUME NEW c \in Calls, FindNewSession(c) PROVE Listed(d)'
  BY <1>7 DEF FindNewSession, LiveOf
<1>8. ASSUME NEW c \in Calls, ListSessions(c) PROVE Listed(d)'
  BY <1>8 DEF ListSessions, ListSessionsDated, LiveOf, StartedBy, CanBegin, Latest
<1>9. ASSUME NEW c \in Calls, DestroyListed(c) PROVE Listed(d)'
  BY <1>9 DEF DestroyListed, DestroySession, GoneSession
<1>10. ASSUME NEW c \in Calls, ListGrants(c) PROVE Listed(d)'
  BY <1>10 DEF ListGrants, Concerned, CanBegin
<1>11. ASSUME NEW c \in Calls, ListAccessTokens(c) PROVE Listed(d)'
  BY <1>11 DEF ListAccessTokens, ListTokens
<1>12. ASSUME NEW c \in Calls, ListRefreshTokens(c) PROVE Listed(d)'
  BY <1>12 DEF ListRefreshTokens, ListTokens
<1>13. ASSUME NEW c \in Calls, DestroyToken(c) PROVE Listed(d)'
  BY <1>13 DEF DestroyToken
<1>14. ASSUME NEW c \in Calls, RevokeByGrantId(c) PROVE Listed(d)'
  BY <1>14 DEF RevokeByGrantId
<1>15. ASSUME NEW c \in Calls, DestroyGrant(c) PROVE Listed(d)'
  BY <1>15 DEF DestroyGrant
<1>16. ASSUME NEW c \in Calls, Record(c) PROVE Listed(d)'
  BY <1>16 DEF Record, Latest, GrantsDestroyed
<1>17. ASSUME NEW c \in Calls, EndClientGrants(c) PROVE Listed(d)'
  BY <1>17 DEF EndClientGrants, GrantsDestroyed
<1>18. ASSUME NEW c \in Calls, RevokeAgentGrants(c) PROVE Listed(d)'
  BY <1>18 DEF RevokeAgentGrants
<1>19. ASSUME NEW c \in Calls, Fail(c) PROVE Listed(d)'
  BY <1>19 DEF Fail
<1> QED BY <1>1, <1>2, <1>3, <1>4, <1>5, <1>6, <1>7, <1>8, <1>9, <1>10, <1>11, <1>12, <1>13,
          <1>14, <1>15, <1>16, <1>17, <1>18, <1>19 DEF RevocationNext

\* The row of a call is written at the end of it, with a time that has passed.
LEMMA DatesStay ==
  ASSUME SharedTypes, RevocationTypes, RevocationInv, RevocationNext, NEW d \in Calls
  PROVE  Dates(d)'
<1> USE TimeAssumption, AbsenceAssumption DEF RevocationTypes, apps, outcome, calls, Dates, Cut, Others, IsRevoked, Dated, TokensOfGrants, Live, State, SharedTypes
<1> USE DEF RevocationInv
<1>1. ASSUME NEW s \in Sessions, AppSignIn(s) PROVE Dates(d)'
  BY <1>1 DEF AppSignIn
<1>2. ASSUME NEW s \in Sessions, AppRefresh(s) PROVE Dates(d)'
  BY <1>2 DEF AppRefresh, Refreshed, CanRefresh
<1>3. ASSUME NEW s \in Sessions, BeginAppRefresh(s) PROVE Dates(d)'
  BY <1>3 DEF BeginAppRefresh
<1>4. ASSUME NEW s \in Sessions, EndAppRefresh(s) PROVE Dates(d)'
  BY <1>4 DEF EndAppRefresh, Refreshed
<1>5. ASSUME NEW s \in Sessions, AppRequest(s) PROVE Dates(d)'
  BY <1>5 DEF AppRequest
<1>6. ASSUME NEW c \in Calls, BeginLogin(c) PROVE Dates(d)'
  BY <1>6 DEF BeginLogin, LiveOf, CanBegin
<1>7. ASSUME NEW c \in Calls, FindNewSession(c) PROVE Dates(d)'
  BY <1>7 DEF FindNewSession, LiveOf
<1>8. ASSUME NEW c \in Calls, ListSessions(c) PROVE Dates(d)'
  <2>1. Live(keep[c]) => keep[c] \in Sessions /\ sessions[keep[c]].loginTs \in 1..MaxTime
    BY Rows DEF Live
  <2> QED BY <1>8, <2>1 DEF ListSessions, ListSessionsDated, CanBegin, Latest
<1>9. ASSUME NEW c \in Calls, DestroyListed(c) PROVE Dates(d)'
  BY <1>9 DEF DestroyListed, DestroySession, GoneSession
<1>10. ASSUME NEW c \in Calls, ListGrants(c) PROVE Dates(d)'
  BY <1>10 DEF ListGrants, Concerned, CanBegin
<1>11. ASSUME NEW c \in Calls, ListAccessTokens(c) PROVE Dates(d)'
  BY <1>11 DEF ListAccessTokens, ListTokens
<1>12. ASSUME NEW c \in Calls, ListRefreshTokens(c) PROVE Dates(d)'
  BY <1>12 DEF ListRefreshTokens, ListTokens
<1>13. ASSUME NEW c \in Calls, DestroyToken(c) PROVE Dates(d)'
  BY <1>13 DEF DestroyToken
<1>14. ASSUME NEW c \in Calls, RevokeByGrantId(c) PROVE Dates(d)'
  BY <1>14 DEF RevokeByGrantId
<1>15. ASSUME NEW c \in Calls, DestroyGrant(c) PROVE Dates(d)'
  BY <1>15 DEF DestroyGrant
<1>16. ASSUME NEW c \in Calls, Record(c) PROVE Dates(d)'
  BY <1>16 DEF Record, Latest, GrantsDestroyed
<1>17. ASSUME NEW c \in Calls, EndClientGrants(c) PROVE Dates(d)'
  BY <1>17 DEF EndClientGrants, GrantsDestroyed
<1>18. ASSUME NEW c \in Calls, RevokeAgentGrants(c) PROVE Dates(d)'
  BY <1>18 DEF RevokeAgentGrants
<1>19. ASSUME NEW c \in Calls, Fail(c) PROVE Dates(d)'
  BY <1>19 DEF Fail
<1> QED BY <1>1, <1>2, <1>3, <1>4, <1>5, <1>6, <1>7, <1>8, <1>9, <1>10, <1>11, <1>12, <1>13,
          <1>14, <1>15, <1>16, <1>17, <1>18, <1>19 DEF RevocationNext

-----------------------------------------------------------------------------
(* The steps of the browser. *)

\* The browser opens a session when it signs in, and a logout may end one.
LEMMA ConsoleSessions ==
  ASSUME SharedTypes, ConsoleTypes, ConsoleNext
  PROVE  SharedTypes' /\ SessionsAdvance /\ env' = env /\ now' = now
<1>1. env.accounts \subseteq Accounts
  BY DEF SharedTypes, Scenario
<1>2. ASSUME NEW s \in Sessions, NEW a \in env.accounts, NEW transient \in BOOLEAN,
             BrowserSignIn(s, a, transient)
      PROVE  SharedTypes' /\ SessionsAdvance /\ env' = env /\ now' = now
  BY <1>1, <1>2, Opening DEF BrowserSignIn
<1>3. ASSUME NEW r \in Requests, DestroyIdp(r)
      PROVE  SharedTypes' /\ SessionsAdvance /\ env' = env /\ now' = now
  BY <1>3, Destroying DEF DestroyIdp
<1>4. ASSUME UNCHANGED <<env, now, sessions>>
      PROVE  SharedTypes' /\ SessionsAdvance /\ env' = env /\ now' = now
  BY <1>4, Leaving DEF SharedTypes
<1>5. ASSUME NEW a \in env.accounts, LocalLogin(a) \/ DisableAccount(a)
      PROVE  UNCHANGED <<env, now, sessions>>
  BY <1>5 DEF LocalLogin, DisableAccount
<1>6. ASSUME NEW r \in Requests,
             \/ Load(r, "visit") \/ Load(r, "logout") \/ ReadIdp(r) \/ Gate(r) \/ Renew(r)
             \/ ReadForLogout(r) \/ Store(r)
      PROVE  UNCHANGED <<env, now, sessions>>
  BY <1>6 DEF Load, ReadIdp, Gate, Renew, ReadForLogout, Store
<1> QED BY <1>2, <1>3, <1>4, <1>5, <1>6 DEF ConsoleNext

\* What a request makes of its session, as the action writes it.
LEMMA Linking ==
  ASSUME SharedTypes, ConsoleTypes, NEW r \in Requests, idp[r] \in Sessions, State(idp[r]) # "unused"
  PROVE  Linked(r) \in RpSessions
BY Rows DEF Linked, RpSessions, ConsoleTypes

\* What a request that read the session of the IdP may do about it.
LEMMA Reading ==
  ASSUME NEW r \in Requests, ReadIdp(r)
  PROVE  /\ idp' = [idp EXCEPT ![r] = Stored(r)]
         /\ Keep(r, Empty) \/ Untouched
         /\ Goto(r, "store") \/ Goto(r, "gate")
         /\ UNCHANGED <<env, now, sessions, idpCookie, rp, disabled, does, loaded, open, barred, out, cleanSince>>
BY DEF ReadIdp, DecideGuard, DecideBridge

LEMMA ConsoleTyped ==
  ASSUME SharedTypes, ConsoleTypes, ConsoleInv, ConsoleNext
  PROVE  ConsoleTypes'
<1> USE DEF ConsoleTypes, requests
<1>1. env.accounts \subseteq Accounts
  BY DEF SharedTypes, Scenario
<1>2. Empty \in RpSessions /\ \A a \in Accounts : [account |-> a, link |-> NoSession] \in RpSessions
  BY DEF Empty, RpSessions
<1>3. ASSUME NEW s \in Sessions, NEW a \in env.accounts, NEW transient \in BOOLEAN,
             BrowserSignIn(s, a, transient)
      PROVE  ConsoleTypes'
  BY <1>3 DEF BrowserSignIn
<1>4. ASSUME NEW a \in env.accounts, LocalLogin(a) PROVE ConsoleTypes'
  BY <1>1, <1>2, <1>4 DEF LocalLogin
<1>5. ASSUME NEW a \in env.accounts, DisableAccount(a) PROVE ConsoleTypes'
  BY <1>1, <1>5 DEF DisableAccount
<1>6. ASSUME NEW r \in Requests, NEW what \in {"visit", "logout"}, Load(r, what) PROVE ConsoleTypes'
  BY <1>6 DEF Load, Goto, Steps
<1>7. ASSUME NEW r \in Requests, ReadIdp(r) PROVE ConsoleTypes'
  <2>1. idp' \in [Requests -> Sessions \cup {NoSession}]
    BY <1>7, Reading DEF Stored
  <2>2. mine' \in [Requests -> RpSessions] /\ wrote' \in [Requests -> BOOLEAN]
    BY <1>2, <1>7, Reading DEF Keep, Untouched
  <2>3. step' \in [Requests -> Steps]
    BY <1>7, Reading DEF Goto, Steps
  <2> QED BY <1>7, <2>1, <2>2, <2>3, Reading
<1>8. ASSUME NEW r \in Requests, Gate(r) PROVE ConsoleTypes'
  <2>1. Linked(r) \in RpSessions
    BY <1>8, Linking DEF Gate, ConsoleInv, Passing, Seen, Known
  <2>2. mine' \in [Requests -> RpSessions] /\ wrote' \in [Requests -> BOOLEAN]
    BY <1>2, <1>8, <2>1 DEF Gate, Keep, Untouched
  <2>3. step' \in [Requests -> Steps]
    BY <1>8 DEF Gate, Goto, Steps
  <2> QED BY <1>8, <2>2, <2>3 DEF Gate
<1>9. ASSUME NEW r \in Requests, Renew(r) PROVE ConsoleTypes'
  <2>1. Linked(r) \in RpSessions
    BY <1>9, Linking DEF Renew, ConsoleInv, Passing, Seen, Known
  <2>2. mine' \in [Requests -> RpSessions] /\ wrote' \in [Requests -> BOOLEAN]
    BY <1>2, <1>9, <2>1 DEF Renew, Keep, Untouched
  <2>3. step' \in [Requests -> Steps]
    BY <1>9 DEF Renew, Goto, Steps
  <2> QED BY <1>9, <2>2, <2>3 DEF Renew
<1>10. ASSUME NEW r \in Requests, ReadForLogout(r) PROVE ConsoleTypes'
  BY <1>10 DEF ReadForLogout, Stored, Goto, Steps
<1>11. ASSUME NEW r \in Requests, DestroyIdp(r) PROVE ConsoleTypes'
  BY <1>2, <1>11 DEF DestroyIdp, Keep, Goto, Steps
<1>12. ASSUME NEW r \in Requests, Store(r) PROVE ConsoleTypes'
  BY <1>2, <1>12 DEF Store, Goto, Steps
<1> QED BY <1>3, <1>4, <1>5, <1>6, <1>7, <1>8, <1>9, <1>10, <1>11, <1>12 DEF ConsoleNext

\* What the browser and the host keep between requests.
LEMMA BrowserStays ==
  ASSUME SharedTypes, ConsoleTypes, ConsoleInv, ConsoleNext
  PROVE  (Known(idpCookie) /\ Tied(rp) /\ LoggedOut)'
<1> USE AbsenceAssumption DEF ConsoleTypes, ConsoleInv, requests, Known, Tied, LoggedOut, Seen, Passing, Live, State, Local, IsRpSignedIn, Empty, RpSessions
<1>1. SharedTypes' /\ SessionsAdvance /\ env' = env
  BY ConsoleSessions
<1>2. ASSUME NEW s \in Sessions, NEW a \in env.accounts, NEW transient \in BOOLEAN,
             BrowserSignIn(s, a, transient)
      PROVE  (Known(idpCookie) /\ Tied(rp) /\ LoggedOut)'
  <2>1. /\ idpCookie' = s /\ sessions'[s].state = "live" /\ rp' = rp /\ ~out'
    BY <1>2 DEF BrowserSignIn, OpenSession, LiveSession, SharedTypes
  <2>2. rp.link # NoSession =>
          /\ rp.link \in Sessions /\ State(rp.link) # "unused" /\ State(rp.link)' # "unused"
          /\ Live(rp.link)' => Live(rp.link) /\ sessions'[rp.link] = sessions[rp.link]
    BY <1>1, <2>1, StaysOut
  <2> QED BY <1>1, <2>1, <2>2
<1>3. ASSUME NEW a \in env.accounts, LocalLogin(a) PROVE (Known(idpCookie) /\ Tied(rp) /\ LoggedOut)'
  BY <1>3 DEF LocalLogin
<1>4. ASSUME NEW a \in env.accounts, DisableAccount(a) PROVE (Known(idpCookie) /\ Tied(rp) /\ LoggedOut)'
  BY <1>4 DEF DisableAccount
<1>5. ASSUME NEW r \in Requests, NEW what \in {"visit", "logout"}, Load(r, what) PROVE (Known(idpCookie) /\ Tied(rp) /\ LoggedOut)'
  BY <1>5 DEF Load, Goto
<1>6. ASSUME NEW r \in Requests, ReadIdp(r) PROVE (Known(idpCookie) /\ Tied(rp) /\ LoggedOut)'
  <2>1. UNCHANGED <<sessions, env, idpCookie, rp, out>>
    BY <1>6, Reading
  <2>2. \A q \in Requests : mine'[q] = mine[q] \/ mine'[q] = Empty
    BY <1>6, Reading DEF Keep, Untouched
  <2> QED BY <2>1, <2>2
<1>7. ASSUME NEW r \in Requests, Gate(r) PROVE (Known(idpCookie) /\ Tied(rp) /\ LoggedOut)'
  BY <1>7 DEF Gate, Goto, Keep, Untouched, Linked
<1>8. ASSUME NEW r \in Requests, Renew(r) PROVE (Known(idpCookie) /\ Tied(rp) /\ LoggedOut)'
  BY <1>8 DEF Renew, Goto, Keep, Untouched, Linked
<1>9. ASSUME NEW r \in Requests, ReadForLogout(r) PROVE (Known(idpCookie) /\ Tied(rp) /\ LoggedOut)'
  BY <1>9 DEF ReadForLogout, Goto, Stored
<1>10. ASSUME NEW r \in Requests, DestroyIdp(r) PROVE (Known(idpCookie) /\ Tied(rp) /\ LoggedOut)'
  <2>1. UNCHANGED <<idpCookie, rp, out>>
    BY <1>10 DEF DestroyIdp
  <2>2. Known(idpCookie)' /\ (~Live(idpCookie) => ~Live(idpCookie)')
    BY <1>1, <2>1, StaysOut
  <2>3. rp.link # NoSession =>
          /\ State(rp.link)' # "unused"
          /\ Live(rp.link)' => Live(rp.link) /\ sessions'[rp.link] = sessions[rp.link]
    BY <1>1, <2>1, StaysOut
  <2>4. \A q \in Requests : mine'[q] = mine[q] \/ mine'[q] = Empty
    BY <1>10 DEF DestroyIdp, Keep
  <2>5. out' => ~Live(idpCookie)' /\ ~Local(rp)' /\ \A q \in Requests : ~Local(mine'[q])
    BY <2>1, <2>2, <2>4
  <2> QED BY <1>1, <2>1, <2>2, <2>3, <2>5
<1>11. ASSUME NEW r \in Requests, Store(r) PROVE (Known(idpCookie) /\ Tied(rp) /\ LoggedOut)'
  BY <1>11 DEF Store, Goto
<1> QED BY <1>2, <1>3, <1>4, <1>5, <1>6, <1>7, <1>8, <1>9, <1>10, <1>11 DEF ConsoleNext

\* What a request loaded, and what it keeps.
LEMMA SeenStays ==
  ASSUME SharedTypes, ConsoleTypes, ConsoleInv, ConsoleNext, NEW d \in Requests
  PROVE  Seen(d)'
<1> USE AbsenceAssumption DEF ConsoleTypes, ConsoleInv, requests, Known, Tied, Seen, Passing, Live, State, IsRpSignedIn, Empty, RpSessions
<1>1. SharedTypes' /\ SessionsAdvance /\ env' = env
  BY ConsoleSessions
<1>2. ASSUME NEW s \in Sessions, NEW a \in env.accounts, NEW transient \in BOOLEAN,
             BrowserSignIn(s, a, transient)
      PROVE  Seen(d)'
  BY <1>1, <1>2, StaysOut DEF BrowserSignIn, OpenSession, LiveSession, Unused
<1>3. ASSUME NEW a \in env.accounts, LocalLogin(a) PROVE Seen(d)'
  BY <1>3 DEF LocalLogin
<1>4. ASSUME NEW a \in env.accounts, DisableAccount(a) PROVE Seen(d)'
  BY <1>4 DEF DisableAccount
<1>5. ASSUME NEW r \in Requests, NEW what \in {"visit", "logout"}, Load(r, what) PROVE Seen(d)'
  BY <1>5 DEF Load, Goto
<1>6. ASSUME NEW r \in Requests, ReadIdp(r) PROVE Seen(d)'
  BY <1>6 DEF ReadIdp, Goto, Stored, DecideGuard, DecideBridge, Keep, Untouched
<1>7. ASSUME NEW r \in Requests, Gate(r) PROVE Seen(d)'
  BY <1>7 DEF Gate, Goto, Keep, Untouched, Linked
<1>8. ASSUME NEW r \in Requests, Renew(r) PROVE Seen(d)'
  BY <1>8 DEF Renew, Goto, Keep, Untouched, Linked
<1>9. ASSUME NEW r \in Requests, ReadForLogout(r) PROVE Seen(d)'
  BY <1>9 DEF ReadForLogout, Goto, Stored
<1>10. ASSUME NEW r \in Requests, DestroyIdp(r) PROVE Seen(d)'
  <2>1. UNCHANGED <<disabled, idp, open, barred>> /\ Tied(Empty)'
    BY <1>10 DEF DestroyIdp
  <2>2. Known(idp[d])' /\ \A s \in Sessions : State(s) = "gone" => State(s)' = "gone"
    BY <1>1, <2>1, StaysOut DEF SessionsAdvance
  <2>3. mine[d].link # NoSession =>
          /\ sessions'[mine[d].link].state # "unused"
          /\ sessions'[mine[d].link].state = "live" =>
               Live(mine[d].link) /\ sessions'[mine[d].link] = sessions[mine[d].link]
    BY <1>1, StaysOut
  <2>4. \/ mine'[d] = mine[d] /\ wrote'[d] = wrote[d] /\ step'[d] = step[d]
        \/ mine'[d] = Empty /\ step[d] # "idle"
    BY <1>10 DEF DestroyIdp, Keep, Goto
  <2> QED BY <1>1, <2>1, <2>2, <2>3, <2>4
<1>11. ASSUME NEW r \in Requests, Store(r) PROVE Seen(d)'
  BY <1>11 DEF Store, Goto
<1> QED BY <1>2, <1>3, <1>4, <1>5, <1>6, <1>7, <1>8, <1>9, <1>10, <1>11 DEF ConsoleNext

\* Where a request stands, and whom it may sign in.
LEMMA PassingStays ==
  ASSUME SharedTypes, ConsoleTypes, ConsoleInv, ConsoleNext, NEW d \in Requests
  PROVE  Passing(d)'
<1> USE AbsenceAssumption DEF ConsoleTypes, ConsoleInv, requests, Known, Tied, Seen, Passing, Live, State, IsRpSignedIn, Empty, RpSessions, AccountOf
<1>1. SharedTypes' /\ SessionsAdvance /\ env' = env
  BY ConsoleSessions
<1>2. ASSUME NEW s \in Sessions, NEW a \in env.accounts, NEW transient \in BOOLEAN,
             BrowserSignIn(s, a, transient)
      PROVE  Passing(d)'
  BY <1>1, <1>2, StaysOut DEF BrowserSignIn, OpenSession, LiveSession, Unused
<1>3. ASSUME NEW a \in env.accounts, LocalLogin(a) PROVE Passing(d)'
  BY <1>3 DEF LocalLogin
<1>4. ASSUME NEW a \in env.accounts, DisableAccount(a) PROVE Passing(d)'
  BY <1>4 DEF DisableAccount
<1>5. ASSUME NEW r \in Requests, NEW what \in {"visit", "logout"}, Load(r, what) PROVE Passing(d)'
  BY <1>5 DEF Load, Goto
<1>6. ASSUME NEW r \in Requests, ReadIdp(r) PROVE Passing(d)'
  <2>1. CASE d # r
    <3>1. UNCHANGED <<env, sessions, does, open, barred>>
      BY <1>6, Reading
    <3>2. mine'[d] = mine[d] /\ wrote'[d] = wrote[d] /\ step'[d] = step[d] /\ idp'[d] = idp[d]
      BY <1>6, <2>1, Reading DEF Goto, Keep, Untouched
    <3> QED BY <3>1, <3>2
  <2>2. CASE d = r
    <3>1. UNCHANGED <<env, sessions, does, open, barred>> /\ does[d] = "visit"
      BY <1>6, <2>2 DEF ReadIdp
    <3>2. step'[d] \in {"gate", "store"} /\ idp'[d] = Stored(d)
      BY <1>6, <2>2, Reading DEF Goto
    <3>3. Stored(d) # NoSession => Stored(d) \in open[d] /\ Live(Stored(d))
      BY <1>6, <2>2 DEF Stored, ReadIdp
    <3>4. CASE env.console = "guard"
      BY <1>6, <2>2, <3>1, <3>2, <3>3, <3>4 DEF ReadIdp, DecideGuard, Keep, Untouched, Goto
    <3>5. CASE env.console # "guard"
      BY <1>6, <2>2, <3>1, <3>2, <3>3, <3>5 DEF ReadIdp, DecideBridge, Keep, Untouched, Goto
    <3> QED BY <3>4, <3>5
  <2> QED BY <2>1, <2>2
<1>7. ASSUME NEW r \in Requests, Gate(r) PROVE Passing(d)'
  BY <1>7 DEF Gate, Goto, Keep, Untouched, Linked
<1>8. ASSUME NEW r \in Requests, Renew(r) PROVE Passing(d)'
  BY <1>8 DEF Renew, Goto, Keep, Untouched, Linked
<1>9. ASSUME NEW r \in Requests, ReadForLogout(r) PROVE Passing(d)'
  BY <1>9 DEF ReadForLogout, Goto, Stored
<1>10. ASSUME NEW r \in Requests, DestroyIdp(r) PROVE Passing(d)'
  <2>1. UNCHANGED <<does, idp, open, barred>>
    BY <1>10 DEF DestroyIdp
  <2>2. CASE d = r
    <3>1. mine'[d] = Empty /\ wrote'[d] /\ step'[d] = "store" /\ ~Live(idp[d])'
      BY <1>10, <2>1, <2>2, Destroying DEF DestroyIdp, Keep, Goto
    <3> QED BY <2>1, <3>1
  <2>3. CASE d # r
    <3>1. mine'[d] = mine[d] /\ wrote'[d] = wrote[d] /\ step'[d] = step[d]
      BY <1>10, <2>3 DEF DestroyIdp, Keep, Goto
    <3>2. /\ ~Live(idp[d]) => ~Live(idp[d])'
          /\ Live(idp[d])' => Live(idp[d]) /\ sessions'[idp[d]] = sessions[idp[d]]
          /\ idp[d] \in Sessions /\ State(idp[d]) # "unused" => AccountOf(idp[d])' = AccountOf(idp[d])
      BY <1>1, <2>1, StaysOut
    <3>3. mine[d].link # NoSession => AccountOf(mine[d].link)' = AccountOf(mine[d].link)
      BY <1>1, <3>1, StaysOut
    <3>4. step[d] \in {"gate", "renew"} => idp[d] \in Sessions /\ State(idp[d]) # "unused"
      OBVIOUS
    <3>5. step[d] \in {"gate", "renew"} =>
            /\ does[d] = "visit" /\ idp[d] \in open[d]
            /\ AccountOf(idp[d])' = AccountOf(idp[d])
      BY <2>1, <3>2, <3>4
    <3>6. step[d] \in {"gate", "renew"} /\ env.console = "guard" /\ Live(idp[d])' => ~sessions'[idp[d]].transient
      BY <3>2
    <3>7. step[d] = "store" /\ does[d] = "logout" => ~Live(idp[d])'
      BY <2>1, <3>2
    <3> QED BY <1>1, <2>1, <3>1, <3>3, <3>5, <3>6, <3>7
  <2> QED BY <2>2, <2>3
<1>11. ASSUME NEW r \in Requests, Store(r) PROVE Passing(d)'
  BY <1>11 DEF Store, Goto
<1> QED BY <1>2, <1>3, <1>4, <1>5, <1>6, <1>7, <1>8, <1>9, <1>10, <1>11 DEF ConsoleNext

\* Whose login a request may turn into whose.
LEMMA SameStays ==
  ASSUME SharedTypes, ConsoleTypes, ConsoleInv, ConsoleNext, NEW d \in Requests
  PROVE  Same(d)'
<1> USE AbsenceAssumption DEF ConsoleTypes, ConsoleInv, requests, Known, Seen, Passing, Same, State, IsRpSignedIn, Empty, RpSessions, AccountOf
<1>1. SharedTypes' /\ SessionsAdvance /\ env' = env
  BY ConsoleSessions
<1>2. step[d] \in {"gate", "renew"} => idp[d] \in Sessions /\ State(idp[d]) # "unused"
  OBVIOUS
<1>3. step[d] \in {"gate", "renew"} => sessions'[idp[d]].account = sessions[idp[d]].account
  BY <1>1, <1>2, StaysOut
<1>4. ASSUME NEW s \in Sessions, NEW a \in env.accounts, NEW transient \in BOOLEAN,
             BrowserSignIn(s, a, transient)
      PROVE  Same(d)'
  BY <1>1, <1>3, <1>4 DEF BrowserSignIn
<1>5. ASSUME NEW a \in env.accounts, LocalLogin(a) \/ DisableAccount(a) PROVE Same(d)'
  BY <1>5 DEF LocalLogin, DisableAccount
<1>6. ASSUME NEW r \in Requests, NEW what \in {"visit", "logout"}, Load(r, what) PROVE Same(d)'
  BY <1>6 DEF Load, Goto
<1>7. ASSUME NEW r \in Requests, ReadIdp(r) PROVE Same(d)'
  BY <1>7 DEF ReadIdp, Goto, Stored, DecideGuard, Keep, Untouched
<1>8. ASSUME NEW r \in Requests, Gate(r) PROVE Same(d)'
  BY <1>8 DEF Gate, Goto, Keep, Untouched, Linked
<1>9. ASSUME NEW r \in Requests, Renew(r) PROVE Same(d)'
  BY <1>9 DEF Renew, Goto, Keep, Untouched, Linked
<1>10. ASSUME NEW r \in Requests, ReadForLogout(r) PROVE Same(d)'
  BY <1>10 DEF ReadForLogout, Goto, Stored
<1>11. ASSUME NEW r \in Requests, DestroyIdp(r) PROVE Same(d)'
  BY <1>1, <1>3, <1>11 DEF DestroyIdp, Goto, Keep
<1>12. ASSUME NEW r \in Requests, Store(r) PROVE Same(d)'
  BY <1>12 DEF Store, Goto
<1> QED BY <1>4, <1>5, <1>6, <1>7, <1>8, <1>9, <1>10, <1>11, <1>12 DEF ConsoleNext

\* A request that began logged out, with no login since.
LEMMA CleanStays ==
  ASSUME SharedTypes, ConsoleTypes, ConsoleInv, ConsoleNext, NEW d \in Requests
  PROVE  Clean(d)'
<1> USE AbsenceAssumption DEF ConsoleTypes, ConsoleInv, requests, Known, LoggedOut, Seen, Clean, Live, State, Local, IsRpSignedIn, Empty, RpSessions
<1>1. SharedTypes' /\ SessionsAdvance /\ env' = env
  BY ConsoleSessions
<1>2. ASSUME NEW s \in Sessions, NEW a \in env.accounts, NEW transient \in BOOLEAN,
             BrowserSignIn(s, a, transient)
      PROVE  Clean(d)'
  BY <1>1, <1>2, StaysOut DEF BrowserSignIn, OpenSession, LiveSession, Unused
<1>3. ASSUME NEW a \in env.accounts, LocalLogin(a) PROVE Clean(d)'
  BY <1>3 DEF LocalLogin
<1>4. ASSUME NEW a \in env.accounts, DisableAccount(a) PROVE Clean(d)'
  BY <1>4 DEF DisableAccount
<1>5. ASSUME NEW r \in Requests, NEW what \in {"visit", "logout"}, Load(r, what) PROVE Clean(d)'
  BY <1>5 DEF Load, Goto
<1>6. ASSUME NEW r \in Requests, ReadIdp(r) PROVE Clean(d)'
  BY <1>6 DEF ReadIdp, Goto, Stored, DecideGuard, DecideBridge, Keep, Untouched
<1>7. ASSUME NEW r \in Requests, Gate(r) PROVE Clean(d)'
  BY <1>7 DEF Gate, Goto, Keep, Untouched, Linked
<1>8. ASSUME NEW r \in Requests, Renew(r) PROVE Clean(d)'
  BY <1>8 DEF Renew, Goto, Keep, Untouched, Linked
<1>9. ASSUME NEW r \in Requests, ReadForLogout(r) PROVE Clean(d)'
  BY <1>9 DEF ReadForLogout, Goto, Stored
<1>10. ASSUME NEW r \in Requests, DestroyIdp(r) PROVE Clean(d)'
  <2>1. ~Live(idp[d]) => ~Live(idp[d])'
    BY <1>1, <1>10, StaysOut DEF DestroyIdp
  <2>2. UNCHANGED <<does, idp, cleanSince>>
    BY <1>10 DEF DestroyIdp
  <2>3. \/ mine'[d] = mine[d] /\ step'[d] = step[d]
        \/ mine'[d] = Empty /\ step'[d] = "store"
    BY <1>10 DEF DestroyIdp, Keep, Goto
  <2> QED BY <2>1, <2>2, <2>3
<1>11. ASSUME NEW r \in Requests, Store(r) PROVE Clean(d)'
  BY <1>11 DEF Store, Goto
<1> QED BY <1>2, <1>3, <1>4, <1>5, <1>6, <1>7, <1>8, <1>9, <1>10, <1>11 DEF ConsoleNext

-----------------------------------------------------------------------------
(* The theorems. *)

LEMMA StepKeepsInv == IInv /\ [Next]_vars => IInv'
<1> SUFFICES ASSUME IInv, [Next]_vars PROVE IInv'
  OBVIOUS
<1> USE DEF IInv
<1>0. now \in Nat
  BY TimeAssumption DEF SharedTypes
<1>1. CASE Tick
  <2>1. SharedTypes' /\ SessionsAdvance
    <3>1. now + 1 \in 1..MaxTime
      BY <1>0, <1>1, TimeAssumption DEF Tick, SharedTypes, Scenario
    <3> QED BY <1>1, <3>1, Leaving DEF Tick, SharedTypes
  <2> QED BY <1>0, <1>1, <2>1, RevocationFrame, ConsoleFrame DEF Tick
<1>2. ASSUME NEW s \in Sessions, DeviceSignIn(s) PROVE IInv'
  <2>1. SharedTypes' /\ SessionsAdvance
    BY <1>2, Opening, OwnerAssumption DEF DeviceSignIn
  <2> QED BY <1>0, <1>2, <2>1, RevocationFrame, ConsoleFrame DEF DeviceSignIn
<1>3. CASE RevocationNext /\ UNCHANGED console
  <2>1. SharedTypes' /\ SessionsAdvance /\ env' = env /\ now' = now
    BY <1>3, RevocationSessions
  <2>2. RevocationTypes' /\ Dated' /\ TokensOfGrants' /\ Sparing'
    BY <1>3, RevocationTyped, TablesStay
  <2>3. \A d \in Calls : (Cut(d) /\ Listed(d) /\ Dates(d))'
    BY <1>3, CutStays, ListedStays, DatesStay
  <2> QED BY <1>3, <2>1, <2>2, <2>3, ConsoleFrame DEF RevocationInv
<1>4. CASE ConsoleNext /\ UNCHANGED <<apps, outcome, calls>>
  <2>1. SharedTypes' /\ SessionsAdvance /\ env' = env /\ now' = now
    BY <1>4, ConsoleSessions
  <2>2. ConsoleTypes' /\ (Known(idpCookie) /\ Tied(rp) /\ LoggedOut)'
    BY <1>4, ConsoleTyped, BrowserStays
  <2>3. \A d \in Requests : (Seen(d) /\ Passing(d) /\ Same(d) /\ Clean(d))'
    BY <1>4, SeenStays, PassingStays, SameStays, CleanStays
  <2> QED BY <1>0, <1>4, <2>1, <2>2, <2>3, RevocationFrame DEF ConsoleInv
<1>5. CASE UNCHANGED vars
  <2>1. SharedTypes' /\ SessionsAdvance
    BY <1>5, Leaving DEF vars, SharedTypes
  <2> QED BY <1>0, <1>5, <2>1, RevocationFrame, ConsoleFrame DEF vars
<1> QED BY <1>1, <1>2, <1>3, <1>4, <1>5 DEF Next

\* The invariant holds throughout: where each revocation stands, what it has cut off;
\* where each request stands, what it may still sign in.
THEOREM InductiveInvariant == Spec => []IInv
BY InitInv, StepKeepsInv, PTL DEF Spec

\* Every variable keeps its type.
THEOREM TypeCorrect == Spec => []TypeOK
<1>1. IInv => TypeOK
  BY TypeParts DEF IInv
<1> QED BY <1>1, InductiveInvariant, PTL

\* When revokeAll or revokeAllExcept returns, nothing of a device that had signed in
\* before it is left (admin_sessions_service.ts).
THEOREM OldDevicesCutOffHolds == Spec => []OldDevicesCutOff
<1>1. ASSUME IInv PROVE OldDevicesCutOff
  <2> SUFFICES ASSUME NEW c \in Calls, Finished(c)
               PROVE  /\ ~agents
                      /\ \A s \in started[c] \ {keep[c]} :
                           /\ ~Live(s) /\ grants[s] # "live"
                           /\ ~env.overlap =>
                                /\ s \notin access \cup refresh
                                /\ c \in recorded /\ cutoff[c] = Latest => IsRevoked(s)
    BY DEF OldDevicesCutOff
  <2> USE <1>1 DEF IInv, RevocationInv, Finished
  <2>1. ~agents /\ \A s \in Others(c) : ~Live(s) /\ grants[s] # "live"
    BY DEF Cut
  <2>2. ~env.overlap => \A s \in Others(c) : s \notin access \cup refresh
    BY <2>1 DEF TokensOfGrants
  <2>3. ~env.overlap /\ c \in recorded /\ cutoff[c] = Latest => \A s \in Others(c) : IsRevoked(s)
    BY DEF Dates
  <2> QED BY <2>1, <2>2, <2>3 DEF Others
<1> QED BY <1>1, InductiveInvariant, PTL

\* A login that revokes the other sessions leaves its own app signed in: no cookie is
\* refused before a row that does not preserve it is written (revokeAllExcept).
THEOREM PreservedKeepsItsAppHolds == Spec => PreservedKeepsItsApp
<1>1. ASSUME IInv, [Next]_vars PROVE [\A s \in spared : cookie[s] # 0 => cookie'[s] # 0]_vars
  <2> SUFFICES ASSUME NEW s \in spared, cookie[s] # 0, cookie'[s] = 0 PROVE FALSE
    OBVIOUS
  <2>1. now \in Nat \ {0} /\ cookie \in [Sessions -> 0..MaxTime] /\ s \in Sessions
    BY <1>1, TimeAssumption DEF IInv, SharedTypes, RevocationTypes
  <2>2. ASSUME NEW x \in Sessions, AppRequest(x) PROVE FALSE
    <3>1. x = s
      BY <1>1, <2>1, <2>2 DEF AppRequest
    <3>2. cookie[s] \in Nat /\ revokedAt \in Nat /\ revokedAt < cookie[s]
      BY <1>1, <2>1, <3>1, TimeAssumption DEF IInv, RevocationInv, Sparing, RevocationTypes
    <3> QED BY <2>2, <3>1, <3>2 DEF AppRequest, IsRevoked
  <2>3. ASSUME NEW x \in Sessions, AppSignIn(x) \/ AppRefresh(x) \/ EndAppRefresh(x) PROVE FALSE
    BY <2>1, <2>3 DEF AppSignIn, AppRefresh, EndAppRefresh, Refreshed
  <2>4. ASSUME NEW x \in Sessions, BeginAppRefresh(x) PROVE FALSE
    BY <2>4 DEF BeginAppRefresh
  <2>5. ASSUME NEW c \in Calls,
             \/ BeginLogin(c) \/ FindNewSession(c) \/ ListSessions(c) \/ DestroyListed(c)
             \/ ListGrants(c) \/ ListAccessTokens(c) \/ ListRefreshTokens(c) \/ DestroyToken(c)
             \/ RevokeByGrantId(c) \/ DestroyGrant(c) \/ Record(c) \/ EndClientGrants(c)
             \/ RevokeAgentGrants(c) \/ Fail(c)
        PROVE  UNCHANGED cookie
    BY <2>5 DEF BeginLogin, FindNewSession, ListSessions, ListSessionsDated, DestroyListed, ListGrants,
      ListAccessTokens, ListRefreshTokens, ListTokens, DestroyToken, RevokeByGrantId, DestroyGrant,
      Record, EndClientGrants, RevokeAgentGrants, Fail, apps
  <2>6. CASE RevocationNext
    BY <2>2, <2>3, <2>4, <2>5, <2>6 DEF RevocationNext
  <2> QED BY <1>1, <2>6 DEF Next, Tick, DeviceSignIn, vars, apps
<1> QED BY <1>1, InductiveInvariant, PTL DEF Spec, PreservedKeepsItsApp

\* A request signs in through a link only to the session of the IdP that its browser had
\* when it began, and to that session's account; through the guard it leaves the login it
\* found with its account (ensureRpSession, ensureConsoleSession).
THEOREM ConsoleFollowsIdpHolds == Spec => ConsoleFollowsIdp
<1>1. IInv => [\A r \in Requests :
         step[r] = "store" /\ step'[r] = "idle" /\ does[r] = "visit" /\ IsRpSignedIn(mine[r]) =>
           /\ mine[r].link # NoSession =>
                /\ mine[r].link \in open[r]
                /\ AccountOf(mine[r].link) = mine[r].account
                /\ env.console = "guard" => mine[r].account \notin barred[r]
           /\ env.console = "guard" /\ IsRpSignedIn(loaded[r]) =>
                mine[r].account = loaded[r].account]_vars
  BY DEF IInv, ConsoleInv, Passing, Same
<1> QED BY <1>1, InductiveInvariant, PTL DEF Spec, ConsoleFollowsIdp

\* A request that begins after a logout, with no login since, ends signed out, whatever
\* requests stored since the session they had loaded (endRpSession, endBridgedIdpSession);
\* the logout counts when none of those in flight held a login without a link.
THEOREM LogoutSticksHolds == Spec => LogoutSticks
<1>1. IInv => [\A r \in Requests :
         step[r] = "store" /\ step'[r] = "idle" /\ does[r] = "visit" /\ cleanSince[r]
           => ~IsRpSignedIn(mine[r])]_vars
  BY DEF IInv, ConsoleInv, Clean
<1> QED BY <1>1, InductiveInvariant, PTL DEF Spec, LogoutSticks
===============================================================================
