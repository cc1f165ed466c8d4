--------------------------- MODULE SessionRevocation ---------------------------
(* AdminSessionsService (host/admin_sessions_service.ts): the revocations of the *)
(* owner's sessions, grants and tokens, one step per access to the store, and    *)
(* the logins under the single-session policy, which end in one                  *)
(* (interaction_controller.ts, custom_login_completion.ts). With it, the apps    *)
(* that keep their session in a cookie: the token set and its refresh            *)
(* (authkit_client_provider.ts), and the check of the recorded revocations       *)
(* (backchannel_revocation_middleware.ts). An app signs in once per session of   *)
(* the IdP, with a grant of its own, which is named by that session.             *)
EXTENDS IdpSessions

CONSTANTS Calls,          \* the revocations that can be in flight at once
          OrgSessions     \* the sessions whose grants carry the organisation

VARIABLES grants,         \* session -> the grant its app got
          access, refresh,\* the sessions whose app has an access, a refresh token stored
          cookie,         \* session -> iat of the id_token in its app's cookie, 0 without one
          refreshing,     \* the sessions whose app waits for a refresh the provider granted
          revokedAt,      \* the latest row of auth_session_revocations, 0 without one
          agents,         \* whether delegations of personal agents live
          pc, kind,       \* where each call stands, and what it revokes
          prev, keep,     \* the sessions before a login, and the one to preserve
          cutoff,         \* the timestamp a call records, Latest for the time of the record
          left, found,    \* what is still to destroy, and the grants the call listed
          started,        \* history: the sessions opened before the revocation began
          recorded,       \* history: the calls whose row was written
          spared          \* history: the sessions that every row written so far preserves

apps == <<grants, access, refresh, cookie, refreshing>>
outcome == <<revokedAt, agents, recorded, spared>>
calls == <<pc, kind, prev, keep, cutoff, left, found, started>>

Kinds == {"all", "single", "client", "org"}
Stages == {"idle", "login", "listed", "sessions", "grants", "access", "refresh", "byGrant",
           "agents", "done", "failed"}
Latest == MaxTime + 1

RevocationInit ==
  /\ grants = [s \in Sessions |-> "none"]
  /\ access = {} /\ refresh = {} /\ refreshing = {}
  /\ cookie = [s \in Sessions |-> 0]
  /\ revokedAt = 0
  /\ agents = TRUE
  /\ pc = [c \in Calls |-> "idle"]
  /\ kind = [c \in Calls |-> "all"]
  /\ prev = [c \in Calls |-> {}]
  /\ keep = [c \in Calls |-> NoSession]
  /\ cutoff = [c \in Calls |-> Latest]
  /\ left = [c \in Calls |-> {}]
  /\ found = [c \in Calls |-> {}]
  /\ started = [c \in Calls |-> {}]
  /\ recorded = {}
  /\ spared = Sessions

-----------------------------------------------------------------------------
(* The apps. *)

\* The authorization code flow: the consent saves a new grant, the code is
\* exchanged and the callback starts the app's session.
AppSignIn(s) ==
  /\ env.apps /\ Live(s) /\ sessions[s].account = Owner /\ grants[s] = "none"
  /\ grants' = [grants EXCEPT ![s] = "live"]
  /\ access' = access \cup {s}
  /\ refresh' = refresh \cup {s}
  /\ cookie' = [cookie EXCEPT ![s] = now]
  /\ UNCHANGED <<env, now, sessions, refreshing, outcome, calls>>

\* The provider lets a refresh through: the refresh token and its grant are stored.
CanRefresh(s) == s \in refresh /\ grants[s] = "live"

\* The rotated tokens are saved, and the app keeps the new id_token.
Refreshed(s) ==
  /\ access' = access \cup {s}
  /\ refresh' = refresh \cup {s}
  /\ cookie' = [cookie EXCEPT ![s] = now]

\* maybeRefresh, when nothing runs while the provider answers.
AppRefresh(s) ==
  /\ ~env.overlap /\ cookie[s] # 0 /\ CanRefresh(s)
  /\ Refreshed(s)
  /\ UNCHANGED <<env, now, sessions, grants, refreshing, outcome, calls>>

\* maybeRefresh, when a revocation may run while the provider answers.
BeginAppRefresh(s) ==
  /\ env.overlap /\ cookie[s] # 0 /\ CanRefresh(s) /\ s \notin refreshing
  /\ refreshing' = refreshing \cup {s}
  /\ UNCHANGED <<env, now, sessions, grants, access, refresh, cookie, outcome, calls>>

EndAppRefresh(s) ==
  /\ s \in refreshing
  /\ refreshing' = refreshing \ {s}
  /\ Refreshed(s)
  /\ UNCHANGED <<env, now, sessions, grants, outcome, calls>>

\* isRevoked, by account: a row at or after the id_token was issued.
IsRevoked(s) == revokedAt >= cookie[s]

\* BackchannelRevocationMiddleware: endSession drops the token set.
AppRequest(s) ==
  /\ cookie[s] # 0 /\ s \notin refreshing /\ IsRevoked(s)
  /\ cookie' = [cookie EXCEPT ![s] = 0]
  /\ UNCHANGED <<env, now, sessions, grants, access, refresh, refreshing, outcome, calls>>

-----------------------------------------------------------------------------
(* The revocations. *)

\* The bound on the calls of a behaviour.
CanBegin(c) == pc[c] = "idle" /\ Cardinality({d \in Calls : pc[d] # "idle"}) < env.calls

\* Under the single-session policy a login lists the sessions before it completes.
\* A custom completion knows the session of the interaction, when there is one.
BeginLogin(c) ==
  /\ env.apps /\ CanBegin(c) /\ LiveOf(Owner) # {}
  /\ pc' = [pc EXCEPT ![c] = "login"]
  /\ kind' = [kind EXCEPT ![c] = "single"]
  /\ prev' = [prev EXCEPT ![c] = LiveOf(Owner)]
  /\ \E current \in LiveOf(Owner) \cup {NoSession} : keep' = [keep EXCEPT ![c] = current]
  /\ UNCHANGED <<env, now, sessions, apps, outcome, cutoff, left, found, started>>

\* After completeLogin it lists them again: one that was not there is preserved.
FindNewSession(c) ==
  LET created == LiveOf(Owner) \ prev[c] IN
  /\ pc[c] = "login"
  /\ pc' = [pc EXCEPT ![c] = "listed"]
  /\ \E s \in IF created = {} THEN {keep[c]} ELSE created : keep' = [keep EXCEPT ![c] = s]
  /\ prev' = [prev EXCEPT ![c] = {}]
  /\ UNCHANGED <<env, now, sessions, apps, outcome, kind, cutoff, left, found, started>>

\* revokeAll and revokeAllExcept list the sessions; the row of the latter dates
\* from before the login of the session it preserves.
ListSessionsDated(c, margin) ==
  /\ \/ CanBegin(c) /\ kind' = [kind EXCEPT ![c] = "all"]
     \/ pc[c] = "listed" /\ UNCHANGED kind
  /\ pc' = [pc EXCEPT ![c] = "sessions"]
  /\ left' = [left EXCEPT ![c] = LiveOf(Owner) \ {keep[c]}]
  /\ cutoff' = [cutoff EXCEPT ![c] = IF Live(keep[c]) THEN sessions[keep[c]].loginTs - margin ELSE Latest]
  /\ started' = [started EXCEPT ![c] = StartedBy(Owner)]
  /\ UNCHANGED <<env, now, sessions, apps, outcome, prev, keep, found>>

\* variant: the row dates from the second of that login, or from two before.
ListSessionsSameSecond(c) == ListSessionsDated(c, 0)
ListSessionsTooEarly(c) == ListSessionsDated(c, 2)

ListSessions(c) == ListSessionsDated(c, 1)

DestroyListed(c) ==
  \E s \in left[c] :
    /\ pc[c] = "sessions"
    /\ DestroySession(s)
    /\ left' = [left EXCEPT ![c] = @ \ {s}]
    /\ UNCHANGED <<env, now, apps, outcome, pc, kind, prev, keep, cutoff, found, started>>

\* Which of the owner's grants a call is about: of the client, of the organisation, all.
Concerned(k) == {s \in Sessions : grants[s] = "live" /\ (k = "org" => s \in OrgSessions)}

\* revokeClientGrants and revokeOrgGrants start here, and the latter ends here
\* when no grant carries the organisation.
ListGrants(c) ==
  /\ \/ pc[c] = "sessions" /\ left[c] = {} /\ UNCHANGED kind
     \/ /\ env.apps /\ CanBegin(c)
        /\ \E k \in {"client", "org"} : kind' = [kind EXCEPT ![c] = k]
  /\ found' = [found EXCEPT ![c] = Concerned(kind'[c])]
  /\ pc' = [pc EXCEPT ![c] = IF kind'[c] = "org" /\ found'[c] = {} THEN "done" ELSE "grants"]
  /\ UNCHANGED <<env, now, sessions, apps, outcome, prev, keep, cutoff, left, started>>

\* #destroyTokensOfGrants, for one model then the other: lists the tokens of the
\* grants, then destroys each.
ListTokens(c, stage, next, stored) ==
  /\ pc[c] = stage /\ left[c] = {}
  /\ left' = [left EXCEPT ![c] = found[c] \cap stored]
  /\ pc' = [pc EXCEPT ![c] = next]
  /\ UNCHANGED <<env, now, sessions, apps, outcome, kind, prev, keep, cutoff, found, started>>
ListAccessTokens(c) == ListTokens(c, "grants", "access", access)
ListRefreshTokens(c) == ListTokens(c, "access", "refresh", refresh)

DestroyToken(c) ==
  \E s \in left[c] :
    /\ \/ pc[c] = "access" /\ access' = access \ {s} /\ UNCHANGED refresh
       \/ pc[c] = "refresh" /\ refresh' = refresh \ {s} /\ UNCHANGED access
    /\ left' = [left EXCEPT ![c] = @ \ {s}]
    /\ UNCHANGED <<env, now, sessions, grants, cookie, refreshing, outcome,
                   pc, kind, prev, keep, cutoff, found, started>>

\* variant: the tokens saved since they were listed are left to the grant's end.
RevokeNothingByGrantId(c) ==
  \E s \in found[c] :
    /\ pc[c] = "refresh" /\ left[c] = {}
    /\ pc' = [pc EXCEPT ![c] = "byGrant"]
    /\ left' = [left EXCEPT ![c] = {s}]
    /\ found' = [found EXCEPT ![c] = @ \ {s}]
    /\ UNCHANGED <<env, now, sessions, apps, outcome, kind, prev, keep, cutoff, started>>

\* Then, for each grant: revokeByGrantId, which removes the tokens stored with it,
RevokeByGrantId(c) ==
  \E s \in found[c] :
    /\ pc[c] = "refresh" /\ left[c] = {}
    /\ access' = access \ {s}
    /\ refresh' = refresh \ {s}
    /\ pc' = [pc EXCEPT ![c] = "byGrant"]
    /\ left' = [left EXCEPT ![c] = {s}]
    /\ found' = [found EXCEPT ![c] = @ \ {s}]
    /\ UNCHANGED <<env, now, sessions, grants, cookie, refreshing, outcome,
                   kind, prev, keep, cutoff, started>>

\* and destroy, of the grant itself.
DestroyGrant(c) ==
  \E s \in left[c] :
    /\ pc[c] = "byGrant"
    /\ grants' = [grants EXCEPT ![s] = "gone"]
    /\ pc' = [pc EXCEPT ![c] = "refresh"]
    /\ left' = [left EXCEPT ![c] = {}]
    /\ UNCHANGED <<env, now, sessions, access, refresh, cookie, refreshing, outcome,
                   kind, prev, keep, cutoff, found, started>>

GrantsDestroyed(c) == pc[c] = "refresh" /\ left[c] = {} /\ found[c] = {}

\* recordSubRevocation, whose failure is logged and swallowed. The revocation of
\* one client's grants records nothing.
Record(c) ==
  /\ GrantsDestroyed(c) /\ kind[c] # "client"
  /\ \/ /\ revokedAt' = LET t == IF cutoff[c] = Latest THEN now ELSE cutoff[c]
                        IN IF t > revokedAt THEN t ELSE revokedAt
        /\ recorded' = recorded \cup {c}
        /\ spared' = IF cutoff[c] = Latest THEN {} ELSE spared \cap {keep[c]}
     \/ env.failures /\ UNCHANGED <<revokedAt, recorded, spared>>
  /\ pc' = [pc EXCEPT ![c] = IF kind[c] = "org" THEN "done" ELSE "agents"]
  /\ UNCHANGED <<env, now, sessions, apps, agents, kind, prev, keep, cutoff, left, found, started>>

EndClientGrants(c) ==
  /\ GrantsDestroyed(c) /\ kind[c] = "client"
  /\ pc' = [pc EXCEPT ![c] = "done"]
  /\ UNCHANGED <<env, now, sessions, apps, outcome, kind, prev, keep, cutoff, left, found, started>>

\* #revokeAgentGrants.
RevokeAgentGrants(c) ==
  /\ pc[c] = "agents"
  /\ agents' = FALSE
  /\ pc' = [pc EXCEPT ![c] = "done"]
  /\ UNCHANGED <<env, now, sessions, apps, revokedAt, recorded, spared,
                 kind, prev, keep, cutoff, left, found, started>>

\* The store throws, or the process dies: what was destroyed stays destroyed.
Fail(c) ==
  /\ env.failures /\ pc[c] \notin {"idle", "done", "failed"}
  /\ pc' = [pc EXCEPT ![c] = "failed"]
  /\ UNCHANGED <<env, now, sessions, apps, outcome, kind, prev, keep, cutoff, left, found, started>>

RevocationNext ==
  \/ \E s \in Sessions :
       \/ AppSignIn(s) \/ AppRefresh(s) \/ BeginAppRefresh(s) \/ EndAppRefresh(s) \/ AppRequest(s)
  \/ \E c \in Calls :
       \/ BeginLogin(c) \/ FindNewSession(c) \/ ListSessions(c) \/ DestroyListed(c)
       \/ ListGrants(c) \/ ListAccessTokens(c) \/ ListRefreshTokens(c) \/ DestroyToken(c)
       \/ RevokeByGrantId(c) \/ DestroyGrant(c) \/ Record(c) \/ EndClientGrants(c)
       \/ RevokeAgentGrants(c) \/ Fail(c)
===============================================================================
