------------------------------ MODULE PoppySignIn ------------------------------
(* Sign-in of a Poppy agent: requests and consent (agents/poppy/service.ts),    *)
(* grants and access tokens, the bearers that the MCP bridge mints, Sessions,   *)
(* the browser that joins one, disconnection and the block of an agent with the *)
(* registry snapshot (agents/registry_store.ts) it goes through. A handler is a *)
(* process: it takes one step for each access to the database.                  *)
EXTENDS Naturals, FiniteSets

CONSTANTS Accounts, Nobody, Scopes,
          Requests, NoRequest,  \* rows of sign-in and browser requests
          Grants, NoGrant,      \* refresh tokens: each is a grant
          Tokens, NoToken,      \* access tokens
          Sessions, NoSession,  \* Poppy-Session ids
          Procs,                \* handlers in flight
          Scenarios,            \* the environments a behaviour may have
          MaxCodeAttempts       \* signIn.mediated.maxCodeAttempts

VARIABLES env,                  \* the scenario
          requests, grants, tokens, sessions, \* the tables
          provider,             \* the access tokens that oidc-provider keeps
          barred,               \* accounts that are disabled
          registry,             \* the agent's row, the snapshot and the load in flight
          browser,              \* the app session of one browser
          procs,
          held,                 \* history: grants and tokens that an answer delivered
          consents,             \* history: what each request was approved for
          ended,                \* history: grants of which an answer said that they ended
          outlived,             \* history: grants whose bearer was minted after their end began
          blocked,              \* history: an answer said that the agent is blocked
          acted                 \* history: the accounts each Session was let through for

tables == <<requests, grants, tokens, sessions>>
history == <<held, consents, ended, outlived, blocked, acted>>
world == <<env, barred, registry, browser>>
vars == <<env, tables, provider, barred, registry, browser, procs, history>>

Uses == {"authorize", "device", "mediated", "complete", "narrow", "bearer", "refresh", "crash",
         "sweep", "lapse", "leave", "drop", "disconnect", "all", "block", "stale", "access",
         "join", "bar", "own"}

\* What happens in a behaviour: the ways to sign in, what the agent, the user
\* and the administrator do, what fails; the rows and scopes there are and how many
\* handlers overlap.
Scenario == [uses : SUBSET Uses, rows : SUBSET Requests, scopes : SUBSET Scopes,
             inFlight : 1..Cardinality(Procs)]

ASSUME AbsenceAssumption ==
  /\ Nobody \notin Accounts /\ NoRequest \notin Requests /\ NoGrant \notin Grants
  /\ NoToken \notin Tokens /\ NoSession \notin Sessions /\ Grants \cap Tokens = {}
ASSUME ScenarioAssumption == Scenarios \subseteq Scenario
ASSUME AttemptsAssumption == MaxCodeAttempts \in Nat \ {0}

Kinds == {"authorize", "device", "mediated", "browser"}
Statuses == {"pending", "approved", "denied", "consumed", "failed"}
Accountable == Accounts \cup {Nobody}

NoRow == [kind |-> "none"]
Gone == [kind |-> "gone"]
Request == [kind : Kinds, status : Statuses, account : Accountable, scopes : SUBSET Scopes,
            attempts : 0..MaxCodeAttempts, note : Grants \cup {NoGrant},
            session : Sessions \cup {NoSession}, lapsed : BOOLEAN]
Grant == [account : Accounts, scopes : SUBSET Scopes, revoked : BOOLEAN,
          origin : Requests \cup {NoRequest}]
Token == [grant : Grants, account : Accounts, scopes : SUBSET Scopes, bearer : BOOLEAN]
Session == [account : Accountable, ended : BOOLEAN]

\* The marker of a join and the account the browser is logged in to.
Browser == [session : Sessions \cup {NoSession}, account : Accountable,
            grant : Grants \cup {NoGrant}, scopes : SUBSET Scopes, login : Accountable]
NoMarker == [session |-> NoSession, account |-> Nobody, grant |-> NoGrant, scopes |-> {},
             login |-> Nobody]

Snapshots == {"none", "free", "blocked"}
Row(b) == IF b THEN "blocked" ELSE "free"

Steps == {"idle", "decide", "consume", "guess", "signIn", "grant", "issue", "store", "note",
          "revoke", "unmint", "find", "bind", "act", "join", "complete", "enter", "browse",
          "write", "invalidate", "list", "endSessions"}

\* What a handler keeps: where it stands, the row it read, whom and what it
\* serves, the grants left to revoke (those revoked already answer for `cut`), and
\* what had ended, or that the agent was blocked, when it began. `yes` tells a right
\* code from a wrong one, the right browser from another, a block from its end.
Idle == [pc |-> "idle", req |-> NoRequest, status |-> "pending", account |-> Nobody,
         scopes |-> {}, want |-> {}, bearer |-> FALSE, grant |-> NoGrant, token |-> NoToken,
         session |-> NoSession, join |-> NoRequest, attempts |-> 0, left |-> {}, cut |-> {},
         yes |-> FALSE, before |-> {}, late |-> FALSE]
Proc == [pc : Steps, req : Requests \cup {NoRequest}, status : Statuses, account : Accountable,
         scopes : SUBSET Scopes, want : SUBSET Scopes, bearer : BOOLEAN,
         grant : Grants \cup {NoGrant}, token : Tokens \cup {NoToken},
         session : Sessions \cup {NoSession}, join : Requests \cup {NoRequest},
         attempts : 0..MaxCodeAttempts, left : SUBSET Grants, cut : SUBSET Grants,
         yes : BOOLEAN, before : SUBSET Grants, late : BOOLEAN]

Kept(table) == {x \in DOMAIN table : table[x] \notin {NoRow, Gone}}
Unused(table) == {x \in DOMAIN table : table[x] = NoRow}
May(use) == use \in env.uses
Does(p, step) == procs[p].pc = step
Become(p, next) == procs' = [procs EXCEPT ![p] = next]
Leave(p) == Become(p, Idle)
Go(p, step) == Become(p, [procs[p] EXCEPT !.pc = step])

\* A handler begins with what has ended so far, and for an agent only if the
\* snapshot of the registry does not block it.
Begin(p, fields) ==
  /\ Does(p, "idle") /\ Cardinality({q \in Procs : ~Does(q, "idle")}) < env.inFlight
  /\ Become(p, [fields EXCEPT !.before = ended \cup {g \in Kept(grants) : grants[g].account \in barred}])
Serve(p, fields) == registry.snapshot = "free" /\ Begin(p, [fields EXCEPT !.late = blocked /\ ~registry.missed])

\* The clean-up that runs at most once a minute, of rows that ended an hour ago.
Swept(rows) == IF May("sweep") THEN SUBSET {i \in Kept(rows) : rows[i].lapsed} ELSE {{}}
Sweep(rows, old) == [i \in Requests |-> IF i \in old THEN Gone ELSE rows[i]]
Rows == Kept(requests)
Call(p, fields) ==
  /\ Serve(p, fields)
  /\ \E old \in Swept(requests) : fields.req \notin old /\ requests' = Sweep(requests, old)
Pending(i) == i \in Rows /\ requests[i].status = "pending" /\ ~requests[i].lapsed
Usable(g) == ~grants[g].revoked /\ grants[g].account \notin barred

--------------------------------------------------------------------------------
(* Requests and consent *)

\* startAuthorization, deviceAuthorization, the first call of a mediated sign-in
\* (whose account is Nobody when the identifier has none) and startBrowserJoin.
Ask(i, kind, a, S) ==
  /\ i \in Unused(requests) \cap env.rows
  /\ \E old \in Swept(requests) :
       requests' = [Sweep(requests, old) EXCEPT ![i] =
         [kind |-> kind, status |-> "pending", account |-> a, scopes |-> S, attempts |-> 0,
          note |-> NoGrant, session |-> NoSession, lapsed |-> FALSE]]
  /\ UNCHANGED <<world, grants, tokens, sessions, provider, procs, history>>
StartSignIn(i, kind, a, S) ==
  /\ May(kind) /\ registry.snapshot = "free" /\ S # {} /\ S \subseteq env.scopes
  /\ Ask(i, kind, a, S)
StartAuthorization(i, a, S) == a # Nobody /\ StartSignIn(i, "authorize", a, S)
DeviceAuthorization(i, S) == StartSignIn(i, "device", Nobody, S)
Mediated(i, a, S) == StartSignIn(i, "mediated", a, S)
StartBrowserJoin(i) == May("join") /\ Ask(i, "browser", Nobody, {})

\* decideAuthorization and decideDevice: the row is read, and decided if it is
\* still pending.
Decide(p, i, a, S) ==
  /\ Pending(i) /\ S \subseteq requests[i].scopes
  /\ Begin(p, [Idle EXCEPT !.pc = "decide", !.req = i, !.account = a, !.scopes = S])
  /\ UNCHANGED <<world, tables, provider, history>>
DecideAuthorization(p, i, a, S) ==
  i \in Rows /\ requests[i].kind = "authorize" /\ requests[i].account = a /\ Decide(p, i, a, S)
DecideDevice(p, i, a, S) == i \in Rows /\ requests[i].kind = "device" /\ Decide(p, i, a, S)
DecideWrite(p) ==
  LET i == procs[p].req
      yes == procs[p].scopes # {}
      wins == i \in Rows /\ requests[i].status = "pending" IN
  /\ Does(p, "decide") /\ Leave(p)
  /\ requests' = IF wins
       THEN [requests EXCEPT ![i] = [@ EXCEPT
              !.status = IF yes THEN "approved" ELSE "denied", !.account = procs[p].account,
              !.scopes = IF yes THEN procs[p].scopes ELSE requests[i].scopes,
              !.lapsed = IF yes /\ requests[i].kind = "authorize" THEN FALSE ELSE requests[i].lapsed]]
       ELSE requests
  /\ consents' = IF wins /\ yes
       THEN [consents EXCEPT ![i] = @ \cup {[account |-> procs[p].account, scopes |-> procs[p].scopes]}]
       ELSE consents
  /\ UNCHANGED <<world, grants, tokens, sessions, provider,
                 held, ended, outlived, blocked, acted>>

--------------------------------------------------------------------------------
(* The token endpoint *)

\* What the agent asks of a token: all that was granted, or a narrower scope; a
\* bearer for an MCP server.
Wants(S) == {S} \cup (IF May("narrow") THEN SUBSET Scopes \ {{}} ELSE {})
Bearers == IF May("bearer") THEN BOOLEAN ELSE {FALSE}

\* #authorizationCode and #deviceCode: an approved request is read and consumed.
Redeem(p, i, want, bearer) ==
  /\ requests[i].status = "approved" /\ ~requests[i].lapsed
  /\ want \in Wants(requests[i].scopes)
  /\ Call(p, [Idle EXCEPT !.pc = "consume", !.req = i, !.account = requests[i].account,
                          !.scopes = requests[i].scopes, !.want = want, !.bearer = bearer])
  /\ UNCHANGED <<world, grants, tokens, sessions, provider, history>>
AuthorizationCode(p, i, want, bearer) ==
  i \in Rows /\ requests[i].kind = "authorize" /\ Redeem(p, i, want, bearer)
DeviceCode(p, i, want, bearer) ==
  i \in Rows /\ requests[i].kind = "device" /\ Redeem(p, i, want, bearer)
\* variant: an exchange that marks the code as used whatever became of it
ConsumeAgain(p) ==
  LET i == procs[p].req IN
  /\ Does(p, "consume") /\ i \in Rows
  /\ requests' = [requests EXCEPT ![i] = [@ EXCEPT !.status = "consumed"]]
  /\ Go(p, "signIn")
  /\ UNCHANGED <<world, grants, tokens, sessions, provider, history>>
Consume(p) ==
  LET i == procs[p].req IN
  /\ Does(p, "consume")
  /\ IF i \in Rows /\ requests[i].status = "approved"
       THEN requests' = [requests EXCEPT ![i] = [@ EXCEPT !.status = "consumed"]] /\ Go(p, "signIn")
       ELSE requests' = requests /\ Leave(p)
  /\ UNCHANGED <<world, grants, tokens, sessions, provider, history>>

\* A code used before: the grant noted with it is revoked, if one is.
Reuse(p, i) ==
  /\ i \in Rows /\ requests[i].kind = "authorize" /\ requests[i].status = "consumed"
  /\ LET owed == {g \in held \cap Grants : grants[g].origin = i}
         noted == {requests[i].note} \cap Grants IN
     /\ owed \cup noted # {}
     /\ Call(p, [Idle EXCEPT !.pc = "revoke", !.req = i, !.left = noted, !.cut = owed])
  /\ UNCHANGED <<world, grants, tokens, sessions, provider, history>>

\* #mediated when the app's verify is content with the credentials.
MediatedComplete(p, a, S) ==
  /\ May("complete") /\ S # {} /\ S \subseteq env.scopes
  /\ Call(p, [Idle EXCEPT !.pc = "signIn", !.account = a, !.scopes = S, !.want = S])
  /\ UNCHANGED <<world, grants, tokens, sessions, provider, history>>
\* #mediatedCode: the row is read, the code verified, and the row changed.
MediatedCode(p, i, right) ==
  /\ Pending(i) /\ requests[i].kind = "mediated"
  /\ right => requests[i].account # Nobody
  /\ Call(p, [Idle EXCEPT !.pc = "guess", !.req = i, !.account = requests[i].account,
                          !.scopes = requests[i].scopes, !.want = requests[i].scopes,
                          !.attempts = requests[i].attempts, !.yes = right])
  /\ UNCHANGED <<world, grants, tokens, sessions, provider, history>>
\* variant: a wrong code that is only counted
GuessCounted(p) ==
  LET i == procs[p].req IN
  /\ Does(p, "guess") /\ ~procs[p].yes /\ Leave(p)
  /\ requests' = IF i \in Rows THEN [requests EXCEPT ![i] = [@ EXCEPT !.attempts = @ + 1]] ELSE requests
  /\ UNCHANGED <<world, grants, tokens, sessions, provider, history>>
GuessWrong(p) ==
  LET i == procs[p].req
      n == procs[p].attempts + 1 IN
  /\ Does(p, "guess") /\ ~procs[p].yes /\ Leave(p)
  /\ requests' = IF i \notin Rows THEN requests
       ELSE IF n >= MaxCodeAttempts
       THEN IF requests[i].status # "pending" THEN requests
            ELSE [requests EXCEPT ![i] = [@ EXCEPT !.status = "failed", !.attempts = n]]
       ELSE IF requests[i].attempts # procs[p].attempts THEN requests
            ELSE [requests EXCEPT ![i] = [@ EXCEPT !.attempts = n]]
  /\ UNCHANGED <<world, grants, tokens, sessions, provider, history>>
GuessRight(p) ==
  LET i == procs[p].req IN
  /\ Does(p, "guess") /\ procs[p].yes
  /\ IF i \in Rows /\ requests[i].status = "pending"
       THEN /\ requests' = [requests EXCEPT ![i] = [@ EXCEPT !.status = "consumed"]]
            /\ consents' = [consents EXCEPT ![i] = @ \cup {[account |-> procs[p].account,
                                                            scopes |-> procs[p].scopes]}]
            /\ Become(p, [procs[p] EXCEPT !.pc = "signIn", !.yes = FALSE])
       ELSE UNCHANGED <<requests, consents>> /\ Leave(p)
  /\ UNCHANGED <<world, grants, tokens, sessions, provider,
                 held, ended, outlived, blocked, acted>>

\* #signIn: the account is asked for and the scopes are narrowed, then the grant
\* and its refresh token are stored, and an access token is issued.
SignIn(p) ==
  /\ Does(p, "signIn")
  /\ IF procs[p].account \notin barred /\ procs[p].want \subseteq procs[p].scopes
       THEN Go(p, "grant") ELSE Leave(p)
  /\ UNCHANGED <<world, tables, provider, history>>
InsertGrant(p) ==
  /\ Does(p, "grant") /\ Unused(grants) # {}
  /\ LET g == CHOOSE x \in Unused(grants) : TRUE IN
     /\ grants' = [grants EXCEPT ![g] = [account |-> procs[p].account, scopes |-> procs[p].scopes,
                                         revoked |-> FALSE, origin |-> procs[p].req]]
     /\ Become(p, [procs[p] EXCEPT !.pc = "issue", !.grant = g])
  /\ UNCHANGED <<world, requests, tokens, sessions, provider, history>>

\* #refresh: the grant must be usable, the refresh token stays the same.
Refresh(p, g, want, bearer) ==
  /\ May("refresh") /\ g \in held \cap Grants /\ Usable(g)
  /\ want \in Wants(grants[g].scopes) /\ want \subseteq grants[g].scopes
  /\ Call(p, [Idle EXCEPT !.pc = "issue", !.account = grants[g].account, !.grant = g,
                          !.scopes = grants[g].scopes, !.want = want, !.bearer = bearer])
  /\ UNCHANGED <<world, grants, tokens, sessions, provider, history>>

\* #issue: the bearer of an MCP server is minted as a token of oidc-provider, any
\* token is stored; a sign-in by code then notes the grant in its request.
FreshTokens == Unused(tokens) \ ({procs[q].token : q \in Procs} \cup {b.token : b \in provider})
Issue(p) ==
  /\ Does(p, "issue") /\ FreshTokens # {}
  /\ LET t == CHOOSE x \in FreshTokens : TRUE
         g == procs[p].grant IN
     /\ provider' = IF procs[p].bearer THEN provider \cup {[token |-> t, grant |-> g]} ELSE provider
     /\ outlived' = IF procs[p].bearer /\ grants[g].revoked /\ g \notin procs[p].before
                  THEN outlived \cup {g} ELSE outlived
     /\ Become(p, [procs[p] EXCEPT !.pc = "store", !.token = t])
  /\ UNCHANGED <<world, tables, held, consents, ended, blocked, acted>>
Answered(p) == held' = held \cup {procs[p].token, procs[p].grant} /\ Leave(p)
StoreToken(p) ==
  LET i == procs[p].req IN
  /\ Does(p, "store")
  /\ tokens' = [tokens EXCEPT ![procs[p].token] =
       [grant |-> procs[p].grant, account |-> procs[p].account, scopes |-> procs[p].want,
        bearer |-> procs[p].bearer]]
  /\ IF i \in Rows /\ requests[i].kind = "authorize" THEN Go(p, "note") /\ held' = held
                                                      ELSE Answered(p)
  /\ UNCHANGED <<world, requests, grants, sessions, provider,
                 consents, ended, outlived, blocked, acted>>
\* variant: an exchange that answers without noting the grant
NoteNothing(p) ==
  /\ Does(p, "note") /\ Answered(p)
  /\ UNCHANGED <<world, tables, provider, consents, ended, outlived, blocked, acted>>
Note(p) ==
  LET i == procs[p].req IN
  /\ Does(p, "note") /\ Answered(p)
  /\ requests' = IF i \in Rows THEN [requests EXCEPT ![i] = [@ EXCEPT !.note = procs[p].grant]]
                               ELSE requests
  /\ UNCHANGED <<world, grants, tokens, sessions, provider,
                 consents, ended, outlived, blocked, acted>>

--------------------------------------------------------------------------------
(* Revocation, disconnection and the block of an agent *)

\* revoke of a refresh token, revokeAccountGrant and revokeAllAccountGrants (the
\* list of an account): each grant is revoked, then its bearers.
AgentRevokes(p, g) ==
  /\ May("leave") /\ g \in held \cap Grants
  /\ Serve(p, [Idle EXCEPT !.pc = "revoke", !.left = {g}, !.cut = {g}])
UserDisconnects(p, a, g) ==
  /\ May("disconnect") /\ g \in Kept(grants) /\ grants[g].account = a /\ ~grants[g].revoked
  /\ Begin(p, [Idle EXCEPT !.pc = "revoke", !.left = {g}, !.cut = {g}])
RevokeAll(p, a) ==
  LET list == {g \in Kept(grants) : grants[g].account = a /\ ~grants[g].revoked} IN
  /\ May("all") /\ list # {}
  /\ Begin(p, [Idle EXCEPT !.pc = "revoke", !.left = list, !.cut = list])
Disconnect(p) ==
  /\ \/ \E g \in Grants : AgentRevokes(p, g)
     \/ \E a \in Accounts, g \in Grants : UserDisconnects(p, a, g)
     \/ \E a \in Accounts : RevokeAll(p, a)
  /\ UNCHANGED <<world, tables, provider, history>>

\* revoke of an access token: its row goes, a bearer stays with oidc-provider.
AgentDropsToken(t) ==
  /\ May("drop") /\ registry.snapshot = "free"
  /\ t \in held \cap Kept(tokens) /\ tokens' = [tokens EXCEPT ![t] = Gone]
  /\ UNCHANGED <<world, requests, grants, sessions, provider, procs, history>>

BearersOf(g) == {b \in provider : b.grant = g}
RevokeRow(p, g) ==
  /\ Does(p, "revoke") /\ g \in procs[p].left
  /\ grants' = [grants EXCEPT ![g] = [@ EXCEPT !.revoked = TRUE]]
  /\ Become(p, [procs[p] EXCEPT !.pc = "unmint", !.grant = g, !.left = @ \ {g}])
  /\ UNCHANGED <<world, requests, tokens, sessions, provider, history>>
\* variant: a revocation that only marks the row
KeepBearers(p) ==
  /\ Does(p, "unmint") /\ Go(p, "revoke")
  /\ UNCHANGED <<world, tables, provider, history>>
RevokeBearers(p) ==
  /\ Does(p, "unmint")
  /\ provider' = provider \ BearersOf(procs[p].grant)
  /\ Become(p, [procs[p] EXCEPT !.pc = "revoke", !.grant = NoGrant])
  /\ UNCHANGED <<world, tables, history>>
Revoked(p) ==
  /\ Does(p, "revoke") /\ procs[p].left = {}
  /\ IF procs[p].yes THEN Go(p, "endSessions") /\ ended' = ended
                     ELSE Leave(p) /\ ended' = ended \cup procs[p].cut
  /\ UNCHANGED <<world, tables, provider, held, consents, outlived, blocked, acted>>

\* The administrator blocks or allows the agent: upsert writes the row and drops
\* the snapshot; a block then disconnects the agent.
Rule(p, block) ==
  /\ May("block") /\ Begin(p, [Idle EXCEPT !.pc = "write", !.yes = block])
  /\ UNCHANGED <<world, tables, provider, history>>
WriteRule(p) ==
  /\ Does(p, "write") /\ Go(p, "invalidate")
  /\ registry' = [registry EXCEPT !.row = procs[p].yes, !.missed = @ \/ registry.loading # "none"]
  /\ blocked' = (blocked /\ procs[p].yes)
  /\ UNCHANGED <<env, tables, provider, barred, browser, held, consents, ended, outlived, acted>>
\* variant: a write that leaves the snapshot to its lifetime
KeepSnapshot(p) ==
  /\ Does(p, "invalidate")
  /\ IF procs[p].yes THEN Go(p, "list") ELSE Leave(p)
  /\ UNCHANGED <<world, tables, provider, history>>
Invalidate(p) ==
  /\ Does(p, "invalidate")
  /\ registry' = [registry EXCEPT !.snapshot = "none"]
  /\ IF procs[p].yes THEN Go(p, "list") ELSE Leave(p)
  /\ UNCHANGED <<env, tables, provider, barred, browser, history>>
ListOfClient(p) ==
  LET list == {g \in Kept(grants) : ~grants[g].revoked} IN
  /\ Does(p, "list")
  /\ Become(p, [procs[p] EXCEPT !.pc = "revoke", !.left = list, !.cut = list])
  /\ UNCHANGED <<world, tables, provider, history>>
EndSessions(p) ==
  /\ Does(p, "endSessions") /\ Leave(p)
  /\ sessions' = [e \in Sessions |-> IF e \in Kept(sessions) THEN [sessions[e] EXCEPT !.ended = TRUE]
                                                             ELSE sessions[e]]
  /\ ended' = ended \cup procs[p].cut
  /\ blocked' = (registry.row /\ \A q \in Procs : ~Does(q, "invalidate"))
  /\ UNCHANGED <<world, requests, grants, tokens, provider,
                 held, consents, outlived, acted>>

\* The snapshot: loaded by a request that finds none, installed when the query
\* answers, whatever was written meanwhile, and kept for its lifetime.
LoadRows ==
  /\ registry.snapshot = "none" /\ registry.loading = "none"
  /\ registry' = [registry EXCEPT !.loading = Row(registry.row), !.missed = FALSE]
  /\ UNCHANGED <<env, tables, provider, barred, browser, procs, history>>
Loaded ==
  /\ registry.loading # "none"
  /\ registry' = [registry EXCEPT !.loading = "none", !.snapshot = registry.loading]
  /\ UNCHANGED <<env, tables, provider, barred, browser, procs, history>>
LoadFails ==
  /\ May("stale") /\ registry.loading # "none"
  /\ registry' = [registry EXCEPT !.loading = "none", !.missed = TRUE,
                    !.snapshot = IF registry.snapshot = "none" THEN "free" ELSE registry.snapshot]
  /\ UNCHANGED <<env, tables, provider, barred, browser, procs, history>>
SnapshotLapses ==
  /\ May("stale") /\ registry.snapshot # "none"
  /\ registry' = [registry EXCEPT !.snapshot = "none"]
  /\ UNCHANGED <<env, tables, provider, barred, browser, procs, history>>

--------------------------------------------------------------------------------
(* Access over a Session, and the browser that joins one *)

\* verifyAccess: the token and its grant, then the Session, then its account. A
\* request without a token is signed out. authorizeBrowserJoin begins with it.
Access(p, e, t, join) ==
  /\ May("access") /\ (join # NoRequest => May("join"))
  /\ t = NoToken \/ (t \in held \cap Kept(tokens) /\ Usable(tokens[t].grant))
  /\ join \in {NoRequest} \cup {i \in Rows : requests[i].kind = "browser"}
  /\ LET row == tokens[t]
         fields == [Idle EXCEPT !.pc = "find", !.session = e, !.join = join] IN
     Serve(p, IF t = NoToken THEN fields
              ELSE [fields EXCEPT !.token = t, !.grant = row.grant, !.account = row.account,
                                  !.scopes = row.scopes])
  /\ UNCHANGED <<world, tables, provider, history>>
\* #sessionFor: a new sid starts a Session; one that ended is refused.
FindSession(p) ==
  LET e == procs[p].session
      old == e \in Kept(sessions)
      bound == IF old THEN sessions[e].account ELSE Nobody IN
  /\ Does(p, "find")
  /\ sessions' = IF old THEN sessions
                 ELSE [sessions EXCEPT ![e] = [account |-> Nobody, ended |-> FALSE]]
  /\ IF \/ old /\ sessions[e].ended
        \/ procs[p].token # NoToken /\ bound \notin {Nobody, procs[p].account}
       THEN Leave(p)
       ELSE Go(p, IF procs[p].token # NoToken /\ bound = Nobody THEN "bind" ELSE "act")
  /\ UNCHANGED <<world, requests, grants, tokens, provider, history>>
\* variant: a Session that takes the account of whoever binds it last
BindAnyone(p) ==
  LET e == procs[p].session IN
  /\ Does(p, "bind") /\ Go(p, "act")
  /\ sessions' = [sessions EXCEPT ![e] = [@ EXCEPT !.account = procs[p].account]]
  /\ UNCHANGED <<world, requests, grants, tokens, provider, history>>
Bind(p) ==
  LET e == procs[p].session IN
  /\ Does(p, "bind")
  /\ IF sessions[e].account \in {Nobody, procs[p].account}
       THEN /\ sessions' = [sessions EXCEPT ![e] = [@ EXCEPT !.account = procs[p].account]]
            /\ Go(p, "act")
       ELSE sessions' = sessions /\ Leave(p)
  /\ UNCHANGED <<world, requests, grants, tokens, provider, history>>

\* The request is let through; that of a join goes on to its row.
Act(p) ==
  LET e == procs[p].session
      i == procs[p].join IN
  /\ Does(p, "act")
  /\ acted' = [acted EXCEPT ![e] = @ \cup ({procs[p].account} \cap Accounts)]
  /\ IF i # NoRequest /\ Pending(i) THEN Go(p, "join") ELSE Leave(p)
  /\ UNCHANGED <<world, tables, provider, held, consents, ended, outlived, blocked>>
AuthorizeJoin(p) ==
  LET i == procs[p].join IN
  /\ Does(p, "join") /\ Leave(p)
  /\ requests' = IF i \in Rows /\ requests[i].status = "pending"
       THEN [requests EXCEPT ![i] = [@ EXCEPT !.status = "approved", !.account = procs[p].account,
              !.scopes = procs[p].scopes, !.note = procs[p].grant, !.session = procs[p].session]]
       ELSE requests
  /\ UNCHANGED <<world, grants, tokens, sessions, provider, history>>

\* The requests of the browser follow one another, each on the session it left.
BrowserIsFree == \A q \in Procs : ~Does(q, "complete") /\ ~Does(q, "enter") /\ ~Does(q, "browse")
CompleteJoin(p, i, right) ==
  /\ May("join") /\ BrowserIsFree
  /\ i \in Rows /\ requests[i].kind = "browser" /\ requests[i].status \in {"pending", "approved"}
  /\ Begin(p, [Idle EXCEPT !.pc = "complete", !.req = i, !.status = requests[i].status,
       !.account = requests[i].account, !.scopes = requests[i].scopes,
       !.grant = requests[i].note, !.session = requests[i].session,
       !.yes = right /\ ~requests[i].lapsed])
  /\ UNCHANGED <<world, tables, provider, history>>
UseJoin(p) ==
  LET i == procs[p].req IN
  /\ Does(p, "complete")
  /\ IF i \in Rows /\ requests[i].status = procs[p].status
       THEN /\ requests' = [requests EXCEPT ![i] = [@ EXCEPT !.status = "consumed"]]
            /\ IF procs[p].status = "approved" /\ procs[p].yes THEN Go(p, "enter") ELSE Leave(p)
       ELSE requests' = requests /\ Leave(p)
  /\ UNCHANGED <<world, grants, tokens, sessions, provider, history>>
\* completeBrowserJoin finds the Session, and loginPoppyBrowser marks the browser.
Enter(p) ==
  LET account == IF procs[p].grant = NoGrant THEN Nobody ELSE procs[p].account IN
  /\ Does(p, "enter") /\ Leave(p)
  /\ browser' = IF sessions[procs[p].session].ended THEN browser
       ELSE [session |-> procs[p].session, account |-> account, grant |-> procs[p].grant,
             scopes |-> IF procs[p].grant = NoGrant THEN {} ELSE procs[p].scopes,
             login |-> IF account # Nobody THEN account
                       ELSE IF browser.account # Nobody THEN Nobody ELSE browser.login]
  /\ UNCHANGED <<env, tables, provider, barred, registry, history>>
\* The browser logs in to an account of its own.
OwnLogin(a) ==
  /\ May("own") /\ BrowserIsFree /\ browser.account = Nobody
  /\ browser' = [browser EXCEPT !.login = a]
  /\ UNCHANGED <<env, tables, provider, barred, registry, procs, history>>
\* poppyWebSession: the Session is read, then the grant of the marker.
Browse(p) ==
  /\ May("join") /\ BrowserIsFree /\ browser.session # NoSession
  /\ IF sessions[browser.session].ended
       THEN /\ browser' = [NoMarker EXCEPT !.login = IF browser.account # Nobody THEN Nobody
                                                     ELSE browser.login]
            /\ procs' = procs
       ELSE /\ Begin(p, [Idle EXCEPT !.pc = "browse", !.session = browser.session,
                         !.grant = browser.grant])
            /\ browser' = browser
  /\ UNCHANGED <<env, tables, provider, barred, registry, history>>
\* variant: a middleware that trusts the marker of a browser that is logged in
BrowseUnasked(p) ==
  /\ Does(p, "browse")
  /\ Become(p, [procs[p] EXCEPT !.pc = "act", !.account = browser.account, !.scopes = browser.scopes])
  /\ UNCHANGED <<world, tables, provider, history>>
BrowseGrant(p) ==
  LET g == procs[p].grant
      signedIn == g # NoGrant /\ Usable(g) IN
  /\ Does(p, "browse")
  /\ Become(p, [procs[p] EXCEPT !.pc = "act", !.grant = IF signedIn THEN g ELSE NoGrant,
       !.account = IF signedIn THEN browser.account ELSE Nobody,
       !.scopes = IF signedIn THEN browser.scopes ELSE {}])
  /\ browser' = IF signedIn THEN [browser EXCEPT !.login = browser.account]
       ELSE IF browser.account = Nobody THEN browser
       ELSE [NoMarker EXCEPT !.session = browser.session]
  /\ UNCHANGED <<env, tables, provider, barred, registry, history>>

--------------------------------------------------------------------------------
(* What happens around the handlers *)

Lapse(i) ==
  /\ May("lapse") /\ i \in Rows /\ ~requests[i].lapsed
  /\ requests[i].status \in {"pending", "approved", "consumed"}
  /\ requests' = [requests EXCEPT ![i] = [@ EXCEPT !.lapsed = TRUE]]
  /\ UNCHANGED <<world, grants, tokens, sessions, provider, procs, history>>
Bar(a) ==
  /\ May("bar") /\ a \notin barred /\ barred' = barred \cup {a}
  /\ UNCHANGED <<env, tables, provider, registry, browser, procs, history>>
\* A handler is lost; the snapshot stays if it was to drop it (upsert throws).
Crash(p) ==
  /\ May("crash") /\ ~Does(p, "idle") /\ Leave(p)
  /\ registry' = [registry EXCEPT !.missed = @ \/ Does(p, "invalidate")]
  /\ UNCHANGED <<env, tables, provider, barred, browser, history>>

Init ==
  /\ env \in Scenarios
  /\ requests = [i \in Requests |-> NoRow] /\ grants = [g \in Grants |-> NoRow]
  /\ tokens = [t \in Tokens |-> NoRow] /\ sessions = [e \in Sessions |-> NoRow]
  /\ provider = {} /\ barred = {} /\ browser = NoMarker
  /\ registry = [row |-> FALSE, snapshot |-> "free", loading |-> "none", missed |-> FALSE]
  /\ procs = [p \in Procs |-> Idle]
  /\ held = {} /\ ended = {} /\ outlived = {} /\ blocked = FALSE
  /\ consents = [i \in Requests |-> {}] /\ acted = [e \in Sessions |-> {}]

Asked == \/ \E i \in Requests, S \in SUBSET Scopes :
              \/ DeviceAuthorization(i, S)
              \/ \E a \in Accountable : StartAuthorization(i, a, S) \/ Mediated(i, a, S)
         \/ \E i \in Requests : StartBrowserJoin(i)
Decided(p) == \/ \E i \in Requests, a \in Accounts, S \in SUBSET Scopes :
                   DecideAuthorization(p, i, a, S) \/ DecideDevice(p, i, a, S)
              \/ DecideWrite(p)
SignedIn(p) ==
  \/ \E i \in Requests, want \in SUBSET Scopes, bearer \in Bearers :
       AuthorizationCode(p, i, want, bearer) \/ DeviceCode(p, i, want, bearer)
  \/ \E i \in Requests : Reuse(p, i)
  \/ \E a \in Accounts, S \in SUBSET Scopes : MediatedComplete(p, a, S)
  \/ \E i \in Requests, right \in BOOLEAN : MediatedCode(p, i, right)
  \/ Consume(p) \/ GuessWrong(p) \/ GuessRight(p) \/ SignIn(p) \/ InsertGrant(p)
  \/ \E g \in Grants, want \in SUBSET Scopes, bearer \in Bearers : Refresh(p, g, want, bearer)
  \/ Issue(p) \/ StoreToken(p) \/ Note(p)
CutOff(p) == \/ Disconnect(p) \/ RevokeBearers(p) \/ Revoked(p) \/ ListOfClient(p) \/ EndSessions(p)
             \/ \E g \in Grants : RevokeRow(p, g)
             \/ \E block \in BOOLEAN : Rule(p, block)
             \/ WriteRule(p) \/ Invalidate(p)
LetThrough(p) ==
  \/ \E e \in Sessions, t \in Tokens \cup {NoToken}, join \in Requests \cup {NoRequest} :
       Access(p, e, t, join)
  \/ FindSession(p) \/ Bind(p) \/ Act(p) \/ AuthorizeJoin(p)
  \/ \E i \in Requests, right \in BOOLEAN : CompleteJoin(p, i, right)
  \/ UseJoin(p) \/ Enter(p) \/ Browse(p) \/ BrowseGrant(p)
Around == \/ \E t \in Tokens : AgentDropsToken(t)
          \/ LoadRows \/ Loaded \/ LoadFails \/ SnapshotLapses
          \/ \E i \in Requests : Lapse(i)
          \/ \E a \in Accounts : Bar(a) \/ OwnLogin(a)
Next == Asked \/ Around
          \/ \E p \in Procs : Decided(p) \/ SignedIn(p) \/ CutOff(p) \/ LetThrough(p) \/ Crash(p)

Spec == Init /\ [][Next]_vars

--------------------------------------------------------------------------------
(* Properties *)

\* Every variable has its type: a handler, row, grant, token, Session and the
\* browser keep their shape through every step, and the histories what they name.
TypeOK ==
  /\ env \in Scenarios
  /\ requests \in [Requests -> Request \cup {NoRow, Gone}]
  /\ grants \in [Grants -> Grant \cup {NoRow}]
  /\ tokens \in [Tokens -> Token \cup {NoRow, Gone}]
  /\ sessions \in [Sessions -> Session \cup {NoRow}]
  /\ provider \subseteq [token : Tokens, grant : Grants] /\ barred \subseteq Accounts
  /\ registry \in [row : BOOLEAN, snapshot : Snapshots, loading : Snapshots, missed : BOOLEAN]
  /\ browser \in Browser /\ procs \in [Procs -> Proc]
  /\ held \subseteq Grants \cup Tokens /\ ended \subseteq Grants /\ outlived \subseteq Grants
  /\ consents \in [Requests -> SUBSET [account : Accounts, scopes : SUBSET Scopes]]
  /\ blocked \in BOOLEAN /\ acted \in [Sessions -> SUBSET Accounts]

\* Who is about to be let through for an account.
Acting(p) == Does(p, "act") /\ procs[p].account # Nobody

OneGrantPerConsent ==
  \A g, h \in Kept(grants) : grants[g].origin = grants[h].origin => g = h \/ grants[g].origin = NoRequest
GrantWithinConsent ==
  \A g \in Kept(grants) : grants[g].origin # NoRequest =>
    /\ Cardinality(consents[grants[g].origin]) = 1
    /\ \A c \in consents[grants[g].origin] : grants[g].account = c.account /\ grants[g].scopes = c.scopes
ActsWithinGrant ==
  \A p \in Procs : Acting(p) =>
    /\ procs[p].account = grants[procs[p].grant].account
    /\ procs[p].scopes \subseteq grants[procs[p].grant].scopes
OneAccountPerSession == \A e \in Sessions : Cardinality(acted[e]) <= 1

\* A consent leads to one grant at most, of the account that gave it and for the
\* scopes it approved, however many tabs decide the request and however many
\* exchanges, retries and guesses of its code overlap; whoever is let through acts
\* for the account and within the scopes of its grant, a browser that joined
\* included; and a Session is never used for two accounts (transitionRequest,
\* bindSessionAccount, #narrow).
ActsAsConsented ==
  OneGrantPerConsent /\ GrantWithinConsent /\ ActsWithinGrant /\ OneAccountPerSession

EndedIsRefused == \A p \in Procs : Acting(p) => procs[p].grant \notin procs[p].before
BearersEnd == \A b \in provider : b.grant \in ended => b.grant \in outlived
BlockHolds == \A p \in Procs : ~procs[p].late

\* Once an answer said that a grant ended (the agent signed out, the user or the
\* administrator disconnected it, a code that had been answered was used again), no
\* request that begins later is let through for it, and no bearer of it is left
\* with oidc-provider, unless it was minted after the row was revoked. Once an
\* account is disabled, no request that begins later is let through for a grant of
\* it (its bearers stay: disabling revokes nothing). And once an answer said that
\* the agent is blocked, this process serves no request of it that begins later,
\* unless a load of the registry was in flight at the write or failed since, or a
\* write was lost before it dropped the snapshot (revokeGrant, browserState,
\* #grantUsable, disconnectClient, registry_store.ts).
EndedStaysOut == EndedIsRefused /\ BearersEnd /\ BlockHolds
================================================================================
