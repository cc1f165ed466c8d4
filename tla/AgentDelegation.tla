--------------------------- MODULE AgentDelegation ---------------------------
(***************************************************************************)
(* Delegation of personal agents: PersonalAgentDelegation over             *)
(* DelegationStore (agents/delegation_service.ts, delegation_store.ts).    *)
(*                                                                         *)
(* An agent asks for a device code, a user approves or denies it on the    *)
(* consent screen, the agent exchanges the code for a token pair and       *)
(* rotates the pair with its refresh token.  Every call is an HTTP request *)
(* whose handler awaits the database several times, so several requests    *)
(* interleave between any two of those awaits: a request in flight is an   *)
(* element of Procs, and its steps are the database accesses that matter.  *)
(*                                                                         *)
(* A token pair (signed access token, stored refresh token) is one row of  *)
(* token: #tokenResponse hands out both or neither.  The polling cadence   *)
(* (last_polled_at, slow_down) only chooses between two errors and is left *)
(* out, and so are rows refused without any change of state.               *)
(***************************************************************************)
EXTENDS Integers, FiniteSets

CONSTANTS
  Accounts,     \* accounts of the identity provider
  Agents,       \* agent identities: pairs (JWT issuer, user of the agent)
  Scopes,       \* scope ids of the configuration
  Devices,      \* device codes that can be handed out
  Grants,       \* ids of grants; their order is the one of localeCompare
  Tokens,       \* token pairs that can be handed out
  Procs,        \* requests that can be in flight at the same time
  DeviceTtl, GrantTtl, AccessTtl,
  MaxTime,      \* bound of the clock
  Env,          \* what the environment of a run may do, a subset of EnvEvents
  None

EnvEvents == {"crash", "revoke", "deny", "disable"}

ASSUME ConstantsAssumption ==
  /\ Grants \subseteq Nat
  /\ DeviceTtl \in Nat /\ GrantTtl \in Nat /\ AccessTtl \in Nat
  /\ MaxTime \in Nat
  /\ Env \subseteq EnvEvents
  /\ Devices \cap Tokens = {}
  /\ None \notin Accounts \cup Agents \cup Devices \cup Tokens \cup Grants

VARIABLES
  device,     \* table of device codes
  grant,      \* table of grants
  token,      \* token pairs handed out; the refresh half is a stored row
  proc,       \* the requests in flight
  active,     \* accounts for which isAccountActive answers true
  now,        \* the clock
  consented   \* history: what each account approved for each agent

vars == <<device, grant, token, proc, active, now, consented>>

Instant == 0 .. MaxTime
Time == 0 .. (MaxTime + DeviceTtl + GrantTtl + AccessTtl)

DeviceRow == [status : {"pending", "approved", "denied", "consumed", "deleted"},
              agent : Agents, requested : SUBSET Scopes, exp : Time,
              account : Accounts \cup {None}, grant : Grants \cup {None}]

GrantRow == [account : Accounts, agent : Agents, scope : SUBSET Scopes,
             exp : Time, created : Instant, updated : Instant,
             revoked : BOOLEAN]

\* from: the code or refresh token it was obtained with; holder: who got it
TokenRow == [grant : Grants, scope : SUBSET Scopes, accessExp : Time,
             refreshExp : Time, used : BOOLEAN,
             from : Devices \cup Tokens, holder : Agents]

Steps == {"idle", "consume", "issue", "spend", "reuse", "claim", "lookup",
          "extend", "insert", "converge", "merge", "retire", "bind", "dead"}

ASSUME NoneAssumption == None \notin DeviceRow \cup GrantRow \cup TokenRow

\* the local variables of a handler; a field it does not use is None or empty
Local == [pc : Steps, from : Devices \cup Tokens \cup {None},
          agent : Agents \cup {None}, account : Accounts \cup {None},
          asked : SUBSET Scopes, grant : Grants \cup {None},
          scope : SUBSET Scopes, exp : Time, extras : SUBSET Grants,
          at : Instant]

TypeOK ==
  /\ device \in [Devices -> DeviceRow \cup {None}]
  /\ grant \in [Grants -> GrantRow \cup {None}]
  /\ token \in [Tokens -> TokenRow \cup {None}]
  /\ proc \in [Procs -> Local]
  /\ active \subseteq Accounts
  /\ now \in Instant
  /\ consented \subseteq Accounts \X Agents \X Scopes

Idle == [pc |-> "idle", from |-> None, agent |-> None, account |-> None,
         asked |-> {}, grant |-> None, scope |-> {}, exp |-> 0,
         extras |-> {}, at |-> 0]

Init ==
  /\ device = [d \in Devices |-> None]
  /\ grant = [g \in Grants |-> None]
  /\ token = [t \in Tokens |-> None]
  /\ proc = [p \in Procs |-> Idle]
  /\ active = Accounts
  /\ now = 0
  /\ consented = {}

-----------------------------------------------------------------------------
(* The store's reads and conditional updates.                              *)

Alive(g, t) == grant[g] # None /\ ~grant[g].revoked /\ grant[g].exp > t

\* variant: looked up by the agent alone
LiveGrantsOfAgent(account, agent, t) ==
  {g \in Grants : Alive(g, t) /\ grant[g].agent = agent}

LiveGrantsFor(account, agent, t) ==
  {g \in Grants : /\ Alive(g, t)
                  /\ grant[g].account = account
                  /\ grant[g].agent = agent}

Usable(g, agent, t) ==
  Alive(g, t) /\ grant[g].agent = agent /\ grant[g].account \in active

UpdateGrant(g, scope, exp, at) ==
  grant' = IF grant[g].revoked THEN grant
           ELSE [grant EXCEPT ![g].scope = scope, ![g].exp = exp,
                              ![g].updated = at]

RevokeGrants(S, at) ==
  grant' = [g \in Grants |->
              IF g \in S /\ grant[g] # None /\ ~grant[g].revoked
              THEN [grant[g] EXCEPT !.revoked = TRUE, !.updated = at]
              ELSE grant[g]]

At(p, pc) == proc[p].pc = pc
GoTo(p, pc) == proc' = [proc EXCEPT ![p].pc = pc]
Finish(p) == proc' = [proc EXCEPT ![p] = Idle]

-----------------------------------------------------------------------------
(* Endpoints of the agent.                                                 *)

RequestDevice(agent, d, requested) ==
  /\ device[d] = None
  /\ requested # {}
  /\ device' = [e \in Devices |->
       IF e = d
       THEN [status |-> "pending", agent |-> agent, requested |-> requested,
             exp |-> now + DeviceTtl, account |-> None, grant |-> None]
       ELSE IF device[e] # None /\ device[e].exp < now
       THEN [device[e] EXCEPT !.status = "deleted"]
       ELSE device[e]]
  /\ UNCHANGED <<grant, token, proc, active, now, consented>>

ExchangeBegin(p, agent, d) ==
  /\ At(p, "idle")
  /\ device[d] # None
  /\ device[d].agent = agent
  /\ device[d].status = "approved"
  /\ device[d].exp > now
  /\ device[d].grant # None
  /\ Usable(device[d].grant, agent, now)
  /\ LET g == device[d].grant IN
     proc' = [proc EXCEPT ![p] =
       [Idle EXCEPT !.pc = "consume", !.from = d, !.agent = agent, !.grant = g,
                    !.scope = grant[g].scope, !.exp = grant[g].exp, !.at = now]]
  /\ UNCHANGED <<device, grant, token, active, now, consented>>

\* variant: an update of the code that is not conditional on its status
ExchangeConsumeBlind(p) ==
  /\ At(p, "consume")
  /\ device' = [device EXCEPT ![proc[p].from].status = "consumed"]
  /\ GoTo(p, "issue")
  /\ UNCHANGED <<grant, token, active, now, consented>>

ExchangeConsume(p) ==
  LET d == proc[p].from IN
  /\ At(p, "consume")
  /\ IF device[d].status = "approved"
     THEN /\ device' = [device EXCEPT ![d].status = "consumed"]
          /\ GoTo(p, "issue")
     ELSE Finish(p) /\ UNCHANGED device
  /\ UNCHANGED <<grant, token, active, now, consented>>

RefreshBegin(p, agent, t) ==
  /\ At(p, "idle")
  /\ token[t] # None
  /\ token[t].refreshExp > now
  /\ Usable(token[t].grant, agent, now)
  /\ LET g == token[t].grant IN
     proc' = [proc EXCEPT ![p] =
       [Idle EXCEPT !.pc = IF token[t].used THEN "reuse" ELSE "spend",
                    !.from = t, !.agent = agent, !.grant = g,
                    !.scope = grant[g].scope, !.exp = grant[g].exp, !.at = now]]
  /\ UNCHANGED <<device, grant, token, active, now, consented>>

\* variant: the loser of the race is refused, and nothing is revoked
RefreshSpendNoReuse(p) ==
  LET t == proc[p].from IN
  /\ At(p, "spend")
  /\ IF token[t].used
     THEN Finish(p) /\ UNCHANGED token
     ELSE GoTo(p, "issue") /\ token' = [token EXCEPT ![t].used = TRUE]
  /\ UNCHANGED <<device, grant, active, now, consented>>

RefreshSpend(p) ==
  LET t == proc[p].from IN
  /\ At(p, "spend")
  /\ IF token[t].used
     THEN GoTo(p, "reuse") /\ UNCHANGED token
     ELSE GoTo(p, "issue") /\ token' = [token EXCEPT ![t].used = TRUE]
  /\ UNCHANGED <<device, grant, active, now, consented>>

RefreshReuse(p) ==
  /\ At(p, "reuse")
  /\ RevokeGrants({proc[p].grant}, proc[p].at)
  /\ Finish(p)
  /\ UNCHANGED <<device, token, active, now, consented>>

\* variant: mixes seconds and milliseconds
IssueInMilliseconds(p, t) ==
  /\ At(p, "issue")
  /\ token[t] = None
  /\ token' = [token EXCEPT ![t] =
       [grant |-> proc[p].grant, scope |-> proc[p].scope,
        accessExp |-> 1000 * (proc[p].at + AccessTtl), refreshExp |-> proc[p].exp,
        used |-> FALSE, from |-> proc[p].from, holder |-> proc[p].agent]]
  /\ Finish(p)
  /\ UNCHANGED <<device, grant, active, now, consented>>

\* #tokenResponse, with the access token signed from the grant row read before
Issue(p, t) ==
  /\ At(p, "issue")
  /\ token[t] = None
  /\ token' = [token EXCEPT ![t] =
       [grant |-> proc[p].grant, scope |-> proc[p].scope,
        accessExp |-> proc[p].at + AccessTtl, refreshExp |-> proc[p].exp,
        used |-> FALSE, from |-> proc[p].from, holder |-> proc[p].agent]]
  /\ Finish(p)
  /\ UNCHANGED <<device, grant, active, now, consented>>

-----------------------------------------------------------------------------
(* The consent screen.                                                     *)

ApproveBegin(p, account, d, chosen) ==
  /\ At(p, "idle")
  /\ device[d] # None
  /\ device[d].status = "pending"
  /\ device[d].exp > now
  /\ device[d].requested \cap chosen # {}
  /\ proc' = [proc EXCEPT ![p] =
       [Idle EXCEPT !.pc = "claim", !.from = d, !.agent = device[d].agent,
                    !.account = account, !.at = now,
                    !.asked = device[d].requested \cap chosen]]
  /\ UNCHANGED <<device, grant, token, active, now, consented>>

\* variant: an update of the code that is not conditional on its status
ApproveClaimBlind(p) ==
  LET d == proc[p].from IN
  /\ At(p, "claim")
  /\ device' = [device EXCEPT ![d].status = "approved",
                              ![d].account = proc[p].account]
  /\ consented' = consented \cup
       ({proc[p].account} \X {proc[p].agent} \X proc[p].asked)
  /\ GoTo(p, "lookup")
  /\ UNCHANGED <<grant, token, active, now>>

ApproveClaim(p) ==
  LET d == proc[p].from IN
  /\ At(p, "claim")
  /\ IF device[d].status = "pending"
     THEN /\ device' = [device EXCEPT ![d].status = "approved",
                                      ![d].account = proc[p].account]
          /\ consented' = consented \cup
               ({proc[p].account} \X {proc[p].agent} \X proc[p].asked)
          /\ GoTo(p, "lookup")
     ELSE Finish(p) /\ UNCHANGED <<device, consented>>
  /\ UNCHANGED <<grant, token, active, now>>

\* variant: a step-up adds whatever the agent asked for
ApproveLookupRequested(p) ==
  LET live == LiveGrantsFor(proc[p].account, proc[p].agent, proc[p].at) IN
  /\ At(p, "lookup")
  /\ \/ live = {} /\ GoTo(p, "insert")
     \/ \E g \in live :
          /\ \A h \in live : grant[h].updated <= grant[g].updated
          /\ proc' = [proc EXCEPT ![p].pc = "extend", ![p].grant = g,
                        ![p].scope = grant[g].scope \cup device[proc[p].from].requested,
                        ![p].exp = proc[p].at + GrantTtl]
  /\ UNCHANGED <<device, grant, token, active, now, consented>>

\* the newest live grant of the triple and the scopes to write to it, if any
ApproveLookup(p) ==
  LET live == LiveGrantsFor(proc[p].account, proc[p].agent, proc[p].at) IN
  /\ At(p, "lookup")
  /\ \/ live = {} /\ GoTo(p, "insert")
     \/ \E g \in live :
          /\ \A h \in live : grant[h].updated <= grant[g].updated
          /\ proc' = [proc EXCEPT ![p].pc = "extend", ![p].grant = g,
                        ![p].scope = grant[g].scope \cup proc[p].asked,
                        ![p].exp = proc[p].at + GrantTtl]
  /\ UNCHANGED <<device, grant, token, active, now, consented>>

ApproveExtend(p) ==
  /\ At(p, "extend")
  /\ UpdateGrant(proc[p].grant, proc[p].scope, proc[p].exp, proc[p].at)
  /\ GoTo(p, IF grant[proc[p].grant].revoked THEN "insert" ELSE "bind")
  /\ UNCHANGED <<device, token, active, now, consented>>

\* variant: binds the new grant without converging
ApproveInsertAlone(p, g) ==
  /\ At(p, "insert")
  /\ grant[g] = None
  /\ grant' = [grant EXCEPT ![g] =
       [account |-> proc[p].account, agent |-> proc[p].agent,
        scope |-> proc[p].asked, exp |-> proc[p].at + GrantTtl,
        created |-> proc[p].at, updated |-> proc[p].at, revoked |-> FALSE]]
  /\ proc' = [proc EXCEPT ![p].pc = "bind", ![p].grant = g]
  /\ UNCHANGED <<device, token, active, now, consented>>

ApproveInsert(p, g) ==
  /\ At(p, "insert")
  /\ grant[g] = None
  /\ grant' = [grant EXCEPT ![g] =
       [account |-> proc[p].account, agent |-> proc[p].agent,
        scope |-> proc[p].asked, exp |-> proc[p].at + GrantTtl,
        created |-> proc[p].at, updated |-> proc[p].at, revoked |-> FALSE]]
  /\ GoTo(p, "converge")
  /\ UNCHANGED <<device, token, active, now, consented>>

Elder(g, h) ==
  \/ grant[g].created < grant[h].created
  \/ grant[g].created = grant[h].created /\ g <= h

\* elects the oldest live grant and computes the union of the scopes read
ConvergeRead(p) ==
  LET live == LiveGrantsFor(proc[p].account, proc[p].agent, proc[p].at) IN
  /\ At(p, "converge")
  /\ \/ live = {} /\ Finish(p)        \* throws: the grant vanished
     \/ \E g \in live : \E last \in live :
          /\ \A h \in live : Elder(g, h)
          /\ \A h \in live : grant[h].exp <= grant[last].exp
          /\ proc' = [proc EXCEPT
               ![p].pc = IF live = {g} THEN "bind" ELSE "merge",
               ![p].grant = g, ![p].extras = live \ {g},
               ![p].scope = UNION {grant[h].scope : h \in live},
               ![p].exp = grant[last].exp]
  /\ UNCHANGED <<device, grant, token, active, now, consented>>

\* the result of this update is ignored
ConvergeMerge(p) ==
  /\ At(p, "merge")
  /\ UpdateGrant(proc[p].grant, proc[p].scope, proc[p].exp, proc[p].at)
  /\ GoTo(p, "retire")
  /\ UNCHANGED <<device, token, active, now, consented>>

ConvergeRetire(p) ==
  /\ At(p, "retire")
  /\ \E g \in proc[p].extras :
       /\ \A h \in proc[p].extras : Elder(g, h)
       /\ RevokeGrants({g}, proc[p].at)
       /\ proc' = [proc EXCEPT
            ![p].extras = proc[p].extras \ {g},
            ![p].pc = IF proc[p].extras = {g} THEN "bind" ELSE "retire"]
  /\ UNCHANGED <<device, token, active, now, consented>>

ApproveBind(p) ==
  /\ At(p, "bind")
  /\ device' = [d \in Devices |->
       IF d = proc[p].from /\ device[d].status # "deleted"
       THEN [device[d] EXCEPT !.grant = proc[p].grant]
       ELSE device[d]]
  /\ Finish(p)
  /\ UNCHANGED <<grant, token, active, now, consented>>

Deny(account, d) ==
  /\ "deny" \in Env
  /\ device[d] # None
  /\ device[d].status = "pending"
  /\ device' = [device EXCEPT ![d].status = "denied", ![d].account = account]
  /\ UNCHANGED <<grant, token, proc, active, now, consented>>

-----------------------------------------------------------------------------
(* The account console.                                                    *)

RevokeGrant(account, g) ==
  /\ "revoke" \in Env
  /\ grant[g] # None
  /\ grant[g].account = account
  /\ ~grant[g].revoked
  /\ RevokeGrants({g}, now)
  /\ UNCHANGED <<device, token, proc, active, now, consented>>

RevokeAllGrants(account) ==
  /\ "revoke" \in Env
  /\ RevokeGrants({g \in Grants : grant[g] # None /\ grant[g].account = account},
                  now)
  /\ UNCHANGED <<device, token, proc, active, now, consented>>

-----------------------------------------------------------------------------
(* The environment.                                                        *)

\* the process dies, or a database call throws, between two steps; the request
\* does not come back
Crash(p) ==
  /\ "crash" \in Env
  /\ proc[p].pc \notin {"idle", "dead"}
  /\ proc' = [proc EXCEPT ![p] = [Idle EXCEPT !.pc = "dead"]]
  /\ UNCHANGED <<device, grant, token, active, now, consented>>

SetActive(account) ==
  /\ "disable" \in Env
  /\ active' = IF account \in active THEN active \ {account}
               ELSE active \cup {account}
  /\ UNCHANGED <<device, grant, token, proc, now, consented>>

Tick ==
  /\ now < MaxTime
  /\ now' = now + 1
  /\ UNCHANGED <<device, grant, token, proc, active, consented>>

Handler(p) ==
  \/ ExchangeConsume(p)
  \/ RefreshSpend(p)
  \/ RefreshReuse(p)
  \/ \E t \in Tokens : Issue(p, t)
  \/ ApproveClaim(p)
  \/ ApproveLookup(p)
  \/ ApproveExtend(p)
  \/ \E g \in Grants : ApproveInsert(p, g)
  \/ ConvergeRead(p)
  \/ ConvergeMerge(p)
  \/ ConvergeRetire(p)
  \/ ApproveBind(p)

Next ==
  \/ \E agent \in Agents, d \in Devices :
       \E requested \in SUBSET Scopes : RequestDevice(agent, d, requested)
  \/ \E p \in Procs, agent \in Agents :
       \/ \E d \in Devices : ExchangeBegin(p, agent, d)
       \/ \E t \in Tokens : RefreshBegin(p, agent, t)
  \/ \E p \in Procs, account \in Accounts, d \in Devices :
       \E chosen \in SUBSET Scopes : ApproveBegin(p, account, d, chosen)
  \/ \E p \in Procs : Handler(p)
  \/ \E account \in Accounts, d \in Devices : Deny(account, d)
  \/ \E account \in Accounts, g \in Grants : RevokeGrant(account, g)
  \/ \E account \in Accounts : RevokeAllGrants(account)
  \/ \E p \in Procs : Crash(p)
  \/ \E account \in Accounts : SetActive(account)
  \/ Tick

Spec == Init /\ [][Next]_vars

-----------------------------------------------------------------------------
(* Properties.                                                             *)

\* A device code or refresh token is exchanged for a pair at most once,
\* whichever requests present it at the same time (RFC 8628, RFC 9700 4.14;
\* transitionDevice and useRefreshToken).
SingleUse ==
  \A t, u \in Tokens :
    (token[t] # None /\ token[u] # None /\ token[t].from = token[u].from)
      => t = u

\* Neither a grant nor a token carries a scope that its account did not approve
\* for its agent, although an approval may be partial, be added to a grant read
\* several awaits before, or be merged with another of the same agent.
ScopesConsented ==
  /\ \A g \in Grants : grant[g] # None =>
       \A s \in grant[g].scope :
         <<grant[g].account, grant[g].agent, s>> \in consented
  /\ \A t \in Tokens : token[t] # None =>
       \A s \in token[t].scope :
         <<grant[token[t].grant].account, token[t].holder, s>> \in consented

\* A pair is held by the agent its grant names, whoever presented the code or
\* the refresh token; a code leads to a grant of the account that approved it,
\* and a refresh token to the grant it was issued under.
RightHolder ==
  \A t \in Tokens : token[t] # None =>
    LET src == token[t].from
        g   == token[t].grant IN
    /\ grant[g] # None
    /\ token[t].holder = grant[g].agent
    /\ src \in Devices => /\ device[src].status \in {"consumed", "deleted"}
                           /\ device[src].agent = token[t].holder
                           /\ device[src].account = grant[g].account
    /\ src \in Tokens => token[src] # None /\ token[src].used
                           /\ token[src].grant = g

\* The answer given to a code is final: of an approval and a denial, or of two
\* approvals, that race for it only one takes effect (transitionDevice).
DecisionIsFinal ==
  [][\A d \in Devices :
       (device[d] # None /\ device[d].account # None) =>
         /\ device'[d].account = device[d].account
         /\ device[d].status = "denied" => device'[d].status # "approved"
         /\ device[d].status = "approved" => device'[d].status # "denied"]_vars

SameTriple(g, h) ==
  grant[g].account = grant[h].account /\ grant[g].agent = grant[h].agent

\* an approval of this account for this agent that bound no grant to its code:
\* it is in flight, or it died
Unbound(d, account, agent) ==
  /\ device[d] # None
  /\ device[d].account = account
  /\ device[d].agent = agent
  /\ device[d].status # "denied"
  /\ device[d].grant = None

\* One grant per account and agent: two live ones exist only while an approval is
\* still converging, or because it died before it had (grants that do not expire).
OneLiveGrant ==
  \A g, h \in Grants :
    (g # h /\ Alive(g, now) /\ Alive(h, now) /\ SameTriple(g, h))
      => \E d \in Devices : Unbound(d, grant[g].account, grant[g].agent)

\* A request that presents a refresh token spent before, also when it loses the
\* race for it, ends with the whole grant revoked unless it dies, and a grant
\* revoked for whatever reason never comes back (reuse detection of refresh, RFC
\* 9700 4.14; the conditional update of updateGrant).
ReuseRevokes ==
  [][/\ \A p \in Procs :
          (proc[p].pc \in {"spend", "reuse"} /\ proc'[p].pc = "idle")
            => grant'[proc[p].grant].revoked
     /\ \A g \in Grants :
          (grant[g] # None /\ grant[g].revoked) => grant'[g].revoked]_vars

\* "two concurrent calls converge to the same grant" (comment of #converge): a
\* code that was approved and bound is never bound to a grant that another
\* approval retired.  Stated for runs where only convergence revokes.
ApprovalsConverge ==
  \A d \in Devices :
    (device[d] # None /\ device[d].status = "approved" /\ device[d].grant # None)
      => ~grant[device[d].grant].revoked
=============================================================================
