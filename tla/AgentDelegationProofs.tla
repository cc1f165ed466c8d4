------------------------ MODULE AgentDelegationProofs ------------------------
(***************************************************************************)
(* TLAPS proofs about AgentDelegation, for every value of its constants:   *)
(* type correctness, SingleUse, RightHolder, ScopesConsented,              *)
(* DecisionIsFinal, ReuseRevokes and, for grants that outlast the clock,   *)
(* OneLiveGrant.                                                           *)
(*                                                                         *)
(* None of them is inductive alone: what a token may carry depends on      *)
(* what a request in flight holds in its local variables.  IInv adds what  *)
(* each handler knows at each of its steps.  Persists says what no step    *)
(* ever undoes; with it, a step has to be examined only for the rows and   *)
(* the request it changes.  Converging adds, for OneLiveGrant, who will    *)
(* see or has listed one of any two live grants of a triple.               *)
(***************************************************************************)
EXTENDS AgentDelegation, TLAPS

Spent == {"consumed", "deleted"}

Consented(account, agent, S) == \A s \in S : <<account, agent, s>> \in consented

\* grant g exists and belongs to this account and agent
Belongs(g, account, agent) ==
  /\ g \in Grants
  /\ grant[g] # None
  /\ grant[g].account = account
  /\ grant[g].agent = agent

\* the source of a pair, or of a pair about to be issued, is spent
SourceSpent(src, g, agent) ==
  /\ src \in Devices \cup Tokens
  /\ src \in Devices => /\ device[src] # None
                        /\ device[src].status \in Spent
                        /\ device[src].agent = agent
                        /\ device[src].account = grant[g].account
  /\ src \in Tokens => token[src] # None /\ token[src].used
                        /\ token[src].grant = g

\* what a handler with local variables l knows before its next step
Redeeming(l) ==
  /\ l.agent \in Agents
  /\ l.grant \in Grants
  /\ grant[l.grant] # None
  /\ grant[l.grant].agent = l.agent
  /\ Consented(grant[l.grant].account, l.agent, l.scope)

Consuming(l) ==
  /\ l.from \in Devices
  /\ device[l.from] # None
  /\ device[l.from].status # "pending"
  /\ device[l.from].agent = l.agent
  /\ device[l.from].account = grant[l.grant].account

Spending(l) ==
  /\ l.from \in Tokens
  /\ token[l.from] # None
  /\ token[l.from].grant = l.grant

Claiming(l) ==
  /\ l.from \in Devices
  /\ device[l.from] # None
  /\ device[l.from].agent = l.agent
  /\ l.agent \in Agents
  /\ l.account \in Accounts

Claimed(l) ==
  /\ device[l.from].status # "pending"
  /\ device[l.from].account = l.account
  /\ Consented(l.account, l.agent, l.asked)

Knows(l) ==
  /\ l.pc \in {"consume", "issue", "spend", "reuse"} => Redeeming(l)
  /\ l.pc = "consume" => Consuming(l)
  /\ l.pc \in {"spend", "reuse"} => Spending(l)
  /\ l.pc = "issue" => SourceSpent(l.from, l.grant, l.agent)
  /\ l.pc \in {"claim", "lookup", "extend", "insert", "converge", "merge",
               "retire", "bind"} => Claiming(l)
  /\ l.pc \in {"lookup", "extend", "insert", "converge", "merge", "retire",
               "bind"} => Claimed(l)
  /\ l.pc \in {"extend", "merge", "retire", "bind"}
       => Belongs(l.grant, l.account, l.agent)
  /\ l.pc \in {"extend", "merge"} => Consented(l.account, l.agent, l.scope)

\* what holds of each row of the tables
DeviceOK(d) ==
  /\ device[d].status = "pending" => device[d].account = None
  /\ device[d].grant # None =>
       /\ device[d].status # "pending"
       /\ Belongs(device[d].grant, device[d].account, device[d].agent)

GrantOK(g) == Consented(grant[g].account, grant[g].agent, grant[g].scope)

TokenOK(t) ==
  LET g == token[t].grant IN
  /\ Belongs(g, grant[g].account, token[t].holder)
  /\ SourceSpent(token[t].from, g, token[t].holder)
  /\ Consented(grant[g].account, token[t].holder, token[t].scope)

RowsInv ==
  /\ \A d \in Devices : device[d] # None => DeviceOK(d)
  /\ \A g \in Grants : grant[g] # None => GrantOK(g)
  /\ \A t \in Tokens : token[t] # None => TokenOK(t)

KnowsInv == \A p \in Procs : Knows(proc[p])

\* no two pairs, and no two requests about to issue one, have the same source
SourceUnique ==
  /\ SingleUse
  /\ \A p \in Procs, t \in Tokens :
       (At(p, "issue") /\ token[t] # None) => token[t].from # proc[p].from
  /\ \A p, q \in Procs :
       (p # q /\ At(p, "issue") /\ At(q, "issue")) => proc[p].from # proc[q].from

IInv ==
  /\ TypeOK
  /\ KnowsInv
  /\ RowsInv
  /\ SourceUnique

\* what no step undoes
DevicesPersist ==
  \A d \in Devices : device[d] # None =>
    /\ device'[d] # None
    /\ device'[d].agent = device[d].agent
    /\ device[d].account # None => device'[d].account = device[d].account
    /\ device[d].status # "pending" => device'[d].status # "pending"
    /\ device[d].status \in Spent => device'[d].status \in Spent
    /\ device[d].status = "denied" => device'[d].status \in {"denied", "deleted"}
    /\ device[d].status = "approved"
         => device'[d].status \in {"approved", "consumed", "deleted"}

\* a grant keeps its account and agent, and stays revoked if it was
SameGrant(g) ==
  /\ grant'[g] # None
  /\ grant'[g].account = grant[g].account
  /\ grant'[g].agent = grant[g].agent
  /\ grant[g].revoked => grant'[g].revoked

GrantsPersist ==
  \A g \in Grants : grant[g] # None => SameGrant(g)

TokensPersist ==
  \A t \in Tokens : token[t] # None =>
    /\ token'[t] # None
    /\ token'[t].grant = token[t].grant
    /\ token[t].used => token'[t].used

Persists ==
  DevicesPersist /\ GrantsPersist /\ TokensPersist /\ consented \subseteq consented'

-----------------------------------------------------------------------------
(* A row or a request that a step leaves alone stays right.                *)

\* A request keeps what it knew when the tables only advance (Persists).
LEMMA KnowsKept ==
  ASSUME TypeOK, TypeOK', Persists, NEW p \in Procs,
         Knows(proc[p]), proc'[p] = proc[p]
  PROVE  Knows(proc[p])'
<1> DEFINE l == proc[p]
<1>0. l \in Local
  BY DEF TypeOK
<1>1. Redeeming(l) => Redeeming(l)'
  BY DEF Redeeming, Consented, Persists, GrantsPersist, SameGrant
<1>2. Redeeming(l) /\ Consuming(l) => Consuming(l)'
  BY ConstantsAssumption, <1>0
  DEF Redeeming, Consuming, Persists, GrantsPersist, SameGrant, DevicesPersist, TypeOK,
      GrantRow
<1>3. Spending(l) => Spending(l)'
  BY DEF Spending, Persists, TokensPersist
<1>4. Redeeming(l) /\ SourceSpent(l.from, l.grant, l.agent)
        => SourceSpent(l.from, l.grant, l.agent)'
  BY ConstantsAssumption, <1>0
  DEF Redeeming, SourceSpent, Persists, GrantsPersist, SameGrant, DevicesPersist,
      TokensPersist, TypeOK, GrantRow
<1>5. Claiming(l) => Claiming(l)'
  BY DEF Claiming, Persists, DevicesPersist
<1>6. Claiming(l) /\ Claimed(l) => Claimed(l)'
  BY ConstantsAssumption
  DEF Claiming, Claimed, Consented, Persists, DevicesPersist
<1>7. Belongs(l.grant, l.account, l.agent)
        => Belongs(l.grant, l.account, l.agent)'
  BY DEF Belongs, Persists, GrantsPersist, SameGrant
<1>8. Consented(l.account, l.agent, l.scope)
        => Consented(l.account, l.agent, l.scope)'
  BY DEF Consented, Persists
<1> QED
  BY <1>1, <1>2, <1>3, <1>4, <1>5, <1>6, <1>7, <1>8 DEF Knows

\* A row of a device code that a step leaves alone stays right.
LEMMA DeviceKept ==
  ASSUME TypeOK, Persists, NEW d \in Devices,
         DeviceOK(d), device'[d] = device[d]
  PROVE  DeviceOK(d)'
BY DEF DeviceOK, Belongs, Persists, GrantsPersist, SameGrant

\* A grant that a step leaves alone stays right.
LEMMA GrantKept ==
  ASSUME Persists, NEW g \in Grants, GrantOK(g),
         grant'[g].account = grant[g].account,
         grant'[g].agent = grant[g].agent, grant'[g].scope = grant[g].scope
  PROVE  GrantOK(g)'
BY DEF GrantOK, Consented, Persists

\* A token pair that a step leaves alone stays right.
LEMMA TokenKept ==
  ASSUME TypeOK, Persists, NEW t \in Tokens, token[t] # None, TokenOK(t),
         token'[t].grant = token[t].grant, token'[t].scope = token[t].scope,
         token'[t].from = token[t].from, token'[t].holder = token[t].holder
  PROVE  TokenOK(t)'
<1> DEFINE g == token[t].grant
<1>1. Belongs(g, grant[g].account, token[t].holder)'
  BY DEF TokenOK, Belongs, Persists, GrantsPersist, SameGrant
<1>2. grant'[g].account = grant[g].account /\ grant[g].account # None
  BY ConstantsAssumption
  DEF TokenOK, Belongs, Persists, GrantsPersist, SameGrant, TypeOK, GrantRow
<1>3. SourceSpent(token[t].from, g, token[t].holder)'
  BY <1>2 DEF TokenOK, SourceSpent, Persists, DevicesPersist, TokensPersist
<1>4. Consented(grant[g].account, token[t].holder, token[t].scope)'
  BY <1>2 DEF TokenOK, Consented, Persists
<1> QED
  BY <1>1, <1>3, <1>4 DEF TokenOK

-----------------------------------------------------------------------------
(* Steps that only move the request p: the tables stay as they are.        *)

\* A step that only changes the local variables of p keeps the invariant.
LEMMA LocalStep ==
  ASSUME IInv, NEW p \in Procs, NEW l \in Local, proc' = [proc EXCEPT ![p] = l],
         UNCHANGED <<device, grant, token, active, now, consented>>,
         Knows(l), l.pc # "issue"
  PROVE  IInv' /\ Persists
<1>1. TypeOK'
  BY DEF IInv, TypeOK
<1>2. Persists
  BY DEF Persists, DevicesPersist, GrantsPersist, SameGrant, TokensPersist
<1>3. KnowsInv'
  <2> SUFFICES ASSUME NEW q \in Procs PROVE Knows(proc[q])'
    BY DEF KnowsInv
  <2>1. CASE q = p
    <3>1. proc'[q] = l
      BY <2>1 DEF IInv, TypeOK
    <3>2. Knows(l)'
      BY DEF Knows, Redeeming, Consuming, Spending, SourceSpent, Claiming,
             Claimed, Belongs, Consented
    <3> QED
      BY <3>1, <3>2
      DEF Knows, Redeeming, Consuming, Spending, SourceSpent, Claiming,
          Claimed, Belongs, Consented
  <2>2. CASE q # p
    BY <1>1, <1>2, <2>2, KnowsKept DEF IInv, KnowsInv, TypeOK
  <2> QED
    BY <2>1, <2>2
<1>4. RowsInv'
  BY DEF IInv, RowsInv, DeviceOK, GrantOK, TokenOK, Belongs, Consented,
         SourceSpent
<1>5. SourceUnique'
  <2>1. \A q \in Procs : At(q, "issue")' => q # p /\ At(q, "issue")
                                           /\ proc'[q] = proc[q]
    BY DEF IInv, TypeOK, At
  <2> QED
    BY <2>1 DEF IInv, SourceUnique, SingleUse
<1> QED
  BY <1>1, <1>2, <1>3, <1>4, <1>5 DEF IInv

\* A handler that returns or throws without writing keeps the invariant.
LEMMA FinishStep ==
  ASSUME IInv, NEW p \in Procs, Finish(p),
         UNCHANGED <<device, grant, token, active, now, consented>>
  PROVE  IInv' /\ Persists
<1>0. 0 \in Instant /\ 0 \in Time
  BY ConstantsAssumption DEF Instant, Time
<1>1. Idle \in Local
  BY <1>0 DEF Idle, Local, Steps
<1>2. Knows(Idle)
  BY DEF Idle, Knows
<1> QED
  BY <1>1, <1>2, LocalStep DEF Finish, Idle

\* A request that dies between two steps knows nothing and writes nothing.
LEMMA CrashStep ==
  ASSUME IInv, NEW p \in Procs, Crash(p)
  PROVE  IInv' /\ Persists
<1>0. 0 \in Instant /\ 0 \in Time
  BY ConstantsAssumption DEF Instant, Time
<1>1. PICK l : l = [Idle EXCEPT !.pc = "dead"]
  OBVIOUS
<1>2. l \in Local /\ l.pc = "dead"
  BY <1>0, <1>1 DEF Idle, Local, Steps
<1>3. Knows(l)
  BY <1>2 DEF Knows
<1> QED
  BY <1>1, <1>2, <1>3, LocalStep DEF Crash

\* exchangeDeviceCode up to its conditional update keeps the invariant.
LEMMA ExchangeBeginStep ==
  ASSUME IInv, NEW p \in Procs, NEW agent \in Agents, NEW d \in Devices,
         ExchangeBegin(p, agent, d)
  PROVE  IInv' /\ Persists
<1> DEFINE g == device[d].grant
<1>1. /\ g \in Grants /\ grant[g] # None /\ grant[g] \in GrantRow
      /\ DeviceOK(d) /\ GrantOK(g) /\ now \in Instant
  BY DEF ExchangeBegin, IInv, TypeOK, RowsInv, DeviceOK, Belongs
<1>2. PICK l : l = [Idle EXCEPT !.pc = "consume", !.from = d, !.agent = agent,
                      !.grant = g, !.scope = grant[g].scope,
                      !.exp = grant[g].exp, !.at = now]
  OBVIOUS
<1>3. l \in Local
  BY <1>1, <1>2 DEF Idle, Local, Steps, GrantRow
<1>4. Redeeming(l) /\ Consuming(l)
  BY <1>1, <1>2
  DEF ExchangeBegin, Usable, Redeeming, Consuming, DeviceOK, GrantOK, Belongs,
      Idle
<1>5. Knows(l) /\ l.pc # "issue"
  BY <1>2, <1>4 DEF Knows, Idle
<1> QED
  BY <1>2, <1>3, <1>5, LocalStep DEF ExchangeBegin

\* refresh up to its conditional update keeps the invariant.
LEMMA RefreshBeginStep ==
  ASSUME IInv, NEW p \in Procs, NEW agent \in Agents, NEW t \in Tokens,
         RefreshBegin(p, agent, t)
  PROVE  IInv' /\ Persists
<1> DEFINE g == token[t].grant
<1>1. /\ g \in Grants /\ grant[g] # None /\ grant[g] \in GrantRow
      /\ GrantOK(g) /\ now \in Instant
  BY DEF RefreshBegin, IInv, TypeOK, RowsInv, TokenOK, Belongs
<1>2. PICK l : l = [Idle EXCEPT
                      !.pc = IF token[t].used THEN "reuse" ELSE "spend",
                      !.from = t, !.agent = agent, !.grant = g,
                      !.scope = grant[g].scope, !.exp = grant[g].exp, !.at = now]
  OBVIOUS
<1>3. l \in Local /\ l.pc \in {"reuse", "spend"}
  BY <1>1, <1>2 DEF Idle, Local, Steps, GrantRow
<1>4. Redeeming(l) /\ Spending(l)
  BY <1>1, <1>2
  DEF RefreshBegin, Usable, Redeeming, Spending, GrantOK, Idle
<1>5. Knows(l) /\ l.pc # "issue"
  BY <1>3, <1>4 DEF Knows
<1> QED
  BY <1>2, <1>3, <1>5, LocalStep DEF RefreshBegin

\* approve up to its claim of the code keeps the invariant.
LEMMA ApproveBeginStep ==
  ASSUME IInv, NEW p \in Procs, NEW account \in Accounts, NEW d \in Devices,
         NEW chosen \in SUBSET Scopes, ApproveBegin(p, account, d, chosen)
  PROVE  IInv' /\ Persists
<1>1. device[d] \in DeviceRow /\ now \in Instant /\ 0 \in Time
  BY ConstantsAssumption DEF ApproveBegin, IInv, TypeOK, Time
<1>2. PICK l : l = [Idle EXCEPT !.pc = "claim", !.from = d,
                      !.agent = device[d].agent, !.account = account,
                      !.at = now, !.asked = device[d].requested \cap chosen]
  OBVIOUS
<1>3. l \in Local
  BY <1>1, <1>2 DEF Idle, Local, Steps, DeviceRow
<1>4. Claiming(l)
  BY <1>1, <1>2 DEF ApproveBegin, Claiming, DeviceRow, Idle
<1>5. Knows(l) /\ l.pc # "issue"
  BY <1>2, <1>4 DEF Knows, Idle
<1> QED
  BY <1>2, <1>3, <1>5, LocalStep DEF ApproveBegin

\* The lookup of a grant to extend keeps the invariant: what is read was consented.
LEMMA ApproveLookupStep ==
  ASSUME IInv, NEW p \in Procs, ApproveLookup(p)
  PROVE  IInv' /\ Persists
<1>0. /\ proc[p] \in Local /\ At(p, "lookup") /\ Knows(proc[p])
      /\ Claiming(proc[p]) /\ Claimed(proc[p])
  BY DEF IInv, TypeOK, KnowsInv, Knows, ApproveLookup, At
<1>1. CASE GoTo(p, "insert")
  <2>1. PICK l : l = [proc[p] EXCEPT !.pc = "insert"]
    OBVIOUS
  <2>2. l \in Local /\ proc' = [proc EXCEPT ![p] = l] /\ l.pc # "issue"
    BY <1>0, <1>1, <2>1 DEF IInv, TypeOK, GoTo, Local, Steps
  <2>3. Knows(l)
    BY <1>0, <2>1 DEF Knows, Local, Claiming, Claimed
  <2> QED
    BY <2>2, <2>3, LocalStep DEF ApproveLookup
<1>2. CASE ~GoTo(p, "insert")
  <2>1. PICK g \in LiveGrantsFor(proc[p].account, proc[p].agent, proc[p].at) :
          proc' = [proc EXCEPT ![p].pc = "extend", ![p].grant = g,
                     ![p].scope = grant[g].scope \cup proc[p].asked,
                     ![p].exp = proc[p].at + GrantTtl]
    BY <1>2 DEF ApproveLookup
  <2>2. PICK l : l = [proc[p] EXCEPT !.pc = "extend", !.grant = g,
                        !.scope = grant[g].scope \cup proc[p].asked,
                        !.exp = proc[p].at + GrantTtl]
    OBVIOUS
  <2>3. /\ Belongs(g, proc[p].account, proc[p].agent)
        /\ grant[g] \in GrantRow /\ GrantOK(g)
    BY <2>1 DEF LiveGrantsFor, Alive, Belongs, IInv, TypeOK, RowsInv
  <2>4. proc[p].at + GrantTtl \in Time
    BY <1>0, ConstantsAssumption DEF Local, Time, Instant
  <2>5. l \in Local /\ proc' = [proc EXCEPT ![p] = l] /\ l.pc = "extend"
    BY <1>0, <2>1, <2>2, <2>3, <2>4
    DEF IInv, TypeOK, Local, Steps, GrantRow, Belongs
  <2>6. /\ l.from = proc[p].from /\ l.agent = proc[p].agent
        /\ l.account = proc[p].account /\ l.asked = proc[p].asked
        /\ l.grant = g /\ l.scope = grant[g].scope \cup proc[p].asked
    BY <1>0, <2>2 DEF Local
  <2>7. Claiming(l) /\ Claimed(l) /\ Belongs(l.grant, l.account, l.agent)
    BY <1>0, <2>3, <2>6 DEF Claiming, Claimed
  <2>8. Consented(l.account, l.agent, l.scope)
    BY <1>0, <2>3, <2>6 DEF Claimed, Consented, GrantOK, Belongs
  <2>9. Knows(l)
    BY <2>5, <2>7, <2>8 DEF Knows
  <2> QED
    BY <2>5, <2>9, LocalStep DEF ApproveLookup
<1> QED
  BY <1>1, <1>2

\* The election in #converge keeps the invariant: the union read was consented.
LEMMA ConvergeReadStep ==
  ASSUME IInv, NEW p \in Procs, ConvergeRead(p)
  PROVE  IInv' /\ Persists
<1> DEFINE live == LiveGrantsFor(proc[p].account, proc[p].agent, proc[p].at)
<1>0. /\ proc[p] \in Local /\ Knows(proc[p])
      /\ Claiming(proc[p]) /\ Claimed(proc[p])
  BY DEF IInv, TypeOK, KnowsInv, Knows, ConvergeRead, At
<1>1. CASE Finish(p)
  BY <1>1, FinishStep DEF ConvergeRead
<1>2. CASE ~Finish(p)
  <2>1. PICK g \in live, last \in live :
          proc' = [proc EXCEPT
                     ![p].pc = IF live = {g} THEN "bind" ELSE "merge",
                     ![p].grant = g, ![p].extras = live \ {g},
                     ![p].scope = UNION {grant[h].scope : h \in live},
                     ![p].exp = grant[last].exp]
    BY <1>2 DEF ConvergeRead
  <2>2. PICK l : l = [proc[p] EXCEPT
                        !.pc = IF live = {g} THEN "bind" ELSE "merge",
                        !.grant = g, !.extras = live \ {g},
                        !.scope = UNION {grant[h].scope : h \in live},
                        !.exp = grant[last].exp]
    OBVIOUS
  <2>3. \A h \in live : /\ Belongs(h, proc[p].account, proc[p].agent)
                        /\ grant[h] \in GrantRow /\ GrantOK(h)
    BY DEF LiveGrantsFor, Alive, Belongs, IInv, TypeOK, RowsInv
  <2>4. /\ UNION {grant[h].scope : h \in live} \in SUBSET Scopes
        /\ live \ {g} \in SUBSET Grants
        /\ grant[last].exp \in Time
    BY <2>3 DEF GrantRow, Belongs
  <2>5. l \in Local /\ l.pc \in {"bind", "merge"}
    <3>1. l.pc \in {"bind", "merge"}
      BY <1>0, <2>2 DEF Local
    <3>2. l \in Local
      BY <1>0, <2>2, <2>3, <2>4 DEF Local, Steps, Belongs
    <3> QED
      BY <3>1, <3>2
  <2>6. proc' = [proc EXCEPT ![p] = l]
    BY <2>1, <2>2 DEF IInv, TypeOK
  <2>7. /\ l.from = proc[p].from /\ l.agent = proc[p].agent
        /\ l.account = proc[p].account /\ l.asked = proc[p].asked
        /\ l.grant = g /\ l.scope = UNION {grant[h].scope : h \in live}
    BY <1>0, <2>2 DEF Local
  <2>8. Claiming(l) /\ Claimed(l) /\ Belongs(l.grant, l.account, l.agent)
    BY <1>0, <2>3, <2>7 DEF Claiming, Claimed
  <2>9. Consented(l.account, l.agent, l.scope)
    BY <2>3, <2>7 DEF Consented, GrantOK, Belongs
  <2>10. Knows(l)
    BY <2>5, <2>8, <2>9 DEF Knows
  <2> QED
    BY <2>5, <2>6, <2>10, LocalStep DEF ConvergeRead
<1> QED
  BY <1>1, <1>2

-----------------------------------------------------------------------------
(* Steps that change the tables.                                           *)

\* enough that the rows and the request a step changes are right
LEMMA Assemble ==
  ASSUME IInv, TypeOK', Persists, SourceUnique', NEW p \in Procs,
         \A q \in Procs : q # p => proc'[q] = proc[q],
         Knows(proc[p])',
         \A d \in Devices : device'[d] # None =>
           (device[d] # None /\ device'[d] = device[d]) \/ DeviceOK(d)',
         \A g \in Grants : grant'[g] # None =>
           (grant[g] # None /\ grant'[g].scope = grant[g].scope) \/ GrantOK(g)',
         \A t \in Tokens : token'[t] # None =>
           \/ /\ token[t] # None /\ token'[t].scope = token[t].scope
              /\ token'[t].from = token[t].from
              /\ token'[t].holder = token[t].holder
           \/ TokenOK(t)'
  PROVE  IInv' /\ Persists
<1>1. KnowsInv'
  BY KnowsKept DEF KnowsInv, IInv
<1>2. ASSUME NEW d \in Devices, device'[d] # None PROVE DeviceOK(d)'
  BY <1>2, DeviceKept DEF IInv, RowsInv
<1>3. ASSUME NEW g \in Grants, grant'[g] # None PROVE GrantOK(g)'
  BY <1>3, GrantKept DEF IInv, RowsInv, Persists, GrantsPersist, SameGrant
<1>4. ASSUME NEW t \in Tokens, token'[t] # None PROVE TokenOK(t)'
  BY <1>4, TokenKept DEF IInv, RowsInv, Persists, TokensPersist
<1>5. RowsInv'
  BY <1>2, <1>3, <1>4 DEF RowsInv
<1> QED
  BY <1>1, <1>5 DEF IInv

\* a request that is not about to issue a pair leaves the sources unique
LEMMA UniqueKept ==
  ASSUME IInv, NEW p \in Procs,
         \A q \in Procs : q # p => proc'[q] = proc[q],
         proc'[p].pc # "issue",
         \A t \in Tokens : token'[t] # None =>
           token[t] # None /\ token'[t].from = token[t].from
  PROVE  SourceUnique'
BY DEF IInv, SourceUnique, SingleUse, At

\* a step that changes only scopes and dates of grants, and revokes some
LEMMA GrantsStep ==
  ASSUME IInv, TypeOK', NEW p \in Procs,
         UNCHANGED <<device, token, consented>>,
         \A q \in Procs : q # p => proc'[q] = proc[q],
         proc'[p].pc # "issue", Knows(proc[p])',
         \A g \in Grants :
           IF grant[g] = None THEN grant'[g] = None
           ELSE /\ SameGrant(g)
                /\ \/ grant'[g].scope = grant[g].scope
                   \/ Consented(grant[g].account, grant[g].agent, grant'[g].scope)
  PROVE  IInv' /\ Persists
<1>1. Persists
  BY DEF Persists, DevicesPersist, GrantsPersist, SameGrant, TokensPersist
<1>2. SourceUnique'
  BY UniqueKept
<1>3. \A g \in Grants : grant'[g] # None =>
        (grant[g] # None /\ grant'[g].scope = grant[g].scope) \/ GrantOK(g)'
  BY DEF GrantOK, Consented, SameGrant
<1> QED
  BY <1>1, <1>2, <1>3, Assemble

\* what UpdateGrant and RevokeGrants do to the table
LEMMA UpdateGrantTable ==
  ASSUME TypeOK, NEW g \in Grants, grant[g] # None,
         NEW scope \in SUBSET Scopes, NEW exp \in Time, NEW at \in Instant,
         UpdateGrant(g, scope, exp, at)
  PROVE  /\ grant' \in [Grants -> GrantRow \cup {None}]
         /\ \A h \in Grants :
              IF grant[h] = None THEN grant'[h] = None
              ELSE /\ SameGrant(h)
                   /\ \/ grant'[h].scope = grant[h].scope
                      \/ h = g /\ grant'[h].scope = scope
<1>1. CASE grant[g].revoked
  BY <1>1, NoneAssumption DEF UpdateGrant, TypeOK, SameGrant
<1>2. CASE ~grant[g].revoked
  <2>1. grant[g] \in GrantRow
    BY DEF TypeOK
  <2> DEFINE row == [grant[g] EXCEPT !.scope = scope, !.exp = exp,
                                     !.updated = at]
  <2>2. row \in GrantRow /\ row.account = grant[g].account
          /\ row.agent = grant[g].agent /\ row.scope = scope
    BY <2>1 DEF GrantRow
  <2>3. grant' = [grant EXCEPT ![g] = row]
    BY <1>2 DEF UpdateGrant, TypeOK
  <2> QED
    BY <1>2, <2>2, <2>3, NoneAssumption DEF TypeOK, SameGrant
<1> QED
  BY <1>1, <1>2

\* what RevokeGrants does to the table
LEMMA RevokeGrantsTable ==
  ASSUME TypeOK, NEW S \in SUBSET Grants, NEW at \in Instant,
         RevokeGrants(S, at)
  PROVE  /\ grant' \in [Grants -> GrantRow \cup {None}]
         /\ \A h \in Grants :
              IF grant[h] = None THEN grant'[h] = None
              ELSE /\ SameGrant(h)
                   /\ grant'[h].scope = grant[h].scope
<1> SUFFICES ASSUME NEW h \in Grants
             PROVE  /\ grant'[h] \in GrantRow \cup {None}
                    /\ IF grant[h] = None THEN grant'[h] = None
                       ELSE /\ SameGrant(h)
                            /\ grant'[h].scope = grant[h].scope
  BY DEF RevokeGrants
<1>1. CASE h \in S /\ grant[h] # None /\ ~grant[h].revoked
  <2>1. grant[h] \in GrantRow
    BY <1>1 DEF TypeOK
  <2>2. grant'[h] = [grant[h] EXCEPT !.revoked = TRUE, !.updated = at]
    BY <1>1 DEF RevokeGrants
  <2> QED
    BY <1>1, <2>1, <2>2, NoneAssumption DEF GrantRow, SameGrant
<1>2. CASE ~(h \in S /\ grant[h] # None /\ ~grant[h].revoked)
  BY <1>2 DEF RevokeGrants, TypeOK, SameGrant
<1> QED
  BY <1>1, <1>2

\* a request that follows GoTo or Finish keeps what it knew, where still needed
LEMMA GoToLocal ==
  ASSUME TypeOK, NEW p \in Procs, NEW pc \in Steps, GoTo(p, pc)
  PROVE  /\ proc' \in [Procs -> Local]
         /\ \A q \in Procs : q # p => proc'[q] = proc[q]
         /\ proc'[p] = [proc[p] EXCEPT !.pc = pc]
         /\ proc'[p].pc = pc
         /\ proc'[p].from = proc[p].from /\ proc'[p].agent = proc[p].agent
         /\ proc'[p].account = proc[p].account
         /\ proc'[p].asked = proc[p].asked
         /\ proc'[p].grant = proc[p].grant /\ proc'[p].scope = proc[p].scope
<1>1. proc[p] \in Local
  BY DEF TypeOK
<1>2. [proc[p] EXCEPT !.pc = pc] \in Local
  BY <1>1 DEF Local
<1>3. proc' = [proc EXCEPT ![p] = [proc[p] EXCEPT !.pc = pc]]
  BY DEF GoTo, TypeOK
<1> QED
  BY <1>1, <1>2, <1>3 DEF TypeOK, Local

\* a request that follows Finish knows nothing, and need not
LEMMA FinishLocal ==
  ASSUME TypeOK, NEW p \in Procs, Finish(p)
  PROVE  /\ proc' \in [Procs -> Local]
         /\ \A q \in Procs : q # p => proc'[q] = proc[q]
         /\ proc'[p] = Idle /\ proc'[p].pc = "idle"
         /\ Knows(proc[p])'
<1>0. 0 \in Instant /\ 0 \in Time
  BY ConstantsAssumption DEF Instant, Time
<1>1. Idle \in Local /\ Idle.pc = "idle"
  BY <1>0 DEF Idle, Local, Steps
<1>2. proc'[p] = Idle
  BY DEF Finish, TypeOK
<1> QED
  BY <1>1, <1>2 DEF Finish, TypeOK, Knows

\* Extending a live grant keeps the invariant.
LEMMA ApproveExtendStep ==
  ASSUME IInv, NEW p \in Procs, ApproveExtend(p)
  PROVE  IInv' /\ Persists
<1> DEFINE g == proc[p].grant
<1>1. /\ proc[p] \in Local /\ Belongs(g, proc[p].account, proc[p].agent)
      /\ Claiming(proc[p]) /\ Claimed(proc[p])
      /\ Consented(proc[p].account, proc[p].agent, proc[p].scope)
  BY DEF IInv, TypeOK, KnowsInv, Knows, ApproveExtend, At
<1>2. /\ grant' \in [Grants -> GrantRow \cup {None}]
      /\ \A h \in Grants :
           IF grant[h] = None THEN grant'[h] = None
           ELSE /\ SameGrant(h)
                /\ \/ grant'[h].scope = grant[h].scope
                   \/ h = g /\ grant'[h].scope = proc[p].scope
  <2>1. /\ g \in Grants /\ grant[g] # None /\ TypeOK
        /\ proc[p].scope \in SUBSET Scopes /\ proc[p].exp \in Time
        /\ proc[p].at \in Instant
        /\ UpdateGrant(g, proc[p].scope, proc[p].exp, proc[p].at)
    BY <1>1 DEF ApproveExtend, IInv, Local, Belongs
  <2> QED
    BY <2>1, UpdateGrantTable
<1>3. PICK pc \in {"insert", "bind"} : GoTo(p, pc)
  BY DEF ApproveExtend
<1>4. pc \in Steps /\ pc # "issue"
  BY <1>3 DEF Steps
<1>5. TypeOK'
  BY <1>3, <1>4, <1>2, GoToLocal DEF IInv, TypeOK, ApproveExtend
<1>6. Knows(proc[p])'
  <2>1. /\ proc'[p].pc = pc
        /\ proc'[p].from = proc[p].from /\ proc'[p].agent = proc[p].agent
        /\ proc'[p].account = proc[p].account
        /\ proc'[p].asked = proc[p].asked /\ proc'[p].grant = g
    BY <1>3, <1>4, GoToLocal DEF IInv
  <2>2. (Claiming(proc[p]) /\ Claimed(proc[p]))'
    BY <1>1, <2>1 DEF Claiming, Claimed, Consented, ApproveExtend
  <2>3. Belongs(proc[p].grant, proc[p].account, proc[p].agent)'
    BY <1>1, <1>2, <2>1 DEF Belongs, SameGrant
  <2> QED
    BY <1>3, <2>1, <2>2, <2>3 DEF Knows
<1>7. \A h \in Grants : grant[h] # None =>
        \/ grant'[h].scope = grant[h].scope
        \/ Consented(grant[h].account, grant[h].agent, grant'[h].scope)
  BY <1>1, <1>2 DEF Belongs
<1> QED
  BY <1>3, <1>4, <1>2, <1>5, <1>6, <1>7, GoToLocal, GrantsStep
  DEF ApproveExtend, IInv

\* Merging scopes into the survivor keeps the invariant.
LEMMA ConvergeMergeStep ==
  ASSUME IInv, NEW p \in Procs, ConvergeMerge(p)
  PROVE  IInv' /\ Persists
<1> DEFINE g == proc[p].grant
<1>1. /\ proc[p] \in Local /\ Belongs(g, proc[p].account, proc[p].agent)
      /\ Claiming(proc[p]) /\ Claimed(proc[p])
      /\ Consented(proc[p].account, proc[p].agent, proc[p].scope)
  BY DEF IInv, TypeOK, KnowsInv, Knows, ConvergeMerge, At
<1>2. GoTo(p, "retire") /\ "retire" \in Steps
  BY DEF ConvergeMerge, Steps
<1>4. /\ grant' \in [Grants -> GrantRow \cup {None}]
      /\ \A h \in Grants :
           IF grant[h] = None THEN grant'[h] = None
           ELSE /\ SameGrant(h)
                /\ \/ grant'[h].scope = grant[h].scope
                   \/ h = g /\ grant'[h].scope = proc[p].scope
  <2>1. /\ g \in Grants /\ grant[g] # None /\ TypeOK
        /\ proc[p].scope \in SUBSET Scopes /\ proc[p].exp \in Time
        /\ proc[p].at \in Instant
        /\ UpdateGrant(g, proc[p].scope, proc[p].exp, proc[p].at)
    BY <1>1 DEF ConvergeMerge, IInv, Local, Belongs
  <2> QED
    BY <2>1, UpdateGrantTable
<1>5. TypeOK'
  BY <1>2, <1>4, GoToLocal DEF IInv, TypeOK, ConvergeMerge
<1>6. Knows(proc[p])'
  <2>1. /\ proc'[p].pc = "retire"
        /\ proc'[p].from = proc[p].from /\ proc'[p].agent = proc[p].agent
        /\ proc'[p].account = proc[p].account
        /\ proc'[p].asked = proc[p].asked /\ proc'[p].grant = g
    BY <1>2, GoToLocal DEF IInv
  <2>2. (Claiming(proc[p]) /\ Claimed(proc[p]))'
    BY <1>1, <2>1 DEF Claiming, Claimed, Consented, ConvergeMerge
  <2>3. Belongs(proc[p].grant, proc[p].account, proc[p].agent)'
    BY <1>1, <1>4, <2>1 DEF Belongs, SameGrant
  <2> QED
    BY <2>1, <2>2, <2>3 DEF Knows
<1>7. \A h \in Grants : grant[h] # None =>
        \/ grant'[h].scope = grant[h].scope
        \/ Consented(grant[h].account, grant[h].agent, grant'[h].scope)
  BY <1>1, <1>4 DEF Belongs
<1> QED
  BY <1>2, <1>4, <1>5, <1>6, <1>7, GoToLocal, GrantsStep
  DEF ConvergeMerge, IInv

\* Retiring one of the other grants keeps the invariant.
LEMMA ConvergeRetireStep ==
  ASSUME IInv, NEW p \in Procs, ConvergeRetire(p)
  PROVE  IInv' /\ Persists
<1>1. /\ proc[p] \in Local
      /\ Belongs(proc[p].grant, proc[p].account, proc[p].agent)
      /\ Claiming(proc[p]) /\ Claimed(proc[p])
  BY DEF IInv, TypeOK, KnowsInv, Knows, ConvergeRetire, At
<1>2. PICK g \in proc[p].extras :
        /\ RevokeGrants({g}, proc[p].at)
        /\ proc' = [proc EXCEPT
             ![p].extras = proc[p].extras \ {g},
             ![p].pc = IF proc[p].extras = {g} THEN "bind" ELSE "retire"]
  BY DEF ConvergeRetire
<1>3. {g} \in SUBSET Grants /\ proc[p].at \in Instant
      /\ proc[p].extras \ {g} \in SUBSET Grants
  BY <1>1 DEF Local
<1>4. /\ grant' \in [Grants -> GrantRow \cup {None}]
      /\ \A h \in Grants :
           IF grant[h] = None THEN grant'[h] = None
           ELSE /\ SameGrant(h)
                /\ grant'[h].scope = grant[h].scope
  BY <1>2, <1>3, RevokeGrantsTable DEF IInv
<1>5. PICK l : l = [proc[p] EXCEPT
                 !.extras = proc[p].extras \ {g},
                 !.pc = IF proc[p].extras = {g} THEN "bind" ELSE "retire"]
  OBVIOUS
<1>6. /\ l \in Local /\ l.pc \in {"bind", "retire"}
      /\ l.from = proc[p].from /\ l.agent = proc[p].agent
      /\ l.account = proc[p].account /\ l.asked = proc[p].asked
      /\ l.grant = proc[p].grant
  BY <1>1, <1>3, <1>5 DEF Local, Steps
<1>7. proc' = [proc EXCEPT ![p] = l]
  BY <1>2, <1>5 DEF IInv, TypeOK
<1>8. TypeOK' /\ proc'[p] = l
  BY <1>4, <1>6, <1>7 DEF IInv, TypeOK, ConvergeRetire
<1>9. Knows(proc[p])'
  <2>1. Claiming(l)' /\ Claimed(l)'
    BY <1>1, <1>6 DEF Claiming, Claimed, Consented, ConvergeRetire
  <2>2. Belongs(l.grant, l.account, l.agent)'
    BY <1>1, <1>4, <1>6 DEF Belongs, SameGrant
  <2> QED
    BY <1>6, <1>8, <2>1, <2>2 DEF Knows, Claiming, Claimed, Belongs, Consented
<1>10. \A q \in Procs : q # p => proc'[q] = proc[q]
  BY <1>7 DEF IInv, TypeOK
<1> QED
  BY <1>4, <1>6, <1>8, <1>9, <1>10, GrantsStep DEF ConvergeRetire

\* Revoking the grant of a reused refresh token keeps the invariant.
LEMMA RefreshReuseStep ==
  ASSUME IInv, NEW p \in Procs, RefreshReuse(p)
  PROVE  IInv' /\ Persists
<1>1. {proc[p].grant} \in SUBSET Grants /\ proc[p].at \in Instant
  BY DEF IInv, TypeOK, KnowsInv, Knows, Redeeming, RefreshReuse, At, Local
<1>2. TypeOK /\ Finish(p) /\ RevokeGrants({proc[p].grant}, proc[p].at)
  BY DEF RefreshReuse, IInv
<1>3. TypeOK'
  BY <1>1, <1>2, FinishLocal, RevokeGrantsTable DEF TypeOK, RefreshReuse
<1> QED
  BY <1>1, <1>2, <1>3, FinishLocal, RevokeGrantsTable, GrantsStep
  DEF RefreshReuse

\* Inserting a new grant keeps the invariant.
LEMMA ApproveInsertStep ==
  ASSUME IInv, NEW p \in Procs, NEW g \in Grants, ApproveInsert(p, g)
  PROVE  IInv' /\ Persists
<1> DEFINE row ==
      [account |-> proc[p].account, agent |-> proc[p].agent,
       scope |-> proc[p].asked, exp |-> proc[p].at + GrantTtl,
       created |-> proc[p].at, updated |-> proc[p].at, revoked |-> FALSE]
<1>1. proc[p] \in Local /\ Claiming(proc[p]) /\ Claimed(proc[p])
  BY DEF IInv, TypeOK, KnowsInv, Knows, ApproveInsert, At
<1>2. proc[p].at + GrantTtl \in Time
  BY <1>1, ConstantsAssumption DEF Local, Time, Instant
<1>3. row \in GrantRow
  BY <1>1, <1>2 DEF GrantRow, Local, Claiming
<1>4. grant' = [grant EXCEPT ![g] = row] /\ grant[g] = None
  BY DEF ApproveInsert
<1>5. TypeOK /\ GoTo(p, "converge") /\ "converge" \in Steps
  BY DEF ApproveInsert, IInv, Steps
<1>6. TypeOK'
  BY <1>3, <1>4, <1>5, GoToLocal DEF TypeOK, ApproveInsert
<1>7. Persists
  BY <1>4, <1>5
  DEF Persists, DevicesPersist, GrantsPersist, SameGrant, TokensPersist, TypeOK,
      ApproveInsert
<1>8. Knows(proc[p])'
  BY <1>1, <1>5, GoToLocal
  DEF Knows, Claiming, Claimed, Consented, ApproveInsert
<1>9. SourceUnique'
  BY <1>5, GoToLocal, UniqueKept DEF ApproveInsert
<1>10. GrantOK(g)'
  BY <1>1, <1>4, <1>5 DEF GrantOK, Claimed, Consented, TypeOK, ApproveInsert
<1>11. \A h \in Grants : grant'[h] # None =>
         (grant[h] # None /\ grant'[h].scope = grant[h].scope) \/ GrantOK(h)'
  BY <1>4, <1>5, <1>10 DEF TypeOK
<1> QED
  BY <1>5, <1>6, <1>7, <1>8, <1>9, <1>11, GoToLocal, Assemble
  DEF ApproveInsert

\* the account console and the environment
LEMMA RevokeStep ==
  ASSUME IInv, NEW S \in SUBSET Grants, RevokeGrants(S, now),
         UNCHANGED <<device, token, proc, active, now, consented>>
  PROVE  IInv' /\ Persists
<1>1. TypeOK /\ now \in Instant
  BY DEF IInv, TypeOK
<1>2. /\ grant' \in [Grants -> GrantRow \cup {None}]
      /\ \A h \in Grants :
           IF grant[h] = None THEN grant'[h] = None
           ELSE /\ SameGrant(h)
                /\ grant'[h].scope = grant[h].scope
  BY <1>1, RevokeGrantsTable
<1>3. TypeOK'
  BY <1>1, <1>2 DEF TypeOK
<1>4. Persists
  BY <1>2 DEF Persists, DevicesPersist, GrantsPersist, SameGrant, TokensPersist
<1>5. KnowsInv'
  BY <1>1, <1>3, <1>4, KnowsKept DEF IInv, KnowsInv
<1>6. RowsInv'
  <2>1. \A d \in Devices : device'[d] # None => DeviceOK(d)'
    BY <1>1, <1>4, DeviceKept DEF IInv, RowsInv
  <2>2. \A g \in Grants : grant'[g] # None => GrantOK(g)'
    BY <1>2, <1>4, GrantKept DEF IInv, RowsInv, SameGrant
  <2>3. \A t \in Tokens : token'[t] # None => TokenOK(t)'
    BY <1>1, <1>4, TokenKept DEF IInv, RowsInv
  <2> QED
    BY <2>1, <2>2, <2>3 DEF RowsInv
<1>7. SourceUnique'
  BY DEF IInv, SourceUnique, SingleUse, At
<1> QED
  BY <1>3, <1>4, <1>5, <1>6, <1>7 DEF IInv

\* A crash, a tick and an account that is disabled keep the invariant.
LEMMA EnvironmentStep ==
  ASSUME IInv, UNCHANGED <<device, grant, token, proc, consented>>,
         active' \subseteq Accounts, now' \in Instant
  PROVE  IInv' /\ Persists
<1>1. TypeOK'
  BY DEF IInv, TypeOK
<1>2. KnowsInv'
  BY DEF IInv, KnowsInv, Knows, Redeeming, Consuming, Spending, SourceSpent,
         Claiming, Claimed, Belongs, Consented
<1>3. RowsInv'
  BY DEF IInv, RowsInv, DeviceOK, GrantOK, TokenOK, Belongs, Consented,
         SourceSpent
<1>4. SourceUnique'
  BY DEF IInv, SourceUnique, SingleUse, At
<1>5. Persists
  BY DEF Persists, DevicesPersist, GrantsPersist, SameGrant, TokensPersist
<1> QED
  BY <1>1, <1>2, <1>3, <1>4, <1>5 DEF IInv

-----------------------------------------------------------------------------
(* Steps that change device codes and tokens.                              *)

\* Handing out a device code, and deleting the expired ones, keeps the invariant.
LEMMA RequestDeviceStep ==
  ASSUME IInv, NEW agent \in Agents, NEW d \in Devices,
         NEW requested \in SUBSET Scopes, RequestDevice(agent, d, requested)
  PROVE  IInv' /\ Persists
<1> DEFINE row ==
      [status |-> "pending", agent |-> agent, requested |-> requested,
       exp |-> now + DeviceTtl, account |-> None, grant |-> None]
<1>1. now + DeviceTtl \in Time
  BY ConstantsAssumption DEF IInv, TypeOK, Time, Instant
<1>2. row \in DeviceRow
  BY <1>1 DEF DeviceRow
<1>3. \A e \in Devices :
        \/ e = d /\ device[e] = None /\ device'[e] = row
        \/ e # d /\ device'[e] = device[e]
        \/ /\ device[e] # None /\ device'[e] \in DeviceRow
           /\ device'[e] = [device[e] EXCEPT !.status = "deleted"]
           /\ device'[e].status = "deleted"
           /\ device'[e].agent = device[e].agent
           /\ device'[e].account = device[e].account
           /\ device'[e].grant = device[e].grant
  <2> SUFFICES ASSUME NEW e \in Devices, e # d,
                      device[e] # None, device[e].exp < now
               PROVE  /\ device'[e] \in DeviceRow
                      /\ device'[e] = [device[e] EXCEPT !.status = "deleted"]
                      /\ device'[e].status = "deleted"
                      /\ device'[e].agent = device[e].agent
                      /\ device'[e].account = device[e].account
                      /\ device'[e].grant = device[e].grant
    BY DEF RequestDevice
  <2>1. device'[e] = [device[e] EXCEPT !.status = "deleted"]
    BY DEF RequestDevice
  <2>2. device[e] \in DeviceRow
    BY DEF IInv, TypeOK
  <2> QED
    BY <2>1, <2>2 DEF DeviceRow
<1>4. TypeOK'
  <2>1. device' \in [Devices -> DeviceRow \cup {None}]
    BY <1>2, <1>3 DEF RequestDevice, IInv, TypeOK
  <2> QED
    BY <2>1 DEF RequestDevice, IInv, TypeOK
<1>5. Persists
  BY <1>3, NoneAssumption
  DEF Persists, DevicesPersist, GrantsPersist, SameGrant, TokensPersist, RequestDevice,
      Spent
<1>6. KnowsInv'
  BY <1>4, <1>5, KnowsKept DEF IInv, KnowsInv, RequestDevice
<1>7. RowsInv'
  <2>1. ASSUME NEW e \in Devices, device'[e] # None PROVE DeviceOK(e)'
    BY <1>3, <2>1
    DEF IInv, RowsInv, DeviceOK, Belongs, RequestDevice
  <2>2. \A g \in Grants : grant'[g] # None => GrantOK(g)'
    BY <1>5, GrantKept DEF IInv, RowsInv, RequestDevice
  <2>3. \A t \in Tokens : token'[t] # None => TokenOK(t)'
    BY <1>5, TokenKept DEF IInv, RowsInv, RequestDevice
  <2> QED
    BY <2>1, <2>2, <2>3 DEF RowsInv
<1>8. SourceUnique'
  BY DEF IInv, SourceUnique, SingleUse, At, RequestDevice
<1> QED
  BY <1>4, <1>5, <1>6, <1>7, <1>8 DEF IInv

\* a step that changes one device code and keeps it right
LEMMA DeviceStep ==
  ASSUME IInv, TypeOK', NEW d \in Devices, device[d] # None,
         NEW row \in DeviceRow, device' = [device EXCEPT ![d] = row],
         UNCHANGED <<grant, token>>, consented \subseteq consented',
         row.agent = device[d].agent,
         device[d].account # None => row.account = device[d].account,
         device[d].status # "pending" => row.status # "pending",
         device[d].status \in Spent => row.status \in Spent,
         device[d].status = "denied" => row.status \in {"denied", "deleted"},
         device[d].status = "approved"
           => row.status \in {"approved", "consumed", "deleted"},
         NEW p \in Procs, \A q \in Procs : q # p => proc'[q] = proc[q],
         DeviceOK(d)', Knows(proc[p])', SourceUnique'
  PROVE  IInv' /\ Persists
<1>1. Persists
  BY NoneAssumption
  DEF IInv, TypeOK, Persists, DevicesPersist, GrantsPersist, SameGrant, TokensPersist
<1>2. \A e \in Devices : device'[e] # None =>
        (device[e] # None /\ device'[e] = device[e]) \/ DeviceOK(e)'
  BY DEF IInv, TypeOK
<1> QED
  BY <1>1, <1>2, Assemble

\* The conditional approved -> consumed keeps the invariant: one request wins.
LEMMA ExchangeConsumeStep ==
  ASSUME IInv, NEW p \in Procs, ExchangeConsume(p)
  PROVE  IInv' /\ Persists
<1>1. /\ TypeOK /\ proc[p] \in Local /\ At(p, "consume")
      /\ Redeeming(proc[p]) /\ Consuming(proc[p])
  BY DEF IInv, TypeOK, KnowsInv, Knows, ExchangeConsume, At
<1>0. PICK d \in Devices : d = proc[p].from
  BY <1>1 DEF Consuming
<1>2. CASE device[d].status = "approved"
  <2> DEFINE row == [device[d] EXCEPT !.status = "consumed"]
  <2>1. /\ d \in Devices /\ device[d] # None /\ device[d] \in DeviceRow
        /\ device[d].agent = proc[p].agent
        /\ device[d].account = grant[proc[p].grant].account
    BY <1>0, <1>1 DEF Consuming, TypeOK
  <2>2. /\ row \in DeviceRow /\ row.status = "consumed"
        /\ row.agent = device[d].agent /\ row.account = device[d].account
        /\ row.grant = device[d].grant
    BY <1>0, <2>1 DEF DeviceRow
  <2>3. /\ device' = [device EXCEPT ![d] = row] /\ GoTo(p, "issue")
        /\ "issue" \in Steps /\ UNCHANGED <<grant, token, consented, active, now>>
    BY <1>0, <1>2 DEF ExchangeConsume, Steps
  <2>4. TypeOK' /\ device'[d] = row
    BY <1>0, <1>1, <2>1, <2>2, <2>3, GoToLocal DEF TypeOK
  <2>5. DeviceOK(d)'
    BY <1>0, <2>1, <2>2, <2>3, <2>4 DEF IInv, RowsInv, DeviceOK, Belongs
  <2>6. /\ proc'[p].pc = "issue" /\ proc'[p].from = d
        /\ proc'[p].grant = proc[p].grant /\ proc'[p].agent = proc[p].agent
        /\ proc'[p].scope = proc[p].scope
        /\ \A q \in Procs : q # p => proc'[q] = proc[q]
    BY <1>0, <1>1, <2>3, GoToLocal
  <2>7. Redeeming(proc[p])'
    BY <1>0, <1>1, <2>3, <2>6 DEF Redeeming, Consented
  <2>8. SourceSpent(proc[p].from, proc[p].grant, proc[p].agent)'
    BY <1>0, <2>1, <2>2, <2>3, <2>4, <2>6, ConstantsAssumption, NoneAssumption
    DEF SourceSpent, Spent
  <2>9. Knows(proc[p])'
    BY <1>0, <2>6, <2>7, <2>8 DEF Knows
  <2>10. SourceUnique'
    <3>1. \A t \in Tokens : token[t] # None => token[t].from # d
      BY <1>0, <1>2, <2>1 DEF IInv, RowsInv, TokenOK, SourceSpent, Spent
    <3>2. \A q \in Procs : At(q, "issue") => proc[q].from # d
      BY <1>0, <1>2, <2>1 DEF IInv, KnowsInv, Knows, SourceSpent, Spent, At
    <3>3. \A q \in Procs : At(q, "issue")' => q = p \/ At(q, "issue")
      BY <1>0, <2>6 DEF At
    <3> QED
      BY <1>0, <2>3, <2>6, <3>1, <3>2, <3>3 DEF IInv, SourceUnique, SingleUse, At
  <2> QED
    BY <1>0, <1>2, <2>1, <2>2, <2>3, <2>4, <2>5, <2>6, <2>9, <2>10, DeviceStep
    DEF Spent
<1>3. CASE device[d].status # "approved"
  <2>1. Finish(p) /\ UNCHANGED <<device, grant, token, active, now, consented>>
    BY <1>0, <1>3 DEF ExchangeConsume
  <2>2. Persists
    BY <1>0, <2>1 DEF Persists, DevicesPersist, GrantsPersist, SameGrant, TokensPersist
  <2> QED
    BY <1>0, <2>1, <2>2, FinishStep
<1> QED
  BY <1>0, <1>2, <1>3

\* The conditional pending -> approved keeps the invariant: one approval wins.
LEMMA ApproveClaimStep ==
  ASSUME IInv, NEW p \in Procs, ApproveClaim(p)
  PROVE  IInv' /\ Persists
<1>1. /\ TypeOK /\ proc[p] \in Local /\ At(p, "claim")
      /\ Claiming(proc[p])
  BY DEF IInv, TypeOK, KnowsInv, Knows, ApproveClaim, At
<1>0. PICK d \in Devices : d = proc[p].from
  BY <1>1 DEF Claiming
<1>2. CASE device[d].status = "pending"
  <2> DEFINE row == [device[d] EXCEPT !.status = "approved",
                                      !.account = proc[p].account]
  <2>1. /\ d \in Devices /\ device[d] # None /\ device[d] \in DeviceRow
        /\ device[d].agent = proc[p].agent /\ DeviceOK(d)
    BY <1>0, <1>1 DEF Claiming, IInv, TypeOK, RowsInv
  <2>2. /\ row \in DeviceRow /\ row.status = "approved"
        /\ row.agent = device[d].agent /\ row.account = proc[p].account
        /\ row.grant = None /\ device[d].account = None
    BY <1>0, <1>1, <1>2, <2>1 DEF DeviceRow, Claiming, DeviceOK
  <2>3. /\ device' = [device EXCEPT ![d] = row] /\ GoTo(p, "lookup")
        /\ "lookup" \in Steps /\ UNCHANGED <<grant, token, active, now>>
        /\ consented' = consented \cup
             ({proc[p].account} \X {proc[p].agent} \X proc[p].asked)
    BY <1>0, <1>1, <1>2, <2>1 DEF ApproveClaim, Steps, TypeOK
  <2>4. TypeOK' /\ device'[d] = row
    <3>1. consented' \subseteq Accounts \X Agents \X Scopes
      BY <1>0, <1>1, <2>3 DEF TypeOK, Local, Claiming
    <3> QED
      BY <1>0, <1>1, <2>1, <2>2, <2>3, <3>1, GoToLocal DEF TypeOK
  <2>5. DeviceOK(d)'
    BY <1>0, <2>2, <2>4 DEF DeviceOK
  <2>6. /\ proc'[p].pc = "lookup" /\ proc'[p].from = d
        /\ proc'[p].account = proc[p].account /\ proc'[p].agent = proc[p].agent
        /\ proc'[p].asked = proc[p].asked
        /\ \A q \in Procs : q # p => proc'[q] = proc[q]
    BY <1>0, <1>1, <2>3, GoToLocal
  <2>7. Claiming(proc[p])'
    BY <1>0, <1>1, <2>1, <2>2, <2>4, <2>6, NoneAssumption DEF Claiming
  <2>8. Claimed(proc[p])'
    BY <1>0, <2>2, <2>3, <2>4, <2>6 DEF Claimed, Consented
  <2>9. Knows(proc[p])'
    BY <1>0, <2>6, <2>7, <2>8 DEF Knows
  <2>10. SourceUnique'
    BY <1>0, <2>3, <2>6, UniqueKept
  <2> QED
    BY <1>0, <1>2, <2>1, <2>2, <2>3, <2>4, <2>5, <2>6, <2>9, <2>10, DeviceStep
    DEF Spent
<1>3. CASE device[d].status # "pending"
  <2>1. Finish(p) /\ UNCHANGED <<device, grant, token, active, now, consented>>
    BY <1>0, <1>3 DEF ApproveClaim
  <2>2. Persists
    BY <1>0, <2>1 DEF Persists, DevicesPersist, GrantsPersist, SameGrant, TokensPersist
  <2> QED
    BY <1>0, <2>1, <2>2, FinishStep
<1> QED
  BY <1>0, <1>2, <1>3

\* Binding the code to its grant keeps the invariant.
LEMMA ApproveBindStep ==
  ASSUME IInv, NEW p \in Procs, ApproveBind(p)
  PROVE  IInv' /\ Persists
<1>1. /\ TypeOK /\ proc[p] \in Local /\ At(p, "bind")
      /\ Claiming(proc[p]) /\ Claimed(proc[p])
      /\ Belongs(proc[p].grant, proc[p].account, proc[p].agent)
  BY DEF IInv, TypeOK, KnowsInv, Knows, ApproveBind, At
<1>0. PICK d \in Devices : d = proc[p].from
  BY <1>1 DEF Claiming
<1>2. Finish(p) /\ UNCHANGED <<grant, token, active, now, consented>>
  BY <1>0 DEF ApproveBind
<1>3. PICK row \in DeviceRow :
        /\ device' = [device EXCEPT ![d] = row]
        /\ row.status = device[d].status /\ row.agent = device[d].agent
        /\ row.account = device[d].account
        /\ row.grant \in {device[d].grant, proc[p].grant}
  <2>1. d \in Devices /\ device[d] \in DeviceRow
    BY <1>0, <1>1 DEF Claiming, TypeOK
  <2>2. CASE device[d].status = "deleted"
    BY <1>0, <1>1, <2>1, <2>2 DEF ApproveBind, TypeOK
  <2>3. CASE device[d].status # "deleted"
    <3> DEFINE r == [device[d] EXCEPT !.grant = proc[p].grant]
    <3>1. /\ r \in DeviceRow /\ r.status = device[d].status
          /\ r.agent = device[d].agent /\ r.account = device[d].account
          /\ r.grant = proc[p].grant
      BY <1>0, <1>1, <2>1 DEF DeviceRow, Belongs
    <3>2. device' = [device EXCEPT ![d] = r]
      BY <1>0, <1>1, <2>1, <2>3 DEF ApproveBind, TypeOK
    <3> QED
      BY <1>0, <3>1, <3>2
  <2> QED
    BY <1>0, <2>2, <2>3
<1>4. /\ d \in Devices /\ device[d] # None /\ DeviceOK(d)
      /\ device[d].status # "pending" /\ device[d].account = proc[p].account
      /\ device[d].agent = proc[p].agent
  BY <1>0, <1>1 DEF Claiming, Claimed, IInv, RowsInv
<1>5. TypeOK' /\ device'[d] = row
  BY <1>0, <1>1, <1>2, <1>3, <1>4, FinishLocal DEF TypeOK
<1>6. DeviceOK(d)'
  BY <1>0, <1>1, <1>2, <1>3, <1>4, <1>5 DEF DeviceOK, Belongs
<1>7. SourceUnique'
  BY <1>0, <1>1, <1>2, FinishLocal, UniqueKept
<1> QED
  BY <1>0, <1>1, <1>2, <1>3, <1>4, <1>5, <1>6, <1>7, FinishLocal, DeviceStep

\* The conditional pending -> denied keeps the invariant.
LEMMA DenyStep ==
  ASSUME IInv, NEW account \in Accounts, NEW d \in Devices, Deny(account, d)
  PROVE  IInv' /\ Persists
<1> DEFINE row == [device[d] EXCEPT !.status = "denied", !.account = account]
<1>1. TypeOK /\ device[d] \in DeviceRow /\ DeviceOK(d)
  BY DEF IInv, TypeOK, RowsInv, Deny
<1>2. /\ row \in DeviceRow /\ row.status = "denied"
      /\ row.agent = device[d].agent
      /\ row.grant = None /\ device[d].account = None
  BY <1>1 DEF DeviceRow, DeviceOK, Deny
<1>3. /\ device' = [device EXCEPT ![d] = row] /\ device[d].status = "pending"
      /\ UNCHANGED <<grant, token, proc, active, now, consented>>
  BY <1>1 DEF Deny, TypeOK
<1>4. TypeOK' /\ device'[d] = row
  BY <1>1, <1>2, <1>3 DEF TypeOK
<1>5. Persists
  BY <1>1, <1>2, <1>3, NoneAssumption
  DEF TypeOK, Persists, DevicesPersist, GrantsPersist, SameGrant, TokensPersist, Spent
<1>6. KnowsInv'
  BY <1>1, <1>3, <1>4, <1>5, KnowsKept DEF IInv, KnowsInv
<1>7. RowsInv'
  <2>1. DeviceOK(d)'
    BY <1>2, <1>4 DEF DeviceOK
  <2>2. ASSUME NEW e \in Devices, device'[e] # None PROVE DeviceOK(e)'
    <3>1. CASE e = d
      BY <2>1, <3>1
    <3>2. CASE e # d
      BY <1>1, <1>3, <1>5, <2>2, <3>2, DeviceKept DEF IInv, RowsInv, TypeOK
    <3> QED
      BY <3>1, <3>2
  <2>3. \A g \in Grants : grant'[g] # None => GrantOK(g)'
    BY <1>3, <1>5, GrantKept DEF IInv, RowsInv
  <2>4. \A t \in Tokens : token'[t] # None => TokenOK(t)'
    BY <1>1, <1>3, <1>5, TokenKept DEF IInv, RowsInv
  <2> QED
    BY <2>2, <2>3, <2>4 DEF RowsInv
<1>8. SourceUnique'
  BY <1>3 DEF IInv, SourceUnique, SingleUse, At
<1> QED
  BY <1>4, <1>5, <1>6, <1>7, <1>8 DEF IInv

\* The conditional use of a refresh token keeps the invariant: one request wins.
LEMMA RefreshSpendStep ==
  ASSUME IInv, NEW p \in Procs, RefreshSpend(p)
  PROVE  IInv' /\ Persists
<1>1. /\ TypeOK /\ proc[p] \in Local /\ At(p, "spend")
      /\ Redeeming(proc[p]) /\ Spending(proc[p])
  BY DEF IInv, TypeOK, KnowsInv, Knows, RefreshSpend, At
<1>0. PICK t \in Tokens : t = proc[p].from
  BY <1>1 DEF Spending
<1>2. /\ token[t] # None /\ token[t] \in TokenRow
      /\ token[t].grant = proc[p].grant
      /\ UNCHANGED <<device, grant, active, now, consented>>
  BY <1>0, <1>1 DEF Spending, TypeOK, RefreshSpend
<1>3. CASE token[t].used
  <2>1. GoTo(p, "reuse") /\ UNCHANGED token /\ "reuse" \in Steps
    BY <1>0, <1>3 DEF RefreshSpend, Steps
  <2>2. Persists
    BY <1>2, <2>1 DEF Persists, DevicesPersist, GrantsPersist, SameGrant, TokensPersist
  <2>3. PICK l : l = [proc[p] EXCEPT !.pc = "reuse"]
    OBVIOUS
  <2>4. l \in Local /\ l.pc = "reuse" /\ proc' = [proc EXCEPT ![p] = l]
    BY <1>1, <2>1, <2>3 DEF Local, GoTo, TypeOK
  <2>5. Knows(l)
    BY <1>1, <2>3 DEF Knows, Redeeming, Spending, Local
  <2> QED
    BY <1>2, <2>1, <2>2, <2>4, <2>5, LocalStep
<1>4. CASE ~token[t].used
  <2> DEFINE row == [token[t] EXCEPT !.used = TRUE]
  <2>1. /\ row \in TokenRow /\ row.used /\ row.grant = token[t].grant
        /\ row.scope = token[t].scope /\ row.from = token[t].from
        /\ row.holder = token[t].holder
    BY <1>2 DEF TokenRow
  <2>2. GoTo(p, "issue") /\ token' = [token EXCEPT ![t] = row]
        /\ "issue" \in Steps
    BY <1>0, <1>4 DEF RefreshSpend, Steps
  <2>3. \A u \in Tokens :
          \/ token'[u] = token[u]
          \/ u = t /\ token'[u] = row
    BY <1>1, <2>2 DEF TypeOK
  <2>4. TypeOK' /\ token'[t] = row
    BY <1>1, <1>2, <2>1, <2>2, GoToLocal DEF TypeOK
  <2>5. Persists
    BY <1>2, <2>1, <2>3, NoneAssumption
    DEF Persists, DevicesPersist, GrantsPersist, SameGrant, TokensPersist
  <2>6. /\ proc'[p].pc = "issue" /\ proc'[p].from = t
        /\ proc'[p].grant = proc[p].grant /\ proc'[p].agent = proc[p].agent
        /\ proc'[p].scope = proc[p].scope
        /\ \A q \in Procs : q # p => proc'[q] = proc[q]
    BY <1>0, <1>1, <2>2, GoToLocal
  <2>7. Redeeming(proc[p])'
    BY <1>1, <1>2, <2>6 DEF Redeeming, Consented
  <2>8. SourceSpent(proc[p].from, proc[p].grant, proc[p].agent)'
    BY <1>2, <2>1, <2>4, <2>6, ConstantsAssumption, NoneAssumption
    DEF SourceSpent
  <2>9. Knows(proc[p])'
    BY <2>6, <2>7, <2>8 DEF Knows
  <2>10. SourceUnique'
    <3>1. \A u \in Tokens : token[u] # None => token[u].from # t
      BY <1>4 DEF IInv, RowsInv, TokenOK, SourceSpent
    <3>2. \A q \in Procs : At(q, "issue") => proc[q].from # t
      BY <1>4 DEF IInv, KnowsInv, Knows, SourceSpent, At
    <3>3. \A q \in Procs : At(q, "issue")' => q = p \/ At(q, "issue")
      BY <2>6 DEF At
    <3>4. \A u \in Tokens : token'[u] # None =>
            token[u] # None /\ token'[u].from = token[u].from
      BY <1>2, <2>1, <2>3
    <3> QED
      BY <2>6, <3>1, <3>2, <3>3, <3>4 DEF IInv, SourceUnique, SingleUse, At
  <2>11. \A u \in Tokens : token'[u] # None =>
           /\ token[u] # None /\ token'[u].scope = token[u].scope
           /\ token'[u].from = token[u].from
           /\ token'[u].holder = token[u].holder
    BY <1>2, <2>1, <2>3
  <2> QED
    BY <1>2, <2>4, <2>5, <2>6, <2>9, <2>10, <2>11, Assemble
<1> QED
  BY <1>3, <1>4

\* Handing out a pair keeps the invariant: its source was spent by this request alone.
LEMMA IssueStep ==
  ASSUME IInv, NEW p \in Procs, NEW t \in Tokens, Issue(p, t)
  PROVE  IInv' /\ Persists
<1> DEFINE row ==
      [grant |-> proc[p].grant, scope |-> proc[p].scope,
       accessExp |-> proc[p].at + AccessTtl, refreshExp |-> proc[p].exp,
       used |-> FALSE, from |-> proc[p].from, holder |-> proc[p].agent]
<1>1. /\ TypeOK /\ proc[p] \in Local /\ At(p, "issue")
      /\ Redeeming(proc[p])
      /\ SourceSpent(proc[p].from, proc[p].grant, proc[p].agent)
  BY DEF IInv, TypeOK, KnowsInv, Knows, Issue, At
<1>2. proc[p].at + AccessTtl \in Time
  BY <1>1, ConstantsAssumption DEF Local, Time, Instant
<1>3. row \in TokenRow
  BY <1>1, <1>2 DEF TokenRow, Local, Redeeming, SourceSpent
<1>4. /\ token' = [token EXCEPT ![t] = row] /\ token[t] = None /\ Finish(p)
      /\ UNCHANGED <<device, grant, active, now, consented>>
  BY DEF Issue
<1>5. TypeOK' /\ token'[t] = row
  BY <1>1, <1>3, <1>4, FinishLocal DEF TypeOK
<1>6. \A u \in Tokens : u # t => token'[u] = token[u]
  BY <1>1, <1>4 DEF TypeOK
<1>7. Persists
  BY <1>4, <1>6 DEF Persists, DevicesPersist, GrantsPersist, SameGrant, TokensPersist
<1>8. PICK r \in TokenRow : r = row
  BY <1>3
<1>9. /\ Belongs(r.grant, grant[r.grant].account, r.holder)
      /\ SourceSpent(r.from, r.grant, r.holder)
      /\ Consented(grant[r.grant].account, r.holder, r.scope)
      /\ token'[t] = r /\ r.from = proc[p].from
  BY <1>1, <1>5, <1>8 DEF Redeeming, Belongs
<1>10. TokenOK(t)'
  <2>1. SourceSpent(r.from, r.grant, r.holder)'
    BY <1>4, <1>6, <1>9 DEF SourceSpent
  <2>2. Belongs(r.grant, grant[r.grant].account, r.holder)'
    BY <1>4, <1>9 DEF Belongs
  <2>3. Consented(grant[r.grant].account, r.holder, r.scope)'
    BY <1>4, <1>9 DEF Consented
  <2> QED
    BY <1>9, <2>1, <2>2, <2>3 DEF TokenOK
<1>11. SourceUnique'
  <2>1. \A u \in Tokens : token[u] # None => token[u].from # r.from
    BY <1>1, <1>9 DEF IInv, SourceUnique
  <2>2. \A q \in Procs : q # p /\ At(q, "issue") => proc[q].from # r.from
    BY <1>1, <1>9 DEF IInv, SourceUnique
  <2>3. \A q \in Procs : At(q, "issue")' =>
          q # p /\ At(q, "issue") /\ proc'[q] = proc[q]
    BY <1>1, <1>4, FinishLocal DEF At
  <2> QED
    BY <1>6, <1>9, <2>1, <2>2, <2>3 DEF IInv, SourceUnique, SingleUse, At
<1> QED
  BY <1>1, <1>4, <1>5, <1>6, <1>7, <1>10, <1>11, FinishLocal, Assemble

-----------------------------------------------------------------------------
(* The theorems.                                                           *)

\* The invariant holds of the empty tables.
LEMMA InitIInv == Init => IInv
<1> SUFFICES ASSUME Init PROVE IInv
  OBVIOUS
<1>1. 0 \in Instant /\ 0 \in Time
  BY ConstantsAssumption DEF Instant, Time
<1>2. Idle \in Local /\ Idle.pc = "idle"
  BY <1>1 DEF Idle, Local, Steps
<1>3. TypeOK
  BY <1>1, <1>2 DEF Init, TypeOK
<1>4. KnowsInv
  BY <1>2 DEF Init, KnowsInv, Knows
<1>5. RowsInv /\ SourceUnique
  BY <1>2 DEF Init, RowsInv, SourceUnique, SingleUse, At
<1> QED
  BY <1>3, <1>4, <1>5 DEF IInv

\* Every step keeps the invariant and only advances the tables.
LEMMA NextIInv == IInv /\ [Next]_vars => IInv' /\ Persists
<1> SUFFICES ASSUME IInv, [Next]_vars PROVE IInv' /\ Persists
  OBVIOUS
<1>1. ASSUME NEW agent \in Agents, NEW d \in Devices,
             NEW requested \in SUBSET Scopes, RequestDevice(agent, d, requested)
      PROVE  IInv' /\ Persists
  BY <1>1, RequestDeviceStep
<1>2. ASSUME NEW p \in Procs, NEW agent \in Agents, NEW d \in Devices,
             ExchangeBegin(p, agent, d)
      PROVE  IInv' /\ Persists
  BY <1>2, ExchangeBeginStep
<1>3. ASSUME NEW p \in Procs, NEW agent \in Agents, NEW t \in Tokens,
             RefreshBegin(p, agent, t)
      PROVE  IInv' /\ Persists
  BY <1>3, RefreshBeginStep
<1>4. ASSUME NEW p \in Procs, NEW account \in Accounts, NEW d \in Devices,
             NEW chosen \in SUBSET Scopes, ApproveBegin(p, account, d, chosen)
      PROVE  IInv' /\ Persists
  BY <1>4, ApproveBeginStep
<1>5. ASSUME NEW p \in Procs, Handler(p) PROVE IInv' /\ Persists
  <2>1. CASE ExchangeConsume(p)
    BY <2>1, ExchangeConsumeStep
  <2>2. CASE RefreshSpend(p)
    BY <2>2, RefreshSpendStep
  <2>3. CASE RefreshReuse(p)
    BY <2>3, RefreshReuseStep
  <2>4. ASSUME NEW t \in Tokens, Issue(p, t) PROVE IInv' /\ Persists
    BY <2>4, IssueStep
  <2>5. CASE ApproveClaim(p)
    BY <2>5, ApproveClaimStep
  <2>6. CASE ApproveLookup(p)
    BY <2>6, ApproveLookupStep
  <2>7. CASE ApproveExtend(p)
    BY <2>7, ApproveExtendStep
  <2>8. ASSUME NEW g \in Grants, ApproveInsert(p, g) PROVE IInv' /\ Persists
    BY <2>8, ApproveInsertStep
  <2>9. CASE ConvergeRead(p)
    BY <2>9, ConvergeReadStep
  <2>10. CASE ConvergeMerge(p)
    BY <2>10, ConvergeMergeStep
  <2>11. CASE ConvergeRetire(p)
    BY <2>11, ConvergeRetireStep
  <2>12. CASE ApproveBind(p)
    BY <2>12, ApproveBindStep
  <2> QED
    BY <1>5, <2>1, <2>2, <2>3, <2>4, <2>5, <2>6, <2>7, <2>8, <2>9, <2>10,
       <2>11, <2>12 DEF Handler
<1>6. ASSUME NEW account \in Accounts, NEW d \in Devices, Deny(account, d)
      PROVE  IInv' /\ Persists
  BY <1>6, DenyStep
<1>7. ASSUME NEW account \in Accounts, NEW g \in Grants, RevokeGrant(account, g)
      PROVE  IInv' /\ Persists
  BY <1>7, RevokeStep DEF RevokeGrant
<1>8. ASSUME NEW account \in Accounts, RevokeAllGrants(account)
      PROVE  IInv' /\ Persists
  BY <1>8, RevokeStep DEF RevokeAllGrants
<1>9. ASSUME NEW p \in Procs, Crash(p) PROVE IInv' /\ Persists
  BY <1>9, CrashStep
<1>10. ASSUME NEW account \in Accounts, SetActive(account)
       PROVE  IInv' /\ Persists
  <2>1. active' \subseteq Accounts /\ now' \in Instant
    BY <1>10 DEF SetActive, IInv, TypeOK
  <2> QED
    BY <1>10, <2>1, EnvironmentStep DEF SetActive
<1>11. CASE Tick
  <2>1. active' \subseteq Accounts /\ now' \in Instant
    BY <1>11, ConstantsAssumption DEF Tick, IInv, TypeOK, Instant
  <2> QED
    BY <1>11, <2>1, EnvironmentStep DEF Tick
<1>12. CASE UNCHANGED vars
  <2>1. active' \subseteq Accounts /\ now' \in Instant
    BY <1>12 DEF vars, IInv, TypeOK
  <2> QED
    BY <1>12, <2>1, EnvironmentStep DEF vars
<1> QED
  BY <1>1, <1>2, <1>3, <1>4, <1>5, <1>6, <1>7, <1>8, <1>9, <1>10, <1>11, <1>12
  DEF Next

\* The conjunction IInv of what the tables, the sources of the pairs and the
\* requests in flight know of each other holds of every reachable state.
THEOREM InductiveInvariant == Spec => []IInv
<1>1. IInv /\ [Next]_vars => IInv'
  BY NextIInv
<1> QED
  BY InitIInv, <1>1, PTL DEF Spec

\* The tables, the requests in flight and the history keep their types.
THEOREM TypeCorrect == Spec => []TypeOK
BY InductiveInvariant, PTL DEF IInv

\* However requests interleave, a device code and a refresh token are each
\* exchanged for at most one token pair (transitionDevice, useRefreshToken).
THEOREM SingleUseHolds == Spec => []SingleUse
<1>1. IInv => SingleUse
  BY DEF IInv, SourceUnique
<1> QED
  BY InductiveInvariant, <1>1, PTL

\* A pair is held by the agent that asked for the code, for the account that
\* approved it, along any chain of refreshes.
THEOREM RightHolderHolds == Spec => []RightHolder
<1>1. IInv => RightHolder
  BY DEF IInv, RowsInv, TokenOK, Belongs, SourceSpent, Spent, RightHolder
<1> QED
  BY InductiveInvariant, <1>1, PTL

\* Extending, converging and refreshing never put into a grant or a token a
\* scope that the account did not approve for that agent.
THEOREM ScopesConsentedHolds == Spec => []ScopesConsented
<1>1. IInv => ScopesConsented
  BY DEF IInv, RowsInv, GrantOK, TokenOK, Belongs, Consented, ScopesConsented
<1> QED
  BY InductiveInvariant, <1>1, PTL

\* Of two answers that race for one device code, only one ever takes effect.
THEOREM DecisionIsFinalHolds == Spec => DecisionIsFinal
<1> DEFINE Final ==
      \A d \in Devices :
        (device[d] # None /\ device[d].account # None) =>
          /\ device'[d].account = device[d].account
          /\ device[d].status = "denied" => device'[d].status # "approved"
          /\ device[d].status = "approved" => device'[d].status # "denied"
<1>1. IInv /\ [Next]_vars => [Final]_vars
  BY NextIInv DEF Persists, DevicesPersist
<1> QED
  BY InductiveInvariant, <1>1, PTL DEF Spec, DecisionIsFinal

-----------------------------------------------------------------------------
(* Reuse detection.                                                        *)

\* A step of request q leaves the local variables of the others alone.
LEMMA HandlerMovesOne ==
  ASSUME TypeOK, NEW p \in Procs, NEW q \in Procs, p # q, Handler(q)
  PROVE  proc'[p] = proc[p]
<1>0. proc \in [Procs -> Local]
  BY DEF TypeOK
<1>1. CASE ExchangeConsume(q) \/ RefreshSpend(q) \/ RefreshReuse(q)
  BY <1>0, <1>1 DEF ExchangeConsume, RefreshSpend, RefreshReuse, GoTo, Finish
<1>2. CASE \/ \E t \in Tokens : Issue(q, t)
           \/ \E g \in Grants : ApproveInsert(q, g)
  BY <1>0, <1>2 DEF Issue, ApproveInsert, GoTo, Finish
<1>3. CASE ApproveClaim(q) \/ ApproveExtend(q) \/ ConvergeMerge(q) \/ ApproveBind(q)
  BY <1>0, <1>3 DEF ApproveClaim, ApproveExtend, ConvergeMerge, ApproveBind,
                    GoTo, Finish
<1>4. CASE ApproveLookup(q)
  BY <1>0, <1>4, Zenon DEF ApproveLookup, GoTo
<1>5. CASE ConvergeRead(q)
  BY <1>0, <1>5, Zenon DEF ConvergeRead, Finish
<1>6. CASE ConvergeRetire(q)
  BY <1>0, <1>6, Zenon DEF ConvergeRetire
<1> QED
  BY <1>1, <1>2, <1>3, <1>4, <1>5, <1>6 DEF Handler

\* Of the steps of a request that presents a refresh token, only RefreshReuse
\* ends it.
LEMMA OnlyReuseEnds ==
  ASSUME TypeOK, [Next]_vars, NEW p \in Procs,
         proc[p].pc \in {"spend", "reuse"}, proc'[p].pc = "idle"
  PROVE  RefreshReuse(p)
<1>0. proc \in [Procs -> Local] /\ proc'[p] # proc[p]
  BY DEF TypeOK
<1>1. ASSUME NEW q \in Procs, NEW agent \in Agents, NEW d \in Devices,
             ExchangeBegin(q, agent, d)
      PROVE  FALSE
  BY <1>0, <1>1, Zenon DEF ExchangeBegin, At
<1>2. ASSUME NEW q \in Procs, NEW agent \in Agents, NEW t \in Tokens,
             RefreshBegin(q, agent, t)
      PROVE  FALSE
  BY <1>0, <1>2, Zenon DEF RefreshBegin, At
<1>3. ASSUME NEW q \in Procs, NEW account \in Accounts, NEW d \in Devices,
             NEW chosen \in SUBSET Scopes, ApproveBegin(q, account, d, chosen)
      PROVE  FALSE
  BY <1>0, <1>3, Zenon DEF ApproveBegin, At
<1>4. ASSUME NEW q \in Procs, Crash(q) PROVE FALSE
  BY <1>0, <1>4 DEF Crash, Idle
<1>5. ASSUME NEW q \in Procs, Handler(q) PROVE RefreshReuse(p)
  <2>1. p = q
    BY <1>0, <1>5, HandlerMovesOne
  <2>2. CASE RefreshSpend(p)
    <3>1. PICK pc \in {"reuse", "issue"} : GoTo(p, pc)
      BY <2>2 DEF RefreshSpend
    <3> QED
      BY <1>0, <3>1 DEF GoTo
  <2> QED
    BY <1>5, <2>1, <2>2
    DEF Handler, At, ExchangeConsume, RefreshSpend, Issue, ApproveClaim,
        ApproveLookup, ApproveExtend, ApproveInsert, ConvergeRead,
        ConvergeMerge, ConvergeRetire, ApproveBind
<1>6. proc' # proc
  BY <1>0
<1> QED
  BY <1>1, <1>2, <1>3, <1>4, <1>5, <1>6
  DEF Next, vars, RequestDevice, Deny, RevokeGrant, RevokeAllGrants, SetActive,
      Tick

\* Presenting a spent refresh token revokes its grant, also for the request that
\* loses the race to spend it, and no later step revives a revoked grant.
THEOREM ReuseRevokesHolds == Spec => ReuseRevokes
<1> DEFINE Revokes ==
      /\ \A p \in Procs :
           (proc[p].pc \in {"spend", "reuse"} /\ proc'[p].pc = "idle")
             => grant'[proc[p].grant].revoked
      /\ \A g \in Grants :
           (grant[g] # None /\ grant[g].revoked) => grant'[g].revoked
<1>1. IInv /\ [Next]_vars => [Revokes]_vars
  <2> SUFFICES ASSUME IInv, [Next]_vars PROVE Revokes
    OBVIOUS
  <2>1. \A g \in Grants :
          (grant[g] # None /\ grant[g].revoked) => grant'[g].revoked
    BY NextIInv DEF Persists, GrantsPersist, SameGrant
  <2>2. ASSUME NEW p \in Procs,
               proc[p].pc \in {"spend", "reuse"}, proc'[p].pc = "idle"
        PROVE  grant'[proc[p].grant].revoked
    <3>1. RefreshReuse(p) /\ TypeOK
      BY <2>2, OnlyReuseEnds DEF IInv
    <3>2. proc[p].grant \in Grants /\ grant[proc[p].grant] # None
      BY <2>2 DEF IInv, KnowsInv, Knows, Redeeming
    <3>3. grant[proc[p].grant] \in GrantRow
      BY <3>1, <3>2 DEF TypeOK
    <3> QED
      BY <3>1, <3>2, <3>3 DEF RefreshReuse, RevokeGrants, GrantRow
  <2> QED
    BY <2>1, <2>2
<1> QED
  BY InductiveInvariant, <1>1, PTL DEF Spec, ReuseRevokes

-----------------------------------------------------------------------------
(* One grant per account and agent, for grants that outlast the clock.        *)

\* An approval between the claim of its code and the end of its convergence.
Approving(p) ==
  proc[p].pc \in {"lookup", "extend", "insert", "converge", "merge", "retire", "bind"}

Live(g) == grant[g] # None /\ ~grant[g].revoked

\* p will see both grants, or has listed one of them to be retired.
Resolving(p, g, h) ==
  /\ proc[p].account = grant[g].account /\ proc[p].agent = grant[g].agent
  /\ \/ At(p, "converge")
     \/ /\ proc[p].pc \in {"merge", "retire"}
        /\ g \in proc[p].extras \/ h \in proc[p].extras

\* The code of an approval that died, or whose grant vanished, before it was bound.
Orphan(d, account, agent) ==
  /\ Unbound(d, account, agent)
  /\ device[d].status \in {"approved"} \cup Spent
  /\ \A p \in Procs : Approving(p) => proc[p].from # d

GrantsLast ==
  /\ \A g \in Grants : grant[g] # None => grant[g].exp > MaxTime
  /\ \A p \in Procs : proc[p].pc \in {"extend", "merge"} => proc[p].exp > MaxTime

OwnCode ==
  /\ \A p \in Procs : Approving(p) =>
       /\ device[proc[p].from].grant = None
       /\ device[proc[p].from].status \in {"approved"} \cup Spent
  /\ \A p, q \in Procs :
       (p # q /\ Approving(p) /\ Approving(q)) => proc[p].from # proc[q].from

PairsResolved ==
  \A g, h \in Grants :
    (g # h /\ Live(g) /\ Live(h) /\ SameTriple(g, h))
      => \/ \E p \in Procs : Resolving(p, g, h)
         \/ \E d \in Devices : Orphan(d, grant[g].account, grant[g].agent)

Converging == GrantsLast /\ OwnCode /\ PairsResolved

\* What a step that inserts no grant and claims no code must do to keep Converging.
LEMMA ConvergingKept ==
  ASSUME IInv, IInv', Persists, Converging, GrantsLast',
         \A q \in Procs :
           Approving(q)' => Approving(q) /\ proc'[q].from = proc[q].from,
         \A d \in Devices :
           (device[d] # None /\ device'[d].grant # device[d].grant)
             => \E q \in Procs : /\ Approving(q) /\ ~Approving(q)'
                                 /\ proc[q].pc = "bind" /\ proc[q].from = d,
         \A g \in Grants : Live(g)' => Live(g),
         \A q \in Procs, g, h \in Grants :
           (g # h /\ Live(g)' /\ Live(h)' /\ SameTriple(g, h) /\ Resolving(q, g, h))
             => \/ Resolving(q, g, h)'
                \/ \E d \in Devices : Orphan(d, grant[g].account, grant[g].agent)'
  PROVE  Converging'
<1>1. \A p \in Procs : Approving(p) =>
        /\ proc[p].from \in Devices /\ device[proc[p].from] # None
        /\ device'[proc[p].from].status \in {"approved"} \cup Spent
  BY DEF IInv, KnowsInv, Knows, Claiming, Approving, Converging, OwnCode, Persists, DevicesPersist,
     Spent
<1>2. OwnCode'
  <2>1. ASSUME NEW p \in Procs, Approving(p)'
        PROVE  /\ device'[proc'[p].from].grant = None
               /\ device'[proc'[p].from].status \in {"approved"} \cup Spent
    <3>1. Approving(p) /\ proc'[p].from = proc[p].from
      BY <2>1
    <3>2. device[proc[p].from].grant = None
      BY <3>1 DEF Converging, OwnCode
    <3>3. ASSUME device'[proc[p].from].grant # None PROVE FALSE
      <4>1. PICK q \in Procs : Approving(q) /\ ~Approving(q)' /\ proc[q].from = proc[p].from
        BY <1>1, <3>1, <3>2, <3>3
      <4> QED BY <2>1, <3>1, <4>1 DEF Converging, OwnCode
    <3> QED BY <1>1, <3>1, <3>3
  <2>2. \A p, q \in Procs :
          (p # q /\ Approving(p)' /\ Approving(q)') => proc'[p].from # proc'[q].from
    BY DEF Converging, OwnCode
  <2> QED BY <2>1, <2>2, Zenon DEF OwnCode
<1>3. ASSUME NEW d \in Devices, NEW account \in Accounts, NEW agent \in Agents,
             Orphan(d, account, agent)
      PROVE  Orphan(d, account, agent)'
  <2>1. /\ device[d] # None /\ device[d].account = account /\ device[d].agent = agent
        /\ device[d].grant = None /\ device[d].status \in {"approved"} \cup Spent
        /\ \A p \in Procs : Approving(p) => proc[p].from # d
    BY <1>3 DEF Orphan, Unbound
  <2>2. device'[d].grant = None
    BY <2>1
  <2>3. /\ device'[d] # None /\ device'[d].account = account /\ device'[d].agent = agent
        /\ device'[d].status \in {"approved"} \cup Spent
    BY <2>1, ConstantsAssumption DEF Persists, DevicesPersist, Spent
  <2>4. \A p \in Procs : Approving(p)' => proc'[p].from # d
    BY <2>1
  <2> QED BY <2>2, <2>3, <2>4 DEF Orphan, Unbound, Spent
<1>4. PairsResolved'
  <2> SUFFICES ASSUME NEW g \in Grants, NEW h \in Grants,
                      g # h, Live(g)', Live(h)', SameTriple(g, h)'
               PROVE  \/ \E p \in Procs : Resolving(p, g, h)'
                      \/ \E d \in Devices : Orphan(d, grant[g].account, grant[g].agent)'
    BY DEF PairsResolved
  <2>1. Live(g) /\ Live(h)
    OBVIOUS
  <2>2. /\ grant'[g].account = grant[g].account /\ grant'[g].agent = grant[g].agent
        /\ grant'[h].account = grant[h].account /\ grant'[h].agent = grant[h].agent
    BY <2>1 DEF Live, Persists, GrantsPersist, SameGrant
  <2>3. /\ SameTriple(g, h)
        /\ grant[g].account \in Accounts /\ grant[g].agent \in Agents
    BY <2>1, <2>2 DEF SameTriple, Live, IInv, TypeOK, GrantRow
  <2>4. CASE \E d \in Devices : Orphan(d, grant[g].account, grant[g].agent)
    BY <2>2, <2>3, <2>4, <1>3
  <2>5. ASSUME NEW q \in Procs, Resolving(q, g, h)
        PROVE  \/ Resolving(q, g, h)'
               \/ \E d \in Devices : Orphan(d, grant[g].account, grant[g].agent)'
    BY <2>3, <2>5
  <2> QED BY <2>1, <2>3, <2>4, <2>5 DEF Converging, PairsResolved
<1> QED BY <1>2, <1>4 DEF Converging


\* A step of a request that is not approving, of the console or of the environment.
LEMMA ElsewhereConverging ==
  ASSUME IInv, IInv', Persists, Converging,
         \A q \in Procs : (Approving(q) \/ Approving(q)') => proc'[q] = proc[q],
         \A d \in Devices : device[d] # None => device'[d].grant = device[d].grant,
         \A g \in Grants : grant'[g] # None => grant[g] # None /\ grant'[g].exp = grant[g].exp
  PROVE  Converging'
<1>1. GrantsLast'
  BY DEF Converging, GrantsLast, Approving
<1>2. \A g \in Grants : Live(g)' => Live(g)
  BY DEF Live, Persists, GrantsPersist, SameGrant
<1>3. \A q \in Procs, g, h \in Grants :
        (Live(g)' /\ Resolving(q, g, h)) => Resolving(q, g, h)'
  BY <1>2 DEF Resolving, Approving, At, Live, Persists, GrantsPersist, SameGrant
<1>4. \A q \in Procs : Approving(q)' => Approving(q) /\ proc'[q].from = proc[q].from
  BY DEF Approving
<1> QED BY <1>1, <1>2, <1>3, <1>4, ConvergingKept, Zenon

\* RevokeGrants and UpdateGrant as they change the dates and the life of grants.
LEMMA RevokedTable ==
  ASSUME TypeOK, NEW S \in SUBSET Grants, NEW at \in Instant, RevokeGrants(S, at)
  PROVE  \A g \in Grants :
           /\ grant'[g] # None => grant[g] # None /\ grant'[g].exp = grant[g].exp
           /\ g \in S => ~Live(g)'
<1> SUFFICES ASSUME NEW g \in Grants
             PROVE  /\ grant'[g] # None => grant[g] # None /\ grant'[g].exp = grant[g].exp
                    /\ g \in S => ~Live(g)'
  OBVIOUS
<1>1. CASE g \in S /\ grant[g] # None /\ ~grant[g].revoked
  <2>1. grant[g] \in GrantRow
    BY <1>1 DEF TypeOK
  <2>2. grant'[g] = [grant[g] EXCEPT !.revoked = TRUE, !.updated = at]
    BY <1>1 DEF RevokeGrants
  <2> QED BY <1>1, <2>1, <2>2 DEF GrantRow, Live
<1>2. CASE ~(g \in S /\ grant[g] # None /\ ~grant[g].revoked)
  BY <1>2 DEF RevokeGrants, Live
<1> QED BY <1>1, <1>2

LEMMA UpdatedTable ==
  ASSUME TypeOK, NEW g \in Grants, grant[g] # None, NEW scope \in SUBSET Scopes,
         NEW exp \in Time, NEW at \in Instant, UpdateGrant(g, scope, exp, at), exp > MaxTime
  PROVE  \A h \in Grants :
           /\ grant'[h] # None => grant[h] # None
           /\ (grant[h] # None /\ grant[h].exp > MaxTime) => grant'[h].exp > MaxTime
<1>1. grant[g] \in GrantRow
  BY DEF TypeOK
<1>2. [grant[g] EXCEPT !.scope = scope, !.exp = exp, !.updated = at].exp = exp
  BY <1>1 DEF GrantRow
<1>3. CASE grant[g].revoked
  BY <1>3 DEF UpdateGrant
<1>4. CASE ~grant[g].revoked
  <2>1. grant' = [grant EXCEPT ![g] = [grant[g] EXCEPT !.scope = scope, !.exp = exp, !.updated = at]]
    BY <1>4 DEF UpdateGrant, TypeOK
  <2> QED BY <1>2, <2>1 DEF TypeOK
<1> QED BY <1>3, <1>4

\* Claiming a code: nobody else approves it, because it was pending.
LEMMA ClaimConverging ==
  ASSUME IInv, IInv', Persists, Converging, NEW p \in Procs, ApproveClaim(p)
  PROVE  Converging'
<1>1. /\ TypeOK /\ proc[p] \in Local /\ At(p, "claim") /\ Claiming(proc[p])
      /\ UNCHANGED <<grant, token, active, now>>
  BY DEF IInv, TypeOK, KnowsInv, Knows, ApproveClaim, At
<1>2. CASE device[proc[p].from].status # "pending"
  <2>1. Finish(p) /\ UNCHANGED device
    BY <1>2 DEF ApproveClaim
  <2>2. proc'[p].pc = "idle" /\ \A q \in Procs : q # p => proc'[q] = proc[q]
    BY <1>1, <2>1, FinishLocal
  <2>3. \A q \in Procs : (Approving(q) \/ Approving(q)') => proc'[q] = proc[q]
    BY <1>1, <2>2 DEF Approving, At
  <2> QED BY <1>1, <2>1, <2>3, ElsewhereConverging
<1>3. CASE device[proc[p].from].status = "pending"
  <2> DEFINE d == proc[p].from
  <2>1. /\ GoTo(p, "lookup") /\ "lookup" \in Steps
        /\ device' = [device EXCEPT ![d].status = "approved", ![d].account = proc[p].account]
    BY <1>3 DEF ApproveClaim, Steps
  <2>2. /\ proc'[p].pc = "lookup" /\ proc'[p].from = d
        /\ \A q \in Procs : q # p => proc'[q] = proc[q]
    BY <1>1, <2>1, GoToLocal
  <2>3. /\ d \in Devices /\ device[d] \in DeviceRow /\ device[d].grant = None
    BY <1>1, <1>3 DEF Claiming, IInv, TypeOK, RowsInv, DeviceOK
  <2>4. device'[d].status = "approved" /\ device'[d].grant = None
    BY <1>1, <2>1, <2>3 DEF TypeOK, DeviceRow
  <2>5. \A e \in Devices : e # d => device'[e] = device[e]
    BY <1>1, <2>1 DEF TypeOK
  <2>6. \A q \in Procs : Approving(q) => q # p /\ proc[q].from \in Devices /\ proc[q].from # d
    BY <1>1, <1>3 DEF Converging, OwnCode, Approving, At, Spent, IInv, KnowsInv, Knows, Claiming
  <2>7. \A q \in Procs : q # p => (Approving(q)' <=> Approving(q))
    BY <2>2 DEF Approving
  <2>8. GrantsLast'
    BY <1>1, <2>2 DEF Converging, GrantsLast
  <2>9. OwnCode'
    <3>1. ASSUME NEW q \in Procs, Approving(q)'
          PROVE  /\ device'[proc'[q].from].grant = None
                 /\ device'[proc'[q].from].status \in {"approved"} \cup Spent
      <4>1. CASE q = p
        BY <2>2, <2>4, <4>1
      <4>2. CASE q # p
        BY <2>2, <2>5, <2>6, <2>7, <3>1, <4>2 DEF Converging, OwnCode
      <4> QED BY <4>1, <4>2
    <3>2. ASSUME NEW q \in Procs, NEW r \in Procs, q # r, Approving(q)', Approving(r)'
          PROVE  proc'[q].from # proc'[r].from
      BY <2>2, <2>6, <2>7, <3>2 DEF Converging, OwnCode
    <3> QED BY <3>1, <3>2, Zenon DEF OwnCode
  <2>10. ASSUME NEW e \in Devices, NEW account \in Accounts, NEW agent \in Agents,
                Orphan(e, account, agent)
         PROVE  Orphan(e, account, agent)'
    <3>1. e # d
      BY <1>3, <2>10 DEF Orphan, Spent
    <3>2. device'[e] = device[e] /\ \A q \in Procs : Approving(q)' => proc'[q].from # e
      BY <2>2, <2>5, <2>7, <2>10, <3>1 DEF Orphan
    <3> QED BY <2>10, <3>2 DEF Orphan, Unbound, Spent
  <2>11. PairsResolved'
    <3> SUFFICES ASSUME NEW g \in Grants, NEW h \in Grants,
                        g # h, Live(g), Live(h), SameTriple(g, h)
                 PROVE  \/ \E q \in Procs : Resolving(q, g, h)'
                        \/ \E e \in Devices : Orphan(e, grant[g].account, grant[g].agent)'
      BY <1>1 DEF PairsResolved, Live, SameTriple
    <3>1. CASE \E q \in Procs : Resolving(q, g, h)
      <4>1. PICK q \in Procs : Resolving(q, g, h)
        BY <3>1
      <4>2. q # p
        BY <1>1, <4>1 DEF Resolving, At
      <4> QED BY <1>1, <2>2, <4>1, <4>2 DEF Resolving, At
    <3>2. CASE \E e \in Devices : Orphan(e, grant[g].account, grant[g].agent)
      <4>1. grant[g].account \in Accounts /\ grant[g].agent \in Agents
        BY DEF Live, IInv, TypeOK, GrantRow
      <4>2. PICK e \in Devices : Orphan(e, grant[g].account, grant[g].agent)
        BY <3>2
      <4>3. PICK a \in Accounts, b \in Agents : a = grant[g].account /\ b = grant[g].agent
        BY <4>1
      <4>4. Orphan(e, a, b)'
        BY <2>10, <4>2, <4>3
      <4>5. grant'[g].account = a /\ grant'[g].agent = b
        BY <1>1, <4>3
      <4> QED BY <4>4, <4>5 DEF Orphan, Unbound
    <3> QED BY <3>1, <3>2 DEF Converging, PairsResolved
  <2> QED BY <2>8, <2>9, <2>11 DEF Converging
<1> QED BY <1>2, <1>3


\* Looking up a grant to extend, and extending it.
LEMMA LookupConverging ==
  ASSUME IInv, IInv', Persists, Converging, GrantTtl > MaxTime, NEW p \in Procs, ApproveLookup(p)
  PROVE  Converging'
<1>1. /\ proc \in [Procs -> Local] /\ proc[p] \in Local /\ At(p, "lookup")
      /\ UNCHANGED <<device, grant>>
  BY DEF IInv, TypeOK, ApproveLookup
<1>2. /\ \A q \in Procs : q # p => proc'[q] = proc[q]
      /\ proc'[p].pc \in {"insert", "extend"} /\ proc'[p].from = proc[p].from
      /\ proc'[p].pc = "extend" => proc'[p].exp = proc[p].at + GrantTtl
  <2>1. CASE GoTo(p, "insert")
    BY <1>1, <2>1 DEF GoTo, Local
  <2>2. CASE ~GoTo(p, "insert")
    <3>1. PICK g \in Grants :
            proc' = [proc EXCEPT ![p].pc = "extend", ![p].grant = g,
                       ![p].scope = grant[g].scope \cup proc[p].asked,
                       ![p].exp = proc[p].at + GrantTtl]
      BY <2>2 DEF ApproveLookup, LiveGrantsFor
    <3> QED BY <1>1, <3>1 DEF Local
  <2> QED BY <2>1, <2>2
<1>3. proc[p].at + GrantTtl > MaxTime
  BY <1>1, ConstantsAssumption DEF Local, Instant
<1>4. GrantsLast'
  BY <1>1, <1>2, <1>3 DEF Converging, GrantsLast
<1>5. \A q \in Procs : Approving(q)' => Approving(q) /\ proc'[q].from = proc[q].from
  BY <1>1, <1>2 DEF Approving, At
<1>6. \A q \in Procs, g, h \in Grants : Resolving(q, g, h) => Resolving(q, g, h)'
  BY <1>1, <1>2 DEF Resolving, At
<1>7. \A g \in Grants : Live(g)' => Live(g)
  BY <1>1 DEF Live
<1> QED BY <1>1, <1>4, <1>5, <1>6, <1>7, ConvergingKept

LEMMA ExtendConverging ==
  ASSUME IInv, IInv', Persists, Converging, NEW p \in Procs, ApproveExtend(p)
  PROVE  Converging'
<1>1. /\ TypeOK /\ proc[p] \in Local /\ At(p, "extend") /\ UNCHANGED device
      /\ Belongs(proc[p].grant, proc[p].account, proc[p].agent)
      /\ proc[p].exp > MaxTime
  BY DEF IInv, TypeOK, KnowsInv, Knows, ApproveExtend, At, Converging, GrantsLast
<1>2. \A h \in Grants :
        /\ grant'[h] # None => grant[h] # None
        /\ (grant[h] # None /\ grant[h].exp > MaxTime) => grant'[h].exp > MaxTime
  BY <1>1, UpdatedTable DEF ApproveExtend, Belongs, Local
<1>3. PICK pc \in {"insert", "bind"} : GoTo(p, pc)
  BY DEF ApproveExtend
<1>4. /\ \A q \in Procs : q # p => proc'[q] = proc[q]
      /\ proc'[p].pc \in {"insert", "bind"} /\ proc'[p].from = proc[p].from
  BY <1>1, <1>3, GoToLocal DEF Steps
<1>5. GrantsLast'
  BY <1>2, <1>4 DEF Converging, GrantsLast
<1>6. \A q \in Procs : Approving(q)' => Approving(q) /\ proc'[q].from = proc[q].from
  BY <1>1, <1>4 DEF Approving, At
<1>7. \A g \in Grants : Live(g)' => Live(g)
  BY <1>2 DEF Live, Persists, GrantsPersist, SameGrant
<1>8. \A q \in Procs, g, h \in Grants : (Live(g)' /\ Resolving(q, g, h)) => Resolving(q, g, h)'
  BY <1>1, <1>4, <1>7 DEF Resolving, At, Live, Persists, GrantsPersist, SameGrant
<1> QED BY <1>1, <1>5, <1>6, <1>7, <1>8, ConvergingKept

\* Merging into the survivor leaves the others listed.
LEMMA MergeConverging ==
  ASSUME IInv, IInv', Persists, Converging, NEW p \in Procs, ConvergeMerge(p)
  PROVE  Converging'
<1>1. /\ TypeOK /\ proc[p] \in Local /\ At(p, "merge") /\ UNCHANGED device
      /\ Belongs(proc[p].grant, proc[p].account, proc[p].agent)
      /\ proc[p].exp > MaxTime
  BY DEF IInv, TypeOK, KnowsInv, Knows, ConvergeMerge, At, Converging, GrantsLast
<1>2. \A h \in Grants :
        /\ grant'[h] # None => grant[h] # None
        /\ (grant[h] # None /\ grant[h].exp > MaxTime) => grant'[h].exp > MaxTime
  BY <1>1, UpdatedTable DEF ConvergeMerge, Belongs, Local
<1>4. /\ \A q \in Procs : q # p => proc'[q] = proc[q]
      /\ proc'[p] = [proc[p] EXCEPT !.pc = "retire"]
  BY <1>1 DEF ConvergeMerge, GoTo, TypeOK
<1>5. /\ proc'[p].pc = "retire" /\ proc'[p].from = proc[p].from /\ proc'[p].extras = proc[p].extras
      /\ proc'[p].account = proc[p].account /\ proc'[p].agent = proc[p].agent
  BY <1>1, <1>4 DEF Local
<1>6. GrantsLast'
  BY <1>2, <1>4, <1>5 DEF Converging, GrantsLast
<1>7. \A q \in Procs : Approving(q)' => Approving(q) /\ proc'[q].from = proc[q].from
  BY <1>1, <1>4, <1>5 DEF Approving, At
<1>8. \A g \in Grants : Live(g)' => Live(g)
  BY <1>2 DEF Live, Persists, GrantsPersist, SameGrant
<1>9. \A q \in Procs, g, h \in Grants : (Live(g)' /\ Resolving(q, g, h)) => Resolving(q, g, h)'
  <2> SUFFICES ASSUME NEW q \in Procs, NEW g \in Grants, NEW h \in Grants,
                      Live(g)', Resolving(q, g, h)
               PROVE  Resolving(q, g, h)'
    OBVIOUS
  <2>1. grant'[g].account = grant[g].account /\ grant'[g].agent = grant[g].agent
    BY <1>8 DEF Live, Persists, GrantsPersist, SameGrant
  <2>2. CASE q = p
    BY <1>1, <1>5, <2>1, <2>2 DEF Resolving, At
  <2>3. CASE q # p
    BY <1>4, <2>1, <2>3 DEF Resolving, At
  <2> QED BY <2>2, <2>3
<1> QED BY <1>1, <1>6, <1>7, <1>8, <1>9, ConvergingKept

\* Reading the live grants: of any two of them one is listed to be retired.
LEMMA ReadConverging ==
  ASSUME IInv, IInv', Persists, Converging, NEW p \in Procs, ConvergeRead(p)
  PROVE  Converging'
<1> DEFINE live == LiveGrantsFor(proc[p].account, proc[p].agent, proc[p].at)
<1>1. /\ TypeOK /\ proc[p] \in Local /\ At(p, "converge") /\ UNCHANGED <<device, grant>>
  BY DEF IInv, TypeOK, ConvergeRead
<1>2. \A g \in Grants :
        (Live(g) /\ grant[g].account = proc[p].account /\ grant[g].agent = proc[p].agent) => g \in live
  BY <1>1, ConstantsAssumption
  DEF LiveGrantsFor, Alive, Live, Converging, GrantsLast, Local, Instant, TypeOK, GrantRow, Time
<1>3. \A g \in Grants : Live(g)' => Live(g)
  BY <1>1 DEF Live
<1>4. CASE live = {} /\ Finish(p)
  <2>1. proc'[p].pc = "idle" /\ \A q \in Procs : q # p => proc'[q] = proc[q]
    BY <1>1, <1>4, FinishLocal
  <2>2. GrantsLast'
    BY <1>1, <2>1 DEF Converging, GrantsLast
  <2>3. \A q \in Procs : Approving(q)' => Approving(q) /\ proc'[q].from = proc[q].from
    BY <2>1 DEF Approving
  <2>4. \A q \in Procs, g, h \in Grants : (Live(g)' /\ Resolving(q, g, h)) => Resolving(q, g, h)'
    BY <1>1, <1>2, <1>3, <1>4, <2>1 DEF Resolving, At
  <2> QED BY <1>1, <1>3, <2>2, <2>3, <2>4, ConvergingKept
<1>5. CASE ~(live = {} /\ Finish(p))
  <2>1. PICK g \in live, last \in live :
          proc' = [proc EXCEPT
                     ![p].pc = IF live = {g} THEN "bind" ELSE "merge",
                     ![p].grant = g, ![p].extras = live \ {g},
                     ![p].scope = UNION {grant[h].scope : h \in live},
                     ![p].exp = grant[last].exp]
    BY <1>5 DEF ConvergeRead
  <2>2. /\ \A q \in Procs : q # p => proc'[q] = proc[q]
        /\ proc'[p].pc = (IF live = {g} THEN "bind" ELSE "merge")
        /\ proc'[p].from = proc[p].from /\ proc'[p].account = proc[p].account
        /\ proc'[p].agent = proc[p].agent /\ proc'[p].extras = live \ {g}
        /\ proc'[p].exp = grant[last].exp
    BY <1>1, <2>1 DEF TypeOK, Local
  <2>3. grant[last].exp > MaxTime
    BY <2>1 DEF LiveGrantsFor, Alive, Converging, GrantsLast
  <2>4. GrantsLast'
    BY <1>1, <2>2, <2>3 DEF Converging, GrantsLast
  <2>5. \A q \in Procs : Approving(q)' => Approving(q) /\ proc'[q].from = proc[q].from
    BY <1>1, <2>2 DEF Approving, At
  <2>6. \A q \in Procs, h, k \in Grants :
          (h # k /\ Live(h)' /\ Live(k)' /\ SameTriple(h, k) /\ Resolving(q, h, k))
            => Resolving(q, h, k)'
    <3> SUFFICES ASSUME NEW q \in Procs, NEW h \in Grants, NEW k \in Grants,
                        h # k, Live(h)', Live(k)', SameTriple(h, k), Resolving(q, h, k)
                 PROVE  Resolving(q, h, k)'
      OBVIOUS
    <3>1. CASE q # p
      BY <1>1, <2>2, <3>1 DEF Resolving, At
    <3>2. CASE q = p
      <4>1. h \in live /\ k \in live
        BY <1>2, <1>3, <3>2 DEF Resolving, SameTriple
      <4>2. live # {g} /\ (h \in live \ {g} \/ k \in live \ {g})
        BY <4>1
      <4> QED BY <1>1, <2>2, <3>2, <4>2 DEF Resolving, At
    <3> QED BY <3>1, <3>2
  <2> QED BY <1>1, <1>3, <2>4, <2>5, <2>6, ConvergingKept
<1> QED BY <1>4, <1>5


\* A grant that is retired takes its pairs with it; the others are still listed.
LEMMA RetireConverging ==
  ASSUME IInv, IInv', Persists, Converging, NEW p \in Procs, ConvergeRetire(p)
  PROVE  Converging'
<1>1. TypeOK /\ proc[p] \in Local /\ At(p, "retire") /\ UNCHANGED device
  BY DEF IInv, TypeOK, ConvergeRetire
<1>2. PICK x \in proc[p].extras :
        /\ RevokeGrants({x}, proc[p].at)
        /\ proc' = [proc EXCEPT
             ![p].extras = proc[p].extras \ {x},
             ![p].pc = IF proc[p].extras = {x} THEN "bind" ELSE "retire"]
  BY DEF ConvergeRetire
<1>3. /\ \A q \in Procs : q # p => proc'[q] = proc[q]
      /\ proc'[p].pc = (IF proc[p].extras = {x} THEN "bind" ELSE "retire")
      /\ proc'[p].from = proc[p].from /\ proc'[p].extras = proc[p].extras \ {x}
      /\ proc'[p].account = proc[p].account /\ proc'[p].agent = proc[p].agent
  BY <1>1, <1>2 DEF TypeOK, Local
<1>4. \A g \in Grants :
        /\ grant'[g] # None => grant[g] # None /\ grant'[g].exp = grant[g].exp
        /\ g = x => ~Live(g)'
  <2>1. {x} \in SUBSET Grants /\ proc[p].at \in Instant
    BY <1>1 DEF Local
  <2> QED BY <1>1, <1>2, <2>1, RevokedTable
<1>5. GrantsLast'
  BY <1>3, <1>4 DEF Converging, GrantsLast
<1>6. \A q \in Procs : Approving(q)' => Approving(q) /\ proc'[q].from = proc[q].from
  BY <1>1, <1>3 DEF Approving, At
<1>7. \A g \in Grants : Live(g)' => Live(g)
  BY <1>4 DEF Live, Persists, GrantsPersist, SameGrant
<1>8. \A q \in Procs, g, h \in Grants :
        (Live(g)' /\ Live(h)' /\ Resolving(q, g, h)) => Resolving(q, g, h)'
  <2> SUFFICES ASSUME NEW q \in Procs, NEW g \in Grants, NEW h \in Grants,
                      Live(g)', Live(h)', Resolving(q, g, h)
               PROVE  Resolving(q, g, h)'
    OBVIOUS
  <2>1. grant'[g].account = grant[g].account /\ grant'[g].agent = grant[g].agent
    BY <1>7 DEF Live, Persists, GrantsPersist, SameGrant
  <2>2. CASE q # p
    BY <1>3, <2>1, <2>2 DEF Resolving, At
  <2>3. CASE q = p
    <3>1. g # x /\ h # x
      BY <1>4
    <3>2. g \in proc[p].extras \ {x} \/ h \in proc[p].extras \ {x}
      BY <1>1, <2>3, <3>1 DEF Resolving, At
    <3> QED BY <1>1, <1>3, <2>1, <2>3, <3>2 DEF Resolving, At
  <2> QED BY <2>2, <2>3
<1> QED BY <1>1, <1>5, <1>6, <1>7, <1>8, ConvergingKept

\* Binding the code ends an approval that has nothing left to retire.
LEMMA BindConverging ==
  ASSUME IInv, IInv', Persists, Converging, NEW p \in Procs, ApproveBind(p)
  PROVE  Converging'
<1>1. TypeOK /\ At(p, "bind") /\ Finish(p) /\ UNCHANGED grant
  BY DEF IInv, ApproveBind
<1>2. proc'[p].pc = "idle" /\ \A q \in Procs : q # p => proc'[q] = proc[q]
  BY <1>1, FinishLocal
<1>3. \A d \in Devices : d # proc[p].from => device'[d] = device[d]
  BY DEF ApproveBind
<1>4. GrantsLast'
  BY <1>1, <1>2 DEF Converging, GrantsLast
<1>5. \A q \in Procs : Approving(q)' => Approving(q) /\ proc'[q].from = proc[q].from
  BY <1>2 DEF Approving
<1>6. Approving(p) /\ ~Approving(p)' /\ proc[p].pc = "bind"
  BY <1>1, <1>2 DEF Approving, At
<1>7. \A d \in Devices :
        (device[d] # None /\ device'[d].grant # device[d].grant)
          => \E q \in Procs : /\ Approving(q) /\ ~Approving(q)'
                              /\ proc[q].pc = "bind" /\ proc[q].from = d
  BY <1>3, <1>6
<1>8. \A g \in Grants : Live(g)' => Live(g)
  BY <1>1 DEF Live
<1>9. \A q \in Procs, g, h \in Grants : Resolving(q, g, h) => Resolving(q, g, h)'
  BY <1>1, <1>2 DEF Resolving, At
<1> QED BY <1>4, <1>5, <1>7, <1>8, <1>9, ConvergingKept

\* An approval that dies leaves its code unbound for ever.
LEMMA CrashConverging ==
  ASSUME IInv, IInv', Persists, Converging, NEW p \in Procs, Crash(p)
  PROVE  Converging'
<1>1. /\ TypeOK /\ UNCHANGED <<device, grant>>
      /\ \A q \in Procs : q # p => proc'[q] = proc[q]
  BY DEF IInv, TypeOK, Crash
<1>2. proc'[p].pc = "dead"
  BY <1>1 DEF Crash, TypeOK, Idle
<1>3. GrantsLast'
  BY <1>1, <1>2 DEF Converging, GrantsLast
<1>4. \A q \in Procs : Approving(q)' => Approving(q) /\ proc'[q].from = proc[q].from
  BY <1>1, <1>2 DEF Approving
<1>5. \A q \in Procs, g, h \in Grants :
        Resolving(q, g, h) => \/ Resolving(q, g, h)'
                              \/ \E d \in Devices : Orphan(d, grant[g].account, grant[g].agent)'
  <2> SUFFICES ASSUME NEW q \in Procs, NEW g \in Grants, NEW h \in Grants, Resolving(q, g, h)
               PROVE  \/ Resolving(q, g, h)'
                      \/ \E d \in Devices : Orphan(d, grant[g].account, grant[g].agent)'
    OBVIOUS
  <2>1. CASE q # p
    BY <1>1, <2>1 DEF Resolving, At
  <2>2. CASE q = p
    <3>1. Approving(p) /\ Claiming(proc[p]) /\ Claimed(proc[p])
      BY <2>2 DEF Resolving, At, Approving, IInv, KnowsInv, Knows
    <3>2. PICK d \in Devices : d = proc[p].from
      BY <3>1 DEF Claiming
    <3>3. /\ device[d] # None /\ device[d].account = grant[g].account
          /\ device[d].agent = grant[g].agent /\ device[d].grant = None
          /\ device[d].status \in {"approved"} \cup Spent
      BY <2>2, <3>1, <3>2 DEF Claiming, Claimed, Resolving, Converging, OwnCode
    <3>4. \A r \in Procs : Approving(r)' => proc'[r].from # d
      BY <1>1, <1>2, <3>1, <3>2 DEF Approving, Converging, OwnCode
    <3>5. Orphan(d, grant[g].account, grant[g].agent)'
      BY <1>1, <3>3, <3>4 DEF Orphan, Unbound, Spent
    <3> QED BY <3>5
  <2> QED BY <2>1, <2>2
<1>6. \A g \in Grants : Live(g)' => Live(g)
  BY <1>1 DEF Live
<1> QED BY <1>1, <1>3, <1>4, <1>5, <1>6, ConvergingKept

\* The one step that makes a grant live: who took it has yet to read the others.
LEMMA InsertConverging ==
  ASSUME IInv, IInv', Persists, Converging, GrantTtl > MaxTime,
         NEW p \in Procs, NEW n \in Grants, ApproveInsert(p, n)
  PROVE  Converging'
<1>1. /\ TypeOK /\ proc[p] \in Local /\ At(p, "insert") /\ grant[n] = None
      /\ GoTo(p, "converge") /\ "converge" \in Steps /\ UNCHANGED device
  BY DEF IInv, TypeOK, ApproveInsert, Steps
<1>2. /\ proc'[p].pc = "converge" /\ \A q \in Procs : q # p => proc'[q] = proc[q]
      /\ proc'[p].from = proc[p].from /\ proc'[p].account = proc[p].account
      /\ proc'[p].agent = proc[p].agent
  BY <1>1, GoToLocal
<1>3. /\ grant'[n].account = proc[p].account /\ grant'[n].agent = proc[p].agent
      /\ grant'[n].exp = proc[p].at + GrantTtl
      /\ \A g \in Grants : g # n => grant'[g] = grant[g]
  BY <1>1 DEF ApproveInsert, TypeOK
<1>4. proc[p].at + GrantTtl > MaxTime
  BY <1>1, ConstantsAssumption DEF Local, Instant
<1>5. GrantsLast'
  BY <1>2, <1>3, <1>4 DEF Converging, GrantsLast
<1>6. \A q \in Procs : Approving(q)' <=> Approving(q)
  BY <1>1, <1>2 DEF Approving, At
<1>7. \A q \in Procs : proc'[q].from = proc[q].from
  BY <1>2
<1>8. OwnCode'
  BY <1>1, <1>6, <1>7 DEF Converging, OwnCode
<1>9. \A d \in Devices, a \in Accounts, b \in Agents : Orphan(d, a, b) => Orphan(d, a, b)'
  BY <1>1, <1>6, <1>7 DEF Orphan, Unbound, Spent
<1>10. PairsResolved'
  <2> SUFFICES ASSUME NEW g \in Grants, NEW h \in Grants,
                      g # h, Live(g)', Live(h)', SameTriple(g, h)'
               PROVE  \/ \E q \in Procs : Resolving(q, g, h)'
                      \/ \E d \in Devices : Orphan(d, grant[g].account, grant[g].agent)'
    BY DEF PairsResolved
  <2>1. CASE g = n \/ h = n
    <3>1. Resolving(p, g, h)'
      BY <1>2, <1>3, <2>1 DEF Resolving, At, SameTriple
    <3> QED BY <3>1
  <2>2. CASE g # n /\ h # n
    <3>1. /\ Live(g) /\ Live(h) /\ SameTriple(g, h) /\ grant'[g] = grant[g]
          /\ grant[g].account \in Accounts /\ grant[g].agent \in Agents
      BY <1>1, <1>3, <2>2 DEF Live, SameTriple, TypeOK, GrantRow
    <3>2. CASE \E q \in Procs : Resolving(q, g, h)
      BY <1>1, <1>2, <3>1, <3>2 DEF Resolving, At
    <3>3. CASE \E d \in Devices : Orphan(d, grant[g].account, grant[g].agent)
      <4>1. PICK a \in Accounts, b \in Agents : a = grant[g].account /\ b = grant[g].agent
        BY <3>1
      <4>2. PICK d \in Devices : Orphan(d, a, b)
        BY <3>3, <4>1
      <4>3. Orphan(d, a, b)' /\ grant'[g].account = a /\ grant'[g].agent = b
        BY <1>9, <3>1, <4>1, <4>2
      <4> QED BY <4>3 DEF Orphan, Unbound
    <3> QED BY <3>1, <3>2, <3>3 DEF Converging, PairsResolved
  <2> QED BY <2>1, <2>2
<1> QED BY <1>5, <1>8, <1>10 DEF Converging

\* Every step keeps Converging.
LEMMA NextConverging ==
  ASSUME IInv, IInv', Persists, Converging, GrantTtl > MaxTime, [Next]_vars
  PROVE  Converging'
<1>0. TypeOK /\ proc \in [Procs -> Local]
  BY DEF IInv, TypeOK
<1> USE DEF Approving, At
<1>1. ASSUME NEW agent \in Agents, NEW d \in Devices, NEW requested \in SUBSET Scopes,
             RequestDevice(agent, d, requested)
      PROVE  Converging'
  <2>1. \A e \in Devices : device[e] # None => device'[e].grant = device[e].grant
    <3> SUFFICES ASSUME NEW e \in Devices, device[e] # None
                 PROVE  device'[e].grant = device[e].grant
      OBVIOUS
    <3>1. device[e] \in DeviceRow
      BY <1>0 DEF TypeOK
    <3> QED BY <1>1, <3>1 DEF RequestDevice, DeviceRow
  <2> QED BY <1>1, <2>1, ElsewhereConverging DEF RequestDevice
<1>2. ASSUME NEW p \in Procs, NEW agent \in Agents, NEW d \in Devices, ExchangeBegin(p, agent, d)
      PROVE  Converging'
  <2>1. \A q \in Procs : (Approving(q) \/ Approving(q)') => proc'[q] = proc[q]
    BY <1>0, <1>2 DEF ExchangeBegin, Idle
  <2> QED BY <1>2, <2>1, ElsewhereConverging DEF ExchangeBegin
<1>3. ASSUME NEW p \in Procs, NEW agent \in Agents, NEW t \in Tokens, RefreshBegin(p, agent, t)
      PROVE  Converging'
  <2>1. \A q \in Procs : (Approving(q) \/ Approving(q)') => proc'[q] = proc[q]
    BY <1>0, <1>3 DEF RefreshBegin, Idle
  <2> QED BY <1>3, <2>1, ElsewhereConverging DEF RefreshBegin
<1>4. ASSUME NEW p \in Procs, NEW account \in Accounts, NEW d \in Devices,
             NEW chosen \in SUBSET Scopes, ApproveBegin(p, account, d, chosen)
      PROVE  Converging'
  <2>1. \A q \in Procs : (Approving(q) \/ Approving(q)') => proc'[q] = proc[q]
    BY <1>0, <1>4 DEF ApproveBegin, Idle
  <2> QED BY <1>4, <2>1, ElsewhereConverging DEF ApproveBegin
<1>5. ASSUME NEW p \in Procs, Handler(p) PROVE Converging'
  <2>1. CASE ExchangeConsume(p)
    <3>1. \A q \in Procs : (Approving(q) \/ Approving(q)') => proc'[q] = proc[q]
      BY <1>0, <2>1 DEF ExchangeConsume, GoTo, Finish, Idle, Local
    <3>2. \A e \in Devices : device[e] # None => device'[e].grant = device[e].grant
      BY <1>0, <2>1 DEF ExchangeConsume, TypeOK, DeviceRow
    <3> QED BY <2>1, <3>1, <3>2, ElsewhereConverging DEF ExchangeConsume
  <2>2. CASE RefreshSpend(p)
    <3>1. \A q \in Procs : (Approving(q) \/ Approving(q)') => proc'[q] = proc[q]
      <4>1. PICK pc \in {"reuse", "issue"} : GoTo(p, pc)
        BY <2>2 DEF RefreshSpend
      <4> QED BY <1>0, <2>2, <4>1 DEF RefreshSpend, GoTo, Local
    <3> QED BY <2>2, <3>1, ElsewhereConverging DEF RefreshSpend
  <2>3. CASE RefreshReuse(p)
    <3>1. \A q \in Procs : (Approving(q) \/ Approving(q)') => proc'[q] = proc[q]
      BY <1>0, <2>3 DEF RefreshReuse, Finish, Idle
    <3>2. proc[p].grant \in Grants /\ proc[p].at \in Instant
      BY <1>0, <2>3 DEF RefreshReuse, IInv, KnowsInv, Knows, Redeeming, Local
    <3>3. \A g \in Grants : grant'[g] # None => grant[g] # None /\ grant'[g].exp = grant[g].exp
      <4>1. {proc[p].grant} \in SUBSET Grants
        BY <3>2
      <4> QED BY <1>0, <2>3, <3>2, <4>1, RevokedTable DEF RefreshReuse
    <3> QED BY <2>3, <3>1, <3>3, ElsewhereConverging DEF RefreshReuse
  <2>4. ASSUME NEW t \in Tokens, Issue(p, t) PROVE Converging'
    <3>1. \A q \in Procs : (Approving(q) \/ Approving(q)') => proc'[q] = proc[q]
      BY <1>0, <2>4 DEF Issue, Finish, Idle
    <3> QED BY <2>4, <3>1, ElsewhereConverging DEF Issue
  <2>5. CASE ApproveClaim(p)
    BY <2>5, ClaimConverging
  <2>6. CASE ApproveLookup(p)
    BY <2>6, LookupConverging
  <2>7. CASE ApproveExtend(p)
    BY <2>7, ExtendConverging
  <2>8. ASSUME NEW g \in Grants, ApproveInsert(p, g) PROVE Converging'
    BY <2>8, InsertConverging
  <2>9. CASE ConvergeRead(p)
    BY <2>9, ReadConverging
  <2>10. CASE ConvergeMerge(p)
    BY <2>10, MergeConverging
  <2>11. CASE ConvergeRetire(p)
    BY <2>11, RetireConverging
  <2>12. CASE ApproveBind(p)
    BY <2>12, BindConverging
  <2> QED
    BY <1>5, <2>1, <2>2, <2>3, <2>4, <2>5, <2>6, <2>7, <2>8, <2>9, <2>10, <2>11, <2>12
    DEF Handler
<1>6. ASSUME NEW account \in Accounts, NEW d \in Devices, Deny(account, d) PROVE Converging'
  <2>1. \A e \in Devices : device[e] # None => device'[e].grant = device[e].grant
    BY <1>0, <1>6 DEF Deny, TypeOK, DeviceRow
  <2> QED BY <1>6, <2>1, ElsewhereConverging DEF Deny
<1>7. ASSUME NEW S \in SUBSET Grants, RevokeGrants(S, now), UNCHANGED <<device, proc>>
      PROVE  Converging'
  <2>1. \A g \in Grants : grant'[g] # None => grant[g] # None /\ grant'[g].exp = grant[g].exp
    BY <1>0, <1>7, RevokedTable DEF TypeOK
  <2> QED BY <1>7, <2>1, ElsewhereConverging
<1>8. CASE \/ \E account \in Accounts, g \in Grants : RevokeGrant(account, g)
           \/ \E account \in Accounts : RevokeAllGrants(account)
  BY <1>7, <1>8 DEF RevokeGrant, RevokeAllGrants
<1>9. ASSUME NEW p \in Procs, Crash(p) PROVE Converging'
  BY <1>9, CrashConverging
<1>10. CASE (\E account \in Accounts : SetActive(account)) \/ Tick \/ UNCHANGED vars
  <2>1. UNCHANGED <<device, grant, proc>>
    BY <1>10 DEF SetActive, Tick, vars
  <2> QED BY <2>1, ElsewhereConverging
<1> QED
  BY <1>1, <1>2, <1>3, <1>4, <1>5, <1>6, <1>8, <1>9, <1>10 DEF Next

\* For grants that outlast the clock, two live grants of one account and agent
\* exist only while an approval of theirs is converging, or because one died
\* before it had, for any number of approvals in flight (#converge).
THEOREM OneLiveGrantHolds == GrantTtl > MaxTime => (Spec => []OneLiveGrant)
<1> SUFFICES ASSUME GrantTtl > MaxTime PROVE Spec => []OneLiveGrant
  OBVIOUS
<1>1. Init => Converging
  BY DEF Init, Converging, GrantsLast, OwnCode, PairsResolved, Approving, Live, Idle
<1>2. IInv /\ Converging /\ [Next]_vars => Converging'
  BY NextIInv, NextConverging
<1>3. IInv /\ Converging => OneLiveGrant
  <2> SUFFICES ASSUME IInv, Converging, NEW g \in Grants, NEW h \in Grants, g # h,
                      Alive(g, now), Alive(h, now), SameTriple(g, h)
               PROVE  \E d \in Devices : Unbound(d, grant[g].account, grant[g].agent)
    BY DEF OneLiveGrant
  <2>1. Live(g) /\ Live(h)
    BY DEF Live, Alive
  <2>2. CASE \E d \in Devices : Orphan(d, grant[g].account, grant[g].agent)
    BY <2>2 DEF Orphan
  <2>3. ASSUME NEW p \in Procs, Resolving(p, g, h)
        PROVE  \E d \in Devices : Unbound(d, grant[g].account, grant[g].agent)
    <3>1. Approving(p) /\ Claiming(proc[p]) /\ Claimed(proc[p])
      BY <2>3 DEF Resolving, At, Approving, IInv, KnowsInv, Knows
    <3>2. proc[p].from \in Devices /\ Unbound(proc[p].from, grant[g].account, grant[g].agent)
      BY <2>3, <3>1 DEF Claiming, Claimed, Resolving, Converging, OwnCode, Unbound, Spent
    <3> QED BY <3>2
  <2> QED BY <2>1, <2>2, <2>3 DEF Converging, PairsResolved
<1> QED BY InductiveInvariant, <1>1, <1>2, <1>3, PTL DEF Spec
=============================================================================
