---------------------------- MODULE LoginFlowProofs ----------------------------
(* TLAPS proofs about LoginFlow, for every value of its constants: type         *)
(* correctness, ChallengeAnswered and DisabledStaysOut.                         *)
(*                                                                              *)
(* A request works on a copy of the browser's session and stores it over what   *)
(* others stored meanwhile, so the invariant speaks of every copy there is:     *)
(* what one claims of a login (a flow with its primary and the factors so far,  *)
(* a forced change of password, a social login that waits) was proved by its    *)
(* account, at its interaction with cfg.mfa. Without cfg.mfa a challenge is not *)
(* bound to an interaction, and the end of a login uses up what was proved, so  *)
(* that the copies are sound one request at a time only (Alone).                *)
(*                                                                              *)
(* Lesser(t, s) says that session t claims no more than s. Nearly every handler *)
(* stores something Lesser than it loaded, or the challenge of a first factor   *)
(* that it has just seen proved.                                                *)
EXTENDS LoginFlow, TLAPS, FiniteSetTheorems

\* The requests in flight.
Busy == {r \in Requests : req[r] # Idle}

\* One request at a time, and no cfg.mfa.
Alone == env.inFlight = 1 /\ ~env.configured

\* The factors that P says account a proved, at interaction u and at any.
ShownAt(P, u, a) == {f \in Primaries \cup SecondFactors : <<u, a, f>> \in P}
ShownBy(P, a) == UNION {ShownAt(P, u, a) : u \in Uids}

\* With cfg.mfa: p is a first factor of a at u, or the old password of a forced change.
First(P, u, a, p) ==
  p \in ShownAt(P, u, a) \/ (p = "pwd" /\ "expired" \in env.paths /\ p \in ShownBy(P, a))

\* Interaction u is not the current one any more, and will not be.
Past(u) == u # current /\ done[u] # New

\* What a copy s of the session claims was proved.
Earned(s, P) ==
  /\ s.pending = Nobody => s.primary = "none"
  /\ ~env.configured => s.flow = NoFlow
  /\ env.configured =>
       /\ s.flow # NoFlow => /\ s.flow.completed \subseteq ShownAt(P, s.flow.uid, s.flow.account)
                             /\ First(P, s.flow.uid, s.flow.account, s.flow.primary)
       /\ s.expired # Nobody => "pwd" \in ShownBy(P, s.expired)
       /\ s.social # Nowhere => \/ "fed" \in ShownAt(P, s.social.uid, s.social.account)
                                \/ Past(s.social.uid)

\* The same without cfg.mfa, where an end of a login uses up what was proved.
EarnedAlone(s, P) ==
  /\ s.pending # Nobody => s.primary \in Primaries /\ s.primary \in ShownBy(P, s.pending)
  /\ s.expired # Nobody => "pwd" \in ShownBy(P, s.expired)
  /\ s.social # Nowhere => "fed" \in ShownBy(P, s.social.account)

\* What becomes of an interaction; what can be proved.
Results == {New, Open, Over} \cup
             [state : {"done"}, account : Accounts, amr : SUBSET (Primaries \cup SecondFactors)]
Proofs == Uids \X Accounts \X (Primaries \cup SecondFactors)

\* The copies of the session that requests work on, and what their history says.
RequestsInv ==
  /\ IsFiniteSet(Busy)
  /\ \A r \in Busy : /\ req[r].path \in env.paths /\ done[req[r].uid] # New
                     /\ Earned(req[r].mine, proved)
  /\ \A r \in Requests : armed[r] \subseteq totp \cup keyed /\ refused[r] \subseteq barred
  /\ env.inFlight = 1 => \A r, q \in Busy : r = q /\ req[r].mine = session

\* A device that is trusted was, since the factor of its account was last enabled.
TrustInv ==
  /\ trust.iat <= clock /\ \A a \in Accounts : enabledAt[a] <= clock
  /\ \A a \in Accounts : Trusted(a) /\ enabledAt[a] # 0 => a \in vouched

\* The session itself.
SessionInv == Earned(session, proved) /\ (Alone => EarnedAlone(session, proved))

IInv == TypeOK /\ RequestsInv /\ TrustInv /\ SessionInv

-----------------------------------------------------------------------------
(* What the properties ask of a step.                                        *)

\* The bodies of ChallengeAnswered and of DisabledStaysOut.
Answered ==
  \A r \in Requests : Completes(r) =>
    LET d == done'[current]
    IN IF env.configured THEN ConfiguredAnswered(r, d.account, d.amr)
       ELSE env.inFlight = 1 => LegacyAnswered(r, d.account, d.amr)

StaysOut ==
  \A r \in Requests :
    Completes(r) /\ req[r].path \notin {"expired", "continue"}
    /\ (req[r].path = "code" => env.configured)
      => done'[current].account \notin refused[r]

Holds == IInv' /\ Answered /\ StaysOut

-----------------------------------------------------------------------------
(* Sessions and what they claim.                                             *)

\* Markers are no flows, interactions, requests or results.
LEMMA MarkersApart ==
  /\ NoFlow \notin Flows /\ Nowhere \notin [uid : Uids, account : Accounts]
  /\ Idle \notin [path : Paths, uid : Uids, mine : Session]
  /\ \A a, amr : SignedIn(a, amr) \notin {New, Open, Over}
  /\ New # Open /\ New # Over /\ Open # Over
BY AbsenceAssumption
DEF NoFlow, Flows, Nowhere, Idle, Paths, SignedIn, New, Open, Over

\* The fields of a session.
LEMMA SessionFields ==
  ASSUME NEW s \in Session
  PROVE  /\ s.email \in Accounts \cup {Nobody} /\ s.pending \in Accounts \cup {Nobody}
         /\ s.primary \in Primaries \cup {"none"} /\ s.bound \in Bindings
         /\ s.flow \in Flows \cup {NoFlow} /\ s.ceremony \in BOOLEAN
         /\ s.expired \in Accounts \cup {Nobody} /\ s.social \in Bindings
         /\ s.flow # NoFlow => s.flow \in Flows
         /\ s.social # Nowhere => s.social \in [uid : Uids, account : Accounts]
BY DEF Session, Bindings

\* The factors that an account proved somewhere.
LEMMA ShownSomewhere ==
  ASSUME NEW P, NEW a, NEW f
  PROVE  f \in ShownBy(P, a) <=> \E u \in Uids : f \in ShownAt(P, u, a)
BY DEF ShownBy

\* What was proved stays shown when more is proved.
LEMMA ShownMore ==
  ASSUME NEW P, NEW Q, P \subseteq Q, NEW a
  PROVE  /\ \A u : ShownAt(P, u, a) \subseteq ShownAt(Q, u, a)
         /\ ShownBy(P, a) \subseteq ShownBy(Q, a)
BY DEF ShownAt, ShownBy

\* The model speaks of what has been proved so far.
LEMMA ShownProved ==
  /\ \A u, a : ProvedAt(u, a) = ShownAt(proved, u, a)
  /\ \A a : ProvedBy(a) = ShownBy(proved, a)
BY DEF ProvedAt, ProvedBy, ShownAt, ShownBy

\* t claims no more than s.
Lesser(t, s) ==
  /\ t \in Session
  /\ t.expired \in {s.expired, Nobody} /\ t.social \in {s.social, Nowhere}
  /\ \/ t.pending = s.pending /\ t.primary = s.primary
     \/ t.pending = Nobody /\ t.primary = "none"
  /\ \/ t.flow = NoFlow
     \/ /\ s.flow # NoFlow /\ t.flow.uid = s.flow.uid /\ t.flow.account = s.flow.account
        /\ t.flow.primary = s.flow.primary /\ t.flow.completed = s.flow.completed

\* What claims less was earned when what claims more was.
LEMMA LesserEarned ==
  ASSUME NEW s \in Session, NEW t, Lesser(t, s), NEW P
  PROVE  /\ Earned(s, P) => Earned(t, P)
         /\ EarnedAlone(s, P) => EarnedAlone(t, P)
BY DEF Lesser, Earned, EarnedAlone, First

\* To claim no more is transitive.
LEMMA LesserTwice ==
  ASSUME NEW s, NEW t, NEW v, Lesser(t, s), Lesser(v, t)
  PROVE  Lesser(v, s)
BY DEF Lesser

\* A challenge that is forgotten claims nothing; the rest of the session stays.
LEMMA DroppedLesser ==
  ASSUME NEW s \in Session
  PROVE  /\ Lesser(s, s) /\ Lesser(Dropped(s), s)
         /\ Dropped(s).pending = Nobody /\ Dropped(s).primary = "none" /\ Dropped(s).flow = NoFlow
         /\ Dropped(s).expired = s.expired /\ Dropped(s).social = s.social
<1>1. PICK t : t = Dropped(s)
  OBVIOUS
<1>2. /\ t \in Session /\ t.pending = Nobody /\ t.primary = "none" /\ t.flow = NoFlow
      /\ t.expired = s.expired /\ t.social = s.social
  BY <1>1 DEF Dropped, Session, Bindings
<1> QED BY <1>1, <1>2 DEF Lesser

\* Reading the flow leaves the session or forgets the challenge.
LEMMA ReadLesser ==
  ASSUME NEW s \in Session, NEW u
  PROVE  Lesser(ReadFlow(s, u), s)
BY DroppedLesser DEF ReadFlow

\* So does the end of a login, which forgets the address typed too.
LEMMA TakenLesser ==
  ASSUME NEW s \in Session
  PROVE  /\ Lesser(Taken(s), s)
         /\ Taken(s).pending = Nobody /\ Taken(s).primary = "none" /\ Taken(s).flow = NoFlow
         /\ Taken(s).expired = s.expired /\ Taken(s).social = s.social
<1>1. PICK d : d = Dropped(s)
  OBVIOUS
<1>2. /\ d \in Session /\ d.pending = Nobody /\ d.primary = "none" /\ d.flow = NoFlow
      /\ d.expired = s.expired /\ d.social = s.social
  BY <1>1, DroppedLesser DEF Lesser
<1>3. PICK t : t = [d EXCEPT !.email = Nobody]
  OBVIOUS
<1>4. /\ t \in Session /\ t.pending = Nobody /\ t.primary = "none" /\ t.flow = NoFlow
      /\ t.expired = s.expired /\ t.social = s.social
  BY <1>2, <1>3 DEF Session
<1>5. Taken(s) = t
  BY <1>1, <1>3 DEF Taken
<1> QED BY <1>4, <1>5 DEF Lesser

\* The address typed and the challenge of a passkey claim nothing.
LEMMA PlainLesser ==
  ASSUME NEW s \in Session, NEW a \in Accounts \cup {Nobody}, NEW b \in BOOLEAN
  PROVE  /\ Lesser([s EXCEPT !.email = a], s) /\ Lesser([s EXCEPT !.ceremony = b], s)
         /\ Lesser([s EXCEPT !.expired = Nobody], s) /\ Lesser([s EXCEPT !.social = Nowhere], s)
<1>1. Lesser([s EXCEPT !.email = a], s)
  BY DEF Session, Lesser
<1>2. Lesser([s EXCEPT !.ceremony = b], s)
  BY DEF Session, Lesser
<1>3. Lesser([s EXCEPT !.expired = Nobody], s)
  BY DEF Session, Lesser
<1>4. Lesser([s EXCEPT !.social = Nowhere], s)
  BY DEF Session, Lesser, Bindings
<1> QED BY <1>1, <1>2, <1>3, <1>4

\* A flow that is answered, started or has aged says what it said.
LEMMA FlowLesser ==
  ASSUME NEW s \in Session, s.flow # NoFlow
  PROVE  /\ Lesser([s EXCEPT !.flow = [s.flow EXCEPT !.started = TRUE]], s)
         /\ Lesser([s EXCEPT !.flow = [s.flow EXCEPT !.old = TRUE]], s)
         /\ Lesser(FailedProof(s), s)
<1>1. s.flow \in Flows
  BY SessionFields
<1>2. ASSUME NEW w \in Flows, w.uid = s.flow.uid, w.account = s.flow.account,
             w.primary = s.flow.primary, w.completed = s.flow.completed
      PROVE  Lesser([s EXCEPT !.flow = w], s)
  BY <1>2 DEF Session, Lesser
<1>3. Lesser([s EXCEPT !.flow = [s.flow EXCEPT !.started = TRUE]], s)
  <2>1. PICK w : w = [s.flow EXCEPT !.started = TRUE]
    OBVIOUS
  <2>2. w \in Flows /\ w.uid = s.flow.uid /\ w.account = s.flow.account
        /\ w.primary = s.flow.primary /\ w.completed = s.flow.completed
    BY <1>1, <2>1 DEF Flows
  <2> QED BY <1>2, <2>1, <2>2
<1>4. Lesser([s EXCEPT !.flow = [s.flow EXCEPT !.old = TRUE]], s)
  <2>1. PICK w : w = [s.flow EXCEPT !.old = TRUE]
    OBVIOUS
  <2>2. w \in Flows /\ w.uid = s.flow.uid /\ w.account = s.flow.account
        /\ w.primary = s.flow.primary /\ w.completed = s.flow.completed
    BY <1>1, <2>1 DEF Flows
  <2> QED BY <1>2, <2>1, <2>2
<1>5. Lesser(FailedProof(s), s)
  <2>1. CASE s.flow.attempts + 1 >= MaxAttempts
    BY <2>1, DroppedLesser DEF FailedProof
  <2>2. CASE ~(s.flow.attempts + 1 >= MaxAttempts)
    <3>1. PICK n : n = s.flow.attempts + 1
      OBVIOUS
    <3>2. n \in 0..(MaxAttempts - 1)
      BY <1>1, <2>2, <3>1, BoundsAssumption DEF Flows
    <3>3. PICK w : w = [s.flow EXCEPT !.attempts = n]
      OBVIOUS
    <3>4. w \in Flows /\ w.uid = s.flow.uid /\ w.account = s.flow.account
          /\ w.primary = s.flow.primary /\ w.completed = s.flow.completed
      BY <1>1, <3>2, <3>3 DEF Flows
    <3>5. FailedProof(s) = [s EXCEPT !.flow = w]
      BY <2>2, <3>1, <3>3 DEF FailedProof
    <3> QED BY <1>2, <3>4, <3>5
  <2> QED BY <2>1, <2>2
<1> QED BY <1>3, <1>4, <1>5

-----------------------------------------------------------------------------
(* How a request ends.                                                       *)

\* What was proved stays proved for a copy of the session that a step leaves alone.
LEMMA EarnedKept ==
  ASSUME NEW s \in Session, Earned(s, proved), UNCHANGED env,
         env.configured => proved \subseteq proved', \A u \in Uids : Past(u) => Past(u)'
  PROVE  Earned(s, proved)'
<1>1. env.configured =>
        /\ \A u, a : ShownAt(proved, u, a) \subseteq ShownAt(proved', u, a)
        /\ \A a : ShownBy(proved, a) \subseteq ShownBy(proved', a)
  BY ShownMore
<1>2. s.social # Nowhere => s.social.uid \in Uids
  BY SessionFields
<1> QED BY <1>1, <1>2 DEF Earned, First

\* How a step may write the trusted device cookie.
TrustStep ==
  \/ UNCHANGED <<trust, vouched>>
  \/ \E a \in Accounts : trust' = [account |-> a, iat |-> clock] /\ vouched' = {a}

\* The device is trusted from now on: it was since the factor was last enabled.
LEMMA TrustKept ==
  ASSUME IInv, TrustStep, UNCHANGED <<clock, enabledAt>>
  PROVE  /\ TrustInv'
         /\ trust' \in [account : Accounts \cup {Nobody}, iat : 0..MaxTime]
         /\ vouched' \subseteq Accounts
<1>1. clock \in 1..MaxTime /\ TrustInv /\ MaxTime \in Nat
  BY BoundsAssumption DEF IInv, TypeOK
<1>2. CASE UNCHANGED <<trust, vouched>>
  BY <1>1, <1>2 DEF IInv, TypeOK, TrustInv, Trusted
<1>3. ASSUME NEW a \in Accounts, trust' = [account |-> a, iat |-> clock], vouched' = {a}
      PROVE  /\ TrustInv'
             /\ trust' \in [account : Accounts \cup {Nobody}, iat : 0..MaxTime]
             /\ vouched' \subseteq Accounts
  BY <1>1, <1>3 DEF TrustInv, Trusted
<1> QED BY <1>2, <1>3 DEF TrustStep

\* A request that ends keeps the invariant if what it stores was proved.
LEMMA EndStep ==
  ASSUME IInv, NEW r \in Busy, NEW t \in Session, Commit(r, t),
         done' \in [Uids -> Results], \A u \in Uids : done[u] # New => done'[u] # New,
         TrustStep, stale' \subseteq Accounts, proved' \subseteq Proofs,
         env.configured => proved \subseteq proved',
         Earned(t, proved)', Alone => EarnedAlone(t, proved)'
  PROVE  IInv'
<1>1. /\ UNCHANGED <<env, clock, totp, keyed, enabledAt, barred, current>>
      /\ session' = IF t = Mine(r) THEN session ELSE t
      /\ req' = [req EXCEPT ![r] = Idle] /\ armed' = [armed EXCEPT ![r] = {}]
      /\ refused' = [refused EXCEPT ![r] = {}]
  BY DEF Commit, world
<1>2. r \in Requests /\ req[r] # Idle
  BY DEF Busy
<1>3. /\ req' \in [Requests -> Request] /\ req'[r] = Idle
      /\ \A q \in Requests : q # r => req'[q] = req[q]
  BY <1>1, <1>2 DEF IInv, TypeOK, Request
<1>4. /\ armed' \in [Requests -> SUBSET Accounts] /\ refused' \in [Requests -> SUBSET Accounts]
      /\ \A q \in Requests : armed'[q] \subseteq armed[q] /\ refused'[q] \subseteq refused[q]
  BY <1>1, <1>2 DEF IInv, TypeOK
<1>5. /\ TrustInv' /\ vouched' \subseteq Accounts
      /\ trust' \in [account : Accounts \cup {Nobody}, iat : 0..MaxTime]
  BY <1>1, TrustKept
<1>6. TypeOK'
  BY <1>1, <1>3, <1>4, <1>5 DEF IInv, TypeOK, Results, Proofs
<1>7. \A u \in Uids : Past(u) => Past(u)'
  BY <1>1 DEF Past
<1>8. \A q \in Busy : req[q].mine \in Session /\ req[q].uid \in Uids
  BY DEF Busy, IInv, TypeOK, Request
<1>9. RequestsInv'
  <2>1. Busy' = Busy \ {r} /\ IsFiniteSet(Busy)
    BY <1>3, <1>2 DEF Busy, IInv, RequestsInv
  <2>2. IsFiniteSet(Busy')
    BY <2>1, FS_RemoveElement
  <2>3. ASSUME NEW q \in Busy' PROVE /\ req'[q].path \in env'.paths /\ done'[req'[q].uid] # New
                                     /\ Earned(req[q].mine, proved)'
    <3>1. q \in Busy /\ req'[q] = req[q]
      BY <1>3, <2>1 DEF Busy
    <3>2. PICK m \in Session : m = req[q].mine
      BY <1>8, <3>1
    <3>3. Earned(m, proved)
      BY <3>1, <3>2 DEF IInv, RequestsInv
    <3>4. Earned(m, proved)'
      BY <1>1, <1>7, <3>3, EarnedKept
    <3>5. req'[q].mine = m
      BY <3>1, <3>2
    <3>6. Earned(req[q].mine, proved)'
      BY <3>4, <3>5 DEF Earned, First, Past
    <3> QED
      BY <1>1, <1>8, <3>1, <3>6 DEF IInv, RequestsInv
  <2>4. \A q \in Requests : armed'[q] \subseteq totp' \cup keyed' /\ refused'[q] \subseteq barred'
    BY <1>1, <1>4 DEF IInv, RequestsInv
  <2>5. env'.inFlight = 1 => Busy' = {}
    BY <1>1, <2>1 DEF IInv, RequestsInv
  <2> QED
    BY <2>2, <2>3, <2>4, <2>5 DEF RequestsInv
<1>10. SessionInv'
  <2>1. CASE t # Mine(r)
    <3>1. session' = t
      BY <1>1, <2>1
    <3> QED
      BY <1>1, <3>1 DEF SessionInv, Earned, EarnedAlone, First, Past, Alone
  <2>2. CASE t = Mine(r)
    <3>1. PICK s \in Session : s = session
      BY DEF IInv, TypeOK
    <3>2. Earned(s, proved)'
      BY <1>1, <1>7, <3>1, EarnedKept DEF IInv, SessionInv
    <3>3. session' = s
      BY <1>1, <2>2, <3>1
    <3>4. Alone => t = s
      BY <2>2, <3>1 DEF Alone, IInv, RequestsInv, Mine
    <3>5. Alone' => EarnedAlone(s, proved)'
      BY <1>1, <3>4 DEF Alone
    <3>6. Earned(session, proved)'
      BY <3>2, <3>3 DEF Earned, First, Past
    <3> QED
      BY <3>3, <3>5, <3>6 DEF SessionInv, EarnedAlone
  <2> QED BY <2>1, <2>2
<1> QED
  BY <1>5, <1>6, <1>9, <1>10 DEF IInv

\* Only the request that ends can have signed an account in.
LEMMA OnlyOne ==
  ASSUME IInv, NEW r \in Busy, NEW t, Commit(r, t), NEW q \in Requests, Completes(q)
  PROVE  q = r
BY DEF Commit, Completes, IInv, TypeOK, Busy

\* The answer is a page, or a redirect to the login.
LEMMA AnswerStep ==
  ASSUME IInv, NEW r \in Busy, NEW t \in Session, Answer(r, t),
         stale' \subseteq Accounts, proved \subseteq proved', proved' \subseteq Proofs,
         Earned(t, proved)', Alone => EarnedAlone(t, proved)'
  PROVE  Holds
<1>1. Commit(r, t) /\ UNCHANGED <<done, trust, vouched>>
  BY DEF Answer
<1>2. done' \in [Uids -> Results]
  BY <1>1 DEF IInv, TypeOK, Results
<1>3. IInv'
  BY <1>1, <1>2, EndStep DEF TrustStep
<1>4. \A q \in Requests : ~Completes(q)
  BY <1>1 DEF Completes
<1> QED BY <1>3, <1>4 DEF Holds, Answered, StaysOut

\* What a request that ends stores is proved if it claims no more than the request did.
LEMMA LesserProved ==
  ASSUME IInv, NEW r \in Busy, NEW t, Lesser(t, Mine(r)), UNCHANGED <<env, current>>,
         \A u \in Uids : u # current => done'[u] = done[u], proved \subseteq proved'
  PROVE  t \in Session /\ Earned(t, proved)' /\ (Alone => EarnedAlone(t, proved)')
<1>1. PICK s \in Session : s = Mine(r) /\ Earned(s, proved) /\ (Alone => s = session)
  BY DEF Mine, Busy, IInv, TypeOK, Request, RequestsInv, Alone
<1>2. t \in Session
  BY DEF Lesser
<1>3. Earned(t, proved)'
  <2>1. Earned(t, proved)
    BY <1>1, LesserEarned
  <2>2. \A u \in Uids : Past(u) => Past(u)'
    BY DEF Past
  <2> QED BY <1>2, <2>1, <2>2, EarnedKept
<1>4. Alone => EarnedAlone(t, proved)'
  <2>1. Alone => EarnedAlone(s, proved')
    <3>1. Alone => EarnedAlone(s, proved)
      BY <1>1 DEF IInv, SessionInv
    <3> QED BY <3>1, ShownMore DEF EarnedAlone
  <2> QED BY <1>1, <2>1, LesserEarned DEF EarnedAlone
<1> QED BY <1>2, <1>3, <1>4

\* An answer that claims no more than the request did.
LEMMA LesserStep ==
  ASSUME IInv, NEW r \in Busy, NEW t, Lesser(t, Mine(r)), Answer(r, t),
         stale' \subseteq Accounts, proved \subseteq proved', proved' \subseteq Proofs
  PROVE  Holds
<1>1. UNCHANGED <<env, current, done>>
  BY DEF Answer, Commit, world
<1>2. t \in Session /\ Earned(t, proved)' /\ (Alone => EarnedAlone(t, proved)')
  BY <1>1, LesserProved
<1> QED BY <1>2, AnswerStep

\* The request signs account a in.
LEMMA CompleteStep ==
  ASSUME IInv, NEW r \in Busy, Live, NEW a \in Accounts,
         NEW amr \in SUBSET (Primaries \cup SecondFactors),
         NEW t \in Session, Complete(r, a, amr, t), TrustStep,
         stale' \subseteq Accounts, proved' \subseteq Proofs,
         env.configured => proved \subseteq proved',
         Earned(t, proved)', Alone => EarnedAlone(t, proved)',
         IF env.configured THEN ConfiguredAnswered(r, a, amr)
         ELSE env.inFlight = 1 => LegacyAnswered(r, a, amr),
         \/ req[r].path \in {"expired", "continue"} \/ (req[r].path = "code" /\ ~env.configured)
         \/ a \notin barred
  PROVE  Holds
<1>1. Commit(r, t) /\ done' = [done EXCEPT ![current] = SignedIn(a, amr)]
  BY DEF Complete
<1>2. current \in Uids
  BY DEF Live, IInv, TypeOK
<1>3. SignedIn(a, amr) \in Results
  BY DEF SignedIn, Results
<1>4. done' \in [Uids -> Results] /\ done'[current] = SignedIn(a, amr)
      /\ \A u \in Uids : u # current => done'[u] = done[u]
  BY <1>1, <1>2, <1>3 DEF IInv, TypeOK, Results
<1>5. IInv'
  <2>1. \A u \in Uids : done[u] # New => done'[u] # New
    BY <1>4, MarkersApart
  <2> QED BY <1>1, <1>4, <2>1, EndStep
<1>6. done'[current].account = a /\ done'[current].amr = amr
  BY <1>4 DEF SignedIn
<1>7. r \in Requests /\ refused[r] \subseteq barred
  BY DEF Busy, IInv, RequestsInv
<1>8. Answered
  BY <1>1, <1>6, OnlyOne DEF Answered
<1>9. StaysOut
  BY <1>1, <1>6, <1>7, OnlyOne DEF StaysOut
<1> QED BY <1>5, <1>8, <1>9 DEF Holds

-----------------------------------------------------------------------------
(* The gate of the second factor.                                            *)

\* A challenge is owed.
Owed(a) == HasFactor(a) \/ StepUp \/ (env.configured /\ (env.required # 0 \/ env.custom))

\* t is s with the challenge of account a after its first factor p.
Challenging(t, s, a, p) ==
  /\ t \in Session /\ t.pending = a /\ t.primary = p /\ t.expired = s.expired /\ t.social = s.social
  /\ t.flow = IF env.configured THEN NewFlow(current, a, p) ELSE NoFlow

\* Lesser when the challenge is forgotten, or the flow of it.
LEMMA ClearedLesser ==
  ASSUME NEW s \in Session
  PROVE  LET c == [s EXCEPT !.bound = Nowhere, !.flow = NoFlow]
         IN /\ Lesser(c, s) /\ Lesser(Dropped(c), s)
            /\ c.flow = NoFlow /\ c.expired = s.expired /\ c.social = s.social
<1>1. PICK c : c = [s EXCEPT !.bound = Nowhere, !.flow = NoFlow]
  OBVIOUS
<1>2. /\ c \in Session /\ c.flow = NoFlow /\ c.pending = s.pending /\ c.primary = s.primary
      /\ c.expired = s.expired /\ c.social = s.social
  BY <1>1 DEF Session, Bindings
<1>3. Lesser(c, s)
  BY <1>2 DEF Lesser
<1>4. Lesser(Dropped(c), s)
  BY <1>2, <1>3, DroppedLesser, LesserTwice
<1> QED BY <1>1, <1>2, <1>3, <1>4

\* A device that the gate lets pass is one that vouches for the account.
LEMMA TrustedVouched ==
  ASSUME IInv, NEW a \in Accounts, env.devices, Trusted(a), ~StepUp,
         ~(env.configured /\ (env.required # 0 \/ env.custom))
  PROVE  Vouched(a)
BY DEF IInv, TrustInv, Trusted, Vouched

\* The gate forgets what the session claimed or puts the challenge of this login in its
\* place, and lets a login pass without one only if none is owed or a device stands for it.
LEMMA GateStep ==
  ASSUME IInv, NEW s \in Session, NEW a \in Accounts, NEW u \in Uids, NEW p \in Primaries
  PROVE  LET g == SecondFactorGate(s, a, u, p)
         IN IF g.kind = "challenge"
              THEN \/ Lesser(g.session, s)
                   \/ Challenging(g.session, s, a, p) /\ (env.configured => current = u)
            ELSE Lesser(g.session, s) /\ (env.configured => current = u) /\ (Owed(a) => Vouched(a))
<1>1. PICK c : c = [s EXCEPT !.bound = Nowhere, !.flow = NoFlow]
  OBVIOUS
<1>2. /\ c \in Session /\ Lesser(c, s) /\ Lesser(Dropped(c), s)
      /\ c.flow = NoFlow /\ c.expired = s.expired /\ c.social = s.social
  BY <1>1, ClearedLesser DEF Lesser
<1>3. CASE ~env.configured
  <2>1. SecondFactorGate(s, a, u, p) = LegacyGate(c, a, p)
    BY <1>1, <1>3 DEF SecondFactorGate
  <2>2. PICK t : t = [c EXCEPT !.pending = a, !.primary = p]
    OBVIOUS
  <2>3. Challenging(t, s, a, p)
    BY <1>2, <1>3, <2>2 DEF Challenging, Session
  <2>4. LegacyGate(c, a, p) =
          IF ~HasFactor(a) THEN Gated(IF StepUp THEN "challenge" ELSE "none", c)
          ELSE IF env.devices /\ ~StepUp /\ Trusted(a) THEN Gated("trusted", c)
          ELSE Gated("challenge", t)
    BY <2>2 DEF LegacyGate
  <2>5. CASE ~HasFactor(a)
    <3>1. LegacyGate(c, a, p) = Gated(IF StepUp THEN "challenge" ELSE "none", c)
      BY <2>4, <2>5
    <3>2. CASE StepUp
      BY <1>2, <2>1, <3>1, <3>2 DEF Gated
    <3>3. CASE ~StepUp
      BY <1>2, <1>3, <2>1, <2>5, <3>1, <3>3 DEF Gated, Owed
    <3> QED BY <3>2, <3>3
  <2>6. CASE HasFactor(a) /\ env.devices /\ ~StepUp /\ Trusted(a)
    <3>1. LegacyGate(c, a, p) = Gated("trusted", c)
      BY <2>4, <2>6
    <3>2. Vouched(a)
      BY <1>3, <2>6, TrustedVouched
    <3> QED BY <1>2, <1>3, <2>1, <3>1, <3>2 DEF Gated
  <2>7. CASE HasFactor(a) /\ ~(env.devices /\ ~StepUp /\ Trusted(a))
    <3>1. LegacyGate(c, a, p) = Gated("challenge", t)
      BY <2>4, <2>7
    <3> QED BY <1>3, <2>1, <2>3, <3>1 DEF Gated
  <2> QED BY <2>5, <2>6, <2>7
<1>4. CASE env.configured
  <2>1. SecondFactorGate(s, a, u, p) = ConfiguredGate(c, a, u, p)
    BY <1>1, <1>4 DEF SecondFactorGate
  <2>2. PICK t : t = [c EXCEPT !.pending = a, !.primary = p, !.flow = NewFlow(current, a, p)]
    OBVIOUS
  <2>3. current = u => Challenging(t, s, a, p)
    <3>1. NewFlow(u, a, p) \in Flows
      BY BoundsAssumption DEF NewFlow, Flows
    <3>2. current = u => t \in Session
      BY <1>2, <2>2, <3>1 DEF Session
    <3>3. /\ t.pending = a /\ t.primary = p /\ t.expired = s.expired /\ t.social = s.social
          /\ t.flow = NewFlow(current, a, p)
      BY <1>2, <2>2 DEF Session
    <3> QED BY <1>4, <3>2, <3>3 DEF Challenging
  <2>4. ConfiguredGate(c, a, u, p) =
          IF current # u THEN Gated("challenge", Dropped(c))
          ELSE IF ~HasFactor(a) /\ ~env.custom /\ ~(StepUp \/ env.required # 0)
            THEN Gated("none", Dropped(c))
          ELSE IF Cardinality(Groups(a, p)) < Required - 1 THEN Gated("challenge", Dropped(c))
          ELSE IF /\ env.devices /\ ~(StepUp \/ env.required # 0) /\ ~env.custom
                  /\ Required = 2 /\ Trusted(a)
                 THEN Gated("trusted", Dropped(c))
          ELSE Gated("challenge", t)
    BY <2>2 DEF ConfiguredGate
  <2>5. PICK g : g = ConfiguredGate(c, a, u, p)
    OBVIOUS
  <2>6. \/ g = Gated("challenge", Dropped(c))
        \/ current = u /\ ~HasFactor(a) /\ ~env.custom /\ ~(StepUp \/ env.required # 0)
             /\ g = Gated("none", Dropped(c))
        \/ current = u /\ env.devices /\ ~(StepUp \/ env.required # 0) /\ ~env.custom /\ Trusted(a)
             /\ g = Gated("trusted", Dropped(c))
        \/ current = u /\ g = Gated("challenge", t)
    BY <2>4, <2>5, Zenon
  <2>7. CASE g = Gated("challenge", Dropped(c))
    BY <1>2, <2>1, <2>5, <2>7 DEF Gated
  <2>8. CASE current = u /\ ~HasFactor(a) /\ ~env.custom /\ ~(StepUp \/ env.required # 0)
               /\ g = Gated("none", Dropped(c))
    BY <1>2, <2>1, <2>5, <2>8 DEF Gated, Owed
  <2>9. CASE current = u /\ env.devices /\ ~(StepUp \/ env.required # 0) /\ ~env.custom /\ Trusted(a)
               /\ g = Gated("trusted", Dropped(c))
    <3>1. Vouched(a)
      BY <2>9, TrustedVouched
    <3> QED BY <1>2, <2>1, <2>5, <2>9, <3>1 DEF Gated
  <2>10. CASE current = u /\ g = Gated("challenge", t)
    BY <2>1, <2>3, <2>5, <2>10 DEF Gated
  <2> QED BY <2>6, <2>7, <2>8, <2>9, <2>10
<1> QED BY <1>3, <1>4

\* The gate asks for a challenge: its session claims what the request did or the first
\* factor that has just been proved.
LEMMA GateChallenge ==
  ASSUME IInv, NEW r \in Busy, NEW s, Lesser(s, Mine(r)), NEW a \in Accounts, NEW p \in Primaries,
         SecondFactorGate(s, a, req[r].uid, p).kind = "challenge",
         NEW t, Lesser(t, SecondFactorGate(s, a, req[r].uid, p).session), Answer(r, t),
         stale' \subseteq Accounts, proved \subseteq proved', proved' \subseteq Proofs,
         env.configured => First(proved', current, a, p),
         Alone => p \in ShownBy(proved', a)
  PROVE  Holds
<1>1. s \in Session /\ req[r].uid \in Uids
  BY DEF Lesser, Busy, IInv, TypeOK, Request
<1>2. PICK u \in Uids : u = req[r].uid
  BY <1>1
<1>3. PICK g : g = SecondFactorGate(s, a, u, p).session
  OBVIOUS
<1>4. Lesser(g, s) \/ Challenging(g, s, a, p)
  BY <1>1, <1>2, <1>3, GateStep
<1>5. Lesser(t, g)
  BY <1>2, <1>3
<1>6. CASE Lesser(g, s)
  <2>1. Lesser(t, Mine(r))
    BY <1>5, <1>6, LesserTwice
  <2> QED BY <2>1, LesserStep
<1>7. CASE Challenging(g, s, a, p)
  <2>1. UNCHANGED <<env, current, done>>
    BY DEF Answer, Commit, world
  <2>2. Earned(s, proved)' /\ (Alone => EarnedAlone(s, proved)')
    BY <2>1, LesserProved
  <2>3. a # Nobody /\ g \in Session /\ t \in Session
    BY <1>5, <1>7, AbsenceAssumption DEF Challenging, Lesser
  <2>4. Earned(g, proved)'
    <3>1. env.configured => /\ g.flow.completed = {} /\ g.flow.uid = current
                            /\ g.flow.account = a /\ g.flow.primary = p
      BY <1>7 DEF Challenging, NewFlow
    <3>2. Earned(s, proved')
      BY <2>1, <2>2 DEF Earned, First, Past
    <3>3. Earned(g, proved')
      BY <1>7, <2>3, <3>1, <3>2 DEF Challenging, Earned
    <3> QED BY <2>1, <3>3 DEF Earned, First, Past
  <2>5. Alone => EarnedAlone(g, proved)'
    BY <1>7, <2>2, <2>3 DEF Challenging, EarnedAlone
  <2>6. Earned(t, proved)'
    <3>1. Earned(g, proved')
      BY <2>1, <2>4 DEF Earned, First, Past
    <3>2. Earned(t, proved')
      BY <1>5, <2>3, <3>1, LesserEarned
    <3> QED BY <2>1, <3>2 DEF Earned, First, Past
  <2>7. Alone => EarnedAlone(t, proved)'
    <3>1. Alone => EarnedAlone(t, proved')
      BY <1>5, <2>3, <2>5, LesserEarned DEF EarnedAlone
    <3> QED BY <3>1 DEF EarnedAlone
  <2> QED BY <2>3, <2>6, <2>7, AnswerStep
<1> QED BY <1>4, <1>6, <1>7

\* The gate lets the login pass.
LEMMA GatePassed ==
  ASSUME IInv, NEW r \in Busy, Live, NEW s, Lesser(s, Mine(r)),
         NEW a \in Accounts, NEW p \in Primaries,
         SecondFactorGate(s, a, req[r].uid, p).kind # "challenge",
         NEW t, Lesser(t, SecondFactorGate(s, a, req[r].uid, p).session),
         Complete(r, a, {p}, t), TrustStep,
         stale' \subseteq Accounts, proved \subseteq proved', proved' \subseteq Proofs,
         env.configured => First(proved, current, a, p) \/ p \in Presented(r),
         Alone => p \in ShownBy(proved, a) \cup Presented(r),
         req[r].path \in {"expired", "continue"} \/ a \notin barred
  PROVE  Holds
<1>1. s \in Session /\ req[r].uid \in Uids
  BY DEF Lesser, Busy, IInv, TypeOK, Request
<1>2. PICK u \in Uids : u = req[r].uid
  BY <1>1
<1>3. PICK g : g = SecondFactorGate(s, a, u, p).session
  OBVIOUS
<1>4. Lesser(g, s) /\ (Owed(a) => Vouched(a))
  BY <1>1, <1>2, <1>3, GateStep
<1>5. Lesser(t, Mine(r))
  <2>1. Lesser(t, g)
    BY <1>2, <1>3
  <2> QED BY <1>4, <2>1, LesserTwice
<1>6. /\ Commit(r, t) /\ done' = [done EXCEPT ![current] = SignedIn(a, {p})]
      /\ UNCHANGED <<env, current>>
  BY DEF Complete, Commit, world
<1>7. \A v \in Uids : v # current => done'[v] = done[v]
  BY <1>6 DEF IInv, TypeOK
<1>8. t \in Session /\ Earned(t, proved)' /\ (Alone => EarnedAlone(t, proved)')
  BY <1>5, <1>6, <1>7, LesserProved
<1>9. a \in armed[r] \/ StepUp \/ (env.configured /\ (env.required # 0 \/ env.custom)) => Vouched(a)
  BY <1>4 DEF Owed, HasFactor, Busy, IInv, RequestsInv
<1>10. env.configured => ConfiguredAnswered(r, a, {p})
  <2>1. env.configured => {p} \subseteq Presented(r) \cup ProvedAt(current, a)
                            \cup (IF "expired" \in env.paths THEN ProvedBy(a) \cap {"pwd"} ELSE {})
    BY ShownProved DEF First
  <2> QED BY <1>9, <2>1 DEF ConfiguredAnswered
<1>11. ~env.configured /\ env.inFlight = 1 => LegacyAnswered(r, a, {p})
  <2>1. ~env.configured /\ env.inFlight = 1 => {p} \subseteq Presented(r) \cup ProvedBy(a)
    BY ShownProved DEF Alone
  <2> QED BY <1>9, <2>1 DEF LegacyAnswered
<1> QED BY <1>8, <1>10, <1>11, CompleteStep

-----------------------------------------------------------------------------
(* The handlers of the primary factors.                                      *)

\* What a request in flight works on.
LEMMA Loaded ==
  ASSUME IInv, NEW r \in Requests, req[r] # Idle
  PROVE  /\ r \in Busy /\ Mine(r) \in Session /\ req[r].uid \in Uids /\ req[r].path \in Paths
         /\ req[r].path \in env.paths /\ done[req[r].uid] # New
         /\ Earned(Mine(r), proved) /\ (Alone => EarnedAlone(Mine(r), proved))
<1>1. /\ r \in Busy /\ Mine(r) \in Session /\ req[r].uid \in Uids /\ req[r].path \in Paths
      /\ req[r].path \in env.paths /\ done[req[r].uid] # New /\ Earned(Mine(r), proved)
  BY DEF Busy, Mine, IInv, TypeOK, Request, RequestsInv
<1>2. Alone => EarnedAlone(Mine(r), proved)
  BY <1>1 DEF Alone, Mine, IInv, RequestsInv, SessionInv
<1> QED BY <1>1, <1>2

\* A factor is proved at the current interaction.
LEMMA ProvesStep ==
  ASSUME IInv, Live, NEW a \in Accounts, NEW f \in Primaries \cup SecondFactors, Proves(a, f)
  PROVE  /\ current \in Uids /\ proved \subseteq proved' /\ proved' \subseteq Proofs
         /\ f \in ShownAt(proved', current, a) /\ f \in ShownBy(proved', a)
<1>1. current \in Uids
  BY DEF Live, IInv, TypeOK
<1>2. proved \subseteq proved' /\ proved' \subseteq Proofs
  BY <1>1 DEF Proves, IInv, TypeOK, Proofs
<1>3. f \in ShownAt(proved', current, a)
  BY DEF Proves, ShownAt
<1> QED BY <1>1, <1>2, <1>3, ShownSomewhere

\* A handler that proves a first factor of an account that is not barred, and asks the gate.
LEMMA PassGateStep ==
  ASSUME IInv, NEW r \in Busy, Live, NEW a \in Accounts, NEW p \in Primaries, a \notin barred,
         PassGate(r, Mine(r), a, p), Proves(a, p), UNCHANGED stale, p \in Presented(r)
  PROVE  Holds
<1>1. Mine(r) \in Session /\ Lesser(Mine(r), Mine(r)) /\ req[r].uid \in Uids
  BY Loaded, DroppedLesser DEF Busy
<1>2. PICK g : g = SecondFactorGate(Mine(r), a, req[r].uid, p)
  OBVIOUS
<1>3. /\ proved \subseteq proved' /\ proved' \subseteq Proofs
      /\ stale' \subseteq Accounts /\ First(proved', current, a, p) /\ p \in ShownBy(proved', a)
  BY ProvesStep DEF First, IInv, TypeOK
<1>4. g.session \in Session
  BY <1>1, <1>2, GateStep DEF Lesser, Challenging
<1>5. CASE g.kind = "challenge"
  <2>1. Answer(r, g.session)
    BY <1>2, <1>5 DEF PassGate
  <2>2. Lesser(g.session, g.session)
    BY <1>4, DroppedLesser
  <2> QED BY <1>1, <1>2, <1>3, <1>5, <2>1, <2>2, GateChallenge
<1>6. CASE g.kind # "challenge"
  <2>1. PICK t : t = [g.session EXCEPT !.email = Nobody]
    OBVIOUS
  <2>2. Complete(r, a, {p}, t) /\ TrustStep
    BY <1>2, <1>6, <2>1 DEF PassGate, KeepsTrust, TrustStep
  <2>3. Lesser(t, g.session)
    BY <1>4, <2>1, PlainLesser
  <2> QED BY <1>1, <1>2, <1>3, <1>6, <2>2, <2>3, GatePassed
<1> QED BY <1>5, <1>6

\* identifier and switchIdentifier keep the invariant.
LEMMA IdentifierHolds ==
  ASSUME IInv, NEW r \in Requests, Identifier(r) \/ SwitchIdentifier(r)
  PROVE  Holds
<1>1. req[r] # Idle /\ UNCHANGED <<stale, proved>>
  BY DEF Identifier, SwitchIdentifier, At
<1>2. r \in Busy /\ Mine(r) \in Session
  BY <1>1, Loaded
<1>3. PICK a \in Accounts \cup {Nobody} : Answer(r, [Mine(r) EXCEPT !.email = a])
  BY DEF Identifier, SwitchIdentifier
<1>4. Lesser([Mine(r) EXCEPT !.email = a], Mine(r))
  BY <1>2, PlainLesser
<1>5. stale' \subseteq Accounts /\ proved \subseteq proved' /\ proved' \subseteq Proofs
  BY <1>1 DEF IInv, TypeOK, Proofs
<1> QED BY <1>2, <1>3, <1>4, <1>5, LesserStep

\* The session is stored as it was loaded.
LEMMA SameHolds ==
  ASSUME IInv, NEW r \in Busy, Answer(r, Mine(r)), UNCHANGED stale,
         proved \subseteq proved', proved' \subseteq Proofs
  PROVE  Holds
<1>1. Mine(r) \in Session
  BY Loaded DEF Busy
<1> QED BY <1>1, DroppedLesser, LesserStep DEF IInv, TypeOK

\* So does a wrong password, and a handler that fails.
LEMMA RefusedHolds ==
  ASSUME IInv, NEW r \in Requests, WrongPassword(r) \/ Fail(r)
  PROVE  Holds
<1>1. req[r] # Idle /\ UNCHANGED <<stale, proved>> /\ Answer(r, Mine(r))
  BY DEF WrongPassword, Fail, At
<1>2. r \in Busy
  BY <1>1, Loaded
<1> QED BY <1>1, <1>2, SameHolds DEF IInv, TypeOK, Proofs

\* login: a right password proves itself, for the gate or for a change that is forced.
LEMMA LoginHolds ==
  ASSUME IInv, NEW r \in Requests, Login(r)
  PROVE  Holds
<1>1. PICK a : a = Mine(r).email
  OBVIOUS
<1>2. /\ req[r] # Idle /\ req[r].path = "password" /\ Live /\ a # Nobody
      /\ Proves(a, "pwd") /\ UNCHANGED stale
  BY <1>1 DEF Login, At
<1>3. r \in Busy /\ Mine(r) \in Session /\ a \in Accounts /\ "pwd" \in Primaries
  BY <1>1, <1>2, Loaded, SessionFields DEF Primaries
<1>4. /\ current \in Uids /\ proved \subseteq proved' /\ proved' \subseteq Proofs
      /\ "pwd" \in ShownBy(proved', a) /\ stale' \subseteq Accounts
  BY <1>2, <1>3, ProvesStep DEF IInv, TypeOK
<1>5. CASE a \in barred
  BY <1>1, <1>2, <1>3, <1>4, <1>5, SameHolds DEF Login
<1>6. CASE a \notin barred /\ a \in stale
  <2>1. PICK t : t = [Mine(r) EXCEPT !.expired = a]
    OBVIOUS
  <2>2. Answer(r, t)
    BY <1>1, <1>6, <2>1 DEF Login
  <2>3. PICK s : s = Mine(r)
    OBVIOUS
  <2>4. /\ t \in Session /\ t.pending = s.pending /\ t.primary = s.primary /\ t.flow = s.flow
        /\ t.social = s.social /\ t.expired = a
    BY <1>3, <2>1, <2>3 DEF Session
  <2>5. UNCHANGED <<env, current, done>>
    BY <2>2 DEF Answer, Commit, world
  <2>6. Earned(s, proved)' /\ (Alone => EarnedAlone(s, proved)')
    BY <1>3, <1>4, <2>3, <2>5, DroppedLesser, LesserProved
  <2>7. Earned(t, proved)'
    BY <1>4, <2>4, <2>6 DEF Earned
  <2>8. Alone => EarnedAlone(t, proved)'
    BY <1>4, <2>4, <2>6 DEF EarnedAlone
  <2> QED BY <1>3, <1>4, <2>2, <2>4, <2>7, <2>8, AnswerStep
<1>7. CASE a \notin barred /\ a \notin stale
  <2>1. PassGate(r, Mine(r), a, "pwd")
    BY <1>1, <1>7 DEF Login
  <2>2. "pwd" \in Presented(r)
    BY <1>2 DEF Presented
  <2> QED BY <1>2, <1>3, <1>7, <2>1, <2>2, PassGateStep
<1> QED BY <1>5, <1>6, <1>7

\* magicLinkConsume and otpVerify: the address is proved at the interaction that ends.
LEMMA EmailProofHolds ==
  ASSUME IInv, NEW r \in Requests, EmailProof(r)
  PROVE  Holds
<1>1. PICK a \in Accounts :
        /\ req[r] # Idle /\ req[r].path \in {"magic", "otp"} /\ Live
        /\ Proves(a, "email") /\ UNCHANGED stale
        /\ IF a \in barred THEN Answer(r, Mine(r)) ELSE PassGate(r, Mine(r), a, "email")
  BY DEF EmailProof, At
<1>2. r \in Busy /\ "email" \in Primaries
  BY <1>1, Loaded DEF Primaries
<1>3. proved \subseteq proved' /\ proved' \subseteq Proofs
  BY <1>1, <1>2, ProvesStep
<1>4. "email" \in Presented(r)
  BY <1>1 DEF Presented
<1>5. CASE a \in barred
  BY <1>1, <1>2, <1>3, <1>5, SameHolds
<1>6. CASE a \notin barred
  BY <1>1, <1>2, <1>4, <1>6, PassGateStep
<1> QED BY <1>5, <1>6

\* changeExpiredPassword: the session knows that the old password was proved.
LEMMA ChangeExpiredPasswordHolds ==
  ASSUME IInv, NEW r \in Requests, ChangeExpiredPassword(r)
  PROVE  Holds
<1>1. PICK a : a = Mine(r).expired
  OBVIOUS
<1>2. PICK s : s = [Mine(r) EXCEPT !.expired = Nobody]
  OBVIOUS
<1>3. PICK g : g = SecondFactorGate(s, a, req[r].uid, "pwd")
  OBVIOUS
<1>4. /\ req[r] # Idle /\ req[r].path = "expired" /\ Live /\ a # Nobody
      /\ stale' = stale \ {a} /\ UNCHANGED proved
      /\ IF g.kind = "challenge" THEN Answer(r, g.session)
         ELSE Complete(r, a, {"pwd"}, g.session) /\ KeepsTrust
  BY <1>1, <1>2, <1>3 DEF ChangeExpiredPassword, At
<1>5. /\ r \in Busy /\ Mine(r) \in Session /\ a \in Accounts /\ "pwd" \in Primaries
      /\ req[r].uid \in Uids /\ "expired" \in env.paths
      /\ Earned(Mine(r), proved) /\ (Alone => EarnedAlone(Mine(r), proved))
  BY <1>1, <1>4, Loaded, SessionFields DEF Primaries
<1>6. Lesser(s, Mine(r)) /\ s \in Session
  BY <1>2, <1>5, PlainLesser DEF Lesser
<1>7. /\ env.configured => "pwd" \in ShownBy(proved, a)
      /\ Alone => "pwd" \in ShownBy(proved, a)
  BY <1>1, <1>4, <1>5 DEF Earned, EarnedAlone
<1>8. stale' \subseteq Accounts /\ proved \subseteq proved' /\ proved' \subseteq Proofs
  BY <1>4 DEF IInv, TypeOK, Proofs
<1>9. env.configured => First(proved, current, a, "pwd")
  BY <1>5, <1>7 DEF First
<1>10. g.session \in Session /\ Lesser(g.session, g.session)
  BY <1>3, <1>5, <1>6, GateStep, DroppedLesser DEF Lesser, Challenging
<1>11. CASE g.kind = "challenge"
  BY <1>3, <1>4, <1>5, <1>6, <1>7, <1>8, <1>9, <1>10, <1>11, GateChallenge
<1>12. CASE g.kind # "challenge"
  <2>1. Complete(r, a, {"pwd"}, g.session) /\ TrustStep
    BY <1>4, <1>12 DEF KeepsTrust, TrustStep
  <2> QED BY <1>3, <1>4, <1>5, <1>6, <1>7, <1>8, <1>9, <1>10, <1>12, <2>1, GatePassed
<1> QED BY <1>11, <1>12

\* callback: what it stores for socialContinue is of an interaction that is current, or past.
LEMMA SocialCallbackHolds ==
  ASSUME IInv, NEW r \in Requests, SocialCallback(r)
  PROVE  Holds
<1>1. PICK a \in Accounts :
        /\ req[r] # Idle /\ req[r].path = "social" /\ Live
        /\ Proves(a, "fed") /\ UNCHANGED stale
        /\ IF a \in barred THEN Answer(r, Mine(r))
           ELSE IF env.configured \/ HasFactor(a)
             THEN Answer(r, [Mine(r) EXCEPT !.social = [uid |-> req[r].uid, account |-> a]])
           ELSE Complete(r, a, {"fed"}, Mine(r)) /\ KeepsTrust
  BY DEF SocialCallback, At
<1>2. PICK s : s = Mine(r)
  OBVIOUS
<1>3. PICK u : u = req[r].uid
  OBVIOUS
<1>4. /\ r \in Busy /\ s \in Session /\ u \in Uids /\ done[u] # New
      /\ "fed" \in Primaries
  BY <1>1, <1>2, <1>3, Loaded DEF Primaries
<1>5. /\ current \in Uids /\ proved \subseteq proved' /\ proved' \subseteq Proofs
      /\ stale' \subseteq Accounts /\ "fed" \in ShownAt(proved', current, a)
      /\ "fed" \in ShownBy(proved', a)
  BY <1>1, <1>4, ProvesStep DEF IInv, TypeOK
<1>6. CASE a \in barred
  BY <1>1, <1>4, <1>5, <1>6, SameHolds
<1>7. CASE a \notin barred /\ (env.configured \/ HasFactor(a))
  <2>1. PICK b : b = [uid |-> u, account |-> a]
    OBVIOUS
  <2>2. PICK t : t = [s EXCEPT !.social = b]
    OBVIOUS
  <2>3. Answer(r, t)
    BY <1>1, <1>2, <1>3, <1>7, <2>1, <2>2
  <2>4. b \in Bindings /\ b.uid = u /\ b.account = a
    BY <1>4, <2>1 DEF Bindings
  <2>5. /\ t \in Session /\ t.pending = s.pending /\ t.primary = s.primary /\ t.flow = s.flow
        /\ t.social = b /\ t.expired = s.expired
    BY <1>4, <2>2, <2>4 DEF Session
  <2>6. UNCHANGED <<env, current, done>>
    BY <2>3 DEF Answer, Commit, world
  <2>7. Earned(s, proved)' /\ (Alone => EarnedAlone(s, proved)')
    BY <1>2, <1>4, <1>5, <2>6, DroppedLesser, LesserProved
  <2>8. "fed" \in ShownAt(proved', u, a) \/ Past(u)'
    BY <1>4, <1>5, <2>6 DEF Past
  <2>9. Earned(t, proved)'
    BY <2>4, <2>5, <2>7, <2>8 DEF Earned
  <2>10. Alone => EarnedAlone(t, proved)'
    BY <1>5, <2>4, <2>5, <2>7 DEF EarnedAlone
  <2> QED BY <1>4, <1>5, <2>3, <2>5, <2>9, <2>10, AnswerStep
<1>8. CASE a \notin barred /\ ~(env.configured \/ HasFactor(a))
  <2>1. Complete(r, a, {"fed"}, s) /\ TrustStep
    BY <1>1, <1>2, <1>8 DEF KeepsTrust, TrustStep
  <2>2. UNCHANGED <<env, current>> /\ \A v \in Uids : v # current => done'[v] = done[v]
    BY <2>1 DEF Complete, Commit, world, IInv, TypeOK
  <2>3. Earned(s, proved)' /\ (Alone => EarnedAlone(s, proved)')
    BY <1>2, <1>4, <1>5, <2>2, DroppedLesser, LesserProved
  <2>4. LegacyAnswered(r, a, {"fed"})
    <3>1. a \notin armed[r]
      BY <1>4, <1>8 DEF HasFactor, IInv, RequestsInv, Busy
    <3>2. "fed" \in Presented(r)
      BY <1>1 DEF Presented
    <3> QED BY <1>1, <3>1, <3>2 DEF LegacyAnswered
  <2>5. {"fed"} \in SUBSET (Primaries \cup SecondFactors)
    BY <1>4
  <2> QED BY <1>1, <1>4, <1>5, <1>8, <2>1, <2>3, <2>4, <2>5, CompleteStep
<1> QED BY <1>1, <1>6, <1>7, <1>8

\* socialContinue: at the current interaction the session tells who came back from where.
LEMMA SocialContinueHolds ==
  ASSUME IInv, NEW r \in Requests, SocialContinue(r)
  PROVE  Holds
<1>1. PICK to : to = Mine(r).social
  OBVIOUS
<1>2. PICK s : s = [Mine(r) EXCEPT !.social = Nowhere]
  OBVIOUS
<1>3. PICK g : g = SecondFactorGate(s, to.account, req[r].uid, "fed")
  OBVIOUS
<1>4. /\ req[r] # Idle /\ req[r].path = "continue" /\ Live /\ UNCHANGED <<stale, proved>>
      /\ IF to = Nowhere \/ to.uid # req[r].uid \/ current # req[r].uid THEN Answer(r, s)
         ELSE IF g.kind = "challenge" THEN Answer(r, g.session)
         ELSE Complete(r, to.account, {"fed"}, g.session) /\ KeepsTrust
  BY <1>1, <1>2, <1>3 DEF SocialContinue, At
<1>5. /\ r \in Busy /\ Mine(r) \in Session /\ "fed" \in Primaries
      /\ req[r].uid \in Uids
      /\ Earned(Mine(r), proved) /\ (Alone => EarnedAlone(Mine(r), proved))
  BY <1>4, Loaded DEF Primaries
<1>6. Lesser(s, Mine(r)) /\ s \in Session
  BY <1>2, <1>5, PlainLesser DEF Lesser
<1>7. stale' \subseteq Accounts /\ proved \subseteq proved' /\ proved' \subseteq Proofs
  BY <1>4 DEF IInv, TypeOK, Proofs
<1>8. CASE to = Nowhere \/ to.uid # req[r].uid \/ current # req[r].uid
  BY <1>4, <1>5, <1>6, <1>7, <1>8, LesserStep
<1>9. CASE ~(to = Nowhere \/ to.uid # req[r].uid \/ current # req[r].uid)
  <2>1. to.account \in Accounts
    BY <1>1, <1>5, <1>9, SessionFields
  <2>2. /\ env.configured => "fed" \in ShownAt(proved, current, to.account)
        /\ Alone => "fed" \in ShownBy(proved, to.account)
    BY <1>1, <1>5, <1>9 DEF Earned, EarnedAlone, Past
  <2>3. env.configured => First(proved, current, to.account, "fed")
    BY <2>2 DEF First
  <2>4. g.session \in Session /\ Lesser(g.session, g.session)
    BY <1>3, <1>5, <1>6, <2>1, GateStep, DroppedLesser DEF Lesser, Challenging
  <2>5. CASE g.kind = "challenge"
    BY <1>3, <1>4, <1>5, <1>6, <1>7, <1>9, <2>1, <2>2, <2>3, <2>4, <2>5, GateChallenge
  <2>6. CASE g.kind # "challenge"
    <3>1. Complete(r, to.account, {"fed"}, g.session) /\ TrustStep
      BY <1>4, <1>9, <2>6 DEF KeepsTrust, TrustStep
    <3> QED BY <1>3, <1>4, <1>5, <1>6, <1>7, <2>1, <2>2, <2>3, <2>4, <2>6, <3>1, GatePassed
  <2> QED BY <2>5, <2>6
<1> QED BY <1>8, <1>9

\* completeCustomLogin, at its own interaction only.
LEMMA CustomLoginHolds ==
  ASSUME IInv, NEW r \in Requests, CustomLogin(r)
  PROVE  Holds
<1>1. PICK a \in Accounts :
        LET g == SecondFactorGate(Mine(r), a, req[r].uid, "corp") IN
        /\ req[r] # Idle /\ req[r].path = "corp" /\ Live /\ UNCHANGED stale
        /\ Proves(a, "corp")
        /\ IF a \in barred THEN Answer(r, Mine(r))
           ELSE IF g.kind = "challenge"
             THEN Answer(r, [g.session EXCEPT !.bound = [uid |-> current, account |-> a]])
           ELSE Complete(r, a, {"corp"}, [g.session EXCEPT !.email = Nobody]) /\ KeepsTrust
  BY DEF CustomLogin, At
<1>2. PICK g : g = SecondFactorGate(Mine(r), a, req[r].uid, "corp")
  OBVIOUS
<1>3. /\ r \in Busy /\ Mine(r) \in Session /\ "corp" \in Primaries /\ req[r].uid \in Uids
      /\ Lesser(Mine(r), Mine(r))
  BY <1>1, Loaded, DroppedLesser DEF Primaries
<1>4. /\ current \in Uids /\ proved \subseteq proved' /\ proved' \subseteq Proofs
      /\ stale' \subseteq Accounts /\ First(proved', current, a, "corp")
      /\ "corp" \in ShownBy(proved', a)
  BY <1>1, <1>3, ProvesStep DEF First, IInv, TypeOK
<1>5. "corp" \in Presented(r)
  BY <1>1 DEF Presented
<1>6. g.session \in Session
  BY <1>2, <1>3, GateStep DEF Lesser, Challenging
<1>7. CASE a \in barred
  BY <1>1, <1>3, <1>4, <1>7, SameHolds
<1>8. CASE a \notin barred /\ g.kind = "challenge"
  <2>1. PICK b : b = [uid |-> current, account |-> a]
    OBVIOUS
  <2>2. PICK t : t = [g.session EXCEPT !.bound = b]
    OBVIOUS
  <2>3. Answer(r, t)
    BY <1>1, <1>2, <1>8, <2>1, <2>2
  <2>4. Lesser(t, g.session)
    BY <1>4, <1>6, <2>1, <2>2 DEF Session, Bindings, Lesser
  <2> QED BY <1>2, <1>3, <1>4, <1>8, <2>3, <2>4, GateChallenge
<1>9. CASE a \notin barred /\ g.kind # "challenge"
  <2>1. PICK t : t = [g.session EXCEPT !.email = Nobody]
    OBVIOUS
  <2>2. Complete(r, a, {"corp"}, t) /\ TrustStep
    BY <1>1, <1>2, <1>9, <2>1 DEF KeepsTrust, TrustStep
  <2>3. Lesser(t, g.session)
    BY <1>6, <2>1, PlainLesser
  <2> QED BY <1>1, <1>2, <1>3, <1>4, <1>5, <1>9, <2>2, <2>3, GatePassed
<1> QED BY <1>7, <1>8, <1>9

-----------------------------------------------------------------------------
(* The handlers of the second factors.                                       *)

\* Sets of factors are finite: more factors are at least as many.
LEMMA FactorsFinite ==
  ASSUME NEW S \in SUBSET (Primaries \cup SecondFactors)
  PROVE  IsFiniteSet(S)
<1>1. /\ IsFiniteSet({"pwd", "email", "fed"}) /\ IsFiniteSet({"webauthn", "corp"})
      /\ IsFiniteSet({"totp", "sms"})
  <2>1. /\ IsFiniteSet({"pwd"}) /\ IsFiniteSet({"email"}) /\ IsFiniteSet({"fed"})
        /\ IsFiniteSet({"webauthn"}) /\ IsFiniteSet({"corp"})
        /\ IsFiniteSet({"totp"}) /\ IsFiniteSet({"sms"})
    BY FS_Singleton
  <2>2. IsFiniteSet({"pwd"} \cup {"email"}) /\ IsFiniteSet({"webauthn"} \cup {"corp"})
        /\ IsFiniteSet({"totp"} \cup {"sms"})
    BY <2>1, FS_Union
  <2>3. IsFiniteSet(({"pwd"} \cup {"email"}) \cup {"fed"})
    BY <2>1, <2>2, FS_Union
  <2>4. /\ {"pwd", "email", "fed"} = ({"pwd"} \cup {"email"}) \cup {"fed"}
        /\ {"webauthn", "corp"} = {"webauthn"} \cup {"corp"}
        /\ {"totp", "sms"} = {"totp"} \cup {"sms"}
    OBVIOUS
  <2> QED BY <2>2, <2>3, <2>4
<1>2. IsFiniteSet({"pwd", "email", "fed"} \cup {"webauthn", "corp"} \cup {"totp", "sms"})
  BY <1>1, FS_Union
<1>3. S \subseteq {"pwd", "email", "fed"} \cup {"webauthn", "corp"} \cup {"totp", "sms"}
  BY DEF Primaries, SecondFactors
<1> QED BY <1>2, <1>3, FS_Subset

\* The names that the handlers give to factors.
LEMMA FactorsNamed ==
  /\ {"pwd", "email", "fed", "webauthn", "corp"} \subseteq Primaries
  /\ {"totp", "webauthn", "sms"} \subseteq SecondFactors /\ "totp" \notin Primaries
  /\ \A r : Presented(r) \subseteq Primaries \cup SecondFactors
BY DEF Primaries, SecondFactors, Presented

\* How many factors are required is a number.
LEMMA RequiredNat ==
  ASSUME IInv
  PROVE  Required \in Nat
BY ScenarioAssumption DEF IInv, TypeOK, Scenario, Required

\* With cfg.mfa a second factor was presented.
LEMMA FinishHolds ==
  ASSUME IInv, NEW r \in Busy, Live, env.configured, NEW s, Lesser(s, Mine(r)), s.flow # NoFlow,
         NEW f \in SecondFactors, f \in Presented(r), Proves(s.flow.account, f), UNCHANGED stale,
         FinishVerifiedMfa(r, s, f)
  PROVE  Holds
<1>1. s \in Session /\ s.flow \in Flows /\ Earned(s, proved)
  BY Loaded, LesserEarned, SessionFields DEF Lesser, Busy
<1>2. PICK w : w = s.flow
  OBVIOUS
<1>3. /\ w.uid \in Uids /\ w.account \in Accounts /\ w.primary \in Primaries
      /\ w.completed \subseteq SecondFactors
  BY <1>1, <1>2 DEF Flows
<1>4. /\ current \in Uids /\ proved \subseteq proved' /\ proved' \subseteq Proofs
      /\ stale' \subseteq Accounts /\ f \in ShownAt(proved', current, w.account)
  BY <1>2, <1>3, ProvesStep DEF IInv, TypeOK
<1>5. PICK v : v = [w EXCEPT !.completed = w.completed \cup {f}]
  OBVIOUS
<1>6. /\ v \in Flows /\ v.uid = w.uid /\ v.account = w.account /\ v.primary = w.primary
      /\ v.completed = w.completed \cup {f}
  BY <1>1, <1>2, <1>5 DEF Flows
<1>7. PICK t : t = [s EXCEPT !.flow = v]
  OBVIOUS
<1>8. /\ t \in Session /\ t.flow = v /\ t.pending = s.pending /\ t.primary = s.primary
      /\ t.expired = s.expired /\ t.social = s.social
  BY <1>1, <1>6, <1>7 DEF Session
<1>9. IF w.uid # current THEN Answer(r, Dropped(s))
      ELSE IF f \in Used(w) THEN Answer(r, s)
      ELSE IF Cardinality(Used(v)) < Required THEN Answer(r, t)
      ELSE IF w.account \in barred \/ (w.primary = "pwd" /\ w.account \in stale)
        THEN Answer(r, Dropped(s))
      ELSE KeepsTrust /\ Complete(r, w.account, Used(v), Taken(s))
  <2>1. t = [s EXCEPT !.flow = [s.flow EXCEPT !.completed = @ \cup {f}]]
    BY <1>2, <1>5, <1>7
  <2> QED BY <1>2, <1>8, <2>1 DEF FinishVerifiedMfa
<1>10. Lesser(Dropped(s), Mine(r))
  BY <1>1, DroppedLesser, LesserTwice
<1>11. CASE Answer(r, Dropped(s)) \/ Answer(r, s)
  BY <1>4, <1>10, <1>11, LesserStep
<1>12. CASE w.uid = current /\ Answer(r, t)
  <2>1. UNCHANGED <<env, current, done>>
    BY <1>12 DEF Answer, Commit, world
  <2>2. Earned(s, proved)'
    BY <1>4, <2>1, LesserProved
  <2>3. Earned(t, proved)'
    <3>1. Earned(s, proved')
      BY <2>1, <2>2 DEF Earned, First, Past
    <3>2. t.flow # NoFlow
      BY <1>6, <1>8, MarkersApart
    <3>3. /\ w.completed \subseteq ShownAt(proved', current, w.account)
          /\ First(proved', current, w.account, w.primary)
      BY <1>2, <1>12, <3>1 DEF Earned
    <3>4. /\ t.flow.completed \subseteq ShownAt(proved', t.flow.uid, t.flow.account)
          /\ First(proved', t.flow.uid, t.flow.account, t.flow.primary)
      BY <1>4, <1>6, <1>8, <1>12, <3>3
    <3>5. Earned(t, proved')
      BY <1>8, <3>1, <3>4 DEF Earned
    <3> QED BY <2>1, <3>5 DEF Earned, First, Past
  <2> QED BY <1>4, <1>8, <1>12, <2>3, AnswerStep DEF Alone
<1>13. CASE /\ w.uid = current /\ ~(Cardinality(Used(v)) < Required) /\ w.account \notin barred
            /\ KeepsTrust /\ Complete(r, w.account, Used(v), Taken(s))
  <2>1. UNCHANGED <<env, current>> /\ \A u \in Uids : u # current => done'[u] = done[u]
    BY <1>13 DEF Complete, Commit, world, IInv, TypeOK
  <2>2. Lesser(Taken(s), Mine(r))
    BY <1>1, TakenLesser, LesserTwice
  <2>3. PICK d : d = Taken(s)
    OBVIOUS
  <2>4. d \in Session /\ Earned(d, proved)'
    BY <1>4, <2>1, <2>2, <2>3, LesserProved
  <2>5. Used(v) \in SUBSET (Primaries \cup SecondFactors)
    BY <1>3, <1>6 DEF Used
  <2>6. ConfiguredAnswered(r, w.account, Used(v))
    <3>1. PICK shown : shown = Presented(r) \cup ProvedAt(current, w.account)
                         \cup (IF "expired" \in env.paths THEN ProvedBy(w.account) \cap {"pwd"} ELSE {})
      OBVIOUS
    <3>2. /\ w.completed \subseteq ShownAt(proved, current, w.account)
          /\ First(proved, current, w.account, w.primary)
      BY <1>1, <1>2, <1>13 DEF Earned
    <3>3. Used(v) \subseteq shown
      BY <1>6, <3>1, <3>2, ShownProved DEF Used, First
    <3>4. IsFiniteSet(shown)
      <4>1. shown \in SUBSET (Primaries \cup SecondFactors)
        BY <3>1, FactorsNamed DEF ProvedAt, ProvedBy
      <4> QED BY <4>1, FactorsFinite
    <3>5. Cardinality(shown) >= Required
      <4>1. /\ Cardinality(Used(v)) <= Cardinality(shown)
            /\ Cardinality(Used(v)) \in Nat /\ Cardinality(shown) \in Nat
        BY <3>3, <3>4, FS_Subset, FS_CardinalityType
      <4> QED BY <1>13, <4>1, RequiredNat
    <3> QED BY <3>1, <3>3, <3>5 DEF ConfiguredAnswered
  <2>7. Complete(r, w.account, Used(v), d) /\ TrustStep
    BY <1>13, <2>3 DEF KeepsTrust, TrustStep
  <2> QED BY <1>3, <1>4, <1>13, <2>4, <2>5, <2>6, <2>7, CompleteStep DEF Alone
<1> QED BY <1>9, <1>11, <1>12, <1>13

\* Without cfg.mfa a code or a passkey was presented.
LEMMA LegacyHolds ==
  ASSUME IInv, NEW r \in Busy, Live, ~env.configured, NEW s, Lesser(s, Mine(r)),
         NEW a \in Accounts, NEW f \in SecondFactors, f \in Presented(r), UNCHANGED stale,
         \/ a = s.pending
         \/ f = "webauthn" /\ s.pending = Nobody,
         f \in {"totp", "webauthn"},
         LegacyFinish(r, s, a, f),
         req[r].path = "code" \/ a \notin barred
  PROVE  Holds
<1>1. /\ s \in Session /\ Earned(s, proved) /\ (Alone => EarnedAlone(s, proved))
  BY Loaded, LesserEarned DEF Lesser, Busy
<1>2. PICK d : d = Taken(s)
  OBVIOUS
<1>3. PICK amr : amr = Primary(s, req[r].uid) \cup {f}
  OBVIOUS
<1>4. /\ Complete(r, a, amr, d) /\ TrustStep
      /\ proved' = {p \in proved : \/ p[2] # a
                                   \/ p[3] = "pwd" /\ s.expired = a
                                   \/ p[3] = "fed" /\ s.social.account = a}
  BY <1>2, <1>3 DEF LegacyFinish, MayTrust, KeepsTrust, TrustStep
<1>5. /\ d \in Session /\ d.pending = Nobody /\ d.primary = "none" /\ d.flow = NoFlow
      /\ d.expired = s.expired /\ d.social = s.social
  BY <1>1, <1>2, TakenLesser DEF Lesser
<1>6. UNCHANGED <<env, current>>
  BY <1>4 DEF Complete, Commit, world
<1>7. Earned(d, proved)'
  BY <1>5, <1>6 DEF Earned
<1>8. Alone => EarnedAlone(d, proved)'
  <2>1. Alone /\ s.expired # Nobody => "pwd" \in ShownBy(proved', s.expired)
    <3>1. SUFFICES ASSUME Alone, s.expired # Nobody
                   PROVE  "pwd" \in ShownBy(proved', s.expired)
      OBVIOUS
    <3>2. PICK u \in Uids : "pwd" \in ShownAt(proved, u, s.expired)
      BY <1>1, <3>1, ShownSomewhere DEF EarnedAlone
    <3>3. <<u, s.expired, "pwd">> \in proved'
      BY <1>4, <3>2 DEF ShownAt
    <3>4. "pwd" \in ShownAt(proved', u, s.expired)
      BY <3>3, FactorsNamed DEF ShownAt
    <3> QED BY <3>4, ShownSomewhere
  <2>2. Alone /\ s.social # Nowhere => "fed" \in ShownBy(proved', s.social.account)
    <3>1. SUFFICES ASSUME Alone, s.social # Nowhere
                   PROVE  "fed" \in ShownBy(proved', s.social.account)
      OBVIOUS
    <3>2. PICK u \in Uids : "fed" \in ShownAt(proved, u, s.social.account)
      BY <1>1, <3>1, ShownSomewhere DEF EarnedAlone
    <3>3. <<u, s.social.account, "fed">> \in proved'
      BY <1>4, <3>2 DEF ShownAt
    <3>4. "fed" \in ShownAt(proved', u, s.social.account)
      BY <3>3, FactorsNamed DEF ShownAt
    <3> QED BY <3>4, ShownSomewhere
  <2> QED BY <1>5, <2>1, <2>2 DEF EarnedAlone
<1>9. amr \in SUBSET (Primaries \cup SecondFactors) /\ proved' \subseteq Proofs
  <2>1. Primary(s, req[r].uid) \subseteq Primaries
    BY FactorsNamed DEF Primary
  <2> QED BY <1>3, <1>4, <2>1 DEF IInv, TypeOK, Proofs
<1>10. env.inFlight = 1 => LegacyAnswered(r, a, amr)
  <2>1. SUFFICES ASSUME env.inFlight = 1
                 PROVE  LegacyAnswered(r, a, amr)
    OBVIOUS
  <2>2. EarnedAlone(s, proved) /\ a # Nobody
    BY <1>1, <2>1, AbsenceAssumption DEF Alone
  <2>3. Primary(s, req[r].uid) \subseteq ShownBy(proved, a)
    <3>1. CASE a = s.pending
      BY <2>2, <3>1 DEF EarnedAlone, Primary
    <3>2. CASE s.pending = Nobody
      BY <1>1, <3>2 DEF Earned, Primary
    <3> QED BY <3>1, <3>2
  <2>4. PICK shown : shown = Presented(r) \cup ProvedBy(a)
    OBVIOUS
  <2>5. amr \subseteq shown /\ f \in shown
    BY <1>3, <2>3, <2>4, ShownProved
  <2>6. CASE f = "webauthn"
    BY <2>4, <2>5, <2>6 DEF LegacyAnswered
  <2>7. CASE f = "totp"
    <3>1. a = s.pending
      BY <2>7
    <3>2. s.primary \in Primaries /\ s.primary \in shown
      BY <2>2, <2>4, <3>1, ShownProved DEF EarnedAlone
    <3>3. shown # {"totp"}
      BY <3>2, FactorsNamed
    <3> QED BY <2>4, <2>5, <2>7, <3>3 DEF LegacyAnswered
  <2> QED BY <2>6, <2>7
<1>11. stale' \subseteq Accounts
  BY DEF IInv, TypeOK
<1> QED BY <1>4, <1>5, <1>7, <1>8, <1>9, <1>10, <1>11, CompleteStep

\* A challenge that is answered has the flow of its pending account.
LEMMA ChallengedFlow ==
  ASSUME NEW s, NEW u, ValidFlow(s, u)
  PROVE  s.flow # NoFlow /\ s.flow.account = s.pending
BY DEF ValidFlow

\* A wrong code forgets the challenge at most.
LEMMA WrongCodeHolds ==
  ASSUME IInv, NEW r \in Requests, WrongCode(r)
  PROVE  Holds
<1>1. PICK t : t = IF env.configured /\ ~Challenged(r) THEN Unchallenged(r) ELSE Mine(r)
  OBVIOUS
<1>2. req[r] # Idle /\ Answer(r, t) /\ UNCHANGED <<stale, proved>>
  BY <1>1 DEF WrongCode, At
<1>3. r \in Busy /\ Mine(r) \in Session
  BY <1>2, Loaded
<1>4. Lesser(t, Mine(r))
  BY <1>1, <1>3, DroppedLesser, ReadLesser DEF Unchallenged
<1> QED BY <1>2, <1>3, <1>4, LesserStep DEF IInv, TypeOK, Proofs

\* mfaVerify: a right code, for the flow or for the challenge without one.
LEMMA MfaVerifyHolds ==
  ASSUME IInv, NEW r \in Requests, MfaVerify(r)
  PROVE  Holds
<1>1. PICK s : s = Mine(r)
  OBVIOUS
<1>2. PICK a : a = s.pending
  OBVIOUS
<1>3. /\ req[r] # Idle /\ req[r].path = "code" /\ Live /\ a \in totp /\ UNCHANGED stale
      /\ \/ env.configured /\ Challenged(r) /\ Proves(a, "totp") /\ FinishVerifiedMfa(r, s, "totp")
         \/ ~env.configured /\ LegacyFinish(r, s, a, "totp")
  BY <1>1, <1>2 DEF MfaVerify, At
<1>4. r \in Busy /\ s \in Session /\ Lesser(s, Mine(r)) /\ a \in Accounts /\ "totp" \in SecondFactors
  BY <1>1, <1>3, Loaded, DroppedLesser, FactorsNamed DEF IInv, TypeOK
<1>5. "totp" \in Presented(r)
  BY <1>3 DEF Presented
<1>6. CASE env.configured /\ Challenged(r) /\ Proves(a, "totp") /\ FinishVerifiedMfa(r, s, "totp")
  <2>1. s.flow # NoFlow /\ s.flow.account = a
    BY <1>1, <1>2, <1>6, ChallengedFlow DEF Challenged
  <2> QED BY <1>3, <1>4, <1>5, <1>6, <2>1, FinishHolds
<1>7. CASE ~env.configured /\ LegacyFinish(r, s, a, "totp")
  BY <1>2, <1>3, <1>4, <1>5, <1>7, LegacyHolds
<1> QED BY <1>3, <1>6, <1>7

\* passkeyOptions stores a WebAuthn challenge, which claims nothing.
LEMMA PasskeyOptionsHolds ==
  ASSUME IInv, NEW r \in Requests, PasskeyOptions(r)
  PROVE  Holds
<1>1. req[r] # Idle /\ UNCHANGED <<stale, proved>>
  BY DEF PasskeyOptions, At
<1>2. r \in Busy /\ Mine(r) \in Session /\ Mine(r).ceremony \in BOOLEAN
  BY <1>1, Loaded, SessionFields
<1>3. PICK b \in BOOLEAN : b = (Mine(r).ceremony \/ PasskeyAccount(Mine(r)) \in keyed)
  OBVIOUS
<1>4. PICK t : t = [Mine(r) EXCEPT !.ceremony = b]
  OBVIOUS
<1>5. Answer(r, t)
  BY <1>3, <1>4 DEF PasskeyOptions
<1>6. Lesser(t, Mine(r))
  BY <1>2, <1>4, PlainLesser
<1> QED BY <1>1, <1>2, <1>5, <1>6, LesserStep DEF IInv, TypeOK, Proofs

\* A wrong assertion forgets the challenge at most.
LEMMA WrongPasskeyHolds ==
  ASSUME IInv, NEW r \in Requests, WrongPasskey(r)
  PROVE  Holds
<1>1. req[r] # Idle /\ UNCHANGED <<stale, proved>>
  BY DEF WrongPasskey, At
<1>2. r \in Busy /\ Mine(r) \in Session
  BY <1>1, Loaded
<1>3. PICK t : /\ Answer(r, t)
               /\ t \in {Dropped(Mine(r)), ReadFlow(Mine(r), req[r].uid), Mine(r),
                         [Mine(r) EXCEPT !.ceremony = FALSE]}
  BY DEF WrongPasskey
<1>4. Lesser(t, Mine(r))
  BY <1>2, <1>3, DroppedLesser, ReadLesser, PlainLesser
<1> QED BY <1>1, <1>2, <1>3, <1>4, LesserStep DEF IInv, TypeOK, Proofs

\* passkeyVerify: a second factor when a challenge is pending, else a first one.
LEMMA PasskeyVerifyHolds ==
  ASSUME IInv, NEW r \in Requests, PasskeyVerify(r)
  PROVE  Holds
<1>1. PICK s : s = [Mine(r) EXCEPT !.ceremony = FALSE]
  OBVIOUS
<1>2. PICK a : a = PasskeyAccount(s)
  OBVIOUS
<1>3. PICK g : g = SecondFactorGate(s, a, req[r].uid, "webauthn")
  OBVIOUS
<1>4. /\ req[r] # Idle /\ req[r].path = "passkey" /\ Live /\ a \in keyed /\ UNCHANGED stale
      /\ env.configured => (current = req[r].uid /\ (s.pending # Nobody => Challenged(r)))
      /\ IF a \in barred THEN Answer(r, s) /\ Proves(a, "webauthn")
         ELSE IF ~env.configured THEN LegacyFinish(r, s, a, "webauthn")
         ELSE Proves(a, "webauthn") /\
              IF s.pending # Nobody THEN FinishVerifiedMfa(r, s, "webauthn")
              ELSE IF g.kind = "challenge" THEN Answer(r, g.session)
              ELSE MayTrust(a) /\ Complete(r, a, {"webauthn"}, Taken(g.session))
  BY <1>1, <1>2, <1>3 DEF PasskeyVerify, At
<1>5. r \in Busy /\ Mine(r) \in Session /\ a \in Accounts /\ req[r].uid \in Uids
  BY <1>4, Loaded DEF IInv, TypeOK
<1>6. /\ Lesser(s, Mine(r)) /\ s \in Session
      /\ s.pending = Mine(r).pending /\ s.flow = Mine(r).flow
  BY <1>1, <1>5, PlainLesser DEF Session
<1>7. "webauthn" \in Presented(r) /\ "webauthn" \in Primaries /\ "webauthn" \in SecondFactors
  BY <1>4, FactorsNamed DEF Presented
<1>8. s.pending # Nobody => a = s.pending
  BY <1>2 DEF PasskeyAccount
<1>9. Proves(a, "webauthn") =>
        /\ proved \subseteq proved' /\ proved' \subseteq Proofs /\ stale' \subseteq Accounts
        /\ First(proved', current, a, "webauthn")
  BY <1>4, <1>5, <1>7, ProvesStep DEF First, IInv, TypeOK
<1>10. CASE a \in barred
  BY <1>4, <1>5, <1>6, <1>9, <1>10, LesserStep
<1>11. CASE a \notin barred /\ ~env.configured
  BY <1>4, <1>5, <1>6, <1>7, <1>8, <1>11, LegacyHolds
<1>12. CASE a \notin barred /\ env.configured /\ s.pending # Nobody
  <2>1. s.flow # NoFlow /\ s.flow.account = a
    BY <1>4, <1>6, <1>8, <1>12, ChallengedFlow DEF Challenged
  <2> QED BY <1>4, <1>5, <1>6, <1>7, <1>12, <2>1, FinishHolds
<1>13. CASE a \notin barred /\ env.configured /\ s.pending = Nobody
  <2>1. Proves(a, "webauthn")
    BY <1>4, <1>13
  <2>2. g.session \in Session
    BY <1>3, <1>5, <1>6, <1>7, GateStep DEF Lesser, Challenging
  <2>3. CASE g.kind = "challenge"
    <3>1. Lesser(g.session, g.session)
      BY <2>2, DroppedLesser
    <3> QED BY <1>3, <1>4, <1>5, <1>6, <1>7, <1>9, <1>13, <2>1, <2>3, <3>1, GateChallenge DEF Alone
  <2>4. CASE g.kind # "challenge"
    <3>1. PICK t : t = Taken(g.session)
      OBVIOUS
    <3>2. Complete(r, a, {"webauthn"}, t) /\ TrustStep
      BY <1>4, <1>5, <1>13, <2>4, <3>1 DEF MayTrust, KeepsTrust, TrustStep
    <3>3. Lesser(t, g.session)
      BY <2>2, <3>1, TakenLesser
    <3> QED BY <1>3, <1>4, <1>5, <1>6, <1>7, <1>9, <1>13, <2>1, <2>4, <3>2, <3>3, GatePassed DEF Alone
  <2> QED BY <2>3, <2>4
<1> QED BY <1>10, <1>11, <1>12, <1>13

\* beginCustomMfa says that the method has started, or forgets the challenge.
LEMMA CustomMfaBeginHolds ==
  ASSUME IInv, NEW r \in Requests, CustomMfaBegin(r)
  PROVE  Holds
<1>1. PICK t : t = IF CanCustom(r)
                   THEN [Mine(r) EXCEPT !.flow = [Mine(r).flow EXCEPT !.started = TRUE]]
                   ELSE ReadFlow(Mine(r), req[r].uid)
  OBVIOUS
<1>2. req[r] # Idle /\ Answer(r, t) /\ UNCHANGED <<stale, proved>>
  BY <1>1 DEF CustomMfaBegin, At
<1>3. r \in Busy /\ Mine(r) \in Session
  BY <1>2, Loaded
<1>4. Lesser(t, Mine(r))
  <2>1. CanCustom(r) => Mine(r).flow # NoFlow
    BY ChallengedFlow DEF CanCustom
  <2> QED BY <1>1, <1>3, <2>1, ReadLesser, FlowLesser
<1> QED BY <1>2, <1>3, <1>4, LesserStep DEF IInv, TypeOK, Proofs

\* verifyCustomMfa counts a failure, or the factor of the host.
LEMMA CustomMfaVerifyHolds ==
  ASSUME IInv, NEW r \in Requests, CustomMfaVerify(r)
  PROVE  Holds
<1>1. PICK s : s = Mine(r)
  OBVIOUS
<1>2. /\ req[r] # Idle /\ req[r].path = "custom" /\ Live /\ UNCHANGED stale
      /\ IF ~CanCustom(r) \/ ~s.flow.started
           THEN Answer(r, ReadFlow(s, req[r].uid)) /\ UNCHANGED proved
         ELSE \/ Answer(r, FailedProof(s)) /\ UNCHANGED proved
              \/ Proves(s.flow.account, "sms") /\ FinishVerifiedMfa(r, s, "sms")
  BY <1>1 DEF CustomMfaVerify, At
<1>3. r \in Busy /\ s \in Session /\ Lesser(s, Mine(r)) /\ Earned(s, proved)
  BY <1>1, <1>2, Loaded, DroppedLesser
<1>4. UNCHANGED proved =>
        stale' \subseteq Accounts /\ proved \subseteq proved' /\ proved' \subseteq Proofs
  BY <1>2 DEF IInv, TypeOK, Proofs
<1>5. CASE Answer(r, ReadFlow(s, req[r].uid)) /\ UNCHANGED proved
  BY <1>1, <1>3, <1>4, <1>5, ReadLesser, LesserStep
<1>6. CASE CanCustom(r) /\ s.flow.started
  <2>1. s.flow # NoFlow /\ env.configured
    BY <1>1, <1>3, <1>6, ChallengedFlow DEF CanCustom, Earned
  <2>2. CASE Answer(r, FailedProof(s)) /\ UNCHANGED proved
    BY <1>1, <1>3, <1>4, <2>1, <2>2, FlowLesser, LesserStep
  <2>3. CASE Proves(s.flow.account, "sms") /\ FinishVerifiedMfa(r, s, "sms")
    <3>1. "sms" \in SecondFactors /\ "sms" \in Presented(r)
      BY <1>2, FactorsNamed DEF Presented
    <3> QED BY <1>2, <1>3, <2>1, <2>3, <3>1, FinishHolds
  <2> QED BY <1>2, <1>6, <2>2, <2>3
<1> QED BY <1>2, <1>5, <1>6

-----------------------------------------------------------------------------
(* What starts requests, and what happens to the accounts meanwhile.         *)

\* What a scenario bounds.
LEMMA ScenarioFields ==
  ASSUME IInv
  PROVE  env.uids \subseteq Uids /\ env.paths \subseteq Paths /\ env.inFlight \in 1..2
BY ScenarioAssumption DEF IInv, TypeOK, Scenario

\* A step that leaves the session and the requests alone.
LEMMA WaitStep ==
  ASSUME IInv, UNCHANGED <<env, session, req, proved>>, TypeOK', TrustInv',
         \A u \in Uids : (done[u] # New => done'[u] # New) /\ (Past(u) => Past(u)'),
         \A r \in Requests : armed'[r] \subseteq totp' \cup keyed' /\ refused'[r] \subseteq barred'
  PROVE  Holds
<1>1. Busy' = Busy
  BY DEF Busy
<1>2. ASSUME NEW s \in Session, Earned(s, proved) PROVE Earned(s, proved)'
  BY <1>2, EarnedKept
<1>3. RequestsInv'
  <2>1. ASSUME NEW r \in Busy PROVE /\ req'[r].path \in env'.paths /\ done'[req'[r].uid] # New
                                    /\ Earned(req[r].mine, proved)'
    <3>1. PICK m \in Session : m = req[r].mine
      BY Loaded DEF Busy, Mine
    <3>2. Earned(m, proved)'
      BY <1>2, <3>1 DEF IInv, RequestsInv
    <3>3. req'[r].mine = m
      BY <3>1
    <3>4. Earned(req[r].mine, proved)'
      BY <3>2, <3>3 DEF Earned, First, Past
    <3> QED BY <3>4, Loaded DEF Busy
  <2> QED BY <1>1, <2>1 DEF RequestsInv, IInv
<1>4. SessionInv'
  <2>1. PICK s \in Session : s = session
    BY DEF IInv, TypeOK
  <2>2. Earned(s, proved)'
    BY <1>2, <2>1 DEF IInv, SessionInv
  <2>3. Earned(session, proved)'
    BY <2>1, <2>2 DEF Earned, First, Past
  <2>4. Alone' => EarnedAlone(session, proved)'
    BY DEF IInv, SessionInv, Alone, EarnedAlone
  <2> QED BY <2>3, <2>4 DEF SessionInv
<1>5. \A r \in Requests : ~Completes(r)
  BY DEF Completes
<1> QED BY <1>3, <1>4, <1>5 DEF Holds, Answered, StaysOut, IInv

\* A new interaction becomes the current one: a past one stays past.
LEMMA StartInteractionHolds ==
  ASSUME IInv, NEW u \in Uids, StartInteraction(u)
  PROVE  Holds
<1>1. /\ done[u] = New /\ done' = [done EXCEPT ![u] = Open] /\ current' = u
      /\ UNCHANGED <<world, stale, session, trust, req, armed, refused, proved, vouched>>
  BY DEF StartInteraction
<1>2. UNCHANGED <<env, clock, totp, keyed, enabledAt, barred>>
  BY <1>1 DEF world
<1>3. /\ done' \in [Uids -> Results] /\ done'[u] = Open
      /\ \A v \in Uids : v # u => done'[v] = done[v]
  BY <1>1 DEF IInv, TypeOK, Results
<1>4. TypeOK'
  BY <1>1, <1>2, <1>3 DEF IInv, TypeOK, Results
<1>5. TrustInv'
  BY <1>1, <1>2 DEF IInv, TrustInv, Trusted
<1>6. \A v \in Uids : (done[v] # New => done'[v] # New) /\ (Past(v) => Past(v)')
  BY <1>1, <1>3, MarkersApart DEF Past
<1> QED BY <1>1, <1>2, <1>4, <1>5, <1>6, WaitStep DEF IInv, RequestsInv

\* An interaction that is over was not new.
LEMMA ResumeHolds ==
  ASSUME IInv, NEW u \in Uids, Resume(u)
  PROVE  Holds
<1>1. /\ done' = [done EXCEPT ![u] = Over]
      /\ UNCHANGED <<world, stale, current, session, trust, req, armed, refused, proved, vouched>>
  BY DEF Resume
<1>2. UNCHANGED <<env, clock, totp, keyed, enabledAt, barred>>
  BY <1>1 DEF world
<1>3. /\ done' \in [Uids -> Results] /\ done'[u] = Over
      /\ \A v \in Uids : v # u => done'[v] = done[v]
  BY <1>1 DEF IInv, TypeOK, Results
<1>4. TypeOK'
  BY <1>1, <1>2, <1>3 DEF IInv, TypeOK, Results
<1>5. TrustInv'
  BY <1>1, <1>2 DEF IInv, TrustInv, Trusted
<1>6. \A v \in Uids : (done[v] # New => done'[v] # New) /\ (Past(v) => Past(v)')
  BY <1>1, <1>3, MarkersApart DEF Past
<1> QED BY <1>1, <1>2, <1>4, <1>5, <1>6, WaitStep DEF IInv, RequestsInv

\* A request loads the session: what the copy claims, the session does.
LEMMA BeginHolds ==
  ASSUME IInv, NEW r \in Requests, NEW path \in Paths, path \in env.paths, NEW u \in Uids,
         Begin(r, path, u)
  PROVE  Holds
<1>1. PICK n : n = [path |-> path, uid |-> u, mine |-> session]
  OBVIOUS
<1>2. /\ req[r] = Idle /\ done[u] # New /\ Cardinality(Busy) < env.inFlight
      /\ req' = [req EXCEPT ![r] = n]
      /\ armed' = [armed EXCEPT ![r] = totp \cup keyed]
      /\ refused' = [refused EXCEPT ![r] = barred]
      /\ UNCHANGED <<world, stale, current, done, session, trust, proved, vouched>>
  BY <1>1 DEF Begin, Busy
<1>3. UNCHANGED <<env, clock, totp, keyed, enabledAt, barred>>
  BY <1>2 DEF world
<1>4. n \in Request /\ n # Idle /\ n.path = path /\ n.uid = u /\ n.mine = session
  <2>1. n \in [path : Paths, uid : Uids, mine : Session]
    BY <1>1 DEF IInv, TypeOK
  <2> QED BY <1>1, <2>1, MarkersApart DEF Request
<1>5. /\ req' \in [Requests -> Request] /\ req'[r] = n
      /\ \A q \in Requests : q # r => req'[q] = req[q]
  BY <1>2, <1>4 DEF IInv, TypeOK
<1>6. /\ armed' \in [Requests -> SUBSET Accounts] /\ refused' \in [Requests -> SUBSET Accounts]
      /\ \A q \in Requests : armed'[q] \subseteq totp' \cup keyed' /\ refused'[q] \subseteq barred'
  BY <1>2, <1>3 DEF IInv, TypeOK, RequestsInv
<1>7. TypeOK'
  BY <1>2, <1>3, <1>5, <1>6 DEF IInv, TypeOK
<1>8. TrustInv'
  BY <1>2, <1>3 DEF IInv, TrustInv, Trusted
<1>9. SessionInv'
  <2>1. Earned(session, proved)'
    BY <1>2, <1>3 DEF IInv, SessionInv, Earned, First, Past
  <2>2. Alone' => EarnedAlone(session, proved)'
    BY <1>2, <1>3 DEF IInv, SessionInv, Alone, EarnedAlone
  <2> QED BY <2>1, <2>2 DEF SessionInv
<1>10. RequestsInv'
  <2>1. Busy' = Busy \cup {r} /\ IsFiniteSet(Busy)
    BY <1>2, <1>4, <1>5 DEF Busy, IInv, RequestsInv
  <2>2. IsFiniteSet(Busy')
    BY <2>1, FS_AddElement
  <2>3. ASSUME NEW q \in Busy' PROVE /\ req'[q].path \in env'.paths /\ done'[req'[q].uid] # New
                                     /\ Earned(req[q].mine, proved)'
    <3>1. CASE q = r
      <4>1. Earned(req[q].mine, proved)'
        BY <1>2, <1>3, <1>4, <1>5, <3>1 DEF IInv, SessionInv, Earned, First, Past
      <4> QED BY <1>2, <1>3, <1>4, <1>5, <3>1, <4>1
    <3>2. CASE q # r
      <4>1. q \in Busy /\ req'[q] = req[q]
        BY <1>5, <2>1, <3>2 DEF Busy
      <4>2. Earned(req[q].mine, proved)'
        BY <1>2, <1>3, <4>1 DEF IInv, RequestsInv, Earned, First, Past
      <4> QED BY <1>2, <1>3, <4>1, <4>2 DEF IInv, RequestsInv
    <3> QED BY <3>1, <3>2
  <2>4. env'.inFlight = 1 => Busy = {}
    <3>1. Cardinality(Busy) \in Nat
      BY <2>1, FS_CardinalityType
    <3>2. env.inFlight = 1 => Cardinality(Busy) = 0
      BY <1>2, <3>1
    <3> QED BY <1>3, <2>1, <3>2, FS_EmptySet
  <2>5. env'.inFlight = 1 => \A p, q \in Busy' : p = q /\ req'[p].mine = session'
    BY <1>2, <1>4, <1>5, <2>1, <2>4
  <2> QED BY <1>6, <2>2, <2>3, <2>5 DEF RequestsInv
<1>11. \A q \in Requests : ~Completes(q)
  BY <1>2 DEF Completes
<1> QED BY <1>7, <1>8, <1>9, <1>10, <1>11 DEF Holds, Answered, StaysOut, IInv

\* No cookie was issued since a factor that is enabled now.
LEMMA EnabledTrust ==
  ASSUME IInv, NEW a \in Accounts, Enabled(a), UNCHANGED trust
  PROVE  /\ TrustInv' /\ clock' \in 1..MaxTime /\ enabledAt' \in [Accounts -> 0..MaxTime]
         /\ vouched' \subseteq Accounts
<1>1. /\ clock \in 1..MaxTime /\ clock < MaxTime /\ clock' = clock + 1 /\ MaxTime \in Nat
      /\ trust.iat \in 0..MaxTime /\ trust.iat <= clock
      /\ vouched' = vouched \ {a}
  BY BoundsAssumption DEF Enabled, IInv, TypeOK, TrustInv
<1>2. clock' \in 1..MaxTime
  BY <1>1
<1>3. /\ enabledAt' \in [Accounts -> 0..MaxTime] /\ enabledAt'[a] = clock'
      /\ \A b \in Accounts : b # a => enabledAt'[b] = enabledAt[b]
  BY <1>1, <1>2 DEF Enabled, IInv, TypeOK
<1>4. ~Trusted(a)'
  BY <1>1, <1>3 DEF Trusted
<1>5. \A b \in Accounts : enabledAt'[b] <= clock'
  BY <1>1, <1>3 DEF IInv, TrustInv, TypeOK
<1>6. \A b \in Accounts : Trusted(b)' /\ enabledAt'[b] # 0 => b \in vouched'
  BY <1>1, <1>3, <1>4 DEF IInv, TrustInv, Trusted
<1>7. TrustInv'
  BY <1>1, <1>5, <1>6 DEF TrustInv
<1> QED BY <1>1, <1>2, <1>3, <1>7 DEF IInv, TypeOK

\* The history of the requests when a factor comes or goes.
LEMMA UnarmStep ==
  ASSUME IInv, Unarm, UNCHANGED <<refused, barred>>
  PROVE  /\ armed' \in [Requests -> SUBSET Accounts]
         /\ \A r \in Requests : armed'[r] \subseteq totp' \cup keyed' /\ refused'[r] \subseteq barred'
BY DEF Unarm, IInv, TypeOK, RequestsInv

\* A TOTP secret is confirmed.
LEMMA EnableTotpHolds ==
  ASSUME IInv, NEW a \in Accounts, EnableTotp(a)
  PROVE  Holds
<1>1. /\ totp' = totp \cup {a} /\ Enabled(a) /\ Unarm
      /\ UNCHANGED <<env, keyed, barred, stale, current, done, session, trust, req, refused, proved>>
  BY DEF EnableTotp
<1>2. TypeOK'
  BY <1>1, EnabledTrust, UnarmStep DEF IInv, TypeOK
<1> QED BY <1>1, <1>2, EnabledTrust, UnarmStep, WaitStep DEF Past

\* disableMfa: when the account says no more when its factor was enabled, nothing is claimed.
LEMMA ResetMfaHolds ==
  ASSUME IInv, NEW a \in Accounts, ResetMfa(a)
  PROVE  Holds
<1>1. /\ totp' = totp \ {a} /\ enabledAt' = [enabledAt EXCEPT ![a] = 0] /\ Unarm
      /\ UNCHANGED <<env, clock, keyed, barred, stale, current, done, session, trust, req, refused,
                     proved, vouched>>
  BY DEF ResetMfa
<1>2. /\ enabledAt' \in [Accounts -> 0..MaxTime] /\ enabledAt'[a] = 0
      /\ \A b \in Accounts : b # a => enabledAt'[b] = enabledAt[b]
  BY <1>1, BoundsAssumption DEF IInv, TypeOK
<1>3. TypeOK'
  BY <1>1, <1>2, UnarmStep DEF IInv, TypeOK
<1>4. TrustInv'
  <2>1. \A b \in Accounts : enabledAt'[b] <= clock'
    BY <1>1, <1>2 DEF IInv, TypeOK, TrustInv
  <2>2. \A b \in Accounts : Trusted(b)' /\ enabledAt'[b] # 0 => b \in vouched'
    BY <1>1, <1>2 DEF IInv, TrustInv, Trusted
  <2> QED BY <1>1, <2>1, <2>2 DEF IInv, TrustInv
<1> QED BY <1>1, <1>3, <1>4, UnarmStep, WaitStep DEF Past

\* A passkey is registered, and enables the second factor if it is the first.
LEMMA RegisterPasskeyHolds ==
  ASSUME IInv, NEW a \in Accounts, RegisterPasskey(a)
  PROVE  Holds
<1>1. /\ keyed' = keyed \cup {a} /\ Unarm
      /\ Enabled(a) \/ UNCHANGED <<clock, enabledAt, vouched>>
      /\ UNCHANGED <<env, totp, barred, stale, current, done, session, trust, req, refused, proved>>
  BY DEF RegisterPasskey
<1>2. /\ TrustInv' /\ clock' \in 1..MaxTime /\ enabledAt' \in [Accounts -> 0..MaxTime]
      /\ vouched' \subseteq Accounts
  <2>1. CASE Enabled(a)
    BY <1>1, <2>1, EnabledTrust
  <2>2. CASE UNCHANGED <<clock, enabledAt, vouched>>
    BY <1>1, <2>2 DEF IInv, TypeOK, TrustInv, Trusted
  <2> QED BY <1>1, <2>1, <2>2
<1>3. TypeOK'
  BY <1>1, <1>2, UnarmStep DEF IInv, TypeOK
<1> QED BY <1>1, <1>2, <1>3, UnarmStep, WaitStep DEF Past

\* A passkey is removed; mfa_enabled_at stays.
LEMMA RemovePasskeyHolds ==
  ASSUME IInv, NEW a \in Accounts, RemovePasskey(a)
  PROVE  Holds
<1>1. /\ keyed' = keyed \ {a} /\ Unarm
      /\ UNCHANGED <<env, clock, totp, enabledAt, barred, stale, current, done, session, trust, req,
                     refused, proved, vouched>>
  BY DEF RemovePasskey
<1>2. TypeOK'
  BY <1>1, UnarmStep DEF IInv, TypeOK
<1>3. TrustInv'
  BY <1>1 DEF IInv, TrustInv, Trusted
<1> QED BY <1>1, <1>2, <1>3, UnarmStep, WaitStep DEF Past

\* An account that is barred now was not when the requests in flight began.
LEMMA BarHolds ==
  ASSUME IInv, NEW a \in Accounts, Bar(a)
  PROVE  Holds
<1>1. /\ barred' = barred \cup {a}
      /\ UNCHANGED <<env, clock, totp, keyed, enabledAt, stale, current, done, session, trust, req,
                     armed, refused, proved, vouched>>
  BY DEF Bar
<1>2. TypeOK'
  BY <1>1 DEF IInv, TypeOK
<1>3. TrustInv'
  BY <1>1 DEF IInv, TrustInv, Trusted
<1>4. \A r \in Requests : armed'[r] \subseteq totp' \cup keyed' /\ refused'[r] \subseteq barred'
  BY <1>1 DEF IInv, RequestsInv
<1> QED BY <1>1, <1>2, <1>3, <1>4, WaitStep DEF Past

\* A password expires, or nothing happens.
LEMMA StillHolds ==
  ASSUME IInv, stale' \subseteq Accounts,
         UNCHANGED <<world, current, done, session, trust, req, armed, refused, proved, vouched>>
  PROVE  Holds
<1>1. UNCHANGED <<env, clock, totp, keyed, enabledAt, barred>>
  BY DEF world
<1>2. TypeOK'
  BY <1>1 DEF IInv, TypeOK
<1>3. TrustInv'
  BY <1>1 DEF IInv, TrustInv, Trusted
<1>4. \A r \in Requests : armed'[r] \subseteq totp' \cup keyed' /\ refused'[r] \subseteq barred'
  BY <1>1 DEF IInv, RequestsInv
<1> QED BY <1>1, <1>2, <1>3, <1>4, WaitStep DEF Past

\* A password expires.
LEMMA PasswordExpiresHolds ==
  ASSUME IInv, NEW a \in Accounts, PasswordExpires(a)
  PROVE  Holds
BY StillHolds DEF PasswordExpires, IInv, TypeOK

\* A flow that has aged claims what it did.
LEMMA AgedLesser ==
  ASSUME NEW s \in Session
  PROVE  Lesser(Aged(s), s)
BY DroppedLesser, FlowLesser DEF Aged

\* The flow lapses in the session and in every copy of it.
LEMMA FlowLapsesHolds ==
  ASSUME IInv, FlowLapses
  PROVE  Holds
<1>1. /\ session' = Aged(session)
      /\ req' = [r \in Requests |->
                   IF req[r] = Idle THEN Idle ELSE [req[r] EXCEPT !.mine = Aged(req[r].mine)]]
      /\ UNCHANGED <<world, stale, current, done, trust, armed, refused, proved, vouched>>
  BY DEF FlowLapses
<1>2. UNCHANGED <<env, clock, totp, keyed, enabledAt, barred>>
  BY <1>1 DEF world
<1>3. ASSUME NEW r \in Busy
      PROVE  /\ req'[r] \in Request /\ req'[r] # Idle
             /\ req'[r].path = req[r].path /\ req'[r].uid = req[r].uid
             /\ req'[r].mine = Aged(req[r].mine)
  <2>1. r \in Requests /\ req[r] \in [path : Paths, uid : Uids, mine : Session]
    BY DEF Busy, IInv, TypeOK, Request
  <2>2. Aged(req[r].mine) \in Session
    BY <2>1, AgedLesser DEF Lesser
  <2>3. req'[r] = [req[r] EXCEPT !.mine = Aged(req[r].mine)]
    BY <1>1, <2>1 DEF Busy
  <2>4. req'[r] \in [path : Paths, uid : Uids, mine : Session]
    BY <2>1, <2>2, <2>3
  <2> QED BY <2>1, <2>3, <2>4, MarkersApart DEF Request
<1>4. \A r \in Requests : r \notin Busy => req'[r] = Idle
  BY <1>1 DEF Busy
<1>5. Busy' = Busy
  BY <1>3, <1>4 DEF Busy
<1>6. req' \in [Requests -> Request]
  <2>1. \A r \in Requests : req'[r] \in Request
    BY <1>3, <1>4 DEF Request
  <2> QED BY <1>1, <2>1
<1>7. session' \in Session
  BY <1>1, AgedLesser DEF Lesser, IInv, TypeOK
<1>8. TypeOK'
  BY <1>1, <1>2, <1>6, <1>7 DEF IInv, TypeOK
<1>9. TrustInv'
  BY <1>1, <1>2 DEF IInv, TrustInv, Trusted
<1>10. ASSUME NEW s \in Session, Earned(s, proved), NEW t, t = Aged(s) PROVE Earned(t, proved)'
  <2>1. t \in Session /\ Earned(t, proved)
    BY <1>10, AgedLesser, LesserEarned DEF Lesser
  <2> QED BY <1>1, <1>2, <2>1, EarnedKept DEF Past
<1>11. SessionInv'
  <2>1. PICK s \in Session : s = session
    BY DEF IInv, TypeOK
  <2>2. PICK t : t = Aged(s)
    OBVIOUS
  <2>3. Earned(t, proved)' /\ session' = t
    BY <1>1, <1>10, <2>1, <2>2 DEF IInv, SessionInv
  <2>4. Alone => EarnedAlone(t, proved)
    BY <2>1, <2>2, AgedLesser, LesserEarned DEF IInv, SessionInv
  <2> QED BY <1>1, <1>2, <2>3, <2>4 DEF SessionInv, Alone, Earned, EarnedAlone, First, Past
<1>12. RequestsInv'
  <2>1. ASSUME NEW r \in Busy PROVE /\ req'[r].path \in env'.paths /\ done'[req'[r].uid] # New
                                    /\ Earned(req[r].mine, proved)'
    <3>1. PICK m \in Session : m = req[r].mine /\ Earned(m, proved)
      BY Loaded DEF Busy, Mine
    <3>2. PICK t : t = Aged(m)
      OBVIOUS
    <3>3. Earned(t, proved)' /\ req'[r].mine = t
      BY <1>3, <1>10, <3>1, <3>2
    <3>4. Earned(req[r].mine, proved)'
      BY <3>3 DEF Earned, First, Past
    <3> QED BY <1>1, <1>2, <1>3, <3>4, Loaded DEF Busy
  <2>2. env'.inFlight = 1 => \A r, q \in Busy : r = q /\ req'[r].mine = session'
    BY <1>1, <1>2, <1>3 DEF IInv, RequestsInv
  <2> QED BY <1>1, <1>2, <1>5, <2>1, <2>2 DEF RequestsInv, IInv
<1>13. \A r \in Requests : ~Completes(r)
  BY <1>1 DEF Completes
<1> QED BY <1>8, <1>9, <1>11, <1>12, <1>13 DEF Holds, Answered, StaysOut, IInv

-----------------------------------------------------------------------------
(* The theorems.                                                             *)

\* Nothing is claimed, and nothing in flight, at first.
LEMMA InitIInv == Init => IInv
<1> SUFFICES ASSUME Init PROVE IInv
  OBVIOUS
<1>1. PICK one \in Accounts : one = CHOOSE a \in Accounts : TRUE
  BY AccountsAssumption
<1>2. totp \subseteq Accounts
  BY <1>1 DEF Init
<1>3. /\ env \in Scenarios /\ clock = 1 /\ keyed = {} /\ barred = {} /\ stale = {}
      /\ enabledAt = [a \in Accounts |-> IF a \in totp THEN 1 ELSE 0]
      /\ current = NoUid /\ done = [u \in Uids |-> New] /\ session = Fresh
      /\ trust = [account |-> Nobody, iat |-> 0] /\ req = [r \in Requests |-> Idle]
      /\ armed = [r \in Requests |-> {}] /\ refused = [r \in Requests |-> {}]
      /\ proved = {} /\ vouched = {}
  BY DEF Init
<1>4. Fresh \in Session
  BY DEF Fresh, Session, Bindings
<1>5. 1 \in 1..MaxTime /\ 1 \in 0..MaxTime /\ 0 \in 0..MaxTime
  BY BoundsAssumption
<1>6. enabledAt \in [Accounts -> 0..MaxTime] /\ \A a \in Accounts : enabledAt[a] \in {0, 1}
  BY <1>3, <1>5
<1>7. TypeOK
  <2>1. trust \in [account : Accounts \cup {Nobody}, iat : 0..MaxTime]
    BY <1>3, <1>5
  <2>2. done \in [Uids -> {New, Open, Over} \cup
                    [state : {"done"}, account : Accounts, amr : SUBSET (Primaries \cup SecondFactors)]]
    BY <1>3
  <2>3. req \in [Requests -> Request]
    BY <1>3 DEF Request
  <2> QED BY <1>2, <1>3, <1>4, <1>5, <1>6, <2>1, <2>2, <2>3 DEF TypeOK
<1>8. RequestsInv
  <2>1. Busy = {}
    BY <1>3 DEF Busy
  <2> QED BY <1>3, <2>1, FS_EmptySet DEF RequestsInv
<1>9. TrustInv
  BY <1>3, <1>6, AbsenceAssumption DEF TrustInv, Trusted
<1>10. SessionInv
  BY <1>3 DEF SessionInv, Earned, EarnedAlone, Fresh
<1> QED BY <1>7, <1>8, <1>9, <1>10 DEF IInv

\* Every step keeps the invariant and is one the two properties allow.
LEMMA NextIInv == IInv /\ [Next]_vars => Holds
<1> SUFFICES ASSUME IInv, [Next]_vars PROVE Holds
  OBVIOUS
<1>1. env.uids \subseteq Uids /\ env.paths \subseteq Paths
  BY ScenarioFields
<1>2. ASSUME NEW u \in env.uids, StartInteraction(u) \/ Resume(u) PROVE Holds
  BY <1>1, <1>2, StartInteractionHolds, ResumeHolds
<1>3. ASSUME NEW r \in Requests, NEW path \in env.paths, NEW u \in env.uids, Begin(r, path, u)
      PROVE  Holds
  BY <1>1, <1>3, BeginHolds
<1>4. ASSUME NEW r \in Requests,
             \/ Fail(r) \/ Identifier(r) \/ SwitchIdentifier(r) \/ WrongPassword(r) \/ Login(r)
             \/ ChangeExpiredPassword(r) \/ EmailProof(r) \/ SocialCallback(r) \/ SocialContinue(r)
             \/ CustomLogin(r)
      PROVE  Holds
  BY <1>4, RefusedHolds, IdentifierHolds, LoginHolds, ChangeExpiredPasswordHolds, EmailProofHolds,
     SocialCallbackHolds, SocialContinueHolds, CustomLoginHolds
<1>5. ASSUME NEW r \in Requests,
             \/ WrongCode(r) \/ MfaVerify(r) \/ PasskeyOptions(r) \/ WrongPasskey(r)
             \/ PasskeyVerify(r) \/ CustomMfaBegin(r) \/ CustomMfaVerify(r)
      PROVE  Holds
  BY <1>5, WrongCodeHolds, MfaVerifyHolds, PasskeyOptionsHolds, WrongPasskeyHolds, PasskeyVerifyHolds,
     CustomMfaBeginHolds, CustomMfaVerifyHolds
<1>6. ASSUME NEW a \in Accounts,
             \/ EnableTotp(a) \/ ResetMfa(a) \/ RegisterPasskey(a) \/ RemovePasskey(a)
             \/ Bar(a) \/ PasswordExpires(a)
      PROVE  Holds
  BY <1>6, EnableTotpHolds, ResetMfaHolds, RegisterPasskeyHolds, RemovePasskeyHolds, BarHolds,
     PasswordExpiresHolds
<1>7. CASE FlowLapses
  BY <1>7, FlowLapsesHolds
<1>8. CASE UNCHANGED vars
  BY <1>8, StillHolds DEF vars, IInv, TypeOK
<1> QED BY <1>2, <1>3, <1>4, <1>5, <1>6, <1>7, <1>8 DEF Next

\* The inductive invariant: what the session, and the copy of it that each request works
\* on, claim of a login was proved by that account at that interaction.
THEOREM InductiveInvariant == Spec => []IInv
<1>1. IInv /\ [Next]_vars => IInv'
  BY NextIInv DEF Holds
<1> QED BY InitIInv, <1>1, PTL DEF Spec

\* Every variable keeps its type; a flow is never kept with its attempts used up
\* (custom_mfa.ts, failedProof and getMfaFlow).
THEOREM TypeCorrect == Spec => []TypeOK
<1>1. IInv => TypeOK
  BY DEF IInv
<1> QED BY InductiveInvariant, <1>1, PTL

\* A login with cfg.mfa rests on the factors that its account proved at its interaction,
\* and on as many as required; without it, and one request at a time, on a challenge that
\* was answered, whatever the order of requests, tabs, lapses and changes of the factors
\* (interaction_controller.ts, secondFactorGate to finishVerifiedMfa).
THEOREM ChallengeAnsweredHolds == Spec => ChallengeAnswered
<1>1. IInv /\ [Next]_vars =>
        [\A r \in Requests : Completes(r) =>
           LET d == done'[current]
           IN IF env.configured THEN ConfiguredAnswered(r, d.account, d.amr)
              ELSE env.inFlight = 1 => LegacyAnswered(r, d.account, d.amr)]_vars
  BY NextIInv DEF Holds, Answered
<1> QED BY InductiveInvariant, <1>1, PTL DEF Spec, ChallengeAnswered

\* An account that was disabled before the last request of its login is not signed in by
\* it, but for the three ends of a login that do not ask (login_attempt.ts,
\* assertLoginAllowed).
THEOREM DisabledStaysOutHolds == Spec => DisabledStaysOut
<1>1. IInv /\ [Next]_vars =>
        [\A r \in Requests :
           Completes(r) /\ req[r].path \notin {"expired", "continue"}
             /\ (req[r].path = "code" => env.configured)
             => done'[current].account \notin refused[r]]_vars
  BY NextIInv DEF Holds, StaysOut
<1> QED BY InductiveInvariant, <1>1, PTL DEF Spec, DisabledStaysOut
================================================================================
