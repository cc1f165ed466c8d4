--------------------------- MODULE PoppySignInProofs ---------------------------
(* TLAPS proofs about PoppySignIn, for every value of its constants: type       *)
(* correctness, ActsAsConsented and EndedStaysOut, and what no step undoes.     *)
(*                                                                              *)
(* Neither property is inductive: what is let through, or granted, depends on   *)
(* what handlers read many steps earlier. IInv says what each handler knows     *)
(* before its next step (Knows), that no two of them hold one consent or the    *)
(* browser (Apart), and what the rows, grants, tokens, Sessions, the marker of  *)
(* the browser and the snapshot of the registry say of one another.             *)
(*                                                                              *)
(* Persists is what no step undoes. What a handler knows follows from it, so    *)
(* that a step has to be examined for the handler and the rows it changes only: *)
(* one lemma per action shows what it changes, and Assemble the rest.           *)
EXTENDS PoppySignIn, TLAPS, FiniteSetTheorems

\* g is a grant of this account, for these scopes at least.
Covers(g, account, S) ==
  g \in Kept(grants) /\ grants[g].account = account /\ S \subseteq grants[g].scopes

\* Who acts over Session e acts for nobody, or for the account it is bound to and
\* within a grant of that account.
Within(e, account, g, S) ==
  /\ e \in Kept(sessions)
  /\ IF g = NoGrant THEN account = Nobody
     ELSE account \in Accounts /\ Covers(g, account, S) /\ sessions[e].account = account

\* Request i is of one of these kinds, if it is still there.
OfKind(i, kinds) ==
  i \in Requests /\ requests[i] # NoRow /\ (requests[i] # Gone => requests[i].kind \in kinds)

\* Request i led to a grant, or is about to: it is not exchanged again.
Consumed(i) == requests[i] # NoRow /\ (requests[i] # Gone => requests[i].status = "consumed")
ConsentedTo(i, account, S) == consents[i] = {[account |-> account, scopes |-> S]}

Unusable(g) == g \in Kept(grants) /\ ~Usable(g)

\* g is revoked and left no bearer, unless one was minted since.
Cleared(g) ==
  /\ g \in Kept(grants) /\ grants[g].revoked
  /\ BearersOf(g) # {} => g \in outlived

Granting(l) == l.pc \in {"signIn", "grant"} /\ l.req # NoRequest
InBrowser(l) == l.pc \in {"complete", "enter", "browse"}

\* What a handler with the local variables l knows before its next step.
Consenting(l) ==
  /\ l.pc = "decide" => OfKind(l.req, {"authorize", "device"}) /\ l.account \in Accounts
  /\ l.pc = "consume" => /\ OfKind(l.req, {"authorize", "device"}) /\ l.account \in Accounts
                         /\ ConsentedTo(l.req, l.account, l.scopes)
  /\ l.pc = "guess" => /\ OfKind(l.req, {"mediated"}) /\ l.attempts < MaxCodeAttempts
                       /\ l.yes => l.account \in Accounts
  /\ l.pc \in {"signIn", "grant"} => l.account \in Accounts
  /\ Granting(l) => Consumed(l.req) /\ ConsentedTo(l.req, l.account, l.scopes)
  /\ l.pc = "grant" => l.want \subseteq l.scopes

Issuing(l) ==
  l.pc \in {"issue", "store", "note"} =>
    /\ l.account \in Accounts /\ Covers(l.grant, l.account, l.want) /\ l.grant \notin l.before
    /\ grants[l.grant].origin = l.req \/ (l.req = NoRequest /\ l.grant \in held)
    /\ l.pc \in {"store", "note"} => l.token \in Tokens
    /\ l.pc = "note" => OfKind(l.req, {"authorize"})

Ending(l) ==
  l.pc \in {"revoke", "unmint", "endSessions"} =>
    /\ l.left \subseteq Kept(grants)
    /\ \A g \in l.cut : g \in l.left \/ Cleared(g) \/ (l.pc = "unmint" /\ g = l.grant)
    /\ l.pc = "unmint" => l.grant \in Kept(grants) /\ grants[l.grant].revoked
    /\ l.pc = "endSessions" => l.left = {}

Entering(l) ==
  /\ l.pc = "find" =>
       /\ l.session \in Sessions
       /\ IF l.token = NoToken THEN l.grant = NoGrant /\ l.account = Nobody
          ELSE l.account \in Accounts /\ Covers(l.grant, l.account, l.scopes)
  /\ l.pc = "bind" => /\ l.session \in Kept(sessions) /\ l.account \in Accounts
                      /\ Covers(l.grant, l.account, l.scopes)
  /\ l.pc \in {"act", "join", "enter"} => Within(l.session, l.account, l.grant, l.scopes)
  /\ l.pc \in {"find", "bind", "act", "join"} =>
       /\ l.grant \notin l.before
       /\ l.join = NoRequest \/ OfKind(l.join, {"browser"})
  /\ l.pc = "join" => l.join # NoRequest
  /\ l.pc = "complete" => /\ OfKind(l.req, {"browser"})
                          /\ l.status = "approved" => Within(l.session, l.account, l.grant, l.scopes)
  /\ l.pc = "browse" => /\ l.session = browser.session /\ l.session # NoSession
                        /\ l.grant = browser.grant /\ l.join = NoRequest

Knows(l) ==
  /\ ~l.late /\ \A g \in l.before : Unusable(g)
  /\ Consenting(l) /\ Issuing(l) /\ Ending(l) /\ Entering(l)
HandlersKnow == \A p \in Procs : Knows(procs[p])

\* Two handlers never hold one consent, nor the browser.
Apart ==
  \A p, q \in Procs : p # q =>
    /\ (Granting(procs[p]) /\ Granting(procs[q])) => procs[p].req # procs[q].req
    /\ ~(InBrowser(procs[p]) /\ InBrowser(procs[q]))

RowInv(i) ==
  /\ requests[i] = NoRow => consents[i] = {}
  /\ requests[i] \in Request =>
       /\ requests[i].status = "pending" => consents[i] = {} /\ requests[i].attempts < MaxCodeAttempts
       /\ requests[i].note # NoGrant => requests[i].note \in Kept(grants)
       /\ requests[i].status = "approved" =>
            IF requests[i].kind = "browser"
            THEN Within(requests[i].session, requests[i].account, requests[i].note, requests[i].scopes)
            ELSE requests[i].account \in Accounts
                 /\ ConsentedTo(i, requests[i].account, requests[i].scopes)
RowsInv == \A i \in Requests : RowInv(i)

\* The origin of a grant was consented to, and no handler will grant it again.
OriginInv(g) ==
  grants[g].origin # NoRequest =>
    /\ Consumed(grants[g].origin)
    /\ ConsentedTo(grants[g].origin, grants[g].account, grants[g].scopes)
    /\ \A p \in Procs : Granting(procs[p]) => procs[p].req # grants[g].origin
OriginsInv == \A g \in Kept(grants) : OriginInv(g)

\* A grant that was answered for a code is noted in the row of the code.
NotedInv ==
  \A g \in held \cap Grants :
    /\ g \in Kept(grants)
    /\ (OfKind(grants[g].origin, {"authorize"}) /\ requests[grants[g].origin] # Gone)
         => requests[grants[g].origin].note = g

TokensInv ==
  \A t \in Kept(tokens) : Covers(tokens[t].grant, tokens[t].account, tokens[t].scopes)

SessionsInv ==
  /\ \A e \in Sessions : acted[e] # {} => e \in Kept(sessions) /\ acted[e] = {sessions[e].account}
  /\ IF browser.session = NoSession THEN browser.grant = NoGrant /\ browser.account = Nobody
     ELSE Within(browser.session, browser.account, browser.grant, browser.scopes)

EndedInv == \A g \in ended : Cleared(g)

RegistryInv ==
  /\ blocked => registry.row
  /\ (registry.row /\ ~registry.missed) =>
       /\ registry.loading # "free"
       /\ registry.snapshot = "free" => \E p \in Procs : Does(p, "invalidate")
  /\ (blocked /\ ~registry.missed) => registry.snapshot # "free"

IInv == /\ TypeOK /\ HandlersKnow /\ Apart /\ RowsInv /\ OneGrantPerConsent /\ OriginsInv
        /\ NotedInv /\ TokensInv /\ SessionsInv /\ EndedInv /\ RegistryInv

-----------------------------------------------------------------------------
(* What no step undoes, and what a handler may therefore rely on.            *)

RowPersists(i) ==
  /\ requests[i] # NoRow => requests'[i] # NoRow
  /\ (requests[i] # NoRow /\ requests'[i] # Gone) =>
       /\ requests[i] # Gone /\ requests'[i].kind = requests[i].kind
       /\ requests[i].status = "consumed" => requests'[i].status = "consumed"
  /\ consents[i] # {} => consents'[i] = consents[i]

GrantPersists(g) ==
  g \in Kept(grants) =>
    /\ g \in Kept(grants')
    /\ grants'[g].account = grants[g].account /\ grants'[g].scopes = grants[g].scopes
    /\ grants'[g].origin = grants[g].origin
    /\ grants[g].revoked => grants'[g].revoked

SessionPersists(e) ==
  e \in Kept(sessions) =>
    /\ e \in Kept(sessions')
    /\ sessions[e].account # Nobody => sessions'[e].account = sessions[e].account

Persists ==
  /\ \A i \in Requests : RowPersists(i)
  /\ \A g \in Grants : GrantPersists(g)
  /\ \A e \in Sessions : SessionPersists(e)
  /\ barred \subseteq barred' /\ held \subseteq held'
  /\ \A g \in Grants : Cleared(g) => Cleared(g)'

\* Markers are no rows.
LEMMA RowsApart ==
  /\ NoRow \notin Request /\ NoRow \notin Grant /\ NoRow \notin Token /\ NoRow \notin Session
  /\ Gone \notin Request /\ Gone \notin Grant /\ Gone \notin Token /\ Gone \notin Session
  /\ NoRow # Gone
BY DEF NoRow, Gone, Request, Grant, Token, Session, Kinds

\* The rows that a table keeps are those that are no markers.
Rowed ==
  /\ Kept(grants) = {g \in Grants : grants[g] \in Grant}
  /\ Kept(sessions) = {e \in Sessions : sessions[e] \in Session}
  /\ Kept(tokens) = {t \in Tokens : tokens[t] \in Token}
  /\ Rows = {i \in Requests : requests[i] \in Request}

\* What TypeOK says of the tables, before a step and after it.
LEMMA RowedNow == TypeOK => Rowed
BY RowsApart DEF TypeOK, Rowed, Rows, Kept

\* The same in the next state.
LEMMA RowedNext == TypeOK' => Rowed'
BY RowsApart DEF TypeOK, Rowed, Rows, Kept

\* What a step keeps of what is known of a grant, a Session and a request.
LEMMA CoversKept ==
  ASSUME TypeOK, Persists, NEW g, NEW a, NEW S, Covers(g, a, S)
  PROVE  Covers(g, a, S)' /\ GrantPersists(g)
BY RowedNow DEF Covers, Persists, GrantPersists, Rowed

\* Nor does a step take away the account and the grant that a Session acts for.
LEMMA WithinKept ==
  ASSUME TypeOK, Persists, NEW e, NEW a, NEW g, NEW S, Within(e, a, g, S)
  PROVE  Within(e, a, g, S)'
<1>1. e \in Sessions /\ e \in Kept(sessions')
      /\ (sessions[e].account # Nobody => sessions'[e].account = sessions[e].account)
  BY RowedNow DEF Within, Persists, SessionPersists, Rowed
<1>2. CASE g = NoGrant
  BY <1>1, <1>2 DEF Within
<1>3. CASE g # NoGrant
  BY <1>1, <1>3, CoversKept, AbsenceAssumption DEF Within
<1> QED BY <1>2, <1>3

\* A request keeps its kind.
LEMMA OfKindKept ==
  ASSUME Persists, NEW i, NEW kinds, OfKind(i, kinds)
  PROVE  OfKind(i, kinds)'
BY DEF OfKind, Persists, RowPersists

\* A request that is used stays used, by the consent it was used with.
LEMMA ConsumedKept ==
  ASSUME Persists, NEW i \in Requests, NEW a, NEW S, Consumed(i), ConsentedTo(i, a, S)
  PROVE  Consumed(i)' /\ ConsentedTo(i, a, S)'
BY DEF Consumed, ConsentedTo, Persists, RowPersists

\* A consent is given once.
LEMMA ConsentKept ==
  ASSUME Persists, NEW i \in Requests, NEW a, NEW S, ConsentedTo(i, a, S)
  PROVE  ConsentedTo(i, a, S)'
BY DEF ConsentedTo, Persists, RowPersists

\* A grant that is revoked, or whose account is disabled, is never usable again.
LEMMA UnusableKept ==
  ASSUME TypeOK, Persists, NEW g, Unusable(g)
  PROVE  Unusable(g)'
BY RowedNow DEF Unusable, Usable, Persists, GrantPersists, Rowed

\* A handler that a step leaves alone still knows what it knew.
LEMMA KnowsKept ==
  ASSUME TypeOK, Persists, NEW l \in Proc, Knows(l), l.pc = "browse" => browser' = browser
  PROVE  Knows(l)'
<1>1. ~l.late /\ \A g \in l.before : Unusable(g)'
  BY UnusableKept DEF Knows
<1>2. Consenting(l)'
  <2>1. l.req # NoRequest => l.req \in Requests
    BY DEF Proc
  <2> QED
    BY <2>1, OfKindKept, ConsumedKept, ConsentKept DEF Knows, Consenting, Granting, OfKind
<1>3. Issuing(l)'
  <2>1. l.pc \in {"issue", "store", "note"} =>
          Covers(l.grant, l.account, l.want)' /\ grants'[l.grant].origin = grants[l.grant].origin
    BY CoversKept DEF Knows, Issuing, Covers, GrantPersists
  <2> QED
    BY <2>1, OfKindKept DEF Knows, Issuing, Persists
<1>4. Ending(l)'
  BY RowedNow DEF Knows, Ending, Persists, GrantPersists, Rowed, Proc
<1>5. Entering(l)'
  <2>1. l.pc \in {"find", "bind"} /\ Covers(l.grant, l.account, l.scopes)
          => Covers(l.grant, l.account, l.scopes)'
    BY CoversKept
  <2>2. l.session \in Kept(sessions) => l.session \in Kept(sessions')
    BY RowedNow DEF Persists, SessionPersists, Rowed
  <2> QED
    BY <2>1, <2>2, WithinKept, OfKindKept DEF Knows, Entering
<1> QED
  BY <1>1, <1>2, <1>3, <1>4, <1>5 DEF Knows

-----------------------------------------------------------------------------
(* The parts of the invariant that a step leaves alone.                      *)

\* A request that a step leaves alone stays right.
LEMMA RowKept ==
  ASSUME TypeOK, Persists, NEW i \in Requests, RowInv(i),
         requests'[i] = requests[i], consents'[i] = consents[i]
  PROVE  RowInv(i)'
<1>1. CASE requests[i] \in Request
  <2>1. requests[i].note # NoGrant => requests'[i].note \in Kept(grants')
    BY <1>1, RowedNow DEF RowInv, Persists, GrantPersists, Rowed
  <2> QED
    BY <1>1, <2>1, WithinKept DEF RowInv, ConsentedTo
<1>2. CASE requests[i] \notin Request
  BY <1>2 DEF RowInv
<1> QED BY <1>1, <1>2

\* Handlers that move to another step, but for those about to sign in.
Onward(p) ==
  /\ Granting(procs[p])' => \/ Granting(procs[p]) /\ procs'[p].req = procs[p].req
                            \/ procs'[p].req \in Requests /\ ~Consumed(procs'[p].req)
  /\ InBrowser(procs[p])' => InBrowser(procs[p]) \/ BrowserIsFree

\* A step of one handler leaves consents and browser to one handler each.
LEMMA ApartKept ==
  ASSUME IInv, NEW p \in Procs, \A q \in Procs : q # p => procs'[q] = procs[q], Onward(p)
  PROVE  Apart'
<1>1. \A q \in Procs : Granting(procs[q]) => Consumed(procs[q].req)
  BY DEF IInv, HandlersKnow, Knows, Consenting
<1>2. BrowserIsFree => \A q \in Procs : ~InBrowser(procs[q])
  BY DEF BrowserIsFree, InBrowser, Does
<1> SUFFICES ASSUME NEW q \in Procs, NEW r \in Procs, q # r
             PROVE  /\ (Granting(procs[q])' /\ Granting(procs[r])') => procs'[q].req # procs'[r].req
                    /\ ~(InBrowser(procs[q])' /\ InBrowser(procs[r])')
  BY DEF Apart
<1>3. CASE q # p /\ r # p
  BY <1>3 DEF IInv, Apart, Granting, InBrowser
<1>4. CASE q = p
  BY <1>1, <1>2, <1>4 DEF IInv, Apart, Granting, InBrowser, Onward
<1>5. CASE r = p
  BY <1>1, <1>2, <1>5 DEF IInv, Apart, Granting, InBrowser, Onward
<1> QED BY <1>3, <1>4, <1>5

\* No grant is inserted.
LEMMA OriginsKept ==
  ASSUME IInv, TypeOK', Persists, Kept(grants') \subseteq Kept(grants),
         \A q \in Procs : procs'[q] = procs[q] \/ Onward(q)
  PROVE  OneGrantPerConsent' /\ OriginsInv'
<1>1. \A g \in Kept(grants') :
        /\ g \in Kept(grants) /\ grants'[g].origin = grants[g].origin
        /\ grants'[g].account = grants[g].account /\ grants'[g].scopes = grants[g].scopes
        /\ grants[g].origin # NoRequest => grants[g].origin \in Requests
  BY RowedNow DEF IInv, Persists, GrantPersists, Rowed, Grant
<1>2. OneGrantPerConsent'
  BY <1>1 DEF IInv, OneGrantPerConsent
<1>3. ASSUME NEW g \in Kept(grants'), grants'[g].origin # NoRequest PROVE OriginInv(g)'
  <2>1. OriginInv(g)
    BY <1>1, <1>3 DEF IInv, OriginsInv
  <2>2. /\ Consumed(grants[g].origin)'
        /\ ConsentedTo(grants[g].origin, grants[g].account, grants[g].scopes)'
    BY <1>1, <1>3, <2>1, ConsumedKept DEF OriginInv
  <2>3. ASSUME NEW q \in Procs, Granting(procs[q])' PROVE procs'[q].req # grants[g].origin
    BY <1>1, <1>3, <2>1, <2>3 DEF OriginInv, Onward, Granting
  <2> QED
    BY <1>1, <2>2, <2>3 DEF OriginInv, Consumed, ConsentedTo
<1> QED BY <1>2, <1>3 DEF OriginsInv, OriginInv

\* No grant is answered, and no note of a code is written.
LEMMA NotedKept ==
  ASSUME IInv, TypeOK', Persists, held' \cap Grants \subseteq held,
         \A i \in Requests : (OfKind(i, {"authorize"}) /\ requests'[i] # Gone)
                               => requests'[i].note = requests[i].note
  PROVE  NotedInv'
<1> SUFFICES ASSUME NEW g \in held' \cap Grants
             PROVE  /\ g \in Kept(grants')
                    /\ (OfKind(grants[g].origin, {"authorize"})' /\ requests'[grants'[g].origin] # Gone)
                         => requests'[grants'[g].origin].note = g
  BY DEF NotedInv
<1>1. g \in Kept(grants)
  BY DEF IInv, NotedInv
<1>2. g \in Kept(grants') /\ grants'[g].origin = grants[g].origin
  BY <1>1 DEF Persists, GrantPersists
<1>3. ASSUME OfKind(grants[g].origin, {"authorize"})', requests'[grants'[g].origin] # Gone
      PROVE  requests'[grants'[g].origin].note = g
  <2> DEFINE i == grants[g].origin
  <2>1. i \in Requests /\ Consumed(i)
    BY <1>1, <1>2, <1>3, AbsenceAssumption DEF OfKind, IInv, OriginsInv, OriginInv
  <2>2. OfKind(i, {"authorize"}) /\ requests[i] # Gone
    BY <1>2, <1>3, <2>1 DEF OfKind, Consumed, Persists, RowPersists
  <2> QED
    BY <1>2, <1>3, <2>1, <2>2 DEF IInv, NotedInv
<1> QED BY <1>2, <1>3

\* Tokens that stay, and tokens within their grants, are within their grants.
LEMMA TokensKept ==
  ASSUME IInv, TypeOK', Persists,
         \A t \in Kept(tokens') :
           \/ t \in Kept(tokens) /\ tokens'[t] = tokens[t]
           \/ Covers(tokens[t].grant, tokens[t].account, tokens[t].scopes)'
  PROVE  TokensInv'
<1> SUFFICES ASSUME NEW t \in Kept(tokens), tokens'[t] = tokens[t]
             PROVE  Covers(tokens[t].grant, tokens[t].account, tokens[t].scopes)'
  BY DEF TokensInv
<1>1. PICK row : row = tokens[t]
  OBVIOUS
<1>2. Covers(row.grant, row.account, row.scopes)'
  BY <1>1, CoversKept DEF IInv, TokensInv
<1> QED BY <1>1, <1>2 DEF Covers

\* Sessions and the marker, when neither the browser nor what was let through changes.
LEMMA SessionsKept ==
  ASSUME IInv, TypeOK', Persists, UNCHANGED <<browser, acted>>
  PROVE  SessionsInv'
<1>1. ASSUME NEW e \in Sessions, acted'[e] # {}
      PROVE  e \in Kept(sessions') /\ acted'[e] = {sessions'[e].account}
  <2>1. e \in Kept(sessions) /\ acted[e] = {sessions[e].account} /\ acted[e] \subseteq Accounts
    BY <1>1 DEF IInv, SessionsInv, TypeOK
  <2> QED
    BY <2>1, AbsenceAssumption DEF Persists, SessionPersists
<1>2. browser.session # NoSession
        => Within(browser.session, browser.account, browser.grant, browser.scopes)'
  BY WithinKept DEF IInv, SessionsInv
<1> QED BY <1>1, <1>2 DEF IInv, SessionsInv, Within, Covers

\* What has ended was cleared.
LEMMA EndedKept ==
  ASSUME IInv, Persists, \A g \in ended' : g \in ended \/ Cleared(g)'
  PROVE  EndedInv'
BY DEF IInv, EndedInv, Persists, TypeOK

\* The registry, its snapshot and the handlers that are to drop it.
LEMMA RegistryKept ==
  ASSUME IInv, UNCHANGED <<registry, blocked>>,
         \A q \in Procs : Does(q, "invalidate") => Does(q, "invalidate")'
  PROVE  RegistryInv'
BY DEF IInv, RegistryInv

\* What is known of the local variables that a handler is given.
LEMMA KnowsMoved ==
  ASSUME NEW p \in Procs, NEW l, procs'[p] = l, Knows(l)'
  PROVE  Knows(procs[p])'
BY DEF Knows, Consenting, Issuing, Ending, Entering, Granting, Covers, Within, OfKind, Consumed,
       ConsentedTo, Cleared, Unusable

\* Enough that a step keeps, or restores, each part.
LEMMA Assemble ==
  ASSUME IInv, TypeOK', Persists,
         \A q \in Procs :
           \/ procs'[q] = procs[q] /\ (InBrowser(procs[q]) => browser' = browser)
           \/ Knows(procs[q])',
         \A i \in Requests :
           (requests'[i] = requests[i] /\ consents'[i] = consents[i]) \/ RowInv(i)',
         Apart', OneGrantPerConsent', OriginsInv', NotedInv', TokensInv', SessionsInv', EndedInv',
         RegistryInv'
  PROVE  IInv'
<1>1. HandlersKnow'
  <2> SUFFICES ASSUME NEW q \in Procs, procs'[q] = procs[q],
                      InBrowser(procs[q]) => browser' = browser
               PROVE  Knows(procs[q])'
    BY DEF HandlersKnow
  <2>1. procs[q] \in Proc /\ Knows(procs[q])
    BY DEF IInv, TypeOK, HandlersKnow
  <2>2. PICK l \in Proc : l = procs[q]
    BY <2>1
  <2>3. Knows(l)'
    BY <2>1, <2>2, KnowsKept DEF IInv, InBrowser
  <2>4. procs'[q] = l
    BY <2>2
  <2> QED
    BY <2>3, <2>4, KnowsMoved
<1>2. RowsInv'
  BY RowKept DEF IInv, RowsInv
<1> QED BY <1>1, <1>2 DEF IInv

-----------------------------------------------------------------------------
(* Steps of a handler that change requests and consents at most.             *)

\* What such a step has to show of each row.
RowStep(i) ==
  /\ RowPersists(i)
  /\ (requests'[i] = requests[i] /\ consents'[i] = consents[i]) \/ RowInv(i)'
  /\ (OfKind(i, {"authorize"}) /\ requests'[i] # Gone) => requests'[i].note = requests[i].note

TypedRows ==
  /\ requests' \in [Requests -> Request \cup {NoRow, Gone}]
  /\ consents' \in [Requests -> SUBSET [account : Accounts, scopes : SUBSET Scopes]]

\* A step of handler p that takes it to l.
LEMMA HandlerStep ==
  ASSUME IInv, NEW p \in Procs, NEW l \in Proc, Become(p, l), TypedRows,
         UNCHANGED <<world, grants, tokens, sessions, provider, held, ended, outlived, blocked, acted>>,
         \A i \in Requests : RowStep(i), Knows(l) \/ Knows(l)', Onward(p), ~Does(p, "invalidate")
  PROVE  IInv' /\ Persists
<1>1. TypeOK'
  BY DEF IInv, TypeOK, Become, TypedRows, world
<1>2. /\ procs'[p] = l /\ \A q \in Procs : q # p => procs'[q] = procs[q]
      /\ UNCHANGED <<env, barred, registry, browser>>
  BY DEF Become, IInv, TypeOK, world
<1>3. Persists
  BY RowedNow, <1>2 DEF Persists, RowStep, GrantPersists, SessionPersists, Cleared, BearersOf
<1>4. Knows(procs[p])'
  <2>1. Knows(l)'
    BY <1>2, <1>3, KnowsKept DEF IInv
  <2>2. procs'[p] = l
    BY <1>2
  <2> QED
    BY <2>1, <2>2, KnowsMoved
<1>5. Apart'
  BY <1>2, ApartKept
<1>6. OneGrantPerConsent' /\ OriginsInv'
  BY <1>1, <1>2, <1>3, OriginsKept
<1>7. NotedInv'
  BY <1>1, <1>3, NotedKept DEF RowStep
<1>8. TokensInv'
  BY <1>1, <1>3, TokensKept
<1>9. SessionsInv'
  BY <1>1, <1>2, <1>3, SessionsKept
<1>10. EndedInv' /\ RegistryInv'
  BY <1>2, <1>3, EndedKept, RegistryKept DEF Does
<1> QED
  BY <1>1, <1>2, <1>3, <1>4, <1>5, <1>6, <1>7, <1>8, <1>9, <1>10, Assemble DEF RowStep

\* A step that only moves a handler.
LEMMA MoveStep ==
  ASSUME IInv, NEW p \in Procs, NEW l \in Proc, Become(p, l),
         UNCHANGED <<world, tables, provider, history>>,
         Knows(l), Onward(p), ~Does(p, "invalidate")
  PROVE  IInv' /\ Persists
<1>1. UNCHANGED <<requests, grants, tokens, sessions, held, consents, ended, outlived, blocked, acted>>
  BY DEF tables, history
<1>2. TypedRows /\ \A i \in Requests : RowStep(i)
  BY <1>1 DEF IInv, TypeOK, TypedRows, RowStep, RowPersists
<1> QED BY <1>1, <1>2, HandlerStep

\* A handler that serves nothing relies on nothing.
LEMMA IdleKnows ==
  /\ Idle \in Proc /\ Knows(Idle) /\ Idle.pc = "idle"
BY AbsenceAssumption, AttemptsAssumption
DEF Idle, Proc, Steps, Statuses, Accountable, Knows, Consenting, Issuing, Ending, Entering, Granting

\* A handler that returns is no longer in the way of another.
LEMMA LeaveOnward ==
  ASSUME IInv, NEW p \in Procs, Leave(p)
  PROVE  Onward(p) /\ Become(p, Idle)
BY IdleKnows DEF Leave, Become, Onward, Granting, InBrowser, IInv, TypeOK

\* How a handler begins: it knows what had ended.
LEMMA Beginning ==
  ASSUME IInv, NEW p \in Procs, NEW fields \in Proc, ~fields.late,
         Begin(p, fields) \/ Serve(p, fields)
  PROVE  /\ Does(p, "idle")
         /\ \E l \in Proc :
              /\ Become(p, l) /\ l = [fields EXCEPT !.before = l.before]
              /\ \A g \in l.before : Unusable(g)
<1> DEFINE before == ended \cup {g \in Kept(grants) : grants[g].account \in barred}
<1>1. before \in SUBSET Grants /\ \A g \in before : Unusable(g)
  BY RowedNow DEF IInv, TypeOK, EndedInv, Cleared, Unusable, Usable, Rowed
<1>2. PICK l : l = [fields EXCEPT !.before = before]
  OBVIOUS
<1>3. l \in Proc /\ l.before = before
  BY <1>1, <1>2 DEF Proc
<1>4. l = [fields EXCEPT !.before = l.before]
  BY <1>2, <1>3
<1>5. Begin(p, fields) => Become(p, l) /\ Does(p, "idle")
  BY <1>2 DEF Begin
<1>6. Serve(p, fields) => Become(p, l) /\ Does(p, "idle")
  <2>1. SUFFICES ASSUME Serve(p, fields) PROVE Become(p, l) /\ Does(p, "idle")
    OBVIOUS
  <2>2. ~(blocked /\ ~registry.missed)
    BY <2>1 DEF Serve, IInv, RegistryInv
  <2>3. [fields EXCEPT !.late = blocked /\ ~registry.missed] = fields
    BY <2>2 DEF Proc
  <2> QED
    BY <1>2, <2>1, <2>3 DEF Serve, Begin
<1> QED
  BY <1>1, <1>3, <1>4, <1>5, <1>6

\* The fields of a handler that has just begun.
LEMMA SameFields ==
  ASSUME NEW f \in Proc, NEW l \in Proc, l = [f EXCEPT !.before = l.before]
  PROVE  /\ l.pc = f.pc /\ l.req = f.req /\ l.status = f.status /\ l.account = f.account
         /\ l.scopes = f.scopes /\ l.want = f.want /\ l.bearer = f.bearer /\ l.grant = f.grant
         /\ l.token = f.token /\ l.session = f.session /\ l.join = f.join
         /\ l.attempts = f.attempts /\ l.left = f.left /\ l.cut = f.cut /\ l.yes = f.yes
         /\ l.late = f.late
BY DEF Proc

\* What the fields of a handler must be for it to begin.
Beginner(f) ==
  /\ f \in Proc /\ ~f.late /\ ~Granting(f)
  /\ Consenting(f) /\ Ending(f)
  /\ InBrowser(f) => BrowserIsFree
  /\ \A l \in Proc : (l = [f EXCEPT !.before = l.before] /\ \A g \in l.before : Unusable(g))
                       => Issuing(l) /\ Entering(l)

\* A handler that begins with such fields knows what it has to.
LEMMA BeginnerKnows ==
  ASSUME IInv, NEW p \in Procs, NEW f, Beginner(f), Begin(p, f) \/ Serve(p, f)
  PROVE  \E l \in Proc : /\ Become(p, l) /\ Knows(l) /\ Onward(p) /\ ~Does(p, "invalidate")
<1>1. f \in Proc /\ ~f.late
  BY DEF Beginner
<1>2. /\ Does(p, "idle")
      /\ \E l \in Proc : /\ Become(p, l) /\ l = [f EXCEPT !.before = l.before]
                         /\ \A g \in l.before : Unusable(g)
  BY <1>1, Beginning
<1>3. PICK l \in Proc : /\ Become(p, l) /\ l = [f EXCEPT !.before = l.before]
                        /\ \A g \in l.before : Unusable(g)
  BY <1>2
<1>4. l.pc = f.pc /\ l.req = f.req /\ l.late = f.late
  BY <1>1, <1>3, SameFields
<1>5. Consenting(l) /\ Ending(l)
  BY <1>1, <1>3, SameFields DEF Beginner, Consenting, Ending, Granting
<1>6. Knows(l)
  BY <1>1, <1>3, <1>4, <1>5 DEF Beginner, Knows
<1>7. Onward(p)
  BY <1>3, <1>4 DEF Onward, Beginner, Granting, InBrowser, Become, IInv, TypeOK
<1> QED BY <1>2, <1>3, <1>6, <1>7 DEF Does

\* A handler begins, and nothing else happens.
LEMMA BeginStep ==
  ASSUME IInv, NEW p \in Procs, NEW f, Beginner(f), Begin(p, f) \/ Serve(p, f),
         UNCHANGED <<world, tables, provider, history>>
  PROVE  IInv' /\ Persists
BY BeginnerKnows, MoveStep

\* The clean-up removes rows, and changes none.
LEMMA SweepRows ==
  ASSUME IInv, NEW old \in Swept(requests), requests' = Sweep(requests, old), UNCHANGED consents
  PROVE  TypedRows /\ \A i \in Requests : RowStep(i)
<1>1. old \subseteq Rows
  BY DEF Swept, Rows
<1>2. \A i \in Requests : requests'[i] = IF i \in old THEN Gone ELSE requests[i]
  BY DEF Sweep
<1>3. TypedRows
  BY <1>2 DEF IInv, TypeOK, TypedRows, Sweep
<1>4. ASSUME NEW i \in Requests PROVE RowStep(i)
  BY <1>1, <1>2, <1>4, RowedNow, RowsApart DEF RowStep, RowPersists, RowInv, IInv, Rowed
<1> QED BY <1>3, <1>4

\* A handler of the token endpoint begins, and the rows are cleaned up.
LEMMA CallStep ==
  ASSUME IInv, NEW p \in Procs, NEW f, Beginner(f), Call(p, f),
         UNCHANGED <<world, grants, tokens, sessions, provider, history>>
  PROVE  IInv' /\ Persists
<1>1. TypedRows /\ \A i \in Requests : RowStep(i)
  BY SweepRows DEF Call, history
<1> QED
  BY <1>1, BeginnerKnows, HandlerStep DEF Call, history

-----------------------------------------------------------------------------
(* Handlers that begin.                                                      *)

\* decideAuthorization and decideDevice up to the write.
LEMMA DecideStep ==
  ASSUME IInv, NEW p \in Procs, NEW i \in Requests, NEW a \in Accounts, NEW S \in SUBSET Scopes,
         DecideAuthorization(p, i, a, S) \/ DecideDevice(p, i, a, S)
  PROVE  IInv' /\ Persists
<1>1. PICK f : f = [Idle EXCEPT !.pc = "decide", !.req = i, !.account = a, !.scopes = S]
  OBVIOUS
<1>2. /\ f \in Proc /\ f.pc = "decide" /\ f.req = i /\ f.account = a /\ ~f.late
  <2>1. f \in Proc
    BY <1>1, IdleKnows DEF Proc, Steps, Accountable
  <2> QED
    BY <1>1, <2>1 DEF Idle
<1>3. OfKind(i, {"authorize", "device"})
  BY RowsApart DEF DecideAuthorization, DecideDevice, OfKind, Rows, Kept
<1>4. \A l \in Proc : l = [f EXCEPT !.before = l.before] => Issuing(l) /\ Entering(l)
  BY <1>2, SameFields DEF Issuing, Entering
<1>5. Beginner(f)
  BY <1>2, <1>3, <1>4 DEF Beginner, Granting, Consenting, Ending, InBrowser
<1> QED
  BY <1>1, <1>5, BeginStep DEF DecideAuthorization, DecideDevice, Decide

\* #authorizationCode and #deviceCode read an approved request: it was consented to.
LEMMA RedeemStep ==
  ASSUME IInv, NEW p \in Procs, NEW i \in Requests,
         NEW want \in SUBSET Scopes, NEW bearer \in BOOLEAN,
         AuthorizationCode(p, i, want, bearer) \/ DeviceCode(p, i, want, bearer)
  PROVE  IInv' /\ Persists
<1>1. PICK f : f = [Idle EXCEPT !.pc = "consume", !.req = i, !.account = requests[i].account,
                          !.scopes = requests[i].scopes, !.want = want, !.bearer = bearer]
  OBVIOUS
<1>2. /\ i \in Rows /\ requests[i] \in Request /\ requests[i].kind \in {"authorize", "device"}
      /\ requests[i].status = "approved" /\ Call(p, f)
  BY <1>1, RowedNow DEF AuthorizationCode, DeviceCode, Redeem, IInv, Rowed
<1>3. /\ f \in Proc /\ f.pc = "consume" /\ f.req = i /\ ~f.late
      /\ f.account = requests[i].account /\ f.scopes = requests[i].scopes
  <2>1. f \in Proc
    BY <1>1, <1>2, IdleKnows DEF Proc, Steps, Request
  <2> QED
    BY <1>1, <1>2, <2>1 DEF Idle
<1>4. OfKind(i, {"authorize", "device"})
  BY <1>2, RowsApart DEF OfKind
<1>5. f.account \in Accounts /\ ConsentedTo(i, f.account, f.scopes)
  BY <1>2, <1>3 DEF IInv, RowsInv, RowInv
<1>6. \A l \in Proc : l = [f EXCEPT !.before = l.before] => Issuing(l) /\ Entering(l)
  BY <1>3, SameFields DEF Issuing, Entering
<1>7. Beginner(f)
  BY <1>3, <1>4, <1>5, <1>6 DEF Beginner, Granting, Consenting, Ending, InBrowser
<1> QED
  BY <1>1, <1>2, <1>7, CallStep DEF AuthorizationCode, DeviceCode, Redeem

\* A code used before: what was answered for it is noted.
LEMMA ReuseStep ==
  ASSUME IInv, NEW p \in Procs, NEW i \in Requests, Reuse(p, i)
  PROVE  IInv' /\ Persists
<1> DEFINE owed == {g \in held \cap Grants : grants[g].origin = i}
           noted == {requests[i].note} \cap Grants
<1>1. PICK f : f = [Idle EXCEPT !.pc = "revoke", !.req = i, !.left = noted, !.cut = owed]
  OBVIOUS
<1>2. i \in Rows /\ requests[i] \in Request /\ requests[i].kind = "authorize" /\ Call(p, f)
  BY <1>1, RowedNow DEF Reuse, IInv, Rowed
<1>3. noted \in SUBSET Grants /\ owed \in SUBSET Grants
  OBVIOUS
<1>4. /\ f \in Proc /\ f.pc = "revoke" /\ f.left = noted /\ f.cut = owed /\ ~f.late
  <2>1. f \in Proc
    BY <1>1, <1>3, IdleKnows DEF Proc, Steps
  <2> QED
    BY <1>1, <1>3, <2>1 DEF Idle
<1>5. noted \subseteq Kept(grants)
  BY <1>2, AbsenceAssumption DEF IInv, RowsInv, RowInv
<1>6. owed \subseteq noted
  BY <1>2, RowsApart DEF IInv, NotedInv, OfKind
<1>7. \A l \in Proc : l = [f EXCEPT !.before = l.before] => Issuing(l) /\ Entering(l)
  BY <1>4, SameFields DEF Issuing, Entering
<1>8. Beginner(f)
  BY <1>4, <1>5, <1>6, <1>7 DEF Beginner, Granting, Consenting, Ending, InBrowser
<1> QED
  BY <1>1, <1>2, <1>8, CallStep DEF Reuse

\* #mediated with credentials that the app accepts.
LEMMA MediatedCompleteStep ==
  ASSUME IInv, NEW p \in Procs, NEW a \in Accounts, NEW S \in SUBSET Scopes, MediatedComplete(p, a, S)
  PROVE  IInv' /\ Persists
<1>1. PICK f : f = [Idle EXCEPT !.pc = "signIn", !.account = a, !.scopes = S, !.want = S]
  OBVIOUS
<1>2. /\ f \in Proc /\ f.pc = "signIn" /\ f.req = NoRequest /\ f.account = a /\ ~f.late
  <2>1. f \in Proc
    BY <1>1, IdleKnows DEF Proc, Steps, Accountable
  <2> QED
    BY <1>1, <2>1 DEF Idle
<1>3. \A l \in Proc : l = [f EXCEPT !.before = l.before] => Issuing(l) /\ Entering(l)
  BY <1>2, SameFields DEF Issuing, Entering
<1>4. Beginner(f)
  BY <1>2, <1>3 DEF Beginner, Granting, Consenting, Ending, InBrowser
<1> QED
  BY <1>1, <1>4, CallStep DEF MediatedComplete

\* #mediatedCode reads a pending request.
LEMMA MediatedCodeStep ==
  ASSUME IInv, NEW p \in Procs, NEW i \in Requests, NEW right \in BOOLEAN, MediatedCode(p, i, right)
  PROVE  IInv' /\ Persists
<1>1. PICK f : f = [Idle EXCEPT !.pc = "guess", !.req = i, !.account = requests[i].account,
                          !.scopes = requests[i].scopes, !.want = requests[i].scopes,
                          !.attempts = requests[i].attempts, !.yes = right]
  OBVIOUS
<1>2. /\ i \in Rows /\ requests[i] \in Request /\ requests[i].kind = "mediated"
      /\ requests[i].status = "pending" /\ (right => requests[i].account # Nobody)
  BY RowedNow DEF MediatedCode, Pending, IInv, Rowed
<1>3. /\ f \in Proc /\ f.pc = "guess" /\ f.req = i /\ f.account = requests[i].account
      /\ f.attempts = requests[i].attempts /\ f.yes = right /\ ~f.late
  <2>1. f \in Proc
    BY <1>1, <1>2, IdleKnows DEF Proc, Steps, Request
  <2> QED
    BY <1>1, <1>2, <2>1 DEF Idle
<1>4. OfKind(i, {"mediated"}) /\ f.attempts < MaxCodeAttempts /\ (f.yes => f.account \in Accounts)
  BY <1>2, <1>3, RowsApart DEF OfKind, IInv, RowsInv, RowInv, Request, Accountable
<1>5. \A l \in Proc : l = [f EXCEPT !.before = l.before] => Issuing(l) /\ Entering(l)
  BY <1>3, SameFields DEF Issuing, Entering
<1>6. Beginner(f)
  BY <1>3, <1>4, <1>5 DEF Beginner, Granting, Consenting, Ending, InBrowser
<1> QED
  BY <1>1, <1>6, CallStep DEF MediatedCode

\* #refresh: a grant that is usable had not ended.
LEMMA RefreshStep ==
  ASSUME IInv, NEW p \in Procs, NEW g \in Grants, NEW want \in SUBSET Scopes, NEW bearer \in BOOLEAN,
         Refresh(p, g, want, bearer)
  PROVE  IInv' /\ Persists
<1>1. PICK f : f = [Idle EXCEPT !.pc = "issue", !.account = grants[g].account, !.grant = g,
                          !.scopes = grants[g].scopes, !.want = want, !.bearer = bearer]
  OBVIOUS
<1>2. /\ g \in held /\ g \in Kept(grants) /\ grants[g] \in Grant /\ Usable(g)
      /\ want \subseteq grants[g].scopes
  BY RowedNow DEF Refresh, IInv, NotedInv, Rowed
<1>3. /\ f \in Proc /\ f.pc = "issue" /\ f.req = NoRequest /\ f.account = grants[g].account
      /\ f.grant = g /\ f.want = want /\ ~f.late
  <2>1. f \in Proc
    BY <1>1, <1>2, IdleKnows DEF Proc, Steps, Grant, Accountable
  <2> QED
    BY <1>1, <1>2, <2>1 DEF Idle
<1>4. grants[g].account \in Accounts /\ Covers(g, f.account, want)
  BY <1>2, <1>3 DEF Covers, Grant
<1>5. ASSUME NEW l \in Proc, l = [f EXCEPT !.before = l.before], \A h \in l.before : Unusable(h)
      PROVE  Issuing(l) /\ Entering(l)
  <2>1. g \notin l.before
    BY <1>2, <1>5 DEF Unusable
  <2> QED
    BY <1>2, <1>3, <1>4, <1>5, <2>1, SameFields DEF Issuing, Entering
<1>6. Beginner(f)
  BY <1>3, <1>5 DEF Beginner, Granting, Consenting, Ending, InBrowser
<1> QED
  BY <1>1, <1>6, CallStep DEF Refresh

\* Sign-out and disconnection: the grants to revoke are kept.
LEMMA DisconnectStep ==
  ASSUME IInv, NEW p \in Procs, Disconnect(p)
  PROVE  IInv' /\ Persists
<1>0. PICK S \in SUBSET Kept(grants) :
        LET f == [Idle EXCEPT !.pc = "revoke", !.left = S, !.cut = S]
        IN Begin(p, f) \/ Serve(p, f)
  <2>1. CASE \E g \in Grants : AgentRevokes(p, g)
    <3>1. PICK g \in Grants : AgentRevokes(p, g)
      BY <2>1
    <3>2. {g} \in SUBSET Kept(grants)
      BY <3>1 DEF AgentRevokes, IInv, NotedInv
    <3> QED BY <3>1, <3>2 DEF AgentRevokes
  <2>2. CASE \E a \in Accounts, g \in Grants : UserDisconnects(p, a, g)
    BY <2>2 DEF UserDisconnects
  <2>3. CASE \E a \in Accounts : RevokeAll(p, a)
    BY <2>3 DEF RevokeAll
  <2> QED BY <2>1, <2>2, <2>3 DEF Disconnect
<1>1. PICK f : /\ f = [Idle EXCEPT !.pc = "revoke", !.left = S, !.cut = S]
               /\ Begin(p, f) \/ Serve(p, f)
  BY <1>0
<1>2. S \in SUBSET Grants
  BY RowedNow DEF IInv, Rowed
<1>3. f \in Proc /\ f.pc = "revoke" /\ f.left = S /\ f.cut = S /\ ~f.late
  <2>1. f \in Proc
    BY <1>1, <1>2, IdleKnows DEF Proc, Steps
  <2> QED
    BY <1>1, <1>2, <2>1 DEF Idle
<1>4. \A l \in Proc : l = [f EXCEPT !.before = l.before] => Issuing(l) /\ Entering(l)
  BY <1>3, SameFields DEF Issuing, Entering
<1>5. Beginner(f)
  BY <1>3, <1>4 DEF Beginner, Granting, Consenting, Ending, InBrowser
<1> QED
  BY <1>1, <1>5, BeginStep DEF Disconnect

\* The ruling of the administrator begins.
LEMMA RuleStep ==
  ASSUME IInv, NEW p \in Procs, NEW block \in BOOLEAN, Rule(p, block)
  PROVE  IInv' /\ Persists
<1>1. PICK f : f = [Idle EXCEPT !.pc = "write", !.yes = block]
  OBVIOUS
<1>2. f \in Proc /\ f.pc = "write" /\ ~f.late
  <2>1. f \in Proc
    BY <1>1, IdleKnows DEF Proc, Steps
  <2> QED
    BY <1>1, <2>1 DEF Idle
<1>3. \A l \in Proc : l = [f EXCEPT !.before = l.before] => Issuing(l) /\ Entering(l)
  BY <1>2, SameFields DEF Issuing, Entering
<1>4. Beginner(f)
  BY <1>2, <1>3 DEF Beginner, Granting, Consenting, Ending, InBrowser
<1> QED
  BY <1>1, <1>4, BeginStep DEF Rule

\* verifyAccess: a token stands for a usable grant, within its scopes.
LEMMA AccessStep ==
  ASSUME IInv, NEW p \in Procs, NEW e \in Sessions, NEW t \in Tokens \cup {NoToken},
         NEW join \in Requests \cup {NoRequest}, Access(p, e, t, join)
  PROVE  IInv' /\ Persists
<1>1. PICK f : /\ f = IF t = NoToken THEN [Idle EXCEPT !.pc = "find", !.session = e, !.join = join]
                      ELSE [Idle EXCEPT !.pc = "find", !.session = e, !.join = join, !.token = t,
                                        !.grant = tokens[t].grant, !.account = tokens[t].account,
                                        !.scopes = tokens[t].scopes]
               /\ Serve(p, f)
  BY DEF Access
<1>2. join = NoRequest \/ OfKind(join, {"browser"})
  BY RowsApart DEF Access, Rows, Kept, OfKind
<1>3. t # NoToken => /\ tokens[t] \in Token /\ Usable(tokens[t].grant)
                     /\ Covers(tokens[t].grant, tokens[t].account, tokens[t].scopes)
  BY RowedNow DEF Access, IInv, TokensInv, Rowed
<1>4. /\ f \in Proc /\ f.pc = "find" /\ f.session = e /\ f.join = join /\ f.token = t /\ ~f.late
      /\ IF t = NoToken THEN f.account = Nobody /\ f.grant = NoGrant
         ELSE /\ f.account = tokens[t].account /\ f.grant = tokens[t].grant
              /\ f.scopes = tokens[t].scopes
  <2>1. CASE t = NoToken
    <3>1. f = [Idle EXCEPT !.pc = "find", !.session = e, !.join = join]
      BY <1>1, <2>1
    <3>2. f \in Proc
      BY <3>1, IdleKnows DEF Proc, Steps
    <3> QED
      BY <2>1, <3>1, <3>2 DEF Idle
  <2>2. CASE t # NoToken
    <3>1. f = [Idle EXCEPT !.pc = "find", !.session = e, !.join = join, !.token = t,
                 !.grant = tokens[t].grant, !.account = tokens[t].account, !.scopes = tokens[t].scopes]
      BY <1>1, <2>2
    <3>2. f \in Proc
      BY <1>3, <2>2, <3>1, IdleKnows DEF Proc, Steps, Token, Accountable
    <3> QED
      BY <2>2, <3>1, <3>2 DEF Idle
  <2> QED BY <2>1, <2>2
<1>5. ASSUME NEW l \in Proc, l = [f EXCEPT !.before = l.before], \A h \in l.before : Unusable(h)
      PROVE  Issuing(l) /\ Entering(l)
  <2>1. l.pc = "find" /\ l.session = e /\ l.join = join /\ l.token = t
        /\ l.account = f.account /\ l.grant = f.grant /\ l.scopes = f.scopes
    BY <1>4, <1>5, SameFields
  <2>2. f.grant \notin l.before
    BY <1>3, <1>4, <1>5, AbsenceAssumption DEF Unusable, Proc
  <2>3. t # NoToken => f.account \in Accounts
    BY <1>3, <1>4 DEF Token
  <2> QED
    BY <1>2, <1>3, <1>4, <2>1, <2>2, <2>3 DEF Issuing, Entering
<1>6. Beginner(f)
  BY <1>4, <1>5 DEF Beginner, Granting, Consenting, Ending, InBrowser
<1> QED
  BY <1>1, <1>6, BeginStep DEF Access

\* completeBrowserJoin reads the row of the join.
LEMMA CompleteJoinStep ==
  ASSUME IInv, NEW p \in Procs, NEW i \in Requests, NEW right \in BOOLEAN, CompleteJoin(p, i, right)
  PROVE  IInv' /\ Persists
<1>0. PICK yes \in BOOLEAN :
        Begin(p, [Idle EXCEPT !.pc = "complete", !.req = i, !.status = requests[i].status,
                    !.account = requests[i].account, !.scopes = requests[i].scopes,
                    !.grant = requests[i].note, !.session = requests[i].session,
                    !.yes = yes])
  BY DEF CompleteJoin
<1>1. PICK f : /\ f = [Idle EXCEPT !.pc = "complete", !.req = i, !.status = requests[i].status,
                         !.account = requests[i].account, !.scopes = requests[i].scopes,
                         !.grant = requests[i].note, !.session = requests[i].session,
                         !.yes = yes]
               /\ Begin(p, f)
  BY <1>0
<1>2. requests[i] \in Request /\ requests[i].kind = "browser"
  BY RowedNow DEF CompleteJoin, IInv, Rowed
<1>3. /\ f \in Proc /\ f.pc = "complete" /\ f.req = i /\ f.status = requests[i].status /\ ~f.late
      /\ f.account = requests[i].account /\ f.scopes = requests[i].scopes
      /\ f.grant = requests[i].note /\ f.session = requests[i].session
  <2>1. f \in Proc
    BY <1>1, <1>2, IdleKnows DEF Proc, Steps, Request
  <2> QED
    BY <1>1, <1>2, <2>1 DEF Idle
<1>4. OfKind(i, {"browser"})
  BY <1>2, RowsApart DEF OfKind
<1>5. f.status = "approved" => Within(f.session, f.account, f.grant, f.scopes)
  BY <1>2, <1>3 DEF IInv, RowsInv, RowInv
<1>6. \A l \in Proc : l = [f EXCEPT !.before = l.before] => Issuing(l) /\ Entering(l)
  BY <1>3, <1>4, <1>5, SameFields DEF Issuing, Entering
<1>7. Beginner(f)
  BY <1>3, <1>6 DEF Beginner, Granting, Consenting, Ending, InBrowser, CompleteJoin
<1> QED
  BY <1>1, <1>7, BeginStep DEF CompleteJoin

-----------------------------------------------------------------------------
(* Handlers that go on: the row of a request.                                *)

\* What the invariant says of one handler.
LEMMA KnowsNow == ASSUME IInv, NEW p \in Procs PROVE procs[p] \in Proc /\ Knows(procs[p])
BY DEF IInv, TypeOK, HandlersKnow

\* A handler that moves on keeps its local variables.
LEMMA GoFields ==
  ASSUME IInv, NEW p \in Procs, NEW step \in Steps, Go(p, step)
  PROVE  \E l \in Proc :
           /\ Become(p, l) /\ l = [procs[p] EXCEPT !.pc = step] /\ l.pc = step
           /\ l.req = procs[p].req /\ l.status = procs[p].status /\ l.account = procs[p].account
           /\ l.scopes = procs[p].scopes /\ l.want = procs[p].want /\ l.bearer = procs[p].bearer
           /\ l.grant = procs[p].grant /\ l.token = procs[p].token /\ l.session = procs[p].session
           /\ l.join = procs[p].join /\ l.left = procs[p].left /\ l.cut = procs[p].cut
           /\ l.before = procs[p].before /\ l.late = procs[p].late
<1>1. PICK l : l = [procs[p] EXCEPT !.pc = step]
  OBVIOUS
<1>2. l \in Proc
  BY <1>1, KnowsNow DEF Proc
<1> QED BY <1>1, <1>2, KnowsNow DEF Go, Proc

\* A step that writes one row, and consents to it at most once.
LEMMA OneRow ==
  ASSUME IInv, NEW i \in Rows, NEW r \in Request, requests' = [requests EXCEPT ![i] = r],
         r.kind = requests[i].kind, requests[i].status = "consumed" => r.status = "consumed",
         r.kind = "authorize" => r.note = requests[i].note,
         \/ UNCHANGED consents
         \/ /\ consents[i] = {}
            /\ \E c \in [account : Accounts, scopes : SUBSET Scopes] :
                 consents' = [consents EXCEPT ![i] = @ \cup {c}],
         RowInv(i)'
  PROVE  TypedRows /\ \A j \in Requests : RowStep(j)
<1>1. i \in Requests /\ requests[i] \in Request
  BY RowedNow DEF IInv, Rowed
<1>2. requests'[i] = r /\ \A j \in Requests \ {i} : requests'[j] = requests[j]
  BY <1>1 DEF IInv, TypeOK
<1>3. /\ \A j \in Requests \ {i} : consents'[j] = consents[j]
      /\ consents[i] # {} => consents'[i] = consents[i]
      /\ consents' \in [Requests -> SUBSET [account : Accounts, scopes : SUBSET Scopes]]
  BY <1>1 DEF IInv, TypeOK
<1>4. TypedRows
  BY <1>3 DEF IInv, TypeOK, TypedRows
<1>5. RowStep(i)
  BY <1>1, <1>2, <1>3, RowsApart DEF RowStep, RowPersists, OfKind
<1>6. \A j \in Requests \ {i} : RowStep(j)
  BY <1>2, <1>3 DEF RowStep, RowPersists
<1> QED BY <1>4, <1>5, <1>6

\* A handler that returns without a write.
LEMMA LeaveStep ==
  ASSUME IInv, NEW p \in Procs, Leave(p), UNCHANGED <<world, tables, provider, history>>,
         ~Does(p, "invalidate")
  PROVE  IInv' /\ Persists
BY LeaveOnward, IdleKnows, MoveStep

\* decideAuthorization and decideDevice write a row that is still pending.
LEMMA DecideWriteStep ==
  ASSUME IInv, NEW p \in Procs, DecideWrite(p)
  PROVE  IInv' /\ Persists
<1>0. PICK i : i = procs[p].req
  OBVIOUS
<1> DEFINE yes == procs[p].scopes # {}
           wins == i \in Rows /\ requests[i].status = "pending"
<1>1. OfKind(i, {"authorize", "device"}) /\ procs[p].account \in Accounts /\ procs[p] \in Proc
  BY <1>0, KnowsNow DEF DecideWrite, Does, Knows, Consenting
<1>2. ~Does(p, "invalidate")
  BY DEF DecideWrite, Does
<1>3. CASE ~wins
  BY <1>0, <1>2, <1>3, LeaveStep DEF DecideWrite, tables, history
<1>4. CASE wins
  <2>1. /\ i \in Rows /\ i \in Requests /\ requests[i] \in Request /\ requests[i].status = "pending"
        /\ consents[i] = {} /\ requests[i].kind # "browser"
    BY <1>1, <1>4, RowedNow, RowsApart DEF IInv, Rowed, RowsInv, RowInv, OfKind
  <2>2. PICK r : r = [requests[i] EXCEPT
                        !.status = IF yes THEN "approved" ELSE "denied", !.account = procs[p].account,
                        !.scopes = IF yes THEN procs[p].scopes ELSE requests[i].scopes,
                        !.lapsed = IF yes /\ requests[i].kind = "authorize" THEN FALSE ELSE requests[i].lapsed]
    OBVIOUS
  <2>3. requests' = [requests EXCEPT ![i] = r]
    BY <1>0, <1>4, <2>2 DEF DecideWrite
  <2>4. r \in Request
    BY <1>1, <2>1, <2>2 DEF Request, Proc, Statuses, Accountable
  <2>5. /\ r.kind = requests[i].kind /\ r.note = requests[i].note /\ r.account = procs[p].account
        /\ r.status = (IF yes THEN "approved" ELSE "denied")
        /\ yes => r.scopes = procs[p].scopes
    BY <2>1, <2>2 DEF Request
  <2>6. PICK c : c = [account |-> procs[p].account, scopes |-> procs[p].scopes]
    OBVIOUS
  <2>7. c \in [account : Accounts, scopes : SUBSET Scopes]
    BY <1>1, <2>6 DEF Proc
  <2>8. consents' = IF yes THEN [consents EXCEPT ![i] = @ \cup {c}] ELSE consents
    BY <1>0, <1>4, <2>6 DEF DecideWrite
  <2>9. yes => consents'[i] = {c}
    BY <2>1, <2>8 DEF IInv, TypeOK
  <2>10. requests'[i] = r
    BY <2>1, <2>3 DEF IInv, TypeOK
  <2>11. RowInv(i)'
    <3>1. r.note # NoGrant => r.note \in Kept(grants')
      BY <2>1, <2>5 DEF IInv, RowsInv, RowInv, DecideWrite
    <3>2. r.status = "approved" => /\ r.account \in Accounts
                                   /\ consents'[i] = {[account |-> r.account, scopes |-> r.scopes]}
      BY <1>1, <2>5, <2>6, <2>9
    <3>3. r.status # "pending" /\ requests'[i] # NoRow
      BY <2>4, <2>5, <2>10, RowsApart
    <3> QED
      BY <2>1, <2>5, <2>10, <3>1, <3>2, <3>3 DEF RowInv, ConsentedTo
  <2>12. TypedRows /\ \A j \in Requests : RowStep(j)
    BY <2>1, <2>3, <2>4, <2>5, <2>7, <2>8, <2>11, OneRow
  <2> QED
    BY <1>2, <2>12, LeaveOnward, IdleKnows, HandlerStep DEF DecideWrite
<1> QED BY <1>3, <1>4

\* The exchange of a code consumes it: it is about to lead to its only grant.
LEMMA ConsumeStep ==
  ASSUME IInv, NEW p \in Procs, Consume(p)
  PROVE  IInv' /\ Persists
<1>0. PICK i : i = procs[p].req
  OBVIOUS
<1> DEFINE wins == i \in Rows /\ requests[i].status = "approved"
<1>1. /\ OfKind(i, {"authorize", "device"}) /\ procs[p].account \in Accounts
      /\ ConsentedTo(i, procs[p].account, procs[p].scopes) /\ procs[p] \in Proc
      /\ ~procs[p].late /\ \A g \in procs[p].before : Unusable(g)
  BY <1>0, KnowsNow DEF Consume, Does, Knows, Consenting
<1>2. ~Does(p, "invalidate")
  BY DEF Consume, Does
<1>3. CASE ~wins
  BY <1>0, <1>2, <1>3, LeaveStep DEF Consume, tables
<1>4. CASE wins
  <2>1. i \in Rows /\ i \in Requests /\ requests[i] \in Request /\ requests[i].status = "approved"
    BY <1>4, RowedNow DEF IInv, Rowed
  <2>2. PICK r : r = [requests[i] EXCEPT !.status = "consumed"]
    OBVIOUS
  <2>3. requests' = [requests EXCEPT ![i] = r] /\ UNCHANGED consents
    BY <1>0, <1>4, <2>2 DEF Consume, history
  <2>4. /\ r \in Request /\ r.kind = requests[i].kind
        /\ r.note = requests[i].note /\ r.status = "consumed"
    BY <2>1, <2>2 DEF Request, Statuses
  <2>5. requests'[i] = r
    BY <2>1, <2>3 DEF IInv, TypeOK
  <2>6. RowInv(i)'
    BY <2>1, <2>4, <2>5, RowsApart DEF RowInv, IInv, RowsInv, Consume
  <2>7. TypedRows /\ \A j \in Requests : RowStep(j)
    BY <2>1, <2>3, <2>4, <2>6, OneRow
  <2>8. PICK l \in Proc : /\ Become(p, l) /\ l.pc = "signIn" /\ l.req = i
                          /\ l.account = procs[p].account /\ l.scopes = procs[p].scopes
                          /\ l.before = procs[p].before /\ l.late = procs[p].late
    BY <1>0, <1>4, GoFields DEF Consume, Steps
  <2>9. Consenting(l)'
    BY <1>1, <2>1, <2>3, <2>4, <2>5, <2>8, RowsApart DEF Consenting, Granting, Consumed, ConsentedTo
  <2>10. Issuing(l)' /\ Ending(l)' /\ Entering(l)'
    BY <2>8 DEF Issuing, Ending, Entering
  <2>11. \A g \in l.before : Unusable(g)'
    BY <1>1, <2>8 DEF Unusable, Usable, Consume, world
  <2>12. Knows(l)'
    BY <1>1, <2>8, <2>9, <2>10, <2>11 DEF Knows
  <2>13. Onward(p)
    <3>1. ~Consumed(i)
      BY <2>1, RowsApart DEF Consumed
    <3>2. procs'[p] = l
      BY <2>8 DEF Become, IInv, TypeOK
    <3> QED
      BY <2>1, <2>8, <3>1, <3>2 DEF Onward, InBrowser
  <2> QED
    BY <1>2, <2>7, <2>8, <2>12, <2>13, HandlerStep DEF Consume, history
<1> QED BY <1>3, <1>4

\* A wrong code is counted, or ends the request.
LEMMA GuessWrongStep ==
  ASSUME IInv, NEW p \in Procs, GuessWrong(p)
  PROVE  IInv' /\ Persists
<1>0. PICK i, n : i = procs[p].req /\ n = procs[p].attempts + 1
  OBVIOUS
<1>1. OfKind(i, {"mediated"}) /\ procs[p].attempts < MaxCodeAttempts /\ procs[p] \in Proc
  BY <1>0, KnowsNow DEF GuessWrong, Does, Knows, Consenting
<1>2. ~Does(p, "invalidate")
  BY DEF GuessWrong, Does
<1>3. CASE requests' = requests
  BY <1>2, <1>3, LeaveStep DEF GuessWrong, tables
<1>4. CASE requests' # requests
  <2>1. i \in Rows /\ i \in Requests /\ requests[i] \in Request /\ requests[i].kind = "mediated"
    BY <1>0, <1>1, <1>4, RowedNow, RowsApart DEF IInv, Rowed, GuessWrong, OfKind
  <2>2. n \in 0..MaxCodeAttempts
    BY <1>0, <1>1, AttemptsAssumption DEF Proc
  <2>3. PICK r : \/ /\ r = [requests[i] EXCEPT !.status = "failed", !.attempts = n]
                    /\ requests' = [requests EXCEPT ![i] = r] /\ requests[i].status = "pending"
                 \/ /\ r = [requests[i] EXCEPT !.attempts = n] /\ n < MaxCodeAttempts
                    /\ requests' = [requests EXCEPT ![i] = r]
    <3>1. CASE n >= MaxCodeAttempts
      BY <1>0, <1>4, <2>1, <3>1 DEF GuessWrong
    <3>2. CASE ~(n >= MaxCodeAttempts)
      <4>1. requests' = [requests EXCEPT ![i] = [requests[i] EXCEPT !.attempts = n]]
        BY <1>0, <1>4, <2>1, <3>2 DEF GuessWrong
      <4>2. n < MaxCodeAttempts
        BY <2>2, <3>2, AttemptsAssumption
      <4> QED BY <4>1, <4>2
    <3> QED BY <3>1, <3>2
  <2>4. /\ r \in Request /\ r.kind = requests[i].kind /\ r.note = requests[i].note
        /\ r.account = requests[i].account /\ r.scopes = requests[i].scopes
        /\ \/ r.status = "failed" /\ requests[i].status = "pending"
           \/ r.status = requests[i].status /\ r.attempts < MaxCodeAttempts
    BY <2>1, <2>2, <2>3 DEF Request, Statuses
  <2>5. requests'[i] = r
    BY <2>1, <2>3 DEF IInv, TypeOK
  <2>6. RowInv(i)
    BY <2>1 DEF IInv, RowsInv
  <2>7. RowInv(i)'
    BY <2>1, <2>4, <2>5, <2>6, RowsApart DEF RowInv, ConsentedTo, GuessWrong, history
  <2>8. TypedRows /\ \A j \in Requests : RowStep(j)
    BY <2>1, <2>3, <2>4, <2>7, OneRow DEF GuessWrong, history
  <2> QED
    BY <1>2, <2>8, LeaveOnward, IdleKnows, HandlerStep DEF GuessWrong, history
<1> QED BY <1>3, <1>4

\* A right code consumes the request and consents to it.
LEMMA GuessRightStep ==
  ASSUME IInv, NEW p \in Procs, GuessRight(p)
  PROVE  IInv' /\ Persists
<1>0. PICK i : i = procs[p].req
  OBVIOUS
<1> DEFINE wins == i \in Rows /\ requests[i].status = "pending"
<1>1. /\ OfKind(i, {"mediated"}) /\ procs[p].account \in Accounts /\ procs[p] \in Proc
      /\ ~procs[p].late /\ \A g \in procs[p].before : Unusable(g)
  BY <1>0, KnowsNow DEF GuessRight, Does, Knows, Consenting
<1>2. ~Does(p, "invalidate")
  BY DEF GuessRight, Does
<1>3. CASE ~wins
  BY <1>0, <1>2, <1>3, LeaveStep DEF GuessRight, tables, history
<1>4. CASE wins
  <2>1. /\ i \in Rows /\ i \in Requests /\ requests[i] \in Request /\ requests[i].status = "pending"
        /\ consents[i] = {}
    BY <1>4, RowedNow DEF IInv, Rowed, RowsInv, RowInv
  <2>2. PICK r : r = [requests[i] EXCEPT !.status = "consumed"]
    OBVIOUS
  <2>3. PICK c : c = [account |-> procs[p].account, scopes |-> procs[p].scopes]
    OBVIOUS
  <2>4. requests' = [requests EXCEPT ![i] = r] /\ consents' = [consents EXCEPT ![i] = @ \cup {c}]
    BY <1>0, <1>4, <2>2, <2>3 DEF GuessRight
  <2>5. /\ r \in Request /\ r.kind = requests[i].kind
        /\ r.note = requests[i].note /\ r.status = "consumed"
    BY <2>1, <2>2 DEF Request, Statuses
  <2>6. c \in [account : Accounts, scopes : SUBSET Scopes]
    BY <1>1, <2>3 DEF Proc
  <2>7. requests'[i] = r /\ consents'[i] = {c}
    BY <2>1, <2>4 DEF IInv, TypeOK
  <2>8. RowInv(i)'
    BY <2>1, <2>5, <2>7, RowsApart DEF RowInv, IInv, RowsInv, GuessRight
  <2>9. TypedRows /\ \A j \in Requests : RowStep(j)
    BY <2>1, <2>4, <2>5, <2>6, <2>8, OneRow
  <2>10. PICK l : l = [procs[p] EXCEPT !.pc = "signIn", !.yes = FALSE]
    OBVIOUS
  <2>11. /\ l \in Proc /\ Become(p, l) /\ l.pc = "signIn" /\ l.req = i
         /\ l.account = procs[p].account /\ l.scopes = procs[p].scopes
         /\ l.before = procs[p].before /\ l.late = procs[p].late
    <3>1. l \in Proc
      BY <1>1, <2>10 DEF Proc, Steps
    <3>2. Become(p, l)
      BY <1>0, <1>4, <2>10 DEF GuessRight
    <3> QED
      BY <1>0, <1>1, <2>10, <3>1, <3>2 DEF Proc
  <2>12. Consenting(l)'
    BY <1>1, <2>1, <2>3, <2>5, <2>7, <2>11, RowsApart DEF Consenting, Granting, Consumed, ConsentedTo
  <2>13. Issuing(l)' /\ Ending(l)' /\ Entering(l)'
    BY <2>11 DEF Issuing, Ending, Entering
  <2>14. \A g \in l.before : Unusable(g)'
    BY <1>1, <2>11 DEF Unusable, Usable, GuessRight, world
  <2>15. Knows(l)'
    BY <1>1, <2>11, <2>12, <2>13, <2>14 DEF Knows
  <2>16. Onward(p)
    <3>1. ~Consumed(i)
      BY <2>1, RowsApart DEF Consumed
    <3>2. procs'[p] = l
      BY <2>11 DEF Become, IInv, TypeOK
    <3> QED
      BY <2>1, <2>11, <3>1, <3>2 DEF Onward, InBrowser
  <2> QED
    BY <1>2, <2>9, <2>11, <2>15, <2>16, HandlerStep DEF GuessRight
<1> QED BY <1>3, <1>4

\* #signIn asks for the account and narrows the scopes.
LEMMA SignInStep ==
  ASSUME IInv, NEW p \in Procs, SignIn(p)
  PROVE  IInv' /\ Persists
<1>1. procs[p] \in Proc /\ Knows(procs[p]) /\ procs[p].pc = "signIn" /\ ~Does(p, "invalidate")
  BY KnowsNow DEF SignIn, Does
<1>2. CASE Leave(p)
  BY <1>1, <1>2, LeaveStep DEF SignIn
<1>3. CASE ~Leave(p)
  <2>1. Go(p, "grant") /\ procs[p].want \subseteq procs[p].scopes
    BY <1>3 DEF SignIn
  <2>2. PICK l \in Proc : /\ Become(p, l) /\ l.pc = "grant" /\ l.req = procs[p].req
                          /\ l.account = procs[p].account /\ l.scopes = procs[p].scopes
                          /\ l.want = procs[p].want
                          /\ l.before = procs[p].before /\ l.late = procs[p].late
    BY <2>1, GoFields DEF Steps
  <2>3. Knows(l)
    BY <1>1, <2>1, <2>2 DEF Knows, Consenting, Granting, Issuing, Ending, Entering
  <2>4. Onward(p)
    BY <1>1, <2>2 DEF Onward, Granting, InBrowser, Become, IInv, TypeOK
  <2> QED
    BY <1>1, <2>2, <2>3, <2>4, MoveStep DEF SignIn
<1> QED BY <1>2, <1>3

\* disconnectClient lists the grants of the agent.
LEMMA ListStep ==
  ASSUME IInv, NEW p \in Procs, ListOfClient(p)
  PROVE  IInv' /\ Persists
<1> DEFINE list == {g \in Kept(grants) : ~grants[g].revoked}
<1>1. procs[p] \in Proc /\ Knows(procs[p]) /\ ~Does(p, "invalidate")
  BY KnowsNow DEF ListOfClient, Does
<1>2. list \in SUBSET Grants
  BY RowedNow DEF IInv, Rowed
<1>3. PICK l : l = [procs[p] EXCEPT !.pc = "revoke", !.left = list, !.cut = list]
  OBVIOUS
<1>4. /\ l \in Proc /\ l.pc = "revoke" /\ l.left = list /\ l.cut = list
      /\ l.before = procs[p].before /\ l.late = procs[p].late
  BY <1>1, <1>2, <1>3 DEF Proc, Steps
<1>5. Become(p, l)
  BY <1>3 DEF ListOfClient
<1>6. Knows(l)
  BY <1>1, <1>4 DEF Knows, Consenting, Granting, Issuing, Ending, Entering
<1>7. Onward(p)
  BY <1>4, <1>5 DEF Onward, Granting, InBrowser, Become, IInv, TypeOK
<1> QED
  BY <1>1, <1>4, <1>5, <1>6, <1>7, MoveStep DEF ListOfClient

\* authorizeBrowserJoin approves the row of the join for who was let through.
LEMMA AuthorizeJoinStep ==
  ASSUME IInv, NEW p \in Procs, AuthorizeJoin(p)
  PROVE  IInv' /\ Persists
<1>0. PICK i : i = procs[p].join
  OBVIOUS
<1> DEFINE wins == i \in Rows /\ requests[i].status = "pending"
<1>1. /\ OfKind(i, {"browser"}) /\ procs[p] \in Proc
      /\ Within(procs[p].session, procs[p].account, procs[p].grant, procs[p].scopes)
  BY <1>0, KnowsNow DEF AuthorizeJoin, Does, Knows, Entering
<1>2. ~Does(p, "invalidate")
  BY DEF AuthorizeJoin, Does
<1>3. CASE ~wins
  BY <1>0, <1>2, <1>3, LeaveStep DEF AuthorizeJoin, tables
<1>4. CASE wins
  <2>1. /\ i \in Rows /\ i \in Requests /\ requests[i] \in Request /\ requests[i].kind = "browser"
        /\ requests[i].status = "pending"
    BY <1>1, <1>4, RowedNow, RowsApart DEF IInv, Rowed, OfKind
  <2>2. PICK r : r = [requests[i] EXCEPT !.status = "approved", !.account = procs[p].account,
              !.scopes = procs[p].scopes, !.note = procs[p].grant, !.session = procs[p].session]
    OBVIOUS
  <2>3. requests' = [requests EXCEPT ![i] = r] /\ UNCHANGED consents
    BY <1>0, <1>4, <2>2 DEF AuthorizeJoin, history
  <2>4. /\ r \in Request /\ r.kind = "browser" /\ r.status = "approved" /\ r.note = procs[p].grant
        /\ r.account = procs[p].account /\ r.scopes = procs[p].scopes /\ r.session = procs[p].session
    BY <1>1, <2>1, <2>2 DEF Request, Statuses, Proc
  <2>5. requests'[i] = r
    BY <2>1, <2>3 DEF IInv, TypeOK
  <2>6. Within(r.session, r.account, r.note, r.scopes)'
    BY <1>1, <2>4 DEF Within, Covers, AuthorizeJoin, world
  <2>7. RowInv(i)'
    <3>1. r.note # NoGrant => r.note \in Kept(grants')
      BY <2>6 DEF Within, Covers
    <3>2. Within(requests[i].session, requests[i].account, requests[i].note, requests[i].scopes)'
      BY <2>5, <2>6 DEF Within, Covers
    <3> QED
      BY <2>4, <2>5, <3>1, <3>2, RowsApart DEF RowInv
  <2>8. TypedRows /\ \A j \in Requests : RowStep(j)
    BY <2>1, <2>3, <2>4, <2>7, OneRow
  <2> QED
    BY <1>2, <2>8, LeaveOnward, IdleKnows, HandlerStep DEF AuthorizeJoin, history
<1> QED BY <1>3, <1>4

\* completeBrowserJoin consumes the row.
LEMMA UseJoinStep ==
  ASSUME IInv, NEW p \in Procs, UseJoin(p)
  PROVE  IInv' /\ Persists
<1>0. PICK i : i = procs[p].req
  OBVIOUS
<1> DEFINE wins == i \in Rows /\ requests[i].status = procs[p].status
<1>1. /\ procs[p] \in Proc /\ procs[p].pc = "complete" /\ OfKind(i, {"browser"})
      /\ procs[p].status = "approved"
           => Within(procs[p].session, procs[p].account, procs[p].grant, procs[p].scopes)
      /\ ~procs[p].late /\ \A g \in procs[p].before : Unusable(g)
  BY <1>0, KnowsNow DEF UseJoin, Does, Knows, Entering
<1>2. ~Does(p, "invalidate")
  BY DEF UseJoin, Does
<1>3. CASE ~wins
  BY <1>0, <1>2, <1>3, LeaveStep DEF UseJoin, tables
<1>4. CASE wins
  <2>1. /\ i \in Rows /\ i \in Requests /\ requests[i] \in Request /\ requests[i].kind = "browser"
    BY <1>1, <1>4, RowedNow, RowsApart DEF IInv, Rowed, OfKind
  <2>2. PICK r : r = [requests[i] EXCEPT !.status = "consumed"]
    OBVIOUS
  <2>3. requests' = [requests EXCEPT ![i] = r] /\ UNCHANGED consents
    BY <1>0, <1>4, <2>2 DEF UseJoin, history
  <2>4. r \in Request /\ r.kind = "browser" /\ r.note = requests[i].note /\ r.status = "consumed"
    BY <2>1, <2>2 DEF Request, Statuses
  <2>5. requests'[i] = r
    BY <2>1, <2>3 DEF IInv, TypeOK
  <2>6. RowInv(i)'
    BY <2>1, <2>4, <2>5, RowsApart DEF RowInv, IInv, RowsInv, UseJoin
  <2>7. TypedRows /\ \A j \in Requests : RowStep(j)
    BY <2>1, <2>3, <2>4, <2>6, OneRow
  <2>8. CASE Leave(p)
    BY <1>2, <2>7, <2>8, LeaveOnward, IdleKnows, HandlerStep DEF UseJoin, history
  <2>9. CASE ~Leave(p)
    <3>1. Go(p, "enter") /\ procs[p].status = "approved"
      BY <1>0, <1>4, <2>9 DEF UseJoin
    <3>2. PICK l \in Proc : /\ Become(p, l) /\ l.pc = "enter" /\ l.account = procs[p].account
                            /\ l.scopes = procs[p].scopes /\ l.grant = procs[p].grant
                            /\ l.session = procs[p].session
                            /\ l.before = procs[p].before /\ l.late = procs[p].late
      BY <3>1, GoFields DEF Steps
    <3>3. Knows(l)
      BY <1>1, <3>1, <3>2 DEF Knows, Consenting, Granting, Issuing, Ending, Entering
    <3>4. Onward(p)
      BY <1>1, <3>2 DEF Onward, Granting, InBrowser, Become, IInv, TypeOK
    <3> QED
      BY <1>2, <2>7, <3>2, <3>3, <3>4, HandlerStep DEF UseJoin, history
  <2> QED BY <2>8, <2>9
<1> QED BY <1>3, <1>4

-----------------------------------------------------------------------------
(* Steps of no handler.                                                      *)

\* Requests that begin or lapse.
LEMMA RowsStep ==
  ASSUME IInv, TypedRows, \A i \in Requests : RowStep(i),
         UNCHANGED <<world, grants, tokens, sessions, provider, procs, held, ended, outlived,
                     blocked, acted>>
  PROVE  IInv' /\ Persists
<1>1. TypeOK'
  BY DEF IInv, TypeOK, TypedRows, world
<1>2. UNCHANGED <<env, barred, registry, browser>>
  BY DEF world
<1>3. Persists
  BY RowedNow, <1>2 DEF Persists, RowStep, GrantPersists, SessionPersists, Cleared, BearersOf
<1>4. Apart'
  BY DEF IInv, Apart, Granting, InBrowser
<1>5. OneGrantPerConsent' /\ OriginsInv'
  BY <1>1, <1>3, OriginsKept
<1>6. NotedInv' /\ TokensInv' /\ SessionsInv'
  BY <1>1, <1>2, <1>3, NotedKept, TokensKept, SessionsKept DEF RowStep
<1>7. EndedInv' /\ RegistryInv'
  BY <1>2, <1>3, EndedKept, RegistryKept DEF Does
<1> QED
  BY <1>1, <1>2, <1>3, <1>4, <1>5, <1>6, <1>7, Assemble DEF RowStep

\* startAuthorization, deviceAuthorization, a mediated sign-in or a join begins.
LEMMA AskStep ==
  ASSUME IInv, NEW i \in Requests, NEW kind \in Kinds, NEW a \in Accountable,
         NEW S \in SUBSET Scopes, Ask(i, kind, a, S)
  PROVE  IInv' /\ Persists
<1>1. requests[i] = NoRow /\ UNCHANGED consents
  BY DEF Ask, Unused, history
<1>2. PICK r : r = [kind |-> kind, status |-> "pending", account |-> a, scopes |-> S, attempts |-> 0,
                    note |-> NoGrant, session |-> NoSession, lapsed |-> FALSE]
  OBVIOUS
<1>3. /\ r \in Request /\ r.note = NoGrant /\ r.status = "pending" /\ r.attempts < MaxCodeAttempts
  BY <1>2, AttemptsAssumption DEF Request, Statuses
<1>4. PICK old \in Swept(requests) : requests' = [Sweep(requests, old) EXCEPT ![i] = r]
  BY <1>2 DEF Ask
<1>5. old \subseteq Rows
  BY DEF Swept, Rows
<1>6. /\ requests'[i] = r
      /\ \A j \in Requests \ {i} : requests'[j] = IF j \in old THEN Gone ELSE requests[j]
  BY <1>4 DEF Sweep
<1>7. TypedRows
  BY <1>1, <1>3, <1>4, <1>6 DEF IInv, TypeOK, TypedRows, Sweep
<1>8. ASSUME NEW j \in Requests, j # i PROVE RowStep(j)
  BY <1>1, <1>5, <1>6, <1>8, RowedNow, RowsApart DEF RowStep, RowPersists, RowInv, IInv, Rowed
<1>9. RowStep(i)
  <2>1. consents'[i] = {}
    BY <1>1, RowsApart DEF IInv, RowsInv, RowInv
  <2>2. RowInv(i)'
    BY <1>3, <1>6, <2>1, RowsApart DEF RowInv
  <2> QED
    BY <1>1, <1>3, <1>6, <2>1, <2>2, RowsApart DEF RowStep, RowPersists, OfKind
<1> QED
  BY <1>7, <1>8, <1>9, RowsStep DEF Ask, history

\* Whatever is asked for begins a request.
LEMMA AskedStep ==
  ASSUME IInv, Asked
  PROVE  IInv' /\ Persists
<1>1. Nobody \in Accountable /\ {} \in SUBSET Scopes
  BY DEF Accountable
<1> QED
  BY <1>1, AskStep DEF Asked, DeviceAuthorization, StartAuthorization, Mediated, StartBrowserJoin,
                       StartSignIn, Kinds

\* A request expires.
LEMMA LapseStep ==
  ASSUME IInv, NEW i \in Requests, Lapse(i)
  PROVE  IInv' /\ Persists
<1>1. i \in Rows /\ requests[i] \in Request
  BY RowedNow DEF Lapse, IInv, Rowed
<1>2. PICK r : r = [requests[i] EXCEPT !.lapsed = TRUE]
  OBVIOUS
<1>3. requests' = [requests EXCEPT ![i] = r] /\ UNCHANGED consents
  BY <1>2 DEF Lapse, history
<1>4. /\ r \in Request /\ r.kind = requests[i].kind /\ r.status = requests[i].status
      /\ r.account = requests[i].account /\ r.scopes = requests[i].scopes
      /\ r.attempts = requests[i].attempts /\ r.note = requests[i].note
      /\ r.session = requests[i].session
  BY <1>1, <1>2 DEF Request
<1>5. requests'[i] = r
  BY <1>3 DEF IInv, TypeOK
<1>6. RowInv(i)'
  <2>1. RowInv(i)
    BY DEF IInv, RowsInv
  <2> QED
    BY <1>1, <1>4, <1>5, <2>1, RowsApart DEF RowInv, Within, Covers, ConsentedTo, Lapse, history
<1>7. TypedRows /\ \A j \in Requests : RowStep(j)
  BY <1>1, <1>3, <1>4, <1>6, OneRow
<1> QED
  BY <1>7, RowsStep DEF Lapse, history

-----------------------------------------------------------------------------
(* Grants and access tokens.                                                 *)

\* The handler that moved, and the others.
LEMMA Became ==
  ASSUME IInv, NEW p \in Procs, NEW l \in Proc, Become(p, l)
  PROVE  /\ procs'[p] = l /\ \A q \in Procs : q # p => procs'[q] = procs[q]
         /\ procs' \in [Procs -> Proc]
BY DEF Become, IInv, TypeOK

\* What a handler knows from its beginning stays true.
LEMMA BeforeKept ==
  ASSUME IInv, Persists, NEW p \in Procs, NEW l, l.before = procs[p].before, l.late = procs[p].late
  PROVE  ~l.late /\ \A g \in l.before : Unusable(g)'
BY KnowsNow, UnusableKept DEF IInv, Knows

\* The grant of a consent is inserted by the only handler that holds it.
LEMMA InsertGrantStep ==
  ASSUME IInv, NEW p \in Procs, InsertGrant(p)
  PROVE  IInv' /\ Persists
<1>1. /\ procs[p] \in Proc /\ Knows(procs[p]) /\ procs[p].pc = "grant" /\ procs[p].account \in Accounts
      /\ procs[p].want \subseteq procs[p].scopes
      /\ procs[p].req # NoRequest => /\ Granting(procs[p]) /\ procs[p].req \in Requests
                                     /\ Consumed(procs[p].req)
                                     /\ ConsentedTo(procs[p].req, procs[p].account, procs[p].scopes)
  BY KnowsNow DEF InsertGrant, Does, Knows, Consenting, Granting, Proc
<1>2. PICK r : r = [account |-> procs[p].account, scopes |-> procs[p].scopes,
                    revoked |-> FALSE, origin |-> procs[p].req]
  OBVIOUS
<1>3. /\ r \in Grant /\ r.account = procs[p].account
      /\ r.scopes = procs[p].scopes /\ r.origin = procs[p].req
  BY <1>1, <1>2 DEF Grant, Proc
<1>4. PICK g \in Unused(grants) :
        grants' = [grants EXCEPT ![g] = r] /\ Become(p, [procs[p] EXCEPT !.pc = "issue", !.grant = g])
  BY <1>2 DEF InsertGrant
<1>5. g \in Grants /\ grants[g] = NoRow /\ g \notin Kept(grants)
  BY <1>4 DEF Unused, Kept, IInv, TypeOK
<1>6. PICK l : l = [procs[p] EXCEPT !.pc = "issue", !.grant = g]
  OBVIOUS
<1>7. /\ l \in Proc /\ l.pc = "issue" /\ l.grant = g /\ l.req = procs[p].req
      /\ l.account = procs[p].account /\ l.want = procs[p].want
      /\ l.before = procs[p].before /\ l.late = procs[p].late
  BY <1>1, <1>5, <1>6 DEF Proc, Steps
<1>8. /\ procs'[p] = l /\ \A q \in Procs : q # p => procs'[q] = procs[q]
      /\ procs' \in [Procs -> Proc]
  BY <1>4, <1>6, <1>7, Became
<1>9. grants'[g] = r /\ \A h \in Grants \ {g} : grants'[h] = grants[h]
  BY <1>4, <1>5 DEF IInv, TypeOK
<1>10. /\ UNCHANGED <<env, barred, registry, browser, requests, tokens, sessions, provider>>
       /\ UNCHANGED <<held, consents, ended, outlived, blocked, acted>>
  BY DEF InsertGrant, world, history
<1>11. TypeOK'
  BY <1>3, <1>4, <1>5, <1>8, <1>10 DEF IInv, TypeOK
<1>12. Kept(grants') = Kept(grants) \cup {g}
  <2>1. /\ Kept(grants) = {h \in Grants : grants[h] \in Grant}
        /\ Kept(grants') = {h \in Grants : grants'[h] \in Grant}
    BY <1>11, RowedNow, RowedNext DEF IInv, Rowed
  <2> QED
    BY <1>3, <1>5, <1>9, <2>1
<1>13. Persists
  BY <1>5, <1>9, <1>10, <1>12 DEF Persists, RowPersists, GrantPersists, SessionPersists, Cleared, BearersOf
<1>14. Knows(procs[p])'
  <2>1. ~l.late /\ \A h \in l.before : Unusable(h)'
    BY <1>7, <1>13, BeforeKept
  <2>2. g \notin l.before
    BY <1>1, <1>5, <1>7 DEF Knows, Unusable
  <2>3. Covers(g, l.account, l.want)'
    BY <1>1, <1>3, <1>7, <1>9, <1>12 DEF Covers
  <2>4. Issuing(l)'
    BY <1>1, <1>3, <1>7, <1>9, <2>2, <2>3 DEF Issuing
  <2>5. Consenting(l)' /\ Ending(l)' /\ Entering(l)'
    BY <1>7 DEF Consenting, Granting, Ending, Entering
  <2>6. Knows(l)'
    BY <2>1, <2>4, <2>5 DEF Knows
  <2> QED BY <1>8, <2>6, KnowsMoved
<1>15. Onward(p)
  BY <1>7, <1>8 DEF Onward, Granting, InBrowser
<1>16. Apart'
  BY <1>8, <1>15, ApartKept
<1>17. OneGrantPerConsent'
  <2>1. ASSUME NEW h \in Kept(grants), r.origin # NoRequest PROVE grants[h].origin # r.origin
    BY <1>1, <1>3, <2>1 DEF IInv, OriginsInv, OriginInv
  <2>2. \A h \in Kept(grants) : grants'[h] = grants[h]
    BY <1>5, <1>9 DEF Kept, IInv, TypeOK
  <2>3. OneGrantPerConsent
    BY DEF IInv
  <2> SUFFICES ASSUME NEW h \in Kept(grants'), NEW k \in Kept(grants'),
                      grants'[h].origin = grants'[k].origin, grants'[h].origin # NoRequest
               PROVE  h = k
    BY DEF OneGrantPerConsent
  <2> QED
    BY <1>9, <1>12, <2>1, <2>2, <2>3 DEF OneGrantPerConsent
<1>18. OriginsInv'
  <2> SUFFICES ASSUME NEW h \in Kept(grants'), grants'[h].origin # NoRequest
               PROVE  OriginInv(h)'
    BY DEF OriginsInv, OriginInv
  <2>1. \A q \in Procs : Granting(procs[q])' => q # p /\ Granting(procs[q]) /\ procs'[q] = procs[q]
    BY <1>7, <1>8 DEF Granting
  <2>2. CASE h = g
    <3>1. \A q \in Procs : Granting(procs[q])' => procs'[q].req # r.origin
      BY <1>1, <1>3, <1>9, <2>1, <2>2 DEF IInv, Apart
    <3> QED
      BY <1>1, <1>3, <1>9, <1>10, <2>2, <3>1 DEF OriginInv, Consumed, ConsentedTo
  <2>3. CASE h # g
    <3>1. h \in Kept(grants) /\ grants'[h] = grants[h]
      BY <1>9, <1>12, <2>3 DEF Kept, IInv, TypeOK
    <3> QED
      BY <1>10, <2>1, <3>1 DEF IInv, OriginsInv, OriginInv, Consumed, ConsentedTo
  <2> QED BY <2>2, <2>3
<1>19. NotedInv' /\ TokensInv' /\ SessionsInv' /\ EndedInv'
  BY <1>10, <1>11, <1>13, NotedKept, TokensKept, SessionsKept, EndedKept
<1>20. RegistryInv'
  BY <1>1, <1>8, <1>10, RegistryKept DEF Does
<1> QED
  BY <1>8, <1>10, <1>11, <1>13, <1>14, <1>16, <1>17, <1>18, <1>19, <1>20, Assemble

\* A bearer minted for a grant that is revoked already outlives its end.
LEMMA IssueStep ==
  ASSUME IInv, NEW p \in Procs, Issue(p)
  PROVE  IInv' /\ Persists
<1>0. PICK g : g = procs[p].grant
  OBVIOUS
<1>1. /\ procs[p] \in Proc /\ Knows(procs[p]) /\ procs[p].pc = "issue"
      /\ Covers(g, procs[p].account, procs[p].want) /\ g \notin procs[p].before
  BY <1>0, KnowsNow DEF Issue, Does, Knows, Issuing
<1>2. g \in Grants /\ g \in Kept(grants)
  BY <1>1, RowedNow DEF Covers, IInv, Rowed
<1>3. PICK t \in FreshTokens :
        /\ provider' = IF procs[p].bearer THEN provider \cup {[token |-> t, grant |-> g]} ELSE provider
        /\ outlived' = IF procs[p].bearer /\ grants[g].revoked /\ g \notin procs[p].before
                       THEN outlived \cup {g} ELSE outlived
        /\ Become(p, [procs[p] EXCEPT !.pc = "store", !.token = t])
  BY <1>0 DEF Issue
<1>4. t \in Tokens
  BY <1>3 DEF FreshTokens, Unused, IInv, TypeOK
<1>5. PICK l : l = [procs[p] EXCEPT !.pc = "store", !.token = t]
  OBVIOUS
<1>6. /\ l \in Proc /\ l.pc = "store" /\ l.token = t /\ l.grant = g /\ l.req = procs[p].req
      /\ l.account = procs[p].account /\ l.want = procs[p].want
      /\ l.before = procs[p].before /\ l.late = procs[p].late
  BY <1>0, <1>1, <1>4, <1>5 DEF Proc, Steps
<1>7. /\ procs'[p] = l /\ \A q \in Procs : q # p => procs'[q] = procs[q]
      /\ procs' \in [Procs -> Proc]
  BY <1>3, <1>5, <1>6, Became
<1>8. /\ UNCHANGED <<env, barred, registry, browser, requests, grants, tokens, sessions>>
      /\ UNCHANGED <<held, consents, ended, blocked, acted>>
  BY DEF Issue, world, tables
<1>9. TypeOK'
  BY <1>2, <1>3, <1>4, <1>7, <1>8 DEF IInv, TypeOK
<1>10. ASSUME NEW h \in Grants, Cleared(h) PROVE Cleared(h)'
  <2>1. CASE h = g
    BY <1>1, <1>3, <1>8, <1>10, <2>1 DEF Cleared, BearersOf
  <2>2. CASE h # g
    <3>1. BearersOf(h)' = BearersOf(h)
      BY <1>3, <2>2 DEF BearersOf
    <3> QED
      BY <1>3, <1>8, <1>10, <3>1 DEF Cleared
  <2> QED BY <2>1, <2>2
<1>11. Persists
  BY <1>8, <1>10 DEF Persists, RowPersists, GrantPersists, SessionPersists
<1>12. Knows(procs[p])'
  <2>1. ~l.late /\ \A h \in l.before : Unusable(h)'
    BY <1>6, <1>11, BeforeKept
  <2>2. Issuing(l)'
    BY <1>0, <1>1, <1>4, <1>6, <1>8 DEF Knows, Issuing, Covers
  <2>3. Consenting(l)' /\ Ending(l)' /\ Entering(l)'
    BY <1>6 DEF Consenting, Granting, Ending, Entering
  <2>4. Knows(l)'
    BY <2>1, <2>2, <2>3 DEF Knows
  <2> QED BY <1>7, <2>4, KnowsMoved
<1>13. Onward(p)
  BY <1>6, <1>7 DEF Onward, Granting, InBrowser
<1>14. Apart' /\ OneGrantPerConsent' /\ OriginsInv'
  BY <1>7, <1>8, <1>9, <1>11, <1>13, ApartKept, OriginsKept
<1>15. NotedInv' /\ TokensInv' /\ SessionsInv' /\ EndedInv'
  BY <1>8, <1>9, <1>11, NotedKept, TokensKept, SessionsKept, EndedKept
<1>16. RegistryInv'
  BY <1>1, <1>7, <1>8, RegistryKept DEF Does
<1> QED
  BY <1>7, <1>8, <1>9, <1>11, <1>12, <1>14, <1>15, <1>16, Assemble

\* An access token is stored: its row says what the grant says, at most.
LEMMA StoreTokenStep ==
  ASSUME IInv, NEW p \in Procs, StoreToken(p)
  PROVE  IInv' /\ Persists
<1>0. PICK i, g, t : i = procs[p].req /\ g = procs[p].grant /\ t = procs[p].token
  OBVIOUS
<1>1. /\ procs[p] \in Proc /\ Knows(procs[p]) /\ procs[p].pc = "store" /\ t \in Tokens
      /\ Covers(g, procs[p].account, procs[p].want) /\ g \notin procs[p].before
      /\ procs[p].account \in Accounts
      /\ grants[g].origin = i \/ (i = NoRequest /\ g \in held)
  BY <1>0, KnowsNow DEF StoreToken, Does, Knows, Issuing
<1>2. g \in Grants /\ g \in Kept(grants)
  BY <1>1, RowedNow DEF Covers, IInv, Rowed
<1>3. PICK r : r = [grant |-> g, account |-> procs[p].account, scopes |-> procs[p].want,
                    bearer |-> procs[p].bearer]
  OBVIOUS
<1>4. r \in Token /\ r.grant = g /\ r.account = procs[p].account /\ r.scopes = procs[p].want
  BY <1>1, <1>2, <1>3 DEF Token, Proc
<1>5. tokens' = [tokens EXCEPT ![t] = r]
  BY <1>0, <1>3 DEF StoreToken
<1>6. /\ UNCHANGED <<env, barred, registry, browser, requests, grants, sessions, provider>>
      /\ UNCHANGED <<consents, ended, outlived, blocked, acted>>
  BY DEF StoreToken, world
<1>7. PICK l \in Proc :
        /\ Become(p, l) /\ Knows(l) /\ l.pc \in {"note", "idle"}
        /\ \/ held' = held
           \/ held' = held \cup {t, g} /\ ~(i \in Rows /\ requests[i].kind = "authorize")
  <2>1. CASE i \in Rows /\ requests[i].kind = "authorize"
    <3>1. Go(p, "note") /\ held' = held
      BY <1>0, <2>1 DEF StoreToken
    <3>2. PICK l \in Proc :
            /\ Become(p, l) /\ l.pc = "note" /\ l.req = i /\ l.account = procs[p].account
            /\ l.grant = g /\ l.token = t /\ l.want = procs[p].want
            /\ l.before = procs[p].before /\ l.late = procs[p].late
      BY <1>0, <3>1, GoFields DEF Steps
    <3>3. OfKind(i, {"authorize"})
      BY <2>1, RowedNow, RowsApart DEF OfKind, IInv, Rowed
    <3>4. Knows(l)
      BY <1>1, <3>2, <3>3 DEF Knows, Consenting, Granting, Issuing, Ending, Entering
    <3> QED BY <3>1, <3>2, <3>4
  <2>2. CASE ~(i \in Rows /\ requests[i].kind = "authorize")
    BY <1>0, <2>2, LeaveOnward, IdleKnows DEF StoreToken, Answered
  <2> QED BY <2>1, <2>2
<1>8. /\ procs'[p] = l /\ \A q \in Procs : q # p => procs'[q] = procs[q]
      /\ procs' \in [Procs -> Proc]
  BY <1>7, Became
<1>9. TypeOK'
  BY <1>1, <1>2, <1>4, <1>5, <1>6, <1>7, <1>8 DEF IInv, TypeOK
<1>10. Persists
  BY <1>6, <1>7 DEF Persists, RowPersists, GrantPersists, SessionPersists, Cleared, BearersOf
<1>11. Knows(procs[p])'
  <2>1. Knows(l)'
    BY <1>7, <1>10, KnowsKept DEF IInv
  <2> QED BY <1>8, <2>1, KnowsMoved
<1>12. Onward(p)
  BY <1>7, <1>8 DEF Onward, Granting, InBrowser
<1>13. Apart' /\ OneGrantPerConsent' /\ OriginsInv'
  BY <1>6, <1>8, <1>9, <1>10, <1>12, ApartKept, OriginsKept
<1>14. NotedInv'
  <2>1. CASE held' \cap Grants \subseteq held
    BY <1>6, <1>9, <1>10, <2>1, NotedKept
  <2>2. CASE ~(held' \cap Grants \subseteq held)
    <3>1. held' \cap Grants = (held \cap Grants) \cup {g} /\ g \notin held
      BY <1>1, <1>2, <1>7, <2>2, AbsenceAssumption
    <3>2. grants[g].origin = i /\ ~(i \in Rows /\ requests[i].kind = "authorize")
      BY <1>1, <1>7, <3>1
    <3>3. ~(OfKind(i, {"authorize"}) /\ requests[i] # Gone)
      BY <3>2, RowedNow, RowsApart DEF OfKind, IInv, TypeOK, Rowed
    <3> QED
      BY <1>2, <1>6, <3>1, <3>2, <3>3 DEF IInv, NotedInv, OfKind
  <2> QED BY <2>1, <2>2
<1>15. TokensInv'
  <2>1. tokens'[t] = r /\ \A u \in Tokens \ {t} : tokens'[u] = tokens[u]
    BY <1>1, <1>5 DEF IInv, TypeOK
  <2>2. \A u \in Kept(tokens') : u \in Tokens /\ (u # t => u \in Kept(tokens))
    BY <1>5, <2>1 DEF Kept, IInv, TypeOK
  <2>3. Covers(r.grant, r.account, r.scopes)
    BY <1>1, <1>4
  <2>4. Covers(tokens[t].grant, tokens[t].account, tokens[t].scopes)'
    BY <1>6, <2>1, <2>3 DEF Covers
  <2> QED
    BY <1>9, <1>10, <2>1, <2>2, <2>4, TokensKept
<1>16. SessionsInv' /\ EndedInv'
  BY <1>6, <1>9, <1>10, SessionsKept, EndedKept
<1>17. RegistryInv'
  BY <1>1, <1>6, <1>8, RegistryKept DEF Does
<1> QED
  BY <1>6, <1>8, <1>9, <1>10, <1>11, <1>13, <1>14, <1>15, <1>16, <1>17, Assemble

\* The grant is noted in the row of its code before it is answered.
LEMMA NoteStep ==
  ASSUME IInv, NEW p \in Procs, Note(p)
  PROVE  IInv' /\ Persists
<1>0. PICK i, g, t : i = procs[p].req /\ g = procs[p].grant /\ t = procs[p].token
  OBVIOUS
<1>1. /\ procs[p] \in Proc /\ procs[p].pc = "note" /\ t \in Tokens /\ OfKind(i, {"authorize"})
      /\ Covers(g, procs[p].account, procs[p].want) /\ grants[g].origin = i
  BY <1>0, KnowsNow, AbsenceAssumption DEF Note, Does, Knows, Issuing, OfKind
<1>2. g \in Grants /\ g \in Kept(grants) /\ i \in Requests /\ i # NoRequest
  BY <1>1, RowedNow, AbsenceAssumption DEF Covers, IInv, Rowed, OfKind
<1>3. /\ UNCHANGED <<env, barred, registry, browser, grants, tokens, sessions, provider>>
      /\ UNCHANGED <<consents, ended, outlived, blocked, acted>>
      /\ held' = held \cup {t, g}
  BY <1>0 DEF Note, Answered, world
<1>4. /\ procs'[p] = Idle /\ \A q \in Procs : q # p => procs'[q] = procs[q]
      /\ procs' \in [Procs -> Proc] /\ Onward(p)
  BY LeaveOnward, IdleKnows, Became DEF Note, Answered
<1>5. /\ \A j \in Requests \ {i} : requests'[j] = requests[j]
      /\ i \notin Rows => requests'[i] = requests[i]
      /\ i \in Rows => /\ requests[i] \in Request /\ requests'[i] \in Request
                       /\ requests'[i] = [requests[i] EXCEPT !.note = g]
      /\ requests' \in [Requests -> Request \cup {NoRow, Gone}]
  <2>1. CASE i \notin Rows
    BY <1>0, <2>1 DEF Note, IInv, TypeOK
  <2>2. CASE i \in Rows
    <3>1. requests[i] \in Request
      BY <1>2, <2>2, RowedNow DEF IInv, Rowed
    <3>2. PICK r : r = [requests[i] EXCEPT !.note = g]
      OBVIOUS
    <3>3. r \in Request
      BY <1>2, <3>1, <3>2 DEF Request
    <3>4. requests' = [requests EXCEPT ![i] = r]
      BY <1>0, <2>2, <3>2 DEF Note
    <3>5. /\ requests'[i] = r /\ \A j \in Requests \ {i} : requests'[j] = requests[j]
          /\ requests' \in [Requests -> Request \cup {NoRow, Gone}]
      BY <1>2, <3>3, <3>4 DEF IInv, TypeOK
    <3> QED
      BY <2>2, <3>1, <3>2, <3>3, <3>5
  <2> QED BY <2>1, <2>2
<1>6. i \in Rows => /\ requests'[i].note = g /\ requests'[i].kind = requests[i].kind
                    /\ requests'[i].status = requests[i].status
                    /\ requests'[i].account = requests[i].account
                    /\ requests'[i].scopes = requests[i].scopes
                    /\ requests'[i].attempts = requests[i].attempts
  BY <1>5 DEF Request
<1>7. TypeOK'
  BY <1>1, <1>2, <1>3, <1>4, <1>5 DEF IInv, TypeOK
<1>8. Persists
  <2>1. \A j \in Requests : RowPersists(j)
    BY <1>3, <1>5, <1>6, RowsApart DEF RowPersists
  <2> QED
    BY <1>3, <2>1 DEF Persists, GrantPersists, SessionPersists, Cleared, BearersOf
<1>9. RowInv(i)'
  <2>1. RowInv(i)
    BY <1>2 DEF IInv, RowsInv
  <2>2. CASE i \in Rows
    <3>1. requests[i].kind = "authorize" /\ g \in Kept(grants')
      BY <1>1, <1>2, <1>3, <1>5, <2>2, RowsApart DEF OfKind
    <3> QED
      BY <1>3, <1>5, <1>6, <2>1, <2>2, <3>1, RowsApart DEF RowInv, ConsentedTo
  <2>3. CASE i \notin Rows
    BY <1>2, <1>3, <1>5, <1>8, <2>1, <2>3, RowKept DEF IInv
  <2> QED BY <2>2, <2>3
<1>10. Knows(procs[p])'
  <2>1. Knows(Idle)'
    BY <1>8, IdleKnows, KnowsKept DEF IInv
  <2> QED BY <1>4, <2>1, KnowsMoved
<1>11. Apart' /\ OneGrantPerConsent' /\ OriginsInv'
  BY <1>3, <1>4, <1>7, <1>8, ApartKept, OriginsKept
<1>12. NotedInv'
  <2> SUFFICES ASSUME NEW h \in held' \cap Grants
               PROVE  /\ h \in Kept(grants')
                      /\ (OfKind(grants[h].origin, {"authorize"})' /\ requests'[grants'[h].origin] # Gone)
                           => requests'[grants'[h].origin].note = h
    BY DEF NotedInv
  <2>1. h \in Kept(grants)
    BY <1>1, <1>2, <1>3, AbsenceAssumption DEF IInv, NotedInv
  <2>2. CASE grants[h].origin = i
    <3>1. h = g
      BY <1>1, <1>2, <2>1, <2>2 DEF IInv, OneGrantPerConsent
    <3>2. OfKind(i, {"authorize"})' /\ requests'[i] # Gone => i \in Rows
      BY <1>2, <1>5, RowedNow, RowsApart DEF OfKind, IInv, TypeOK, Rowed
    <3> QED BY <1>3, <1>6, <2>1, <2>2, <3>1, <3>2 DEF OfKind
  <2>3. CASE grants[h].origin # i
    <3>1. h \in held
      BY <1>1, <1>3, <2>3, AbsenceAssumption
    <3> QED
      BY <1>3, <1>5, <2>3, <3>1 DEF IInv, NotedInv, OfKind
  <2> QED BY <2>2, <2>3
<1>13. TokensInv' /\ SessionsInv' /\ EndedInv'
  BY <1>3, <1>7, <1>8, TokensKept, SessionsKept, EndedKept
<1>14. RegistryInv'
  BY <1>1, <1>3, <1>4, RegistryKept DEF Does
<1> QED
  BY <1>3, <1>4, <1>5, <1>7, <1>8, <1>9, <1>10, <1>11, <1>12, <1>13, <1>14, Assemble

-----------------------------------------------------------------------------
(* Revocation and disconnection.                                             *)

\* A grant of the list is revoked: its bearers are next.
LEMMA RevokeRowStep ==
  ASSUME IInv, NEW p \in Procs, NEW g \in Grants, RevokeRow(p, g)
  PROVE  IInv' /\ Persists
<1>1. procs[p] \in Proc /\ Knows(procs[p]) /\ procs[p].pc = "revoke" /\ g \in procs[p].left
  BY KnowsNow DEF RevokeRow, Does
<1>2. g \in Kept(grants) /\ grants[g] \in Grant
  BY <1>1, RowedNow DEF Knows, Ending, IInv, Rowed
<1>3. PICK r : r = [grants[g] EXCEPT !.revoked = TRUE]
  OBVIOUS
<1>4. /\ r \in Grant /\ r.revoked /\ r.account = grants[g].account /\ r.scopes = grants[g].scopes
      /\ r.origin = grants[g].origin
  BY <1>2, <1>3 DEF Grant
<1>5. PICK l : l = [procs[p] EXCEPT !.pc = "unmint", !.grant = g, !.left = @ \ {g}]
  OBVIOUS
<1>6. /\ l \in Proc /\ l.pc = "unmint" /\ l.grant = g /\ l.left = procs[p].left \ {g}
      /\ l.cut = procs[p].cut /\ l.before = procs[p].before /\ l.late = procs[p].late
  BY <1>1, <1>5 DEF Proc, Steps
<1>7. Become(p, l) /\ grants' = [grants EXCEPT ![g] = r]
  BY <1>3, <1>5 DEF RevokeRow
<1>8. /\ procs'[p] = l /\ \A q \in Procs : q # p => procs'[q] = procs[q]
      /\ procs' \in [Procs -> Proc]
  BY <1>6, <1>7, Became
<1>9. /\ UNCHANGED <<env, barred, registry, browser, requests, tokens, sessions, provider>>
      /\ UNCHANGED <<held, consents, ended, outlived, blocked, acted>>
  BY DEF RevokeRow, world, history
<1>10. grants'[g] = r /\ \A h \in Grants \ {g} : grants'[h] = grants[h]
  BY <1>7 DEF IInv, TypeOK
<1>11. TypeOK'
  BY <1>4, <1>7, <1>8, <1>9 DEF IInv, TypeOK
<1>12. Kept(grants') = Kept(grants)
  <2>1. /\ Kept(grants) = {h \in Grants : grants[h] \in Grant}
        /\ Kept(grants') = {h \in Grants : grants'[h] \in Grant}
    BY <1>11, RowedNow, RowedNext DEF IInv, Rowed
  <2> QED
    BY <1>2, <1>4, <1>10, <2>1
<1>13. Persists
  BY <1>4, <1>9, <1>10, <1>12 DEF Persists, RowPersists, GrantPersists, SessionPersists, Cleared, BearersOf
<1>14. Knows(procs[p])'
  <2>1. ~l.late /\ \A h \in l.before : Unusable(h)'
    BY <1>6, <1>13, BeforeKept
  <2>2. Ending(l)'
    <3>1. \A h \in l.cut : h \in l.left \/ Cleared(h)' \/ h = g
      BY <1>1, <1>6, <1>13 DEF Knows, Ending, Persists, Proc
    <3> QED
      BY <1>1, <1>2, <1>4, <1>6, <1>10, <1>12, <3>1 DEF Knows, Ending
  <2>3. Consenting(l)' /\ Issuing(l)' /\ Entering(l)'
    BY <1>6 DEF Consenting, Granting, Issuing, Entering
  <2>4. Knows(l)'
    BY <2>1, <2>2, <2>3 DEF Knows
  <2> QED BY <1>8, <2>4, KnowsMoved
<1>15. Onward(p)
  BY <1>6, <1>8 DEF Onward, Granting, InBrowser
<1>16. Apart' /\ OneGrantPerConsent' /\ OriginsInv'
  BY <1>8, <1>11, <1>12, <1>13, <1>15, ApartKept, OriginsKept
<1>17. NotedInv' /\ TokensInv' /\ SessionsInv' /\ EndedInv'
  BY <1>9, <1>11, <1>13, NotedKept, TokensKept, SessionsKept, EndedKept
<1>18. RegistryInv'
  BY <1>1, <1>8, <1>9, RegistryKept DEF Does
<1> QED
  BY <1>8, <1>9, <1>11, <1>13, <1>14, <1>16, <1>17, <1>18, Assemble

\* The bearers that are there when the revocation looks for them go.
LEMMA RevokeBearersStep ==
  ASSUME IInv, NEW p \in Procs, RevokeBearers(p)
  PROVE  IInv' /\ Persists
<1>0. PICK g : g = procs[p].grant
  OBVIOUS
<1>1. /\ procs[p] \in Proc /\ Knows(procs[p]) /\ procs[p].pc = "unmint"
      /\ g \in Kept(grants) /\ grants[g].revoked
  BY <1>0, KnowsNow DEF RevokeBearers, Does, Knows, Ending
<1>2. PICK l : l = [procs[p] EXCEPT !.pc = "revoke", !.grant = NoGrant]
  OBVIOUS
<1>3. /\ l \in Proc /\ l.pc = "revoke" /\ l.left = procs[p].left
      /\ l.cut = procs[p].cut /\ l.before = procs[p].before /\ l.late = procs[p].late
  BY <1>1, <1>2 DEF Proc, Steps
<1>4. Become(p, l) /\ provider' = provider \ BearersOf(g)
  BY <1>0, <1>2 DEF RevokeBearers
<1>5. /\ procs'[p] = l /\ \A q \in Procs : q # p => procs'[q] = procs[q]
      /\ procs' \in [Procs -> Proc]
  BY <1>3, <1>4, Became
<1>6. /\ UNCHANGED <<env, barred, registry, browser, requests, grants, tokens, sessions>>
      /\ UNCHANGED <<held, consents, ended, outlived, blocked, acted>>
  BY DEF RevokeBearers, world, tables, history
<1>7. TypeOK'
  BY <1>4, <1>5, <1>6 DEF IInv, TypeOK
<1>8. Persists
  BY <1>4, <1>6 DEF Persists, RowPersists, GrantPersists, SessionPersists, Cleared, BearersOf
<1>9. Cleared(g)'
  <2>1. BearersOf(g)' = {}
    BY <1>4 DEF BearersOf
  <2> QED
    BY <1>1, <1>6, <2>1 DEF Cleared
<1>10. Knows(procs[p])'
  <2>1. ~l.late /\ \A h \in l.before : Unusable(h)'
    BY <1>3, <1>8, BeforeKept
  <2>2. Ending(l)'
    <3>1. \A h \in l.cut : h \in l.left \/ Cleared(h)'
      BY <1>0, <1>1, <1>3, <1>8, <1>9 DEF Knows, Ending, Persists, Proc
    <3> QED
      BY <1>1, <1>3, <1>6, <3>1 DEF Knows, Ending
  <2>3. Consenting(l)' /\ Issuing(l)' /\ Entering(l)'
    BY <1>3 DEF Consenting, Granting, Issuing, Entering
  <2>4. Knows(l)'
    BY <2>1, <2>2, <2>3 DEF Knows
  <2> QED BY <1>5, <2>4, KnowsMoved
<1>11. Onward(p)
  BY <1>3, <1>5 DEF Onward, Granting, InBrowser
<1>12. Apart' /\ OneGrantPerConsent' /\ OriginsInv'
  BY <1>5, <1>6, <1>7, <1>8, <1>11, ApartKept, OriginsKept
<1>13. NotedInv' /\ TokensInv' /\ SessionsInv' /\ EndedInv'
  BY <1>6, <1>7, <1>8, NotedKept, TokensKept, SessionsKept, EndedKept
<1>14. RegistryInv'
  BY <1>1, <1>5, <1>6, RegistryKept DEF Does
<1> QED
  BY <1>5, <1>6, <1>7, <1>8, <1>10, <1>12, <1>13, <1>14, Assemble

\* A step of a handler that changes sessions, what ended, or the registry at most.
LEMMA EndingStep ==
  ASSUME IInv, NEW p \in Procs, NEW l \in Proc, Become(p, l), Knows(l) \/ Knows(l)',
         UNCHANGED <<env, barred, browser, requests, grants, tokens, provider,
                     held, consents, outlived, acted>>,
         sessions' \in [Sessions -> Session \cup {NoRow}], \A e \in Sessions : SessionPersists(e),
         ended' \subseteq Grants, \A g \in ended' : g \in ended \/ Cleared(g), blocked' \in BOOLEAN,
         registry' \in [row : BOOLEAN, snapshot : Snapshots, loading : Snapshots, missed : BOOLEAN],
         RegistryInv', ~Granting(l), ~InBrowser(l)
  PROVE  IInv' /\ Persists
<1>1. /\ procs'[p] = l /\ \A q \in Procs : q # p => procs'[q] = procs[q]
      /\ procs' \in [Procs -> Proc]
  BY Became
<1>2. TypeOK'
  BY <1>1 DEF IInv, TypeOK
<1>3. Persists
  BY DEF Persists, RowPersists, GrantPersists, Cleared, BearersOf
<1>4. Knows(procs[p])'
  <2>1. Knows(l)'
    BY <1>3, KnowsKept DEF IInv
  <2> QED BY <1>1, <2>1, KnowsMoved
<1>5. Onward(p)
  BY <1>1 DEF Onward, Granting, InBrowser
<1>6. Apart' /\ OneGrantPerConsent' /\ OriginsInv'
  BY <1>1, <1>2, <1>3, <1>5, ApartKept, OriginsKept
<1>7. NotedInv' /\ TokensInv' /\ SessionsInv'
  BY <1>2, <1>3, NotedKept, TokensKept, SessionsKept
<1>8. EndedInv'
  BY <1>3, EndedKept DEF Persists, Cleared, BearersOf
<1> QED
  BY <1>1, <1>2, <1>3, <1>4, <1>6, <1>7, <1>8, Assemble

\* The answer that the grants ended, or the sessions of the agent are next.
LEMMA RevokedStep ==
  ASSUME IInv, NEW p \in Procs, Revoked(p)
  PROVE  IInv' /\ Persists
<1>1. /\ procs[p] \in Proc /\ Knows(procs[p]) /\ procs[p].pc = "revoke" /\ procs[p].left = {}
      /\ procs[p].cut \subseteq Grants /\ \A g \in procs[p].cut : Cleared(g)
  BY KnowsNow DEF Revoked, Does, Knows, Ending, Proc
<1>2. /\ UNCHANGED <<env, barred, registry, browser, requests, grants, tokens, sessions, provider>>
      /\ UNCHANGED <<held, consents, outlived, blocked, acted>>
  BY DEF Revoked, world, tables
<1>3. PICK l \in Proc : /\ Become(p, l) /\ Knows(l) /\ l.pc \in {"endSessions", "idle"}
                        /\ ended' = ended \/ ended' = ended \cup procs[p].cut
  <2>1. CASE procs[p].yes
    <3>1. PICK l \in Proc : /\ Become(p, l) /\ l.pc = "endSessions" /\ l.left = {}
                            /\ l.cut = procs[p].cut
                            /\ l.before = procs[p].before /\ l.late = procs[p].late
      BY <1>1, <2>1, GoFields DEF Steps, Revoked
    <3>2. Knows(l)
      BY <1>1, <3>1 DEF Knows, Consenting, Granting, Issuing, Ending, Entering
    <3> QED BY <2>1, <3>1, <3>2 DEF Revoked
  <2>2. CASE ~procs[p].yes
    BY <2>2, LeaveOnward, IdleKnows DEF Revoked
  <2> QED BY <2>1, <2>2
<1>4. /\ procs'[p] = l /\ \A q \in Procs : q # p => procs'[q] = procs[q]
  BY <1>3, Became
<1>5. RegistryInv'
  BY <1>1, <1>2, <1>4, RegistryKept DEF Does
<1>6. /\ sessions' \in [Sessions -> Session \cup {NoRow}] /\ blocked' \in BOOLEAN
      /\ ended' \subseteq Grants /\ \A g \in ended' : g \in ended \/ Cleared(g)
      /\ registry' \in [row : BOOLEAN, snapshot : Snapshots, loading : Snapshots, missed : BOOLEAN]
  BY <1>1, <1>2, <1>3 DEF IInv, TypeOK
<1>7. \A e \in Sessions : SessionPersists(e)
  BY <1>2 DEF SessionPersists
<1> QED
  BY <1>2, <1>3, <1>5, <1>6, <1>7, EndingStep DEF Granting, InBrowser

\* disconnectClient ends the Sessions; the answer to a block may say that it holds.
LEMMA EndSessionsStep ==
  ASSUME IInv, NEW p \in Procs, EndSessions(p)
  PROVE  IInv' /\ Persists
<1>1. /\ procs[p] \in Proc /\ Knows(procs[p]) /\ procs[p].pc = "endSessions"
      /\ procs[p].cut \subseteq Grants /\ \A g \in procs[p].cut : Cleared(g)
  BY KnowsNow DEF EndSessions, Does, Knows, Ending, Proc
<1>2. /\ UNCHANGED <<env, barred, registry, browser, requests, grants, tokens, provider>>
      /\ UNCHANGED <<held, consents, outlived, acted>>
  BY DEF EndSessions, world
<1>3. Become(p, Idle)
  BY LeaveOnward DEF EndSessions
<1>4. procs'[p] = Idle /\ \A q \in Procs : q # p => procs'[q] = procs[q]
  BY <1>3, IdleKnows, Became
<1>5. \A e \in Sessions :
        sessions'[e] = IF e \in Kept(sessions) THEN [sessions[e] EXCEPT !.ended = TRUE] ELSE sessions[e]
  BY DEF EndSessions
<1>6. \A e \in Sessions :
        /\ sessions'[e] \in Session \cup {NoRow}
        /\ e \in Kept(sessions) => /\ sessions[e] \in Session /\ sessions'[e] \in Session
                                   /\ sessions'[e].account = sessions[e].account
  BY <1>5, RowedNow DEF IInv, TypeOK, Rowed, Session
<1>7. sessions' \in [Sessions -> Session \cup {NoRow}]
  BY <1>6 DEF EndSessions
<1>8. \A e \in Sessions : SessionPersists(e)
  BY <1>6, <1>7, RowsApart DEF SessionPersists, Kept
<1>9. RegistryInv'
  <2>1. blocked' = (registry.row /\ \A q \in Procs : ~Does(q, "invalidate"))
    BY DEF EndSessions
  <2>2. \A q \in Procs : Does(q, "invalidate") => Does(q, "invalidate")'
    BY <1>1, <1>4 DEF Does
  <2> QED
    BY <1>2, <2>1, <2>2 DEF IInv, RegistryInv
<1>10. /\ blocked' \in BOOLEAN /\ ended' \subseteq Grants
       /\ \A g \in ended' : g \in ended \/ Cleared(g)
       /\ registry' \in [row : BOOLEAN, snapshot : Snapshots, loading : Snapshots, missed : BOOLEAN]
  BY <1>1, <1>2 DEF IInv, TypeOK, EndSessions
<1> QED
  BY <1>2, <1>3, <1>7, <1>8, <1>9, <1>10, IdleKnows, EndingStep DEF Granting, InBrowser

-----------------------------------------------------------------------------
(* The registry of agents and its snapshot.                                  *)

\* upsert writes the row; the handler that wrote it is about to drop the snapshot.
LEMMA WriteRuleStep ==
  ASSUME IInv, NEW p \in Procs, WriteRule(p)
  PROVE  IInv' /\ Persists
<1>1. procs[p] \in Proc /\ Knows(procs[p]) /\ procs[p].pc = "write" /\ procs[p].yes \in BOOLEAN
  BY KnowsNow DEF WriteRule, Does, Proc
<1>2. /\ UNCHANGED <<env, barred, browser, requests, grants, tokens, sessions, provider>>
      /\ UNCHANGED <<held, consents, ended, outlived, acted>>
  BY DEF WriteRule, tables
<1>3. PICK l \in Proc : /\ Become(p, l) /\ l.pc = "invalidate"
                        /\ l.before = procs[p].before /\ l.late = procs[p].late
  BY GoFields DEF WriteRule, Steps
<1>4. Knows(l)
  BY <1>1, <1>3 DEF Knows, Consenting, Granting, Issuing, Ending, Entering
<1>5. procs'[p] = l /\ \A q \in Procs : q # p => procs'[q] = procs[q]
  BY <1>3, Became
<1>6. /\ registry' \in [row : BOOLEAN, snapshot : Snapshots, loading : Snapshots, missed : BOOLEAN]
      /\ registry'.row = procs[p].yes /\ registry'.snapshot = registry.snapshot
      /\ registry'.loading = registry.loading
      /\ registry'.missed = (registry.missed \/ registry.loading # "none")
  <2>1. registry \in [row : BOOLEAN, snapshot : Snapshots, loading : Snapshots, missed : BOOLEAN]
    BY DEF IInv, TypeOK
  <2>2. PICK missed \in BOOLEAN : missed = (registry.missed \/ registry.loading # "none")
    BY <2>1
  <2>3. registry' = [registry EXCEPT !.row = procs[p].yes, !.missed = missed]
    BY <2>2 DEF WriteRule
  <2> QED
    BY <1>1, <2>1, <2>2, <2>3
<1>7. blocked' = (blocked /\ procs[p].yes) /\ blocked' \in BOOLEAN
  BY DEF WriteRule
<1>8. RegistryInv'
  <2>1. Does(p, "invalidate")'
    BY <1>3, <1>5 DEF Does
  <2>2. RegistryInv
    BY DEF IInv
  <2>3. ~registry'.missed => ~registry.missed /\ registry.loading = "none"
    BY <1>6
  <2> QED
    BY <1>6, <1>7, <2>1, <2>2, <2>3 DEF RegistryInv
<1>9. /\ sessions' \in [Sessions -> Session \cup {NoRow}] /\ \A e \in Sessions : SessionPersists(e)
      /\ ended' \subseteq Grants
  BY <1>2 DEF IInv, TypeOK, SessionPersists
<1> QED
  BY <1>2, <1>3, <1>4, <1>6, <1>7, <1>8, <1>9, EndingStep DEF Granting, InBrowser

\* The snapshot is dropped: the next request loads the rows.
LEMMA InvalidateStep ==
  ASSUME IInv, NEW p \in Procs, Invalidate(p)
  PROVE  IInv' /\ Persists
<1>1. procs[p] \in Proc /\ Knows(procs[p]) /\ procs[p].pc = "invalidate"
  BY KnowsNow DEF Invalidate, Does
<1>2. /\ UNCHANGED <<env, barred, browser, requests, grants, tokens, sessions, provider>>
      /\ UNCHANGED <<held, consents, ended, outlived, blocked, acted>>
  BY DEF Invalidate, tables, history
<1>3. PICK l \in Proc : Become(p, l) /\ Knows(l) /\ l.pc \in {"list", "idle"}
  <2>1. CASE procs[p].yes
    <3>1. PICK l \in Proc : /\ Become(p, l) /\ l.pc = "list"
                            /\ l.before = procs[p].before /\ l.late = procs[p].late
      BY <2>1, GoFields DEF Steps, Invalidate
    <3>2. Knows(l)
      BY <1>1, <3>1 DEF Knows, Consenting, Granting, Issuing, Ending, Entering
    <3> QED BY <3>1, <3>2
  <2>2. CASE ~procs[p].yes
    BY <2>2, LeaveOnward, IdleKnows DEF Invalidate
  <2> QED BY <2>1, <2>2
<1>4. /\ registry' \in [row : BOOLEAN, snapshot : Snapshots, loading : Snapshots, missed : BOOLEAN]
      /\ registry'.row = registry.row /\ registry'.snapshot = "none"
      /\ registry'.loading = registry.loading /\ registry'.missed = registry.missed
  BY DEF IInv, TypeOK, Invalidate, Snapshots
<1>5. RegistryInv'
  BY <1>2, <1>4 DEF IInv, RegistryInv
<1>6. /\ sessions' \in [Sessions -> Session \cup {NoRow}] /\ \A e \in Sessions : SessionPersists(e)
      /\ ended' \subseteq Grants /\ blocked' \in BOOLEAN
  BY <1>2 DEF IInv, TypeOK, SessionPersists
<1> QED
  BY <1>2, <1>3, <1>4, <1>5, <1>6, EndingStep DEF Granting, InBrowser

\* A handler is lost: what it had not written is missed.
LEMMA CrashStep ==
  ASSUME IInv, NEW p \in Procs, Crash(p)
  PROVE  IInv' /\ Persists
<1>1. /\ UNCHANGED <<env, barred, browser, requests, grants, tokens, sessions, provider>>
      /\ UNCHANGED <<held, consents, ended, outlived, blocked, acted>>
  BY DEF Crash, tables, history
<1>2. Become(p, Idle)
  BY LeaveOnward DEF Crash
<1>3. procs'[p] = Idle /\ \A q \in Procs : q # p => procs'[q] = procs[q]
  BY <1>2, IdleKnows, Became
<1>4. /\ registry' \in [row : BOOLEAN, snapshot : Snapshots, loading : Snapshots, missed : BOOLEAN]
      /\ registry'.row = registry.row /\ registry'.snapshot = registry.snapshot
      /\ registry'.loading = registry.loading
      /\ ~registry'.missed => ~registry.missed /\ ~Does(p, "invalidate")
  <2>1. registry \in [row : BOOLEAN, snapshot : Snapshots, loading : Snapshots, missed : BOOLEAN]
    BY DEF IInv, TypeOK
  <2>2. PICK missed \in BOOLEAN : missed = (registry.missed \/ Does(p, "invalidate"))
    BY <2>1
  <2>3. registry' = [registry EXCEPT !.missed = missed]
    BY <2>2 DEF Crash
  <2> QED
    BY <2>1, <2>2, <2>3
<1>5. RegistryInv'
  <2>1. \A q \in Procs : Does(q, "invalidate") /\ q # p => Does(q, "invalidate")'
    BY <1>3 DEF Does
  <2>2. RegistryInv
    BY DEF IInv
  <2> QED
    BY <1>1, <1>4, <2>1, <2>2 DEF RegistryInv
<1>6. /\ sessions' \in [Sessions -> Session \cup {NoRow}] /\ \A e \in Sessions : SessionPersists(e)
      /\ ended' \subseteq Grants /\ blocked' \in BOOLEAN
  BY <1>1 DEF IInv, TypeOK, SessionPersists
<1> QED
  BY <1>1, <1>2, <1>4, <1>5, <1>6, IdleKnows, EndingStep DEF Granting, InBrowser

\* A step of no handler that changes the registry, the tokens or the accounts.
LEMMA QuietStep ==
  ASSUME IInv, UNCHANGED <<env, requests, grants, sessions, provider, procs, browser>>,
         UNCHANGED <<held, consents, ended, outlived, blocked, acted>>,
         tokens' \in [Tokens -> Token \cup {NoRow, Gone}],
         \A t \in Kept(tokens') : t \in Kept(tokens) /\ tokens'[t] = tokens[t],
         barred \subseteq barred', barred' \subseteq Accounts,
         registry' \in [row : BOOLEAN, snapshot : Snapshots, loading : Snapshots, missed : BOOLEAN],
         RegistryInv'
  PROVE  IInv' /\ Persists
<1>1. TypeOK'
  BY DEF IInv, TypeOK
<1>2. Persists
  BY DEF Persists, RowPersists, GrantPersists, SessionPersists, Cleared, BearersOf
<1>3. Apart'
  BY DEF IInv, Apart, Granting, InBrowser
<1>4. OneGrantPerConsent' /\ OriginsInv'
  BY <1>1, <1>2, OriginsKept
<1>5. NotedInv' /\ TokensInv' /\ SessionsInv' /\ EndedInv'
  BY <1>1, <1>2, NotedKept, TokensKept, SessionsKept, EndedKept
<1> QED
  BY <1>1, <1>2, <1>3, <1>4, <1>5, Assemble

\* The snapshot is loaded, installed or lost; a token is dropped; an account disabled.
LEMMA RegistryStep ==
  ASSUME IInv, LoadRows \/ Loaded \/ LoadFails \/ SnapshotLapses
  PROVE  IInv' /\ Persists
<1>1. /\ UNCHANGED <<env, barred, browser, procs, requests, grants, tokens, sessions, provider>>
      /\ UNCHANGED <<held, consents, ended, outlived, blocked, acted>>
  BY DEF LoadRows, Loaded, LoadFails, SnapshotLapses, tables, history
<1>2. /\ RegistryInv
      /\ registry \in [row : BOOLEAN, snapshot : Snapshots, loading : Snapshots, missed : BOOLEAN]
  BY DEF IInv, TypeOK
<1>3. registry' \in [row : BOOLEAN, snapshot : Snapshots, loading : Snapshots, missed : BOOLEAN]
      /\ RegistryInv'
  <2>1. CASE LoadRows
    <3>1. Row(registry.row) \in Snapshots /\ (registry.row => Row(registry.row) # "free")
      BY DEF Row, Snapshots
    <3>2. PICK s \in Snapshots : s = Row(registry.row)
      BY <3>1
    <3>3. registry' = [registry EXCEPT !.loading = s, !.missed = FALSE]
      BY <2>1, <3>2 DEF LoadRows
    <3>4. registry.snapshot = "none"
      BY <2>1 DEF LoadRows
    <3> QED
      BY <1>1, <1>2, <3>1, <3>2, <3>3, <3>4 DEF RegistryInv
  <2>2. CASE Loaded
    BY <1>1, <1>2, <2>2 DEF RegistryInv, Loaded, Snapshots
  <2>3. CASE LoadFails
    <3>1. PICK s \in Snapshots : s = IF registry.snapshot = "none" THEN "free" ELSE registry.snapshot
      BY <1>2 DEF Snapshots
    <3>2. registry' = [registry EXCEPT !.loading = "none", !.missed = TRUE, !.snapshot = s]
      BY <2>3, <3>1 DEF LoadFails
    <3> QED
      BY <1>1, <1>2, <3>2 DEF RegistryInv, Snapshots
  <2>4. CASE SnapshotLapses
    BY <1>1, <1>2, <2>4 DEF RegistryInv, SnapshotLapses, Snapshots
  <2> QED BY <2>1, <2>2, <2>3, <2>4
<1>4. tokens' \in [Tokens -> Token \cup {NoRow, Gone}] /\ barred' \subseteq Accounts
  BY <1>1 DEF IInv, TypeOK
<1> QED
  BY <1>1, <1>3, <1>4, QuietStep

\* The agent gives an access token back.
LEMMA DropStep ==
  ASSUME IInv, NEW t \in Tokens, AgentDropsToken(t)
  PROVE  IInv' /\ Persists
<1>1. /\ UNCHANGED <<env, barred, registry, browser, procs, requests, grants, sessions, provider>>
      /\ UNCHANGED <<held, consents, ended, outlived, blocked, acted>>
      /\ tokens' = [tokens EXCEPT ![t] = Gone]
  BY DEF AgentDropsToken, world, history
<1>2. tokens' \in [Tokens -> Token \cup {NoRow, Gone}]
  BY <1>1 DEF IInv, TypeOK
<1>3. \A u \in Kept(tokens') : u \in Kept(tokens) /\ tokens'[u] = tokens[u]
  BY <1>1 DEF Kept, IInv, TypeOK
<1>4. RegistryInv'
  BY <1>1, RegistryKept DEF Does
<1> QED
  BY <1>1, <1>2, <1>3, <1>4, QuietStep DEF IInv, TypeOK

\* An account is disabled.
LEMMA BarStep ==
  ASSUME IInv, NEW a \in Accounts, Bar(a)
  PROVE  IInv' /\ Persists
<1>1. /\ UNCHANGED <<env, registry, browser, procs, requests, grants, tokens, sessions, provider>>
      /\ UNCHANGED <<held, consents, ended, outlived, blocked, acted>>
      /\ barred' = barred \cup {a}
  BY DEF Bar, tables, history
<1>2. RegistryInv'
  BY <1>1, RegistryKept DEF Does
<1> QED
  BY <1>1, <1>2, QuietStep DEF IInv, TypeOK

-----------------------------------------------------------------------------
(* Access over a Session.                                                    *)

\* A step of a handler that changes Sessions and whom they were used for at most.
LEMMA SessionStep ==
  ASSUME IInv, NEW p \in Procs, NEW l \in Proc, Become(p, l), Knows(l) \/ Knows(l)',
         UNCHANGED <<env, barred, registry, browser, requests, grants, tokens, provider>>,
         UNCHANGED <<held, consents, ended, outlived, blocked>>,
         sessions' \in [Sessions -> Session \cup {NoRow}], \A e \in Sessions : SessionPersists(e),
         acted' \in [Sessions -> SUBSET Accounts],
         acted' = acted \/ SessionsInv',
         ~Granting(l), ~InBrowser(l), ~Does(p, "invalidate")
  PROVE  IInv' /\ Persists
<1>1. /\ procs'[p] = l /\ \A q \in Procs : q # p => procs'[q] = procs[q]
      /\ procs' \in [Procs -> Proc]
  BY Became
<1>2. TypeOK'
  BY <1>1 DEF IInv, TypeOK
<1>3. Persists
  BY DEF Persists, RowPersists, GrantPersists, Cleared, BearersOf
<1>4. Knows(procs[p])'
  <2>1. Knows(l)'
    BY <1>3, KnowsKept DEF IInv
  <2> QED BY <1>1, <2>1, KnowsMoved
<1>5. Onward(p)
  BY <1>1 DEF Onward, Granting, InBrowser
<1>6. Apart' /\ OneGrantPerConsent' /\ OriginsInv'
  BY <1>1, <1>2, <1>3, <1>5, ApartKept, OriginsKept
<1>7. NotedInv' /\ TokensInv' /\ SessionsInv' /\ EndedInv'
  BY <1>2, <1>3, NotedKept, TokensKept, SessionsKept, EndedKept
<1>8. RegistryInv'
  BY <1>1, RegistryKept DEF Does
<1> QED
  BY <1>1, <1>2, <1>3, <1>4, <1>6, <1>7, <1>8, Assemble

\* #sessionFor finds the Session, or starts one.
LEMMA FindSessionStep ==
  ASSUME IInv, NEW p \in Procs, FindSession(p)
  PROVE  IInv' /\ Persists
<1>0. PICK e : e = procs[p].session
  OBVIOUS
<1> DEFINE old == e \in Kept(sessions)
           bound == IF old THEN sessions[e].account ELSE Nobody
<1>1. /\ procs[p] \in Proc /\ Knows(procs[p]) /\ procs[p].pc = "find" /\ e \in Sessions
      /\ procs[p].grant \notin procs[p].before
      /\ IF procs[p].token = NoToken THEN procs[p].grant = NoGrant /\ procs[p].account = Nobody
         ELSE procs[p].account \in Accounts /\ Covers(procs[p].grant, procs[p].account, procs[p].scopes)
      /\ procs[p].join = NoRequest \/ OfKind(procs[p].join, {"browser"})
  BY <1>0, KnowsNow DEF FindSession, Does, Knows, Entering
<1>2. /\ UNCHANGED <<env, barred, registry, browser, requests, grants, tokens, provider>>
      /\ UNCHANGED <<held, consents, ended, outlived, blocked, acted>>
  BY DEF FindSession, world, history
<1>3. PICK r : r = [account |-> Nobody, ended |-> FALSE]
  OBVIOUS
<1>4. r \in Session
  BY <1>3 DEF Session, Accountable
<1>5. sessions' = IF old THEN sessions ELSE [sessions EXCEPT ![e] = r]
  BY <1>0, <1>3 DEF FindSession
<1>6. /\ sessions' \in [Sessions -> Session \cup {NoRow}]
      /\ \A x \in Sessions : x \in Kept(sessions) => sessions'[x] = sessions[x]
      /\ sessions'[e] = IF old THEN sessions[e] ELSE r
  BY <1>1, <1>4, <1>5 DEF IInv, TypeOK
<1>7. (\A x \in Sessions : SessionPersists(x)) /\ e \in Kept(sessions')
  <2>1. Kept(sessions') = {x \in Sessions : sessions'[x] \notin {NoRow, Gone}}
    BY <1>6 DEF Kept
  <2>2. \A x \in Kept(sessions) : sessions[x] \notin {NoRow, Gone}
    BY DEF Kept
  <2> QED
    BY <1>1, <1>4, <1>6, <2>1, <2>2, RowsApart DEF SessionPersists
<1>8. PICK l \in Proc : Become(p, l) /\ Knows(l)' /\ l.pc \in {"idle", "bind", "act"}
  <2>1. Persists
    BY <1>2, <1>7 DEF Persists, RowPersists, GrantPersists, Cleared, BearersOf, FindSession, world
  <2>2. CASE Leave(p)
    <3>1. Knows(Idle)'
      BY <2>1, IdleKnows, KnowsKept DEF IInv
    <3> QED BY <2>2, <3>1, LeaveOnward, IdleKnows
  <2>3. CASE ~Leave(p)
    <3>1. PICK pc \in {"bind", "act"} :
            /\ Go(p, pc)
            /\ pc = "bind" => procs[p].token # NoToken /\ bound = Nobody
            /\ pc = "act" => procs[p].token = NoToken \/ bound = procs[p].account
      BY <1>0, <2>3, AbsenceAssumption DEF FindSession
    <3>2. PICK l \in Proc :
            /\ Become(p, l) /\ l.pc = pc /\ l.account = procs[p].account /\ l.scopes = procs[p].scopes
            /\ l.grant = procs[p].grant /\ l.session = e /\ l.join = procs[p].join
            /\ l.before = procs[p].before /\ l.late = procs[p].late
      BY <1>0, <3>1, GoFields DEF Steps
    <3>3. ~l.late /\ \A g \in l.before : Unusable(g)'
      BY <2>1, <3>2, BeforeKept
    <3>4. Consenting(l)' /\ Issuing(l)' /\ Ending(l)'
      BY <3>1, <3>2 DEF Consenting, Granting, Issuing, Ending
    <3>5. procs[p].token # NoToken => l.account \in Accounts /\ Covers(l.grant, l.account, l.scopes)'
      BY <1>1, <1>2, <3>2 DEF Covers
    <3>6. pc = "act" => Within(l.session, l.account, l.grant, l.scopes)'
      <4>1. CASE procs[p].token = NoToken
        BY <1>1, <1>7, <3>2, <4>1 DEF Within
      <4>2. CASE procs[p].token # NoToken
        <5>1. l.grant # NoGrant
          BY <3>5, <4>2, RowedNow, AbsenceAssumption, <1>1, <3>2 DEF Covers, IInv, Rowed
        <5>2. pc = "act" => sessions'[e].account = l.account
          BY <1>1, <1>6, <3>1, <3>2, <4>2, AbsenceAssumption
        <5> QED BY <1>7, <3>2, <3>5, <4>2, <5>1, <5>2 DEF Within
      <4> QED BY <4>1, <4>2
    <3>7. l.join = NoRequest \/ OfKind(l.join, {"browser"})'
      BY <1>1, <1>2, <3>2 DEF OfKind
    <3>8. Entering(l)'
      BY <1>1, <1>7, <3>1, <3>2, <3>5, <3>6, <3>7 DEF Entering
    <3>9. Knows(l)'
      BY <3>3, <3>4, <3>8 DEF Knows
    <3> QED BY <3>1, <3>2, <3>9
  <2> QED BY <2>2, <2>3
<1>9. acted' \in [Sessions -> SUBSET Accounts]
  BY <1>2 DEF IInv, TypeOK
<1> QED
  BY <1>1, <1>2, <1>6, <1>7, <1>8, <1>9, SessionStep DEF Granting, InBrowser, Does

\* bindSessionAccount binds a Session that is bound to nobody.
LEMMA BindStep ==
  ASSUME IInv, NEW p \in Procs, Bind(p)
  PROVE  IInv' /\ Persists
<1>0. PICK e : e = procs[p].session
  OBVIOUS
<1>1. /\ procs[p] \in Proc /\ Knows(procs[p]) /\ procs[p].pc = "bind"
      /\ e \in Kept(sessions) /\ procs[p].account \in Accounts
      /\ procs[p].grant \notin procs[p].before
      /\ Covers(procs[p].grant, procs[p].account, procs[p].scopes)
      /\ procs[p].join = NoRequest \/ OfKind(procs[p].join, {"browser"})
  BY <1>0, KnowsNow DEF Bind, Does, Knows, Entering
<1>2. /\ UNCHANGED <<env, barred, registry, browser, requests, grants, tokens, provider>>
      /\ UNCHANGED <<held, consents, ended, outlived, blocked, acted>>
  BY DEF Bind, world, history
<1>3. acted' \in [Sessions -> SUBSET Accounts] /\ e \in Sessions /\ sessions[e] \in Session
  BY <1>1, <1>2, RowedNow DEF IInv, TypeOK, Rowed
<1>4. CASE sessions[e].account \notin {Nobody, procs[p].account}
  <2>1. sessions' = sessions /\ Leave(p)
    BY <1>0, <1>4 DEF Bind
  <2>2. sessions' \in [Sessions -> Session \cup {NoRow}] /\ \A x \in Sessions : SessionPersists(x)
    BY <2>1 DEF IInv, TypeOK, SessionPersists
  <2> QED
    BY <1>1, <1>2, <1>3, <2>1, <2>2, LeaveOnward, IdleKnows, SessionStep
    DEF Granting, InBrowser, Does
<1>5. CASE sessions[e].account \in {Nobody, procs[p].account}
  <2>1. PICK r : r = [sessions[e] EXCEPT !.account = procs[p].account]
    OBVIOUS
  <2>2. r \in Session /\ r.account = procs[p].account
    BY <1>1, <1>3, <2>1 DEF Session, Accountable
  <2>3. sessions' = [sessions EXCEPT ![e] = r] /\ Go(p, "act")
    BY <1>0, <1>5, <2>1 DEF Bind
  <2>4. /\ sessions' \in [Sessions -> Session \cup {NoRow}] /\ sessions'[e] = r
        /\ \A x \in Sessions : x # e => sessions'[x] = sessions[x]
    BY <1>3, <2>2, <2>3 DEF IInv, TypeOK
  <2>5. (\A x \in Sessions : SessionPersists(x)) /\ e \in Kept(sessions')
    <3>1. Kept(sessions') = {x \in Sessions : sessions'[x] \notin {NoRow, Gone}}
      BY <2>4 DEF Kept
    <3>2. \A x \in Kept(sessions) : sessions[x] \notin {NoRow, Gone}
      BY DEF Kept
    <3> QED
      BY <1>3, <1>5, <2>2, <2>4, <3>1, <3>2, RowsApart DEF SessionPersists
  <2>6. PICK l \in Proc :
          /\ Become(p, l) /\ l.pc = "act" /\ l.account = procs[p].account
          /\ l.scopes = procs[p].scopes /\ l.grant = procs[p].grant /\ l.session = e
          /\ l.join = procs[p].join /\ l.before = procs[p].before /\ l.late = procs[p].late
    BY <1>0, <2>3, GoFields DEF Steps
  <2>7. Persists
    BY <1>2, <2>5 DEF Persists, RowPersists, GrantPersists, Cleared, BearersOf, Bind, world
  <2>8. ~l.late /\ \A g \in l.before : Unusable(g)'
    BY <2>6, <2>7, BeforeKept
  <2>9. Within(l.session, l.account, l.grant, l.scopes)'
    <3>1. l.grant # NoGrant
      BY <1>1, <2>6, RowedNow, AbsenceAssumption DEF Covers, IInv, Rowed
    <3> QED
      BY <1>1, <1>2, <2>2, <2>4, <2>5, <2>6, <3>1 DEF Within, Covers
  <2>10. Entering(l)'
    BY <1>1, <1>2, <2>6, <2>9 DEF Entering, OfKind
  <2>11. Consenting(l)' /\ Issuing(l)' /\ Ending(l)'
    BY <2>6 DEF Consenting, Granting, Issuing, Ending
  <2>12. Knows(l)'
    BY <2>8, <2>10, <2>11 DEF Knows
  <2> QED
    BY <1>1, <1>2, <1>3, <2>4, <2>5, <2>6, <2>12, SessionStep DEF Granting, InBrowser, Does
<1> QED BY <1>4, <1>5

\* The request is let through, for the account of the Session.
LEMMA ActStep ==
  ASSUME IInv, NEW p \in Procs, Act(p)
  PROVE  IInv' /\ Persists
<1>0. PICK e, i : e = procs[p].session /\ i = procs[p].join
  OBVIOUS
<1>1. /\ procs[p] \in Proc /\ Knows(procs[p]) /\ procs[p].pc = "act"
      /\ procs[p].grant \notin procs[p].before
      /\ Within(e, procs[p].account, procs[p].grant, procs[p].scopes)
      /\ i = NoRequest \/ OfKind(i, {"browser"})
  BY <1>0, KnowsNow DEF Act, Does, Knows, Entering
<1>2. /\ UNCHANGED <<env, barred, registry, browser, requests, grants, tokens, sessions, provider>>
      /\ UNCHANGED <<held, consents, ended, outlived, blocked>>
  BY DEF Act, world, tables
<1>3. e \in Sessions /\ e \in Kept(sessions)
  BY <1>1, RowedNow DEF Within, IInv, Rowed
<1>4. acted' = [acted EXCEPT ![e] = @ \cup ({procs[p].account} \cap Accounts)]
  BY <1>0 DEF Act
<1>5. acted' \in [Sessions -> SUBSET Accounts]
  BY <1>3, <1>4 DEF IInv, TypeOK
<1>6. SessionsInv'
  <2>1. acted'[e] = acted[e] \cup ({procs[p].account} \cap Accounts)
        /\ \A x \in Sessions : x # e => acted'[x] = acted[x]
    BY <1>3, <1>4 DEF IInv, TypeOK
  <2>2. procs[p].account \in Accounts => sessions[e].account = procs[p].account
    BY <1>1, AbsenceAssumption DEF Within
  <2>3. acted[e] # {} => acted[e] = {sessions[e].account}
    BY <1>3 DEF IInv, SessionsInv
  <2>4. acted'[e] # {} => acted'[e] = {sessions[e].account}
    BY <2>1, <2>2, <2>3
  <2>5. SessionsInv
    BY DEF IInv
  <2> QED
    BY <1>2, <1>3, <2>1, <2>4, <2>5 DEF SessionsInv, Within, Covers
<1>7. PICK l \in Proc : Become(p, l) /\ Knows(l) /\ l.pc \in {"idle", "join"}
  <2>1. CASE Leave(p)
    BY <2>1, LeaveOnward, IdleKnows
  <2>2. CASE ~Leave(p)
    <3>1. i # NoRequest /\ Go(p, "join")
      BY <1>0, <2>2 DEF Act
    <3>2. PICK l \in Proc :
          /\ Become(p, l) /\ l.pc = "join" /\ l.account = procs[p].account
          /\ l.scopes = procs[p].scopes /\ l.grant = procs[p].grant /\ l.session = e
          /\ l.join = i /\ l.before = procs[p].before /\ l.late = procs[p].late
      BY <1>0, <3>1, GoFields DEF Steps
    <3>3. Knows(l)
      BY <1>1, <3>1, <3>2 DEF Knows, Consenting, Granting, Issuing, Ending, Entering
    <3> QED BY <3>2, <3>3
  <2> QED BY <2>1, <2>2
<1>8. sessions' \in [Sessions -> Session \cup {NoRow}] /\ \A x \in Sessions : SessionPersists(x)
  BY <1>2 DEF IInv, TypeOK, SessionPersists
<1> QED
  BY <1>1, <1>2, <1>5, <1>6, <1>7, <1>8, SessionStep DEF Granting, InBrowser, Does

-----------------------------------------------------------------------------
(* The browser that joined a Session.                                        *)

\* A step that changes the browser, and a handler at most.
LEMMA BrowserStep ==
  ASSUME IInv, UNCHANGED <<env, barred, registry, requests, grants, tokens, sessions, provider>>,
         UNCHANGED <<held, consents, ended, outlived, blocked, acted>>,
         procs' \in [Procs -> Proc], browser' \in Browser,
         \A q \in Procs : \/ procs'[q] = procs[q] /\ (InBrowser(procs[q]) => browser' = browser)
                          \/ Knows(procs[q])' /\ Onward(q),
         \A q \in Procs : Does(q, "invalidate") => Does(q, "invalidate")',
         Apart', SessionsInv'
  PROVE  IInv' /\ Persists
<1>1. TypeOK'
  BY DEF IInv, TypeOK
<1>2. Persists
  BY DEF Persists, RowPersists, GrantPersists, SessionPersists, Cleared, BearersOf
<1>3. OneGrantPerConsent' /\ OriginsInv'
  BY <1>1, <1>2, OriginsKept
<1>4. NotedInv' /\ TokensInv' /\ EndedInv' /\ RegistryInv'
  BY <1>1, <1>2, NotedKept, TokensKept, EndedKept, RegistryKept
<1> QED
  BY <1>1, <1>2, <1>3, <1>4, Assemble

\* Whoever acts over a Session that is kept acts over a Session.
LEMMA WithinFields ==
  ASSUME IInv, NEW e, NEW a, NEW g, NEW S, Within(e, a, g, S)
  PROVE  /\ e \in Sessions /\ e # NoSession /\ a \in Accountable
         /\ g \in Grants \cup {NoGrant} /\ (g = NoGrant <=> a = Nobody)
BY RowedNow, AbsenceAssumption DEF Within, Covers, IInv, Rowed, Accountable

\* loginPoppyBrowser marks the browser with what the join was approved for.
LEMMA EnterStep ==
  ASSUME IInv, NEW p \in Procs, Enter(p)
  PROVE  IInv' /\ Persists
<1>0. PICK e, g, a : /\ e = procs[p].session /\ g = procs[p].grant
                     /\ a = IF g = NoGrant THEN Nobody ELSE procs[p].account
  OBVIOUS
<1>1. /\ procs[p] \in Proc /\ procs[p].pc = "enter"
      /\ Within(e, procs[p].account, g, procs[p].scopes)
  BY <1>0, KnowsNow DEF Enter, Does, Knows, Entering
<1>2. /\ UNCHANGED <<env, barred, registry, requests, grants, tokens, sessions, provider>>
      /\ UNCHANGED <<held, consents, ended, outlived, blocked, acted>>
  BY DEF Enter, tables, history
<1>3. /\ procs'[p] = Idle /\ \A q \in Procs : q # p => procs'[q] = procs[q]
      /\ procs' \in [Procs -> Proc] /\ Onward(p)
  BY LeaveOnward, IdleKnows, Became DEF Enter
<1>4. /\ e \in Sessions /\ e # NoSession /\ a \in Accountable /\ g \in Grants \cup {NoGrant}
  BY <1>0, <1>1, WithinFields DEF Accountable
<1>5. browser' \in Browser /\ SessionsInv'
  <2>1. SessionsInv /\ browser \in Browser
    BY DEF IInv, TypeOK
  <2>2. CASE browser' = browser
    BY <1>2, <2>1, <2>2 DEF SessionsInv, Within, Covers
  <2>3. CASE browser' # browser
    <3>1. PICK S, o : /\ S = IF g = NoGrant THEN {} ELSE procs[p].scopes
                      /\ o = IF a # Nobody THEN a
                             ELSE IF browser.account # Nobody THEN Nobody ELSE browser.login
      OBVIOUS
    <3>2. S \in SUBSET Scopes /\ o \in Accountable
      BY <1>1, <1>4, <2>1, <3>1 DEF Proc, Browser, Accountable
    <3>3. browser' = [session |-> e, account |-> a, grant |-> g, scopes |-> S, login |-> o]
      BY <1>0, <2>3, <3>1 DEF Enter
    <3>4. browser' \in Browser
      BY <1>4, <3>2, <3>3 DEF Browser
    <3>5. Within(e, a, g, S)'
      BY <1>0, <1>1, <1>2, <3>1 DEF Within, Covers
    <3>6. SessionsInv'
      BY <1>2, <1>4, <2>1, <3>3, <3>5 DEF SessionsInv, Within, Covers
    <3> QED BY <3>4, <3>6
  <2> QED BY <2>2, <2>3
<1>6. Knows(procs[p])'
  <2>1. Persists
    BY <1>2 DEF Persists, RowPersists, GrantPersists, SessionPersists, Cleared, BearersOf
  <2>2. Knows(Idle)'
    BY <2>1, IdleKnows, KnowsKept DEF IInv
  <2> QED BY <1>3, <2>2, KnowsMoved
<1>7. \A q \in Procs : q # p => ~InBrowser(procs[q])
  BY <1>1 DEF InBrowser, IInv, Apart
<1>8. Apart'
  BY <1>3, ApartKept
<1>9. \A q \in Procs : Does(q, "invalidate") => Does(q, "invalidate")'
  BY <1>1, <1>3 DEF Does
<1> QED
  BY <1>2, <1>3, <1>5, <1>6, <1>7, <1>8, <1>9, BrowserStep

\* The browser logs in to an account of its own, which no marker is about.
LEMMA OwnLoginStep ==
  ASSUME IInv, NEW a \in Accounts, OwnLogin(a)
  PROVE  IInv' /\ Persists
<1>1. /\ UNCHANGED <<env, barred, registry, procs, requests, grants, tokens, sessions, provider>>
      /\ UNCHANGED <<held, consents, ended, outlived, blocked, acted>>
      /\ browser' = [browser EXCEPT !.login = a]
  BY DEF OwnLogin, tables, history
<1>2. /\ browser' \in Browser /\ browser'.session = browser.session /\ browser'.grant = browser.grant
      /\ browser'.account = browser.account /\ browser'.scopes = browser.scopes
  BY <1>1 DEF IInv, TypeOK, Browser, Accountable
<1>3. SessionsInv'
  <2>1. SessionsInv
    BY DEF IInv
  <2> QED
    BY <1>1, <1>2, <2>1 DEF SessionsInv, Within, Covers
<1>4. \A q \in Procs : ~InBrowser(procs[q])
  BY DEF OwnLogin, BrowserIsFree, InBrowser, Does
<1>5. Apart'
  BY <1>1 DEF IInv, Apart, Granting, InBrowser
<1>6. procs' \in [Procs -> Proc] /\ \A q \in Procs : Does(q, "invalidate") => Does(q, "invalidate")'
  BY <1>1 DEF IInv, TypeOK, Does
<1> QED
  BY <1>1, <1>2, <1>3, <1>4, <1>5, <1>6, BrowserStep

\* The marker of an ended Session is cleared; the session of another is read.
LEMMA BrowseStep ==
  ASSUME IInv, NEW p \in Procs, Browse(p)
  PROVE  IInv' /\ Persists
<1>1. browser.session # NoSession /\ BrowserIsFree /\ browser \in Browser
  BY DEF Browse, IInv, TypeOK
<1>2. CASE sessions[browser.session].ended
  <2>1. PICK o : o = IF browser.account # Nobody THEN Nobody ELSE browser.login
    OBVIOUS
  <2>2. /\ UNCHANGED <<env, barred, registry, procs, requests, grants, tokens, sessions, provider>>
        /\ UNCHANGED <<held, consents, ended, outlived, blocked, acted>>
        /\ browser' = [NoMarker EXCEPT !.login = o]
    BY <1>2, <2>1 DEF Browse, tables, history
  <2>3. o \in Accountable
    BY <1>1, <2>1 DEF Browser, Accountable
  <2>4. /\ browser' \in Browser /\ browser'.session = NoSession /\ browser'.grant = NoGrant
        /\ browser'.account = Nobody
    BY <2>2, <2>3 DEF NoMarker, Browser, Accountable
  <2>5. SessionsInv'
    BY <2>2, <2>4 DEF IInv, SessionsInv
  <2>6. \A q \in Procs : ~InBrowser(procs[q])
    BY <1>1 DEF BrowserIsFree, InBrowser, Does
  <2>7. Apart'
    BY <2>2 DEF IInv, Apart, Granting, InBrowser
  <2>8. procs' \in [Procs -> Proc] /\ \A q \in Procs : Does(q, "invalidate") => Does(q, "invalidate")'
    BY <2>2 DEF IInv, TypeOK, Does
  <2> QED
    BY <2>2, <2>4, <2>5, <2>6, <2>7, <2>8, BrowserStep
<1>3. CASE ~sessions[browser.session].ended
  <2>1. PICK f : f = [Idle EXCEPT !.pc = "browse", !.session = browser.session, !.grant = browser.grant]
    OBVIOUS
  <2>2. f \in Proc /\ f.pc = "browse" /\ f.session = browser.session /\ f.grant = browser.grant
        /\ f.join = NoRequest /\ ~f.late
    <3>1. f \in Proc
      BY <1>1, <2>1, IdleKnows DEF Proc, Steps, Browser
    <3> QED
      BY <2>1, <3>1 DEF Idle
  <2>3. Begin(p, f) /\ UNCHANGED <<world, tables, provider, history>>
    BY <1>3, <2>1 DEF Browse, world
  <2>4. \A l \in Proc : l = [f EXCEPT !.before = l.before] => Issuing(l) /\ Entering(l)
    BY <1>1, <2>2, SameFields DEF Issuing, Entering
  <2>5. Beginner(f)
    BY <1>1, <2>2, <2>4 DEF Beginner, Granting, Consenting, Ending, InBrowser
  <2> QED
    BY <2>3, <2>5, BeginStep
<1> QED BY <1>2, <1>3

\* The grant of the marker is asked for: without it the browser acts for nobody.
LEMMA BrowseGrantStep ==
  ASSUME IInv, NEW p \in Procs, BrowseGrant(p)
  PROVE  IInv' /\ Persists
<1>0. PICK e, g : e = browser.session /\ g = browser.grant
  OBVIOUS
<1>1. /\ procs[p] \in Proc /\ Knows(procs[p]) /\ procs[p].pc = "browse" /\ e # NoSession
      /\ procs[p].session = e /\ procs[p].grant = g /\ procs[p].join = NoRequest
  BY <1>0, KnowsNow DEF BrowseGrant, Does, Knows, Entering
<1>2. browser \in Browser /\ Within(e, browser.account, g, browser.scopes)
  BY <1>0, <1>1 DEF IInv, TypeOK, SessionsInv
<1>3. /\ UNCHANGED <<env, barred, registry, requests, grants, tokens, sessions, provider>>
      /\ UNCHANGED <<held, consents, ended, outlived, blocked, acted>>
  BY DEF BrowseGrant, tables, history
<1>4. PICK yes \in BOOLEAN : yes = (g # NoGrant /\ Usable(g))
  OBVIOUS
<1>5. PICK h, a, S : /\ h = (IF yes THEN g ELSE NoGrant) /\ a = (IF yes THEN browser.account ELSE Nobody)
                     /\ S = (IF yes THEN browser.scopes ELSE {})
  OBVIOUS
<1>6. PICK l : l = [procs[p] EXCEPT !.pc = "act", !.grant = h, !.account = a, !.scopes = S]
  OBVIOUS
<1>7. Become(p, l)
  BY <1>1, <1>4, <1>5, <1>6 DEF BrowseGrant
<1>8. h \in Grants \cup {NoGrant} /\ a \in Accountable /\ S \in SUBSET Scopes /\ Within(e, a, h, S)
  BY <1>2, <1>5, WithinFields DEF Within, Accountable, Browser
<1>9. /\ l \in Proc /\ l.pc = "act" /\ l.grant = h /\ l.account = a /\ l.scopes = S
      /\ l.session = e /\ l.join = NoRequest
      /\ l.before = procs[p].before /\ l.late = procs[p].late
  BY <1>1, <1>6, <1>8 DEF Proc, Steps
<1>10. /\ procs'[p] = l /\ \A q \in Procs : q # p => procs'[q] = procs[q]
       /\ procs' \in [Procs -> Proc]
  BY <1>7, <1>9, Became
<1>11. Persists
  BY <1>3 DEF Persists, RowPersists, GrantPersists, SessionPersists, Cleared, BearersOf
<1>12. Knows(procs[p])'
  <2>1. ~l.late /\ \A k \in l.before : Unusable(k)'
    BY <1>9, <1>11, BeforeKept
  <2>2. h \notin l.before
    <3>1. \A k \in procs[p].before : k \in Grants /\ ~Usable(k)
      BY <1>1, RowedNow DEF Knows, Unusable, IInv, Rowed
    <3> QED
      BY <1>4, <1>5, <1>9, <3>1, AbsenceAssumption
  <2>3. Within(e, a, h, S)'
    BY <1>3, <1>8 DEF Within, Covers
  <2>4. Entering(l)'
    BY <1>9, <2>2, <2>3 DEF Entering
  <2>5. Consenting(l)' /\ Issuing(l)' /\ Ending(l)'
    BY <1>9 DEF Consenting, Granting, Issuing, Ending
  <2>6. Knows(l)'
    BY <2>1, <2>4, <2>5 DEF Knows
  <2> QED BY <1>10, <2>6, KnowsMoved
<1>13. Onward(p)
  BY <1>9, <1>10 DEF Onward, Granting, InBrowser
<1>14. Apart'
  BY <1>10, <1>13, ApartKept
<1>15. browser' \in Browser /\ SessionsInv'
  <2>1. SessionsInv
    BY DEF IInv
  <2>2. CASE yes
    <3>1. browser' = [browser EXCEPT !.login = browser.account]
      BY <1>1, <1>4, <2>2 DEF BrowseGrant
    <3>2. /\ browser' \in Browser /\ browser'.session = e /\ browser'.grant = g
          /\ browser'.account = browser.account /\ browser'.scopes = browser.scopes
      BY <1>0, <1>2, <3>1 DEF Browser
    <3> QED
      BY <1>1, <1>2, <1>3, <2>1, <3>2 DEF SessionsInv, Within, Covers
  <2>3. CASE ~yes /\ browser.account = Nobody
    <3>1. browser' = browser
      BY <1>1, <1>4, <2>3 DEF BrowseGrant
    <3> QED
      BY <1>2, <1>3, <2>1, <3>1 DEF SessionsInv, Within, Covers
  <2>4. CASE ~yes /\ browser.account # Nobody
    <3>1. browser' = [NoMarker EXCEPT !.session = e]
      BY <1>0, <1>1, <1>4, <2>4 DEF BrowseGrant
    <3>2. /\ browser' \in Browser /\ browser'.session = e /\ browser'.grant = NoGrant
          /\ browser'.account = Nobody
      BY <1>0, <1>2, <3>1 DEF NoMarker, Browser, Accountable
    <3> QED
      BY <1>1, <1>2, <1>3, <2>1, <3>2 DEF SessionsInv, Within
  <2> QED BY <1>4, <2>2, <2>3, <2>4
<1>16. \A q \in Procs : q # p => ~InBrowser(procs[q])
  BY <1>1 DEF InBrowser, IInv, Apart
<1>17. \A q \in Procs : Does(q, "invalidate") => Does(q, "invalidate")'
  BY <1>1, <1>10 DEF Does
<1> QED
  BY <1>3, <1>10, <1>12, <1>13, <1>14, <1>15, <1>16, <1>17, BrowserStep

-----------------------------------------------------------------------------
(* The invariant, and what follows from it.                                  *)

\* The inductive invariant holds at first.
LEMMA InitIInv == Init => IInv
<1> SUFFICES ASSUME Init PROVE IInv
  OBVIOUS
<1>1. /\ \A p \in Procs : procs[p] = Idle
      /\ Kept(grants) = {} /\ Kept(tokens) = {} /\ Kept(sessions) = {}
      /\ \A i \in Requests : requests[i] = NoRow
  BY DEF Init, Kept
<1>2. TypeOK
  <2>1. /\ NoMarker \in Browser
        /\ [row |-> FALSE, snapshot |-> "free", loading |-> "none", missed |-> FALSE]
             \in [row : BOOLEAN, snapshot : Snapshots, loading : Snapshots, missed : BOOLEAN]
    BY DEF NoMarker, Browser, Accountable, Snapshots
  <2> QED
    BY <2>1, IdleKnows DEF Init, TypeOK
<1>3. HandlersKnow /\ Apart
  BY <1>1, IdleKnows DEF HandlersKnow, Apart, Idle, Granting, InBrowser
<1>4. RowsInv
  BY <1>1, RowsApart DEF Init, RowsInv, RowInv
<1>5. OneGrantPerConsent /\ OriginsInv /\ TokensInv
  BY <1>1 DEF OneGrantPerConsent, OriginsInv, TokensInv
<1>6. NotedInv /\ EndedInv
  BY DEF Init, NotedInv, EndedInv
<1>7. SessionsInv
  BY DEF Init, SessionsInv, NoMarker
<1>8. RegistryInv
  BY DEF Init, RegistryInv
<1> QED BY <1>2, <1>3, <1>4, <1>5, <1>6, <1>7, <1>8 DEF IInv

\* A step that changes nothing.
LEMMA StutterIInv ==
  ASSUME IInv, UNCHANGED vars
  PROVE  IInv' /\ Persists
<1>1. /\ UNCHANGED <<env, barred, registry, browser, procs, requests, grants, tokens, sessions, provider>>
      /\ UNCHANGED <<held, consents, ended, outlived, blocked, acted>>
  BY DEF vars, tables, history
<1>2. RegistryInv'
  BY <1>1, RegistryKept DEF Does
<1> QED
  BY <1>1, <1>2, QuietStep DEF IInv, TypeOK

\* Every step keeps the inductive invariant, and what persists.
LEMMA NextIInv == IInv /\ [Next]_vars => IInv' /\ Persists
<1> SUFFICES ASSUME IInv, [Next]_vars PROVE IInv' /\ Persists
  OBVIOUS
<1>1. CASE Asked
  BY <1>1, AskedStep
<1>2. CASE Around
  BY <1>2, DropStep, RegistryStep, LapseStep, BarStep, OwnLoginStep DEF Around
<1>3. ASSUME NEW p \in Procs, Decided(p) PROVE IInv' /\ Persists
  BY <1>3, DecideStep, DecideWriteStep DEF Decided
<1>4. ASSUME NEW p \in Procs, SignedIn(p) PROVE IInv' /\ Persists
  <2>1. Bearers \subseteq BOOLEAN
    BY DEF Bearers
  <2>2. CASE \E i \in Requests, want \in SUBSET Scopes, bearer \in Bearers :
               AuthorizationCode(p, i, want, bearer) \/ DeviceCode(p, i, want, bearer)
    BY <2>1, <2>2, RedeemStep
  <2>3. CASE \/ \E i \in Requests : Reuse(p, i)
             \/ \E a \in Accounts, S \in SUBSET Scopes : MediatedComplete(p, a, S)
             \/ \E i \in Requests, right \in BOOLEAN : MediatedCode(p, i, right)
    BY <2>3, ReuseStep, MediatedCompleteStep, MediatedCodeStep
  <2>4. CASE Consume(p) \/ GuessWrong(p) \/ GuessRight(p) \/ SignIn(p) \/ InsertGrant(p)
    BY <2>4, ConsumeStep, GuessWrongStep, GuessRightStep, SignInStep, InsertGrantStep
  <2>5. CASE \E g \in Grants, want \in SUBSET Scopes, bearer \in Bearers : Refresh(p, g, want, bearer)
    BY <2>1, <2>5, RefreshStep
  <2>6. CASE Issue(p) \/ StoreToken(p) \/ Note(p)
    BY <2>6, IssueStep, StoreTokenStep, NoteStep
  <2> QED BY <1>4, <2>2, <2>3, <2>4, <2>5, <2>6 DEF SignedIn
<1>5. ASSUME NEW p \in Procs, CutOff(p) PROVE IInv' /\ Persists
  BY <1>5, DisconnectStep, RevokeBearersStep, RevokedStep, ListStep, EndSessionsStep, RevokeRowStep,
     RuleStep, WriteRuleStep, InvalidateStep DEF CutOff
<1>6. ASSUME NEW p \in Procs, LetThrough(p) PROVE IInv' /\ Persists
  BY <1>6, AccessStep, FindSessionStep, BindStep, ActStep, AuthorizeJoinStep, CompleteJoinStep,
     UseJoinStep, EnterStep, BrowseStep, BrowseGrantStep DEF LetThrough
<1>7. ASSUME NEW p \in Procs, Crash(p) PROVE IInv' /\ Persists
  BY <1>7, CrashStep
<1>8. CASE UNCHANGED vars
  BY <1>8, StutterIInv
<1> QED BY <1>1, <1>2, <1>3, <1>4, <1>5, <1>6, <1>7, <1>8 DEF Next

\* Every reachable state satisfies the inductive invariant.
THEOREM InductiveInvariant == Spec => []IInv
<1>1. IInv /\ [Next]_vars => IInv'
  BY NextIInv
<1> QED BY <1>1, InitIInv, PTL DEF Spec

\* Every variable has its type: rows, handlers, marker and histories keep their
\* shape through every handler of the sign-in service.
THEOREM TypeCorrect == Spec => []TypeOK
<1>1. IInv => TypeOK
  BY DEF IInv
<1> QED BY <1>1, InductiveInvariant, PTL

\* What no handler undoes: a row that is used stays used and keeps its kind, a
\* consent stays what it was, a grant keeps its account, scopes and origin and is
\* never usable again once it is revoked or its account disabled, a Session that
\* is bound keeps its account, and a revoked grant that left no bearer gets none
\* but those minted after its end began.
THEOREM NothingReturns == Spec => [][Persists]_vars
<1>1. IInv /\ [Next]_vars => Persists
  BY NextIInv
<1> QED BY <1>1, InductiveInvariant, PTL DEF Spec

\* The inductive invariant implies ActsAsConsented.
LEMMA ConsentedFollows == IInv => ActsAsConsented
<1> SUFFICES ASSUME IInv PROVE ActsAsConsented
  OBVIOUS
<1>1. OneGrantPerConsent
  BY DEF IInv
<1>2. GrantWithinConsent
  <2> SUFFICES ASSUME NEW g \in Kept(grants), grants[g].origin # NoRequest
               PROVE  /\ Cardinality(consents[grants[g].origin]) = 1
                      /\ \A c \in consents[grants[g].origin] :
                           grants[g].account = c.account /\ grants[g].scopes = c.scopes
    BY DEF GrantWithinConsent
  <2>1. PICK c : c = [account |-> grants[g].account, scopes |-> grants[g].scopes]
    OBVIOUS
  <2>2. consents[grants[g].origin] = {c}
    BY <2>1 DEF IInv, OriginsInv, OriginInv, ConsentedTo
  <2>3. Cardinality({c}) = 1
    BY FS_Singleton
  <2> QED BY <2>1, <2>2, <2>3
<1>3. ActsWithinGrant
  <2> SUFFICES ASSUME NEW p \in Procs, Acting(p)
               PROVE  /\ procs[p].account = grants[procs[p].grant].account
                      /\ procs[p].scopes \subseteq grants[procs[p].grant].scopes
    BY DEF ActsWithinGrant
  <2>1. Within(procs[p].session, procs[p].account, procs[p].grant, procs[p].scopes)
    BY KnowsNow DEF Acting, Does, Knows, Entering
  <2> QED
    BY <2>1 DEF Acting, Within, Covers
<1>4. OneAccountPerSession
  <2> SUFFICES ASSUME NEW e \in Sessions PROVE Cardinality(acted[e]) <= 1
    BY DEF OneAccountPerSession
  <2>1. CASE acted[e] = {}
    BY <2>1, FS_EmptySet
  <2>2. CASE acted[e] # {}
    <3>1. acted[e] = {sessions[e].account}
      BY <2>2 DEF IInv, SessionsInv
    <3>2. Cardinality({sessions[e].account}) = 1
      BY FS_Singleton
    <3> QED BY <3>1, <3>2
  <2> QED BY <2>1, <2>2
<1> QED BY <1>1, <1>2, <1>3, <1>4 DEF ActsAsConsented

\* A consent leads to one grant at most, of its account and for its scopes;
\* whoever is let through acts within a grant; a Session serves one account
\* (transitionRequest, bindSessionAccount, #narrow).
THEOREM ActsAsConsentedHolds == Spec => []ActsAsConsented
BY InductiveInvariant, ConsentedFollows, PTL

\* The inductive invariant implies EndedStaysOut.
LEMMA EndedFollows == IInv => EndedStaysOut
<1> SUFFICES ASSUME IInv PROVE EndedStaysOut
  OBVIOUS
<1>1. EndedIsRefused
  BY KnowsNow DEF EndedIsRefused, Acting, Does, Knows, Entering
<1>2. BearersEnd
  BY DEF BearersEnd, IInv, EndedInv, Cleared, BearersOf
<1>3. BlockHolds
  BY KnowsNow DEF BlockHolds, Knows
<1> QED BY <1>1, <1>2, <1>3 DEF EndedStaysOut

\* What an answer said has ended, a disabled account and a blocked agent are not
\* let through again, with the exceptions EndedStaysOut names, and a grant that an
\* answer ended keeps no bearer minted before its row was revoked (revokeGrant,
\* #grantUsable, disconnectClient, registry_store.ts).
THEOREM EndedStaysOutHolds == Spec => []EndedStaysOut
BY InductiveInvariant, EndedFollows, PTL
================================================================================
