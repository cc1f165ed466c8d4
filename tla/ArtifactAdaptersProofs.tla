----------------------- MODULE ArtifactAdaptersProofs -----------------------
(***************************************************************************)
(* TLAPS proofs about ArtifactAdapters, for every value of its constants:  *)
(* type correctness, AliasLeadsToEntry, RenewalIsHonest, RevocationComplete *)
(* and the refinement of ArtifactContract.                                 *)
(*                                                                         *)
(* The argument has two parts.  What is stored carries an expiry that the  *)
(* keys beside it outlive (Aliased, Listed).  And a call on Redis that is  *)
(* alone finds, at its second access, what it read at its first (Alone,    *)
(* Kept); the comparison of a renewal and the conditional UPDATE need no   *)
(* such thing.                                                             *)
(***************************************************************************)
EXTENDS ArtifactAdapters, TLAPS

\* what is stored expires within the longest lifetime, or never
Timed ==
  /\ now \in 0..MaxTime
  /\ \A id \in Ids : entries[id] # Absent =>
       entries[id].exp = Forever \/ entries[id].exp <= now + MaxTime

\* no call began in the future
Clock == began \in [Calls -> Nat] /\ \A c \in Calls : began[c] <= now

\* where each call in flight stands
Standing ==
  \A c \in Calls :
    /\ pc[c] = "consume" => /\ target[c] \in Tokens
                            /\ seen[c] # Absent
                            /\ Redis => seen[c].exp <= MaxTime
    /\ pc[c] \in Renewing => target[c] \in Sessions
    /\ pc[c] = "renew" => seen[c] # Absent
    /\ pc[c] = "retry" => tries[c] < 3
    /\ pc[c] = "revoke" => Redis
    /\ pc[c] \in {"insert", "update"} => Database

\* a consume or a revocation on Redis runs alone where the scenario says so
Alone ==
  Redis /\ ~env.overlap =>
    \A c, d \in Calls : pc[c] \in Touches /\ c # d => pc[d] = "idle"

\* and what it read is what is there
Kept ==
  Redis /\ ~env.overlap =>
    \A c \in Calls :
      /\ pc[c] = "consume" =>
           /\ entries[target[c]] # Absent
           /\ IF seen[c].exp = 0 THEN TRUE ELSE now + seen[c].exp = entries[target[c]].exp
      /\ pc[c] = "revoke" => keys[c] = grantKey.keys

\* Redis keeps nothing past its expiry
NoneLapsed == Redis => \A id \in Ids : entries[id] # Absent => entries[id].exp > now

\* the key of a uid outlives the session, that of a user code the unconsumed device code
Aliased ==
  Redis => \A id \in ByAlias :
    entries[id] # Absent /\ (id \in DeviceCodes => ~entries[id].consumed)
    => aliases[id] >= entries[id].exp

\* with one lifetime, the list of the grant names every token and outlives it
Listed ==
  Redis /\ ~env.overlap /\ ~env.mixedTtl =>
    \A id \in Tokens :
      entries[id] # Absent /\ entries[id].exp # Forever =>
        /\ id \in grantKey.keys
        /\ entries[id].exp <= grantKey.exp
        /\ \E ttl \in Ttls : entries[id].exp <= now + ttl

Stored == NoneLapsed /\ Aliased /\ Listed
InFlight == Standing /\ Alone /\ Kept
IInv == TypeOK /\ Timed /\ Clock /\ InFlight /\ Stored

\* What a payload carries.
LEMMA PayloadFacts ==
  /\ \A tr, co \in BOOLEAN, e \in 0..Forever :
       /\ Payload(tr, co, e) \in Payloads
       /\ Payload(tr, co, e).transient = tr
       /\ Payload(tr, co, e).consumed = co
       /\ Payload(tr, co, e).exp = e
  /\ \A p \in Payloads : /\ p # Absent
                          /\ p.transient \in BOOLEAN
                          /\ p.consumed \in BOOLEAN
                          /\ p.exp \in 0..Forever
  BY DEF Payload, Payloads, Absent

\* What has an alias has an id.
LEMMA AliasFacts ==
  /\ ByAlias \subseteq Ids /\ Sessions \subseteq ByAlias /\ DeviceCodes \subseteq Tokens
  /\ \A id \in ByAlias : id \in Sessions <=> id \notin DeviceCodes
  BY IdsAssumption DEF ByAlias, Ids

LEMMA TimeFacts ==
  /\ MaxTime \in Nat /\ Forever \in Nat /\ Forever = 2 * MaxTime + 1
  /\ Remember \in 1..MaxTime
  /\ \A ttl \in Ttls : ttl \in 1..MaxTime
  BY TimesAssumption DEF Forever

\* The inductive invariant holds initially.
LEMMA InitInv == Init => IInv
  <1> SUFFICES ASSUME Init PROVE IInv
    OBVIOUS
  <1>1. TypeOK
    BY TimeFacts, IdsAssumption, ScenarioAssumption
    DEF Init, TypeOK, NoList, Silence, AnyId, Ids, PcValues
  <1>5. Clock
    BY TimeFacts DEF Init, Clock
  <1>2. Timed
    BY TimeFacts DEF Init, Timed
  <1>3. InFlight
    BY DEF Init, InFlight, Standing, Alone, Kept, Renewing, Touches
  <1>4. Stored
    BY IdsAssumption DEF Init, Stored, NoneLapsed, Aliased, Listed, Ids, ByAlias
  <1> QED
    BY <1>1, <1>2, <1>3, <1>4, <1>5 DEF IInv

\* ------------------------------------------------------------------ frames

\* A step that leaves the store alone keeps what is said of it.
LEMMA QuietStore ==
  ASSUME IInv, UNCHANGED <<env, now, store>>
  PROVE  Timed' /\ Stored'
  BY DEF IInv, Timed, Stored, NoneLapsed, Aliased, Listed, Redis, store

\* The clock only moves on.
LEMMA QuietClock ==
  ASSUME IInv, began' = began, now' \in {now, now + 1}
  PROVE  Clock'
  <1>1. now \in Nat
    BY DEF IInv, TypeOK
  <1> QED
    BY <1>1 DEF IInv, Clock

\* A step of the store that waits for the calls that must be alone keeps what is said of
\* the calls.
LEMMA QuietCalls ==
  ASSUME IInv, UNCHANGED <<env, calls>>, Database \/ Undisturbed
  PROVE  InFlight'
  <1>1. UNCHANGED <<env, pc, target, seen, keys, tries>>
    BY DEF calls
  <1>2. Standing' /\ Alone'
    BY <1>1 DEF IInv, InFlight, Standing, Alone, Redis, Database
  <1>3. Redis /\ ~env.overlap => \A c \in Calls : pc[c] \notin Touches
    BY DEF Undisturbed, Redis, Database
  <1>4. Kept'
    BY <1>1, <1>3 DEF Kept, Redis, Touches
  <1> QED
    BY <1>2, <1>4 DEF InFlight

\* The last step of a call: the others either run alone or may be disturbed.
LEMMA Returned ==
  ASSUME IInv, NEW c \in Calls, pc[c] # "idle", Return(c), UNCHANGED <<env, now>>,
         \A d \in Calls : d # c => seen'[d] = seen[d] /\ keys'[d] = keys[d] /\ tries'[d] = tries[d]
  PROVE  InFlight' /\ Clock'
  <1>1. /\ pc' = [pc EXCEPT ![c] = "idle"] /\ pc \in [Calls -> PcValues]
        /\ target' = [target EXCEPT ![c] = AnyId] /\ target \in [Calls -> Ids]
    BY DEF Return, IInv, TypeOK
  <1>2. Standing' /\ Alone'
    BY <1>1 DEF IInv, InFlight, Standing, Alone, Redis, Database, Renewing, Touches
  <1>3. Redis /\ ~env.overlap => \A d \in Calls : d # c => pc[d] \notin Touches
    BY DEF IInv, InFlight, Alone
  <1>4. Kept'
    BY <1>1, <1>3 DEF Kept, Redis, Touches
  <1>5. Clock'
    <2>1. began' = [began EXCEPT ![c] = 0] /\ now' = now /\ now \in Nat
      BY DEF Return, IInv, TypeOK
    <2> QED
      BY <2>1 DEF IInv, Clock
  <1> QED
    BY <1>2, <1>4, <1>5 DEF InFlight

\* The first step of a call.
LEMMA BeginClock ==
  ASSUME IInv, NEW c \in Calls, NEW id, NEW step, Begin(c, step, id), now' = now
  PROVE  Clock'
  <1>1. /\ began' = [began EXCEPT ![c] = IF Database THEN now ELSE 0]
        /\ now' = now /\ now \in Nat
    BY DEF Begin, IInv, TypeOK
  <1> QED
    BY <1>1 DEF IInv, Clock

\* The first step of a renewal or of a save: nothing runs that must be alone.
LEMMA Begun ==
  ASSUME IInv, NEW c \in Calls, NEW id \in Ids, NEW step \in {"insert", "update", "renew"},
         Begin(c, step, id), UNCHANGED <<env, now, store, keys>>,
         Database \/ (step = "renew" /\ Undisturbed),
         step = "renew" => id \in Sessions /\ seen'[c] # Absent,
         \A d \in Calls : d # c => seen'[d] = seen[d] /\ tries'[d] = tries[d]
  PROVE  InFlight'
  <1>1. /\ pc[c] = "idle" /\ pc' = [pc EXCEPT ![c] = step] /\ pc \in [Calls -> PcValues]
        /\ target' = [target EXCEPT ![c] = id] /\ target \in [Calls -> Ids]
    BY DEF Begin, IInv, TypeOK
  <1>2. Standing'
    BY <1>1 DEF IInv, InFlight, Standing, Redis, Database, Renewing
  <1>3. Redis /\ ~env.overlap => \A d \in Calls : pc[d] \notin Touches /\ pc'[d] \notin Touches
    BY <1>1 DEF Undisturbed, Redis, Database, Touches
  <1>4. Alone' /\ Kept'
    BY <1>3 DEF Alone, Kept, Redis, Touches
  <1> QED
    BY <1>2, <1>4 DEF InFlight

\* ------------------------------------------------------------------ actions

\* A payload saved by a call that began now or earlier, for one of the lifetimes.
LEMMA Saved ==
  ASSUME IInv, NEW ttl \in Ttls, NEW tr \in BOOLEAN, NEW at \in 0..now
  PROVE  /\ at + ttl \in 0..Forever /\ at + ttl > at /\ at + ttl <= now + MaxTime
         /\ at + ttl # Forever
         /\ Payload(tr, FALSE, at + ttl) \in Payloads
         /\ Payload(tr, FALSE, at + ttl).exp = at + ttl
         /\ ~Payload(tr, FALSE, at + ttl).consumed
  <1>1. ttl \in 1..MaxTime /\ now \in 0..MaxTime
    BY TimeFacts DEF IInv, Timed
  <1>2. at + ttl \in 0..Forever /\ at + ttl > at /\ at + ttl <= now + MaxTime /\ at + ttl # Forever
    BY <1>1, TimeFacts
  <1>3. ASSUME NEW e \in 0..Forever
        PROVE  /\ Payload(tr, FALSE, e) \in Payloads /\ Payload(tr, FALSE, e).exp = e
               /\ ~Payload(tr, FALSE, e).consumed
    BY PayloadFacts
  <1> QED
    BY <1>2, <1>3

\* Where one call stands decides what is said of it.
LEMMA StandingFrame ==
  ASSUME IInv, NEW c \in Calls, pc'[c] = "revoke", Redis, env' = env,
         \A d \in Calls : d # c => pc'[d] = pc[d], UNCHANGED <<target, seen, tries>>
  PROVE  Standing'
  <1> SUFFICES ASSUME NEW d \in Calls
               PROVE  /\ pc'[d] = "consume" => /\ target'[d] \in Tokens
                                               /\ seen'[d] # Absent
                                               /\ Redis' => seen'[d].exp <= MaxTime
                      /\ pc'[d] \in Renewing => target'[d] \in Sessions
                      /\ pc'[d] = "renew" => seen'[d] # Absent
                      /\ pc'[d] = "retry" => tries'[d] < 3
                      /\ pc'[d] = "revoke" => Redis'
                      /\ pc'[d] \in {"insert", "update"} => Database'
    BY DEF Standing, Renewing
  <1>1. CASE d = c
    BY <1>1 DEF Renewing, Redis
  <1>2. CASE d # c
    BY <1>2 DEF IInv, InFlight, Standing, Redis, Database
  <1> QED
    BY <1>1, <1>2

\* The history of the renewals.
LEMMA WatchType == ASSUME Watch PROVE missing' \in [Calls -> BOOLEAN]
  BY DEF Watch

LEMMA SilenceType ==
  ASSUME answer' = Silence PROVE answer' \in [Calls -> {"none", "yes", "no"}]
  BY DEF Silence

LEMMA SaveRedisInv ==
  ASSUME IInv, NEW id \in Ids, SaveRedis(id), Watch, answer' = Silence
  PROVE  IInv'
  <1> PICK tr \in BOOLEAN, ttl \in Ttls :
        /\ NewPayload(id, tr, ttl, now)
        /\ aliases' = IF id \in ByAlias THEN [aliases EXCEPT ![id] = now + ttl] ELSE aliases
        /\ grantKey' = IF id \in Tokens
                       THEN [keys |-> grantKey.keys \cup {id}, exp |-> now + ttl]
                       ELSE grantKey
    BY DEF SaveRedis, AliasesWith
  <1>0. /\ Redis /\ Undisturbed /\ UNCHANGED <<env, now, calls, before>>
        /\ now \in 0..MaxTime /\ ttl \in Nat
    BY TimeFacts DEF SaveRedis, IInv, Timed
  <1>b. /\ now + ttl \in 0..Forever /\ now + ttl > now /\ now + ttl <= now + MaxTime
        /\ now + ttl # Forever
        /\ Payload(tr, FALSE, now + ttl) \in Payloads
        /\ Payload(tr, FALSE, now + ttl).exp = now + ttl
    <2>1. now \in 0..now
      BY <1>0
    <2> QED
      BY <2>1, Saved
  <1>c. /\ entries' = [entries EXCEPT ![id] = Payload(tr, FALSE, now + ttl)]
        /\ saves' = [saves EXCEPT ![id] = @ + 1]
        /\ env.mixedTtl \/ id \in Sessions \/ \A other \in Ttls : ttl >= other
    BY DEF NewPayload
  <1>1. TypeOK'
    <2>1. missing' \in [Calls -> BOOLEAN] /\ answer' \in [Calls -> {"none", "yes", "no"}]
      BY WatchType, SilenceType
    <2>a. entries' \in [Ids -> Payloads \cup {Absent}]
      BY <1>b, <1>c DEF IInv, TypeOK
    <2>b. saves' \in [Ids -> Nat]
      BY <1>c DEF IInv, TypeOK
    <2>2. aliases' \in [ByAlias -> Nat]
      BY <1>0 DEF IInv, TypeOK
    <2>3. grantKey' \in [keys : SUBSET Tokens, exp : Nat]
      BY <1>0, <1>b, <1>c DEF IInv, TypeOK
    <2> QED
      BY <1>0, <2>1, <2>a, <2>b, <2>2, <2>3 DEF IInv, TypeOK, calls
  <1>2. Timed'
    BY <1>0, <1>b, <1>c DEF IInv, TypeOK, Timed
  <1>3. InFlight' /\ Clock'
    BY <1>0, QuietCalls, QuietClock DEF calls
  <1>d. /\ \A k \in Ids : k # id => entries'[k] = entries[k]
        /\ entries'[id].exp = now + ttl
    BY <1>b, <1>c DEF IInv, TypeOK
  <1>4. NoneLapsed' /\ Aliased'
    <2>1. NoneLapsed'
      BY <1>0, <1>b, <1>d DEF IInv, Stored, NoneLapsed, Redis
    <2>2. \A k \in ByAlias : aliases'[k] = IF k = id THEN now + ttl ELSE aliases[k]
      BY DEF IInv, TypeOK
    <2>3. Aliased'
      BY <1>0, <1>b, <1>d, <2>2, AliasFacts DEF IInv, Stored, Aliased, Redis
    <2> QED
      BY <2>1, <2>3
  <1>5. Listed'
    <2> SUFFICES ASSUME ~env.overlap, ~env.mixedTtl, NEW k \in Tokens,
                        entries'[k] # Absent, entries'[k].exp # Forever
                 PROVE  /\ k \in grantKey'.keys
                        /\ entries'[k].exp <= grantKey'.exp
                        /\ \E x \in Ttls : entries'[k].exp <= now' + x
      BY <1>0 DEF Listed, Redis
    <2>1. CASE id \notin Tokens
      BY <1>0, <1>b, <1>c, <2>1, IdsAssumption DEF IInv, TypeOK, Stored, Listed, Ids
    <2>2. CASE id \in Tokens /\ k = id
      BY <1>0, <1>b, <1>d, <2>2
    <2>3. CASE id \in Tokens /\ k # id
      <3>1. /\ entries'[k] = entries[k] /\ k \in grantKey.keys
            /\ \E x \in Ttls : entries[k].exp <= now + x
        BY <1>0, <1>b, <1>c, <2>3 DEF IInv, TypeOK, Stored, Listed, Ids
      <3>2. \A x \in Ttls : ttl >= x
        BY <1>0, <1>b, <1>c, <2>3, IdsAssumption
      <3>3. entries[k].exp \in Nat
        BY <3>1, <2>3, PayloadFacts, TimeFacts DEF IInv, TypeOK, Ids
      <3>4. entries[k].exp <= now + ttl
        BY <1>0, <3>1, <3>2, <3>3, TimeFacts
      <3> QED
        BY <1>0, <2>3, <3>1, <3>4
    <2> QED
      BY <2>1, <2>2, <2>3
  <1> QED
    BY <1>1, <1>2, <1>3, <1>4, <1>5 DEF IInv, Stored

LEMMA SaveSelectInv ==
  ASSUME IInv, NEW c \in Calls, NEW id \in Ids, SaveSelect(c, id), Watch, answer' = Silence
  PROVE  IInv'
  <1> PICK step \in {"insert", "update"} : Begin(c, step, id)
    BY DEF SaveSelect
  <1>0. Database /\ UNCHANGED <<env, now, store, seen, keys, tries, saves, before>>
    BY DEF SaveSelect
  <1>1. TypeOK'
    BY <1>0, WatchType, SilenceType DEF IInv, TypeOK, store, Begin, PcValues
  <1>2. InFlight' /\ Clock'
    BY <1>0, Begun, BeginClock
  <1> QED
    BY <1>0, <1>1, <1>2, QuietStore DEF IInv

\* The last access of a save to the database.
LEMMA SaveRowInv ==
  ASSUME IInv, NEW c \in Calls, SaveUpdate(c) \/ SaveInsert(c), Watch, answer' = Silence
  PROVE  IInv'
  <1>0. /\ Database /\ pc[c] # "idle" /\ Return(c)
        /\ UNCHANGED <<env, now, aliases, grantKey, seen, keys, tries, before>>
    BY DEF SaveUpdate, SaveInsert, IInv, InFlight, Standing
  <1>1. InFlight' /\ Clock'
    BY <1>0, Returned
  <1>c. began[c] \in 0..now
    BY DEF IInv, TypeOK, Clock
  <1>2. Stored'
    BY <1>0 DEF Stored, NoneLapsed, Aliased, Listed, Redis, Database
  <1>3. TypeOK' /\ Timed'
    <2>1. pc' \in [Calls -> PcValues] /\ target' \in [Calls -> Ids] /\ target[c] \in Ids
          /\ began' \in [Calls -> Nat]
      BY <1>0, <1>1, IdsAssumption DEF IInv, TypeOK, Return, PcValues, AnyId, Ids, Clock
    <2>2. CASE UNCHANGED <<entries, saves>>
      BY <1>0, <2>1, <2>2, WatchType, SilenceType DEF IInv, TypeOK, Timed
    <2>3. CASE \E tr \in BOOLEAN, ttl \in Ttls : NewPayload(target[c], tr, ttl, began[c])
      <3> PICK tr \in BOOLEAN, ttl \in Ttls : NewPayload(target[c], tr, ttl, began[c])
        BY <2>3
      <3>0. /\ began[c] + ttl \in 0..Forever /\ began[c] + ttl > began[c] /\ began[c] + ttl <= now + MaxTime
            /\ began[c] + ttl # Forever
            /\ Payload(tr, FALSE, began[c] + ttl) \in Payloads
            /\ Payload(tr, FALSE, began[c] + ttl).exp = began[c] + ttl
        BY <1>c, Saved
      <3>a. /\ entries' = [entries EXCEPT ![target[c]] = Payload(tr, FALSE, began[c] + ttl)]
            /\ saves' = [saves EXCEPT ![target[c]] = @ + 1]
        BY DEF NewPayload
      <3>b. saves' \in [Ids -> Nat]
        BY <2>1, <3>a DEF IInv, TypeOK
      <3>1. entries' \in [Ids -> Payloads \cup {Absent}]
        BY <2>1, <3>0, <3>a DEF IInv, TypeOK
      <3>2. Timed'
        BY <1>0, <2>1, <3>0, <3>a DEF IInv, TypeOK, Timed
      <3> QED
        BY <1>0, <2>1, <3>b, <3>1, <3>2, WatchType, SilenceType DEF IInv, TypeOK
    <2> QED
      BY <2>2, <2>3 DEF SaveUpdate, SaveInsert
  <1> QED
    BY <1>1, <1>2, <1>3 DEF IInv

LEMMA ConsumeReadRedisInv ==
  ASSUME IInv, NEW c \in Calls, NEW id \in Tokens, ConsumeReadRedis(c, id), Watch, answer' = Silence
  PROVE  IInv'
  <1> PICK ttl \in RemainingOf(id) : seen' = [seen EXCEPT ![c] = Payload(FALSE, TRUE, ttl)]
    BY DEF ConsumeReadRedis
  <1>0. /\ Redis
        /\ env.overlap \/ Idle
        /\ entries[id] # Absent /\ entries[id].exp > now /\ id \in Ids
        /\ pc' = [pc EXCEPT ![c] = "consume"] /\ target' = [target EXCEPT ![c] = id]
        /\ UNCHANGED <<env, now, store, keys, tries, saves, before>>
    BY DEF ConsumeReadRedis, Found, FoundIn, Begin, Ids
  <1>b. /\ entries[id].exp \in 0..Forever /\ now \in 0..MaxTime
        /\ entries[id].exp = Forever \/ entries[id].exp <= now + MaxTime
    BY <1>0, PayloadFacts DEF IInv, TypeOK, Timed
  <1>k. Clock'
    BY <1>0, BeginClock DEF ConsumeReadRedis
  <1>1. /\ ttl \in 0..MaxTime /\ ttl \in 0..Forever
        /\ IF ttl = 0 THEN TRUE ELSE now + ttl = entries[id].exp
    BY <1>0, <1>b, TimeFacts DEF RemainingOf
  <1>2. /\ Payload(FALSE, TRUE, ttl) \in Payloads /\ Payload(FALSE, TRUE, ttl).exp = ttl
        /\ Payload(FALSE, TRUE, ttl) # Absent
    BY <1>1, PayloadFacts
  <1>3. TypeOK'
    BY <1>0, <1>2, <1>k, WatchType, SilenceType DEF IInv, TypeOK, store, PcValues, Clock
  <1>4. Standing'
    <2>1. ttl <= MaxTime /\ seen'[c] = Payload(FALSE, TRUE, ttl)
      BY <1>1, TimeFacts DEF IInv, TypeOK
    <2> QED
      BY <1>0, <1>2, <2>1 DEF IInv, TypeOK, InFlight, Standing, Redis, Database, Renewing
  <1>5. Alone'
    BY <1>0 DEF IInv, TypeOK, Alone, Idle, Touches, Redis
  <1>6. Kept'
    BY <1>0, <1>1, <1>2 DEF IInv, TypeOK, Kept, Idle, Redis, store
  <1> QED
    BY <1>0, <1>k, <1>3, <1>4, <1>5, <1>6, QuietStore DEF IInv, InFlight

LEMMA ConsumeReadDatabaseInv ==
  ASSUME IInv, NEW c \in Calls, NEW id \in Tokens, ConsumeReadDatabase(c, id), Watch, answer' = Silence
  PROVE  IInv'
  <1>0. /\ Database /\ entries[id] # Absent /\ id \in Ids
        /\ pc' = [pc EXCEPT ![c] = "consume"] /\ target' = [target EXCEPT ![c] = id]
        /\ seen' = [seen EXCEPT ![c] = entries[id]]
        /\ UNCHANGED <<env, now, store, keys, tries, saves, before>>
    BY DEF ConsumeReadDatabase, Found, FoundIn, Begin, Ids
  <1>k. Clock'
    BY <1>0, BeginClock DEF ConsumeReadDatabase
  <1>1. TypeOK'
    BY <1>0, <1>k, WatchType, SilenceType DEF IInv, TypeOK, store, PcValues, Clock
  <1>2. InFlight'
    BY <1>0 DEF IInv, TypeOK, InFlight, Standing, Alone, Kept, Redis, Database, Renewing
  <1> QED
    BY <1>0, <1>k, <1>1, <1>2, QuietStore DEF IInv

LEMMA ConsumeWriteRedisInv ==
  ASSUME IInv, NEW c \in Calls, ConsumeWriteRedis(c), Watch, answer' = Silence
  PROVE  IInv'
  <1> DEFINE e == IF seen[c].exp = 0 THEN Forever ELSE now + seen[c].exp
  <1>0. /\ Redis /\ pc[c] = "consume" /\ Return(c)
        /\ entries' = [entries EXCEPT ![target[c]] = Payload(FALSE, TRUE, e)]
        /\ seen' = [seen EXCEPT ![c] = Absent]
        /\ UNCHANGED <<env, now, aliases, grantKey, keys, tries, saves, before>>
    BY DEF ConsumeWriteRedis
  <1>1. /\ target[c] \in Tokens /\ target[c] \in Ids /\ target[c] \notin Sessions
        /\ seen[c] \in Payloads /\ seen[c].exp \in 0..MaxTime
    <2>1. target[c] \in Tokens /\ seen[c] # Absent /\ seen[c].exp <= MaxTime
      BY <1>0 DEF IInv, InFlight, Standing
    <2>2. seen[c] \in Payloads
      BY <2>1 DEF IInv, TypeOK
    <2>3. seen[c].exp \in 0..Forever
      BY <2>2, PayloadFacts
    <2> QED
      BY <2>1, <2>2, <2>3, TimeFacts, IdsAssumption DEF Ids
  <1>2. e \in 0..Forever /\ e > now /\ (e = Forever \/ e <= now + MaxTime)
    BY <1>1, TimeFacts DEF IInv, Timed
  <1>3. Payload(FALSE, TRUE, e) \in Payloads /\ Payload(FALSE, TRUE, e).exp = e
        /\ Payload(FALSE, TRUE, e).consumed
    BY <1>2, PayloadFacts
  <1> HIDE DEF e
  <1>k. Clock'
    <2>1. \A d \in Calls : d # c => seen'[d] = seen[d] /\ keys'[d] = keys[d] /\ tries'[d] = tries[d]
      BY <1>0 DEF IInv, TypeOK
    <2> QED
      BY <1>0, <2>1, Returned
  <1>4. TypeOK' /\ Timed'
    <2>1. pc' \in [Calls -> PcValues] /\ target' \in [Calls -> Ids]
      BY <1>0, IdsAssumption DEF IInv, TypeOK, Return, PcValues, AnyId, Ids
    <2> QED
      BY <1>0, <1>1, <1>2, <1>3, <2>1, <1>k, WatchType, SilenceType DEF IInv, TypeOK, Timed, Clock
  <1>5. InFlight'
    <2>1. \A d \in Calls : d # c => seen'[d] = seen[d] /\ keys'[d] = keys[d] /\ tries'[d] = tries[d]
      BY <1>0 DEF IInv, TypeOK
    <2> QED
      BY <1>0, <2>1, Returned
  <1>6. NoneLapsed' /\ Aliased'
    <2>1. \A id \in Ids : id # target[c] => entries'[id] = entries[id]
      BY <1>0 DEF IInv, TypeOK
    <2>3. entries'[target[c]].consumed
      BY <1>0, <1>1, <1>3 DEF IInv, TypeOK
    <2>2. entries'[target[c]].exp > now
      BY <1>0, <1>1, <1>2, <1>3 DEF IInv, TypeOK
    <2>4. NoneLapsed'
      BY <1>0, <1>1, <2>1, <2>2 DEF IInv, Stored, NoneLapsed, Redis
    <2>5. Aliased'
      BY <1>0, <1>1, <2>1, <2>3, AliasFacts DEF IInv, Stored, Aliased, Redis
    <2> QED
      BY <2>4, <2>5
  <1>7. Listed'
    <2>1. CASE env.overlap
      BY <1>0, <2>1 DEF Listed
    <2>2. CASE ~env.overlap
      <3>1. entries[target[c]] # Absent /\ (e = Forever \/ e = entries[target[c]].exp)
        BY <1>0, <2>2 DEF IInv, InFlight, Kept, e
      <3>2. \A k \in Tokens : /\ entries'[k] # Absent /\ entries'[k].exp # Forever
                              => entries[k] # Absent /\ entries[k].exp = entries'[k].exp
        BY <1>0, <1>1, <1>3, <3>1 DEF IInv, TypeOK, Ids
      <3> QED
        BY <1>0, <3>2 DEF IInv, Stored, Listed, Redis
    <2> QED
      BY <2>1, <2>2
  <1> QED
    BY <1>k, <1>4, <1>5, <1>6, <1>7 DEF IInv, Stored

LEMMA ConsumeWriteDatabaseInv ==
  ASSUME IInv, NEW c \in Calls, ConsumeWriteDatabase(c), Watch, answer' = Silence
  PROVE  IInv'
  <1> DEFINE p == Payload(seen[c].transient, TRUE, entries[target[c]].exp)
  <1>0. /\ Database /\ pc[c] = "consume" /\ Return(c)
        /\ entries' = IF entries[target[c]] = Absent THEN entries
                      ELSE [entries EXCEPT ![target[c]] = p]
        /\ seen' = [seen EXCEPT ![c] = Absent]
        /\ UNCHANGED <<env, now, aliases, grantKey, keys, tries, saves, before>>
    BY DEF ConsumeWriteDatabase
  <1>1. target[c] \in Ids /\ seen[c] \in Payloads
    BY <1>0 DEF IInv, TypeOK, InFlight, Standing, Ids
  <1>2. entries[target[c]] # Absent => p \in Payloads /\ p.exp = entries[target[c]].exp
    <2>1. seen[c].transient \in BOOLEAN
      BY <1>1, PayloadFacts
    <2>2. entries[target[c]] # Absent => entries[target[c]].exp \in 0..Forever
      BY <1>1, PayloadFacts DEF IInv, TypeOK
    <2>3. ASSUME NEW tr \in BOOLEAN, NEW e \in 0..Forever
          PROVE  Payload(tr, TRUE, e) \in Payloads /\ Payload(tr, TRUE, e).exp = e
      BY PayloadFacts
    <2> QED
      BY <2>1, <2>2, <2>3
  <1> HIDE DEF p
  <1>k. Clock'
    <2>1. \A d \in Calls : d # c => seen'[d] = seen[d] /\ keys'[d] = keys[d] /\ tries'[d] = tries[d]
      BY <1>0 DEF IInv, TypeOK
    <2> QED
      BY <1>0, <2>1, Returned
  <1>3. TypeOK' /\ Timed'
    <2>1. pc' \in [Calls -> PcValues] /\ target' \in [Calls -> Ids]
      BY <1>0, IdsAssumption DEF IInv, TypeOK, Return, PcValues, AnyId, Ids
    <2> QED
      BY <1>0, <1>1, <1>2, <2>1, <1>k, WatchType, SilenceType DEF IInv, TypeOK, Timed, Clock
  <1>4. InFlight'
    <2>1. \A d \in Calls : d # c => seen'[d] = seen[d] /\ keys'[d] = keys[d] /\ tries'[d] = tries[d]
      BY <1>0 DEF IInv, TypeOK
    <2> QED
      BY <1>0, <2>1, Returned
  <1>5. Stored'
    BY <1>0 DEF Stored, NoneLapsed, Aliased, Listed, Redis, Database
  <1> QED
    BY <1>k, <1>3, <1>4, <1>5 DEF IInv

\* Steps that only remove entries.
LEMMA Removed ==
  ASSUME IInv, NEW S \in SUBSET Ids, UNCHANGED <<env, now>>,
         entries' = [id \in Ids |-> IF id \in S THEN Absent ELSE entries[id]]
  PROVE  /\ entries' \in [Ids -> Payloads \cup {Absent}]
         /\ Timed'
         /\ aliases' = aliases => NoneLapsed' /\ Aliased'
         /\ grantKey' = grantKey => Listed'
  <1>1. \A id \in Ids : entries'[id] # Absent => entries'[id] = entries[id]
    OBVIOUS
  <1>2. entries' \in [Ids -> Payloads \cup {Absent}] /\ Timed'
    BY <1>1 DEF IInv, TypeOK, Timed
  <1>3. aliases' = aliases => NoneLapsed' /\ Aliased'
    BY <1>1, AliasFacts DEF IInv, Stored, NoneLapsed, Aliased, Redis, Ids, ByAlias
  <1>4. grantKey' = grantKey => Listed'
    BY <1>1 DEF IInv, Stored, Listed, Redis, Ids
  <1> QED
    BY <1>2, <1>3, <1>4

LEMMA DestroyInv ==
  ASSUME IInv, NEW id \in Ids, Destroy(id), Watch, answer' = Silence
  PROVE  IInv'
  <1>0. /\ Database \/ Undisturbed
        /\ UNCHANGED <<env, now, aliases, grantKey, calls, saves, before>>
    BY DEF Destroy
  <1>1. entries' = [x \in Ids |-> IF x \in {id} THEN Absent ELSE entries[x]]
    BY DEF Destroy, IInv, TypeOK
  <1>a. entries' \in [Ids -> Payloads \cup {Absent}] /\ Timed' /\ Stored'
    BY <1>0, <1>1, Removed DEF Stored
  <1>b. missing' \in [Calls -> BOOLEAN] /\ answer' \in [Calls -> {"none", "yes", "no"}]
    BY WatchType, SilenceType
  <1>2. TypeOK' /\ Timed' /\ Stored'
    BY <1>0, <1>a, <1>b DEF IInv, TypeOK, calls
  <1> QED
    BY <1>0, <1>2, QuietCalls, QuietClock DEF IInv, calls

LEMMA RowsInv ==
  ASSUME IInv, RevokeRows \/ Prune, Watch, answer' = Silence
  PROVE  IInv'
  <1>0. Database /\ UNCHANGED <<env, now, aliases, grantKey, calls, saves, before>>
    BY DEF RevokeRows, Prune
  <1>1. PICK S \in SUBSET Ids : entries' = [id \in Ids |-> IF id \in S THEN Absent ELSE entries[id]]
    <2>1. CASE RevokeRows
      BY <2>1 DEF RevokeRows, Ids
    <2>2. CASE Prune
      <3>1. entries' = [id \in Ids |-> IF id \in {x \in Ids : ~Found(x)} THEN Absent ELSE entries[id]]
        BY <2>2 DEF Prune
      <3> QED
        BY <3>1
    <2> QED
      BY <2>1, <2>2
  <1>a. entries' \in [Ids -> Payloads \cup {Absent}] /\ Timed' /\ Stored'
    BY <1>0, <1>1, Removed DEF Stored
  <1>b. missing' \in [Calls -> BOOLEAN] /\ answer' \in [Calls -> {"none", "yes", "no"}]
    BY WatchType, SilenceType
  <1>2. TypeOK' /\ Timed' /\ Stored'
    BY <1>0, <1>a, <1>b DEF IInv, TypeOK, calls
  <1> QED
    BY <1>0, <1>2, QuietCalls, QuietClock DEF IInv, calls

LEMMA RevokeReadInv ==
  ASSUME IInv, NEW c \in Calls, RevokeRead(c), Watch, answer' = Silence
  PROVE  IInv'
  <1>0. /\ Redis
        /\ env.overlap \/ Idle
        /\ pc' = [pc EXCEPT ![c] = "revoke"] /\ pc[c] = "idle"
        /\ keys' = [keys EXCEPT ![c] = grantKey.keys]
        /\ before' = [before EXCEPT ![c] = {id \in Tokens : Found(id)}]
        /\ UNCHANGED <<env, now, store, target, seen, tries, began, saves>>
    BY DEF RevokeRead
  <1>1. TypeOK'
    BY <1>0, WatchType, SilenceType DEF IInv, TypeOK, store, PcValues
  <1>2. Standing' /\ Alone'
    <2>1. Standing'
      <3>1. /\ pc'[c] = "revoke" /\ env' = env /\ Redis
            /\ \A d \in Calls : d # c => pc'[d] = pc[d]
            /\ UNCHANGED <<target, seen, tries>>
        <4>1. pc \in [Calls -> PcValues]
          BY DEF IInv, TypeOK
        <4> QED
          BY <1>0, <4>1
      <3> QED
        BY <3>1, StandingFrame
    <2>2. Alone'
      BY <1>0 DEF IInv, TypeOK, Alone, Idle, Touches, Redis
    <2> QED
      BY <2>1, <2>2
  <1>3. Kept'
    BY <1>0 DEF IInv, TypeOK, Kept, Idle, Redis, store
  <1> QED
    BY <1>0, <1>1, <1>2, <1>3, QuietStore, QuietClock DEF IInv, InFlight

LEMMA RevokeWriteInv ==
  ASSUME IInv, NEW c \in Calls, RevokeWrite(c), Watch, answer' = Silence
  PROVE  IInv'
  <1>0. /\ pc[c] = "revoke" /\ Return(c) /\ Redis
        /\ entries' = [id \in Ids |-> IF id \in keys[c] THEN Absent ELSE entries[id]]
        /\ grantKey' = NoList
        /\ keys' = [keys EXCEPT ![c] = {}] /\ before' = [before EXCEPT ![c] = {}]
        /\ UNCHANGED <<env, now, aliases, seen, tries, saves>>
    BY DEF RevokeWrite, IInv, InFlight, Standing
  <1>1. keys[c] \in SUBSET Ids
    BY DEF IInv, TypeOK, Ids
  <1>k. InFlight' /\ Clock'
    <2>1. \A d \in Calls : d # c => seen'[d] = seen[d] /\ keys'[d] = keys[d] /\ tries'[d] = tries[d]
      BY <1>0 DEF IInv, TypeOK
    <2> QED
      BY <1>0, <2>1, Returned
  <1>2. TypeOK' /\ Timed' /\ NoneLapsed' /\ Aliased'
    <2>1. pc' \in [Calls -> PcValues] /\ target' \in [Calls -> Ids]
      BY <1>0, IdsAssumption DEF IInv, TypeOK, Return, PcValues, AnyId, Ids
    <2>2. NoList \in [keys : SUBSET Tokens, exp : Nat]
      BY DEF NoList
    <2>3. /\ entries' \in [Ids -> Payloads \cup {Absent}]
          /\ Timed' /\ NoneLapsed' /\ Aliased'
      BY <1>0, <1>1, Removed
    <2> QED
      BY <1>0, <2>1, <2>2, <2>3, <1>k, WatchType, SilenceType DEF IInv, TypeOK, Clock
  <1>4. Listed'
    <2>1. ~env.overlap => keys[c] = grantKey.keys
      BY <1>0 DEF IInv, InFlight, Kept
    <2> QED
      BY <1>0, <2>1 DEF IInv, TypeOK, Stored, Listed, Redis, Ids
  <1> QED
    BY <1>k, <1>2, <1>4 DEF IInv, Stored

LEMMA RenewReadInv ==
  ASSUME IInv, NEW c \in Calls, NEW id \in Sessions, RenewRead(c, id), Watch, answer' = Silence
  PROVE  IInv'
  <1>0. /\ Database \/ Undisturbed
        /\ entries[id] # Absent /\ id \in Ids
        /\ Begin(c, "renew", id)
        /\ seen' = [seen EXCEPT ![c] = entries[id]]
        /\ tries' = [tries EXCEPT ![c] = 1]
        /\ UNCHANGED <<env, now, store, keys, saves, before>>
    BY DEF RenewRead, Renewable, RenewableIn, FoundIn, Ids
  <1>2. seen'[c] # Absent /\ \A d \in Calls : d # c => seen'[d] = seen[d] /\ tries'[d] = tries[d]
    BY <1>0 DEF IInv, TypeOK
  <1>3. InFlight' /\ Clock'
    BY <1>0, <1>2, Begun, BeginClock
  <1>1. TypeOK'
    <2>1. pc' \in [Calls -> PcValues] /\ target' \in [Calls -> Ids]
      BY <1>0 DEF IInv, TypeOK, Begin, PcValues
    <2>2. seen' \in [Calls -> Payloads \cup {Absent}] /\ tries' \in [Calls -> 0..3]
      BY <1>0 DEF IInv, TypeOK
    <2>3. missing' \in [Calls -> BOOLEAN] /\ answer' \in [Calls -> {"none", "yes", "no"}]
      BY WatchType, SilenceType
    <2> QED
      BY <1>0, <2>1, <2>2, <2>3, <1>3 DEF IInv, TypeOK, store, Clock
  <1> QED
    BY <1>0, <1>1, <1>3, QuietStore DEF IInv

\* A renewal answers.
LEMMA Answered ==
  ASSUME IInv, NEW c \in Calls, NEW yes \in BOOLEAN, pc[c] # "idle", Answer(c, yes), Watch,
         UNCHANGED <<env, now, keys, saves, before>>
  PROVE  /\ InFlight' /\ Clock'
         /\ pc' \in [Calls -> PcValues] /\ target' \in [Calls -> Ids]
         /\ seen' \in [Calls -> Payloads \cup {Absent}] /\ tries' \in [Calls -> 0..3]
         /\ answer' \in [Calls -> {"none", "yes", "no"}]
         /\ missing' \in [Calls -> BOOLEAN]
  <1>1. \A d \in Calls : d # c => seen'[d] = seen[d] /\ keys'[d] = keys[d] /\ tries'[d] = tries[d]
    BY DEF Answer, IInv, TypeOK
  <1>2. InFlight' /\ Clock'
    BY <1>1, Returned DEF Answer
  <1>3. pc' \in [Calls -> PcValues] /\ target' \in [Calls -> Ids]
    BY IdsAssumption DEF Answer, Return, IInv, TypeOK, PcValues, AnyId, Ids
  <1>4. /\ seen' \in [Calls -> Payloads \cup {Absent}] /\ tries' \in [Calls -> 0..3]
        /\ answer' \in [Calls -> {"none", "yes", "no"}]
    BY DEF Answer, Silence, IInv, TypeOK
  <1> QED
    BY <1>2, <1>3, <1>4, WatchType, SilenceType

LEMMA RenewSwapInv ==
  ASSUME IInv, NEW c \in Calls, RenewSwap(c), Watch
  PROVE  IInv'
  <1>0. /\ pc[c] = "renew" /\ entries[target[c]] = seen[c]
        /\ entries' = [entries EXCEPT ![target[c]] = Renewed(target[c], From(c))]
        /\ aliases' = IF Redis THEN [aliases EXCEPT ![target[c]] = now + Remember] ELSE aliases
        /\ Answer(c, TRUE)
        /\ UNCHANGED <<env, now, grantKey, keys, saves, before>>
    BY DEF RenewSwap
  <1>1. /\ target[c] \in Sessions /\ target[c] \in Ids /\ target[c] \notin Tokens
        /\ entries[target[c]] \in Payloads
    BY <1>0, IdsAssumption DEF IInv, TypeOK, InFlight, Standing, Renewing, Ids
  <1>2. /\ now \in 0..MaxTime /\ From(c) \in 0..now /\ From(c) + Remember \in 0..Forever
        /\ From(c) + Remember <= now + MaxTime
        /\ now + Remember > now /\ now + Remember \in Nat
        /\ Redis => From(c) = now
    <2>1. now \in 0..MaxTime /\ From(c) \in 0..now
      BY DEF IInv, TypeOK, Timed, Clock, From
    <2> QED
      BY <2>1, TimeFacts DEF From
  <1>3. /\ Renewed(target[c], From(c)) \in Payloads
        /\ Renewed(target[c], From(c)).exp = From(c) + Remember
    BY <1>1, <1>2, PayloadFacts DEF Renewed
  <1>4. TypeOK' /\ InFlight' /\ Clock'
    <2>1. /\ InFlight' /\ Clock'
          /\ pc' \in [Calls -> PcValues] /\ target' \in [Calls -> Ids]
          /\ seen' \in [Calls -> Payloads \cup {Absent}] /\ tries' \in [Calls -> 0..3]
          /\ answer' \in [Calls -> {"none", "yes", "no"}]
          /\ missing' \in [Calls -> BOOLEAN]
      BY <1>0, Answered
    <2>2. entries' \in [Ids -> Payloads \cup {Absent}] /\ aliases' \in [ByAlias -> Nat]
      BY <1>0, <1>1, <1>2, <1>3, TimeFacts DEF IInv, TypeOK
    <2> QED
      BY <1>0, <2>1, <2>2 DEF IInv, TypeOK, Clock
  <1>5. Timed'
    BY <1>0, <1>1, <1>2, <1>3 DEF IInv, TypeOK, Timed
  <1>6. NoneLapsed' /\ Aliased'
    <2>1. /\ \A id \in Ids : id # target[c] => entries'[id] = entries[id]
          /\ entries'[target[c]].exp = From(c) + Remember
      BY <1>0, <1>1, <1>3 DEF IInv, TypeOK
    <2>2. Redis => \A id \in ByAlias :
                     aliases'[id] = IF id = target[c] THEN now + Remember ELSE aliases[id]
      BY <1>0 DEF IInv, TypeOK
    <2>3. NoneLapsed'
      BY <1>0, <1>2, <2>1 DEF IInv, Stored, NoneLapsed, Redis
    <2>4. Aliased'
      BY <1>0, <1>2, <2>1, <2>2, AliasFacts DEF IInv, Stored, Aliased, Redis
    <2> QED
      BY <2>3, <2>4
  <1>7. Listed'
    BY <1>0, <1>1 DEF IInv, TypeOK, Stored, Listed, Redis, Ids
  <1> QED
    BY <1>4, <1>5, <1>6, <1>7 DEF IInv, Stored

\* The answers that change nothing in the store.
LEMMA RenewAnswerInv ==
  ASSUME IInv, NEW c \in Calls, NEW yes \in BOOLEAN, pc[c] # "idle", Answer(c, yes), Watch,
         UNCHANGED <<env, now, store, keys, saves, before>>
  PROVE  IInv'
  <1>1. TypeOK' /\ InFlight' /\ Clock'
    BY Answered DEF IInv, TypeOK, store, Clock
  <1> QED
    BY <1>1, QuietStore DEF IInv

LEMMA RenewLostInv ==
  ASSUME IInv, NEW c \in Calls, RenewLost(c), Watch, answer' = Silence
  PROVE  IInv'
  <1>0. /\ pc[c] = "renew"
        /\ pc' = [pc EXCEPT ![c] = IF Redis /\ tries[c] < 3 THEN "retry" ELSE "check"]
        /\ UNCHANGED <<env, now, store, target, seen, keys, tries, began, saves, before>>
    BY DEF RenewLost
  <1>1. TypeOK'
    BY <1>0, WatchType, SilenceType DEF IInv, TypeOK, store, PcValues
  <1>2. Standing'
    BY <1>0 DEF IInv, TypeOK, InFlight, Standing, Redis, Database, Renewing
  <1>3. Alone' /\ Kept'
    BY <1>0 DEF IInv, TypeOK, InFlight, Alone, Kept, Redis, Touches, store
  <1> QED
    BY <1>0, <1>1, <1>2, <1>3, QuietStore, QuietClock DEF IInv, InFlight

LEMMA RenewRetryInv ==
  ASSUME IInv, NEW c \in Calls, RenewRetry(c), Watch
  PROVE  IInv'
  <1>0. pc[c] = "retry" /\ UNCHANGED <<env, now, store, keys, saves, before>>
    BY DEF RenewRetry
  <1>1. CASE Answer(c, FALSE)
    BY <1>0, <1>1, RenewAnswerInv
  <1>2. CASE /\ Renewable(target[c])
             /\ pc' = [pc EXCEPT ![c] = "renew"]
             /\ seen' = [seen EXCEPT ![c] = entries[target[c]]]
             /\ tries' = [tries EXCEPT ![c] = @ + 1]
             /\ answer' = Silence
             /\ UNCHANGED <<target, began>>
    <2>1. target[c] \in Ids /\ entries[target[c]] # Absent /\ tries[c] + 1 \in 0..3
      BY <1>0, <1>2 DEF Renewable, RenewableIn, FoundIn, IInv, TypeOK, InFlight, Standing, Renewing, Ids
    <2>2. TypeOK'
      BY <1>0, <1>2, <2>1, WatchType, SilenceType DEF IInv, TypeOK, store, PcValues
    <2>3. Standing'
      BY <1>0, <1>2, <2>1 DEF IInv, TypeOK, InFlight, Standing, Redis, Database, Renewing
    <2>4. Alone' /\ Kept'
      BY <1>0, <1>2 DEF IInv, TypeOK, InFlight, Alone, Kept, Redis, Touches, store
    <2> QED
      BY <1>0, <1>2, <2>2, <2>3, <2>4, QuietStore, QuietClock DEF IInv, InFlight
  <1> QED
    BY <1>1, <1>2 DEF RenewRetry

LEMMA TickInv ==
  ASSUME IInv, Tick, Watch, answer' = Silence
  PROVE  IInv'
  <1>0. /\ Database \/ Undisturbed
        /\ now < MaxTime /\ now' = now + 1 /\ now \in 0..MaxTime
        /\ grantKey' = IF grantKey.exp > now + 1 THEN grantKey ELSE NoList
        /\ aliases' = [id \in ByAlias |-> IF aliases[id] > now + 1 THEN aliases[id] ELSE 0]
        /\ UNCHANGED <<env, calls, saves, before>>
    BY DEF Tick, IInv, Timed
  <1>1. \A id \in Ids : entries'[id] # Absent =>
          entries'[id] = entries[id] /\ (Redis => entries[id].exp > now + 1)
    BY DEF Tick, FoundIn
  <1>2. \A id \in Ids : entries[id] # Absent => entries[id].exp \in Nat
    BY PayloadFacts, TimeFacts DEF IInv, TypeOK
  <1>3. TypeOK'
    <2>1. entries' \in [Ids -> Payloads \cup {Absent}]
      BY DEF Tick, IInv, TypeOK
    <2>2. grantKey' \in [keys : SUBSET Tokens, exp : Nat]
      BY <1>0 DEF IInv, TypeOK, NoList
    <2> QED
      BY <1>0, <2>1, <2>2, WatchType, SilenceType DEF IInv, TypeOK, calls
  <1>4. Timed'
    BY <1>0, <1>1, <1>2, TimeFacts DEF IInv, Timed
  <1>5. InFlight' /\ Clock'
    BY <1>0, QuietCalls, QuietClock DEF calls
  <1>6. NoneLapsed' /\ Aliased'
    BY <1>0, <1>1, <1>2, AliasFacts DEF IInv, TypeOK, Stored, NoneLapsed, Aliased, Redis, Ids
  <1>7. Listed'
    <2> SUFFICES ASSUME Redis, ~env.overlap, ~env.mixedTtl, NEW k \in Tokens,
                        entries'[k] # Absent, entries'[k].exp # Forever
                 PROVE  /\ k \in grantKey'.keys
                        /\ entries'[k].exp <= grantKey'.exp
                        /\ \E x \in Ttls : entries'[k].exp <= now' + x
      BY <1>0 DEF Listed, Redis
    <2>1. /\ entries'[k] = entries[k] /\ entries[k] # Absent /\ entries[k].exp \in Nat
          /\ entries[k].exp > now + 1
      BY <1>1, <1>2 DEF Ids
    <2>2. /\ k \in grantKey.keys /\ entries[k].exp <= grantKey.exp /\ grantKey.exp \in Nat
          /\ \E x \in Ttls : entries[k].exp <= now + x
      BY <2>1 DEF IInv, TypeOK, Stored, Listed
    <2>3. grantKey' = grantKey
      BY <1>0, <2>1, <2>2
    <2>4. \E x \in Ttls : entries[k].exp <= now + 1 + x
      BY <1>0, <2>1, <2>2, TimeFacts
    <2> QED
      BY <1>0, <2>1, <2>2, <2>3, <2>4
  <1> QED
    BY <1>3, <1>4, <1>5, <1>6, <1>7 DEF IInv, Stored

\* Every step keeps the inductive invariant.
LEMMA NextInv == IInv /\ [Next]_vars => IInv'
  <1> SUFFICES ASSUME IInv, [Next]_vars PROVE IInv'
    OBVIOUS
  <1>1. CASE Next
    <2>0. Watch
      BY <1>1 DEF Next
    <2>1. CASE Silent /\ answer' = Silence
      <3>1. CASE \E id \in Ids : SaveRedis(id) \/ Destroy(id)
        BY <2>0, <2>1, <3>1, SaveRedisInv, DestroyInv
      <3>2. CASE \E c \in Calls, id \in Ids : SaveSelect(c, id)
        BY <2>0, <2>1, <3>2, SaveSelectInv
      <3>3. CASE \E c \in Calls, id \in Tokens : ConsumeReadRedis(c, id) \/ ConsumeReadDatabase(c, id)
        BY <2>0, <2>1, <3>3, ConsumeReadRedisInv, ConsumeReadDatabaseInv
      <3>4. CASE \E c \in Calls, id \in Sessions : RenewRead(c, id)
        BY <2>0, <2>1, <3>4, RenewReadInv
      <3>5. ASSUME NEW c \in Calls,
                   \/ SaveUpdate(c) \/ SaveInsert(c)
                   \/ ConsumeWriteRedis(c) \/ ConsumeWriteDatabase(c)
            PROVE  IInv'
        BY <2>0, <2>1, <3>5, SaveRowInv, ConsumeWriteRedisInv, ConsumeWriteDatabaseInv
      <3>6. ASSUME NEW c \in Calls, RevokeRead(c) \/ RevokeWrite(c) \/ RenewLost(c) PROVE IInv'
        BY <2>0, <2>1, <3>6, RevokeReadInv, RevokeWriteInv, RenewLostInv
      <3>7. CASE RevokeRows \/ Tick \/ Prune
        BY <2>0, <2>1, <3>7, RowsInv, TickInv
      <3> QED
        BY <2>1, <3>1, <3>2, <3>3, <3>4, <3>5, <3>6, <3>7 DEF Silent
    <2>2. ASSUME NEW c \in Calls, Answering(c) PROVE IInv'
      <3>1. CASE RenewGone(c) \/ RenewCheck(c)
        <4>1. PICK yes \in BOOLEAN : Answer(c, yes)
          BY <3>1 DEF RenewGone, RenewCheck, Renewable, RenewableIn, FoundIn
        <4> QED
          BY <2>0, <3>1, <4>1, RenewAnswerInv DEF RenewGone, RenewCheck
      <3>2. CASE RenewSwap(c) \/ RenewRetry(c)
        BY <2>0, <3>2, RenewSwapInv, RenewRetryInv
      <3> QED
        BY <2>2, <3>1, <3>2 DEF Answering
    <2> QED
      BY <1>1, <2>1, <2>2 DEF Next, Step
  <1>2. CASE UNCHANGED vars
    <2>1. UNCHANGED <<env, now, store, calls, entries, aliases, grantKey, pc, target, seen, keys,
                      tries, began, answer, saves, missing, before>>
      BY <1>2 DEF vars, store, calls
    <2>2. TypeOK'
      BY <2>1 DEF IInv, TypeOK
    <2>3. InFlight'
      BY <2>1 DEF IInv, InFlight, Standing, Alone, Kept, Redis, Database
    <2> QED
      BY <2>1, <2>2, <2>3, QuietStore, QuietClock DEF IInv
  <1> QED
    BY <1>1, <1>2

\* The strengthening from which the theorems follow: the expiry of what is stored, the keys
\* beside it, and where each call in flight stands.
THEOREM InductiveInvariant == Spec => []IInv
  BY InitInv, NextInv, PTL DEF Spec

\* Every variable keeps its type, for any ids, calls and lifetimes.
THEOREM TypeCorrect == Spec => []TypeOK
  BY InductiveInvariant, PTL DEF IInv

\* A call in flight returns only by a step of its own.
LEMMA StepOfRevoke ==
  ASSUME IInv, Next, NEW c \in Calls, pc[c] = "revoke", pc'[c] = "idle"
  PROVE  RevokeWrite(c)
  <1>0. pc \in [Calls -> PcValues]
    BY DEF IInv, TypeOK
  <1>1. ASSUME NEW id \in Ids, SaveRedis(id) \/ Destroy(id) PROVE FALSE
    BY <1>1 DEF SaveRedis, Destroy, calls
  <1>2. ASSUME NEW d \in Calls, NEW id \in Ids, SaveSelect(d, id) PROVE FALSE
    BY <1>0, <1>2 DEF SaveSelect, Begin
  <1>3. ASSUME NEW d \in Calls, NEW id \in Tokens,
               ConsumeReadRedis(d, id) \/ ConsumeReadDatabase(d, id)
        PROVE  FALSE
    BY <1>0, <1>3 DEF ConsumeReadRedis, ConsumeReadDatabase, Begin
  <1>4. ASSUME NEW d \in Calls, NEW id \in Sessions, RenewRead(d, id) PROVE FALSE
    BY <1>0, <1>4 DEF RenewRead, Begin
  <1>5. ASSUME NEW d \in Calls, SaveUpdate(d) \/ SaveInsert(d) PROVE FALSE
    BY <1>0, <1>5 DEF SaveUpdate, SaveInsert, Return
  <1>6. ASSUME NEW d \in Calls, ConsumeWriteRedis(d) \/ ConsumeWriteDatabase(d) PROVE FALSE
    BY <1>0, <1>6 DEF ConsumeWriteRedis, ConsumeWriteDatabase, Return
  <1>7. ASSUME NEW d \in Calls, RevokeRead(d) \/ (d # c /\ RevokeWrite(d)) PROVE FALSE
    BY <1>0, <1>7 DEF RevokeRead, RevokeWrite, Return
  <1>8. ASSUME NEW d \in Calls, RenewLost(d) PROVE FALSE
    BY <1>0, <1>8 DEF RenewLost
  <1>9. ASSUME NEW d \in Calls, RenewSwap(d) \/ RenewGone(d) \/ RenewRetry(d) \/ RenewCheck(d)
        PROVE  FALSE
    BY <1>0, <1>9 DEF RenewSwap, RenewGone, RenewRetry, RenewCheck, Answer, Return
  <1>10. ~(RevokeRows \/ Tick \/ Prune)
    BY DEF RevokeRows, Tick, Prune, calls
  <1> QED
    BY <1>1, <1>2, <1>3, <1>4, <1>5, <1>6, <1>7, <1>8, <1>9, <1>10 DEF Next, Step, Silent, Answering

LEMMA StepOfRenewal ==
  ASSUME IInv, Next, NEW c \in Calls, pc[c] \in Renewing, pc'[c] = "idle"
  PROVE  RenewSwap(c) \/ RenewGone(c) \/ RenewRetry(c) \/ RenewCheck(c)
  <1> USE DEF IInv, TypeOK, Renewing
  <1>1. ASSUME NEW id \in Ids, SaveRedis(id) \/ Destroy(id) PROVE FALSE
    BY <1>1 DEF SaveRedis, Destroy, calls
  <1>2. ASSUME NEW d \in Calls, NEW id \in Ids, SaveSelect(d, id) PROVE FALSE
    BY <1>2 DEF SaveSelect, Begin
  <1>3. ASSUME NEW d \in Calls, NEW id \in Tokens,
               ConsumeReadRedis(d, id) \/ ConsumeReadDatabase(d, id)
        PROVE  FALSE
    BY <1>3 DEF ConsumeReadRedis, ConsumeReadDatabase, Begin
  <1>4. ASSUME NEW d \in Calls, NEW id \in Sessions, RenewRead(d, id) PROVE FALSE
    BY <1>4 DEF RenewRead, Begin
  <1>5. ASSUME NEW d \in Calls, SaveUpdate(d) \/ SaveInsert(d) PROVE FALSE
    BY <1>5 DEF SaveUpdate, SaveInsert, Return
  <1>6. ASSUME NEW d \in Calls, ConsumeWriteRedis(d) \/ ConsumeWriteDatabase(d) PROVE FALSE
    BY <1>6 DEF ConsumeWriteRedis, ConsumeWriteDatabase, Return
  <1>7. ASSUME NEW d \in Calls, RevokeRead(d) \/ RevokeWrite(d) PROVE FALSE
    BY <1>7 DEF RevokeRead, RevokeWrite, Return
  <1>8. ASSUME NEW d \in Calls, RenewLost(d) PROVE FALSE
    BY <1>8 DEF RenewLost
  <1>9. ASSUME NEW d \in Calls, d # c,
               RenewSwap(d) \/ RenewGone(d) \/ RenewRetry(d) \/ RenewCheck(d)
        PROVE  FALSE
    BY <1>9 DEF RenewSwap, RenewGone, RenewRetry, RenewCheck, Answer, Return
  <1>10. ~(RevokeRows \/ Tick \/ Prune)
    BY DEF RevokeRows, Tick, Prune, calls
  <1> HIDE DEF IInv, TypeOK, Renewing
  <1> QED
    BY <1>1, <1>2, <1>3, <1>4, <1>5, <1>6, <1>7, <1>8, <1>9, <1>10 DEF Next, Step, Silent, Answering


\* A session that can be found by id can be found by its uid, and a device code that is not
\* consumed by its user code: the key Redis keeps for either never expires first.
THEOREM AliasLeadsToEntryHolds == Spec => []AliasLeadsToEntry
  <1>1. IInv => AliasLeadsToEntry
    <2> SUFFICES ASSUME IInv, NEW id \in ByAlias, Found(id), id \in DeviceCodes => ~entries[id].consumed,
                        Redis
                 PROVE  aliases[id] > now
      BY DEF AliasLeadsToEntry, FoundByAlias
    <2>1. entries[id] # Absent /\ entries[id].exp > now /\ entries[id] \in Payloads
      BY AliasFacts DEF Found, FoundIn, IInv, TypeOK
    <2>2. aliases[id] >= entries[id].exp /\ aliases[id] \in Nat /\ now \in Nat
      BY <2>1 DEF IInv, TypeOK, Stored, Aliased
    <2>3. entries[id].exp \in 0..Forever
      BY <2>1, PayloadFacts
    <2> QED
      BY <2>1, <2>2, <2>3, TimeFacts
  <1> QED
    BY <1>1, InductiveInvariant, PTL

\* A revocation that nothing overlaps leaves none of the tokens it found, when all tokens
\* live equally long and none was consumed in its last half second.
THEOREM RevocationCompleteHolds == Spec => RevocationComplete
  <1> DEFINE Complete ==
        \A c \in Calls :
          pc[c] = "revoke" /\ pc'[c] = "idle" /\ ~env.overlap /\ ~env.mixedTtl
          => \A id \in before[c] : entries[id] = Absent \/ entries[id].exp # Forever
                                  => ~FoundIn(entries', now', id)
  <1>1. IInv /\ [Next]_vars => [Complete]_vars
    <2> SUFFICES ASSUME IInv, Next, NEW c \in Calls, pc[c] = "revoke", pc'[c] = "idle",
                        ~env.overlap, ~env.mixedTtl, NEW id \in before[c],
                        entries[id] = Absent \/ entries[id].exp # Forever
                 PROVE  entries'[id] = Absent
      BY DEF FoundIn
    <2>1. Redis /\ id \in Tokens /\ keys[c] = grantKey.keys
      BY DEF IInv, TypeOK, InFlight, Standing, Kept
    <2>2. RevokeWrite(c)
      BY StepOfRevoke
    <2>3. entries[id] # Absent => id \in keys[c]
      BY <2>1 DEF IInv, Stored, Listed
    <2> QED
      BY <2>1, <2>2, <2>3 DEF RevokeWrite, Ids
  <1> QED
    BY <1>1, InductiveInvariant, PTL DEF Spec, RevocationComplete

\* renewSession never claims a session that is not there, and never denies one that was there
\* all along.
THEOREM RenewalIsHonestHolds == Spec => RenewalIsHonest
  <1> DEFINE Honest ==
        \A c \in Calls :
          pc[c] \in Renewing /\ pc'[c] = "idle"
          => /\ answer'[c] = "yes" /\ (Database => now < began[c] + Remember)
                => RenewableIn(entries', now', target[c])
             /\ answer'[c] = "no" => missing'[c]
  <1>1. IInv /\ [Next]_vars => [Honest]_vars
    <2> SUFFICES ASSUME IInv, Next, NEW c \in Calls, pc[c] \in Renewing, pc'[c] = "idle"
                 PROVE  /\ answer'[c] = "yes" /\ (Database => now < began[c] + Remember)
                           => RenewableIn(entries', now', target[c])
                        /\ answer'[c] = "no" => missing'[c]
      OBVIOUS
    <2>1. missing'[c] = (missing[c] \/ ~RenewableIn(entries, now, target[c]))
      BY DEF Next, Watch, Renewing
    <2>2. target[c] \in Sessions /\ target[c] \in Ids
      BY DEF IInv, InFlight, Standing, Ids
    <2>3. CASE RenewSwap(c)
      <3>1. /\ answer'[c] = "yes" /\ now' = now /\ entries[target[c]] \in Payloads
            /\ entries'[target[c]] = Renewed(target[c], From(c))
        BY <2>2, <2>3 DEF RenewSwap, Answer, Silence, IInv, TypeOK, InFlight, Standing
      <3>2. /\ entries[target[c]].consumed \in BOOLEAN
            /\ From(c) + Remember \in 0..Forever
            /\ (Database => now < began[c] + Remember) => From(c) + Remember > now
        <4>1. entries[target[c]].consumed \in BOOLEAN
          BY <3>1, PayloadFacts
        <4>2. now \in 0..MaxTime /\ began[c] \in 0..now
          BY DEF IInv, TypeOK, Timed, Clock
        <4>3. Redis \/ Database
          BY DEF IInv, TypeOK, Scenario, Redis, Database
        <4> QED
          BY <4>1, <4>2, <4>3, TimeFacts DEF From
      <3>3. /\ Renewed(target[c], From(c)) # Absent /\ ~Renewed(target[c], From(c)).transient
            /\ Renewed(target[c], From(c)).exp = From(c) + Remember
        BY <3>2, PayloadFacts DEF Renewed
      <3> QED
        BY <3>1, <3>2, <3>3 DEF RenewableIn, FoundIn
    <2>4. CASE RenewGone(c) \/ RenewRetry(c) \/ RenewCheck(c)
      <3>1. CASE RenewGone(c)
        BY <2>1, <3>1 DEF RenewGone, Answer, Silence, RenewableIn, FoundIn, IInv, TypeOK
      <3>2. CASE RenewRetry(c)
        BY <2>1, <3>2 DEF RenewRetry, Answer, Silence, Renewable, IInv, TypeOK
      <3>3. CASE RenewCheck(c)
        <4>1. entries' = entries /\ now' = now
          BY <3>3 DEF RenewCheck, store
        <4>2. answer'[c] = IF Renewable(target[c]) THEN "yes" ELSE "no"
          BY <3>3 DEF RenewCheck, Answer, Silence, IInv, TypeOK
        <4> QED
          BY <2>1, <4>1, <4>2 DEF Renewable
      <3> QED
        BY <2>4, <3>1, <3>2, <3>3
    <2>5. RenewSwap(c) \/ RenewGone(c) \/ RenewRetry(c) \/ RenewCheck(c)
      BY StepOfRenewal
    <2> QED
      BY <2>3, <2>4, <2>5
  <1> QED
    BY <1>1, InductiveInvariant, PTL DEF Spec, RenewalIsHonest

\* What a consume puts back after a revocation is spent: on either adapter, whatever overlaps.
THEOREM ComesBackSpentHolds == Spec => ComesBackSpent
  <1> DEFINE Back ==
        \A id \in Ids :
          entries'[id] # Absent /\ saves'[id] = saves[id]
          => entries'[id].consumed \/ (entries[id] # Absent /\ ~entries[id].consumed)
  <1>1. IInv /\ [Next]_vars => [Back]_vars
    <2> SUFFICES ASSUME IInv, Next, NEW id \in Ids, entries'[id] # Absent, saves'[id] = saves[id],
                        entries'[id] # entries[id]
                 PROVE  entries'[id].consumed \/ (entries[id] # Absent /\ ~entries[id].consumed)
      <3>1. ASSUME IInv, NEW id \in Ids, entries'[id] # Absent, entries'[id] = entries[id]
            PROVE  entries'[id].consumed \/ (entries[id] # Absent /\ ~entries[id].consumed)
        <4>1. entries[id] \in Payloads
          BY <3>1 DEF IInv, TypeOK
        <4>2. entries[id].consumed \in BOOLEAN
          BY <4>1, PayloadFacts
        <4> QED
          BY <3>1, <4>2
      <3> QED
        BY <3>1
    <2>1. entries \in [Ids -> Payloads \cup {Absent}] /\ saves \in [Ids -> Nat]
      BY DEF IInv, TypeOK
    <2>2. ASSUME NEW x \in Ids, NEW tr \in BOOLEAN, NEW ttl \in Ttls, NEW at, NewPayload(x, tr, ttl, at)
          PROVE  FALSE
      <3>1. /\ entries' = [entries EXCEPT ![x] = Payload(tr, FALSE, at + ttl)]
            /\ saves' = [saves EXCEPT ![x] = @ + 1]
        BY <2>2 DEF NewPayload
      <3>2. x # id
        BY <2>1, <3>1
      <3> QED
        BY <2>1, <3>1, <3>2
    <2>3. ASSUME NEW c \in Calls, ConsumeWriteRedis(c) PROVE entries'[id].consumed
      <3>1. entries'[id] = Payload(FALSE, TRUE, IF seen[c].exp = 0 THEN Forever ELSE now + seen[c].exp)
        BY <2>1, <2>3 DEF ConsumeWriteRedis
      <3> QED
        BY <3>1 DEF Payload
    <2>4. ASSUME NEW c \in Calls, ConsumeWriteDatabase(c) PROVE entries'[id].consumed
      <3>1. entries'[id] = Payload(seen[c].transient, TRUE, entries[target[c]].exp)
        BY <2>1, <2>4 DEF ConsumeWriteDatabase
      <3> QED
        BY <3>1 DEF Payload
    <2>5. ASSUME NEW c \in Calls, RenewSwap(c)
          PROVE  entries'[id].consumed \/ (entries[id] # Absent /\ ~entries[id].consumed)
      <3>1. /\ target[c] \in Ids /\ seen[c] # Absent /\ entries[target[c]] = seen[c]
            /\ entries' = [entries EXCEPT ![target[c]] = Renewed(target[c], From(c))]
        BY <2>5 DEF RenewSwap, IInv, TypeOK, InFlight, Standing
      <3>2. id = target[c] /\ entries'[id] = Payload(FALSE, entries[id].consumed, From(c) + Remember)
        BY <2>1, <3>1 DEF Renewed
      <3>3. entries'[id].consumed = entries[id].consumed
        BY <3>2 DEF Payload
      <3>4. entries[id] \in Payloads
        BY <2>1, <3>1, <3>2
      <3>5. entries[id].consumed \in BOOLEAN
        BY <3>4, PayloadFacts
      <3> QED
        BY <3>1, <3>2, <3>3, <3>5
    <2>6. CASE Silent
      <3>1. CASE \/ \E x \in Ids : Destroy(x)
                 \/ \E c \in Calls, x \in Ids : SaveSelect(c, x)
                 \/ \E c \in Calls, x \in Tokens : ConsumeReadRedis(c, x) \/ ConsumeReadDatabase(c, x)
                 \/ \E c \in Calls, x \in Sessions : RenewRead(c, x)
                 \/ \E c \in Calls : RevokeRead(c) \/ RevokeWrite(c) \/ RenewLost(c)
                 \/ RevokeRows \/ Tick \/ Prune
        BY <2>1, <3>1 DEF Destroy, SaveSelect, ConsumeReadRedis, ConsumeReadDatabase, RenewRead,
           RevokeRead, RevokeWrite, RenewLost, RevokeRows, Tick, Prune, store
      <3>2. CASE \E x \in Ids : SaveRedis(x)
        BY <2>2, <3>2 DEF SaveRedis
      <3>3. CASE \E c \in Calls : SaveUpdate(c) \/ SaveInsert(c)
        BY <2>1, <2>2, <3>3 DEF SaveUpdate, SaveInsert, IInv, TypeOK
      <3>4. CASE \E c \in Calls : ConsumeWriteRedis(c) \/ ConsumeWriteDatabase(c)
        BY <2>3, <2>4, <3>4
      <3> QED
        BY <2>6, <3>1, <3>2, <3>3, <3>4 DEF Silent
    <2>7. ASSUME NEW c \in Calls, RenewGone(c) \/ RenewRetry(c) \/ RenewCheck(c) PROVE FALSE
      BY <2>7 DEF RenewGone, RenewRetry, RenewCheck, store
    <2> QED
      BY <2>5, <2>6, <2>7 DEF Next, Step, Answering
  <1> QED
    BY <1>1, InductiveInvariant, PTL DEF Spec, ComesBackSpent

\* ------------------------------------------------------------- refinement

\* A step that changes no entry, no clock and no count is a stutter of the contract.
LEMMA Unseen ==
  ASSUME UNCHANGED <<entries, now, saves>>
  PROVE  UNCHANGED Contract!vars
  BY DEF Contract!vars, LifeOf, UsedOf

\* Storing an unconsumed payload and counting it is a Save.
LEMMA IsSave ==
  ASSUME IInv, NEW id \in Ids, NEW p \in Payloads, ~p.consumed, now' = now,
         entries' = [entries EXCEPT ![id] = p], saves' = [saves EXCEPT ![id] = @ + 1]
  PROVE  Contract!Next
  <1>1. entries \in [Ids -> Payloads \cup {Absent}] /\ p # Absent
    BY PayloadFacts DEF IInv, TypeOK
  <1>2. /\ \A x \in Ids : LifeOf(x)' = IF x = id THEN IF p.exp > now THEN "live" ELSE "lapsed"
                                           ELSE LifeOf(x)
        /\ \A x \in Ids : UsedOf(x)' = IF x = id THEN FALSE ELSE UsedOf(x)
    BY <1>1 DEF LifeOf, UsedOf
  <1>3. Contract!Save(id)
    BY <1>2 DEF Contract!Save
  <1> QED
    BY <1>3 DEF Contract!Next

\* Marking what is there, without a change of its life, is a Consume.
LEMMA IsConsume ==
  ASSUME IInv, NEW id \in Ids, entries[id] # Absent, NEW p \in Payloads, p.consumed,
         (p.exp > now) <=> (entries[id].exp > now),
         entries' = [entries EXCEPT ![id] = p], UNCHANGED <<now, saves>>
  PROVE  Contract!Next
  <1>1. entries \in [Ids -> Payloads \cup {Absent}] /\ p # Absent
    BY PayloadFacts DEF IInv, TypeOK
  <1>2. /\ \A x \in Ids : LifeOf(x)' = LifeOf(x)
        /\ \A x \in Ids : UsedOf(x)' = IF x = id THEN TRUE ELSE UsedOf(x)
        /\ LifeOf(id) # "absent"
    BY <1>1 DEF LifeOf, UsedOf
  <1>3. Contract!Consume(id)
    BY <1>2 DEF Contract!Consume
  <1> QED
    BY <1>3 DEF Contract!Next

\* Extending what is there is a Renew.
LEMMA IsRenew ==
  ASSUME IInv, NEW id \in Ids, entries[id] # Absent, NEW p \in Payloads,
         p.consumed = entries[id].consumed,
         entries' = [entries EXCEPT ![id] = p], UNCHANGED <<now, saves>>
  PROVE  Contract!Next
  <1>1. entries \in [Ids -> Payloads \cup {Absent}] /\ p # Absent
    BY PayloadFacts DEF IInv, TypeOK
  <1>2. /\ \A x \in Ids : LifeOf(x)' = IF x = id THEN IF p.exp > now THEN "live" ELSE "lapsed"
                                           ELSE LifeOf(x)
        /\ \A x \in Ids : UsedOf(x)' = UsedOf(x)
        /\ LifeOf(id) # "absent"
    BY <1>1 DEF LifeOf, UsedOf
  <1>3. Contract!Renew(id)
    BY <1>2 DEF Contract!Renew
  <1> QED
    BY <1>3 DEF Contract!Next

\* Deleting entries is a Remove.
LEMMA IsRemove ==
  ASSUME NEW S \in SUBSET Ids, UNCHANGED <<now, saves>>,
         entries' = [id \in Ids |-> IF id \in S THEN Absent ELSE entries[id]]
  PROVE  Contract!Next
  <1>1. /\ \A x \in Ids : LifeOf(x)' = IF x \in S THEN "absent" ELSE LifeOf(x)
        /\ \A x \in Ids : UsedOf(x)' = IF x \in S THEN FALSE ELSE UsedOf(x)
    BY DEF LifeOf, UsedOf
  <1>2. Contract!Remove(S)
    BY <1>1 DEF Contract!Remove
  <1> QED
    BY <1>2 DEF Contract!Next

\* The clock lapses rows, and Redis drops keys.
LEMMA IsExpiry ==
  ASSUME IInv, Tick
  PROVE  Contract!Next
  <1> DEFINE S == {id \in Ids : entries[id] # Absent /\ entries[id].exp = now + 1}
  <1>1. /\ now' = now + 1 /\ now \in Nat /\ saves' = saves
        /\ entries \in [Ids -> Payloads \cup {Absent}]
        /\ \A id \in Ids : entries[id] # Absent => entries[id].exp \in Nat
    BY PayloadFacts, TimeFacts DEF Tick, IInv, TypeOK
  <1>2. CASE Database
    <2>1. entries' = entries
      BY <1>1, <1>2 DEF Tick, Database, Redis
    <2>2. /\ \A x \in Ids : LifeOf(x)' = IF x \in S THEN "lapsed" ELSE LifeOf(x)
          /\ \A x \in Ids : UsedOf(x)' = UsedOf(x)
          /\ \A x \in S : LifeOf(x) = "live"
      BY <1>1, <2>1 DEF LifeOf, UsedOf
    <2>3. Contract!Lapse(S)
      BY <1>1, <2>2 DEF Contract!Lapse
    <2> QED
      BY <2>3 DEF Contract!Next
  <1>3. CASE Redis
    <2>1. \A id \in Ids : entries[id] # Absent => entries[id].exp > now
      BY <1>3 DEF IInv, Stored, NoneLapsed
    <2>2. entries' = [id \in Ids |-> IF id \in S THEN Absent ELSE entries[id]]
      BY <1>1, <1>3, <2>1 DEF Tick, FoundIn
    <2>3. /\ \A x \in Ids : LifeOf(x)' = IF x \in S THEN "absent" ELSE LifeOf(x)
          /\ \A x \in Ids : UsedOf(x)' = IF x \in S THEN FALSE ELSE UsedOf(x)
      <3> SUFFICES ASSUME NEW x \in Ids
                   PROVE  /\ LifeOf(x)' = IF x \in S THEN "absent" ELSE LifeOf(x)
                          /\ UsedOf(x)' = IF x \in S THEN FALSE ELSE UsedOf(x)
        OBVIOUS
      <3>1. CASE x \in S \/ entries[x] = Absent
        BY <1>1, <2>2, <3>1 DEF LifeOf, UsedOf
      <3>2. CASE x \notin S /\ entries[x] # Absent
        <4>1. entries'[x] = entries[x] /\ entries[x].exp > now + 1 /\ entries[x].exp > now
          BY <1>1, <2>1, <2>2, <3>2
        <4> QED
          BY <1>1, <3>2, <4>1 DEF LifeOf, UsedOf
      <3> QED
        BY <3>1, <3>2
    <2>4. Contract!Remove(S)
      BY <1>1, <2>3 DEF Contract!Remove
    <2> QED
      BY <2>4 DEF Contract!Next
  <1>4. Redis \/ Database
    BY DEF IInv, TypeOK, Scenario, Redis, Database
  <1> QED
    BY <1>2, <1>3, <1>4

Mapped == (Redis /\ env.overlap) \/ Contract!Next \/ UNCHANGED Contract!vars

\* Storing through either adapter.
LEMMA SaveMaps ==
  ASSUME IInv, NEW id \in Ids, NEW tr \in BOOLEAN, NEW ttl \in Ttls, NEW at \in 0..now,
         NewPayload(id, tr, ttl, at), now' = now
  PROVE  Contract!Next
  <1>1. Payload(tr, FALSE, at + ttl) \in Payloads /\ ~Payload(tr, FALSE, at + ttl).consumed
    BY Saved
  <1>2. /\ entries' = [entries EXCEPT ![id] = Payload(tr, FALSE, at + ttl)]
        /\ saves' = [saves EXCEPT ![id] = @ + 1]
    BY DEF NewPayload
  <1> QED
    BY <1>1, <1>2, IsSave

LEMMA ConsumeMaps ==
  ASSUME IInv, NEW c \in Calls, ConsumeWriteRedis(c) \/ ConsumeWriteDatabase(c), Watch, IInv'
  PROVE  Mapped
  <1>1. /\ pc[c] = "consume" /\ target[c] \in Ids /\ target[c] \in Tokens /\ UNCHANGED <<now, saves>>
        /\ entries \in [Ids -> Payloads \cup {Absent}] /\ seen[c] \in Payloads
    BY DEF ConsumeWriteRedis, ConsumeWriteDatabase, IInv, TypeOK, InFlight, Standing, Ids
  <1>2. CASE ConsumeWriteRedis(c) /\ ~env.overlap
    <2> DEFINE e == IF seen[c].exp = 0 THEN Forever ELSE now + seen[c].exp
    <2>1. /\ entries' = [entries EXCEPT ![target[c]] = Payload(FALSE, TRUE, e)] /\ Redis
          /\ entries[target[c]] # Absent
      BY <1>1, <1>2 DEF ConsumeWriteRedis, IInv, InFlight, Kept
    <2>2. /\ seen[c].exp \in 0..MaxTime /\ now \in 0..MaxTime /\ entries[target[c]].exp > now
      <3>1. seen[c].exp <= MaxTime
        BY <1>1, <2>1 DEF IInv, InFlight, Standing
      <3>2. seen[c].exp \in 0..Forever
        BY <1>1, PayloadFacts
      <3> QED
        BY <1>1, <2>1, <3>1, <3>2, TimeFacts DEF IInv, Timed, Stored, NoneLapsed
    <2>3. e \in 0..Forever /\ e > now
      BY <2>2, TimeFacts
    <2>4. /\ Payload(FALSE, TRUE, e) \in Payloads /\ Payload(FALSE, TRUE, e).exp = e
          /\ Payload(FALSE, TRUE, e).consumed
      BY <2>3, PayloadFacts
    <2> HIDE DEF e
    <2> QED
      BY <1>1, <2>1, <2>2, <2>3, <2>4, IsConsume DEF Mapped
  <1>3. CASE ConsumeWriteDatabase(c) /\ entries[target[c]] # Absent
    <2> DEFINE p == Payload(seen[c].transient, TRUE, entries[target[c]].exp)
    <2>1. entries' = [entries EXCEPT ![target[c]] = p]
      BY <1>3 DEF ConsumeWriteDatabase
    <2>2. /\ seen[c].transient \in BOOLEAN /\ entries[target[c]].exp \in 0..Forever
      BY <1>1, <1>3, PayloadFacts
    <2>3. ASSUME NEW tr \in BOOLEAN, NEW e \in 0..Forever
          PROVE  /\ Payload(tr, TRUE, e) \in Payloads /\ Payload(tr, TRUE, e).exp = e
                 /\ Payload(tr, TRUE, e).consumed
      BY PayloadFacts
    <2>4. p \in Payloads /\ p.exp = entries[target[c]].exp /\ p.consumed
      BY <2>2, <2>3
    <2> HIDE DEF p
    <2> QED
      BY <1>1, <1>3, <2>1, <2>4, IsConsume DEF Mapped
  <1>4. CASE ConsumeWriteDatabase(c) /\ entries[target[c]] = Absent
    BY <1>1, <1>4, Unseen DEF ConsumeWriteDatabase, Mapped
  <1> QED
    BY <1>2, <1>3, <1>4 DEF ConsumeWriteRedis, Mapped

LEMMA RenewMaps ==
  ASSUME IInv, NEW c \in Calls, RenewSwap(c)
  PROVE  Contract!Next
  <1>1. /\ target[c] \in Ids /\ entries[target[c]] # Absent /\ entries[target[c]] \in Payloads
        /\ entries' = [entries EXCEPT ![target[c]] = Renewed(target[c], From(c))]
        /\ UNCHANGED <<now, saves>>
    BY DEF RenewSwap, IInv, TypeOK, InFlight, Standing, Renewing, Ids
  <1>2. From(c) + Remember \in 0..Forever
    <2>1. now \in 0..MaxTime /\ From(c) \in 0..now
      BY DEF IInv, TypeOK, Timed, Clock, From
    <2> QED
      BY <2>1, TimeFacts
  <1>3. entries[target[c]].consumed \in BOOLEAN
    BY <1>1, PayloadFacts
  <1>4. /\ Renewed(target[c], From(c)) \in Payloads
        /\ Renewed(target[c], From(c)).consumed = entries[target[c]].consumed
    BY <1>2, <1>3, PayloadFacts DEF Renewed
  <1> QED
    BY <1>1, <1>2, <1>4, IsRenew

\* Both adapters implement the store of ArtifactContract, step by step: Redis while nothing
\* overlaps its consume and its revocation, the database always.
THEOREM ImplementsContractHolds == Spec => ImplementsContract
  <1>1. Init => Contract!Init
    BY DEF Init, Contract!Init, LifeOf, UsedOf
  <1>2. IInv /\ IInv' /\ [Next]_vars => [(Redis /\ env.overlap) \/ Contract!Next]_(Contract!vars)
    <2> SUFFICES ASSUME IInv, IInv', [Next]_vars PROVE Mapped
      BY DEF Mapped
    <2>1. CASE UNCHANGED vars
      BY <2>1, Unseen DEF vars, store, Mapped
    <2>2. CASE Next
      <3>0. Watch
        BY <2>2 DEF Next
      <3>1. ASSUME NEW id \in Ids, SaveRedis(id) PROVE Mapped
        <4>1. now \in 0..now
          BY DEF IInv, TypeOK
        <4> QED
          BY <3>1, <4>1, SaveMaps DEF SaveRedis, Mapped
      <3>2. ASSUME NEW id \in Ids, Destroy(id) PROVE Mapped
        <4>1. entries' = [x \in Ids |-> IF x \in {id} THEN Absent ELSE entries[x]]
          BY <3>2 DEF Destroy, IInv, TypeOK
        <4> QED
          BY <3>2, <4>1, IsRemove DEF Destroy, Mapped
      <3>3. ASSUME NEW c \in Calls, NEW id \in Ids,
                   \/ SaveSelect(c, id) \/ ConsumeReadRedis(c, id)
                   \/ ConsumeReadDatabase(c, id) \/ RenewRead(c, id)
            PROVE  Mapped
        BY <3>3, Unseen DEF SaveSelect, ConsumeReadRedis, ConsumeReadDatabase, RenewRead, store, Mapped
      <3>4. ASSUME NEW c \in Calls, SaveUpdate(c) \/ SaveInsert(c) PROVE Mapped
        <4>1. target[c] \in Ids /\ now' = now /\ began[c] \in 0..now
          BY <3>4 DEF SaveUpdate, SaveInsert, IInv, TypeOK, Clock
        <4>2. CASE UNCHANGED <<entries, saves>>
          BY <4>1, <4>2, Unseen DEF Mapped
        <4>3. CASE \E tr \in BOOLEAN, ttl \in Ttls : NewPayload(target[c], tr, ttl, began[c])
          BY <4>1, <4>3, SaveMaps DEF Mapped
        <4> QED
          BY <3>4, <4>2, <4>3 DEF SaveUpdate, SaveInsert
      <3>5. ASSUME NEW c \in Calls, ConsumeWriteRedis(c) \/ ConsumeWriteDatabase(c) PROVE Mapped
        BY <3>0, <3>5, ConsumeMaps
      <3>6. ASSUME NEW c \in Calls, RevokeWrite(c) PROVE Mapped
        <4>1. keys[c] \in SUBSET Ids
          BY DEF IInv, TypeOK, Ids
        <4> QED
          BY <3>6, <4>1, IsRemove DEF RevokeWrite, Mapped
      <3>7. ASSUME NEW c \in Calls, RenewSwap(c) PROVE Mapped
        BY <3>7, RenewMaps DEF Mapped
      <3>8. ASSUME NEW c \in Calls,
                   RevokeRead(c) \/ RenewGone(c) \/ RenewLost(c) \/ RenewRetry(c) \/ RenewCheck(c)
            PROVE  Mapped
        BY <3>8, Unseen DEF RevokeRead, RenewGone, RenewLost, RenewRetry, RenewCheck, store, Mapped
      <3>9. CASE RevokeRows \/ Prune
        <4>1. CASE RevokeRows
          BY <4>1, IsRemove DEF RevokeRows, Mapped, Ids
        <4>2. CASE Prune
          <5>1. entries' = [id \in Ids |-> IF id \in {x \in Ids : ~Found(x)} THEN Absent ELSE entries[id]]
            BY <4>2 DEF Prune
          <5> QED
            BY <4>2, <5>1, IsRemove DEF Prune, Mapped
        <4> QED
          BY <3>9, <4>1, <4>2
      <3>10. CASE Tick
        BY <3>10, IsExpiry DEF Mapped
      <3> QED
        BY <2>2, <3>1, <3>2, <3>3, <3>4, <3>5, <3>6, <3>7, <3>8, <3>9, <3>10 DEF Next, Step, Silent, Answering, Ids
    <2> QED
      BY <2>1, <2>2
  <1> QED
    BY <1>1, <1>2, InductiveInvariant, PTL DEF Spec, ImplementsContract
==============================================================================
