--------------------------- MODULE ArtifactAdapters ---------------------------
(* The two adapters that keep the artifacts of oidc-provider: RedisAdapter     *)
(* (adapters/redis_adapter.ts), one key per artifact and a list of the keys of *)
(* the grant, and DatabaseAdapter (adapters/database_adapter.ts), one row per  *)
(* artifact. A call that awaits the store more than once takes one step per    *)
(* access. A behaviour uses one adapter.                                       *)
EXTENDS Naturals, FiniteSets

CONSTANTS Sessions, Tokens,     \* the ids of Session artifacts, of codes and tokens of one grant
          DeviceCodes,          \* those of them that a user code leads to
          Calls,                \* the calls that can be in flight at once
          Ttls, Remember,       \* the lifetimes of what is saved, and the one a renewal grants
          Scenarios,            \* the environments a behaviour may have
          MaxTime, MaxSaves     \* bounds on the clock and on the saves of one session

Ids == Sessions \cup Tokens
ByAlias == Sessions \cup DeviceCodes
Scenario == [adapter : {"redis", "database"}, overlap : BOOLEAN, mixedTtl : BOOLEAN]

ASSUME IdsAssumption == Sessions \cap Tokens = {} /\ Sessions # {} /\ DeviceCodes \subseteq Tokens
ASSUME TimesAssumption ==
  MaxTime \in Nat /\ MaxSaves \in Nat /\ Ttls \subseteq 1..MaxTime /\ Remember \in 1..MaxTime
ASSUME ScenarioAssumption == Scenarios \subseteq Scenario

VARIABLES env,        \* the scenario
          now,        \* the clock, in seconds
          entries,    \* id -> payload and expiry of its key or row
          aliases,    \* Redis: when the uid key of a session, or the user code key, expires
          grantKey,   \* Redis: the list of keys of the grant, and when it expires
          pc, target, \* where each call stands, and the id it is about
          seen, keys, \* the entry, and the list of keys, that the call read
          tries,      \* attempts of a renewal
          began,      \* the clock a save or a renewal on the database read first
          answer,     \* what a renewal that returns in this step answered
          saves,      \* history: saves made of each id
          missing,    \* history: what the call is about could not be renewed at some moment
          before      \* history: the tokens found when the revocation began

calls == <<pc, target, seen, keys, tries, began>>
store == <<entries, aliases, grantKey>>
vars == <<env, now, store, calls, answer, saves, missing, before>>

Absent == [state |-> "absent"]
Payload(transient, consumed, exp) ==
  [state |-> "stored", transient |-> transient, consumed |-> consumed, exp |-> exp]
Forever == 2 * MaxTime + 1      \* no expiry
Payloads == [state : {"stored"}, transient : BOOLEAN, consumed : BOOLEAN, exp : 0..Forever]
AnyId == CHOOSE id \in Sessions : TRUE
Silence == [c \in Calls |-> "none"]
NoList == [keys |-> {}, exp |-> 0]

Redis == env.adapter = "redis"
Database == env.adapter = "database"

\* find: a key that has not expired, a row that is not past expires_at.
FoundIn(es, t, id) == es[id] # Absent /\ es[id].exp > t
RenewableIn(es, t, id) == FoundIn(es, t, id) /\ ~es[id].transient
Found(id) == FoundIn(entries, now, id)
Renewable(id) == RenewableIn(entries, now, id)

\* findByUid, findByUserCode: through a key of its own in Redis, by column in the database.
FoundByAlias(id) == Found(id) /\ (Redis => aliases[id] > now)

Init ==
  /\ env \in Scenarios
  /\ now = 0
  /\ entries = [id \in Ids |-> Absent]
  /\ aliases = [id \in ByAlias |-> 0]
  /\ grantKey = NoList
  /\ pc = [c \in Calls |-> "idle"]
  /\ target = [c \in Calls |-> AnyId]
  /\ seen = [c \in Calls |-> Absent]
  /\ keys = [c \in Calls |-> {}]
  /\ tries = [c \in Calls |-> 0]
  /\ began = [c \in Calls |-> 0]
  /\ answer = Silence
  /\ saves = [id \in Ids |-> 0]
  /\ missing = [c \in Calls |-> FALSE]
  /\ before = [c \in Calls |-> {}]

\* In the scenarios without overlap, a consume or a revocation on Redis runs alone.
Touches == {"consume", "revoke"}
Undisturbed == env.overlap \/ \A c \in Calls : pc[c] \notin Touches
Idle == \A c \in Calls : pc[c] = "idle"

Begin(c, step, id) ==
  /\ pc[c] = "idle"
  /\ pc' = [pc EXCEPT ![c] = step]
  /\ target' = [target EXCEPT ![c] = id]
  /\ began' = [began EXCEPT ![c] = IF Database THEN now ELSE 0]

Return(c) ==
  /\ pc' = [pc EXCEPT ![c] = "idle"]
  /\ target' = [target EXCEPT ![c] = AnyId]
  /\ began' = [began EXCEPT ![c] = 0]

\* ---------------------------------------------------------------------- upsert

\* Codes and tokens are saved once, under a fresh id; a session as often as it changes.
MaySave(id) ==
  IF id \in Tokens
  THEN saves[id] = 0 /\ \A c \in Calls : pc[c] = "insert" => target[c] # id
  ELSE saves[id] < MaxSaves

NewPayload(id, transient, ttl, at) ==
  /\ transient => id \in Sessions
  /\ env.mixedTtl \/ id \in Sessions \/ \A other \in Ttls : ttl >= other
  /\ entries' = [entries EXCEPT ![id] = Payload(transient, FALSE, at + ttl)]
  /\ saves' = [saves EXCEPT ![id] = @ + 1]

\* variant: only a uid gets a key of its own
AliasesWithUid(id, ttl) ==
  IF id \in Sessions THEN [aliases EXCEPT ![id] = now + ttl] ELSE aliases

AliasesWith(id, ttl) ==
  IF id \in ByAlias THEN [aliases EXCEPT ![id] = now + ttl] ELSE aliases

\* variant: the key of a token is not pushed to the list of its grant
SaveRedisUnlisted(id) ==
  /\ Redis /\ Undisturbed /\ MaySave(id)
  /\ \E transient \in BOOLEAN, ttl \in Ttls :
       /\ NewPayload(id, transient, ttl, now)
       /\ aliases' = AliasesWith(id, ttl)
       /\ grantKey' = IF id \in Tokens /\ grantKey.keys = {}
                      THEN [keys |-> {id}, exp |-> now + ttl] ELSE grantKey
  /\ UNCHANGED <<env, now, calls, before>>

SaveRedis(id) ==
  /\ Redis /\ Undisturbed /\ MaySave(id)
  /\ \E transient \in BOOLEAN, ttl \in Ttls :
       /\ NewPayload(id, transient, ttl, now)
       /\ aliases' = AliasesWith(id, ttl)
       /\ grantKey' = IF id \in Tokens
                      THEN [keys |-> grantKey.keys \cup {id}, exp |-> now + ttl]
                      ELSE grantKey
  /\ UNCHANGED <<env, now, calls, before>>

SaveSelect(c, id) ==
  /\ Database /\ MaySave(id)
  /\ Begin(c, IF entries[id] # Absent THEN "update" ELSE "insert", id)
  /\ UNCHANGED <<env, now, store, seen, keys, tries, saves, before>>

\* expires_at counts from the start of the call. The update of a row that is gone stores nothing.
SaveUpdate(c) ==
  /\ pc[c] = "update"
  /\ \/ /\ entries[target[c]] # Absent
        /\ \E transient \in BOOLEAN, ttl \in Ttls :
             NewPayload(target[c], transient, ttl, began[c])
     \/ entries[target[c]] = Absent /\ UNCHANGED <<entries, saves>>
  /\ Return(c)
  /\ UNCHANGED <<env, now, aliases, grantKey, seen, keys, tries, before>>

\* The insert of a row that exists fails on the primary key.
SaveInsert(c) ==
  /\ pc[c] = "insert"
  /\ \/ /\ entries[target[c]] = Absent
        /\ \E transient \in BOOLEAN, ttl \in Ttls :
             NewPayload(target[c], transient, ttl, began[c])
     \/ entries[target[c]] # Absent /\ UNCHANGED <<entries, saves>>
  /\ Return(c)
  /\ UNCHANGED <<env, now, aliases, grantKey, seen, keys, tries, before>>

\* --------------------------------------------------------------------- consume

\* Redis answers the time to live in whole seconds: 0 in the last half second, and -1,
\* which the code treats alike, when there is no expiry.
RemainingOf(id) ==
  LET left == entries[id].exp - now IN
  IF entries[id].exp = Forever THEN {0} ELSE {left} \cup (IF left = 1 THEN {0} ELSE {})

ConsumeReadRedis(c, id) ==
  /\ Redis /\ (env.overlap \/ Idle) /\ Found(id)
  /\ Begin(c, "consume", id)
  /\ \E ttl \in RemainingOf(id) : seen' = [seen EXCEPT ![c] = Payload(FALSE, TRUE, ttl)]
  /\ UNCHANGED <<env, now, store, keys, tries, saves, before>>

\* The key is set whether or not it is still there, without expiry when the TTL was 0.
ConsumeWriteRedis(c) ==
  /\ Redis /\ pc[c] = "consume"
  /\ LET exp == IF seen[c].exp = 0 THEN Forever ELSE now + seen[c].exp
     IN  entries' = [entries EXCEPT ![target[c]] = Payload(FALSE, TRUE, exp)]
  /\ Return(c)
  /\ seen' = [seen EXCEPT ![c] = Absent]
  /\ UNCHANGED <<env, now, aliases, grantKey, keys, tries, saves, before>>

ConsumeReadDatabase(c, id) ==
  /\ Database /\ Found(id)
  /\ Begin(c, "consume", id)
  /\ seen' = [seen EXCEPT ![c] = entries[id]]
  /\ UNCHANGED <<env, now, store, keys, tries, saves, before>>

ConsumeWriteDatabase(c) ==
  /\ Database /\ pc[c] = "consume"
  /\ LET id == target[c] IN
     entries' = IF entries[id] = Absent THEN entries
                ELSE [entries EXCEPT ![id] = Payload(seen[c].transient, TRUE, entries[id].exp)]
  /\ Return(c)
  /\ seen' = [seen EXCEPT ![c] = Absent]
  /\ UNCHANGED <<env, now, aliases, grantKey, keys, tries, saves, before>>

\* --------------------------------------------------- destroy, revokeByGrantId

Destroy(id) ==
  /\ Database \/ Undisturbed
  /\ entries' = [entries EXCEPT ![id] = Absent]
  /\ UNCHANGED <<env, now, aliases, grantKey, calls, saves, before>>

RevokeRead(c) ==
  /\ Redis /\ (env.overlap \/ Idle)
  /\ pc[c] = "idle"
  /\ pc' = [pc EXCEPT ![c] = "revoke"]
  /\ keys' = [keys EXCEPT ![c] = grantKey.keys]
  /\ before' = [before EXCEPT ![c] = {id \in Tokens : Found(id)}]
  /\ UNCHANGED <<env, now, store, target, seen, tries, began, saves>>

RevokeWrite(c) ==
  /\ pc[c] = "revoke"
  /\ entries' = [id \in Ids |-> IF id \in keys[c] THEN Absent ELSE entries[id]]
  /\ grantKey' = NoList
  /\ Return(c)
  /\ keys' = [keys EXCEPT ![c] = {}]
  /\ before' = [before EXCEPT ![c] = {}]
  /\ UNCHANGED <<env, now, aliases, seen, tries, saves>>

RevokeRows ==
  /\ Database
  /\ entries' = [id \in Ids |-> IF id \in Tokens THEN Absent ELSE entries[id]]
  /\ UNCHANGED <<env, now, aliases, grantKey, calls, saves, before>>

\* ---------------------------------------------------------------- renewSession

\* variant: the lifetime is taken for milliseconds
RenewedInMilliseconds(id, at) == Payload(FALSE, entries[id].consumed, at + 1000 * Remember)

Renewed(id, at) == Payload(FALSE, entries[id].consumed, at + Remember)

\* Redis counts the lifetime when its script runs, the database from the start of the call.
From(c) == IF Redis THEN now ELSE began[c]

RenewRead(c, id) ==
  /\ Database \/ Undisturbed
  /\ Renewable(id)
  /\ Begin(c, "renew", id)
  /\ seen' = [seen EXCEPT ![c] = entries[id]]
  /\ tries' = [tries EXCEPT ![c] = 1]
  /\ UNCHANGED <<env, now, store, keys, saves, before>>

Answer(c, yes) ==
  /\ Return(c)
  /\ seen' = [seen EXCEPT ![c] = Absent]
  /\ tries' = [tries EXCEPT ![c] = 0]
  /\ answer' = [Silence EXCEPT ![c] = IF yes THEN "yes" ELSE "no"]

\* variant: the renewed payload is set without comparing
RenewSwapBlind(c) ==
  /\ pc[c] = "renew"
  /\ entries' = [entries EXCEPT ![target[c]] = Payload(FALSE, seen[c].consumed, From(c) + Remember)]
  /\ aliases' = IF Redis THEN [aliases EXCEPT ![target[c]] = now + Remember] ELSE aliases
  /\ Answer(c, TRUE)
  /\ UNCHANGED <<env, now, grantKey, keys, saves, before>>

\* variant: the renewal forgets the key of the uid
RenewSwapNoAlias(c) ==
  /\ pc[c] = "renew"
  /\ entries[target[c]] = seen[c]
  /\ entries' = [entries EXCEPT ![target[c]] = Renewed(target[c], From(c))]
  /\ Answer(c, TRUE)
  /\ UNCHANGED <<env, now, aliases, grantKey, keys, saves, before>>

\* The compare-and-set: a script in Redis, a conditional UPDATE in the database.
RenewSwap(c) ==
  /\ pc[c] = "renew"
  /\ entries[target[c]] = seen[c]
  /\ entries' = [entries EXCEPT ![target[c]] = Renewed(target[c], From(c))]
  /\ aliases' = IF Redis THEN [aliases EXCEPT ![target[c]] = now + Remember] ELSE aliases
  /\ Answer(c, TRUE)
  /\ UNCHANGED <<env, now, grantKey, keys, saves, before>>

\* Redis: the key is gone.
RenewGone(c) ==
  /\ Redis /\ pc[c] = "renew"
  /\ entries[target[c]] = Absent
  /\ Answer(c, FALSE)
  /\ UNCHANGED <<env, now, store, keys, saves, before>>

\* Somebody else wrote: Redis tries three times before it looks what is there, the
\* database looks at once.
RenewLost(c) ==
  /\ pc[c] = "renew"
  /\ entries[target[c]] # seen[c]
  /\ Redis => entries[target[c]] # Absent
  /\ pc' = [pc EXCEPT ![c] = IF Redis /\ tries[c] < 3 THEN "retry" ELSE "check"]
  /\ UNCHANGED <<env, now, store, target, seen, keys, tries, began, saves, before>>

RenewRetry(c) ==
  /\ pc[c] = "retry"
  /\ \/ /\ Renewable(target[c])
        /\ pc' = [pc EXCEPT ![c] = "renew"]
        /\ seen' = [seen EXCEPT ![c] = entries[target[c]]]
        /\ tries' = [tries EXCEPT ![c] = @ + 1]
        /\ answer' = Silence
        /\ UNCHANGED <<target, began>>
     \/ ~Renewable(target[c]) /\ Answer(c, FALSE)
  /\ UNCHANGED <<env, now, store, keys, saves, before>>

\* variant: a lost comparison answers that the session is gone
RenewCheckRefuses(c) ==
  /\ pc[c] = "check"
  /\ Answer(c, FALSE)
  /\ UNCHANGED <<env, now, store, keys, saves, before>>

RenewCheck(c) ==
  /\ pc[c] = "check"
  /\ Answer(c, Renewable(target[c]))
  /\ UNCHANGED <<env, now, store, keys, saves, before>>

\* -------------------------------------------------------------- time and prune

\* Redis drops what expires, the database keeps the row until it is pruned.
Tick ==
  /\ Database \/ Undisturbed
  /\ now < MaxTime
  /\ now' = now + 1
  /\ entries' = [id \in Ids |-> IF Redis /\ entries[id] # Absent /\ ~FoundIn(entries, now + 1, id)
                                THEN Absent ELSE entries[id]]
  /\ grantKey' = IF grantKey.exp > now + 1 THEN grantKey ELSE NoList
  /\ aliases' = [id \in ByAlias |-> IF aliases[id] > now + 1 THEN aliases[id] ELSE 0]
  /\ UNCHANGED <<env, calls, saves, before>>

Prune ==
  /\ Database
  /\ entries' = [id \in Ids |-> IF Found(id) THEN entries[id] ELSE Absent]
  /\ UNCHANGED <<env, now, aliases, grantKey, calls, saves, before>>

\* The history of a renewal: whether its session could not be renewed at some moment.
Renewing == {"renew", "retry", "check"}
Watch ==
  missing' = [c \in Calls |->
    /\ pc[c] \in Renewing
    /\ missing[c] \/ ~RenewableIn(entries, now, target[c])]

Answering(c) == RenewSwap(c) \/ RenewGone(c) \/ RenewRetry(c) \/ RenewCheck(c)

Silent ==
  \/ \E id \in Ids : SaveRedis(id) \/ Destroy(id)
  \/ \E c \in Calls, id \in Ids : SaveSelect(c, id)
  \/ \E c \in Calls, id \in Tokens : ConsumeReadRedis(c, id) \/ ConsumeReadDatabase(c, id)
  \/ \E c \in Calls, id \in Sessions : RenewRead(c, id)
  \/ \E c \in Calls :
       \/ SaveUpdate(c) \/ SaveInsert(c)
       \/ ConsumeWriteRedis(c) \/ ConsumeWriteDatabase(c)
       \/ RevokeRead(c) \/ RevokeWrite(c)
       \/ RenewLost(c)
  \/ RevokeRows \/ Tick \/ Prune

Step ==
  \/ Silent /\ answer' = Silence
  \/ \E c \in Calls : Answering(c)

Next == Step /\ Watch

Spec == Init /\ [][Next]_vars

-------------------------------------------------------------------------------
(* Properties *)

PcValues == {"idle", "insert", "update", "consume", "revoke", "renew", "retry", "check"}

\* Every variable keeps its type: entries carry a natural expiry, calls stand at a known step.
TypeOK ==
  /\ env \in Scenario /\ now \in Nat
  /\ entries \in [Ids -> Payloads \cup {Absent}]
  /\ aliases \in [ByAlias -> Nat]
  /\ grantKey \in [keys : SUBSET Tokens, exp : Nat]
  /\ pc \in [Calls -> PcValues] /\ target \in [Calls -> Ids]
  /\ seen \in [Calls -> Payloads \cup {Absent}]
  /\ keys \in [Calls -> SUBSET Tokens] /\ tries \in [Calls -> 0..3]
  /\ began \in [Calls -> Nat]
  /\ answer \in [Calls -> {"none", "yes", "no"}]
  /\ saves \in [Ids -> Nat]
  /\ missing \in [Calls -> BOOLEAN] /\ before \in [Calls -> SUBSET Tokens]

\* The atomic store that an adapter stands for, in terms of its entries.
LifeOf(id) ==
  IF entries[id] = Absent THEN "absent" ELSE IF entries[id].exp > now THEN "live" ELSE "lapsed"
UsedOf(id) == entries[id] # Absent /\ entries[id].consumed

Contract == INSTANCE ArtifactContract WITH
  life <- [id \in Ids |-> LifeOf(id)], used <- [id \in Ids |-> UsedOf(id)]

\* Both adapters implement the atomic store (adapter_contract.ts): whatever the order of the
\* accesses of the calls in flight, nothing that was removed or consumed comes back without
\* a save. Redis, only while nothing overlaps its consume and its revocation.
ImplementsContract ==
  Contract!Init /\ [][(Redis /\ env.overlap) \/ Contract!Next]_(Contract!vars)

\* On Redis a consume may put back an entry that a revocation deleted in between. Even then
\* what comes back is spent: only a save makes an artifact that can be used.
ComesBackSpent ==
  [][\A id \in Ids :
       entries'[id] # Absent /\ saves'[id] = saves[id]
       => entries'[id].consumed \/ (entries[id] # Absent /\ ~entries[id].consumed)]_vars

\* revokeByGrantId deletes every payload of the grant (redis_adapter.spec.ts:73): what was
\* stored when it began is not found when it returns. On Redis, for tokens of one lifetime
\* that were not consumed in their last half second.
RevocationComplete ==
  [][\A c \in Calls :
       pc[c] = "revoke" /\ pc'[c] = "idle" /\ ~env.overlap /\ ~env.mixedTtl
       => \A id \in before[c] : entries[id] = Absent \/ entries[id].exp # Forever
                               => ~FoundIn(entries', now', id)]_vars

\* renewSession answers true only if the session is then there for the lifetime it was
\* given or that a concurrent writer gave it, and false only if it could not be renewed at
\* some moment of the call: ensureRpSession logs the user out on false. On the database the
\* lifetime counts from the start of the call, which must not last as long itself.
RenewalIsHonest ==
  [][\A c \in Calls :
       pc[c] \in Renewing /\ pc'[c] = "idle"
       => /\ answer'[c] = "yes" /\ (Database => now < began[c] + Remember)
             => RenewableIn(entries', now', target[c])
          /\ answer'[c] = "no" => missing'[c]]_vars

\* A session that can be found by id is found by its uid, and a device code by its user code
\* as long as it is not consumed: the key of its own that Redis keeps for it never expires
\* first. (A code consumed in its last half second is stored without expiry, and outlives
\* its key.) A device code counts from the save that binds it to its grant.
AliasLeadsToEntry ==
  \A id \in ByAlias :
    Found(id) /\ (id \in DeviceCodes => ~entries[id].consumed) => FoundByAlias(id)
===============================================================================
