# Formal models of AuthKit

AuthKit (`@adonis-agora/authkit-*`) is an identity provider for AdonisJS: accounts, logins, a
second factor, OpenID Connect on top of `oidc-provider`, a managed signing keystore, delegation to
personal agents, an account console and an admin console. This directory holds TLA+ models of the
parts whose correctness depends on the order in which requests, timers and processes interleave,
the TLC configurations that check them, and the TLAPS proofs about them.

Below, paths are relative to `src/packages/authkit-server/src/` unless they begin with another
directory of the repository.

- [1. The system](#1-the-system)
- [2. The modules](#2-the-modules)
- [3. The runs](#3-the-runs)
- [4. The proofs](#4-the-proofs)
- [5. What is abstracted, and what is not modelled](#5-what-is-abstracted-and-what-is-not-modelled)
- [6. Plan](#6-plan)

## 1. The system

Node.js is single-threaded, so the code between two `await`s is atomic. A handler awaits the
database or the limiter several times, though, and several web processes share both. What can go
wrong is therefore nearly always the same: state read before an `await` and used after it.

| Component | State | Operations | Interacts with | Hard behaviour | What makes it correct |
|---|---|---|---|---|---|
| Delegation to personal agents, PACT (`agents/delegation_service.ts`, `delegation_store.ts`) | device codes, grants, refresh tokens | request, poll and exchange a code; approve, deny; refresh; verify; revoke | account store (is the account active), keystore (signs), consent screen, account console | requests race for a code, a refresh token or the grant of a triple; a process dies in the middle of an approval | credentials are single use; tokens carry consented scopes to the right agent; one grant per account and agent; reuse revokes |
| Signing keystore (`keys/`, `provider/key_rotation_scheduler.ts`, `single_flight_lock.ts`, `keystore_reload.ts`, `oidc_service.ts`) | the keystore in a vault; in each instance the loaded keystore and the last head | ensure at boot, rotate (scheduler, endpoint, command), poll and reload | vault drivers, `@adonisjs/lock`, provider rebuild | several processes, a lock with a TTL, crashes, failed reloads | no rotated key is lost, one rotation per old key, every instance loads the keystore |
| Mailed credentials (`accounts/lucid_store/core.ts`, `host/otp_login.ts`) | `passwordResetToken` and its expiry: one column for reset, magic link, code and unlock link | issue, consume, verify a code | mail, interactions | one column with many writers, some of them in a transaction and some not | single use, bounded guessing, nothing consumed comes back |
| Second factor (`accounts/lucid_store/mfa.ts`, `host/otp_lockout.ts`, `mfaVerify` and `otpUnlock`) | the row of `auth_mfa`, counters of the limiter, the unlock link | enrol, confirm, verify, recover, regenerate, disable, lock, unlock | limiter, mail, passkeys (same row) | read and partial upsert without condition; a lock check before, a count after | no replay, no retired code, confirmed secrets only, bounded wrong answers, a valid link unlocks |
| Password login (`host/login_attempt.ts`, `account_lockout.ts`) | failure, lock and lock-count counters | attempt, record, clear | limiter, account store | counters in several calls | progressive lock, one event per lock |
| E-mail ownership (`core.ts` 358-525) | `emailVerificationToken`, `email` | verify, request and confirm a change | mail | check, then save | an account keeps the address it confirmed last |
| OIDC artifacts (`adapters/`) | entries by id, indices by uid, user code and grant | upsert, find, consume, destroy, revoke by grant, renew a session | `oidc-provider` | read-modify-write over Redis; non-atomic indices | nothing revoked, destroyed or spent comes back; revocations are complete; renewals tell the truth |
| Sign-out and revocation (`host/admin_sessions_service.ts`, single-session logins, client package) | IdP sessions, grants, tokens; the cookie of each app; `auth_session_revocations` | revoke all, all but one, a client, an organisation; refresh and check of an app's session | artifacts, delegations, apps | listings and deletions one by one, failures half-way, cutoffs in seconds, refreshes in flight | old devices are out, the preserved one is not |
| Console session (`host/oidc_rp_guard.ts`, `persistent_rp_session.ts`, `idp_session_bridge.ts`) | the browser's session at the host, linked to a session of the IdP | sign in, visit, renew, log out | IdP sessions, accounts | overlapping requests store what they loaded | never outlives or changes the account of the IdP session; a logout sticks |
| Poppy sign-in (`agents/poppy/`) | authorization, device and browser requests, Sessions, grants, access tokens | authorize, decide, exchange, complete by mailed code, refresh, act, join a browser, disconnect | DelegationStore, agent registry, MCP bridge | decisions and exchanges that overlap; two accounts on one Session; what is in flight when something ends | one grant per consent, scopes and account as consented, what ended stays ended |
| Agent registry and runtime (`agents/registry_store.ts`, `runtime.ts`) | table, cached snapshot, bearers at `oidc-provider` | look up, write, invalidate, disconnect, mint and destroy bearers | Poppy, PACT | a load in flight across an invalidation; a bearer minted during a revocation | own writes are seen at once; bearers end with their grant |
| Login flow (`host/controllers/`, `host/custom_mfa.ts`, `provider/interaction_actions.ts`) | session keys, interaction | password, mailed link and code, social, passkey, custom method, second factor, forced change, finish | nearly everything | two tabs on one session, overlapping requests, factors and accounts that change meanwhile | nobody signs in without the challenge the account owes |
| Sudo, trusted devices, impersonation (`host/sudo_mode.ts`, `trusted_device.ts`, `impersonation.ts`) | session timestamps, cookies | confirm, trust, start, stop | login flow | stale confirmations | freshness |
| Organizations and policies (`host/org_policy.ts`, `org_access_revocation.ts`) | memberships, invitations, policies | invite, join, leave, change a role, revoke | sessions, grants | owners counted, then written; revocation against use | an organization keeps an owner; no access after removal |
| Runtime settings, account deletion, PATs, admin, audit, events, observability, password policy, doctor, schema, commands, MCP | tables of their own | mostly CRUD | | settings cache; deletion in several steps | |
| `authkit-core`, `-sdk`, `-react`, `-testing`, `authkit-vault-{aws,gcp,azure}`, `apps/docs` | types, HTTP calls, views, drivers | | | | |

`PROJECT.json` lists these components with their status, and under `hazards` what is hard to test
in them, each at its line, with the property that would catch it or the reason why none does.

## 2. The modules

Each component has a module with its state, one action per atomic step of an operation, its
specification and its properties; an `MC` module with the model values of its runs; and, where
theorems are proved, a `Proofs` module that extends it. A request or process in flight is a record
with a program counter (`proc[p].pc`) and the local variables it carries over an `await`. In each
module the definitions that begin with the comment `variant:` are not part of the specification:
they are the plausible bugs with which each property was tried out.

### AgentDelegation

`device`, `grant` and `token` are the three tables; `token` merges the access token with the
refresh row, since `#tokenResponse` hands out both or neither. `active` is what `isAccountActive`
answers, `now` the clock. `consented` is a history variable: what was approved when a code was
claimed.

| Action | Code |
|---|---|
| `RequestDevice` | `requestDevice`: deletes the expired codes, inserts a pending one |
| `ExchangeBegin`, `ExchangeConsume`, `Issue` | `exchangeDeviceCode`: reads code, grant and account; `transitionDevice` approved to consumed; `#tokenResponse` |
| `RefreshBegin`, `RefreshSpend`, `RefreshReuse`, `Issue` | `refresh`: reads; `useRefreshToken`; `revokeGrantById` for a spent token |
| `ApproveBegin`, `ApproveClaim`, `ApproveLookup`, `ApproveExtend` | `approve`: reads the code; claims it; looks for a live grant; adds the scopes to it |
| `ApproveInsert`, `ConvergeRead`, `ConvergeMerge`, `ConvergeRetire`, `ApproveBind` | `approve` without a live grant, `#converge`, `setDeviceGrant` |
| `Deny`, `RevokeGrant`, `RevokeAllGrants` | one conditional UPDATE each |
| `Crash`, `SetActive`, `Tick` | a process dies or a call throws between two steps; accounts are suspended; time passes |

The conditional UPDATEs of the store (`WHERE status = ...`, `WHERE used_at IS NULL`, `WHERE
revoked_at IS NULL`) are single actions, and the plain reads before them are separate ones. Each
handler reads the clock once (`at`), as the code does. `verify` only reads: it accepts a token
under the condition `Usable`.

### KeystoreRotation

`vault` is the sequence of keys, the signing key first. A key is numbered by the write that created
it, so the first key also is the head token, which every write changes. `loaded`, `last`, `poll`,
`sched`, `phase` and `rot` are the state of each process; `rot` holds one rotation in flight
(`#rotateChain` queues the others). A rotation is three steps, as it is in the code: read, write,
reload. `SchedulerLock` takes the lock, gives up until the next tick, or, where the host has no lock provider
(the scenario `noLock`), rotates without one (`single_flight_lock.ts:30`). `retire` is `keep = 1`. `env` is a scenario, chosen in the first state and never changed:
the set of things that may happen in this behaviour. It makes one run out of several questions, and
lets a property say in which scenarios it is meant.

### CredentialSlots

`slot` is the column of each account, `lock` the row lock of the transaction in `verifyLoginCode`. An
UPDATE waits for the lock (`Overwrites`), a plain SELECT does not (`Reads`); this difference is what
the properties are about. `Failed` and `Comparable` are `evaluateLoginOtp`. `uses`, `guesses` and
`issued` are history variables. `ConsumePasswordResetRefused` is the password policy throwing
between the read and the save.

### SecondFactor

`row` is `auth_mfa`, `fails` and `locked` are the limiter, `slot` the unlock link. Each operation of
the store is a read followed by a partial upsert; `mfaVerify` is lock check, read, upsert and
clear, or lock check, read, and the four steps of `recordFailure` followed by the mail. A TOTP code
is a pair of a secret and a window. `FindsByToken` says whether the account store offers one of the two
look-ups that `otpUnlock` tries; the store that is shipped offers neither (see `FactorUnlockLucid`). The unlocking is
modelled for the stores that do. `proven`, `retired`, `uses`, `wrong` and `answer` are history
variables. `StartTotpEnrollment` and `DisableMfa` write without using what they read. `RegisterPasskey`
reads whether the factor is on and, if not, writes only that it is: whatever runs between the two,
the result is the one of registering before it or after it, so the two are one step.

### ArtifactContract, ArtifactAdapters

`ArtifactContract` is the store the provider believes it has: look-ups by id, atomic operations,
nothing comes back without a save. `ArtifactAdapters` is what the two adapters do, and
`ImplementsContract` says that every step of theirs is a step of the contract or none (`life` is mapped
to what a look-up by id finds, `used` to the consumed mark). A Redis entry and its TTL expire by
`Tick`; the rows of the database lapse by the clock and go with `Prune`. `aliases` is the key of its own that Redis keeps
for the uid of a session and for the user code of a device code (`ByAlias`), with its expiry; on the database these are
columns of the row. `began` is the time at which a save or a renewal on the database computed `expires_at`, which it writes
after its first access.

| Action | Code |
|---|---|
| `SaveRedis`, `SaveSelect`, `SaveUpdate`, `SaveInsert` | `upsert`: one MULTI in Redis; a SELECT, then an UPDATE or INSERT that may find another row |
| `ConsumeReadRedis`, `ConsumeWriteRedis`, `ConsumeReadDatabase`, `ConsumeWriteDatabase` | `consume`: reads the entry and writes it with its mark |
| `Destroy`, `RevokeRead`, `RevokeWrite`, `RevokeRows` | `destroy`; `revokeByGrantId`, in two calls on Redis, one DELETE in the database |
| `RenewRead`, `RenewSwap`, `RenewGone`, `RenewLost`, `RenewRetry`, `RenewCheck` | `renewSession`: compare-and-swap with retries (Redis), conditional UPDATE and its check (database) |

### IdpSessions, SessionRevocation, ConsoleSession, SignOut

`IdpSessions` holds what the other three share: the provider's sessions. `SessionRevocation` is
`AdminSessionsService` and the apps (`authkit-client`): `BeginLogin`, `FindNewSession`, `ListSessions`,
`DestroyListed` (the single-session policy and `revokeAll`/`revokeAllExcept`), `ListGrants`, `ListTokens`,
`DestroyToken`, `RevokeByGrantId`, `DestroyGrant`, `EndClientGrants`, `RevokeAgentGrants`, `Record`, with `Fail`
between any two; `AppSignIn`, `AppRefresh`, `BeginAppRefresh`, `EndAppRefresh`, `AppRequest` for the
apps. `ConsoleSession` is one browser whose session at the host is linked to a session of the IdP,
through the guard or through the bridge (`env.console`): each request loads the session (`Load`),
reads the IdP (`ReadIdp`), checks the account (`Gate`), renews (`Renew`), destroys on logout
(`ReadForLogout`, `DestroyIdp`), and stores its copy at the end (`Store`). `@adonisjs/session` writes the whole copy that
a request loaded as soon as any key of it changed, not only the login's: the mark of sudo mode (`host/sudo_mode.ts:136-141`), a
passkey challenge, a flash message. Any request may therefore store its copy, one that changed the login must, and the last
store wins. `SignOut`
composes the two over the same sessions, with a clock in seconds.

### LoginFlow

One browser and its session: `session` has the keys of `interaction_controller.ts` (address typed, pending
account and primary factor, custom primary, the flow of `custom_mfa.ts`, WebAuthn challenge, expired
password, social login that waits), `current` is the interaction of the provider's cookie, `done` how each
ended, `trust` the trusted device cookie. A request works on a copy of the session (`Begin` ... `Commit`) and
two may overlap. There is one action per handler: `Identifier`, `SwitchIdentifier`, `Login`
(`WrongPassword`), `ChangeExpiredPassword`, `EmailProof` (link and code), `SocialCallback`, `SocialContinue`,
`CustomLogin`, `MfaVerify` (`WrongCode`), `PasskeyOptions`, `PasskeyVerify` (`WrongPasskey`), `CustomMfaBegin`,
`CustomMfaVerify`. `SecondFactorGate` is what each primary factor goes through: `LegacyGate` without `cfg.mfa`,
`ConfiguredGate` with it; `FinishVerifiedMfa` and `LegacyFinish` end a challenge. `EnableTotp`, `ResetMfa`,
`RegisterPasskey`, `RemovePasskey`, `Bar`, `PasswordExpires` and `FlowLapses` are what may happen to the account
and the flow meanwhile. `armed`, `refused`, `proved` and `vouched` are history variables: what the account owed when the
request began, and what the browser has really proved.

### PoppySignIn

`requests`, `grants`, `tokens` and `sessions` are the tables, `provider` the access tokens that
`oidc-provider` keeps for the MCP bridge, `registry` the agent's row with the snapshot and the load in flight of
one process, `browser` the app session of one browser. A handler takes a step for each access.

| Action | Code |
|---|---|
| `StartAuthorization`, `DeviceAuthorization`, `Mediated`, `StartBrowserJoin` | a request of each kind is inserted, with the housekeeping of expired rows |
| `DecideAuthorization`, `DecideDevice`, `DecideWrite` | approval and denial: the row is read, and changed only if it is still pending |
| `AuthorizationCode`, `DeviceCode`, `Consume`, `Reuse`, `MediatedComplete`, `MediatedCode`, `GuessWrong`, `GuessRight`, `SignIn`, `InsertGrant`, `Issue`, `StoreToken`, `Note` | `token`: from the code to the grant, the access token (or bearer) and the note of the grant on the request |
| `Refresh` | a refresh token, possibly for narrower scopes |
| `Disconnect`, `RevokeRow`, `RevokeBearers`, `Revoked`, `ListOfClient`, `EndSessions`, `AgentDropsToken` | `revokeGrant` with its bearers, for the agent, the user, or all grants of the agent; Sessions end |
| `Rule`, `WriteRule`, `Invalidate`, `LoadRows`, `Loaded`, `LoadFails`, `SnapshotLapses` | block and unblock of the agent; the snapshot of the registry |
| `Access`, `FindSession`, `Bind`, `Act` | a request of the agent with a Session id: the Session is found or bound to the account |
| `AuthorizeJoin`, `CompleteJoin`, `UseJoin`, `Enter`, `Browse`, `BrowseGrant`, `OwnLogin` | the browser joins a Session, and each of its later requests asks whether the grant still stands |

`held`, `consents`, `ended`, `outlived`, `blocked` and `acted` are history variables: what answers
promised, and for whom each Session was used.

## 3. The runs

| Run | Expected | Question |
|---|---|---|
| `AgentDelegation` | pass | codes, tokens, scopes, decisions, reuse and the one grant of a triple, with everything the environment may do |
| `AgentApprovalsConverge` | violation | do two simultaneous approvals converge to the same grant? |
| `KeystoreRotation` | pass | rotation, scheduling and propagation, safety and liveness |
| `KeystoreBaseline` | violation | does every instance end up with the rotated keystore? |
| `CredentialSlots` | pass | bounded guessing, and a column that only moves forward |
| `CredentialJointUse` | violation | are a link and its code jointly single use? |
| `SecondFactor` | pass | replay, retired codes, confirmed secrets and lockout |
| `ArtifactAdapters` | pass | do both adapters implement the atomic store; do revocations and renewals keep their word? |
| `SignOut` | pass | what is left after a revocation, and do browser sessions follow the IdP? |
| `LoginFlow` | pass | can any order of requests, tabs and changes sign in without the challenge that is owed? |
| `PoppySignIn` | pass | does a consent give one grant, and does what ended stay ended? |
| `FactorUnlockLucid` | violation | does a valid unlock link unlock, with the account store that is shipped? |

**What the passing runs show.** Device codes and refresh tokens give one pair each (`SingleUse`);
tokens reach the agent and account of their grant (`RightHolder`) with scopes that its account approved for that
agent, whichever approval extended the grant meanwhile (`ScopesConsented`); a decision is final (`DecisionIsFinal`); a spent refresh token costs the grant,
and revoked grants stay revoked even when an approval in flight extends them (`ReuseRevokes`); two
live grants of a triple mean an approval that has not finished, or died (`OneLiveGrant`). The
scheduler never drops a key another rotation wrote (`NoLostRotation`) and never replaces a key that
is no longer old (`RotatesOnlyOldKey`); an old key is replaced although a lock holder may die
(`OldKeyIsReplaced`); a head that differs from the one a poller saw leads to a load
(`PropagatesAfterBaseline`). A login code is compared at most `MaxAttempts` times
(`GuessesBounded`), and a column is never rolled back (`SlotOnlyAdvances`, `ConsumedIsGone`). With
requests one after the other, TOTP and recovery codes are accepted once (`TotpSingleUse`,
`RecoverySingleUse`), replaced codes stay out (`RetiredStayOut`) and only a confirmed secret counts
(`TotpIsConfirmed`); with overlapping requests at most `MaxAttempts` plus the number of other
requests in flight wrong answers are verified before the lock (`WrongAnswersBounded`). Both adapters implement the atomic store
(`ImplementsContract`); even where an overlapping consume puts a deleted entry back, what comes back is
spent (`ComesBackSpent`); a revocation leaves none of the tokens it found (`RevocationComplete`), a
renewal answers the truth although it races a logout (`RenewalIsHonest`), a session found by id is
found by uid, and a device code that is not consumed by its user code (`AliasLeadsToEntry`). When a revocation returns, nothing of the devices that were signed in before it
began is left, also when an earlier call failed half-way (`OldDevicesCutOff`), and the device it
preserves keeps its app (`PreservedKeepsItsApp`). A console request never ends signed in for a session
of the IdP that had ended before it began, nor for another account than that session's, and the guard turns no login
it found into another account's (`ConsoleFollowsIdp`). After a logout that ended the session of the IdP, the next request is signed
out, although one in flight may have stored a linked login again (`LogoutSticks`). A login completes only with the factors its account
owed when the last request began, proved in its own interaction (`ChallengeAnswered`), and
not for an account disabled before that (`DisabledStaysOut`). A consent to a Poppy agent leads to one grant at
most, with its account and scopes, and a Session serves one account (`ActsAsConsented`); what an answer said had ended,
or an account that is disabled, lets no later request through at the host, and a grant that ended leaves no bearer at `oidc-provider`
(`EndedStaysOut`).

**What the violations show.**

- `AgentApprovalsConverge`. Two approvals insert within the same instant. The first converges alone
  and binds its grant to its code. The second finds both grants, elects its own because of the smaller
  id, and revokes the first. The first code points to a revoked grant, against the comment of
  `#converge` that both calls end up with the same grant.
- `KeystoreBaseline`. An instance boots with the keystore of the vault; the command rotates; the
  first tick of the poller, up to a minute after boot, takes the new head for its baseline and
  reloads nothing. The instance signs with the old key, and does not publish the new one, until the
  next rotation or a restart.
- `CredentialJointUse`. `consumeMagicLinkToken` reads the row; the code of the same credential is
  verified and the column cleared; the link is accepted as well.
- `FactorUnlockLucid`. `otpUnlock` asks the account store for `__findByTokenField` or `__Model`; the
  store that is shipped has `__getRawRow` and `__model`. Every link is answered as unknown.

**Bounds.** Violations of all these properties need two actors, and sometimes a third that changes
the row in between.

- `AgentDelegation`: two requests in flight, two codes, two grants, two pairs, two agents, two accounts, two scopes. The
  constraint `Bounds` of the `MC` module keeps to one of two areas. `OneConsent`: one account and one scope, whichever of them, with all events: `deny`,
  `revoke`, account suspension and crashes beside the two requests; `DeviceTtl = AccessTtl = 1` and `MaxTime = 2` let codes expire
  and be deleted. `StepUps`: both accounts approve for one agent, in part or in full, one after the other or at once, and grants are revoked
  meanwhile, all at one instant; two scopes tell a partial approval from a full one and a step-up from a repetition. `GrantTtl` exceeds
  `MaxTime`, because `OneLiveGrant` is meant for grants that do not expire within the run (an expired
  grant that is extended late comes back to life, see the hazards). Two pairs are enough for a code
  and the refresh of its pair, for two codes, or for two uses of one code; two uses of one refresh
  token would need a third, and what TLC checks of that race is that its loser revokes the grant
  (`ReuseRevokes`). That it yields one pair is what the proofs add, which hold for any number of pairs and for grants that expire.
- `KeystoreRotation`: two instances and one command, `Keep = 2`, two events (`MaxEvents`) out of
  rotations, ageing, restarts and failed reloads; four scenarios: ageing with restarts, with and without a lock provider, manual
  rotation from an empty vault, ageing with an expiring lock and a failing vault.
- `CredentialSlots`: three requests, two credentials, `MaxAttempts = 2`; the clock reaches every
  expiry (`CodeTtl = 1 < LinkTtl = 2 < MaxTime = 3`; resets and unlock links last as long as the run).
- `SecondFactor`: two secrets, two batches of one recovery code, one unlock link, two requests, two
  windows, `MaxAttempts = 2`; three scenarios: management without overlap, the same with passkeys and with a lock that is lifted
  or runs out, overlap without management.
- `ArtifactAdapters`: one session, two device codes of one grant, two calls, lifetimes 1 and 2, two saves of an id:
  a call can be overtaken by another call, by a save, by an expiry and by an expiry between its two
  accesses. Three scenarios: the database with overlap, Redis without and with overlap of consume and revoke.
  In the last one a session is saved once (`Bounds`), since the properties that hold there are about what comes back; a second save of a
  session overlaps every other call in the first scenario, and renewals in the second.
- `SignOut`: two sessions of one owner, one of them with a grant of the organisation. Scenarios: one
  revocation over three seconds with failures; two revocations within a second with failures (the second
  finds what the first left); one revocation with refreshes in flight; and for guard and bridge each, one
  revocation with one request and two accounts, and two overlapping requests of one account.
- `LoginFlow`: two accounts, two interactions, `MAX_ATTEMPTS` 2 instead of 5, a factor enabled at most
  `MaxTime = 2` times. Fourteen scenarios, one for each combination of configuration and paths that share session
  keys; overlapping requests in one of them.
- `PoppySignIn`: two handlers, two grants, two tokens, one Session, at most two request rows, two
  accounts; two scopes where they matter (narrower exchanges), one elsewhere; `MaxCodeAttempts = 2`. Two grants suffice to
  see a second one come out of a consent, and a third handler would only repeat what one of the two does. Ten scenarios, by
  the way to sign in and by what cuts it off.

The symmetry sets hold interchangeable model values only. Grants are numbers, since their order
breaks ties, and are not permuted; runs that check liveness use no symmetry. Deadlock is not checked,
because every run ends when its clock, its identifiers or its events are used up. The scenarios of the larger
modules are unions of behaviours that could be one environment: a reader who wants to see two of them together
adds a scenario to the `MC` module, and pays in states.

**Fairness.** Only `KeystoreRotation` states liveness. Weak fairness is assumed of the boot, of the
steps of a rotation that was started, of the scheduler, of the poller (all promises that settle, or
intervals that fire again and again, `setInterval` in `start`) and of the expiry of the lock's TTL.
Nothing is assumed of rotations on demand, ageing or restarts, which are bounded by `MaxEvents`.
`SchedulerLock` either takes the lock or gives up until the next tick, as `acquireImmediately` does (it needs none without a
lock provider),
and weak fairness of the whole scheduler is enough because a held lock is released or expires.

**Conditions of properties.** `NoLostRotation` and `RotatesOnlyOldKey` speak of the scheduler alone
over an existing vault with a lock that outlives its holder's work: rotations on demand on two
processes, a slow holder, schedulers without a lock provider, and two first boots over an empty vault do lose keys, by design of the
code, which locks only the scheduled rotation. `TotpSingleUse`, `RecoverySingleUse`,
`RetiredStayOut` and `TotpIsConfirmed` speak of requests that do not overlap: the store's upserts
are unconditional, and with overlap all four fail. `TotpSingleUse` counts challenges: the code that confirmed an enrolment is not
noted as used (`confirmTotpEnrollment`), and may answer one challenge afterwards. `OneLiveGrant` allows two grants while an
approval is unfinished. `ScopesConsented` says that no scope comes without consent, not that none is lost: of two step-ups that
extend the same grant at once, the second writes the union of what it read and drops the scope that the first added, although
approving again "adds" scopes (`personal-agents.mdx:176`). The others:

- `ImplementsContract` and `RevocationComplete` do not speak of Redis while something overlaps a
  consume or a revocation (`env.overlap`), and `RevocationComplete` not of tokens with different lifetimes: the list of a
  grant's keys expires with the artifact saved last. The interleavings that make a revocation on Redis incomplete are therefore
  hazards that no property catches; on the database it is one DELETE.
- A consume in the last half second of an entry on Redis finds a TTL that rounds to 0 and stores the entry without expiry. It
  outlives the list of its grant and the key of its user code: `RevocationComplete` and `AliasLeadsToEntry` leave consumed entries
  of that kind out. A device code counts for `AliasLeadsToEntry` only as saved by `oidc-provider`, with its user code.
- `RenewalIsHonest` says nothing of a call on the database that lasts as long as the lifetime it gives: `expires_at` is computed
  before the UPDATE.
- `OldDevicesCutOff` leaves out the tokens of an app whose refresh was being answered meanwhile: `oidc-provider`
  has read the grant and stores a token, and an `id_token` dated after the cutoff, when the listing is over. It also
  says nothing of the device that a login preserves, nor of the cookie when the cutoff was dated by that login.
- Under the single-session policy the built-in login lists the sessions after it has sent the redirect: the new session may
  not exist yet, and the row is then dated now, which may sign the new device's app out at its next
  request (`interaction_controller.ts:671`). A custom login that keeps a session of the browser dates the row before that *older*
  session's login, so that apps of other devices that signed in since keep their cookie (their tokens
  are destroyed).
- `ConsoleFollowsIdp` speaks of linked sessions. A local login to the console has no link; when its user logs
  out while the browser is signed in at the IdP, the bridge opens the console again (`idp_session_bridge.ts:133`). The bridge also
  drops a linked login whose session is over and opens the session of whoever is signed in now, in the same request
  (`idp_session_bridge.ts:105-107`); only the guard keeps to the account it found.
- `LogoutSticks` speaks of logouts while no request in flight holds a login without a link. Such a request writes its whole copy back
  when any key of the session changed, and nothing refuses the login afterwards. The same for a link is harmless: it leads to a
  session that is gone.
- `ChallengeAnswered` without `cfg.mfa` speaks of one request at a time: overlapping requests restore a pending
  challenge that another one has taken. There it also lets a first factor of another tab's interaction of the same account
  count, which the session keys cannot tell apart. In both configurations it accepts a trusted device cookie of an account
  whose `mfa_enabled_at` is null: `disableMfa` and a new TOTP enrolment clear it, and a passkey that remains then meets
  an older cookie that counts again, against `trusted_device.ts:14-15`.
- `DisabledStaysOut` leaves out the three handlers that do not look at the account again: `mfaVerify` without
  `cfg.mfa`, the forced change of a password, and the end of a social login.
- `EndedStaysOut` leaves out a bearer minted after the revocation listed the grant's bearers (it stays with `oidc-provider`
  until it expires), a sign-in that inserts its grant after `disconnectClient` listed the agent's grants, and requests
  served from a registry load that was in flight at the write, or let in because a load failed, or because the write of the
  block died before it dropped the snapshot (`upsert` throws between the two, and its caller never hears that the row is there).
  These are most of what the hazards of the registry and of bearers are about: the property catches the rest of them. Of bearers it
  speaks only for grants that an answer ended: disabling an account (`console_users_controller.ts:252-278`) revokes none, and they
  stay with `oidc-provider` until they expire.

All of these exceptions are listed under `hazards`.

## 4. The proofs

`tlapm` checks every leaf, for every value of the constants that satisfies the named assumptions: the
sets are arbitrary (where a theorem needs finitely many of something, an assumption of the module says so), the
markers for "none" are none of their elements, identifiers of different kinds are different, TTLs and bounds are natural
numbers. Every invariant and every action property that a run checks is proved; liveness is not (see below).

**AgentDelegationProofs** proves `Spec => []TypeOK`, `SingleUse`, `RightHolder`, `ScopesConsented`,
`OneLiveGrant`, `DecisionIsFinal` and `ReuseRevokes`. None of the invariants is inductive alone: that a code gives one
pair depends on what the requests in flight have done so far. The inductive invariant adds, for each
program counter, what the request knows and who else may know it: a request about to issue from a
code has turned it into `consumed`, is alone in doing so, and no pair came from that code yet; the
same for a refresh token and its `used` mark; the grant it read has the same account and agent now,
since these never change; and each scope in a local variable was consented to. Each action then needs
only the conjuncts it can disturb, one step each. `SingleUse` follows since the conditional UPDATE
lets a single request pass. The action properties follow from the invariant and one step.

`OneLiveGrant` needs more than what one request knows: it speaks of all approvals of an account and an agent at
once. `Converging` says that of any two live grants of such a pair, somebody who is converging will still read both, or
has read both and has the one to retire in its list; or else a code of theirs never got its grant, because its approval
died. The theorem assumes `GrantTtl > MaxTime`, as the run does: no grant expires in the behaviour. With
grants that expire the property is false, and the theorem does not claim it: an approval that found a live grant and
takes its next step after that has expired gives it a new lifetime, beside a grant that was inserted meanwhile.

**CredentialSlotsProofs** proves `TypeOK`, `GuessesBounded`, `ConsumedIsGone` and
`SlotOnlyAdvances`. The strengthening says that the row lock is held exactly by the verification in
flight; that while it is held the copy the request read *is* the column, since every other writer
waits; that a credential is in at most one column, and only if it was mailed; and that the
comparisons made with a code are at most the attempts its column counts. With those, saving the
copy cannot bring anything back. Without the lock (the variant `VerifyLoginCodeNoLock`) TLC
finds both the guesses and the roll-back.

**ArtifactAdaptersProofs** proves `TypeOK`, `AliasLeadsToEntry`, `ComesBackSpent`, `RevocationComplete`,
`RenewalIsHonest` and the refinement `ImplementsContract`, for any ids, calls, lifetimes and scenarios. The strengthening
relates the expiry of every entry with the key of its uid or user code and with the list of its grant, says that no call began
later than now (`Clock`), and says where each call in flight stands: what a call read is what was there at that moment, a renewal that goes on to answer no has seen the
session missing, and a call that must be alone (no `env.overlap` on Redis) finds at its second
access what it read at its first. Each action then maps to one step of the contract: the two accesses of a consume
to a stutter and a `Consume`, of a revocation to a stutter and a `Remove`, the clock to a `Lapse` or a `Remove`.

**KeystoreRotationProofs** proves `TypeOK`, `NoLostRotation` and `RotatesOnlyOldKey`, from `Keep >= 1`
(`rotate` takes `Math.max(1, keep)`) among others. What a rotation writes depends on what it read, so
the strengthening says why, with the scheduler alone, nobody wrote in between: whoever stands behind
the lock holds it, whoever rotates stands behind it, and the keystore a rotation read is the one that is
there, and still old. The lemma `Truncation` says what `slice(0, keep)` leaves of the keys that were read.

**SignOutProofs** proves `TypeOK`, `OldDevicesCutOff`, `PreservedKeepsItsApp`, `ConsoleFollowsIdp` and
`LogoutSticks`, for any sessions, calls, requests and scenarios. The two halves meet in the sessions of
the IdP only, and these only advance (`SessionsAdvance`): two frame lemmas say that either half keeps
its invariant whatever the other does to them. For a revocation, `Cut` says what is gone already at each
of its stages and that the rest is still in its lists, `Listed` that its lists hold real grants, and
`Dates` how the row it writes stands to the cookies it must refuse or spare. For a request, `Seen`
says what it holds of the session it loaded, `Passing` whom it may still sign in, and `Clean` that,
begun after a logout, it signs in nobody. For `LogoutSticks` the
invariant says in addition what every copy in flight may bring back once a logout counts (`LoggedOut`): no login without a
link, and none whose session still lives.

**SecondFactorProofs** proves `TypeOK`, `TotpSingleUse`, `RecoverySingleUse`, `RetiredStayOut`,
`TotpIsConfirmed` and `WrongAnswersBounded`, from the assumption that the requests are finitely many and
that secrets, batches of codes and links are different things. The strengthening has two parts. `SerialInv`: where requests do
not overlap, whoever is about to accept a code or to confirm a secret found the row as it is, and
what was accepted or retired can not be accepted again (`Spent`). `Attempts`: until the lock, every wrong answer is
counted or in flight, and the counter passes the limit only with a request that is about to lock; from then on, whoever
may still answer wrongly was in flight. Since the stages of the requests are disjoint sets, their cardinalities add up to at
most that of `Procs`.

**PoppySignInProofs** proves `TypeOK`, `ActsAsConsented` and `EndedStaysOut`, for any accounts, codes, grants, tokens, Sessions,
handlers and scenarios. Both properties are about what a handler does with what it read many steps earlier, so the
invariant says what each handler knows before its next step (`Knows`: the consent it decides, exchanges or completes, the
grant it is about to insert, note or revoke, the account of the Session it acts over), that no two of
them hold the same consent, or the browser (`Apart`), and what the rows, the grants, the tokens, the marker of the
browser and the snapshot of the registry say of each other. Handlers overlap without a lock, so what one of them knows has to survive
the steps of the others. `Persists` is the reason: a consent stays what it was, a used row stays used, a grant keeps its account and
scopes and never comes back, a bound Session keeps its account, a revoked grant without bearers gets none but those that
the property carves out. It is a theorem of its own (`NothingReturns`), and reduces each action to one lemma about the
handler and the rows it changes; `Assemble` does the rest for all of them.

**LoginFlowProofs** proves `TypeOK`, `ChallengeAnswered` and `DisabledStaysOut`, for any accounts, interactions, overlapping requests, attempts
and scenarios. A request stores its copy of the session over what others have stored meanwhile, so the invariant speaks of
every copy: what a copy claims of a login (`Earned`: a flow with its primary and the factors presented so far, a forced change
of password, a social login that waits) was proved by its account, and with `cfg.mfa` at the interaction of the flow. What waits for
`socialContinue` may also belong to an interaction that is over for good (`Past`): the callback may have come back to another URL
than the cookie's, and `socialContinue` then refuses it. Without `cfg.mfa` nothing binds a challenge to its interaction
and its end uses it up, so the copies are sound only one request at a time (`EarnedAlone`), which is where the property speaks of that
configuration at all. `TrustInv` says that a cookie that is accepted was issued since the factor was enabled, or
meets an account that no longer says when that was. Most handlers store less than they loaded (`Lesser`); the
others store the challenge of a first factor that they have just seen proved (`GateStep`), or complete.
`DisabledStaysOut` needs no more than that `refused` was barred when the request began, and still is.

**Only model-checked**: `OldKeyIsReplaced` and `PropagatesAfterBaseline` of `KeystoreRotation`. They are liveness under
fairness, which is out of the prover's reach.

## 5. What is abstracted, and what is not modelled

- Hashing, encryption, signatures and random values: a credential and its stored hash are the same
  element of a set; a random guess is the code of a credential that was never mailed.
- Polling cadence (`slow_down`), user-code retries, wording, rendering, audit records.
- Requests refused without a change of state have no action.
- Reads that follow each other without a write of the same handler in between are one read, where
  what they read cannot make a difference to the properties (the code, the grant and the account of
  an exchange); the deletion of expired codes and the insertion that follows it are one action.
- A reload reads the vault and swaps the provider in one step: `#reloadChain` orders the reloads, and
  a write in between changes the head again, which the poller then sees.
- A crash leaves a request `dead` (AgentDelegation) or free (CredentialSlots, where an open
  transaction rolls back). In SecondFactor a request that never takes its next step stands for it.
- The limiter is present and answers. Without it the lockout does nothing, by design of the code.
- Lucid's `save` writes only changed columns; the password columns are left out, since no property
  reads them.
- SignOut: adapters without `renewSession`, impersonated sessions, pruning of the revocation rows and
  revocations by `sid` are left out. An app has one grant per session of the IdP.
- LoginFlow: login lockout, bot protection, maintenance mode, unverified addresses, "remember me" and preferences are left out, as are
  the second-factor policies `required` and `off` of social logins. Of the reasons to refuse an account only `disabled`
  is modelled, and an account that is disabled is not enabled again. The discoverable mode of passkeys
  (`interaction_controller.ts:1885-1907`, `1958-1974`) is left out: it needs `findByPasskeyCredentialId`, which the store that is
  shipped does not have. The session store is on the server, and the last request to end stores its copy.
- PoppySignIn: one agent client, hence no guard on `client_id`; DPoP, PKCE, replay cache, rate limits and client
  assertions are left out; neither grants nor access tokens expire; the Grant row that the bridge keeps at `oidc-provider` is not
  there. The look-up of a token and of its grant is one read; the requests of one browser follow each other; a block is answered only
  when no other ruling is half-way.
- External, modelled from how it is used: the TTL of `@adonisjs/lock`, the SQL database (conditional
  updates are atomic, `FOR UPDATE` holds the row lock to the end of the transaction), Redis (a MULTI or a script is
  atomic), the session store of `@adonisjs/session`, the sessions, tokens and grants of `oidc-provider`, the limiter, the vault.

What is not modelled is in `PROJECT.json` with the reason. Most of the lines of the repository are there: views and
translations, configuration and its validation, the doctor, the console's and the SDK's CRUD endpoints, documentation and
tests. They have no state that two actors share, and nothing a model would add to their tests.

## 6. Plan

| Order | Module | State | Next |
|---|---|---|---|
| 1 | `AgentDelegation` | checked, proved | an abstract grant of a triple, refined by it |
| 2 | `KeystoreRotation` | checked, proved | a property for the rotations on demand |
| 3 | `CredentialSlots` | checked, proved | abstract `LoginCode` (a verification is one step, a credential is pending, spent or gone), refined by it |
| 4 | `SecondFactor` | checked, proved | passkeys as credentials of their own |
| 5 | `ArtifactContract`, `ArtifactAdapters` | checked, refinement proved | several instances of Redis entries over one list of a grant, with different lifetimes |
| 6 | `IdpSessions`, `SessionRevocation`, `ConsoleSession`, `SignOut` | checked, proved | impersonated sessions, pruning |
| 7 | `LoginFlow` | checked, proved | sudo mode, the policies of social logins |
| 8 | `PoppySignIn` | checked, proved | a second process with a snapshot of its own; expiry of grants |
| 9 | `LoginLockout` | planned | `attemptPasswordLogin` with the counters of `account_lockout.ts`, as further scenarios beside the OTP lockout of `SecondFactor`, whose limiter it shares |
| 10 | `EmailOwnership` | planned | verification and change of an address; the address confirmed last stays; beside `CredentialSlots` |
| 11 | `Organizations` | planned | members, invitations and roles of `organizations.ts`; an organization keeps an owner; no access after removal |
| 12 | account deletion | planned | over `SessionRevocation` and `Organizations`, whose state it removes |

A few runs answer many questions: modules that share state are composed, as in SignOut, and a
module whose questions need different environments gets scenarios. What is planned extends existing modules and
runs the same way.
