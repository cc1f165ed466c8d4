------------------------------- MODULE LoginFlow -------------------------------
(* The login of one browser: the handlers of interaction_controller.ts, custom   *)
(* login methods, the MFA flow of custom_mfa.ts and the trusted device cookie.   *)
(* What a login has got so far lives in the browser's session. A request works   *)
(* on the session it loaded and stores it when it ends, so two requests overlap  *)
(* on copies; `current` is the interaction that the provider's cookie names,     *)
(* which need not be the one in the URL of the request.                          *)
EXTENDS Naturals, FiniteSets

CONSTANTS Accounts, Nobody, Uids, NoUid, Requests,
          Scenarios,     \* the environments a behaviour may have
          MaxAttempts,   \* MAX_ATTEMPTS of an MFA flow
          MaxTime        \* bound on the times a second factor is enabled

VARIABLES env,           \* the scenario
          clock,         \* how often a second factor was enabled
          totp, keyed,   \* the accounts with a confirmed TOTP secret, with a passkey
          enabledAt,     \* auth_mfa.mfa_enabled_at, 0 for null
          barred, stale, \* accounts that are disabled; accounts whose password expired
          current, done, \* the interaction of the cookie; what became of each
          session,       \* the browser's session
          trust,         \* its trusted device cookie
          req,           \* the requests in flight
          armed, refused,\* history: accounts with a factor, or barred, since a request began
          proved,        \* history: <<interaction, account, factor>> proved by the browser
          vouched        \* history: accounts the cookie stands for, nothing enabled since

world == <<env, clock, totp, keyed, enabledAt, barred>>
vars == <<world, stale, current, done, session, trust, req, armed, refused, proved, vouched>>

Primaries == {"pwd", "email", "fed", "webauthn", "corp"}
SecondFactors == {"totp", "webauthn", "sms"}
Paths == {"identifier", "switch", "password", "expired", "magic", "otp", "social", "continue",
          "corp", "code", "options", "passkey", "begin", "custom"}
Churn == {"enable", "reset", "key", "unkey", "bar", "stale", "lapse"}

\* Whether cfg.mfa is set, with which requiredFactors (0 when left out) and whether
\* with a custom method; trusted devices; the interactions that ask for MFA; those
\* there are, what the browser does, what happens to the accounts, and
\* how many requests overlap.
Scenario == [configured : BOOLEAN, required : {0, 2, 3}, custom : BOOLEAN, devices : BOOLEAN,
             stepUp : SUBSET Uids, uids : SUBSET Uids, paths : SUBSET Paths,
             churn : SUBSET Churn, inFlight : 1..2]

ASSUME BoundsAssumption == MaxAttempts \in Nat \ {0} /\ MaxTime \in Nat \ {0}
ASSUME AbsenceAssumption == Nobody \notin Accounts /\ NoUid \notin Uids
ASSUME AccountsAssumption == Accounts # {}
ASSUME ScenarioAssumption == Scenarios \subseteq Scenario

NoFlow == [uid |-> NoUid]
Flows == [uid : Uids, account : Accounts, primary : Primaries, completed : SUBSET SecondFactors,
          started : BOOLEAN, attempts : 0..(MaxAttempts - 1), old : BOOLEAN]
Nowhere == [uid |-> NoUid, account |-> Nobody]
Bindings == {Nowhere} \cup [uid : Uids, account : Accounts]

\* The keys of the session: the address typed, the pending challenge with its
\* primary factor, a custom primary, the MFA flow, a WebAuthn challenge, the
\* account that must change its password, a social login that owes the challenge.
Session == [email : Accounts \cup {Nobody}, pending : Accounts \cup {Nobody},
            primary : Primaries \cup {"none"}, bound : Bindings, flow : Flows \cup {NoFlow},
            ceremony : BOOLEAN, expired : Accounts \cup {Nobody}, social : Bindings]
Fresh == [email |-> Nobody, pending |-> Nobody, primary |-> "none", bound |-> Nowhere,
          flow |-> NoFlow, ceremony |-> FALSE, expired |-> Nobody, social |-> Nowhere]

Idle == [path |-> "idle"]
Request == {Idle} \cup [path : Paths, uid : Uids, mine : Session]
New == [state |-> "new"]
Open == [state |-> "open"]
Over == [state |-> "over"]
SignedIn(a, amr) == [state |-> "done", account |-> a, amr |-> amr]

HasFactor(a) == a \in totp \cup keyed

Init ==
  /\ env \in Scenarios
  /\ clock = 1
  /\ totp \in {{}, {CHOOSE a \in Accounts : TRUE}}
  /\ keyed = {}
  /\ enabledAt = [a \in Accounts |-> IF a \in totp THEN 1 ELSE 0]
  /\ barred = {} /\ stale = {}
  /\ current = NoUid
  /\ done = [u \in Uids |-> New]
  /\ session = Fresh
  /\ trust = [account |-> Nobody, iat |-> 0]
  /\ req = [r \in Requests |-> Idle]
  /\ armed = [r \in Requests |-> {}] /\ refused = [r \in Requests |-> {}]
  /\ proved = {} /\ vouched = {}

-----------------------------------------------------------------------------
(* The MFA flow (custom_mfa.ts). *)

\* invalidateMfaFlow, and takeMfaPending with clearMfaFlow: the challenge is forgotten.
Dropped(s) == [s EXCEPT !.pending = Nobody, !.primary = "none", !.bound = Nowhere, !.flow = NoFlow]

\* getMfaFlow: the flow is of the interaction of the URL and of the pending account,
\* and not too old; otherwise reading it forgets the challenge.
ValidFlow(s, u) ==
  s.flow # NoFlow /\ s.flow.uid = u /\ s.flow.account = s.pending /\ ~s.flow.old
ReadFlow(s, u) == IF s.flow = NoFlow \/ ValidFlow(s, u) THEN s ELSE Dropped(s)

\* initializeMfaFlow.
NewFlow(u, a, p) ==
  [uid |-> u, account |-> a, primary |-> p, completed |-> {}, started |-> FALSE,
   attempts |-> 0, old |-> FALSE]

Required == IF env.required = 0 THEN 2 ELSE env.required
Used(flow) == flow.completed \cup {flow.primary}

\* variant: the last attempt is counted, and the flow goes on.
FailedProofOnce(s) ==
  IF s.flow.attempts >= MaxAttempts THEN Dropped(s)
  ELSE [s EXCEPT !.flow = [s.flow EXCEPT !.attempts = @ + 1]]

\* failedProof: the last attempt allowed ends the flow.
FailedProof(s) ==
  IF s.flow.attempts + 1 >= MaxAttempts THEN Dropped(s)
  ELSE [s EXCEPT !.flow = [s.flow EXCEPT !.attempts = @ + 1]]

-----------------------------------------------------------------------------
(* The gate of the second factor. *)

\* isTrustedDeviceValid, within the lifetime of the cookie.
Trusted(a) == trust.account = a /\ (enabledAt[a] # 0 => trust.iat >= enabledAt[a])

StepUp == current \in env.stepUp
Gated(k, s) == [kind |-> k, session |-> s]

\* secondFactorGate without cfg.mfa.
LegacyGate(s, a, p) ==
  IF ~HasFactor(a) THEN Gated(IF StepUp THEN "challenge" ELSE "none", s)
  ELSE IF env.devices /\ ~StepUp /\ Trusted(a) THEN Gated("trusted", s)
  ELSE Gated("challenge", [s EXCEPT !.pending = a, !.primary = p])

\* The factors other than the primary that the account can still present.
Groups(a, p) ==
  ((IF a \in totp THEN {"totp"} ELSE {}) \cup (IF a \in keyed THEN {"webauthn"} ELSE {})
     \cup (IF env.custom THEN {"sms"} ELSE {})) \ {p}

\* configuredMfaGate. A request whose URL is not of the current interaction loses
\* the flow it has just initialised, and fails.
ConfiguredGate(s, a, u, p) ==
  LET mfaRequired == StepUp \/ env.required # 0
      kept == Dropped(s)
  IN IF current # u THEN Gated("challenge", kept)
     ELSE IF ~HasFactor(a) /\ ~env.custom /\ ~mfaRequired THEN Gated("none", kept)
     ELSE IF Cardinality(Groups(a, p)) < Required - 1 THEN Gated("challenge", kept)
     ELSE IF env.devices /\ ~mfaRequired /\ ~env.custom /\ Required = 2 /\ Trusted(a)
            THEN Gated("trusted", kept)
     ELSE Gated("challenge", [s EXCEPT !.pending = a, !.primary = p, !.flow = NewFlow(current, a, p)])

SecondFactorGate(s, a, u, p) ==
  LET cleared == [s EXCEPT !.bound = Nowhere, !.flow = NoFlow]
  IN IF env.configured THEN ConfiguredGate(cleared, a, u, p) ELSE LegacyGate(cleared, a, p)

-----------------------------------------------------------------------------
(* How a request ends. *)

Mine(r) == req[r].mine
At(r, path) == req[r] # Idle /\ req[r].path = path

\* The session is stored when the request changed it, over whatever is there.
Commit(r, s) ==
  /\ session' = IF s = Mine(r) THEN session ELSE s
  /\ req' = [req EXCEPT ![r] = Idle]
  /\ armed' = [armed EXCEPT ![r] = {}]
  /\ refused' = [refused EXCEPT ![r] = {}]
  /\ UNCHANGED <<world, current>>

\* The answer is a page, or a redirect to the login.
Answer(r, s) == Commit(r, s) /\ UNCHANGED <<done, trust, vouched>>

\* completeLogin, of the interaction of the cookie.
Complete(r, a, amr, s) ==
  /\ done' = [done EXCEPT ![current] = SignedIn(a, amr)]
  /\ Commit(r, s)

\* Requests that need the interaction fail once the browser has taken its result.
Live == current # NoUid /\ done[current] # Over

Proves(a, f) == proved' = proved \cup {<<current, a, f>>}
KeepsTrust == UNCHANGED <<trust, vouched>>

\* After a primary factor: the gate, then the end of the login or the challenge.
\* Its address is forgotten once the login is over.
PassGate(r, s, a, p) ==
  LET g == SecondFactorGate(s, a, req[r].uid, p)
  IN IF g.kind = "challenge" THEN Answer(r, g.session)
     ELSE Complete(r, a, {p}, [g.session EXCEPT !.email = Nobody]) /\ KeepsTrust

-----------------------------------------------------------------------------
(* Primary factors. *)

Identifier(r) ==
  /\ At(r, "identifier")
  /\ \E a \in Accounts : Answer(r, [Mine(r) EXCEPT !.email = a])
  /\ UNCHANGED <<stale, proved>>

SwitchIdentifier(r) ==
  /\ At(r, "switch")
  /\ Answer(r, [Mine(r) EXCEPT !.email = Nobody])
  /\ UNCHANGED <<stale, proved>>

\* login: a wrong password changes nothing here (the lockout is not part of this model).
WrongPassword(r) ==
  /\ At(r, "password") /\ Live
  /\ Answer(r, Mine(r))
  /\ UNCHANGED <<stale, proved>>

Login(r) ==
  LET a == Mine(r).email IN
  /\ At(r, "password") /\ Live /\ a # Nobody
  /\ Proves(a, "pwd")
  /\ IF a \in barred THEN Answer(r, Mine(r))
     ELSE IF a \in stale THEN Answer(r, [Mine(r) EXCEPT !.expired = a])
     ELSE PassGate(r, Mine(r), a, "pwd")
  /\ UNCHANGED stale

\* changeExpiredPassword: the old password was proved by the login that led here,
\* at whatever interaction; nothing asks again whether the account is barred.
ChangeExpiredPassword(r) ==
  LET a == Mine(r).expired
      g == SecondFactorGate([Mine(r) EXCEPT !.expired = Nobody], a, req[r].uid, "pwd")
  IN /\ At(r, "expired") /\ Live /\ a # Nobody
     /\ stale' = stale \ {a}
     /\ IF g.kind = "challenge" THEN Answer(r, g.session)
        ELSE Complete(r, a, {"pwd"}, g.session) /\ KeepsTrust
     /\ UNCHANGED proved

\* magicLinkConsume and otpVerify: a link of any account, a code of the address typed.
EmailProof(r) ==
  \E a \in Accounts :
    /\ At(r, "magic") \/ (At(r, "otp") /\ a = Mine(r).email)
    /\ Live
    /\ Proves(a, "email")
    /\ IF a \in barred THEN Answer(r, Mine(r)) ELSE PassGate(r, Mine(r), a, "email")
    /\ UNCHANGED stale

\* AuthSocialController.callback: with cfg.mfa or an enrolled factor the login waits
\* for socialContinue, otherwise it is over.
SocialCallback(r) ==
  \E a \in Accounts :
    /\ At(r, "social") /\ Live
    /\ Proves(a, "fed")
    /\ IF a \in barred THEN Answer(r, Mine(r))
       ELSE IF env.configured \/ HasFactor(a)
         THEN Answer(r, [Mine(r) EXCEPT !.social = [uid |-> req[r].uid, account |-> a]])
       ELSE Complete(r, a, {"fed"}, Mine(r)) /\ KeepsTrust
    /\ UNCHANGED stale

SocialContinue(r) ==
  LET to == Mine(r).social
      s == [Mine(r) EXCEPT !.social = Nowhere]
      g == SecondFactorGate(s, to.account, req[r].uid, "fed")
  IN /\ At(r, "continue") /\ Live
     /\ IF to = Nowhere \/ to.uid # req[r].uid \/ current # req[r].uid THEN Answer(r, s)
        ELSE IF g.kind = "challenge" THEN Answer(r, g.session)
        ELSE Complete(r, to.account, {"fed"}, g.session) /\ KeepsTrust
     /\ UNCHANGED <<stale, proved>>

\* completeCustomLogin, of a method of the host.
CustomLogin(r) ==
  \E a \in Accounts :
    LET g == SecondFactorGate(Mine(r), a, req[r].uid, "corp") IN
    /\ At(r, "corp") /\ Live /\ current = req[r].uid
    /\ Proves(a, "corp")
    /\ IF a \in barred THEN Answer(r, Mine(r))
       ELSE IF g.kind = "challenge"
         THEN Answer(r, [g.session EXCEPT !.bound = [uid |-> current, account |-> a]])
       ELSE Complete(r, a, {"corp"}, [g.session EXCEPT !.email = Nobody]) /\ KeepsTrust
    /\ UNCHANGED stale

-----------------------------------------------------------------------------
(* Second factors. *)

\* takeMfaPending: a primary of the host counts only where it is bound.
Primary(s, u) ==
  IF s.primary \in {"pwd", "email"}
     \/ (s.primary = "corp" /\ s.bound = [uid |-> u, account |-> s.pending])
  THEN {s.primary} ELSE {}

\* variant: the pending challenge outlives the login.
KeptPending(s) == [s EXCEPT !.email = Nobody, !.ceremony = FALSE]

Taken(s) == [Dropped(s) EXCEPT !.email = Nobody]

\* maybeTrustDevice.
MayTrust(a) ==
  \/ env.devices /\ trust' = [account |-> a, iat |-> clock] /\ vouched' = {a}
  \/ KeepsTrust

\* The end of a login without cfg.mfa by factor f, after the challenge or as a
\* first factor. What the account had proved is used up, but for the first factor of a
\* login that waits for a new password or for socialContinue.
LegacyFinish(r, s, a, f) ==
  /\ MayTrust(a)
  /\ Complete(r, a, Primary(s, req[r].uid) \cup {f}, Taken(s))
  /\ proved' = {p \in proved : \/ p[2] # a
                               \/ p[3] = "pwd" /\ s.expired = a
                               \/ p[3] = "fed" /\ s.social.account = a}

\* variant: nothing asks again whether the account is barred.
FinishUnchecked(r, s, f) ==
  LET flow == s.flow
      next == [s EXCEPT !.flow = [flow EXCEPT !.completed = @ \cup {f}]]
  IN IF f \in Used(flow) THEN Answer(r, s)
     ELSE IF Cardinality(Used(next.flow)) < Required THEN Answer(r, next)
     ELSE KeepsTrust /\ Complete(r, flow.account, Used(next.flow), Taken(s))

\* variant: a factor presented twice counts twice.
FinishRepeated(r, s, f) ==
  LET flow == s.flow IN
  IF f \in Used(flow) \/ Cardinality(Used(flow)) + 1 >= Required
    THEN KeepsTrust /\ Complete(r, flow.account, Used(flow) \cup {f}, Taken(s))
  ELSE Answer(r, [s EXCEPT !.flow = [flow EXCEPT !.completed = @ \cup {f}]])

\* finishVerifiedMfa: a factor counts once; with as many as required the login ends,
\* unless the account has been barred meanwhile.
FinishVerifiedMfa(r, s, f) ==
  LET flow == s.flow
      next == [s EXCEPT !.flow = [flow EXCEPT !.completed = @ \cup {f}]]
  IN IF flow.uid # current THEN Answer(r, Dropped(s))
     ELSE IF f \in Used(flow) THEN Answer(r, s)
     ELSE IF Cardinality(Used(next.flow)) < Required THEN Answer(r, next)
     ELSE IF flow.account \in barred \/ (flow.primary = "pwd" /\ flow.account \in stale)
       THEN Answer(r, Dropped(s))
     ELSE KeepsTrust /\ Complete(r, flow.account, Used(next.flow), Taken(s))

\* With cfg.mfa a challenge needs its flow, and is answered at its interaction.
Challenged(r) == ValidFlow(Mine(r), req[r].uid) /\ current = req[r].uid
Unchallenged(r) ==
  IF ValidFlow(Mine(r), req[r].uid) THEN Dropped(Mine(r)) ELSE ReadFlow(Mine(r), req[r].uid)

\* mfaVerify. A wrong code changes nothing here (see SecondFactor for its lockout).
WrongCode(r) ==
  /\ At(r, "code") /\ Live
  /\ Answer(r, IF env.configured /\ ~Challenged(r) THEN Unchallenged(r) ELSE Mine(r))
  /\ UNCHANGED <<stale, proved>>

MfaVerify(r) ==
  LET s == Mine(r)
      a == s.pending
  IN /\ At(r, "code") /\ Live /\ a \in totp
     /\ \/ env.configured /\ Challenged(r) /\ Proves(a, "totp") /\ FinishVerifiedMfa(r, s, "totp")
        \/ ~env.configured /\ LegacyFinish(r, s, a, "totp")
     /\ UNCHANGED stale

\* resolvePasskeyAccountId, with passkey-first on.
PasskeyAccount(s) ==
  IF s.pending # Nobody THEN s.pending
  ELSE IF s.email \in keyed THEN s.email ELSE Nobody

PasskeyOptions(r) ==
  /\ At(r, "options")
  /\ Answer(r, [Mine(r) EXCEPT !.ceremony = @ \/ PasskeyAccount(Mine(r)) \in keyed])
  /\ UNCHANGED <<stale, proved>>

\* passkeyVerify, refused: no challenge, no account, a wrong assertion.
WrongPasskey(r) ==
  /\ At(r, "passkey") /\ Live
  /\ Answer(r, IF env.configured /\ current # req[r].uid THEN Dropped(Mine(r))
               ELSE IF env.configured /\ Mine(r).pending # Nobody /\ ~Challenged(r)
                 THEN ReadFlow(Mine(r), req[r].uid)
               ELSE IF PasskeyAccount(Mine(r)) = Nobody THEN Mine(r)
               ELSE [Mine(r) EXCEPT !.ceremony = FALSE])
  /\ UNCHANGED <<stale, proved>>

PasskeyVerify(r) ==
  LET s == [Mine(r) EXCEPT !.ceremony = FALSE]
      a == PasskeyAccount(s)
  IN /\ At(r, "passkey") /\ Live /\ Mine(r).ceremony /\ a \in keyed
     /\ env.configured => (current = req[r].uid /\ (s.pending # Nobody => Challenged(r)))
     /\ IF a \in barred THEN Answer(r, s) /\ Proves(a, "webauthn")
        ELSE IF ~env.configured THEN LegacyFinish(r, s, a, "webauthn")
        ELSE Proves(a, "webauthn") /\
             IF s.pending # Nobody THEN FinishVerifiedMfa(r, s, "webauthn")
             ELSE LET g == SecondFactorGate(s, a, req[r].uid, "webauthn") IN
                  IF g.kind = "challenge" THEN Answer(r, g.session)
                  ELSE MayTrust(a) /\ Complete(r, a, {"webauthn"}, Taken(g.session))
     /\ UNCHANGED stale

\* beginCustomMfa and verifyCustomMfa: the method is another factor than those used.
CanCustom(r) == ValidFlow(Mine(r), req[r].uid) /\ current = req[r].uid
  /\ env.custom /\ "sms" \notin Used(Mine(r).flow)

CustomMfaBegin(r) ==
  LET s == Mine(r) IN
  /\ At(r, "begin") /\ Live
  /\ Answer(r, IF CanCustom(r) THEN [s EXCEPT !.flow = [s.flow EXCEPT !.started = TRUE]]
               ELSE ReadFlow(s, req[r].uid))
  /\ UNCHANGED <<stale, proved>>

CustomMfaVerify(r) ==
  LET s == Mine(r) IN
  /\ At(r, "custom") /\ Live
  /\ IF ~CanCustom(r) \/ ~s.flow.started
       THEN Answer(r, ReadFlow(s, req[r].uid)) /\ UNCHANGED proved
     ELSE \/ Answer(r, FailedProof(s)) /\ UNCHANGED proved
          \/ Proves(s.flow.account, "sms") /\ FinishVerifiedMfa(r, s, "sms")
  /\ UNCHANGED stale

-----------------------------------------------------------------------------
(* What starts requests, and what happens to the accounts meanwhile. *)

\* A browser that sends one request at a time follows the redirect of a login first.
Settled == env.inFlight = 1 => \A u \in Uids : done[u] \in {New, Open, Over}

\* A client sends the browser to sign in: the cookie names the new interaction.
StartInteraction(u) ==
  /\ done[u] = New /\ Settled
  /\ done' = [done EXCEPT ![u] = Open]
  /\ current' = u
  /\ UNCHANGED <<world, stale, session, trust, req, armed, refused, proved, vouched>>

\* The browser follows the redirect: the result becomes a session at the provider,
\* and the interaction is over. Until then another login may replace the result.
Resume(u) ==
  /\ done[u] \notin {New, Open, Over}
  /\ done' = [done EXCEPT ![u] = Over]
  /\ UNCHANGED <<world, stale, current, session, trust, req, armed, refused, proved, vouched>>

\* env.inFlight bounds the requests in flight.
Begin(r, path, u) ==
  /\ req[r] = Idle /\ done[u] # New /\ Settled
  /\ Cardinality({q \in Requests : req[q] # Idle}) < env.inFlight
  /\ req' = [req EXCEPT ![r] = [path |-> path, uid |-> u, mine |-> session]]
  /\ armed' = [armed EXCEPT ![r] = totp \cup keyed]
  /\ refused' = [refused EXCEPT ![r] = barred]
  /\ UNCHANGED <<world, stale, current, done, session, trust, proved, vouched>>

\* interactionDetails of an interaction that is over: the handler fails.
Fail(r) ==
  /\ req[r] # Idle /\ req[r].path \notin {"identifier", "switch", "options"} /\ ~Live
  /\ Answer(r, Mine(r))
  /\ UNCHANGED <<stale, proved>>

Unarm == armed' = [r \in Requests |-> armed[r] \cap (totp' \cup keyed')]

\* The second factor becomes enabled: mfa_enabled_at is now.
Enabled(a) ==
  /\ clock < MaxTime /\ clock' = clock + 1
  /\ enabledAt' = [enabledAt EXCEPT ![a] = clock + 1]
  /\ vouched' = vouched \ {a}

EnableTotp(a) ==
  /\ "enable" \in env.churn /\ a \notin totp
  /\ totp' = totp \cup {a} /\ UNCHANGED keyed
  /\ Enabled(a) /\ Unarm
  /\ UNCHANGED <<env, barred, stale, current, done, session, trust, req, refused, proved>>

\* disableMfa, or a new enrolment begun.
ResetMfa(a) ==
  /\ "reset" \in env.churn /\ enabledAt[a] # 0
  /\ totp' = totp \ {a} /\ UNCHANGED keyed
  /\ enabledAt' = [enabledAt EXCEPT ![a] = 0]
  /\ Unarm
  /\ UNCHANGED <<env, clock, barred, stale, current, done, session, trust, req, refused, proved, vouched>>

RegisterPasskey(a) ==
  /\ "key" \in env.churn /\ a \notin keyed
  /\ keyed' = keyed \cup {a} /\ UNCHANGED totp
  /\ IF enabledAt[a] = 0 THEN Enabled(a) ELSE UNCHANGED <<clock, enabledAt, vouched>>
  /\ Unarm
  /\ UNCHANGED <<env, barred, stale, current, done, session, trust, req, refused, proved>>

RemovePasskey(a) ==
  /\ "unkey" \in env.churn /\ a \in keyed
  /\ keyed' = keyed \ {a} /\ UNCHANGED totp
  /\ Unarm
  /\ UNCHANGED <<env, clock, enabledAt, barred, stale, current, done, session, trust, req, refused,
                 proved, vouched>>

\* An administrator disables the account, or it expires.
Bar(a) ==
  /\ "bar" \in env.churn /\ a \notin barred
  /\ barred' = barred \cup {a}
  /\ UNCHANGED <<env, clock, totp, keyed, enabledAt, stale, current, done, session, trust, req,
                 armed, refused, proved, vouched>>

PasswordExpires(a) ==
  /\ "stale" \in env.churn /\ a \notin stale
  /\ stale' = stale \cup {a}
  /\ UNCHANGED <<world, current, done, session, trust, req, armed, refused, proved, vouched>>

\* FLOW_TTL passes.
Aged(s) == IF s.flow = NoFlow THEN s ELSE [s EXCEPT !.flow = [s.flow EXCEPT !.old = TRUE]]
FlowLapses ==
  /\ "lapse" \in env.churn /\ session.flow # NoFlow
  /\ session' = Aged(session)
  /\ req' = [r \in Requests |->
               IF req[r] = Idle THEN Idle ELSE [req[r] EXCEPT !.mine = Aged(req[r].mine)]]
  /\ UNCHANGED <<world, stale, current, done, trust, armed, refused, proved, vouched>>

Next ==
  \/ \E u \in env.uids : StartInteraction(u) \/ Resume(u)
  \/ \E r \in Requests :
       \/ \E path \in env.paths, u \in env.uids : Begin(r, path, u)
       \/ Fail(r) \/ Identifier(r) \/ SwitchIdentifier(r) \/ WrongPassword(r) \/ Login(r)
       \/ ChangeExpiredPassword(r) \/ EmailProof(r) \/ SocialCallback(r) \/ SocialContinue(r)
       \/ CustomLogin(r) \/ WrongCode(r) \/ MfaVerify(r) \/ PasskeyOptions(r)
       \/ WrongPasskey(r) \/ PasskeyVerify(r) \/ CustomMfaBegin(r) \/ CustomMfaVerify(r)
  \/ \E a \in Accounts :
       \/ EnableTotp(a) \/ ResetMfa(a) \/ RegisterPasskey(a) \/ RemovePasskey(a)
       \/ Bar(a) \/ PasswordExpires(a)
  \/ FlowLapses

Spec == Init /\ [][Next]_vars

-----------------------------------------------------------------------------
\* Every variable keeps its type; a flow is never kept with its attempts used up
\* (custom_mfa.ts, failedProof and getMfaFlow).
TypeOK ==
  /\ env \in Scenarios /\ clock \in 1..MaxTime
  /\ totp \subseteq Accounts /\ keyed \subseteq Accounts /\ enabledAt \in [Accounts -> 0..MaxTime]
  /\ barred \subseteq Accounts /\ stale \subseteq Accounts
  /\ current \in Uids \cup {NoUid}
  /\ done \in [Uids -> {New, Open, Over} \cup
                 [state : {"done"}, account : Accounts, amr : SUBSET (Primaries \cup SecondFactors)]]
  /\ session \in Session
  /\ trust \in [account : Accounts \cup {Nobody}, iat : 0..MaxTime]
  /\ req \in [Requests -> Request]
  /\ armed \in [Requests -> SUBSET Accounts] /\ refused \in [Requests -> SUBSET Accounts]
  /\ proved \subseteq Uids \X Accounts \X (Primaries \cup SecondFactors)
  /\ vouched \subseteq Accounts

\* The request signs its account in.
Completes(r) == req[r] # Idle /\ req'[r] = Idle /\ Live /\ done'[current] # done[current]

\* The factor that the last request of a login verified itself.
Presented(r) ==
  LET path == req[r].path
  IN IF path = "password" THEN {"pwd"} ELSE IF path \in {"magic", "otp"} THEN {"email"}
     ELSE IF path = "social" THEN {"fed"} ELSE IF path = "corp" THEN {"corp"}
     ELSE IF path = "code" THEN {"totp"} ELSE IF path = "passkey" THEN {"webauthn"}
     ELSE IF path = "custom" THEN {"sms"} ELSE {}

ProvedAt(u, a) == {f \in Primaries \cup SecondFactors : <<u, a, f>> \in proved}
ProvedBy(a) == UNION {ProvedAt(u, a) : u \in Uids}

\* The device may stand for the second factor: it was trusted since the factor was last
\* enabled, or the account says no more when that was (a passkey outlives disableMfa and
\* a new enrolment, which both clear mfa_enabled_at).
Vouched(a) ==
  /\ env.devices
  /\ a \in vouched \/ (trust.account = a /\ enabledAt[a] = 0)
  /\ ~StepUp /\ ~(env.configured /\ (env.required # 0 \/ env.custom))

\* A login with cfg.mfa rests on factors that its own account proved at its own
\* interaction (a forced password change on the password of any), and on as many as
\* required when the account has had a usable factor since the request began, or the
\* client or the configuration asks for MFA, unless a trusted device vouches for it.
\* interaction_controller.ts, configuredMfaGate to finishVerifiedMfa.
ConfiguredAnswered(r, a, amr) ==
  LET shown == Presented(r) \cup ProvedAt(current, a)
                 \cup (IF "expired" \in env.paths THEN ProvedBy(a) \cap {"pwd"} ELSE {})
  IN /\ amr \subseteq shown
     /\ a \in armed[r] \/ StepUp \/ env.required # 0 \/ env.custom =>
          Cardinality(shown) >= Required \/ Vouched(a)

\* Without cfg.mfa, and one request at a time: the login of an account that has had a
\* factor since the request began shows a passkey, or a code and a first factor that no
\* earlier challenge used up; so does the login that a client asked to step up, but for
\* the callback of a social login. interaction_controller.ts, secondFactorGate to
\* takeMfaPending.
LegacyAnswered(r, a, amr) ==
  LET shown == Presented(r) \cup ProvedBy(a)
  IN /\ amr \subseteq shown
     /\ a \in armed[r] \/ (StepUp /\ req[r].path # "social") =>
          \/ "webauthn" \in shown
          \/ "totp" \in shown /\ shown # {"totp"}
          \/ Vouched(a)

\* No order of requests, tabs, changes of the factors and lapses signs an account in
\* without the challenge it owes.
ChallengeAnswered ==
  [][\A r \in Requests : Completes(r) =>
       LET d == done'[current]
       IN IF env.configured THEN ConfiguredAnswered(r, d.account, d.amr)
          ELSE env.inFlight = 1 => LegacyAnswered(r, d.account, d.amr)]_vars

\* An account that was disabled before the last request of its login is not signed in
\* by it, however long its challenge was pending (login_attempt.ts, assertLoginAllowed).
\* The code of the challenge without cfg.mfa, the forced change of a password and
\* the end of a social login do not ask.
DisabledStaysOut ==
  [][\A r \in Requests :
       Completes(r) /\ req[r].path \notin {"expired", "continue"} /\ (req[r].path = "code" => env.configured)
         => done'[current].account \notin refused[r]]_vars
===============================================================================
