----------------------------- MODULE SecondFactor -----------------------------
(***************************************************************************)
(* The second factor of one account: its row of auth_mfa (TOTP secret,     *)
(* recovery codes, last accepted step), the lockout counters kept by the   *)
(* limiter, and the unlock link mailed when the factor is locked           *)
(* (accounts/lucid_store/mfa.ts, host/otp_lockout.ts, and the handlers     *)
(* mfaVerify and otpUnlock of interaction_controller.ts).                  *)
(*                                                                         *)
(* Every operation of the store is a read of the row followed by a partial *)
(* upsert, without transaction or condition, so requests interleave        *)
(* between the two.  The clock counts TOTP windows: a code is a secret and *)
(* a window, and it is accepted in its own window only.                    *)
(***************************************************************************)
EXTENDS Integers, FiniteSets

CONSTANTS
  Secrets,       \* TOTP secrets that can be generated
  Batches,       \* sets of recovery codes that can be generated
  BatchSize,     \* recoveryCodeCount
  Links,         \* unlock links that can be mailed
  Procs,         \* requests that can be in flight at the same time
  MaxAttempts,   \* failures before the factor is locked
  MaxStep,       \* bound of the clock
  FindsByToken,  \* the account store exposes __findByTokenField or __Model
  Scenarios,     \* each a set of EnvEvents that may happen in one behaviour
  None

\* overlap: requests are in flight at the same time
EnvEvents == {"manage", "passkey", "unlock", "expire", "overlap"}

ASSUME ConstantsAssumption ==
  /\ BatchSize \in Nat \ {0}
  /\ MaxAttempts \in Nat \ {0}
  /\ MaxStep \in Nat \ {0}
  /\ FindsByToken \in BOOLEAN
  /\ Scenarios \subseteq SUBSET EnvEvents
  /\ IsFiniteSet(Procs)
  /\ None \notin Secrets \cup Batches \cup Links
  /\ Secrets \cap Batches = {} /\ Links \cap (Secrets \cup Batches) = {}

VARIABLES
  row,       \* auth_mfa: secret, mfaEnabledAt, recovery codes, lastTotpStep
  fails,     \* the failure counter of the limiter
  locked,    \* the lock flag of the limiter
  slot,      \* the unlock link in passwordResetToken, or None
  proc,      \* the requests in flight
  step,      \* the clock, in TOTP windows
  seen,      \* history: secrets and batches generated, and links mailed
  proven,    \* history: secrets confirmed with a code
  retired,   \* history: recovery codes that were replaced or discarded
  uses,      \* history: how many times each code was accepted
  wrong,     \* history: wrong answers since the counter or lock last cleared
  answer,    \* history: what opening each link answered
  env        \* the scenario of this behaviour

vars == <<row, fails, locked, slot, proc, step, seen, proven, retired, uses,
          wrong, answer, env>>

Steps == 1 .. MaxStep
TotpCodes == (Secrets \cup {None}) \X Steps      \* None: no secret's code
RecoveryCodes == Batches \X (1 .. BatchSize)
Codes == TotpCodes \cup RecoveryCodes
Batch(b) == {b} \X (1 .. BatchSize)

Row == [secret : Secrets \cup {None}, enabled : BOOLEAN,
        codes : (SUBSET RecoveryCodes) \cup {None}, last : 0 .. MaxStep]

NoRow == [secret |-> None, enabled |-> FALSE, codes |-> None, last |-> 0]

Local == [pc : {"idle", "read", "accept", "clear", "fail", "count", "block",
                "forget", "mail", "confirm", "regenerate", "unlock", "lift",
                "spend"},
          code : Codes \cup {None}, left : SUBSET RecoveryCodes,
          secret : Secrets \cup {None}, link : Links \cup {None}]

Idle == [pc |-> "idle", code |-> None, left |-> {}, secret |-> None,
         link |-> None]

TypeOK ==
  /\ row \in Row
  /\ fails \in Nat /\ locked \in BOOLEAN
  /\ slot \in Links \cup {None}
  /\ proc \in [Procs -> Local]
  /\ step \in Steps
  /\ seen \subseteq Secrets \cup Batches \cup Links
  /\ proven \subseteq Secrets
  /\ retired \subseteq RecoveryCodes
  /\ uses \in [Codes -> Nat]
  /\ wrong \in Nat
  /\ answer \in [Links -> {"none", "unlocked", "unknown"}]
  /\ env \in Scenarios

\* the factor is off, or was confirmed before the run begins
Init ==
  /\ \/ row = NoRow /\ seen = {} /\ proven = {}
     \/ \E s \in Secrets, b \in Batches :
          /\ row = [secret |-> s, enabled |-> TRUE, codes |-> Batch(b), last |-> 0]
          /\ seen = {s, b} /\ proven = {s}
  /\ env \in Scenarios
  /\ fails = 0 /\ locked = FALSE
  /\ slot = None
  /\ proc = [p \in Procs |-> Idle]
  /\ step = 1
  /\ retired = {}
  /\ uses = [c \in Codes |-> 0]
  /\ wrong = 0
  /\ answer = [l \in Links |-> "none"]

At(p, pc) == proc[p].pc = pc
GoTo(p, pc) == proc' = [proc EXCEPT ![p].pc = pc]
Finish(p) == proc' = [proc EXCEPT ![p] = Idle]

\* a request comes in
Starts(p) ==
  /\ At(p, "idle")
  /\ "overlap" \in env \/ \A q \in Procs : At(q, "idle")

lockout == <<fails, locked, wrong>>
history == <<seen, proven, retired, uses, answer, env>>

Fresh(x) == x \notin seen /\ seen' = seen \cup {x}
InForce == IF row.enabled /\ row.codes # None THEN row.codes ELSE {}

-----------------------------------------------------------------------------
(* Answering the challenge: mfaVerify.                                     *)

\* variant: verifies before asking whether the factor is locked
ChallengeWhileLocked(p, code) ==
  /\ Starts(p)
  /\ proc' = [proc EXCEPT ![p] = [Idle EXCEPT !.pc = "read", !.code = code]]
  /\ UNCHANGED <<row, slot, step, lockout, history>>

\* nothing is verified while the factor is locked; it may have been turned off
\* since the challenge was shown
ChallengeBegin(p, code) ==
  /\ Starts(p)
  /\ ~locked
  /\ proc' = [proc EXCEPT ![p] = [Idle EXCEPT !.pc = "read", !.code = code]]
  /\ UNCHANGED <<row, slot, step, lockout, history>>

\* variant: the last accepted step is accepted again
ValidTotpAgain(code) ==
  /\ row.enabled /\ row.secret # None
  /\ code = <<row.secret, step>>
  /\ step >= row.last

ValidTotp(code) ==
  /\ row.enabled /\ row.secret # None
  /\ code = <<row.secret, step>>
  /\ step > row.last

\* verifyTotp and consumeRecoveryCode up to their upsert
VerifyRead(p) ==
  LET code == proc[p].code
      ok   == \/ code \in TotpCodes /\ ValidTotp(code)
              \/ code \in InForce IN
  /\ At(p, "read")
  /\ IF ok
     THEN /\ proc' = [proc EXCEPT ![p].pc = "accept",
                                  ![p].left = InForce \ {code}]
          /\ UNCHANGED wrong
     ELSE GoTo(p, "fail") /\ wrong' = wrong + 1
  /\ UNCHANGED <<row, fails, locked, slot, step, history>>

\* variant: stores the step after the accepted one
VerifyAcceptNextStep(p) ==
  LET code == proc[p].code IN
  /\ At(p, "accept")
  /\ row' = IF code \in TotpCodes THEN [row EXCEPT !.last = code[2] + 1]
            ELSE [row EXCEPT !.codes = proc[p].left]
  /\ uses' = [uses EXCEPT ![code] = @ + 1]
  /\ GoTo(p, "clear")
  /\ UNCHANGED <<slot, step, lockout, seen, proven, retired, answer, env>>

\* variant: accepts a recovery code and does not write the remaining ones
VerifyAcceptKept(p) ==
  LET code == proc[p].code IN
  /\ At(p, "accept")
  /\ row' = IF code \in TotpCodes THEN [row EXCEPT !.last = code[2]] ELSE row
  /\ uses' = [uses EXCEPT ![code] = @ + 1]
  /\ GoTo(p, "clear")
  /\ UNCHANGED <<slot, step, lockout, seen, proven, retired, answer, env>>

VerifyAccept(p) ==
  LET code == proc[p].code IN
  /\ At(p, "accept")
  /\ row' = IF code \in TotpCodes THEN [row EXCEPT !.last = code[2]]
            ELSE [row EXCEPT !.codes = proc[p].left]
  /\ uses' = [uses EXCEPT ![code] = @ + 1]
  /\ GoTo(p, "clear")
  /\ UNCHANGED <<slot, step, lockout, seen, proven, retired, answer, env>>

ClearFailures(p) ==
  /\ At(p, "clear")
  /\ fails' = 0 /\ wrong' = 0
  /\ Finish(p)
  /\ UNCHANGED <<row, locked, slot, step, history>>

-----------------------------------------------------------------------------
(* A wrong answer: OtpLockout.recordFailure, and the mail that follows.    *)

FailureCheck(p) ==
  /\ At(p, "fail")
  /\ GoTo(p, IF locked THEN "mail" ELSE "count")
  /\ UNCHANGED <<row, slot, step, lockout, history>>

FailureCount(p) ==
  /\ At(p, "count")
  /\ fails' = fails + 1
  /\ IF fails + 1 < MaxAttempts THEN Finish(p) ELSE GoTo(p, "block")
  /\ UNCHANGED <<row, locked, wrong, slot, step, history>>

FailureBlock(p) ==
  /\ At(p, "block")
  /\ locked' = TRUE
  /\ GoTo(p, "forget")
  /\ UNCHANGED <<row, fails, wrong, slot, step, history>>

FailureForget(p) ==
  /\ At(p, "forget")
  /\ fails' = 0
  /\ GoTo(p, "mail")
  /\ UNCHANGED <<row, locked, wrong, slot, step, history>>

\* once the links of a run are used up, the mail is not sent: best effort
SendOtpUnlockEmail(p) ==
  /\ At(p, "mail")
  /\ \/ \E l \in Links : Fresh(l) /\ slot' = l
     \/ Links \subseteq seen /\ UNCHANGED <<slot, seen>>
  /\ Finish(p)
  /\ UNCHANGED <<row, step, lockout, proven, retired, uses, answer, env>>

-----------------------------------------------------------------------------
(* The unlock link: otpUnlock.                                             *)

OtpUnlockFind(p, l) ==
  /\ "unlock" \in env
  /\ Starts(p)
  /\ l \in seen
  /\ IF FindsByToken /\ slot = l
     THEN /\ proc' = [proc EXCEPT ![p] = [Idle EXCEPT !.pc = "unlock",
                                                      !.link = l]]
          /\ UNCHANGED answer
     ELSE answer' = [answer EXCEPT ![l] = "unknown"] /\ UNCHANGED proc
  /\ UNCHANGED <<row, slot, step, lockout, seen, proven, retired, uses, env>>

OtpUnlockForget(p) ==
  /\ At(p, "unlock")
  /\ fails' = 0 /\ wrong' = 0
  /\ GoTo(p, "lift")
  /\ UNCHANGED <<row, locked, slot, step, history>>

OtpUnlockLift(p) ==
  /\ At(p, "lift")
  /\ locked' = FALSE /\ wrong' = 0
  /\ GoTo(p, "spend")
  /\ UNCHANGED <<row, fails, slot, step, history>>

OtpUnlockSpend(p) ==
  /\ At(p, "spend")
  /\ slot' = None
  /\ answer' = [answer EXCEPT ![proc[p].link] = "unlocked"]
  /\ Finish(p)
  /\ UNCHANGED <<row, step, lockout, seen, proven, retired, uses, env>>

-----------------------------------------------------------------------------
(* Managing the factor: the account console and its API.                   *)

Manages(p) == "manage" \in env /\ Starts(p)

\* variant: a new secret inherits the activation of the one it replaces
StartTotpEnrollmentActive(p, s) ==
  /\ Manages(p)
  /\ Fresh(s)
  /\ row' = [row EXCEPT !.secret = s]
  /\ UNCHANGED <<slot, proc, step, lockout, proven, retired, uses, answer, env>>

StartTotpEnrollment(p, s) ==
  /\ Manages(p)
  /\ Fresh(s)
  /\ retired' = retired \cup InForce
  /\ row' = [NoRow EXCEPT !.secret = s]
  /\ UNCHANGED <<slot, proc, step, lockout, proven, uses, answer, env>>

\* the code is checked against the secret of the row, pending or not
ConfirmTotpBegin(p) ==
  /\ Manages(p)
  /\ row.secret # None
  /\ proc' = [proc EXCEPT ![p] = [Idle EXCEPT !.pc = "confirm",
                                              !.secret = row.secret]]
  /\ UNCHANGED <<row, slot, step, lockout, history>>

ConfirmTotpSave(p, b) ==
  /\ At(p, "confirm")
  /\ Fresh(b)
  /\ proven' = proven \cup {proc[p].secret}
  /\ retired' = retired \cup InForce
  /\ row' = [row EXCEPT !.enabled = TRUE, !.codes = Batch(b)]
  /\ Finish(p)
  /\ UNCHANGED <<slot, step, lockout, uses, answer, env>>

RegenerateBegin(p) ==
  /\ Manages(p)
  /\ row.enabled
  /\ proc' = [proc EXCEPT ![p] = [Idle EXCEPT !.pc = "regenerate"]]
  /\ UNCHANGED <<row, slot, step, lockout, history>>

\* variant: adds the new codes to the old ones
RegenerateSaveAdds(p, b) ==
  /\ At(p, "regenerate")
  /\ Fresh(b)
  /\ retired' = retired \cup InForce
  /\ row' = [row EXCEPT !.codes = Batch(b) \cup InForce]
  /\ Finish(p)
  /\ UNCHANGED <<slot, step, lockout, proven, uses, answer, env>>

RegenerateSave(p, b) ==
  /\ At(p, "regenerate")
  /\ Fresh(b)
  /\ retired' = retired \cup InForce
  /\ row' = [row EXCEPT !.codes = Batch(b)]
  /\ Finish(p)
  /\ UNCHANGED <<slot, step, lockout, proven, uses, answer, env>>

DisableMfa(p) ==
  /\ Manages(p)
  /\ retired' = retired \cup InForce
  /\ row' = NoRow
  /\ UNCHANGED <<slot, proc, step, lockout, seen, proven, uses, answer, env>>

\* verifyPasskeyRegistration turns the factor on without touching the secret
RegisterPasskey(p) ==
  /\ "passkey" \in env
  /\ Starts(p)
  /\ ~row.enabled
  /\ row' = [row EXCEPT !.enabled = TRUE]
  /\ UNCHANGED <<slot, proc, step, lockout, history>>

-----------------------------------------------------------------------------
(* The environment.                                                        *)

Tick ==
  /\ step < MaxStep
  /\ step' = step + 1
  /\ UNCHANGED <<row, slot, proc, lockout, history>>

LockExpires ==
  /\ "expire" \in env
  /\ locked
  /\ locked' = FALSE /\ wrong' = 0
  /\ UNCHANGED <<row, fails, slot, proc, step, history>>

WindowExpires ==
  /\ "expire" \in env
  /\ fails > 0
  /\ fails' = 0 /\ wrong' = 0
  /\ UNCHANGED <<row, locked, slot, proc, step, history>>

\* another credential is mailed, or the link outlives its TTL
LinkLost ==
  /\ "expire" \in env
  /\ slot # None
  /\ slot' = None
  /\ UNCHANGED <<row, proc, step, lockout, history>>

Presented == {c \in TotpCodes : c[2] = step}
               \cup {c \in RecoveryCodes : c[1] \in seen}

Next ==
  \/ \E p \in Procs :
       \/ \E code \in Presented : ChallengeBegin(p, code)
       \/ VerifyRead(p) \/ VerifyAccept(p) \/ ClearFailures(p)
       \/ FailureCheck(p) \/ FailureCount(p) \/ FailureBlock(p)
       \/ FailureForget(p) \/ SendOtpUnlockEmail(p)
       \/ \E l \in Links : OtpUnlockFind(p, l)
       \/ OtpUnlockForget(p) \/ OtpUnlockLift(p) \/ OtpUnlockSpend(p)
       \/ \E s \in Secrets : StartTotpEnrollment(p, s)
       \/ ConfirmTotpBegin(p)
       \/ \E b \in Batches : ConfirmTotpSave(p, b)
       \/ RegenerateBegin(p)
       \/ \E b \in Batches : RegenerateSave(p, b)
       \/ DisableMfa(p) \/ RegisterPasskey(p)
  \/ Tick \/ LockExpires \/ WindowExpires \/ LinkLost

Spec == Init /\ [][Next]_vars

-----------------------------------------------------------------------------
(* Properties.                                                             *)

\* The reads and partial upserts of one request do not mix with those of another.
Serial == "overlap" \notin env

\* A TOTP code answers at most one challenge, also within its window (comment of
\* verifyTotp: the same code cannot be reused, nor one of an earlier step), by
\* requests that do not overlap. The code that confirmed the secret is not counted:
\* confirmTotpEnrollment does not note its step, so it may answer a challenge as well.
TotpSingleUse == Serial => \A c \in TotpCodes : uses[c] <= 1

\* A recovery code is accepted at most once by requests that do not overlap
\* (MfaCapability.consumeRecoveryCode).
RecoverySingleUse == Serial => \A c \in RecoveryCodes : uses[c] <= 1

\* Recovery codes that were replaced or discarded never come back into force
\* (comment of regenerateRecoveryCodes: the old ones stop counting at once).
RetiredStayOut == Serial => InForce \cap retired = {}

\* getMfaState answers totp only for a secret that the user confirmed with a code
\* (MfaCapability.getMfaState: an authenticator app that is CONFIRMED), as long as
\* no passkey turns the factor on beside it.
TotpIsConfirmed ==
  (Serial /\ "passkey" \notin env /\ row.enabled /\ row.secret # None /\ row.codes # None)
    => row.secret \in proven

\* However many requests answer at the same time, at most MaxAttempts wrong
\* answers are verified before the lock, plus one for each other request that had
\* already passed the lock check (mfaVerify, recordFailure), where neither the
\* lock nor the failure counter is lifted or runs out in between.
WrongAnswersBounded ==
  env \cap {"unlock", "expire"} = {} =>
    wrong <= MaxAttempts + Cardinality(Procs) - 1

\* "On a valid click the failure counters are cleared" (security.mdx): a link that is
\* still in the account's column is not answered as unknown (otpUnlock). Checked for the
\* account store the package ships, which offers neither look-up (FindsByToken = FALSE).
LinkIsHonoured == \A l \in Links : slot = l => answer[l] # "unknown"
=============================================================================
