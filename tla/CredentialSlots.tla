--------------------------- MODULE CredentialSlots ---------------------------
(***************************************************************************)
(* The credentials mailed to a user and kept in one shared column of the   *)
(* account row, passwordResetToken (accounts/lucid_store/core.ts,          *)
(* host/otp_login.ts): a password reset, a magic link, a magic link with a *)
(* typed code, or the unlock link of the second factor.  Issuing one       *)
(* overwrites whichever was there; consuming one clears the column.        *)
(*                                                                         *)
(* A link is consumed by a plain read followed, an await later, by an      *)
(* UPDATE of the row; a code is verified inside a transaction that holds   *)
(* the row lock from its read to its commit, which an UPDATE waits for and *)
(* a plain read does not.                                                  *)
(*                                                                         *)
(* A credential is an element of Tokens: its link, and its code if it has  *)
(* one, with the interaction the code is tied to.  Hashing is what makes   *)
(* the stored value and the mailed one the same credential, and no other.  *)
(***************************************************************************)
EXTENDS Integers, FiniteSets

CONSTANTS
  Accounts,
  Tokens,        \* credentials that can be mailed
  Procs,         \* requests that can be in flight at the same time
  MaxAttempts,   \* wrong codes before a code is invalidated
  ResetTtl, LinkTtl, CodeTtl, UnlockTtl,
  MaxTime,       \* bound of the clock
  None

ASSUME ConstantsAssumption ==
  /\ MaxAttempts \in Nat \ {0}
  /\ ResetTtl \in Nat /\ LinkTtl \in Nat /\ CodeTtl \in Nat /\ UnlockTtl \in Nat
  /\ MaxTime \in Nat
  /\ None \notin Accounts \cup Tokens \cup Procs

VARIABLES
  slot,      \* the column of each account
  lock,      \* the transaction holding the row lock of each account
  proc,      \* the requests in flight
  now,       \* the clock
  issued,    \* history: credentials mailed so far
  uses,      \* history: how many times each credential was accepted
  guesses    \* history: how many codes were compared with the one of each

vars == <<slot, lock, proc, now, issued, uses, guesses>>

Kinds == {"reset", "magic", "code", "unlock"}
Instant == 0 .. MaxTime
Time == 0 .. (MaxTime + ResetTtl + LinkTtl + CodeTtl + UnlockTtl)

\* codeAlive is FALSE once codeHash was emptied by the lockout
Row == [kind : Kinds \cup {None}, token : Tokens \cup {None}, exp : Time,
        codeExp : Time, codeAlive : BOOLEAN, attempts : 0 .. MaxAttempts]

EmptyRow == [kind |-> None, token |-> None, exp |-> 0, codeExp |-> 0,
             codeAlive |-> FALSE, attempts |-> 0]

\* token: the credential presented; row: the columns as the request read them
Local == [pc : {"idle", "reset", "link", "code"}, account : Accounts \cup {None},
          token : Tokens \cup {None}, row : Row, at : Instant]

Idle == [pc |-> "idle", account |-> None, token |-> None, row |-> EmptyRow,
         at |-> 0]

TypeOK ==
  /\ slot \in [Accounts -> Row]
  /\ lock \in [Accounts -> Procs \cup {None}]
  /\ proc \in [Procs -> Local]
  /\ now \in Instant
  /\ issued \subseteq Tokens
  /\ uses \in [Tokens -> Nat]
  /\ guesses \in [Tokens -> Nat]

Init ==
  /\ slot = [a \in Accounts |-> EmptyRow]
  /\ lock = [a \in Accounts |-> None]
  /\ proc = [p \in Procs |-> Idle]
  /\ now = 0
  /\ issued = {}
  /\ uses = [t \in Tokens |-> 0]
  /\ guesses = [t \in Tokens |-> 0]

At(p, pc) == proc[p].pc = pc
Finish(p) == proc' = [proc EXCEPT ![p] = Idle]
Unlocked(a) == lock[a] = None
Accepted(t) == uses' = [uses EXCEPT ![t] = @ + 1]

\* SELECT ... WHERE passwordResetToken = <hash of the presented credential>, and
\* the expiry of the row found; nothing is locked
Reads(p, pc, a, t) ==
  /\ At(p, "idle")
  /\ slot[a].token = t
  /\ slot[a].exp >= now
  /\ proc' = [proc EXCEPT ![p] = [pc |-> pc, account |-> a, token |-> t,
                                  row |-> slot[a], at |-> now]]
  /\ UNCHANGED <<slot, lock, now, issued, uses, guesses>>

\* UPDATE of the columns by id: it waits for the row lock, and checks nothing
Overwrites(a, row) == Unlocked(a) /\ slot' = [slot EXCEPT ![a] = row]

-----------------------------------------------------------------------------
(* Issuing.                                                                *)

Issue(a, t, row) ==
  /\ t \notin issued
  /\ Overwrites(a, row)
  /\ issued' = issued \cup {t}
  /\ UNCHANGED <<lock, proc, now, uses, guesses>>

\* variant: mixes minutes and seconds
LinkInSeconds(kind, t, ttl) ==
  [kind |-> kind, token |-> t, exp |-> now + 60 * ttl, codeExp |-> 0,
   codeAlive |-> FALSE, attempts |-> 0]

Link(kind, t, ttl) ==
  [kind |-> kind, token |-> t, exp |-> now + ttl, codeExp |-> 0,
   codeAlive |-> FALSE, attempts |-> 0]

IssuePasswordResetToken(a, t) == Issue(a, t, Link("reset", t, ResetTtl))

IssueMagicLinkToken(a, t) == Issue(a, t, Link("magic", t, LinkTtl))

IssueMagicLinkWithCode(a, t) ==
  Issue(a, t, [kind |-> "code", token |-> t, exp |-> now + LinkTtl,
               codeExp |-> now + CodeTtl, codeAlive |-> TRUE, attempts |-> 0])

SendOtpUnlockEmail(a, t) == Issue(a, t, Link("unlock", t, UnlockTtl))

-----------------------------------------------------------------------------
(* Consuming a link.                                                       *)

ConsumePasswordResetBegin(p, a, t) ==
  slot[a].kind = "reset" /\ Reads(p, "reset", a, t)

\* the password policy may refuse the new password: the handler throws
ConsumePasswordResetRefused(p) ==
  /\ At(p, "reset")
  /\ Finish(p)
  /\ UNCHANGED <<slot, lock, now, issued, uses, guesses>>

ConsumePasswordResetSave(p) ==
  /\ At(p, "reset")
  /\ Overwrites(proc[p].account, EmptyRow)
  /\ Accepted(proc[p].token)
  /\ Finish(p)
  /\ UNCHANGED <<lock, now, issued, guesses>>

ConsumeMagicLinkBegin(p, a, t) ==
  slot[a].kind \in {"magic", "code"} /\ Reads(p, "link", a, t)

\* variant: accepts the link and leaves it in the column
ConsumeMagicLinkKept(p) ==
  /\ At(p, "link")
  /\ Accepted(proc[p].token)
  /\ Finish(p)
  /\ UNCHANGED <<slot, lock, now, issued, guesses>>

ConsumeMagicLinkSave(p) ==
  /\ At(p, "link")
  /\ Overwrites(proc[p].account, EmptyRow)
  /\ Accepted(proc[p].token)
  /\ Finish(p)
  /\ UNCHANGED <<lock, now, issued, guesses>>

-----------------------------------------------------------------------------
(* Verifying a code: verifyLoginCode and evaluateLoginOtp.  The presented  *)
(* code is the one of credential t, in its interaction; a random guess is  *)
(* the code of a credential that was never mailed.                         *)

\* variant: reads the row without FOR UPDATE
VerifyLoginCodeNoLock(p, a, t) ==
  /\ At(p, "idle")
  /\ proc' = [proc EXCEPT ![p] = [pc |-> "code", account |-> a, token |-> t,
                                  row |-> slot[a], at |-> now]]
  /\ UNCHANGED <<slot, lock, now, issued, uses, guesses>>

VerifyLoginCodeBegin(p, a, t) ==
  /\ At(p, "idle")
  /\ Unlocked(a)
  /\ lock' = [lock EXCEPT ![a] = p]
  /\ proc' = [proc EXCEPT ![p] = [pc |-> "code", account |-> a, token |-> t,
                                  row |-> slot[a], at |-> now]]
  /\ UNCHANGED <<slot, now, issued, uses, guesses>>

Comparable(row, at) ==
  /\ row.kind = "code"
  /\ row.codeAlive
  /\ row.attempts < MaxAttempts
  /\ row.codeExp >= at

\* one more wrong code; the last one invalidates the code and keeps the link
Failed(row) ==
  [kind |-> row.kind, token |-> row.token, exp |-> row.exp,
   codeExp |-> row.codeExp, codeAlive |-> row.attempts + 1 < MaxAttempts,
   attempts |-> row.attempts + 1]

VerifyLoginCodeSave(p) ==
  LET a   == proc[p].account
      t   == proc[p].token
      row == proc[p].row IN
  /\ At(p, "code")
  /\ IF ~Comparable(row, proc[p].at)
     THEN UNCHANGED <<slot, uses, guesses>>
     ELSE /\ guesses' = [guesses EXCEPT ![row.token] = @ + 1]
          /\ IF row.token = t
             THEN slot' = [slot EXCEPT ![a] = EmptyRow] /\ Accepted(t)
             ELSE slot' = [slot EXCEPT ![a] = Failed(row)] /\ UNCHANGED uses
  /\ lock' = [lock EXCEPT ![a] = None]
  /\ Finish(p)
  /\ UNCHANGED <<now, issued>>

-----------------------------------------------------------------------------
(* The environment.                                                        *)

\* the process dies between two steps: an open transaction is rolled back
Crash(p) ==
  /\ ~At(p, "idle")
  /\ lock' = [a \in Accounts |-> IF lock[a] = p THEN None ELSE lock[a]]
  /\ Finish(p)
  /\ UNCHANGED <<slot, now, issued, uses, guesses>>

Tick ==
  /\ now < MaxTime
  /\ now' = now + 1
  /\ UNCHANGED <<slot, lock, proc, issued, uses, guesses>>

Next ==
  \/ \E a \in Accounts, t \in Tokens :
       \/ IssuePasswordResetToken(a, t)
       \/ IssueMagicLinkToken(a, t)
       \/ IssueMagicLinkWithCode(a, t)
       \/ SendOtpUnlockEmail(a, t)
  \/ \E p \in Procs, a \in Accounts, t \in Tokens :
       \/ ConsumePasswordResetBegin(p, a, t)
       \/ ConsumeMagicLinkBegin(p, a, t)
       \/ VerifyLoginCodeBegin(p, a, t)
  \/ \E p \in Procs :
       \/ ConsumePasswordResetRefused(p)
       \/ ConsumePasswordResetSave(p)
       \/ ConsumeMagicLinkSave(p)
       \/ VerifyLoginCodeSave(p)
       \/ Crash(p)
  \/ Tick

Spec == Init /\ [][Next]_vars

-----------------------------------------------------------------------------
(* Properties.                                                             *)

\* However many requests guess at the same time, a code is compared with at most
\* MaxAttempts of them: the hard bound that verifyLoginCode's comment promises.
GuessesBounded == \A t \in Tokens : guesses[t] <= MaxAttempts

\* A column only moves forward: a credential that left it never comes back, a
\* counted attempt is never forgotten and an invalidated code never revives,
\* whichever writers run between the read and the write of a verification
\* (comment of verifyLoginCode: no slot resurrected, no increment erased).
SlotOnlyAdvances ==
  [][\A a \in Accounts :
       /\ slot'[a].token \in Tokens \ {slot[a].token} =>
            slot'[a].token \notin issued
       /\ slot'[a].token = slot[a].token =>
            /\ slot'[a].attempts >= slot[a].attempts
            /\ slot'[a].codeAlive => slot[a].codeAlive]_vars

\* A credential accepted once is in no column any more: only a request that had
\* already read it can have it accepted again.
ConsumedIsGone ==
  \A a \in Accounts : slot[a].token # None => uses[slot[a].token] = 0

\* "Joint single use: code and link live in the same slot, consuming either clears
\* it and the other dies with it" (otp_login.ts): a credential is accepted once.
JointSingleUse == \A t \in Tokens : uses[t] <= 1
=============================================================================
