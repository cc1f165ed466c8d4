------------------------ MODULE CredentialSlotsProofs ------------------------
(***************************************************************************)
(* TLAPS proofs about CredentialSlots, for every value of its constants:   *)
(* type correctness, GuessesBounded, ConsumedIsGone and SlotOnlyAdvances.  *)
(*                                                                         *)
(* The argument is the row lock: while a verification runs, the row it     *)
(* read is still the row of the account, so the attempts it counted are    *)
(* all the attempts there were.  IInv says so (Holding), and says that the *)
(* attempts stored in a column are the comparisons made with its code.     *)
(***************************************************************************)
EXTENDS CredentialSlots, TLAPS

\* an empty column holds nothing; a full one counts the comparisons made
ColumnOK(a) ==
  /\ slot[a].token = None => slot[a] = EmptyRow
  /\ slot[a].token # None => /\ slot[a].token \in issued
                             /\ uses[slot[a].token] = 0
                             /\ guesses[slot[a].token] = slot[a].attempts

ColumnsOK == \A a \in Accounts : ColumnOK(a)

\* a credential is in the column of one account at most
OneHolder ==
  \A a, b \in Accounts :
    (slot[a].token # None /\ slot[a].token = slot[b].token) => a = b

FreshOK == \A t \in Tokens : t \notin issued => uses[t] = 0 /\ guesses[t] = 0

\* a verification holds the lock, and has read what the column still holds
Holding(p) ==
  At(p, "code") => /\ proc[p].account \in Accounts
                   /\ proc[p].token \in Tokens
                   /\ lock[proc[p].account] = p
                   /\ proc[p].row = slot[proc[p].account]

\* a link about to be consumed is in no other column than the one it was read in
Consuming(p) ==
  (At(p, "reset") \/ At(p, "link")) =>
    /\ proc[p].account \in Accounts
    /\ proc[p].token \in issued
    /\ \A a \in Accounts : slot[a].token = proc[p].token => a = proc[p].account

RequestsOK == \A p \in Procs : Holding(p) /\ Consuming(p)

IInv ==
  /\ TypeOK
  /\ ColumnsOK
  /\ OneHolder
  /\ FreshOK
  /\ RequestsOK
  /\ GuessesBounded

\* The inductive invariant holds initially.
LEMMA InitInv == Init => IInv
  <1> SUFFICES ASSUME Init PROVE IInv
    OBVIOUS
  <1> USE ConstantsAssumption
  <1>1. TypeOK
    BY DEF Init, TypeOK, EmptyRow, Row, Idle, Local, Instant, Time, Kinds
  <1>2. ColumnsOK /\ OneHolder /\ FreshOK
    BY DEF Init, ColumnsOK, ColumnOK, OneHolder, FreshOK, EmptyRow
  <1>3. RequestsOK
    BY DEF Init, RequestsOK, Holding, Consuming, At, Idle
  <1>4. GuessesBounded
    BY DEF Init, GuessesBounded
  <1> QED
    BY <1>1, <1>2, <1>3, <1>4 DEF IInv

\* Mailing a new credential keeps the invariant.
LEMMA IssueInv ==
  ASSUME IInv, NEW a \in Accounts, NEW t \in Tokens, NEW row \in Row,
         row.token = t, row.attempts = 0, Issue(a, t, row)
  PROVE  IInv'
  <1> USE ConstantsAssumption DEF IInv
  <1>0. /\ t \notin issued /\ lock[a] = None
        /\ slot' = [slot EXCEPT ![a] = row]
        /\ issued' = issued \cup {t}
        /\ UNCHANGED <<lock, proc, now, uses, guesses>>
    BY DEF Issue, Overwrites, Unlocked
  <1>1. TypeOK'
    BY <1>0 DEF TypeOK
  <1>2. slot \in [Accounts -> Row] /\ t # None
    BY DEF TypeOK
  <1>3. ColumnsOK'
    BY <1>0, <1>2 DEF ColumnsOK, ColumnOK, FreshOK
  <1>4. OneHolder'
    BY <1>0, <1>2 DEF OneHolder, ColumnsOK, ColumnOK
  <1>5. FreshOK'
    BY <1>0 DEF FreshOK
  <1>6. RequestsOK'
    <2> SUFFICES ASSUME NEW p \in Procs PROVE Holding(p)' /\ Consuming(p)'
      BY DEF RequestsOK
    <2>1. Holding(p)'
      BY <1>0, <1>2 DEF RequestsOK, Holding, At
    <2>2. Consuming(p)'
      BY <1>0, <1>2 DEF RequestsOK, Consuming, At
    <2> QED BY <2>1, <2>2
  <1>7. GuessesBounded'
    BY <1>0 DEF GuessesBounded
  <1> QED
    BY <1>1, <1>3, <1>4, <1>5, <1>6, <1>7

\* Reading the column at the start of a consumption keeps the invariant.
LEMMA ReadsInv ==
  ASSUME IInv, NEW p \in Procs, NEW a \in Accounts, NEW t \in Tokens,
         NEW pc \in {"reset", "link"}, Reads(p, pc, a, t)
  PROVE  IInv'
  <1> USE ConstantsAssumption DEF IInv
  <1>0. /\ slot[a].token = t
        /\ proc' = [proc EXCEPT ![p] = [pc |-> pc, account |-> a, token |-> t,
                                        row |-> slot[a], at |-> now]]
        /\ UNCHANGED <<slot, lock, now, issued, uses, guesses>>
    BY DEF Reads
  <1>1. TypeOK'
    BY <1>0 DEF TypeOK, Local
  <1>2. ColumnsOK' /\ OneHolder' /\ FreshOK' /\ GuessesBounded'
    BY <1>0 DEF ColumnsOK, ColumnOK, OneHolder, FreshOK, GuessesBounded
  <1>3. t # None /\ t \in issued /\ proc \in [Procs -> Local]
    BY <1>0 DEF ColumnsOK, ColumnOK, TypeOK
  <1>4. ASSUME NEW q \in Procs PROVE Holding(q)' /\ Consuming(q)'
    <2>1. CASE q = p
      BY <1>0, <1>3, <2>1 DEF Holding, Consuming, At, OneHolder
    <2>2. CASE q # p
      BY <1>0, <1>3, <2>2 DEF Holding, Consuming, At, RequestsOK
    <2> QED BY <2>1, <2>2
  <1> QED
    BY <1>1, <1>2, <1>4 DEF RequestsOK

\* Saving the row at the end of a consumption keeps the invariant.
LEMMA SaveInv ==
  ASSUME IInv, NEW p \in Procs, At(p, "reset") \/ At(p, "link"),
         Overwrites(proc[p].account, EmptyRow), Accepted(proc[p].token),
         Finish(p), UNCHANGED <<lock, now, issued, guesses>>
  PROVE  IInv'
  <1> USE ConstantsAssumption DEF IInv
  <1>0. Consuming(p)
    BY DEF RequestsOK
  <1>1. PICK a \in Accounts, t \in issued :
          /\ a = proc[p].account /\ t = proc[p].token
          /\ \A b \in Accounts : slot[b].token = t => b = a
    BY <1>0 DEF Consuming
  <1>2. /\ t \in Tokens /\ lock[a] = None
        /\ slot' = [slot EXCEPT ![a] = EmptyRow]
        /\ uses' = [uses EXCEPT ![t] = uses[t] + 1]
        /\ proc' = [proc EXCEPT ![p] = Idle]
        /\ UNCHANGED <<lock, now, issued, guesses>>
    BY <1>1 DEF Overwrites, Unlocked, Accepted, Finish, TypeOK
  <1>3. slot \in [Accounts -> Row] /\ uses \in [Tokens -> Nat] /\ proc \in [Procs -> Local]
    BY DEF TypeOK
  <1>4. EmptyRow \in Row /\ EmptyRow.token = None /\ Idle \in Local /\ Idle.pc = "idle"
    BY DEF EmptyRow, Row, Idle, Local, Time, Instant
  <1>5. TypeOK'
    BY <1>2, <1>3, <1>4 DEF TypeOK
  <1>6. ColumnsOK' /\ OneHolder'
    BY <1>1, <1>2, <1>3, <1>4 DEF ColumnsOK, ColumnOK, OneHolder, TypeOK
  <1>7. FreshOK' /\ GuessesBounded'
    BY <1>1, <1>2, <1>3 DEF FreshOK, GuessesBounded
  <1>8. ASSUME NEW q \in Procs PROVE Holding(q)' /\ Consuming(q)'
    <2>1. CASE q = p
      BY <1>2, <1>3, <1>4, <2>1 DEF Holding, Consuming, At
    <2>2. CASE q # p
      <3>1. proc'[q] = proc[q]
        BY <1>2, <1>3, <2>2
      <3>2. Holding(q)'
        BY <3>1, <1>2, <1>3 DEF RequestsOK, Holding, At
      <3>3. Consuming(q)'
        BY <3>1, <1>2, <1>3, <1>4 DEF RequestsOK, Consuming, At, TypeOK
      <3> QED BY <3>2, <3>3
    <2> QED BY <2>1, <2>2
  <1> QED
    BY <1>5, <1>6, <1>7, <1>8 DEF RequestsOK

\* Taking the row lock keeps the invariant.
LEMMA VerifyBeginInv ==
  ASSUME IInv, NEW p \in Procs, NEW a \in Accounts, NEW t \in Tokens,
         VerifyLoginCodeBegin(p, a, t)
  PROVE  IInv'
  <1> USE ConstantsAssumption DEF IInv
  <1>0. /\ lock[a] = None
        /\ lock' = [lock EXCEPT ![a] = p]
        /\ proc' = [proc EXCEPT ![p] = [pc |-> "code", account |-> a, token |-> t,
                                        row |-> slot[a], at |-> now]]
        /\ UNCHANGED <<slot, now, issued, uses, guesses>>
    BY DEF VerifyLoginCodeBegin, Unlocked
  <1>1. TypeOK'
    BY <1>0 DEF TypeOK, Local
  <1>2. ColumnsOK' /\ OneHolder' /\ FreshOK' /\ GuessesBounded'
    BY <1>0 DEF ColumnsOK, ColumnOK, OneHolder, FreshOK, GuessesBounded
  <1>3. proc \in [Procs -> Local] /\ lock \in [Accounts -> Procs \cup {None}]
    BY DEF TypeOK
  <1>4. ASSUME NEW q \in Procs PROVE Holding(q)' /\ Consuming(q)'
    <2>1. CASE q = p
      BY <1>0, <1>3, <2>1 DEF Holding, Consuming, At
    <2>2. CASE q # p
      BY <1>0, <1>3, <2>2 DEF Holding, Consuming, At, RequestsOK
    <2> QED BY <2>1, <2>2
  <1> QED
    BY <1>1, <1>2, <1>4 DEF RequestsOK

\* What a verification finds when it commits: the row it read is still the
\* column, and its lock is its own.
LEMMA Committing ==
  ASSUME IInv, NEW p \in Procs, At(p, "code")
  PROVE  /\ proc[p].account \in Accounts
         /\ proc[p].token \in Tokens
         /\ lock[proc[p].account] = p
         /\ proc[p].row = slot[proc[p].account]
  BY DEF IInv, RequestsOK, Holding

\* Committing a verification keeps the invariant.
LEMMA VerifySaveInv ==
  ASSUME IInv, NEW p \in Procs, VerifyLoginCodeSave(p)
  PROVE  IInv'
  <1> USE ConstantsAssumption DEF IInv
  <1>0. At(p, "code")
    BY DEF VerifyLoginCodeSave
  <1>1. PICK a \in Accounts, t \in Tokens :
          a = proc[p].account /\ t = proc[p].token /\ lock[a] = p
    BY <1>0, Committing
  <1>2. proc[p].row = slot[a]
    BY <1>0, <1>1, Committing
  <1>3. /\ lock' = [lock EXCEPT ![a] = None]
        /\ proc' = [proc EXCEPT ![p] = Idle]
        /\ UNCHANGED <<now, issued>>
    BY <1>1 DEF VerifyLoginCodeSave, Finish
  <1>4. /\ slot \in [Accounts -> Row] /\ uses \in [Tokens -> Nat]
        /\ guesses \in [Tokens -> Nat] /\ proc \in [Procs -> Local]
        /\ lock \in [Accounts -> Procs \cup {None}]
        /\ issued \subseteq Tokens
    BY DEF TypeOK
  <1>5. EmptyRow \in Row /\ EmptyRow.token = None /\ Idle \in Local /\ Idle.pc = "idle"
    BY DEF EmptyRow, Row, Idle, Local, Time, Instant
  \* the requests: none but p held this lock, and no column gains a credential
  <1>6. ASSUME NEW r \in Row, slot' = [slot EXCEPT ![a] = r],
               r.token \in {slot[a].token, None}
        PROVE  RequestsOK'
    <2> SUFFICES ASSUME NEW q \in Procs PROVE Holding(q)' /\ Consuming(q)'
      BY DEF RequestsOK
    <2>1. CASE q = p
      BY <1>3, <1>4, <1>5, <2>1 DEF Holding, Consuming, At
    <2>2. CASE q # p
      <3>1. proc'[q] = proc[q]
        BY <1>3, <1>4, <2>2
      <3>2. Holding(q)'
        BY <3>1, <1>1, <1>3, <1>4, <1>6, <2>2 DEF RequestsOK, Holding, At
      <3>3. Consuming(q)'
        BY <3>1, <1>3, <1>4, <1>6 DEF RequestsOK, Consuming, At
      <3> QED BY <3>2, <3>3
    <2> QED BY <2>1, <2>2
  <1>7. CASE ~Comparable(slot[a], proc[p].at)
    <2>1. UNCHANGED <<slot, uses, guesses>>
      BY <1>1, <1>2, <1>7 DEF VerifyLoginCodeSave
    <2>2. TypeOK'
      BY <2>1, <1>3, <1>4, <1>5 DEF TypeOK
    <2>3. ColumnsOK' /\ OneHolder' /\ FreshOK' /\ GuessesBounded'
      BY <2>1, <1>3 DEF ColumnsOK, ColumnOK, OneHolder, FreshOK, GuessesBounded
    <2>4. RequestsOK'
      BY <2>1, <1>4, <1>6
    <2> QED BY <2>2, <2>3, <2>4
  <1>8. CASE Comparable(slot[a], proc[p].at)
    <2>1. PICK u \in Tokens : /\ u = slot[a].token /\ u \in issued
                              /\ uses[u] = 0
                              /\ guesses[u] = slot[a].attempts
                              /\ slot[a].attempts + 1 \in 0 .. MaxAttempts
      BY <1>4, <1>8 DEF Comparable, ColumnsOK, ColumnOK, EmptyRow, Row
    <2>2. guesses' = [guesses EXCEPT ![u] = guesses[u] + 1]
      BY <1>1, <1>2, <1>8, <2>1 DEF VerifyLoginCodeSave
    <2>3. \A b \in Accounts : b # a => slot[b].token # u
      BY <2>1 DEF OneHolder, TypeOK
    <2>4. GuessesBounded'
      BY <2>1, <2>2, <1>4 DEF GuessesBounded
    <2>5. CASE u = t
      <3>1. slot' = [slot EXCEPT ![a] = EmptyRow] /\ uses' = [uses EXCEPT ![t] = uses[t] + 1]
        BY <1>1, <1>2, <1>8, <2>1, <2>5 DEF VerifyLoginCodeSave, Accepted
      <3>2. TypeOK'
        BY <3>1, <2>2, <1>3, <1>4, <1>5 DEF TypeOK
      <3>3. ColumnsOK' /\ OneHolder'
        BY <3>1, <2>1, <2>2, <2>3, <2>5, <1>3, <1>4, <1>5 DEF ColumnsOK, ColumnOK, OneHolder
      <3>4. FreshOK'
        BY <3>1, <2>1, <2>2, <2>5, <1>3, <1>4 DEF FreshOK
      <3>5. RequestsOK'
        BY <3>1, <1>5, <1>6
      <3> QED BY <2>4, <3>2, <3>3, <3>4, <3>5
    <2>6. CASE u # t
      <3>1. slot' = [slot EXCEPT ![a] = Failed(slot[a])] /\ uses' = uses
        BY <1>1, <1>2, <1>8, <2>1, <2>6 DEF VerifyLoginCodeSave
      <3>2. /\ Failed(slot[a]) \in Row
            /\ Failed(slot[a]).token = u
            /\ Failed(slot[a]).attempts = slot[a].attempts + 1
        BY <2>1, <1>4 DEF Failed, Row
      <3>3. TypeOK'
        BY <3>1, <3>2, <2>2, <1>3, <1>4, <1>5 DEF TypeOK
      <3>4. ColumnsOK' /\ OneHolder'
        BY <3>1, <3>2, <2>1, <2>2, <2>3, <1>3, <1>4 DEF ColumnsOK, ColumnOK, OneHolder
      <3>5. FreshOK'
        BY <3>1, <2>1, <2>2, <1>3, <1>4 DEF FreshOK
      <3>6. RequestsOK'
        BY <3>1, <3>2, <2>1, <1>6
      <3> QED BY <2>4, <3>3, <3>4, <3>5, <3>6
    <2> QED BY <2>5, <2>6
  <1> QED BY <1>7, <1>8

\* A request that dies, or that the password policy refuses, keeps the invariant.
LEMMA GiveUpInv ==
  ASSUME IInv, NEW p \in Procs, Finish(p),
         \/ lock' = lock /\ ~At(p, "code")
         \/ lock' = [a \in Accounts |-> IF lock[a] = p THEN None ELSE lock[a]],
         UNCHANGED <<slot, now, issued, uses, guesses>>
  PROVE  IInv'
  <1> USE ConstantsAssumption DEF IInv
  <1>1. /\ proc \in [Procs -> Local] /\ lock \in [Accounts -> Procs \cup {None}]
        /\ proc' = [proc EXCEPT ![p] = Idle]
        /\ Idle \in Local /\ Idle.pc = "idle"
    BY DEF TypeOK, Finish, EmptyRow, Row, Idle, Local, Time, Instant
  <1>2. TypeOK'
    BY <1>1 DEF TypeOK
  <1>3. ColumnsOK' /\ OneHolder' /\ FreshOK' /\ GuessesBounded'
    BY DEF ColumnsOK, ColumnOK, OneHolder, FreshOK, GuessesBounded
  <1>4. ASSUME NEW q \in Procs PROVE Holding(q)' /\ Consuming(q)'
    <2>1. CASE q = p
      BY <1>1, <2>1 DEF Holding, Consuming, At
    <2>2. CASE q # p
      BY <1>1, <2>2 DEF Holding, Consuming, At, RequestsOK
    <2> QED BY <2>1, <2>2
  <1> QED
    BY <1>2, <1>3, <1>4 DEF RequestsOK

\* The rows that the four kinds of mail write are rows, with nothing counted yet.
LEMMA LinkRow ==
  ASSUME NEW kind \in Kinds, NEW t \in Tokens, TypeOK,
         NEW ttl \in {ResetTtl, LinkTtl, UnlockTtl}
  PROVE  /\ Link(kind, t, ttl) \in Row
         /\ Link(kind, t, ttl).token = t
         /\ Link(kind, t, ttl).attempts = 0
  BY ConstantsAssumption DEF Link, Row, Time, Instant, TypeOK

\* Every step keeps the inductive invariant.
LEMMA NextInv == IInv /\ [Next]_vars => IInv'
  <1> SUFFICES ASSUME IInv, [Next]_vars PROVE IInv'
    OBVIOUS
  <1> USE ConstantsAssumption
  <1>0. TypeOK
    BY DEF IInv
  <1>1. ASSUME NEW a \in Accounts, NEW t \in Tokens, IssuePasswordResetToken(a, t)
        PROVE  IInv'
    BY <1>0, <1>1, LinkRow, IssueInv DEF IssuePasswordResetToken, Kinds
  <1>2. ASSUME NEW a \in Accounts, NEW t \in Tokens, IssueMagicLinkToken(a, t)
        PROVE  IInv'
    BY <1>0, <1>2, LinkRow, IssueInv DEF IssueMagicLinkToken, Kinds
  <1>3. ASSUME NEW a \in Accounts, NEW t \in Tokens, IssueMagicLinkWithCode(a, t)
        PROVE  IInv'
    <2> DEFINE row == [kind |-> "code", token |-> t, exp |-> now + LinkTtl,
                       codeExp |-> now + CodeTtl, codeAlive |-> TRUE,
                       attempts |-> 0]
    <2>1. row \in Row /\ row.token = t /\ row.attempts = 0
      BY <1>0 DEF Kinds, Row, Time, Instant, TypeOK
    <2>2. Issue(a, t, row)
      BY <1>3 DEF IssueMagicLinkWithCode
    <2> HIDE DEF row
    <2> QED
      BY <2>1, <2>2, IssueInv
  <1>4. ASSUME NEW a \in Accounts, NEW t \in Tokens, SendOtpUnlockEmail(a, t)
        PROVE  IInv'
    BY <1>0, <1>4, LinkRow, IssueInv DEF SendOtpUnlockEmail, Kinds
  <1>5. ASSUME NEW p \in Procs, NEW a \in Accounts, NEW t \in Tokens,
               ConsumePasswordResetBegin(p, a, t) \/ ConsumeMagicLinkBegin(p, a, t)
        PROVE  IInv'
    BY <1>5, ReadsInv DEF ConsumePasswordResetBegin, ConsumeMagicLinkBegin
  <1>6. ASSUME NEW p \in Procs, NEW a \in Accounts, NEW t \in Tokens,
               VerifyLoginCodeBegin(p, a, t)
        PROVE  IInv'
    BY <1>6, VerifyBeginInv
  <1>7. ASSUME NEW p \in Procs, ConsumePasswordResetRefused(p)
        PROVE  IInv'
    BY <1>7, GiveUpInv DEF ConsumePasswordResetRefused, At
  <1>8. ASSUME NEW p \in Procs, ConsumePasswordResetSave(p) \/ ConsumeMagicLinkSave(p)
        PROVE  IInv'
    BY <1>8, SaveInv DEF ConsumePasswordResetSave, ConsumeMagicLinkSave
  <1>9. ASSUME NEW p \in Procs, VerifyLoginCodeSave(p)
        PROVE  IInv'
    BY <1>9, VerifySaveInv
  <1>10. ASSUME NEW p \in Procs, Crash(p)
         PROVE  IInv'
    BY <1>10, GiveUpInv DEF Crash
  <1>11. CASE Tick
    <2>1. TypeOK'
      BY <1>0, <1>11 DEF Tick, TypeOK, Instant
    <2>2. (ColumnsOK /\ OneHolder /\ FreshOK /\ RequestsOK /\ GuessesBounded)'
      BY <1>11 DEF IInv, Tick, ColumnsOK, ColumnOK, OneHolder, FreshOK,
                   RequestsOK, Holding, Consuming, At, GuessesBounded
    <2> QED BY <2>1, <2>2 DEF IInv
  <1>12. CASE UNCHANGED vars
    BY <1>12 DEF vars, IInv, TypeOK, ColumnsOK, ColumnOK, OneHolder, FreshOK,
                 RequestsOK, Holding, Consuming, At, GuessesBounded
  <1> QED
    BY <1>1, <1>2, <1>3, <1>4, <1>5, <1>6, <1>7, <1>8, <1>9, <1>10, <1>11,
       <1>12 DEF Next

\* IInv is an invariant: a verification under the row lock reads what it overwrites.
THEOREM InductiveInvariant == Spec => []IInv
  BY InitInv, NextInv, PTL DEF Spec

\* Every variable keeps its type, attempts and expiries within their bounds.
THEOREM TypeCorrect == Spec => []TypeOK
  <1>1. IInv => TypeOK
    BY DEF IInv
  <1> QED
    BY <1>1, InductiveInvariant, PTL

\* A code is compared with at most MaxAttempts guesses, however many requests
\* verify it at the same time (verifyLoginCode).
THEOREM GuessesBoundedHolds == Spec => []GuessesBounded
  <1>1. IInv => GuessesBounded
    BY DEF IInv
  <1> QED
    BY <1>1, InductiveInvariant, PTL

\* A credential that was accepted is in no column any more.
THEOREM ConsumedIsGoneHolds == Spec => []ConsumedIsGone
  <1>1. IInv => ConsumedIsGone
    BY DEF IInv, ColumnsOK, ColumnOK, ConsumedIsGone
  <1> QED
    BY <1>1, InductiveInvariant, PTL

\* A column only moves forward: what leaves it never comes back, attempts are never
\* forgotten and an invalidated code never revives.
THEOREM SlotOnlyAdvancesHolds == Spec => SlotOnlyAdvances
  <1> DEFINE Advances ==
        \A a \in Accounts :
          /\ slot'[a].token \in Tokens \ {slot[a].token} =>
               slot'[a].token \notin issued
          /\ slot'[a].token = slot[a].token =>
               /\ slot'[a].attempts >= slot[a].attempts
               /\ slot'[a].codeAlive => slot[a].codeAlive
  <1>1. IInv /\ [Next]_vars => [Advances]_vars
    <2> SUFFICES ASSUME IInv, [Next]_vars, NEW a \in Accounts
                 PROVE  /\ slot'[a].token \in Tokens \ {slot[a].token} =>
                             slot'[a].token \notin issued
                        /\ slot'[a].token = slot[a].token =>
                             /\ slot'[a].attempts >= slot[a].attempts
                             /\ slot'[a].codeAlive => slot[a].codeAlive
      OBVIOUS
    <2>0. /\ slot \in [Accounts -> Row]
          /\ \A b \in Accounts : slot[b].attempts \in Nat
          /\ \A b \in Accounts : slot[b].token # None => slot[b].token \in issued
          /\ \A b \in Accounts : slot[b].token = None => slot[b] = EmptyRow
      BY ConstantsAssumption DEF IInv, TypeOK, Row, ColumnsOK, ColumnOK
    <2>1. ASSUME NEW b \in Accounts, NEW t \in Tokens, NEW row, row.token = t,
                 Issue(b, t, row)
          PROVE  Advances
      BY <2>0, <2>1, ConstantsAssumption DEF Issue, Overwrites
    <2>2. ASSUME NEW b \in Accounts, slot' = [slot EXCEPT ![b] = EmptyRow]
          PROVE  Advances
      BY <2>0, <2>2, ConstantsAssumption DEF EmptyRow
    <2>3. ASSUME slot' = slot PROVE Advances
      BY <2>0, <2>3
    <2>4. ASSUME NEW p \in Procs, VerifyLoginCodeSave(p)
          PROVE  Advances
      <3>1. PICK b \in Accounts : b = proc[p].account /\ proc[p].row = slot[b]
        BY <2>4, Committing DEF VerifyLoginCodeSave
      <3>2. \/ slot' = slot
            \/ slot' = [slot EXCEPT ![b] = EmptyRow]
            \/ /\ slot' = [slot EXCEPT ![b] = Failed(slot[b])]
               /\ Comparable(slot[b], proc[p].at)
        BY <2>4, <3>1 DEF VerifyLoginCodeSave
      <3>3. ASSUME slot' = [slot EXCEPT ![b] = Failed(slot[b])],
                   Comparable(slot[b], proc[p].at)
            PROVE  Advances
        <4>1. /\ Failed(slot[b]).token = slot[b].token
              /\ Failed(slot[b]).attempts = slot[b].attempts + 1
              /\ slot[b].codeAlive
          BY <2>0, <3>3 DEF Failed, Comparable, Row
        <4> HIDE DEF Failed
        <4> QED
          BY <2>0, <3>3, <4>1
      <3> QED
        BY <2>2, <2>3, <3>2, <3>3
    <2>5. ASSUME NEW b \in Accounts, NEW t \in Tokens,
                 \/ IssuePasswordResetToken(b, t)
                 \/ IssueMagicLinkToken(b, t)
                 \/ IssueMagicLinkWithCode(b, t)
                 \/ SendOtpUnlockEmail(b, t)
          PROVE  Advances
      <3>1. \A kind, ttl : Link(kind, t, ttl).token = t
        BY DEF Link
      <3> QED
        BY <2>1, <2>5, <3>1 DEF IssuePasswordResetToken, IssueMagicLinkToken,
                                IssueMagicLinkWithCode, SendOtpUnlockEmail
    <2>6. ASSUME NEW p \in Procs, ConsumePasswordResetSave(p) \/ ConsumeMagicLinkSave(p)
          PROVE  Advances
      <3>1. proc[p].account \in Accounts
        BY <2>6 DEF IInv, RequestsOK, Consuming, ConsumePasswordResetSave,
                    ConsumeMagicLinkSave
      <3> QED
        BY <2>2, <2>6, <3>1 DEF ConsumePasswordResetSave, ConsumeMagicLinkSave,
                                Overwrites
    <2>7. \/ \E b \in Accounts, t \in Tokens :
                \/ IssuePasswordResetToken(b, t)
                \/ IssueMagicLinkToken(b, t)
                \/ IssueMagicLinkWithCode(b, t)
                \/ SendOtpUnlockEmail(b, t)
          \/ \E p \in Procs : ConsumePasswordResetSave(p) \/ ConsumeMagicLinkSave(p)
          \/ \E p \in Procs : VerifyLoginCodeSave(p)
          \/ slot' = slot
      BY DEF Next, ConsumePasswordResetBegin, ConsumeMagicLinkBegin, Reads,
             VerifyLoginCodeBegin, ConsumePasswordResetRefused, Crash, Tick, vars
    <2>8. Advances
      BY <2>3, <2>4, <2>5, <2>6, <2>7
    <2> QED
      BY <2>8
  <1> QED
    BY <1>1, InductiveInvariant, PTL DEF Spec, SlotOnlyAdvances
=============================================================================
