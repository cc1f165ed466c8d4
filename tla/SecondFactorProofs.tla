-------------------------- MODULE SecondFactorProofs --------------------------
(* TLAPS proofs about SecondFactor, for any secrets, codes, links, requests,   *)
(* scenarios and bounds: type correctness and each of its safety properties.   *)
(*                                                                             *)
(* SerialInv says why requests that do not overlap neither accept a code twice *)
(* nor bring one back: whoever is about to write found the row as it is.       *)
(* Attempts says why requests that do overlap verify few wrong answers: each   *)
(* one that was not counted yet is in flight.                                  *)
EXTENDS SecondFactor, FiniteSetTheorems, TLAPS

Busy(p) == ~At(p, "idle")

\* The request that is about to accept a code, or to confirm a secret, found the row as it is.
Accepting(p) ==
  At(p, "accept") =>
    LET code == proc[p].code IN
    /\ row.enabled
    /\ code \in TotpCodes => row.secret # None /\ code[1] = row.secret /\ row.last < code[2]
    /\ code \in RecoveryCodes => row.codes # None /\ code \in row.codes /\ proc[p].left = row.codes \ {code}
Confirming(p) == At(p, "confirm") => proc[p].secret = row.secret /\ row.secret # None

\* Nothing is in force that was not generated.
Generated ==
  /\ row.secret # None => row.secret \in seen
  /\ row.codes # None => \A c \in row.codes : c[1] \in seen

\* What was accepted, and what was retired, can not be accepted again.
Gone(c) == c[1] \in seen /\ (row.codes # None => c \notin row.codes)
Spent ==
  /\ \A c \in Codes : uses[c] <= 1
  /\ \A c \in TotpCodes : uses[c] > 0 => c[1] \in seen /\ (c[1] = row.secret => c[2] <= row.last)
  /\ \A c \in RecoveryCodes : uses[c] > 0 => Gone(c)
  /\ \A c \in retired : Gone(c)

Confirmed == "passkey" \notin env /\ row.enabled /\ row.secret # None => row.secret \in proven

Alone(p) == \A q \in Procs \ {p} : ~Busy(q)
InTurn == \A p \in Procs : (Busy(p) => Alone(p)) /\ Accepting(p) /\ Confirming(p)

SerialInv == Serial => InTurn /\ Generated /\ Spent /\ Confirmed

\* A request in flight has the code it verifies, or the secret it confirms.
Coded ==
  \A p \in Procs :
    /\ proc[p].pc \in {"read", "accept"} => proc[p].code \in Codes
    /\ At(p, "confirm") => proc[p].secret \in Secrets

-----------------------------------------------------------------------------
In(stages) == {p \in Procs : proc[p].pc \in stages}
Verifying == In({"read"})
Counting == In({"fail", "count"})
Blocking == In({"block"})
Settled == env \cap {"unlock", "expire"} = {}

\* Until the lock: a wrong answer is counted, or in flight, and the counter passes the limit
\* only with a request that is about to lock. Then: whoever may still answer wrongly was
\* in flight.
Attempts ==
  Settled =>
    /\ In({"unlock", "lift", "spend"}) = {}
    /\ ~locked =>
         /\ In({"forget"}) = {}
         /\ wrong <= fails + Cardinality(Counting)
         /\ fails <= MaxAttempts - 1 + Cardinality(Blocking)
    /\ locked => wrong + Cardinality(Verifying) <= MaxAttempts - 1 + Cardinality(Procs)

IInv == TypeOK /\ Coded /\ SerialInv /\ Attempts

-----------------------------------------------------------------------------
LEMMA InitInv == Init => IInv
<1> SUFFICES ASSUME Init PROVE IInv
  OBVIOUS
<1> USE ConstantsAssumption
<1>1. TypeOK
  <2>1. Idle \in Local /\ NoRow \in Row
    BY DEF Idle, Local, NoRow, Row
  <2>2. row \in Row /\ seen \subseteq Secrets \cup Batches \cup Links /\ proven \subseteq Secrets
    <3>1. CASE row = NoRow /\ seen = {} /\ proven = {}
      BY <2>1, <3>1
    <3>2. ASSUME NEW s \in Secrets, NEW b \in Batches,
                 row = [secret |-> s, enabled |-> TRUE, codes |-> Batch(b), last |-> 0],
                 seen = {s, b}, proven = {s}
          PROVE  row \in Row /\ seen \subseteq Secrets \cup Batches \cup Links /\ proven \subseteq Secrets
      BY <3>2 DEF Row, Batch, RecoveryCodes
    <3> QED BY <3>1, <3>2 DEF Init
  <2>3. /\ env \in Scenarios /\ fails \in Nat /\ locked \in BOOLEAN /\ slot \in Links \cup {None}
        /\ proc \in [Procs -> Local] /\ step \in Steps /\ retired \subseteq RecoveryCodes
        /\ uses \in [Codes -> Nat] /\ wrong \in Nat
        /\ answer \in [Links -> {"none", "unlocked", "unknown"}]
    <3>1. locked \in BOOLEAN /\ env \in Scenarios
      BY DEF Init
    <3>2. proc \in [Procs -> Local] /\ uses \in [Codes -> Nat] /\ answer \in [Links -> {"none", "unlocked", "unknown"}]
      BY <2>1 DEF Init
    <3> QED BY <3>1, <3>2 DEF Init, Steps
  <2> QED BY <2>2, <2>3 DEF TypeOK
<1>2. Coded
  BY DEF Init, Coded, Idle, At
<1>3. SerialInv
  BY DEF Init, SerialInv, InTurn, Alone, Busy, At, Accepting, Confirming, Generated, Spent, Gone, Confirmed, Idle,
    NoRow, Batch, Codes
<1>4. Attempts
  <2>1. Counting = {} /\ Blocking = {} /\ Verifying = {} /\ In({"forget"}) = {}
        /\ In({"unlock", "lift", "spend"}) = {}
    BY DEF Init, Counting, Blocking, Verifying, In, Idle
  <2> QED BY <2>1, FS_EmptySet DEF Init, Attempts
<1> QED BY <1>1, <1>2, <1>3, <1>4 DEF IInv

\* The fields of the row.
LEMMA RowFields ==
  ASSUME TypeOK
  PROVE  /\ row.secret \in Secrets \cup {None} /\ row.enabled \in BOOLEAN /\ row.last \in 0 .. MaxStep
         /\ row.codes # None => row.codes \subseteq RecoveryCodes
         /\ row = [secret |-> row.secret, enabled |-> row.enabled, codes |-> row.codes, last |-> row.last]
BY DEF TypeOK, Row

LEMMA Moves ==
  ASSUME TypeOK, NEW p \in Procs, NEW x, proc' = [proc EXCEPT ![p] = x]
  PROVE  proc'[p] = x /\ \A q \in Procs \ {p} : proc'[q] = proc[q]
BY DEF TypeOK

\* Every action keeps the types.
LEMMA TypesStay ==
  ASSUME TypeOK, Coded, [Next]_vars
  PROVE  TypeOK'
<1> USE ConstantsAssumption DEF lockout, history, At, GoTo, Finish, TypeOK, Row, NoRow, Local, Idle, Steps, Fresh, InForce
<1>a. Idle \in Local /\ NoRow \in Row /\ InForce \subseteq RecoveryCodes
  OBVIOUS
<1>b. \A b \in Batches : Batch(b) \subseteq RecoveryCodes
  BY DEF Batch, RecoveryCodes
<1>c. Presented \subseteq Codes
  BY DEF Presented, Codes
<1>1. ASSUME NEW p \in Procs, NEW code \in Presented, ChallengeBegin(p, code) PROVE TypeOK'
  <2>1. proc' \in [Procs -> Local]
    BY <1>1, <1>c DEF ChallengeBegin, Starts
  <2> QED BY <1>1, <2>1 DEF ChallengeBegin
<1>2. ASSUME NEW p \in Procs, VerifyRead(p) PROVE TypeOK'
  BY <1>2 DEF VerifyRead, InForce
<1>3. ASSUME NEW p \in Procs, VerifyAccept(p) PROVE TypeOK'
  <2>1. proc[p].code \in Codes
    BY <1>3 DEF VerifyAccept, Coded
  <2>2. row' \in Row
    BY <1>3, <2>1 DEF VerifyAccept, TotpCodes
  <2>3. uses' \in [Codes -> Nat] /\ proc' \in [Procs -> Local]
    BY <1>3, <2>1 DEF VerifyAccept
  <2> QED BY <1>3, <2>2, <2>3 DEF VerifyAccept
<1>4. ASSUME NEW p \in Procs, ClearFailures(p) PROVE TypeOK'
  BY <1>4 DEF ClearFailures
<1>5. ASSUME NEW p \in Procs, FailureCheck(p) PROVE TypeOK'
  BY <1>5 DEF FailureCheck
<1>6. ASSUME NEW p \in Procs, FailureCount(p) PROVE TypeOK'
  BY <1>6 DEF FailureCount
<1>7. ASSUME NEW p \in Procs, FailureBlock(p) PROVE TypeOK'
  BY <1>7 DEF FailureBlock
<1>8. ASSUME NEW p \in Procs, FailureForget(p) PROVE TypeOK'
  BY <1>8 DEF FailureForget
<1>9. ASSUME NEW p \in Procs, SendOtpUnlockEmail(p) PROVE TypeOK'
  BY <1>9 DEF SendOtpUnlockEmail
<1>10. ASSUME NEW p \in Procs, NEW l \in Links, OtpUnlockFind(p, l) PROVE TypeOK'
  <2>1. [Idle EXCEPT !.pc = "unlock", !.link = l] \in Local
    OBVIOUS
  <2>3. proc' = proc \/ proc' = [proc EXCEPT ![p] = [Idle EXCEPT !.pc = "unlock", !.link = l]]
    BY <1>10 DEF OtpUnlockFind
  <2>2. answer' \in [Links -> {"none", "unlocked", "unknown"}]
    BY <1>10 DEF OtpUnlockFind
  <2>4. ASSUME NEW x \in Local, proc' = [proc EXCEPT ![p] = x] PROVE proc' \in [Procs -> Local]
    BY <2>4
  <2>5. proc' \in [Procs -> Local]
    BY <2>1, <2>3, <2>4
  <2> QED BY <1>10, <2>2, <2>5 DEF OtpUnlockFind
<1>11. ASSUME NEW p \in Procs, OtpUnlockForget(p) PROVE TypeOK'
  <2>1. proc' \in [Procs -> Local] /\ fails' \in Nat /\ wrong' \in Nat
    BY <1>11 DEF OtpUnlockForget
  <2> QED BY <1>11, <2>1 DEF OtpUnlockForget
<1>12. ASSUME NEW p \in Procs, OtpUnlockLift(p) PROVE TypeOK'
  <2>1. proc' \in [Procs -> Local] /\ wrong' \in Nat
    BY <1>12 DEF OtpUnlockLift
  <2>2. locked' \in BOOLEAN
    BY <1>12 DEF OtpUnlockLift
  <2> QED BY <1>12, <2>1, <2>2 DEF OtpUnlockLift
<1>13. ASSUME NEW p \in Procs, OtpUnlockSpend(p) PROVE TypeOK'
  BY <1>13 DEF OtpUnlockSpend
<1>14. ASSUME NEW p \in Procs, NEW s \in Secrets, StartTotpEnrollment(p, s) PROVE TypeOK'
  <2>1. row' \in Row
    BY <1>14, <1>a DEF StartTotpEnrollment
  <2> QED BY <1>14, <1>a, <2>1 DEF StartTotpEnrollment, Manages, Starts
<1>15. ASSUME NEW p \in Procs, ConfirmTotpBegin(p) PROVE TypeOK'
  BY <1>15 DEF ConfirmTotpBegin, Manages, Starts
<1>16. ASSUME NEW p \in Procs, NEW b \in Batches, ConfirmTotpSave(p, b) PROVE TypeOK'
  <2>1. proc[p].secret \in Secrets
    BY <1>16 DEF ConfirmTotpSave, Coded
  <2>2. row' \in Row /\ proc' \in [Procs -> Local]
    BY <1>16, <1>a, <1>b DEF ConfirmTotpSave
  <2> QED BY <1>16, <1>a, <2>1, <2>2 DEF ConfirmTotpSave
<1>17. ASSUME NEW p \in Procs, RegenerateBegin(p) PROVE TypeOK'
  BY <1>17 DEF RegenerateBegin, Manages, Starts
<1>18. ASSUME NEW p \in Procs, NEW b \in Batches, RegenerateSave(p, b) PROVE TypeOK'
  <2>1. row' \in Row /\ proc' \in [Procs -> Local]
    BY <1>18, <1>a, <1>b DEF RegenerateSave
  <2> QED BY <1>18, <1>a, <2>1 DEF RegenerateSave
<1>19. ASSUME NEW p \in Procs, DisableMfa(p) PROVE TypeOK'
  BY <1>19 DEF DisableMfa, Manages, Starts
<1>20. ASSUME NEW p \in Procs, RegisterPasskey(p) PROVE TypeOK'
  BY <1>20 DEF RegisterPasskey, Starts
<1>21. CASE Tick
  BY <1>21 DEF Tick
<1>22. CASE LockExpires
  BY <1>22 DEF LockExpires
<1>23. CASE WindowExpires
  BY <1>23 DEF WindowExpires
<1>24. CASE LinkLost
  BY <1>24 DEF LinkLost
<1>25. CASE UNCHANGED vars
  BY <1>25 DEF vars
<1> QED
  BY <1>1, <1>2, <1>3, <1>4, <1>5, <1>6, <1>7, <1>8, <1>9, <1>10, <1>11, <1>12, <1>13, <1>14,
     <1>15, <1>16, <1>17, <1>18, <1>19, <1>20, <1>21, <1>22, <1>23, <1>24, <1>25 DEF Next

\* Only a challenge starts a verification.
LEMMA CodedStays ==
  ASSUME TypeOK, Coded, [Next]_vars
  PROVE  Coded'
<1> USE ConstantsAssumption DEF lockout, history, At, GoTo, Finish, TypeOK, Coded, Local, Idle
<1>0. Presented \subseteq Codes
  BY DEF Presented, TypeOK, Codes
<1>1. ASSUME NEW p \in Procs, NEW code \in Presented, ChallengeBegin(p, code) PROVE Coded'
  BY <1>0, <1>1 DEF ChallengeBegin, Starts
<1>2. ASSUME NEW p \in Procs, VerifyRead(p) PROVE Coded'
  BY <1>2 DEF VerifyRead, InForce
<1>3. ASSUME NEW p \in Procs, VerifyAccept(p) PROVE Coded'
  BY <1>3 DEF VerifyAccept
<1>4. ASSUME NEW p \in Procs, ClearFailures(p) PROVE Coded'
  BY <1>4 DEF ClearFailures
<1>5. ASSUME NEW p \in Procs, FailureCheck(p) PROVE Coded'
  BY <1>5 DEF FailureCheck
<1>6. ASSUME NEW p \in Procs, FailureCount(p) PROVE Coded'
  BY <1>6 DEF FailureCount
<1>7. ASSUME NEW p \in Procs, FailureBlock(p) PROVE Coded'
  BY <1>7 DEF FailureBlock
<1>8. ASSUME NEW p \in Procs, FailureForget(p) PROVE Coded'
  BY <1>8 DEF FailureForget
<1>9. ASSUME NEW p \in Procs, SendOtpUnlockEmail(p) PROVE Coded'
  BY <1>9 DEF SendOtpUnlockEmail
<1>10. ASSUME NEW p \in Procs, NEW l \in Links, OtpUnlockFind(p, l) PROVE Coded'
  <2>1. proc' = proc \/ proc' = [proc EXCEPT ![p] = [Idle EXCEPT !.pc = "unlock", !.link = l]]
    BY <1>10 DEF OtpUnlockFind
  <2>2. \A q \in Procs : proc'[q] = proc[q] \/ proc'[q].pc = "unlock"
    <3>1. [Idle EXCEPT !.pc = "unlock", !.link = l].pc = "unlock"
      OBVIOUS
    <3> QED BY <2>1, <3>1, Moves
  <2> QED BY <1>10, <2>2 DEF OtpUnlockFind
<1>11. ASSUME NEW p \in Procs, OtpUnlockForget(p) PROVE Coded'
  BY <1>11 DEF OtpUnlockForget
<1>12. ASSUME NEW p \in Procs, OtpUnlockLift(p) PROVE Coded'
  BY <1>12 DEF OtpUnlockLift
<1>13. ASSUME NEW p \in Procs, OtpUnlockSpend(p) PROVE Coded'
  BY <1>13 DEF OtpUnlockSpend
<1>14. ASSUME NEW p \in Procs, NEW s \in Secrets, StartTotpEnrollment(p, s) PROVE Coded'
  BY <1>14 DEF StartTotpEnrollment, Manages, Starts
<1>15. ASSUME NEW p \in Procs, ConfirmTotpBegin(p) PROVE Coded'
  <2> DEFINE x == [Idle EXCEPT !.pc = "confirm", !.secret = row.secret]
  <2>1. x.pc = "confirm" /\ x.secret = row.secret
    OBVIOUS
  <2>2. proc' = [proc EXCEPT ![p] = x]
    BY <1>15 DEF ConfirmTotpBegin
  <2>4. row.secret \in Secrets
    BY <1>15, RowFields DEF ConfirmTotpBegin
  <2> HIDE DEF x
  <2>3. proc'[p] = x /\ \A q \in Procs \ {p} : proc'[q] = proc[q]
    BY <2>2, Moves
  <2> QED BY <2>1, <2>3, <2>4
<1>16. ASSUME NEW p \in Procs, NEW b \in Batches, ConfirmTotpSave(p, b) PROVE Coded'
  BY <1>16 DEF ConfirmTotpSave
<1>17. ASSUME NEW p \in Procs, RegenerateBegin(p) PROVE Coded'
  BY <1>17 DEF RegenerateBegin, Manages, Starts
<1>18. ASSUME NEW p \in Procs, NEW b \in Batches, RegenerateSave(p, b) PROVE Coded'
  BY <1>18 DEF RegenerateSave
<1>19. ASSUME NEW p \in Procs, DisableMfa(p) PROVE Coded'
  BY <1>19 DEF DisableMfa, Manages, Starts
<1>20. ASSUME NEW p \in Procs, RegisterPasskey(p) PROVE Coded'
  BY <1>20 DEF RegisterPasskey, Starts
<1>21. CASE Tick
  BY <1>21 DEF Tick
<1>22. CASE LockExpires
  BY <1>22 DEF LockExpires
<1>23. CASE WindowExpires
  BY <1>23 DEF WindowExpires
<1>24. CASE LinkLost
  BY <1>24 DEF LinkLost
<1>25. CASE UNCHANGED vars
  BY <1>25 DEF vars
<1> QED
  BY <1>1, <1>2, <1>3, <1>4, <1>5, <1>6, <1>7, <1>8, <1>9, <1>10, <1>11, <1>12, <1>13, <1>14,
     <1>15, <1>16, <1>17, <1>18, <1>19, <1>20, <1>21, <1>22, <1>23, <1>24, <1>25 DEF Next

-----------------------------------------------------------------------------
(* Requests that do not overlap. *)

\* Who acts is alone, and the rest stay idle.
LEMMA Acting ==
  ASSUME TypeOK, SerialInv, Serial, NEW p \in Procs
  PROVE  /\ Starts(p) \/ Busy(p) => Alone(p)
         /\ (\A q \in Procs \ {p} : proc'[q] = proc[q]) /\ Alone(p) /\ Accepting(p)' /\ Confirming(p)' => InTurn'
<1>1. Starts(p) \/ Busy(p) => Alone(p)
  BY DEF SerialInv, InTurn, Serial, Starts, Alone, Busy
<1>2. ASSUME \A q \in Procs \ {p} : proc'[q] = proc[q], Alone(p), Accepting(p)', Confirming(p)',
             NEW q \in Procs
      PROVE  ((Busy(q) => Alone(q)) /\ Accepting(q) /\ Confirming(q))'
  <2>1. CASE q = p
    BY <1>2, <2>1 DEF Alone, Busy, At
  <2>2. CASE q # p
    BY <1>2, <2>2 DEF Alone, Busy, At, Accepting, Confirming
  <2> QED BY <2>1, <2>2
<1> QED BY <1>1, <1>2 DEF InTurn

\* Every request takes the row as it finds it.
LEMMA TurnsStay ==
  ASSUME TypeOK, Coded, SerialInv, Serial, [Next]_vars
  PROVE  InTurn'
<1> USE DEF At, GoTo, Finish
<1> DEFINE Moved(p) == \A q \in Procs \ {p} : proc'[q] = proc[q]
<1>passes. ASSUME NEW p \in Procs, Starts(p) \/ Busy(p), Moved(p), proc'[p].pc \notin {"accept", "confirm"}
           PROVE  InTurn'
  BY <1>passes, Acting DEF Accepting, Confirming
<1>begins. ASSUME NEW p \in Procs, NEW x, proc' = [proc EXCEPT ![p] = x] PROVE Moved(p) /\ proc'[p] = x
  BY <1>begins, Moves
<1>goes. ASSUME NEW p \in Procs, NEW pc, proc' = [proc EXCEPT ![p].pc = pc] PROVE Moved(p) /\ proc'[p].pc = pc
  BY <1>goes DEF TypeOK, Local
<1>rest. ASSUME UNCHANGED <<row, proc>> PROVE InTurn'
  BY <1>rest DEF SerialInv, InTurn, Alone, Busy, Accepting, Confirming
<1> HIDE DEF Moved
<1>1. ASSUME NEW p \in Procs, NEW code \in Presented, ChallengeBegin(p, code) PROVE InTurn'
  <2> DEFINE x == [Idle EXCEPT !.pc = "read", !.code = code]
  <2>1. x.pc = "read"
    BY DEF Idle
  <2>2. proc' = [proc EXCEPT ![p] = x] /\ Starts(p)
    BY <1>1 DEF ChallengeBegin
  <2> HIDE DEF x
  <2> QED BY <1>passes, <1>begins, <2>1, <2>2
<1>2. ASSUME NEW p \in Procs, VerifyRead(p) PROVE InTurn'
  <2> DEFINE code == proc[p].code
  <2>1. Busy(p) /\ UNCHANGED row
    BY <1>2 DEF VerifyRead, Busy
  <2>2. ASSUME proc' = [proc EXCEPT ![p].pc = "fail"] PROVE InTurn'
    <3>1. Moved(p) /\ proc'[p].pc = "fail"
      BY <1>goes, <2>2
    <3> QED BY <1>passes, <2>1, <3>1
  <2>3. ASSUME proc' = [proc EXCEPT ![p].pc = "accept", ![p].left = InForce \ {code}],
               (code \in TotpCodes /\ ValidTotp(code)) \/ code \in InForce
        PROVE  InTurn'
    <3>1. /\ proc'[p].code = code /\ proc'[p].left = InForce \ {code}
          /\ proc'[p].pc = "accept" /\ Moved(p)
      BY <2>3 DEF TypeOK, Local, Moved
    <3>2. TotpCodes \cap RecoveryCodes = {}
      BY ConstantsAssumption DEF TotpCodes, RecoveryCodes
    <3>3. InForce \subseteq RecoveryCodes
      BY RowFields DEF InForce
    <3>4. code \in TotpCodes => row.enabled /\ row.secret # None /\ code[1] = row.secret /\ row.last < code[2]
      <4> SUFFICES ASSUME code \in TotpCodes PROVE row.enabled /\ row.secret # None /\ code[1] = row.secret /\ row.last < code[2]
        OBVIOUS
      <4>1. ValidTotp(code)
        BY <2>3, <3>2, <3>3
      <4>2. step \in Int /\ row.last \in Int
        BY RowFields DEF TypeOK, Steps
      <4> HIDE DEF code
      <4> QED BY <4>1, <4>2 DEF ValidTotp
    <3>5. code \in RecoveryCodes => row.enabled /\ row.codes # None /\ code \in row.codes /\ InForce = row.codes
      BY <2>3, <3>2 DEF InForce
    <3>6. code \in Codes /\ row.enabled
      BY <2>3, <3>3 DEF Codes, InForce, ValidTotp
    <3>7. Accepting(p)' /\ Confirming(p)'
      BY <2>1, <3>1, <3>4, <3>5, <3>6 DEF Accepting, Confirming
    <3> QED BY <2>1, <3>1, <3>7, Acting DEF Moved
  <2> QED BY <1>2, <2>2, <2>3 DEF VerifyRead
<1>3. ASSUME NEW p \in Procs, VerifyAccept(p) PROVE InTurn'
  <2>1. Moved(p) /\ Busy(p) /\ proc'[p].pc \in {"clear"}
    BY <1>goes, <1>3 DEF VerifyAccept, Busy
  <2> QED BY <1>passes, <2>1
<1>4. ASSUME NEW p \in Procs, ClearFailures(p) PROVE InTurn'
  <2>1. proc' = [proc EXCEPT ![p] = Idle] /\ Busy(p)
    BY <1>4 DEF ClearFailures, Busy
  <2>2. Moved(p) /\ proc'[p] = Idle
    BY <1>begins, <2>1
  <2>3. proc'[p].pc = "idle"
    BY <2>2 DEF Idle
  <2> QED BY <1>passes, <2>1, <2>2, <2>3
<1>5. ASSUME NEW p \in Procs, FailureCheck(p) PROVE InTurn'
  <2>1. Moved(p) /\ Busy(p) /\ proc'[p].pc \in {"mail", "count"}
    BY <1>goes, <1>5 DEF FailureCheck, Busy
  <2> QED BY <1>passes, <2>1
<1>6. ASSUME NEW p \in Procs, FailureCount(p) PROVE InTurn'
  <2>1. Busy(p) /\ (proc' = [proc EXCEPT ![p] = Idle] \/ proc' = [proc EXCEPT ![p].pc = "block"])
    BY <1>6 DEF FailureCount, Busy
  <2>2. CASE proc' = [proc EXCEPT ![p] = Idle]
    <3>1. Moved(p) /\ proc'[p] = Idle
      BY <1>begins, <2>2
    <3>2. proc'[p].pc = "idle"
      BY <3>1 DEF Idle
    <3> QED BY <1>passes, <2>1, <3>1, <3>2
  <2>3. CASE proc' = [proc EXCEPT ![p].pc = "block"]
    <3>1. Moved(p) /\ proc'[p].pc = "block"
      BY <1>goes, <2>3
    <3> QED BY <1>passes, <2>1, <3>1
  <2> QED BY <2>1, <2>2, <2>3
<1>7. ASSUME NEW p \in Procs, FailureBlock(p) PROVE InTurn'
  <2>1. Moved(p) /\ Busy(p) /\ proc'[p].pc \in {"forget"}
    BY <1>goes, <1>7 DEF FailureBlock, Busy
  <2> QED BY <1>passes, <2>1
<1>8. ASSUME NEW p \in Procs, FailureForget(p) PROVE InTurn'
  <2>1. Moved(p) /\ Busy(p) /\ proc'[p].pc \in {"mail"}
    BY <1>goes, <1>8 DEF FailureForget, Busy
  <2> QED BY <1>passes, <2>1
<1>9. ASSUME NEW p \in Procs, SendOtpUnlockEmail(p) PROVE InTurn'
  <2>1. proc' = [proc EXCEPT ![p] = Idle] /\ Busy(p)
    BY <1>9 DEF SendOtpUnlockEmail, Busy
  <2>2. Moved(p) /\ proc'[p] = Idle
    BY <1>begins, <2>1
  <2>3. proc'[p].pc = "idle"
    BY <2>2 DEF Idle
  <2> QED BY <1>passes, <2>1, <2>2, <2>3
<1>10. ASSUME NEW p \in Procs, NEW l \in Links, OtpUnlockFind(p, l) PROVE InTurn'
  <2> DEFINE x == [Idle EXCEPT !.pc = "unlock", !.link = l]
  <2>1. x.pc = "unlock"
    BY DEF Idle
  <2>2. (proc' = proc \/ proc' = [proc EXCEPT ![p] = x]) /\ Starts(p) /\ UNCHANGED row
    BY <1>10 DEF OtpUnlockFind
  <2> HIDE DEF x
  <2> QED BY <1>passes, <1>begins, <1>rest, <2>1, <2>2
<1>11. ASSUME NEW p \in Procs, OtpUnlockForget(p) PROVE InTurn'
  <2>1. Moved(p) /\ Busy(p) /\ proc'[p].pc \in {"lift"}
    BY <1>goes, <1>11 DEF OtpUnlockForget, Busy
  <2> QED BY <1>passes, <2>1
<1>12. ASSUME NEW p \in Procs, OtpUnlockLift(p) PROVE InTurn'
  <2>1. Moved(p) /\ Busy(p) /\ proc'[p].pc \in {"spend"}
    BY <1>goes, <1>12 DEF OtpUnlockLift, Busy
  <2> QED BY <1>passes, <2>1
<1>13. ASSUME NEW p \in Procs, OtpUnlockSpend(p) PROVE InTurn'
  <2>1. proc' = [proc EXCEPT ![p] = Idle] /\ Busy(p)
    BY <1>13 DEF OtpUnlockSpend, Busy
  <2>2. Moved(p) /\ proc'[p] = Idle
    BY <1>begins, <2>1
  <2>3. proc'[p].pc = "idle"
    BY <2>2 DEF Idle
  <2> QED BY <1>passes, <2>1, <2>2, <2>3
<1>14. ASSUME NEW p \in Procs, NEW s \in Secrets, StartTotpEnrollment(p, s) PROVE InTurn'
  <2>1. Starts(p) /\ proc' = proc
    BY <1>14 DEF StartTotpEnrollment, Manages, history
  <2>2. Moved(p) /\ proc'[p].pc = "idle"
    BY <2>1 DEF Starts, Moved
  <2> QED BY <1>passes, <2>1, <2>2
<1>15. ASSUME NEW p \in Procs, ConfirmTotpBegin(p) PROVE InTurn'
  <2> DEFINE x == [Idle EXCEPT !.pc = "confirm", !.secret = row.secret]
  <2>1. x.pc = "confirm" /\ x.secret = row.secret
    BY DEF Idle
  <2>2. proc' = [proc EXCEPT ![p] = x] /\ Starts(p) /\ UNCHANGED row /\ row.secret # None
    BY <1>15 DEF ConfirmTotpBegin, Manages, history
  <2> HIDE DEF x
  <2>3. Accepting(p)' /\ Confirming(p)'
    BY <1>begins, <2>1, <2>2 DEF Accepting, Confirming
  <2> QED BY <1>begins, <2>2, <2>3, Acting DEF Moved
<1>16. ASSUME NEW p \in Procs, NEW b \in Batches, ConfirmTotpSave(p, b) PROVE InTurn'
  <2>1. proc' = [proc EXCEPT ![p] = Idle] /\ Busy(p)
    BY <1>16 DEF ConfirmTotpSave, Busy
  <2>2. Moved(p) /\ proc'[p] = Idle
    BY <1>begins, <2>1
  <2>3. proc'[p].pc = "idle"
    BY <2>2 DEF Idle
  <2> QED BY <1>passes, <2>1, <2>2, <2>3
<1>17. ASSUME NEW p \in Procs, RegenerateBegin(p) PROVE InTurn'
  <2> DEFINE x == [Idle EXCEPT !.pc = "regenerate"]
  <2>1. x.pc = "regenerate"
    BY DEF Idle
  <2>2. proc' = [proc EXCEPT ![p] = x] /\ Starts(p)
    BY <1>17 DEF RegenerateBegin, Manages
  <2> HIDE DEF x
  <2> QED BY <1>passes, <1>begins, <2>1, <2>2
<1>18. ASSUME NEW p \in Procs, NEW b \in Batches, RegenerateSave(p, b) PROVE InTurn'
  <2>1. proc' = [proc EXCEPT ![p] = Idle] /\ Busy(p)
    BY <1>18 DEF RegenerateSave, Busy
  <2>2. Moved(p) /\ proc'[p] = Idle
    BY <1>begins, <2>1
  <2>3. proc'[p].pc = "idle"
    BY <2>2 DEF Idle
  <2> QED BY <1>passes, <2>1, <2>2, <2>3
<1>19. ASSUME NEW p \in Procs, DisableMfa(p) PROVE InTurn'
  <2>1. Starts(p) /\ proc' = proc
    BY <1>19 DEF DisableMfa, Manages, history
  <2>2. Moved(p) /\ proc'[p].pc = "idle"
    BY <2>1 DEF Starts, Moved
  <2> QED BY <1>passes, <2>1, <2>2
<1>20. ASSUME NEW p \in Procs, RegisterPasskey(p) PROVE InTurn'
  <2>1. Starts(p) /\ proc' = proc
    BY <1>20 DEF RegisterPasskey, history
  <2>2. Moved(p) /\ proc'[p].pc = "idle"
    BY <2>1 DEF Starts, Moved
  <2> QED BY <1>passes, <2>1, <2>2
<1>21. CASE Tick \/ LockExpires \/ WindowExpires \/ LinkLost \/ UNCHANGED vars
  BY <1>rest, <1>21 DEF Tick, LockExpires, WindowExpires, LinkLost, vars
<1> QED
  BY <1>1, <1>2, <1>3, <1>4, <1>5, <1>6, <1>7, <1>8, <1>9, <1>10, <1>11, <1>12, <1>13, <1>14,
     <1>15, <1>16, <1>17, <1>18, <1>19, <1>20, <1>21 DEF Next

\* What a write leaves alone: a code that is gone, when nothing comes into force
\* but codes that were not generated before, or were in force.
LEMMA GoneStays ==
  ASSUME TypeOK, NEW c, Gone(c), seen \subseteq seen',
         row'.codes # None =>
           \/ row.codes # None /\ row'.codes \subseteq row.codes
           \/ \A d \in row'.codes : d[1] \notin seen
  PROVE  Gone(c)'
BY DEF Gone

\* A request that writes nothing of the row disturbs nothing.
LEMMA DataRests ==
  ASSUME Generated, Spent, Confirmed, UNCHANGED <<row, proven, retired, uses, env>>,
         seen \subseteq seen'
  PROVE  (Generated /\ Spent /\ Confirmed)'
<1>1. Generated' /\ Confirmed'
  BY DEF Generated, Confirmed
<1>2. Spent'
  BY DEF Spent, Gone
<1> QED BY <1>1, <1>2

\* What is in force was generated.
LEMMA InForceGenerated ==
  ASSUME TypeOK, Generated
  PROVE  InForce \subseteq RecoveryCodes /\ \A c \in InForce : c[1] \in seen
BY RowFields DEF InForce, Generated

\* A write that brings only new codes into force keeps what is spent out of it: the
\* codes that it replaces are retired, and the secret stays or is new.
LEMMA Replacing ==
  ASSUME TypeOK, Generated, Spent, seen \subseteq seen', UNCHANGED uses,
         retired' = retired \cup InForce,
         row'.codes # None => \A d \in row'.codes : d[1] \notin seen,
         \/ row'.secret = row.secret /\ row'.last = row.last
         \/ row'.secret \notin seen
  PROVE  Spent'
<1>1. \A c : Gone(c) => Gone(c)'
  BY GoneStays
<1>2. \A c \in InForce : Gone(c)'
  BY InForceGenerated DEF Gone
<1>3. \A c \in TotpCodes : uses[c] > 0 => c[1] \in seen' /\ (c[1] = row'.secret => c[2] <= row'.last)
  BY DEF Spent
<1> QED BY <1>1, <1>2, <1>3 DEF Spent

\* Accepting a code spends it.
LEMMA Accepted ==
  ASSUME TypeOK, TypeOK', Coded, Generated, Spent, Confirmed, NEW p \in Procs, Accepting(p),
         VerifyAccept(p)
  PROVE  (Generated /\ Spent /\ Confirmed)'
<1> DEFINE code == proc[p].code
<1>1. /\ UNCHANGED <<seen, proven, retired, env>> /\ uses' = [uses EXCEPT ![code] = @ + 1]
      /\ row' = IF code \in TotpCodes THEN [row EXCEPT !.last = code[2]]
                ELSE [row EXCEPT !.codes = proc[p].left]
      /\ code \in Codes
  BY DEF VerifyAccept, Coded, At
<1>2. /\ row.enabled
      /\ code \in TotpCodes => row.secret # None /\ code[1] = row.secret /\ row.last < code[2]
      /\ code \in RecoveryCodes => /\ row.codes # None /\ code \in row.codes
                                   /\ proc[p].left = row.codes \ {code}
  BY DEF VerifyAccept, Accepting, At
<1> HIDE DEF code
<1>3. row'.secret = row.secret /\ row'.enabled = row.enabled
  BY <1>1, RowFields
<1>4. uses[code] \in Nat /\ uses'[code] = uses[code] + 1 /\ \A c \in Codes \ {code} : uses'[c] = uses[c]
  BY <1>1 DEF TypeOK
<1>5. CASE code \in TotpCodes
  <2>1. row'.last = code[2] /\ row'.codes = row.codes
    BY <1>1, <1>5, RowFields
  <2>2. code[2] \in Int /\ row.last \in Int
    BY <1>5, RowFields DEF TotpCodes, Steps
  <2>3. \A c \in TotpCodes : c[2] \in Int
    BY DEF TotpCodes, Steps
  <2>4. ~(uses[code] > 0) /\ code[1] \in seen
    BY <1>2, <1>5, <2>2 DEF Spent, Generated
  <2>5. \A c \in Codes : uses'[c] <= 1
    BY <1>4, <2>4 DEF Spent
  <2>6. ASSUME NEW c \in TotpCodes, uses'[c] > 0
        PROVE  c[1] \in seen /\ (c[1] = row.secret => c[2] <= code[2])
    <3>1. CASE c = code
      BY <1>5, <2>2, <2>4, <3>1
    <3>2. CASE c # code
      <4>1. uses[c] > 0
        BY <1>4, <2>6, <3>2 DEF Codes
      <4> QED BY <1>2, <1>5, <2>2, <2>3, <4>1 DEF Spent
    <3> QED BY <3>1, <3>2
  <2>7. \A c \in RecoveryCodes : uses'[c] > 0 => Gone(c)
    <3>1. TotpCodes \cap RecoveryCodes = {}
      BY ConstantsAssumption DEF TotpCodes, RecoveryCodes
    <3> QED BY <1>4, <1>5, <3>1 DEF Spent, Codes
  <2>8. \A c : Gone(c) => Gone(c)'
    BY <1>1, <2>1 DEF Gone
  <2>9. Spent'
    BY <1>1, <1>3, <2>1, <2>5, <2>6, <2>7, <2>8 DEF Spent
  <2>10. Generated' /\ Confirmed'
    BY <1>1, <1>3, <2>1 DEF Generated, Confirmed
  <2> QED BY <2>9, <2>10
<1>6. CASE code \notin TotpCodes
  <2>1. code \in RecoveryCodes
    BY <1>1, <1>6 DEF Codes
  <2>2. row'.last = row.last /\ row'.codes = row.codes \ {code} /\ row.codes # None
    BY <1>1, <1>2, <1>6, <2>1, RowFields
  <2>3. code \in row.codes /\ code[1] \in seen /\ ~(uses[code] > 0)
    BY <1>2, <2>1 DEF Generated, Spent, Gone
  <2>4. \A c \in Codes : uses'[c] <= 1
    BY <1>4, <2>3 DEF Spent
  <2>5. \A c : Gone(c) => Gone(c)'
    BY <1>1, <2>2 DEF Gone
  <2>6. \A c : c = code => Gone(c)'
    BY <1>1, <2>2, <2>3 DEF Gone
  <2>7. \A c \in TotpCodes : uses'[c] > 0 => c[1] \in seen' /\ (c[1] = row'.secret => c[2] <= row'.last)
    BY <1>1, <1>3, <1>4, <1>6, <2>2 DEF Spent, Codes
  <2>8. \A c \in RecoveryCodes : uses'[c] > 0 => Gone(c)'
    BY <1>4, <2>5, <2>6 DEF Spent, Codes
  <2>9. Spent'
    BY <1>1, <2>4, <2>5, <2>7, <2>8 DEF Spent
  <2>10. Generated' /\ Confirmed'
    BY <1>1, <1>3, <2>2 DEF Generated, Confirmed
  <2> QED BY <2>9, <2>10
<1> QED BY <1>5, <1>6

\* Requests that do not overlap spend what they accept and retire what they replace.
LEMMA DataStays ==
  ASSUME TypeOK, TypeOK', Coded, SerialInv, Serial, [Next]_vars
  PROVE  (Generated /\ Spent /\ Confirmed)'
<1> USE ConstantsAssumption DEF lockout, history
<1>0. Generated /\ Spent /\ Confirmed
  BY DEF SerialInv
<1>rests. ASSUME UNCHANGED <<row, proven, retired, uses, env>>, seen \subseteq seen'
          PROVE  (Generated /\ Spent /\ Confirmed)'
  BY <1>0, <1>rests, DataRests
<1>replaces. ASSUME NEW b, b \notin seen, row'.codes = Batch(b) PROVE \A d \in row'.codes : d[1] \notin seen
  BY <1>replaces DEF Batch
<1>1. ASSUME NEW p \in Procs, VerifyAccept(p) PROVE (Generated /\ Spent /\ Confirmed)'
  BY <1>0, <1>1, Accepted DEF SerialInv, InTurn
<1>2. ASSUME NEW p \in Procs, NEW s \in Secrets, StartTotpEnrollment(p, s)
      PROVE  (Generated /\ Spent /\ Confirmed)'
  <2>1. /\ s \notin seen /\ seen' = seen \cup {s} /\ UNCHANGED <<uses, proven, env>>
        /\ retired' = retired \cup InForce
    BY <1>2 DEF StartTotpEnrollment, Fresh
  <2>2. row'.secret = s /\ row'.codes = None /\ row'.enabled = FALSE
    BY <1>2 DEF StartTotpEnrollment, NoRow
  <2>3. Spent'
    BY <1>0, <2>1, <2>2, Replacing
  <2>4. Generated' /\ Confirmed'
    BY <2>1, <2>2 DEF Generated, Confirmed
  <2> QED BY <2>3, <2>4
<1>3. ASSUME NEW p \in Procs, NEW b \in Batches, ConfirmTotpSave(p, b)
      PROVE  (Generated /\ Spent /\ Confirmed)'
  <2>1. /\ b \notin seen /\ seen' = seen \cup {b} /\ UNCHANGED <<uses, env>>
        /\ retired' = retired \cup InForce /\ proven' = proven \cup {proc[p].secret}
    BY <1>3 DEF ConfirmTotpSave, Fresh
  <2>2. row'.secret = row.secret /\ row'.last = row.last /\ row'.codes = Batch(b)
    BY <1>3, RowFields DEF ConfirmTotpSave
  <2>3. proc[p].secret = row.secret
    BY <1>3 DEF ConfirmTotpSave, SerialInv, InTurn, Confirming
  <2>4. Spent'
    BY <1>0, <1>replaces, <2>1, <2>2, Replacing
  <2>5. Generated'
    BY <1>0, <2>1, <2>2 DEF Generated, Batch
  <2>6. Confirmed'
    BY <2>1, <2>2, <2>3 DEF Confirmed
  <2> QED BY <2>4, <2>5, <2>6
<1>4. ASSUME NEW p \in Procs, NEW b \in Batches, RegenerateSave(p, b)
      PROVE  (Generated /\ Spent /\ Confirmed)'
  <2>1. /\ b \notin seen /\ seen' = seen \cup {b} /\ UNCHANGED <<uses, proven, env>>
        /\ retired' = retired \cup InForce
    BY <1>4 DEF RegenerateSave, Fresh
  <2>2. /\ row'.secret = row.secret /\ row'.last = row.last /\ row'.codes = Batch(b)
        /\ row'.enabled = row.enabled
    BY <1>4, RowFields DEF RegenerateSave
  <2>3. Spent'
    BY <1>0, <1>replaces, <2>1, <2>2, Replacing
  <2>4. Generated'
    BY <1>0, <2>1, <2>2 DEF Generated, Batch
  <2>5. Confirmed'
    BY <1>0, <2>1, <2>2 DEF Confirmed
  <2> QED BY <2>3, <2>4, <2>5
<1>5. ASSUME NEW p \in Procs, DisableMfa(p) PROVE (Generated /\ Spent /\ Confirmed)'
  <2>1. UNCHANGED <<seen, uses, proven, env>> /\ retired' = retired \cup InForce
    BY <1>5 DEF DisableMfa
  <2>2. row'.secret = None /\ row'.codes = None /\ row'.enabled = FALSE
    BY <1>5 DEF DisableMfa, NoRow
  <2>3. None \notin seen
    BY DEF TypeOK
  <2>4. Spent'
    BY <1>0, <2>1, <2>2, <2>3, Replacing
  <2>5. Generated' /\ Confirmed'
    BY <2>2 DEF Generated, Confirmed
  <2> QED BY <2>4, <2>5
<1>6. ASSUME NEW p \in Procs, RegisterPasskey(p) PROVE (Generated /\ Spent /\ Confirmed)'
  <2>1. UNCHANGED <<seen, uses, proven, retired, env>> /\ "passkey" \in env
    BY <1>6 DEF RegisterPasskey
  <2>2. row'.secret = row.secret /\ row'.codes = row.codes /\ row'.last = row.last
    BY <1>6, RowFields DEF RegisterPasskey
  <2>3. Generated' /\ Confirmed'
    BY <1>0, <2>1, <2>2 DEF Generated, Confirmed
  <2>4. Spent'
    BY <1>0, <2>1, <2>2 DEF Spent, Gone
  <2> QED BY <2>3, <2>4
<1>7. ASSUME NEW p \in Procs, SendOtpUnlockEmail(p) PROVE (Generated /\ Spent /\ Confirmed)'
  BY <1>rests, <1>7 DEF SendOtpUnlockEmail, Fresh
<1>8. ASSUME NEW p \in Procs,
             \/ \E code \in Presented : ChallengeBegin(p, code)
             \/ VerifyRead(p) \/ ClearFailures(p) \/ FailureCheck(p) \/ FailureCount(p)
             \/ FailureBlock(p) \/ FailureForget(p)
             \/ \E l \in Links : OtpUnlockFind(p, l)
             \/ OtpUnlockForget(p) \/ OtpUnlockLift(p) \/ OtpUnlockSpend(p)
             \/ ConfirmTotpBegin(p) \/ RegenerateBegin(p)
      PROVE  (Generated /\ Spent /\ Confirmed)'
  <2>1. UNCHANGED <<row, proven, retired, uses, env>> /\ seen' = seen
    BY <1>8 DEF ChallengeBegin, VerifyRead, ClearFailures, FailureCheck, FailureCount, FailureBlock,
                FailureForget, OtpUnlockFind, OtpUnlockForget, OtpUnlockLift, OtpUnlockSpend,
                ConfirmTotpBegin, RegenerateBegin
  <2> QED BY <1>rests, <2>1
<1>9. CASE Tick \/ LockExpires \/ WindowExpires \/ LinkLost \/ UNCHANGED vars
  <2>1. UNCHANGED <<row, proven, retired, uses, env>> /\ seen' = seen
    BY <1>9 DEF Tick, LockExpires, WindowExpires, LinkLost, vars
  <2> QED BY <1>rests, <2>1
<1> QED BY <1>1, <1>2, <1>3, <1>4, <1>5, <1>6, <1>7, <1>8, <1>9 DEF Next

-----------------------------------------------------------------------------
(* Requests that overlap. *)

\* One request moves: the others stay in their stages.
LEMMA InFlight ==
  ASSUME TypeOK, NEW p \in Procs, \A q \in Procs \ {p} : proc'[q] = proc[q], NEW stages
  PROVE  /\ (proc[p].pc \in stages <=> proc'[p].pc \in stages) => In(stages)' = In(stages)
         /\ proc[p].pc \notin stages /\ proc'[p].pc \in stages =>
              Cardinality(In(stages)') = Cardinality(In(stages)) + 1
         /\ proc[p].pc \in stages /\ proc'[p].pc \notin stages =>
              Cardinality(In(stages)') = Cardinality(In(stages)) - 1
<1>1. IsFiniteSet(In(stages))
  BY ConstantsAssumption, FS_Subset DEF In
<1>2. CASE proc[p].pc \in stages <=> proc'[p].pc \in stages
  BY <1>2 DEF In
<1>3. CASE proc[p].pc \notin stages /\ proc'[p].pc \in stages
  <2>1. In(stages)' = In(stages) \cup {p} /\ p \notin In(stages)
    BY <1>3 DEF In
  <2> QED BY <1>1, <1>3, <2>1, FS_AddElement
<1>4. CASE proc[p].pc \in stages /\ proc'[p].pc \notin stages
  <2>1. In(stages)' = In(stages) \ {p} /\ p \in In(stages)
    BY <1>4 DEF In
  <2> QED BY <1>1, <1>4, <2>1, FS_RemoveElement
<1> QED BY <1>2, <1>3, <1>4

\* A request is in one stage.
LEMMA Stages ==
  /\ Cardinality(Verifying) \in Nat /\ Cardinality(Counting) \in Nat
  /\ Cardinality(Blocking) \in Nat /\ Cardinality(Procs) \in Nat
  /\ Cardinality(Verifying) + Cardinality(Counting) + Cardinality(Blocking) <= Cardinality(Procs)
<1> USE ConstantsAssumption
<1>1. IsFiniteSet(Verifying) /\ IsFiniteSet(Counting) /\ IsFiniteSet(Blocking)
  BY FS_Subset DEF Verifying, Counting, Blocking, In
<1>2. /\ Cardinality(Verifying) \in Nat /\ Cardinality(Counting) \in Nat
      /\ Cardinality(Blocking) \in Nat /\ Cardinality(Procs) \in Nat
  BY <1>1, FS_CardinalityType
<1>3. /\ Verifying \cap Counting = {} /\ (Verifying \cup Counting) \cap Blocking = {}
      /\ (Verifying \cup Counting) \cup Blocking \subseteq Procs
  BY DEF Verifying, Counting, Blocking, In
<1> DEFINE Wrong == Verifying \cup Counting
<1>4. IsFiniteSet(Wrong) /\ Cardinality(Wrong) = Cardinality(Verifying) + Cardinality(Counting)
  BY <1>1, <1>2, <1>3, FS_Union, FS_EmptySet
<1>5. Wrong \cap Blocking = {} /\ Wrong \cup Blocking \subseteq Procs
  BY <1>3
<1> HIDE DEF Wrong
<1>6. Cardinality(Wrong \cup Blocking) = Cardinality(Wrong) + Cardinality(Blocking)
  <2>1. Cardinality(Wrong \cap Blocking) = 0
    BY <1>5, FS_EmptySet
  <2>2. Cardinality(Wrong) \in Nat
    BY <1>4, FS_CardinalityType
  <2>3. Cardinality(Wrong \cup Blocking) = Cardinality(Wrong) + Cardinality(Blocking) - Cardinality(Wrong \cap Blocking)
    BY <1>1, <1>4, FS_Union
  <2>4. Cardinality(Blocking) \in Nat
    BY <1>2
  <2> QED BY <2>1, <2>2, <2>3, <2>4
<1>7. Cardinality(Wrong \cup Blocking) <= Cardinality(Procs)
  BY <1>5, FS_Subset
<1> QED BY <1>2, <1>4, <1>6, <1>7

\* The scenario does not change.
LEMMA EnvStays == [Next]_vars => env' = env
BY DEF Next, vars, history, ChallengeBegin, VerifyRead, VerifyAccept, ClearFailures, FailureCheck, FailureCount,
       FailureBlock, FailureForget, SendOtpUnlockEmail, OtpUnlockFind, OtpUnlockForget, OtpUnlockLift,
       OtpUnlockSpend, StartTotpEnrollment, ConfirmTotpBegin, ConfirmTotpSave, RegenerateBegin,
       RegenerateSave, DisableMfa, RegisterPasskey, Tick, LockExpires, WindowExpires, LinkLost

\* A wrong answer is counted or in flight, until the lock.
LEMMA AttemptsStay ==
  ASSUME TypeOK, Attempts, [Next]_vars
  PROVE  Attempts'
<1> USE ConstantsAssumption DEF lockout, history, GoTo, Finish
<1>0. CASE ~Settled
  BY <1>0, EnvStays DEF Settled, Attempts
<1> SUFFICES ASSUME Settled PROVE Attempts'
  BY <1>0
<1> DEFINE Unlocking == {"unlock", "lift", "spend"}
           Moved(p) == \A q \in Procs \ {p} : proc'[q] = proc[q]
           Elsewhere(pc) == pc \notin {"read", "fail", "count", "block", "forget"} \cup Unlocking
<1>a. "unlock" \notin env /\ "expire" \notin env /\ In(Unlocking) = {}
  BY DEF Settled, Attempts
<1>b. /\ ~locked => /\ In({"forget"}) = {}
                    /\ wrong <= fails + Cardinality(Counting)
                    /\ fails <= MaxAttempts - 1 + Cardinality(Blocking)
      /\ locked => wrong + Cardinality(Verifying) <= MaxAttempts - 1 + Cardinality(Procs)
  BY DEF Attempts, Settled
<1>c. /\ Cardinality(Verifying) \in Nat /\ Cardinality(Counting) \in Nat
      /\ Cardinality(Blocking) \in Nat /\ Cardinality(Procs) \in Nat
      /\ Cardinality(Verifying) + Cardinality(Counting) + Cardinality(Blocking) <= Cardinality(Procs)
  BY Stages
<1>d. fails \in Nat /\ wrong \in Nat /\ MaxAttempts \in Nat \ {0} /\ locked \in BOOLEAN
  BY DEF TypeOK
<1>begins. ASSUME NEW p \in Procs, NEW x, proc' = [proc EXCEPT ![p] = x] PROVE Moved(p) /\ proc'[p] = x
  BY <1>begins, Moves
<1>goes. ASSUME NEW p \in Procs, NEW pc, proc' = [proc EXCEPT ![p].pc = pc] PROVE Moved(p) /\ proc'[p].pc = pc
  BY <1>goes DEF TypeOK, Local
<1>idle. Idle.pc = "idle"
  BY DEF Idle
<1> HIDE DEF Moved, Elsewhere
<1>quiet. ASSUME NEW p \in Procs, Moved(p), Elsewhere(proc[p].pc), Elsewhere(proc'[p].pc),
                 UNCHANGED <<fails, locked, wrong, env>>
          PROVE  Attempts'
  <2>1. \A q \in Procs : proc'[q].pc # proc[q].pc => Elsewhere(proc[q].pc) /\ Elsewhere(proc'[q].pc)
    BY <1>quiet DEF Moved
  <2>2. /\ Verifying' = Verifying /\ Counting' = Counting /\ Blocking' = Blocking
        /\ In({"forget"})' = In({"forget"}) /\ In(Unlocking)' = In(Unlocking)
    BY <2>1 DEF Elsewhere, Verifying, Counting, Blocking, In
  <2> QED BY <1>a, <1>b, <1>quiet, <2>2 DEF Attempts
<1>1. ASSUME NEW p \in Procs, NEW code \in Presented, ChallengeBegin(p, code) PROVE Attempts'
  <2> DEFINE x == [Idle EXCEPT !.pc = "read", !.code = code]
  <2>0. x.pc = "read"
    BY DEF Idle
  <2>1. /\ proc' = [proc EXCEPT ![p] = x] /\ proc[p].pc = "idle" /\ ~locked
        /\ UNCHANGED <<fails, locked, wrong, env>>
    BY <1>1 DEF ChallengeBegin, Starts, At
  <2> HIDE DEF x
  <2>2. Moved(p) /\ proc'[p].pc = "read"
    BY <1>begins, <2>0, <2>1
  <2>3. /\ Counting' = Counting /\ Blocking' = Blocking
        /\ (In({"forget"}) = {} => In({"forget"})' = {}) /\ In(Unlocking)' = {}
    BY <1>a, <2>1, <2>2, InFlight DEF Moved, Counting, Blocking
  <2> QED BY <1>b, <2>1, <2>3 DEF Attempts
<1>2. ASSUME NEW p \in Procs, VerifyRead(p) PROVE Attempts'
  <2>1. proc[p].pc = "read" /\ UNCHANGED <<fails, locked, env>>
    BY <1>2 DEF VerifyRead, At
  <2>2. ASSUME proc' = [proc EXCEPT ![p].pc = "accept", ![p].left = InForce \ {proc[p].code}], wrong' = wrong
        PROVE  Attempts'
    <3>1. Moved(p) /\ proc'[p].pc = "accept"
      BY <2>2 DEF Moved, TypeOK, Local
    <3>2. /\ Cardinality(Verifying') = Cardinality(Verifying) - 1
          /\ Counting' = Counting /\ Blocking' = Blocking
          /\ (In({"forget"}) = {} => In({"forget"})' = {}) /\ In(Unlocking)' = {}
      BY <1>a, <2>1, <3>1, InFlight DEF Moved, Verifying, Counting, Blocking
    <3> QED BY <1>b, <1>c, <1>d, <2>1, <2>2, <3>2 DEF Attempts
  <2>3. ASSUME proc' = [proc EXCEPT ![p].pc = "fail"], wrong' = wrong + 1 PROVE Attempts'
    <3>1. Moved(p) /\ proc'[p].pc = "fail"
      BY <1>goes, <2>3
    <3>2. /\ Cardinality(Verifying') = Cardinality(Verifying) - 1
          /\ Cardinality(Counting') = Cardinality(Counting) + 1 /\ Blocking' = Blocking
          /\ (In({"forget"}) = {} => In({"forget"})' = {}) /\ In(Unlocking)' = {}
      BY <1>a, <2>1, <3>1, InFlight DEF Moved, Verifying, Counting, Blocking
    <3> QED BY <1>b, <1>c, <1>d, <2>1, <2>3, <3>2 DEF Attempts
  <2> QED BY <1>2, <2>2, <2>3 DEF VerifyRead
<1>3. ASSUME NEW p \in Procs, ClearFailures(p) PROVE Attempts'
  <2>1. /\ proc' = [proc EXCEPT ![p] = Idle] /\ proc[p].pc = "clear" /\ fails' = 0 /\ wrong' = 0
        /\ UNCHANGED <<locked, env>>
    BY <1>3 DEF ClearFailures, At
  <2>2. Moved(p) /\ proc'[p].pc = "idle"
    BY <1>begins, <1>idle, <2>1
  <2>3. /\ Verifying' = Verifying /\ Counting' = Counting /\ Blocking' = Blocking
        /\ (In({"forget"}) = {} => In({"forget"})' = {}) /\ In(Unlocking)' = {}
    BY <1>a, <2>1, <2>2, InFlight DEF Moved, Verifying, Counting, Blocking
  <2> QED BY <1>b, <1>c, <1>d, <2>1, <2>3 DEF Attempts
<1>4. ASSUME NEW p \in Procs, FailureCheck(p) PROVE Attempts'
  <2>1. /\ proc' = [proc EXCEPT ![p].pc = IF locked THEN "mail" ELSE "count"] /\ proc[p].pc = "fail"
        /\ UNCHANGED <<fails, locked, wrong, env>>
    BY <1>4 DEF FailureCheck, At
  <2>2. Moved(p) /\ proc'[p].pc = IF locked THEN "mail" ELSE "count"
    BY <1>goes, <2>1
  <2>3. /\ Verifying' = Verifying /\ (~locked => Counting' = Counting) /\ Blocking' = Blocking
        /\ (In({"forget"}) = {} => In({"forget"})' = {}) /\ In(Unlocking)' = {}
    BY <1>a, <2>1, <2>2, InFlight DEF Moved, Verifying, Counting, Blocking
  <2> QED BY <1>b, <1>d, <2>1, <2>3 DEF Attempts
<1>5. ASSUME NEW p \in Procs, FailureCount(p) PROVE Attempts'
  <2>1. /\ fails' = fails + 1 /\ proc[p].pc = "count" /\ UNCHANGED <<locked, wrong, env>>
        /\ IF fails + 1 < MaxAttempts THEN proc' = [proc EXCEPT ![p] = Idle]
                                      ELSE proc' = [proc EXCEPT ![p].pc = "block"]
    BY <1>5 DEF FailureCount, At
  <2>2. Moved(p) /\ proc'[p].pc = IF fails + 1 < MaxAttempts THEN "idle" ELSE "block"
    BY <1>begins, <1>goes, <1>idle, <2>1
  <2>3. /\ Verifying' = Verifying /\ Cardinality(Counting') = Cardinality(Counting) - 1
        /\ Cardinality(Blocking') = Cardinality(Blocking) + IF fails + 1 < MaxAttempts THEN 0 ELSE 1
        /\ (In({"forget"}) = {} => In({"forget"})' = {}) /\ In(Unlocking)' = {}
    <3>1. CASE fails + 1 < MaxAttempts
      BY <1>a, <1>c, <2>1, <2>2, <3>1, InFlight DEF Moved, Verifying, Counting, Blocking
    <3>2. CASE ~(fails + 1 < MaxAttempts)
      BY <1>a, <2>1, <2>2, <3>2, InFlight DEF Moved, Verifying, Counting, Blocking
    <3> QED BY <3>1, <3>2
  <2> QED BY <1>b, <1>c, <1>d, <2>1, <2>3 DEF Attempts
<1>6. ASSUME NEW p \in Procs, FailureBlock(p) PROVE Attempts'
  <2>1. /\ proc' = [proc EXCEPT ![p].pc = "forget"] /\ proc[p].pc = "block" /\ locked' = TRUE
        /\ UNCHANGED <<fails, wrong, env>>
    BY <1>6 DEF FailureBlock, At
  <2>2. Moved(p) /\ proc'[p].pc = "forget"
    BY <1>goes, <2>1
  <2>3. Verifying' = Verifying /\ In(Unlocking)' = {}
    BY <1>a, <2>1, <2>2, InFlight DEF Moved, Verifying
  <2> QED BY <1>b, <1>c, <1>d, <2>1, <2>3 DEF Attempts
<1>7. ASSUME NEW p \in Procs, FailureForget(p) PROVE Attempts'
  <2>1. /\ proc' = [proc EXCEPT ![p].pc = "mail"] /\ proc[p].pc = "forget"
        /\ UNCHANGED <<locked, wrong, env>>
    BY <1>7 DEF FailureForget, At
  <2>2. Moved(p) /\ proc'[p].pc = "mail"
    BY <1>goes, <2>1
  <2>3. Verifying' = Verifying /\ In(Unlocking)' = {} /\ p \in In({"forget"})
    BY <1>a, <2>1, <2>2, InFlight DEF Moved, Verifying, In
  <2> QED BY <1>b, <2>1, <2>3 DEF Attempts
<1>8. ASSUME NEW p \in Procs, VerifyAccept(p) PROVE Attempts'
  <2>1. /\ proc' = [proc EXCEPT ![p].pc = "clear"] /\ proc[p].pc = "accept"
        /\ UNCHANGED <<fails, locked, wrong, env>>
    BY <1>8 DEF VerifyAccept, At
  <2>2. Moved(p) /\ proc'[p].pc = "clear"
    BY <1>goes, <2>1
  <2> QED BY <1>quiet, <2>1, <2>2 DEF Elsewhere
<1>9. ASSUME NEW p \in Procs, SendOtpUnlockEmail(p) PROVE Attempts'
  <2>1. /\ proc' = [proc EXCEPT ![p] = Idle] /\ proc[p].pc = "mail"
        /\ UNCHANGED <<fails, locked, wrong, env>>
    BY <1>9 DEF SendOtpUnlockEmail, At
  <2> QED BY <1>quiet, <1>begins, <1>idle, <2>1 DEF Elsewhere
<1>10. ASSUME NEW p \in Procs, NEW b \in Batches, ConfirmTotpSave(p, b) PROVE Attempts'
  <2>1. /\ proc' = [proc EXCEPT ![p] = Idle] /\ proc[p].pc = "confirm"
        /\ UNCHANGED <<fails, locked, wrong, env>>
    BY <1>10 DEF ConfirmTotpSave, At
  <2> QED BY <1>quiet, <1>begins, <1>idle, <2>1 DEF Elsewhere
<1>11. ASSUME NEW p \in Procs, NEW b \in Batches, RegenerateSave(p, b) PROVE Attempts'
  <2>1. /\ proc' = [proc EXCEPT ![p] = Idle] /\ proc[p].pc = "regenerate"
        /\ UNCHANGED <<fails, locked, wrong, env>>
    BY <1>11 DEF RegenerateSave, At
  <2> QED BY <1>quiet, <1>begins, <1>idle, <2>1 DEF Elsewhere
<1>12. ASSUME NEW p \in Procs, ConfirmTotpBegin(p) PROVE Attempts'
  <2> DEFINE x == [Idle EXCEPT !.pc = "confirm", !.secret = row.secret]
  <2>0. x.pc = "confirm"
    BY DEF Idle
  <2>1. /\ proc' = [proc EXCEPT ![p] = x] /\ proc[p].pc = "idle"
        /\ UNCHANGED <<fails, locked, wrong, env>>
    BY <1>12 DEF ConfirmTotpBegin, Manages, Starts, At
  <2> HIDE DEF x
  <2> QED BY <1>quiet, <1>begins, <2>0, <2>1 DEF Elsewhere
<1>13. ASSUME NEW p \in Procs, RegenerateBegin(p) PROVE Attempts'
  <2> DEFINE x == [Idle EXCEPT !.pc = "regenerate"]
  <2>0. x.pc = "regenerate"
    BY DEF Idle
  <2>1. /\ proc' = [proc EXCEPT ![p] = x] /\ proc[p].pc = "idle"
        /\ UNCHANGED <<fails, locked, wrong, env>>
    BY <1>13 DEF RegenerateBegin, Manages, Starts, At
  <2> HIDE DEF x
  <2> QED BY <1>quiet, <1>begins, <2>0, <2>1 DEF Elsewhere
<1>14. ASSUME NEW p \in Procs, \/ \E s \in Secrets : StartTotpEnrollment(p, s)
                               \/ DisableMfa(p) \/ RegisterPasskey(p)
      PROVE  Attempts'
  <2>1. UNCHANGED <<proc, fails, locked, wrong, env>> /\ proc[p].pc = "idle"
    BY <1>14 DEF StartTotpEnrollment, DisableMfa, RegisterPasskey, Manages, Starts, At
  <2> QED BY <1>quiet, <2>1 DEF Moved, Elsewhere
<1>15. ASSUME NEW p \in Procs, \/ \E l \in Links : OtpUnlockFind(p, l)
                               \/ OtpUnlockForget(p) \/ OtpUnlockLift(p) \/ OtpUnlockSpend(p)
      PROVE  FALSE
  <2>1. CASE \E l \in Links : OtpUnlockFind(p, l)
    BY <1>a, <2>1 DEF OtpUnlockFind
  <2>2. CASE OtpUnlockForget(p) \/ OtpUnlockLift(p) \/ OtpUnlockSpend(p)
    <3>1. p \in In(Unlocking)
      BY <2>2 DEF OtpUnlockForget, OtpUnlockLift, OtpUnlockSpend, At, In
    <3> QED BY <1>a, <3>1
  <2> QED BY <1>15, <2>1, <2>2
<1>16. CASE Tick \/ LockExpires \/ WindowExpires \/ LinkLost \/ UNCHANGED vars
  <2>1. UNCHANGED <<proc, fails, locked, wrong, env>>
    BY <1>16, <1>a DEF Tick, LockExpires, WindowExpires, LinkLost, vars
  <2> QED BY <1>a, <1>b, <2>1 DEF Attempts, Counting, Blocking, Verifying, In
<1> QED
  BY <1>1, <1>2, <1>3, <1>4, <1>5, <1>6, <1>7, <1>8, <1>9, <1>10, <1>11, <1>12, <1>13, <1>14,
     <1>15, <1>16 DEF Next

-----------------------------------------------------------------------------
LEMMA StepKeepsInv == IInv /\ [Next]_vars => IInv'
<1> SUFFICES ASSUME IInv, [Next]_vars PROVE IInv'
  OBVIOUS
<1> USE DEF IInv
<1>1. TypeOK' /\ Coded' /\ Attempts'
  BY TypesStay, CodedStays, AttemptsStay
<1>2. Serial' => Serial
  BY EnvStays DEF Serial
<1>3. SerialInv'
  BY <1>1, <1>2, TurnsStay, DataStays DEF SerialInv
<1> QED BY <1>1, <1>3

\* Who overlaps is settled when a behaviour begins, so SerialInv holds in all of it or
\* not at all; what it says is kept by requests one after the other, and Attempts by all.
THEOREM InductiveInvariant == Spec => []IInv
<1> QED BY InitInv, StepKeepsInv, PTL DEF Spec

\* Every variable keeps its type: the row has the shape of a row of auth_mfa, and a request
\* in flight remembers a code, a secret or a link of its kind.
THEOREM TypeCorrect == Spec => []TypeOK
<1>1. IInv => TypeOK
  BY DEF IInv
<1> QED BY <1>1, InductiveInvariant, PTL

\* A TOTP code is accepted at most once, by requests that do not overlap (verifyTotp).
THEOREM TotpSingleUseHolds == Spec => []TotpSingleUse
<1>1. IInv => TotpSingleUse
  BY DEF IInv, SerialInv, Spent, TotpSingleUse, Codes
<1> QED BY <1>1, InductiveInvariant, PTL

\* A recovery code is accepted at most once, by requests that do not overlap
\* (consumeRecoveryCode).
THEOREM RecoverySingleUseHolds == Spec => []RecoverySingleUse
<1>1. IInv => RecoverySingleUse
  BY DEF IInv, SerialInv, Spent, RecoverySingleUse, Codes
<1> QED BY <1>1, InductiveInvariant, PTL

\* Recovery codes that were replaced or discarded stay out of force
\* (regenerateRecoveryCodes, disableMfa, startTotpEnrollment).
THEOREM RetiredStayOutHolds == Spec => []RetiredStayOut
<1>1. IInv => RetiredStayOut
  BY DEF IInv, SerialInv, Spent, Gone, RetiredStayOut, InForce
<1> QED BY <1>1, InductiveInvariant, PTL

\* The secret of an active factor was confirmed with a code (confirmTotpEnrollment,
\* getMfaState).
THEOREM TotpIsConfirmedHolds == Spec => []TotpIsConfirmed
<1>1. IInv => TotpIsConfirmed
  BY DEF IInv, SerialInv, Confirmed, TotpIsConfirmed
<1> QED BY <1>1, InductiveInvariant, PTL

\* However many requests answer at the same time, the lock bounds the wrong answers that
\* are verified (mfaVerify, recordFailure).
THEOREM WrongAnswersBoundedHolds == Spec => []WrongAnswersBounded
<1>1. IInv => WrongAnswersBounded
  <2> SUFFICES ASSUME IInv, Settled PROVE wrong <= MaxAttempts + Cardinality(Procs) - 1
    BY DEF WrongAnswersBounded, Settled
  <2>1. wrong \in Nat /\ fails \in Nat /\ MaxAttempts \in Nat
    BY ConstantsAssumption DEF IInv, TypeOK
  <2>2. CASE locked
    BY <2>1, <2>2, Stages DEF IInv, Attempts
  <2>3. CASE ~locked
    BY <2>1, <2>3, Stages DEF IInv, Attempts
  <2> QED BY <2>2, <2>3
<1> QED BY <1>1, InductiveInvariant, PTL
=============================================================================
