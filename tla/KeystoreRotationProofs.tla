------------------------ MODULE KeystoreRotationProofs ------------------------
(* TLAPS proofs about KeystoreRotation, for any instances, commands, scenarios   *)
(* and bounds: type correctness, NoLostRotation and RotatesOnlyOldKey.           *)
(*                                                                               *)
(* What a rotation writes depends on what it read, and what the scheduler read   *)
(* on nobody else writing.  Serial says why nobody does, when the scheduler is   *)
(* alone: who stands behind the lock holds it, who rotates stands behind the     *)
(* lock, and the keystore a rotation read is the one that is there.              *)
EXTENDS KeystoreRotation, SequenceTheorems, TLAPS

\* Whoever booted did so over a keystore, and no write leaves none.
KeystoreExists ==
  /\ "empty" \notin env => vault # <<>>
  /\ \A i \in Instances : Up(i) => vault # <<>>

Serial ==
  /\ \A i \in Instances : phase[i] # "ensure"
  /\ \A r \in Cli : rot[r].pc = "idle"
  /\ \A i \in Instances :
       sched[i] \in {"locked", "checked", "rotating", "release"} => lock = i
  /\ \A i \in Instances : sched[i] = "rotating" \/ rot[i].pc = "idle"
  /\ \A i \in Instances : sched[i] = "checked" \/ rot[i].pc \in {"read", "write"} => aged
  /\ \A i \in Instances : rot[i].pc = "write" => rot[i].keys = vault

IInv == TypeOK /\ KeystoreExists /\ (Unattended => Serial)

-----------------------------------------------------------------------------
\* A rotation keeps its new key in front of the first of the keys it read
\* (KeystoreManager.rotate, slice).
LEMMA Truncation ==
  ASSUME NEW s \in Keystore, NEW f \in Nat \ {0}, NEW k \in Nat \ {0}
  PROVE  /\ Truncate(<<f>> \o s, k) \in Keystore
         /\ Truncate(<<f>> \o s, k) # <<>>
         /\ Tail(Truncate(<<f>> \o s, k)) = SubSeq(s, 1, Len(Truncate(<<f>> \o s, k)) - 1)
<1> DEFINE u == <<f>> \o s
           n == IF Len(u) < k THEN Len(u) ELSE k
           t == Truncate(u, k)
<1>1. /\ u \in Seq(Nat \ {0}) /\ Len(u) = Len(s) + 1 /\ Len(s) \in Nat
      /\ \A j \in 1..Len(s) : u[j + 1] = s[j]
  BY DEF Keystore
<1>2. n \in 1..Len(u)
  BY <1>1
<1>3. t = SubSeq(u, 1, n) /\ t \in Seq(Nat \ {0}) /\ Len(t) = n /\ \A j \in 1..n : t[j] = u[j]
  BY <1>1, <1>2, SubSeqProperties DEF Truncate
<1> HIDE DEF t, n, u
<1>4. /\ Tail(t) \in Seq(Nat \ {0}) /\ Len(Tail(t)) = n - 1
      /\ \A j \in 1..(n - 1) : Tail(t)[j] = t[j + 1]
  <2>1. n \in Nat /\ n >= 1 /\ t # <<>>
    BY <1>1, <1>2, <1>3
  <2> QED BY <1>3, <2>1, HeadTailProperties
<1>5. /\ SubSeq(s, 1, n - 1) \in Seq(Nat \ {0}) /\ Len(SubSeq(s, 1, n - 1)) = n - 1
      /\ \A j \in 1..(n - 1) : SubSeq(s, 1, n - 1)[j] = s[j]
  BY <1>1, <1>2, SubSeqProperties DEF Keystore
<1>6. \A j \in 1..(n - 1) : Tail(t)[j] = SubSeq(s, 1, n - 1)[j]
  <2> TAKE j \in 1..(n - 1)
  <2>1. j \in 1..Len(s) /\ j + 1 \in 1..n
    BY <1>1, <1>2
  <2> QED BY <1>1, <1>3, <1>4, <1>5, <2>1
<1>7. Tail(t) = SubSeq(s, 1, n - 1)
  BY <1>4, <1>5, <1>6, <1>2, SeqEqual
<1>8. t # <<>> /\ Tail(t) = SubSeq(s, 1, Len(t) - 1)
  <2>1. Len(t) >= 1
    BY <1>1, <1>2, <1>3
  <2>2. t # <<>>
    BY <2>1
  <2>3. Len(t) = n
    BY <1>3
  <2> QED BY <1>7, <2>2, <2>3
<1> QED BY <1>3, <1>8 DEF Keystore, t, u

\* A keystore with one key more has the number of its head, plus one.
LEMMA FreshIsKey == ASSUME vault \in Keystore PROVE Fresh \in Nat \ {0}
BY DEF Fresh, Keystore

-----------------------------------------------------------------------------
LEMMA InitInv == Init => IInv
<1> SUFFICES ASSUME Init PROVE IInv
  OBVIOUS
<1>1. TypeOK
  <2>1. <<>> \in Keystore /\ <<1>> \in Keystore
    BY DEF Keystore
  <2>2. NoRotation \in [pc : {"idle", "read", "write", "reload"}, keep : {1, Keep}, keys : Keystore]
    BY <2>1 DEF NoRotation
  <2>3. vault \in Keystore /\ loaded \in [Instances -> Keystore]
    BY <2>1 DEF Init
  <2>4. rot \in [Rotators -> [pc : {"idle", "read", "write", "reload"},
                              keep : {1, Keep}, keys : Keystore]]
    BY <2>2 DEF Init
  <2>5. events \in 0..MaxEvents /\ env \in Scenarios /\ aged \in BOOLEAN
    <3>1. events = 0 /\ env \in Scenarios /\ aged = FALSE
      BY DEF Init
    <3>2. 0 \in 0..MaxEvents
      BY ConstantsAssumption
    <3> QED BY <3>1, <3>2
  <2>6. /\ phase \in [Instances -> {"down", "ensure", "up"}] /\ last \in [Instances -> Nat]
        /\ poll \in [Instances -> {"idle", "reload"}] /\ lock \in Instances \cup {None, Dead}
        /\ sched \in [Instances -> {"idle", "aged", "locked", "checked", "rotating", "release"}]
    BY DEF Init
  <2> QED BY <2>3, <2>4, <2>5, <2>6 DEF TypeOK
<1>2. KeystoreExists
  BY DEF Init, KeystoreExists, Up
<1>3. Serial
  BY DEF Init, Serial, NoRotation, Rotators
<1> QED BY <1>1, <1>2, <1>3 DEF IInv

\* The type of every variable, from what the action changes.
LEMMA TypePreserved == TypeOK /\ KeystoreExists /\ [Next]_vars => TypeOK'
<1> SUFFICES ASSUME TypeOK, KeystoreExists, [Next]_vars PROVE TypeOK'
  OBVIOUS
<1> USE ConstantsAssumption DEF TypeOK, Happens
<1>1. ASSUME NEW r \in Rotators, RotateNow(r) PROVE TypeOK'
  BY <1>1, EmptySeq DEF RotateNow, StartRotation, Keystore
<1>2. ASSUME NEW r \in Rotators, RotateRead(r) PROVE TypeOK'
  BY <1>2 DEF RotateRead
<1>3. ASSUME NEW r \in Rotators, RotateWrite(r) PROVE TypeOK'
  <2>1. vault' \in Keystore
    <3>1. rot[r].keys \in Keystore /\ rot[r].keep \in Nat \ {0}
      OBVIOUS
    <3> QED BY <1>3, <3>1, FreshIsKey, Truncation DEF RotateWrite
  <2>2. rot' \in [Rotators -> [pc : {"idle", "read", "write", "reload"},
                               keep : {1, Keep}, keys : Keystore]]
    BY <1>3, EmptySeq DEF RotateWrite, NoRotation, Keystore
  <2> QED BY <1>3, <2>1, <2>2 DEF RotateWrite
<1>4. ASSUME NEW i \in Instances, BootRead(i) PROVE TypeOK'
  BY <1>4 DEF BootRead
<1>5. ASSUME NEW i \in Instances, BootWrite(i) PROVE TypeOK'
  <2>1. <<Fresh>> \in Keystore
    BY FreshIsKey DEF Keystore
  <2>2. vault' \in Keystore /\ loaded' \in [Instances -> Keystore]
    BY <1>5, <2>1 DEF BootWrite
  <2> QED BY <1>5, <2>2 DEF BootWrite
<1>6. ASSUME NEW i \in Instances, RotateReload(i) PROVE TypeOK'
  <2>1. NoRotation \in [pc : {"idle", "read", "write", "reload"}, keep : {1, Keep}, keys : Keystore]
    BY EmptySeq DEF NoRotation, Keystore
  <2> QED BY <1>6, <2>1 DEF RotateReload, Rotators
<1>7. ASSUME NEW i \in Instances, Scheduling(i) PROVE TypeOK'
  <2>1. CASE SchedulerTick(i)
    BY <2>1 DEF SchedulerTick
  <2>2. CASE SchedulerLock(i)
    BY <2>2 DEF SchedulerLock
  <2>3. CASE SchedulerRecheck(i)
    BY <2>3 DEF SchedulerRecheck
  <2>4. CASE SchedulerRotate(i)
    <3>1. <<>> \in Keystore
      BY DEF Keystore
    <3> QED BY <2>4, <3>1 DEF SchedulerRotate, StartRotation, Rotators
  <2>5. CASE SchedulerRelease(i)
    BY <2>5 DEF SchedulerRelease
  <2> QED BY <1>7, <2>1, <2>2, <2>3, <2>4, <2>5 DEF Scheduling
<1>8. ASSUME NEW i \in Instances, PollHead(i) PROVE TypeOK'
  BY <1>8 DEF PollHead, KeystoreExists, Keystore
<1>9. ASSUME NEW i \in Instances, PollReload(i) PROVE TypeOK'
  BY <1>9 DEF PollReload
<1>10. ASSUME NEW i \in Instances, Restart(i) PROVE TypeOK'
  BY <1>10, EmptySeq DEF Restart, NoRotation, Rotators, Keystore
<1>11. CASE GrowOld
  BY <1>11 DEF GrowOld
<1>12. CASE LockExpires
  BY <1>12 DEF LockExpires
<1>13. CASE UNCHANGED vars
  BY <1>13 DEF vars
<1> QED BY <1>1, <1>2, <1>3, <1>4, <1>5, <1>6, <1>7, <1>8, <1>9, <1>10, <1>11, <1>12, <1>13
        DEF Next, Rotation, Boot, Polling

\* No action empties the vault, and an instance is up only once it has a keystore.
LEMMA KeystoreStays == TypeOK /\ KeystoreExists /\ [Next]_vars => KeystoreExists'
<1> SUFFICES ASSUME TypeOK, KeystoreExists, [Next]_vars PROVE KeystoreExists'
  OBVIOUS
<1> USE DEF TypeOK, KeystoreExists, Up
<1>1. ASSUME NEW r \in Rotators, RotateWrite(r) PROVE KeystoreExists'
  <2>1. rot[r].keys \in Keystore /\ rot[r].keep \in Nat \ {0}
    BY ConstantsAssumption
  <2>2. vault' # <<>>
    BY <1>1, <2>1, FreshIsKey, Truncation DEF RotateWrite
  <2> QED BY <2>2
<1>2. ASSUME NEW i \in Instances, BootWrite(i) PROVE KeystoreExists'
  BY <1>2 DEF BootWrite
<1>3. ASSUME NEW i \in Instances, BootRead(i) PROVE KeystoreExists'
  BY <1>3 DEF BootRead
<1>4. ASSUME NEW i \in Instances, Restart(i) PROVE KeystoreExists'
  BY <1>4 DEF Restart
<1>5. ASSUME UNCHANGED <<vault, phase, env>> PROVE KeystoreExists'
  BY <1>5
<1>6. ASSUME NEW r \in Rotators, RotateNow(r) \/ RotateRead(r) PROVE UNCHANGED <<vault, phase, env>>
  BY <1>6 DEF RotateNow, RotateRead
<1>7. ASSUME NEW i \in Instances, RotateReload(i) \/ Scheduling(i) \/ Polling(i)
      PROVE  UNCHANGED <<vault, phase, env>>
  BY <1>7 DEF RotateReload, Scheduling, SchedulerTick, SchedulerLock, SchedulerRecheck,
    SchedulerRotate, SchedulerRelease, Polling, PollHead, PollReload
<1>8. GrowOld \/ LockExpires \/ UNCHANGED vars => UNCHANGED <<vault, phase, env>>
  BY DEF GrowOld, LockExpires, vars
<1> QED BY <1>1, <1>2, <1>3, <1>4, <1>5, <1>6, <1>7, <1>8 DEF Next, Rotation, Boot

\* With the scheduler alone, whoever rotates holds the lock; so nothing it read
\* changes before it writes.
LEMMA SerialStays == IInv /\ Unattended /\ [Next]_vars => Serial'
<1> SUFFICES ASSUME TypeOK, KeystoreExists, Unattended, Serial, [Next]_vars PROVE Serial'
  BY DEF IInv
<1> USE ConstantsAssumption DEF TypeOK, Serial
<1>1. ASSUME NEW r \in Rotators, RotateNow(r) PROVE Serial'
  BY <1>1 DEF RotateNow, Happens, Unattended
<1>2. ASSUME NEW r \in Rotators, RotateRead(r) PROVE Serial'
  BY <1>2 DEF RotateRead, Rotators
<1>3. ASSUME NEW r \in Rotators, RotateWrite(r) PROVE Serial'
  <2>1. r \in Instances /\ sched[r] = "rotating" /\ lock = r /\ r \notin Cli
    BY <1>3 DEF RotateWrite, Rotators
  <2>2. \A i \in Instances \ {r} : /\ sched[i] \notin {"locked", "checked", "rotating", "release"}
                                   /\ rot[i].pc = "idle" /\ rot'[i] = rot[i]
    BY <1>3, <2>1 DEF RotateWrite, Rotators
  <2>3. rot'[r].pc = "reload" /\ sched' = sched /\ lock' = lock /\ phase' = phase
    BY <1>3, <2>1 DEF RotateWrite, Rotators
  <2>4. \A c \in Cli : rot'[c] = rot[c]
    BY <1>3, <2>1 DEF RotateWrite, Rotators
  <2> QED BY <2>1, <2>2, <2>3, <2>4
<1>4. ASSUME NEW i \in Instances, BootRead(i) PROVE Serial'
  BY <1>4 DEF BootRead, KeystoreExists, Unattended
<1>5. ASSUME NEW i \in Instances, BootWrite(i) PROVE Serial'
  BY <1>5 DEF BootWrite
<1>6. ASSUME NEW i \in Instances, RotateReload(i) PROVE Serial'
  BY <1>6 DEF RotateReload, Rotators, NoRotation
<1>7. ASSUME NEW i \in Instances, SchedulerTick(i) PROVE Serial'
  BY <1>7 DEF SchedulerTick
<1>8. ASSUME NEW i \in Instances, SchedulerLock(i) PROVE Serial'
  BY <1>8 DEF SchedulerLock, Unattended
<1>9. ASSUME NEW i \in Instances, SchedulerRecheck(i) PROVE Serial'
  BY <1>9 DEF SchedulerRecheck
<1>10. ASSUME NEW i \in Instances, SchedulerRotate(i) PROVE Serial'
  BY <1>10 DEF SchedulerRotate, StartRotation, Rotators
<1>11. ASSUME NEW i \in Instances, SchedulerRelease(i) PROVE Serial'
  BY <1>11 DEF SchedulerRelease
<1>12. ASSUME NEW i \in Instances, Polling(i) PROVE Serial'
  BY <1>12 DEF Polling, PollHead, PollReload
<1>13. ASSUME NEW i \in Instances, Restart(i) PROVE Serial'
  BY <1>13 DEF Restart, NoRotation, Rotators
<1>14. CASE GrowOld
  BY <1>14 DEF GrowOld
<1>15. CASE LockExpires
  BY <1>15 DEF LockExpires, Unattended
<1>16. CASE UNCHANGED vars
  BY <1>16 DEF vars
<1> QED BY <1>1, <1>2, <1>3, <1>4, <1>5, <1>6, <1>7, <1>8, <1>9, <1>10, <1>11, <1>12, <1>13,
          <1>14, <1>15, <1>16 DEF Next, Rotation, Boot, Scheduling

-----------------------------------------------------------------------------
\* The strengthening holds in every reachable state (KeystoreManager, OidcService,
\* KeyRotationScheduler, makeSingleFlightLock, KeystoreReloadPoller).
THEOREM InductiveInvariant == Spec => []IInv
<1>1. IInv /\ [Next]_vars => IInv'
  <2> SUFFICES ASSUME IInv, [Next]_vars PROVE IInv'
    OBVIOUS
  <2>1. Unattended' => Unattended
    BY DEF Next, Unattended, RotateNow, Rotation, RotateRead, RotateWrite, Boot, BootRead, BootWrite,
      RotateReload, Scheduling, SchedulerTick, SchedulerLock, SchedulerRecheck, SchedulerRotate,
      SchedulerRelease, Polling, PollHead, PollReload, Restart, GrowOld, LockExpires, vars
  <2> QED BY <2>1, TypePreserved, KeystoreStays, SerialStays DEF IInv
<1> QED BY InitInv, <1>1, PTL DEF Spec

\* Every variable keeps its type: whatever is persisted, loaded or in flight is a
\* keystore of numbered keys.
THEOREM TypeCorrect == Spec => []TypeOK
BY InductiveInvariant, PTL DEF IInv

\* A scheduled rotation keeps behind its new key the keys that were there, whatever
\* instances die while they rotate (KeystoreManager.rotate under makeSingleFlightLock).
THEOREM NoLostRotationHolds == Spec => NoLostRotation
<1>1. ASSUME IInv, [Next]_vars, Unattended, vault' # vault
      PROVE  Tail(vault') = SubSeq(vault, 1, Len(vault') - 1)
  <2>1. PICK r \in Rotators : RotateWrite(r)
    <3>1. ASSUME NEW i \in Instances PROVE ~BootWrite(i)
      BY <1>1 DEF IInv, Serial, BootWrite
    <3> QED BY <1>1, <3>1 DEF Next, RotateNow, Rotation, RotateRead, Boot, BootRead,
          RotateReload, Scheduling, SchedulerTick, SchedulerLock, SchedulerRecheck,
          SchedulerRotate, SchedulerRelease, Polling, PollHead, PollReload, Restart, GrowOld,
          LockExpires, vars
  <2>2. rot[r].keys = vault
    BY <1>1, <2>1 DEF IInv, Serial, RotateWrite, Rotators
  <2>3. vault \in Keystore /\ rot[r].keep \in Nat \ {0}
    BY <1>1, ConstantsAssumption DEF IInv, TypeOK
  <2>4. vault' = Truncate(<<Fresh>> \o vault, rot[r].keep)
    BY <2>1, <2>2 DEF RotateWrite
  <2> QED BY <2>3, <2>4, FreshIsKey, Truncation
<1> QED BY <1>1, InductiveInvariant, PTL DEF Spec, NoLostRotation

\* The key that a scheduled rotation replaces is still old when it writes
\* (KeyRotationScheduler.tick, the check inside the lock).
THEOREM RotatesOnlyOldKeyHolds == Spec => RotatesOnlyOldKey
<1>1. IInv => (Unattended => \A i \in Instances :
        (sched[i] = "rotating" /\ rot[i].pc = "write" /\ vault' # vault
           /\ rot'[i].pc # "write") => aged)
  BY DEF IInv, Serial
<1> QED BY <1>1, InductiveInvariant, PTL DEF RotatesOnlyOldKey
===============================================================================
