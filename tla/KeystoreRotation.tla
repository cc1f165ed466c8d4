-------------------------- MODULE KeystoreRotation --------------------------
(***************************************************************************)
(* The managed signing keystore shared by several instances of the server: *)
(* the vault, KeystoreManager (ensure, rotate), the age-based scheduler    *)
(* under its single-flight lock, rotation on demand (admin endpoint or the *)
(* keys:rotate command) and the poller that propagates rotations.          *)
(*                                                                         *)
(* A keystore is the sequence of its keys, the signing key first; a key is *)
(* numbered by the write that created it, so the first key also stands for *)
(* the head token of the vault (mtime, updated_at or blob), which changes  *)
(* with every write.  The vault is read and written by separate calls.     *)
(***************************************************************************)
EXTENDS Integers, Sequences, FiniteSets

CONSTANTS
  Instances,   \* web processes: they sign, verify, schedule and poll
  Cli,         \* processes of the keys:rotate command: they only rotate
  Keep,        \* keys kept by a rotation
  MaxEvents,   \* bound on rotations asked for, keys growing old and restarts
  Scenarios,   \* each a set of EnvEvents that may happen in one behaviour
  None,
  Dead         \* holder of the lock that died without releasing it

\* empty: the vault holds no keystore before the first boot; noLock: no lock provider
EnvEvents == {"age", "manual", "reloadFails", "lockExpires", "restart", "empty", "noLock"}

ASSUME ConstantsAssumption ==
  /\ Keep \in Nat \ {0} /\ MaxEvents \in Nat    \* rotate keeps Math.max(1, keep)
  /\ Scenarios \subseteq SUBSET EnvEvents
  /\ {None, Dead} \cap Instances = {} /\ None # Dead
  /\ Instances \cap Cli = {}

Rotators == Instances \cup Cli

VARIABLES
  vault,    \* the persisted keystore, <<>> when there is none
  aged,     \* whether its signing key is older than maxAgeDays
  phase,    \* boot of each instance: "down", "ensure" or "up"
  loaded,   \* keystore an instance signs and publishes its JWKS with
  last,     \* head last seen by the poller of an instance, 0 when undefined
  poll,     \* "idle" or "reload"
  lock,     \* holder of the single-flight lock
  sched,    \* tick of the scheduler of each instance
  rot,      \* rotation in flight of each process (#rotateChain: at most one)
  events,
  env       \* the scenario of this behaviour

vars == <<vault, aged, phase, loaded, last, poll, lock, sched, rot, events, env>>

Keystore == Seq(Nat \ {0})
NoRotation == [pc |-> "idle", keep |-> 1, keys |-> <<>>]

TypeOK ==
  /\ vault \in Keystore
  /\ aged \in BOOLEAN
  /\ phase \in [Instances -> {"down", "ensure", "up"}]
  /\ loaded \in [Instances -> Keystore]
  /\ last \in [Instances -> Nat]
  /\ poll \in [Instances -> {"idle", "reload"}]
  /\ lock \in Instances \cup {None, Dead}
  /\ sched \in [Instances -> {"idle", "aged", "locked", "checked", "rotating",
                              "release"}]
  /\ rot \in [Rotators -> [pc : {"idle", "read", "write", "reload"},
                           keep : {1, Keep}, keys : Keystore]]
  /\ events \in 0 .. MaxEvents
  /\ env \in Scenarios

Init ==
  /\ env \in Scenarios
  /\ vault = IF "empty" \in env THEN <<>> ELSE <<1>>
  /\ aged = FALSE
  /\ phase = [i \in Instances |-> "down"]
  /\ loaded = [i \in Instances |-> <<>>]
  /\ last = [i \in Instances |-> 0]
  /\ poll = [i \in Instances |-> "idle"]
  /\ lock = None
  /\ sched = [i \in Instances |-> "idle"]
  /\ rot = [r \in Rotators |-> NoRotation]
  /\ events = 0

Up(i) == phase[i] = "up"
\* variant: the first key has no identifier
FreshFromZero == IF vault = <<>> THEN 0 ELSE vault[1] + 1

Fresh == IF vault = <<>> THEN 1 ELSE vault[1] + 1
Truncate(keys, n) == SubSeq(keys, 1, IF Len(keys) < n THEN Len(keys) ELSE n)

Happens(event) ==
  event \in env /\ events < MaxEvents /\ events' = events + 1

-----------------------------------------------------------------------------
(* Boot: ensure() reads the vault, and writes a first key when it is empty. *)

BootRead(i) ==
  /\ phase[i] = "down"
  /\ IF vault = <<>>
     THEN phase' = [phase EXCEPT ![i] = "ensure"] /\ UNCHANGED loaded
     ELSE /\ phase' = [phase EXCEPT ![i] = "up"]
          /\ loaded' = [loaded EXCEPT ![i] = vault]
  /\ UNCHANGED <<vault, aged, last, poll, lock, sched, rot, events, env>>

BootWrite(i) ==
  /\ phase[i] = "ensure"
  /\ vault' = <<Fresh>>
  /\ aged' = FALSE
  /\ phase' = [phase EXCEPT ![i] = "up"]
  /\ loaded' = [loaded EXCEPT ![i] = <<Fresh>>]
  /\ UNCHANGED <<last, poll, lock, sched, rot, events, env>>

-----------------------------------------------------------------------------
(* Rotation: OidcService.rotateKeys and KeystoreManager.rotate.            *)

StartRotation(r, keep) ==
  /\ rot[r].pc = "idle"
  /\ rot' = [rot EXCEPT ![r] = [pc |-> "read", keep |-> keep, keys |-> <<>>]]

\* the admin endpoint of an instance, or the command, whose configuration runs
\* ensure() before it rotates
RotateNow(r) ==
  /\ Happens("manual")
  /\ r \in Instances => Up(r)
  /\ vault # <<>>
  /\ \E keep \in {1, Keep} : StartRotation(r, keep)
  /\ UNCHANGED <<vault, aged, phase, loaded, last, poll, lock, sched, env>>

RotateRead(r) ==
  /\ rot[r].pc = "read"
  /\ rot' = [rot EXCEPT ![r].pc = "write", ![r].keys = vault]
  /\ UNCHANGED <<vault, aged, phase, loaded, last, poll, lock, sched, events, env>>

RotateWrite(r) ==
  /\ rot[r].pc = "write"
  /\ vault' = Truncate(<<Fresh>> \o rot[r].keys, rot[r].keep)
  /\ aged' = FALSE
  /\ rot' = [rot EXCEPT ![r] =
       IF r \in Cli THEN NoRotation ELSE [rot[r] EXCEPT !.pc = "reload"]]
  /\ UNCHANGED <<phase, loaded, last, poll, lock, sched, events, env>>

\* reloadKeys after a rotation; the vault may fail to answer
RotateReload(i) ==
  /\ rot[i].pc = "reload"
  /\ \/ loaded' = [loaded EXCEPT ![i] = vault] /\ UNCHANGED events
     \/ Happens("reloadFails") /\ UNCHANGED loaded
  /\ rot' = [rot EXCEPT ![i] = NoRotation]
  /\ sched' = IF sched[i] = "rotating" THEN [sched EXCEPT ![i] = "release"]
              ELSE sched
  /\ UNCHANGED <<vault, aged, phase, last, poll, lock, env>>

-----------------------------------------------------------------------------
(* The scheduler: KeyRotationScheduler.tick under makeSingleFlightLock.    *)

SchedulerTick(i) ==
  /\ Up(i) /\ sched[i] = "idle" /\ aged
  /\ sched' = [sched EXCEPT ![i] = "aged"]
  /\ UNCHANGED <<vault, aged, phase, loaded, last, poll, lock, rot, events, env>>

\* variant: rotates whether or not the lock was free
SchedulerLockIgnored(i) ==
  /\ sched[i] = "aged"
  /\ lock' = i
  /\ sched' = [sched EXCEPT ![i] = "locked"]
  /\ UNCHANGED <<vault, aged, phase, loaded, last, poll, rot, events, env>>

SchedulerLock(i) ==
  /\ sched[i] = "aged"
  /\ \/ "noLock" \in env /\ UNCHANGED lock /\ sched' = [sched EXCEPT ![i] = "locked"]
     \/ /\ "noLock" \notin env /\ lock = None
        /\ lock' = i /\ sched' = [sched EXCEPT ![i] = "locked"]
     \/ /\ "noLock" \notin env /\ lock # None
        /\ UNCHANGED lock /\ sched' = [sched EXCEPT ![i] = "idle"]
  /\ UNCHANGED <<vault, aged, phase, loaded, last, poll, rot, events, env>>

\* variant: trusts the age read before the lock
SchedulerRecheckSkipped(i) ==
  /\ sched[i] = "locked"
  /\ sched' = [sched EXCEPT ![i] = "checked"]
  /\ UNCHANGED <<vault, aged, phase, loaded, last, poll, lock, rot, events, env>>

SchedulerRecheck(i) ==
  /\ sched[i] = "locked"
  /\ sched' = [sched EXCEPT ![i] = IF aged THEN "checked" ELSE "release"]
  /\ UNCHANGED <<vault, aged, phase, loaded, last, poll, lock, rot, events, env>>

SchedulerRotate(i) ==
  /\ sched[i] = "checked"
  /\ StartRotation(i, Keep)
  /\ sched' = [sched EXCEPT ![i] = "rotating"]
  /\ UNCHANGED <<vault, aged, phase, loaded, last, poll, lock, events, env>>

\* variant: forgets to release
SchedulerReleaseForgotten(i) ==
  /\ sched[i] = "release"
  /\ sched' = [sched EXCEPT ![i] = "idle"]
  /\ UNCHANGED <<vault, aged, phase, loaded, last, poll, lock, rot, events, env>>

SchedulerRelease(i) ==
  /\ sched[i] = "release"
  /\ lock' = IF lock = i THEN None ELSE lock
  /\ sched' = [sched EXCEPT ![i] = "idle"]
  /\ UNCHANGED <<vault, aged, phase, loaded, last, poll, rot, events, env>>

-----------------------------------------------------------------------------
(* The poller: KeystoreReloadPoller.tick.                                  *)

\* variant: notes the new head and does not reload
PollHeadOnly(i) ==
  /\ Up(i) /\ poll[i] = "idle" /\ last[i] # vault[1]
  /\ last' = [last EXCEPT ![i] = vault[1]]
  /\ UNCHANGED <<vault, aged, phase, loaded, poll, lock, sched, rot, events, env>>

PollHead(i) ==
  /\ Up(i) /\ poll[i] = "idle" /\ last[i] # vault[1]
  /\ last' = [last EXCEPT ![i] = vault[1]]
  /\ poll' = [poll EXCEPT ![i] = IF last[i] = 0 THEN "idle" ELSE "reload"]
  /\ UNCHANGED <<vault, aged, phase, loaded, lock, sched, rot, events, env>>

PollReload(i) ==
  /\ poll[i] = "reload"
  /\ \/ loaded' = [loaded EXCEPT ![i] = vault] /\ UNCHANGED events
     \/ Happens("reloadFails") /\ UNCHANGED loaded
  /\ poll' = [poll EXCEPT ![i] = "idle"]
  /\ UNCHANGED <<vault, aged, phase, last, lock, sched, rot, env>>

-----------------------------------------------------------------------------
(* The environment.                                                        *)

\* the signing key grows older than maxAgeDays
GrowOld ==
  /\ Happens("age")
  /\ vault # <<>> /\ ~aged
  /\ aged' = TRUE
  /\ UNCHANGED <<vault, phase, loaded, last, poll, lock, sched, rot, env>>

\* the lock's TTL runs out: its holder died, or is slower than the TTL
LockExpires ==
  /\ lock # None
  /\ lock = Dead \/ "lockExpires" \in env
  /\ lock' = None
  /\ UNCHANGED <<vault, aged, phase, loaded, last, poll, sched, rot, events, env>>

Restart(i) ==
  /\ Happens("restart")
  /\ phase[i] # "down"
  /\ phase' = [phase EXCEPT ![i] = "down"]
  /\ loaded' = [loaded EXCEPT ![i] = <<>>]
  /\ last' = [last EXCEPT ![i] = 0]
  /\ poll' = [poll EXCEPT ![i] = "idle"]
  /\ sched' = [sched EXCEPT ![i] = "idle"]
  /\ rot' = [rot EXCEPT ![i] = NoRotation]
  /\ lock' = IF lock = i THEN Dead ELSE lock
  /\ UNCHANGED <<vault, aged, env>>

Boot(i) == BootRead(i) \/ BootWrite(i)
Rotation(r) == RotateRead(r) \/ RotateWrite(r)
Scheduling(i) ==
  \/ SchedulerTick(i) \/ SchedulerLock(i) \/ SchedulerRecheck(i)
  \/ SchedulerRotate(i) \/ SchedulerRelease(i)
Polling(i) == PollHead(i) \/ PollReload(i)

Next ==
  \/ \E r \in Rotators : RotateNow(r) \/ Rotation(r)
  \/ \E i \in Instances :
       \/ Boot(i) \/ RotateReload(i) \/ Scheduling(i) \/ Polling(i) \/ Restart(i)
  \/ GrowOld
  \/ LockExpires

Spec == Init /\ [][Next]_vars

\* timers fire again and again, and a promise that was started settles
Fairness ==
  /\ \A r \in Rotators : WF_vars(Rotation(r))
  /\ \A i \in Instances :
       /\ WF_vars(Boot(i)) /\ WF_vars(RotateReload(i))
       /\ WF_vars(Scheduling(i)) /\ WF_vars(Polling(i))
  /\ WF_vars(LockExpires)

FairSpec == Spec /\ Fairness

-----------------------------------------------------------------------------
(* Properties.                                                             *)

\* Only the scheduler rotates, over a keystore that exists, there is a lock and no
\* holder outlives its TTL: nothing else takes the lock before it rotates.
Unattended == env \cap {"manual", "lockExpires", "empty", "noLock"} = {}

\* A write to the vault never drops a key that another rotation wrote since the
\* keystore was read: what follows the new key is what was there before, so every
\* replaced key keeps its grace period (rotate, makeSingleFlightLock).
NoLostRotation ==
  [][(Unattended /\ vault' # vault) =>
       Tail(vault') = SubSeq(vault, 1, Len(vault') - 1)]_vars

\* The scheduler replaces a key only if it is still old when it writes: instances
\* that saw the same old key do not rotate twice (re-check inside the lock).
RotatesOnlyOldKey ==
  [][Unattended => \A i \in Instances :
       (sched[i] = "rotating" /\ rot[i].pc = "write" /\ vault' # vault
          /\ rot'[i].pc # "write") => aged]_vars

\* A key that grew old is replaced, whichever instances restart or die while
\* they hold the lock, and without a lock as well.
OldKeyIsReplaced == aged ~> ~aged

\* A keystore whose head differs from the one an instance's poller last saw is
\* loaded by that instance, unless it restarts (and loads it at boot) or its vault
\* fails to answer.
PropagatesAfterBaseline ==
  \A i \in Instances :
    ("reloadFails" \notin env /\ Up(i) /\ last[i] # 0 /\ last[i] # vault[1]) ~> (~Up(i) \/ loaded[i] = vault)

\* "propagates rotations made by another process or instance without restart"
\* (comment of KeystoreReloadPoller): once nothing more is rotated, every
\* instance signs with the keystore of the vault.
EverywhereTheSame ==
  <>[](\A i \in Instances : Up(i) => loaded[i] = vault)
=============================================================================
