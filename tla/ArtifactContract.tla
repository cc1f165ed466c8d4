--------------------------- MODULE ArtifactContract ---------------------------
(* What oidc-provider and the admin services rely on when they hand a session, *)
(* a code or a token to an adapter (adapters/adapter_contract.ts): one atomic  *)
(* store in which nothing comes back unless it is saved again.                 *)
EXTENDS Naturals

CONSTANT Ids

VARIABLES life,     \* what a look-up of the id finds: nothing, an artifact, an expired row
          used,     \* whether the artifact carries its consumed mark
          saves     \* how many times the id was saved

vars == <<life, used, saves>>

Lives == {"absent", "live", "lapsed"}

TypeOK ==
  /\ life \in [Ids -> Lives]
  /\ used \in [Ids -> BOOLEAN]
  /\ saves \in [Ids -> Nat]

Init ==
  /\ life = [id \in Ids |-> "absent"]
  /\ used = [id \in Ids |-> FALSE]
  /\ saves = [id \in Ids |-> 0]

\* Only a save makes an artifact out of nothing, and only a save clears the mark. A call
\* that takes as long as the lifetime it grants leaves an expired row.
Save(id) ==
  /\ \E l \in {"live", "lapsed"} : life' = [life EXCEPT ![id] = l]
  /\ used' = [used EXCEPT ![id] = FALSE]
  /\ saves' = [saves EXCEPT ![id] = @ + 1]

\* What is consumed must be there.
Consume(id) ==
  /\ life[id] # "absent"
  /\ used' = [used EXCEPT ![id] = TRUE]
  /\ UNCHANGED <<life, saves>>

\* "never recreate revoked records": what is renewed must be there. A renewal that
\* began before the expiry may end after it.
Renew(id) ==
  /\ life[id] # "absent"
  /\ \E l \in {"live", "lapsed"} : life' = [life EXCEPT ![id] = l]
  /\ UNCHANGED <<used, saves>>

Lapse(S) ==
  /\ \A id \in S : life[id] = "live"
  /\ life' = [id \in Ids |-> IF id \in S THEN "lapsed" ELSE life[id]]
  /\ UNCHANGED <<used, saves>>

\* Logout, revocation, expiry and pruning.
Remove(S) ==
  /\ life' = [id \in Ids |-> IF id \in S THEN "absent" ELSE life[id]]
  /\ used' = [id \in Ids |-> IF id \in S THEN FALSE ELSE used[id]]
  /\ UNCHANGED saves

Next ==
  \/ \E id \in Ids : Save(id) \/ Consume(id) \/ Renew(id)
  \/ \E S \in SUBSET Ids : Lapse(S) \/ Remove(S)

Spec == Init /\ [][Next]_vars
===============================================================================
