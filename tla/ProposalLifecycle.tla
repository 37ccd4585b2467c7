------------------------- MODULE ProposalLifecycle -------------------------
(***************************************************************************)
(* The life a transaction proposal is meant to have.  It is created as a   *)
(* draft; publishing it reserves its inputs, which no other live proposal  *)
(* may hold; the copayers accept or reject it; an accepted proposal is     *)
(* broadcasted; a live one may be removed, for good.                       *)
(***************************************************************************)
CONSTANTS Txps, Inputs

VARIABLES
  stage,    \* where each proposal is in its life
  reserved  \* the inputs each proposal is about

Holding == {"pending", "accepted", "broadcasted"}
Live == {"pending", "accepted"}

Init ==
  /\ stage = [t \in Txps |-> "none"]
  /\ reserved = [t \in Txps |-> {}]

Move(t, from, to) ==
  /\ stage[t] = from
  /\ stage' = [stage EXCEPT ![t] = to]

Create(t) ==
  /\ Move(t, "none", "temporary")
  /\ \E ins \in SUBSET Inputs : reserved' = [reserved EXCEPT ![t] = ins]

Publish(t) ==
  /\ Move(t, "temporary", "pending")
  /\ \A u \in Txps \ {t} :
       stage[u] \in Holding => reserved[t] \cap reserved[u] = {}
  /\ UNCHANGED reserved

Decide(t) ==
  /\ Move(t, "pending", "accepted") \/ Move(t, "pending", "rejected")
  /\ UNCHANGED reserved

Broadcast(t) ==
  /\ Move(t, "accepted", "broadcasted")
  /\ UNCHANGED reserved

Remove(t) ==
  /\ \E live \in Live : Move(t, live, "removed")
  /\ reserved' = [reserved EXCEPT ![t] = {}]

Next ==
  \E t \in Txps : Create(t) \/ Publish(t) \/ Decide(t) \/ Broadcast(t) \/ Remove(t)

Spec == Init /\ [][Next]_<<stage, reserved>>
=============================================================================
