--------------------------- MODULE MultisigSpend ---------------------------
(***************************************************************************)
(* What a multisig wallet promises: an output is spent only by a payment   *)
(* that enough copayers have approved, and only once.                      *)
(***************************************************************************)

CONSTANTS
  Copayers, Txps, Inputs,
  Quorums      \* the sets of copayers that may spend together

VARIABLES
  approvals,  \* who approved which proposal
  spent       \* the payments the network has taken

Payment == [txp : Txps, inputs : SUBSET Inputs, signers : SUBSET Copayers]

Init == approvals = {} /\ spent = {}

Approve(c, t) ==
  /\ approvals' = approvals \cup {[txp |-> t, who |-> c]}
  /\ UNCHANGED spent

Spend(p) ==
  /\ p.signers \in Quorums
  /\ \A c \in p.signers : [txp |-> p.txp, who |-> c] \in approvals
  /\ \A q \in spent : p.inputs \cap q.inputs = {}
  /\ spent' = spent \cup {p}
  /\ UNCHANGED approvals

Next ==
  \/ \E c \in Copayers, t \in Txps : Approve(c, t)
  \/ \E p \in Payment : Spend(p)

Spec == Init /\ [][Next]_<<approvals, spent>>
=============================================================================
