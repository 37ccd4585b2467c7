---------------------------- MODULE RoundBarrier ----------------------------
(***************************************************************************)
(* What a threshold session promises its parties: the messages of a round  *)
(* come from Size parties, one from each, the same parties in every round, *)
(* and nobody is in a round before the one before it is complete.          *)
(***************************************************************************)
EXTENDS Naturals, FiniteSets

CONSTANTS Parties, Size, Rounds

VARIABLE sent   \* round -> the parties whose message of it is stored

Complete(r) == Cardinality(sent[r]) = Size

Init == sent = [r \in 0..Rounds - 1 |-> {}]

Send(p, r) ==
  /\ p \notin sent[r] /\ ~ Complete(r)
  /\ \A earlier \in 0..r - 1 : Complete(earlier) /\ p \in sent[earlier]
  /\ sent' = [sent EXCEPT ![r] = @ \cup {p}]

Next == \E p \in Parties, r \in 0..Rounds - 1 : Send(p, r)

Spec == Init /\ [][Next]_sent
=============================================================================
