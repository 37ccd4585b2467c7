--------------------------- MODULE MCTxProposals ---------------------------
(* Small instances of TxProposals for TLC. *)
EXTENDS TxProposals, TLC

Symmetry ==
  Permutations(Copayers) \cup Permutations(Txps)
    \cup Permutations(Inputs) \cup Permutations(Requests)

RacingOps == AllOps \ {"list"}
VotingOps == {"create", "publish", "sign", "reject"}
=============================================================================
