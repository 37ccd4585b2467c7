------------------------------- MODULE Ledger -------------------------------
(***************************************************************************)
(* What the block index of bitcore-node promises: its tip follows the tree *)
(* of blocks the peers know.  The tip appears at the genesis block, moves  *)
(* to a child of itself, or falls back to a block below it (or to nothing  *)
(* when a reorganisation reaches the genesis block).  The operators say    *)
(* what a chain of blocks confirms; UtxoIndex compares its three           *)
(* collections with them and implements the specification at the end.      *)
(***************************************************************************)
EXTENDS Integers, Sequences

CONSTANTS
  Blocks,        \* hashes of the blocks the peers know
  Genesis,       \* the block of height 0
  Parent,        \* header.prevHash of every other block
  BlockTxs,      \* the transactions of a block, in their order
  Inputs,        \* the outpoints a transaction spends, in their order
  Outputs,       \* the outpoints a transaction creates
  NoBlock        \* stands for an empty index

VARIABLE tip     \* the highest block of the index, or NoBlock

\* The chain that ends in b, from the genesis block on.
ChainOf[b \in Blocks] ==
  IF b = Genesis THEN <<b>> ELSE Append(ChainOf[Parent[b]], b)

Height(b) == Len(ChainOf[b]) - 1

Chain(b) ==
  IF b = NoBlock THEN {} ELSE {ChainOf[b][i] : i \in 1..Len(ChainOf[b])}

TxsOf(b) == {BlockTxs[b][i] : i \in 1..Len(BlockTxs[b])}
Spends(t) == {Inputs[t][i] : i \in 1..Len(Inputs[t])}

\* Height at which the chain that ends in b confirms a transaction, mints a
\* coin, spends a coin: sets that hold one height or none.
ConfirmedAt(b, t) == {Height(d) : d \in {e \in Chain(b) : t \in TxsOf(e)}}
MintedAt(b, c) ==
  {Height(d) : d \in {e \in Chain(b) : \E t \in TxsOf(e) : c \in Outputs[t]}}
SpentAt(b, c) ==
  {<<Height(p[1]), p[2]>> : p \in
    {q \in Chain(b) \X DOMAIN Inputs : q[2] \in TxsOf(q[1]) /\ c \in Spends(q[2])}}
-----------------------------------------------------------------------------
Init == tip = NoBlock

Extend ==
  \E b \in Blocks :
    /\ IF tip = NoBlock THEN b = Genesis ELSE b # Genesis /\ Parent[b] = tip
    /\ tip' = b

Rollback ==
  /\ tip # NoBlock
  /\ tip' \in (Chain(tip) \cup {NoBlock}) \ {tip}

Next == Extend \/ Rollback

Spec == Init /\ [][Next]_tip
=============================================================================
