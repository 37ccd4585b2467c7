---------------------------- MODULE MCUtxoIndex ----------------------------
(***************************************************************************)
(* Blocks and transactions for the runs of UtxoIndex.                      *)
(*                                                                         *)
(*      g --- a1 --- a2             kg, k1, ka, kb, k3: the coinbases       *)
(*               \-- b2 --- b3      t spends kg, u and w spend k1,          *)
(*                                  x spends k1 and is never mined,         *)
(*                                  y spends kg and k1                      *)
(***************************************************************************)
EXTENDS UtxoIndex

Tree == {"g", "a1", "a2", "b2", "b3"}
TreeParent == [b \in Tree \ {"g"} |->
  CASE b = "a1" -> "g" [] b = "b3" -> "b2" [] OTHER -> "a1"]
Line == {"g", "a1", "a2"}
LineParent == [b \in Line \ {"g"} |-> IF b = "a1" THEN "g" ELSE "a1"]

TxInputs == [t \in {"kg", "k1", "ka", "kb", "k3", "t", "u", "w", "x", "y"} |->
  CASE t = "t" -> <<"kg">>
    [] t \in {"u", "w", "x"} -> <<"k1">>
    [] t = "y" -> <<"kg", "k1">>
    [] OTHER -> <<>>]
TxOutputs == [t \in DOMAIN TxInputs |-> {t}]

\* t is mined in both branches, u only in the shorter one.
TreeTxs == [b \in Tree |->
  CASE b = "g" -> <<"kg">> [] b = "a1" -> <<"k1">>
    [] b = "a2" -> <<"ka", "t", "u">> [] b = "b2" -> <<"kb", "t">>
    [] OTHER -> <<"k3", "w">>]
LineTxs == [b \in Line |-> TreeTxs[b]]

\* A block with a transaction of two inputs.
WideTxs == [b \in Line |->
  CASE b = "g" -> <<"kg">> [] b = "a1" -> <<"k1">> [] OTHER -> <<"ka", "y">>]

QuietPoints == {"idle", "begin", "askGenesis", "ask", "add"}
StorePoints == {"store", "link", "import", "processed"}
RollbackPoints == {"reorg", "unspend"}
StoreAndQuiet == QuietPoints \cup StorePoints
=============================================================================
