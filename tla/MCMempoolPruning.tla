-------------------------- MODULE MCMempoolPruning --------------------------
(***************************************************************************)
(*      g --- a1 --- a2 --- a3     k1, ka, kb, k3: coinbases, kg has two    *)
(*               \-- b2            x and u spend k1: u is mined in a2, x in *)
(*                                 b2; z spends x and one output of g.      *)
(* x and z are relayed.  In LongFork b2 goes on with b3 and b4.             *)
(***************************************************************************)
EXTENDS MempoolPruning

Tree == {"g", "a1", "a2", "a3", "b2"}
TreeParent == [b \in Tree \ {"g"} |->
  CASE b = "a1" -> "g" [] b = "a3" -> "a2" [] OTHER -> "a1"]
TxInputs == [t \in {"kg", "k1", "ka", "kb", "k3", "u", "x", "z"} |->
  CASE t \in {"u", "x"} -> <<"k1">>
    [] t = "z" -> <<"x", "kh">>
    [] OTHER -> <<>>]
TxOutputs == [t \in DOMAIN TxInputs |-> IF t = "kg" THEN {"kg", "kh"} ELSE {t}]
TreeTxs == [b \in Tree |->
  CASE b = "g" -> <<"kg">> [] b = "a1" -> <<"k1">>
    [] b = "a2" -> <<"ka", "u">> [] b = "b2" -> <<"kb", "x">> [] OTHER -> <<"k3">>]
LongFork == Tree \cup {"b3", "b4"}
ForkParent == [b \in LongFork \ {"g"} |->
  CASE b = "b3" -> "b2" [] b = "b4" -> "b3" [] OTHER -> TreeParent[b]]
ForkTxs == [b \in LongFork |-> IF b \in Tree THEN TreeTxs[b] ELSE <<>>]

\* The index has been synced up to a1, and nothing is in the mempool yet.
SyncedInit ==
  /\ blocks = [b \in Blocks |->
       CASE b = "g" -> [height |-> 0, next |-> "a1", processed |-> TRUE]
         [] b = "a1" -> [height |-> 1, next |-> NoBlock, processed |-> TRUE]
         [] OTHER -> NoDoc]
  /\ coins = [c \in Coins |->
       IF c \in {"kg", "kh", "k1"}
       THEN [mint |-> IF c = "k1" THEN 1 ELSE 0, spent |-> Unspent, by |-> NoTx] ELSE NoDoc]
  /\ txs = [t \in Txs |->
       IF t \in {"kg", "k1"}
       THEN [height |-> IF t = "k1" THEN 1 ELSE 0, replacedBy |-> NoTx] ELSE NoDoc]
  /\ synced = [known |-> FALSE, stored |-> "yes"]
  /\ sync = [pc |-> "idle", queue |-> <<>>, left |-> {}, from |-> 0]
  /\ imp = [i \in Importers |-> [pc |-> "off", todo |-> {}, victim |-> NoTx]]
  /\ best = "a1" /\ announced = FALSE
  /\ late = NoReply /\ crashes = 0 /\ repeats = 0
  /\ pruner = AtRest /\ torn = <<>>

SyncedSpec == SyncedInit /\ [][PNext]_pvars /\ PFairness

\* What a stop of the service leaves half written gives its inputs back, too.
NothingHeldByGone ==
  pruner = AtRest =>
    \A c \in Coins : (Known(c) /\ coins[c].spent = Pending) =>
      LET t == coins[c].by IN
      \/ t \in Relayed /\ imp[t].pc = "doc"
      \/ Seen(t) /\ txs[t].height \in {Pending} \cup Nat
      \/ coins[c].mint \in {Conflicting, Expired}

QuietPoints == {"idle", "begin", "askGenesis", "ask", "add"}
=============================================================================
