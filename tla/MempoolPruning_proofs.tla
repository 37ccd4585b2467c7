------------------------ MODULE MempoolPruning_proofs ------------------------
(***************************************************************************)
(* Proofs about the pruning service next to the sync, for every tree of    *)
(* blocks, every set of transactions and every moment of a look and of the *)
(* write that follows it.                                                  *)
(***************************************************************************)
EXTENDS MempoolPruning, UtxoIndex_proofs

-----------------------------------------------------------------------------
(* What the operators return.                                              *)

LEMMA MinterIs ==
  ASSUME ValidChains, NEW c \in Coins
  PROVE  /\ Minter(c) \in Txs /\ c \in Outputs[Minter(c)]
         /\ \A t \in Txs : c \in Outputs[t] => t = Minter(c)
<1>1. \E t \in Txs : c \in Outputs[t]
  BY DEF Coins
<1>2. Minter(c) \in Txs /\ c \in Outputs[Minter(c)]
  BY <1>1 DEF Minter
<1> QED
  BY <1>2, OneMinter

LEMMA ReachedWithin ==
  ASSUME NEW ts, NEW R, NEW S \in SUBSET Txs, ts \subseteq S,
         \A e \in R : e[1] \in S => e[2] \in S
  PROVE  Reached(ts, R) \subseteq S
BY DEF Reached

LEMMA ReachedFrom ==
  ASSUME NEW ts, NEW R
  PROVE  /\ Reached(ts, R) \subseteq Txs
         /\ ts \subseteq Txs => ts \subseteq Reached(ts, R)
         /\ \A e \in R : e[1] \in Reached(ts, R) /\ e[2] \in Txs => e[2] \in Reached(ts, R)
BY DEF Reached

-----------------------------------------------------------------------------
(* What a write of the service does to a document.                         *)

\* Each of them writes to one collection.
LEMMA PrunedRest ==
  ASSUME WriteInvalid \/ WriteOld
  PROVE  /\ blocks' = blocks /\ sync' = sync /\ imp' = imp /\ best' = best
         /\ late' = late /\ repeats' = repeats
         /\ coins' = coins \/ coins' = [c \in Coins |-> coins'[c]]
         /\ txs' = txs \/ txs' = [t \in Txs |-> txs'[t]]
<1>1. CASE WriteInvalid
  BY <1>1 DEF WriteInvalid, InvalidateTxs, InvalidateMinted, InvalidateSpent, Updated, net
<1>2. CASE WriteOld
  BY <1>2 DEF WriteOld, ExpireTxs, ExpireMinted, ExpireSpent, Removed, net
<1> QED
  BY <1>1, <1>2

LEMMA CoinParts ==
  ASSUME NEW d \in CoinDoc
  PROVE  /\ [d EXCEPT !.mint = Conflicting] \in CoinDoc
         /\ [d EXCEPT !.mint = Conflicting].mint = Conflicting
         /\ [d EXCEPT !.mint = Conflicting].spent = d.spent
         /\ [d EXCEPT !.mint = Conflicting].by = d.by
         /\ [d EXCEPT !.mint = Expired] \in CoinDoc
         /\ [d EXCEPT !.mint = Expired].mint = Expired
         /\ [d EXCEPT !.mint = Expired].spent = d.spent
         /\ [d EXCEPT !.mint = Expired].by = d.by
         /\ [d EXCEPT !.spent = Unspent, !.by = NoTx] \in CoinDoc
         /\ [d EXCEPT !.spent = Unspent, !.by = NoTx].mint = d.mint
         /\ [d EXCEPT !.spent = Unspent, !.by = NoTx].spent = Unspent
         /\ [d EXCEPT !.spent = Unspent, !.by = NoTx].by = NoTx
BY DEF CoinDoc

LEMMA CoinOf ==
  ASSUME TypeInv, NEW c \in Coins, coins[c] # NoDoc
  PROVE  coins[c] \in CoinDoc
BY DEF TypeInv, DocsTyped

LEMMA TxOf ==
  ASSUME TypeInv, NEW t \in Txs, txs[t] # NoDoc
  PROVE  /\ txs[t] \in [height : Nat \cup {Pending, Conflicting, Expired},
                        replacedBy : {txs[t].replacedBy}]
         /\ txs[t].height \in Nat \cup {Pending, Conflicting, Expired}
BY DEF TypeInv, DocsTyped, Seen

LEMMA CoinWritten ==
  ASSUME TypeInv, WriteInvalid \/ WriteOld, NEW c \in Coins
  PROVE  \/ coins'[c] = coins[c]
         \/ /\ coins[c] # NoDoc /\ coins'[c] \in CoinDoc /\ coins'[c] # NoDoc
            /\ coins'[c].spent = coins[c].spent /\ coins'[c].by = coins[c].by
            /\ \/ WriteInvalid /\ c \in Outputs[Call.tx] /\ coins'[c].mint = Conflicting
               \/ coins[c].mint = Pending /\ coins'[c].mint = Expired
         \/ /\ coins[c] # NoDoc /\ coins'[c] \in CoinDoc /\ coins'[c] # NoDoc
            /\ coins[c].spent = Pending /\ coins'[c].mint = coins[c].mint
            /\ coins'[c].spent = Unspent /\ coins'[c].by = NoTx
<1>1. CASE coins' = coins
  BY <1>1
<1>2. CASE InvalidateMinted /\ coins'[c] # coins[c]
  <2>1. /\ coins[c] # NoDoc /\ c \in Outputs[Call.tx]
        /\ coins'[c] = [coins[c] EXCEPT !.mint = Conflicting]
    BY <1>2 DEF InvalidateMinted, Known
  <2>2. coins[c] \in CoinDoc
    BY <2>1, CoinOf
  <2>3. /\ coins'[c] \in CoinDoc /\ coins'[c].mint = Conflicting
        /\ coins'[c].spent = coins[c].spent /\ coins'[c].by = coins[c].by
    BY <2>1, <2>2, CoinParts
  <2> QED
    BY <1>2, <2>1, <2>3, Documents DEF WriteInvalid
<1>3. CASE InvalidateSpent /\ coins'[c] # coins[c]
  <2>1. /\ coins[c] # NoDoc /\ coins[c].spent = Pending
        /\ coins'[c] = [coins[c] EXCEPT !.spent = Unspent, !.by = NoTx]
    BY <1>3 DEF InvalidateSpent, Known, Released
  <2>2. coins[c] \in CoinDoc
    BY <2>1, CoinOf
  <2>3. /\ coins'[c] \in CoinDoc /\ coins'[c].mint = coins[c].mint
        /\ coins'[c].spent = Unspent /\ coins'[c].by = NoTx
    BY <2>1, <2>2, CoinParts
  <2> QED
    BY <2>1, <2>3, Documents
<1>4. CASE ExpireMinted /\ coins'[c] # coins[c]
  <2>1. /\ coins[c] # NoDoc /\ coins[c].mint = Pending
        /\ coins'[c] = [coins[c] EXCEPT !.mint = Expired]
    BY <1>4 DEF ExpireMinted, Known, StillPending
  <2>2. coins[c] \in CoinDoc
    BY <2>1, CoinOf
  <2>3. /\ coins'[c] \in CoinDoc /\ coins'[c].mint = Expired
        /\ coins'[c].spent = coins[c].spent /\ coins'[c].by = coins[c].by
    BY <2>1, <2>2, CoinParts
  <2> QED
    BY <2>1, <2>3, Documents
<1>5. CASE ExpireSpent /\ coins'[c] # coins[c]
  <2>1. /\ coins[c] # NoDoc /\ coins[c].spent = Pending
        /\ coins'[c] = [coins[c] EXCEPT !.spent = Unspent, !.by = NoTx]
    BY <1>5 DEF ExpireSpent, Known, Released, StillPending
  <2>2. coins[c] \in CoinDoc
    BY <2>1, CoinOf
  <2>3. /\ coins'[c] \in CoinDoc /\ coins'[c].mint = coins[c].mint
        /\ coins'[c].spent = Unspent /\ coins'[c].by = NoTx
    BY <2>1, <2>2, CoinParts
  <2> QED
    BY <2>1, <2>3, Documents
<1>6. CASE InvalidateTxs \/ ExpireTxs
  BY <1>1, <1>6 DEF InvalidateTxs, ExpireTxs
<1> QED
  BY <1>2, <1>3, <1>4, <1>5, <1>6 DEF WriteInvalid, WriteOld

LEMMA TxWritten ==
  ASSUME TypeInv, WriteInvalid \/ WriteOld, NEW t \in Txs
  PROVE  \/ txs'[t] = txs[t]
         \/ /\ txs[t] # NoDoc /\ txs'[t] # NoDoc
            /\ txs'[t] \in [height : {Conflicting, Expired}, replacedBy : {txs'[t].replacedBy}]
            /\ \/ /\ WriteInvalid /\ t = Call.tx /\ txs'[t].height = Conflicting
                  /\ \/ Depth = 1 /\ txs'[t].replacedBy = pruner.by
                     \/ txs'[t].replacedBy = txs[t].replacedBy
               \/ /\ WriteOld /\ t \in pruner.txs
                  /\ txs[t].height = Pending /\ txs'[t].height = Expired
                  /\ txs'[t].replacedBy = txs[t].replacedBy
<1>1. CASE txs' = txs
  BY <1>1
<1>2. CASE InvalidateTxs /\ txs'[t] # txs[t]
  <2>1. /\ t = Call.tx /\ txs[t] # NoDoc
        /\ txs'[t] = [height |-> Conflicting,
                      replacedBy |-> IF Depth = 1 THEN pruner.by ELSE txs[t].replacedBy]
    BY <1>2 DEF InvalidateTxs, Seen
  <2> QED
    BY <1>2, <2>1, Documents DEF WriteInvalid
<1>3. CASE ExpireTxs /\ txs'[t] # txs[t]
  <2>1. PICK d : d = [txs[t] EXCEPT !.height = Expired]
    OBVIOUS
  <2>2. t \in pruner.txs /\ txs[t] # NoDoc /\ txs[t].height = Pending /\ txs'[t] = d
    BY <1>3, <2>1 DEF ExpireTxs, Seen, StillPending
  <2>3. /\ d.height = Expired /\ d.replacedBy = txs[t].replacedBy
        /\ d \in [height : {Expired}, replacedBy : {d.replacedBy}]
        /\ DOMAIN d = {"height", "replacedBy"}
    BY <2>1, <2>2, TxOf
  <2>4. d # NoDoc
    BY <2>3 DEF NoDoc
  <2> QED
    BY <1>3, <2>2, <2>3, <2>4 DEF WriteOld
<1>4. CASE InvalidateMinted \/ InvalidateSpent \/ ExpireMinted \/ ExpireSpent
  BY <1>1, <1>4 DEF InvalidateMinted, InvalidateSpent, ExpireMinted, ExpireSpent
<1> QED
  BY <1>2, <1>3, <1>4 DEF WriteInvalid, WriteOld

LEMMA PruningTyped ==
  ASSUME TypeInv, WriteInvalid \/ WriteOld
  PROVE  TypeInv'
<1>1. coins' \in [Coins -> CoinDoc \cup {NoDoc}]
  <2>1. \A c \in Coins : coins'[c] \in CoinDoc \cup {NoDoc}
    <3> SUFFICES ASSUME NEW c \in Coins PROVE coins'[c] \in CoinDoc \cup {NoDoc}
      OBVIOUS
    <3>1. coins[c] \in CoinDoc \cup {NoDoc}
      BY DEF TypeInv, DocsTyped
    <3> QED
      BY <3>1, CoinWritten
  <2>2. CASE coins' = coins
    BY <2>2 DEF TypeInv, DocsTyped
  <2> QED
    BY <2>1, <2>2, PrunedRest
<1>2. txs' = [t \in Txs |-> txs'[t]]
  BY PrunedRest DEF TypeInv, DocsTyped
<1>3. ASSUME NEW t \in Txs, txs'[t] # NoDoc
      PROVE  txs'[t] \in [height : Nat \cup {Pending, Conflicting, Expired},
                          replacedBy : {txs'[t].replacedBy}]
  <2>1. CASE txs'[t] = txs[t]
    BY <1>3, <2>1, TxOf
  <2>2. CASE txs'[t] \in [height : {Conflicting, Expired}, replacedBy : {txs'[t].replacedBy}]
    BY <2>2
  <2> QED
    BY <2>1, <2>2, TxWritten
<1>4. DocsTyped'
  BY <1>1, <1>2, <1>3, PrunedRest DEF TypeInv, DocsTyped, Seen
<1>5. SyncTyped' /\ ImpTyped' /\ NetTyped'
  BY PrunedRest DEF TypeInv, SyncTyped, ImpTyped, NetTyped, Stored, Current
<1> QED
  BY <1>4, <1>5 DEF TypeInv

-----------------------------------------------------------------------------
(* A step of the service and one of the index.                             *)

\* What the service does without writing to a collection.
Unwritten ==
  \/ \E c \in Coins : LookInvalid(c)
  \/ \E t \in Relayed : LookOld(t)
  \/ Invalidation \/ Descend \/ Stop

LEMMA StepIs ==
  ASSUME [PNext]_pvars
  PROVE  \/ [Next]_vars /\ (pruner' = pruner \/ (UNCHANGED vars /\ Unwritten))
         \/ WriteInvalid \/ WriteOld
<1>1. CASE UNCHANGED pvars
  BY <1>1 DEF pvars
<1>2. CASE Unwritten
  <2>1. UNCHANGED vars
    BY <1>2 DEF Unwritten, LookInvalid, LookOld, Invalidation, Descend, Stop
  <2> QED
    BY <1>2, <2>1
<1>3. (\E t \in Outdated : LookOld(t)) => Unwritten
  BY PruningAssumption DEF Unwritten
<1> QED
  BY <1>1, <1>2, <1>3 DEF PNext, PruneInvalid, PruneOld, Unwritten

-----------------------------------------------------------------------------
-----------------------------------------------------------------------------
(* What a step of the index does to a document.                            *)

\* The steps that leave the coins, and those that leave the transactions.
LEMMA StepLeaves ==
  ASSUME [Next]_vars
  PROVE  /\ \/ coins' = coins \/ DeleteCoins \/ Unspend
            \/ \E i \in Importers : ImportMint(i) \/ Invalidate(i) \/ ImportSpend(i)
         /\ \/ txs' = txs \/ DeleteTxs
            \/ \E i \in Importers : Invalidate(i) \/ ImportTx(i)
         /\ blocks' = blocks \/ DeleteBlocks \/ Store \/ Link \/ MarkProcessed
<1>1. CASE Begin \/ AskGenesis \/ Ask \/ AddBlock \/ DeleteBlocks \/ DeleteTxs \/ DeleteCoins
  BY <1>1 DEF Begin, AskGenesis, Ask, AddBlock, DeleteBlocks, DeleteTxs, DeleteCoins, db
<1>2. CASE Unspend \/ Store \/ Link \/ MarkProcessed
  BY <1>2 DEF Unspend, Store, Link, MarkProcessed
<1>3. CASE \/ \E u \in Relayed : Relay(u)
           \/ \E b \in Blocks : Switch(b)
           \/ Announcement \/ RecordSynced \/ Crash \/ UNCHANGED vars
  BY <1>3 DEF Relay, Switch, Announcement, RecordSynced, Crash, db, vars
<1>4. CASE \E i \in Importers : Import(i)
  <2>1. PICK i \in Importers : Import(i)
    BY <1>4
  <2>2. blocks' = blocks
    BY <2>1, ImportActs
  <2>3. CASE ImportMint(i) \/ PruneFind(i) \/ ImportSpend(i)
    BY <2>1, <2>2, <2>3 DEF ImportMint, PruneFind, ImportSpend
  <2>4. CASE Invalidate(i) \/ ImportTx(i)
    BY <2>1, <2>2, <2>4 DEF ImportTx
  <2> QED
    BY <2>1, <2>3, <2>4 DEF Import
<1> QED
  BY <1>1, <1>2, <1>3, <1>4 DEF Next, SyncStep

LEMMA CoinStep ==
  ASSUME TypeInv, [Next]_vars, NEW c \in Coins, coins'[c] # NoDoc
  PROVE  /\ \/ coins[c] # NoDoc /\ coins'[c].mint = coins[c].mint
            \/ \E i \in Importers, t \in Txs :
                 /\ ImportMint(i) /\ InBatch(i, t) /\ c \in Outputs[t]
                 /\ coins'[c].mint = ImportHeight(i) /\ (i = Syncer \/ coins[c] = NoDoc)
            \/ \E i \in Importers :
                 /\ Invalidate(i) /\ coins[c] # NoDoc /\ c \in Outputs[imp[i].victim]
                 /\ coins'[c].mint = Conflicting
         /\ \/ coins[c] # NoDoc /\ coins'[c].spent = coins[c].spent /\ coins'[c].by = coins[c].by
            \/ /\ coins'[c].spent = Unspent
               /\ \/ Unspend
                  \/ \E i \in Importers, t \in Txs :
                       coins[c] = NoDoc /\ ImportMint(i) /\ InBatch(i, t) /\ c \in Outputs[t]
                  \/ \E i \in Importers : Invalidate(i) /\ coins[c].spent = Pending
            \/ \E i \in Importers :
                 /\ ImportSpend(i) /\ MaySpend(c)
                 /\ coins'[c].spent = ImportHeight(i)
                 /\ coins'[c].by \in Txs /\ InBatch(i, coins'[c].by)
                 /\ c \in L!Spends(coins'[c].by)
<1>1. coins[c] # NoDoc => coins[c] \in CoinDoc
  BY CoinOf
<1>2. CASE coins'[c] = coins[c]
  BY <1>2
<1>3. CASE DeleteCoins \/ Unspend
  <2>1. coins'[c] = coins[c] \/ coins'[c] = [coins[c] EXCEPT !.spent = Unspent, !.by = NoTx]
    BY <1>3 DEF DeleteCoins, Unspend, Known, GivenBack
  <2>2. coins[c] # NoDoc /\ (DeleteCoins => coins'[c] = coins[c])
    BY <1>3 DEF DeleteCoins, Unspend, Known
  <2> QED
    BY <1>1, <1>2, <1>3, <2>1, <2>2, CoinParts
<1>4. ASSUME NEW i \in Importers, ImportMint(i), coins'[c] # coins[c]
      PROVE  /\ coins[c] # NoDoc => coins'[c].spent = coins[c].spent /\ coins'[c].by = coins[c].by
             /\ coins[c] = NoDoc => coins'[c].spent = Unspent
             /\ \E t \in Txs :
                  /\ InBatch(i, t) /\ c \in Outputs[t]
                  /\ coins'[c].mint = ImportHeight(i) /\ (i = Syncer \/ coins[c] = NoDoc)
  <2>1. coins'[c] = Mint(i, c) /\ \E t \in Txs : InBatch(i, t) /\ c \in Outputs[t]
    BY <1>4 DEF ImportMint
  <2> QED
    BY <1>4, <2>1, MintEffect
<1>5. ASSUME NEW i \in Importers, Invalidate(i), coins'[c] # coins[c]
      PROVE  /\ coins[c] # NoDoc
             /\ \/ /\ coins'[c].mint = coins[c].mint /\ coins'[c].spent = Unspent
                   /\ coins[c].spent = Pending
                \/ /\ c \in Outputs[imp[i].victim] /\ coins'[c].mint = Conflicting
                   /\ coins'[c].spent = coins[c].spent /\ coins'[c].by = coins[c].by
  <2>1. /\ coins[c] # NoDoc
        /\ \/ /\ c \in Outputs[imp[i].victim]
              /\ coins'[c] = [coins[c] EXCEPT !.mint = Conflicting]
           \/ /\ coins'[c] = [coins[c] EXCEPT !.spent = Unspent, !.by = NoTx]
              /\ coins[c].spent = Pending
    BY <1>5 DEF Invalidate, Known
  <2> QED
    BY <1>1, <2>1, CoinParts
<1>6. ASSUME NEW i \in Importers, ImportSpend(i), coins'[c] # coins[c]
      PROVE  /\ MaySpend(c) /\ coins'[c].mint = coins[c].mint
             /\ coins'[c].spent = ImportHeight(i)
             /\ coins'[c].by \in Txs /\ InBatch(i, coins'[c].by)
             /\ c \in L!Spends(coins'[c].by)
  BY <1>6, SpendEffect
<1>7. ASSUME NEW i \in Importers, ImportSpend(i), coins'[c] # coins[c]
      PROVE  coins[c] # NoDoc
  BY <1>6, <1>7 DEF MaySpend, Known
<1> QED
  BY <1>2, <1>3, <1>4, <1>5, <1>6, <1>7, StepLeaves

LEMMA TxStep ==
  ASSUME TypeInv, [Next]_vars, NEW t \in Txs, txs'[t] # NoDoc
  PROVE  \/ txs[t] # NoDoc /\ txs'[t] = txs[t]
         \/ \E i \in Importers :
              /\ ImportTx(i) /\ InBatch(i, t)
              /\ txs'[t].height = ImportHeight(i)
              /\ i = Syncer \/ txs[t] = NoDoc
              /\ \/ txs[t] # NoDoc /\ txs'[t].replacedBy = txs[t].replacedBy
                 \/ txs'[t].replacedBy = NoTx
         \/ \E i \in Importers :
              /\ Invalidate(i) /\ t = imp[i].victim /\ txs[t] # NoDoc
              /\ txs'[t].height = Conflicting /\ txs'[t].replacedBy = Pruning(i)
<1>1. CASE txs'[t] = txs[t]
  BY <1>1
<1>2. CASE DeleteTxs
  BY <1>1, <1>2 DEF DeleteTxs
<1>3. ASSUME NEW i \in Importers, ImportTx(i), txs'[t] # txs[t]
      PROVE  /\ InBatch(i, t) /\ txs'[t].height = ImportHeight(i)
             /\ i = Syncer \/ txs[t] = NoDoc
             /\ \/ txs[t] # NoDoc /\ txs'[t].replacedBy = txs[t].replacedBy
                \/ txs'[t].replacedBy = NoTx
  <2>1. /\ InBatch(i, t)
        /\ \/ /\ txs[t] = NoDoc
              /\ txs'[t] = [height |-> ImportHeight(i), replacedBy |-> NoTx]
           \/ /\ txs[t] # NoDoc /\ i = Syncer
              /\ txs'[t] = [txs[t] EXCEPT !.height = ImportHeight(i)]
    BY <1>3 DEF ImportTx, Seen
  <2>2. CASE txs[t] # NoDoc /\ txs'[t] = [txs[t] EXCEPT !.height = ImportHeight(i)]
    BY <2>1, <2>2, TxOf
  <2> QED
    BY <2>1, <2>2
<1>4. ASSUME NEW i \in Importers, Invalidate(i), txs'[t] # txs[t]
      PROVE  /\ t = imp[i].victim /\ txs[t] # NoDoc
             /\ txs'[t].height = Conflicting /\ txs'[t].replacedBy = Pruning(i)
  <2>1. PICK v, r : v = imp[i].victim /\ r = Pruning(i)
    OBVIOUS
  <2>2. /\ txs = [u \in Txs |-> txs[u]]
        /\ txs' = IF txs[v] # NoDoc
                  THEN [txs EXCEPT ![v] = [height |-> Conflicting, replacedBy |-> r]] ELSE txs
    BY <1>4, <2>1 DEF Invalidate, Seen, TypeInv, DocsTyped
  <2>3. /\ t = v /\ txs[t] # NoDoc
        /\ txs'[t] = [height |-> Conflicting, replacedBy |-> r]
    BY <1>4, <2>2
  <2> QED
    BY <2>1, <2>3
<1> QED
  BY <1>1, <1>2, <1>3, <1>4, StepLeaves

-----------------------------------------------------------------------------
(* Where the heights of the documents come from.                           *)

\* Only the blocks of D are stored, and only theirs are the heights.
Within(D) ==
  /\ AllStored \subseteq D
  /\ \A c \in Coins : \A h \in Nat : IsMinted(coins, c, h) => MintedIn(D, c, h)
  /\ \A t \in Txs : \A h \in Nat : IsConfirmed(txs, t, h) => ConfirmedIn(D, t, h)

LEMMA StoredAfter ==
  ASSUME TypeInv, [Next]_vars
  PROVE  AllStored' \subseteq AllStored \/ (Store /\ AllStored' \subseteq AllStored \cup {Current})
<1>1. CASE blocks' = blocks
  BY <1>1 DEF AllStored, Stored
<1>2. CASE DeleteBlocks
  BY <1>2 DEF DeleteBlocks, AllStored, Stored
<1>3. CASE Store
  BY <1>3 DEF Store, AllStored, Stored, TypeInv, DocsTyped
<1>4. CASE Link
  <2>1. \A b \in Blocks : StoredParent(Current) => blocks[Parent[Current]] # NoDoc
    BY DEF StoredParent, Stored
  <2>2. \/ blocks' = blocks
        \/ /\ blocks[Parent[Current]] # NoDoc
           /\ blocks' = [blocks EXCEPT ![Parent[Current]].next = Current]
    BY <1>4 DEF Link, StoredParent, Stored
  <2> QED
    BY <2>2 DEF AllStored, Stored, TypeInv, DocsTyped
<1>5. CASE MarkProcessed
  <2>1. blocks[Current] # NoDoc
    BY <1>5 DEF MarkProcessed, TypeInv, SyncTyped, Storing, Stored
  <2>2. blocks' = [blocks EXCEPT ![Current].processed = TRUE]
    BY <1>5 DEF MarkProcessed
  <2> QED
    BY <2>1, <2>2 DEF AllStored, Stored, TypeInv, DocsTyped
<1> QED
  BY <1>1, <1>2, <1>3, <1>4, <1>5, StepLeaves

\* An import for a block writes the height of a block that is stored.
LEMMA ImportedHeight ==
  ASSUME TypeInv, TreeInv, NEW i \in Importers, ImportMint(i) \/ ImportTx(i),
         NEW t \in Txs, InBatch(i, t), ImportHeight(i) \in Nat
  PROVE  /\ Current \in AllStored /\ t \in L!TxsOf(Current)
         /\ L!Height(Current) = ImportHeight(i)
<1>1. imp[i].pc # "off" /\ i \in Importers
  BY DEF ImportMint, ImportTx
<1>2. i = Syncer
  BY <1>1, ImportHeights DEF Pending
<1>3. sync.pc \in Storing
  BY <1>1, <1>2 DEF TypeInv, ImpTyped, Storing
<1> QED
  BY <1>1, <1>2, <1>3, InBatches, ImportHeights, StoringChains DEF AllStored

LEMMA WithinKept ==
  ASSUME TypeInv, TreeInv, [Next]_vars, NEW D, Within(D), Store => Current \in D
  PROVE  Within(D)'
<1>1. AllStored' \subseteq D
  BY StoredAfter DEF Within
<1>2. ASSUME NEW c \in Coins, NEW h \in Nat, coins'[c] # NoDoc, coins'[c].mint = h
      PROVE  MintedIn(D, c, h)
  <2>1. CASE coins[c] # NoDoc /\ coins'[c].mint = coins[c].mint
    BY <1>2, <2>1 DEF Within, IsMinted
  <2>2. ASSUME NEW i \in Importers, NEW t \in Txs, ImportMint(i), InBatch(i, t),
               c \in Outputs[t], coins'[c].mint = ImportHeight(i)
        PROVE  MintedIn(D, c, h)
    BY <1>2, <2>2, ImportedHeight DEF Within, MintedIn
  <2>3. coins'[c].mint # Conflicting
    BY <1>2 DEF Conflicting
  <2> QED
    BY <1>2, <2>1, <2>2, <2>3, CoinStep
<1>3. ASSUME NEW t \in Txs, NEW h \in Nat, txs'[t] # NoDoc, txs'[t].height = h
      PROVE  ConfirmedIn(D, t, h)
  <2>1. CASE txs[t] # NoDoc /\ txs'[t] = txs[t]
    BY <1>3, <2>1 DEF Within, IsConfirmed
  <2>2. ASSUME NEW i \in Importers, ImportTx(i), InBatch(i, t), txs'[t].height = ImportHeight(i)
        PROVE  ConfirmedIn(D, t, h)
    BY <1>3, <2>2, ImportedHeight DEF Within, ConfirmedIn
  <2>3. txs'[t].height # Conflicting
    BY <1>3 DEF Conflicting
  <2> QED
    BY <1>3, <2>1, <2>2, <2>3, TxStep
<1> QED
  BY <1>1, <1>2, <1>3 DEF Within, IsMinted, IsConfirmed, MintedIn, ConfirmedIn

\* The writes of the service take heights away and set none.
LEMMA WithinPruned ==
  ASSUME TypeInv, WriteInvalid \/ WriteOld, NEW D, Within(D)
  PROVE  Within(D)'
<1>1. AllStored' = AllStored
  BY PrunedRest DEF AllStored, Stored
<1>2. ASSUME NEW c \in Coins, NEW h \in Nat, coins'[c] # NoDoc, coins'[c].mint = h
      PROVE  MintedIn(D, c, h)
  <2>1. coins[c] # NoDoc /\ coins'[c].mint = coins[c].mint
    BY <1>2, CoinWritten DEF Conflicting, Expired
  <2> QED
    BY <1>2, <2>1 DEF Within, IsMinted
<1>3. ASSUME NEW t \in Txs, NEW h \in Nat, txs'[t] # NoDoc, txs'[t].height = h
      PROVE  ConfirmedIn(D, t, h)
  <2>1. txs'[t] = txs[t]
    BY <1>3, TxWritten DEF Conflicting, Expired
  <2> QED
    BY <1>3, <2>1 DEF Within, IsConfirmed
<1> QED
  BY <1>1, <1>2, <1>3 DEF Within, IsMinted, IsConfirmed, MintedIn, ConfirmedIn

LEMMA WithinMore ==
  ASSUME NEW D, NEW E, D \subseteq E, Within(D)
  PROVE  Within(E)
BY DEF Within, MintedIn, ConfirmedIn

-----------------------------------------------------------------------------
(* The headers that the sync works through.                                *)

Queued == {sync.queue[n] : n \in 1 .. Len(sync.queue)}

LEMMA QueueBlocks ==
  ASSUME TypeInv
  PROVE  /\ Queued \subseteq Blocks
         /\ Store => Current \in Queued /\ Current \in Blocks
<1>1. sync.queue \in Seq(Blocks)
  BY DEF TypeInv, SyncTyped
<1>2. Store => sync.queue # <<>>
  BY DEF TypeInv, SyncTyped, Store, Working
<1>3. PICK q : q = sync.queue
  OBVIOUS
<1>4. q # <<>> => 1 \in 1 .. Len(q) /\ Head(q) = q[1] /\ q[1] \in Blocks
  BY <1>1, <1>3, RestOfQueue
<1> QED
  BY <1>1, <1>2, <1>3, <1>4 DEF Queued, Current

LEMMA AnsweredQueue ==
  ASSUME OnePeer, TypeInv, TreeInv, Ask
  PROVE  sync'.pc \notin Working \/ (best' = best /\ Queued' \subseteq L!Chain(best))
<1>1. PICK headers \in Answers :
        /\ Receive(headers)
        /\ \/ sync' = [sync EXCEPT !.pc = "idle"]
           \/ sync' = [sync EXCEPT !.pc = "add", !.queue = headers]
  BY DEF Ask
<1>2. headers = HeadersAfter(Locators)
  BY <1>1, Answered DEF OnePeer
<1>3. best \in Blocks /\ best' = best
  BY DEF TypeInv, NetTyped, Ask, net
<1>4. PICK last : HeadersFrom(headers, Locators, last)
  BY <1>2, <1>3, HeadersAreChain
<1>5. PICK chain : chain = L!ChainOf[best]
  OBVIOUS
<1>6. Len(chain) \in Nat /\ \A i \in 1 .. Len(chain) : chain[i] \in L!Chain(best)
  BY <1>3, <1>5, ChainMembers, ChainShape
<1>7. /\ last \in 1 .. Len(chain) /\ headers \in Seq(Blocks)
      /\ Len(headers) = Len(chain) - last
      /\ \A i \in 1 .. Len(headers) : headers[i] = chain[last + i]
  BY <1>4, <1>5 DEF HeadersFrom
<1>8. ASSUME NEW i \in 1 .. Len(headers)
      PROVE  headers[i] \in L!Chain(best)
  <2>1. last + i \in 1 .. Len(chain)
    BY <1>6, <1>7, <1>8
  <2> QED
    BY <1>6, <1>7, <1>8, <2>1
<1>9. GoesTo("idle", sync.queue) \/ GoesTo("add", headers)
  BY <1>1, SetStep, SetStepAndQueue DEF TypeInv
<1> QED
  BY <1>3, <1>8, <1>9 DEF Queued, GoesTo, Working, Storing

LEMMA GenesisQueue ==
  ASSUME OnePeer, TypeInv, TreeInv, AskGenesis
  PROVE  best' = best /\ Queued' \subseteq L!Chain(best)
<1>1. PICK headers \in Answers :
        /\ Receive(headers)
        /\ sync' = IF headers = <<>> THEN [sync EXCEPT !.pc = "ask"]
                   ELSE [sync EXCEPT !.pc = "add", !.queue = <<Parent[Head(headers)]>>]
  BY DEF AskGenesis
<1>2. headers = HeadersAfter(Locators)
  BY <1>1, Answered DEF OnePeer
<1>3. headers # <<>> /\ Parent[Head(headers)] = Genesis
  BY <1>2, HeadersPlaced DEF AskGenesis, TreeInv, Place
<1>4. PICK q : q = <<Genesis>>
  OBVIOUS
<1>5. sync' = [sync EXCEPT !.pc = "add", !.queue = q]
  BY <1>1, <1>3, <1>4
<1>6. sync'.queue = q
  BY <1>5, SetStepAndQueue DEF TypeInv, GoesTo
<1>7. best \in Blocks /\ best' = best
  BY DEF TypeInv, NetTyped, AskGenesis, net
<1>8. \A n \in 1 .. Len(q) : q[n] = Genesis
  BY <1>4
<1> QED
  BY <1>6, <1>7, <1>8, ChainMembers DEF Queued

LEMMA ProcessedQueue ==
  ASSUME TypeInv, MarkProcessed
  PROVE  Queued' \subseteq Queued
<1>1. sync'.queue = Tail(sync.queue)
  BY DEF MarkProcessed, TypeInv, SyncTyped
<1>2. PICK q : q = sync.queue
  OBVIOUS
<1>3. q \in Seq(Blocks) /\ q # <<>>
  BY <1>2 DEF TypeInv, SyncTyped, MarkProcessed, Working, Storing
<1>4. /\ Len(q) \in Nat \ {0} /\ Len(Tail(q)) = Len(q) - 1
      /\ \A n \in 1 .. Len(q) - 1 : Tail(q)[n] = q[n + 1]
  BY <1>3, RestOfQueue
<1>5. ASSUME NEW n \in 1 .. Len(Tail(q))
      PROVE  \E m \in 1 .. Len(q) : Tail(q)[n] = q[m]
  <2>1. n \in 1 .. Len(q) - 1 /\ n + 1 \in 1 .. Len(q)
    BY <1>4, <1>5
  <2> QED
    BY <1>4, <2>1
<1> QED
  BY <1>1, <1>2, <1>5 DEF Queued

\* A step leaves the sync where it is, takes it out of its work, goes on with headers
\* that are not given up for a fork, or begins with some of the peers' chain.
LEMMA QueueStep ==
  ASSUME OnePeer, TypeInv, TreeInv, [Next]_vars
  PROVE  \/ sync' = sync /\ blocks' = blocks
         \/ sync'.pc \notin Working
         \/ /\ sync.pc \in Working /\ Queued' \subseteq Queued
            /\ sync.pc = "add" => ExtendsTip(Current)
         \/ best' = best /\ Queued' \subseteq L!Chain(best)
<1>0. SyncTyped /\ ImpTyped
  BY DEF TypeInv
<1>1. CASE Begin \/ DeleteBlocks \/ DeleteTxs \/ DeleteCoins \/ Unspend
  <2>1. \/ sync'.pc \in {"askGenesis", "ask", "begin"}
        \/ sync'.pc \in {"unspend", "reorg"}
    BY <1>0, <1>1 DEF Begin, DeleteBlocks, DeleteTxs, DeleteCoins, Unspend, Deleted, SyncTyped
  <2> QED
    BY <2>1 DEF Working, Storing
<1>2. CASE AddBlock
  <2>1. CASE ExtendsTip(Current)
    <3>1. sync'.queue = sync.queue /\ sync.pc = "add"
      BY <1>0, <1>2, <2>1 DEF AddBlock, SyncTyped
    <3> QED
      BY <2>1, <3>1 DEF Queued, Working
  <2>2. CASE ~ ExtendsTip(Current)
    <3>1. sync'.pc = "reorg"
      BY <1>0, <1>2, <2>2 DEF AddBlock, SyncTyped
    <3> QED
      BY <3>1 DEF Working, Storing
  <2> QED
    BY <2>1, <2>2
<1>3. CASE Store \/ Link
  <2>1. sync'.queue = sync.queue /\ sync.pc \in {"store", "link"}
    BY <1>0, <1>3 DEF Store, Link, SyncTyped
  <2> QED
    BY <2>1 DEF Queued, Working, Storing
<1>4. CASE MarkProcessed
  <2>1. sync.pc = "processed"
    BY <1>4 DEF MarkProcessed
  <2> QED
    BY <1>4, <2>1, ProcessedQueue DEF Working, Storing
<1>5. CASE \E i \in Importers : Import(i)
  <2>1. PICK i \in Importers : Import(i)
    BY <1>5
  <2>2. blocks' = blocks /\ (sync' = sync \/ (i = Syncer /\ sync' = [sync EXCEPT !.pc = "processed"]))
    BY <1>0, <2>1, NextOfImport
  <2>3. CASE i = Syncer /\ sync' = [sync EXCEPT !.pc = "processed"]
    <3>1. sync.pc = "import"
      BY <1>0, <2>1, <2>3, NextOfImport DEF ImpTyped
    <3>2. sync'.queue = sync.queue
      BY <1>0, <2>3 DEF SyncTyped
    <3> QED
      BY <3>1, <3>2 DEF Queued, Working, Storing
  <2> QED
    BY <2>2, <2>3
<1>6. CASE \/ \E u \in Relayed : Relay(u)
           \/ \E b \in Blocks : Switch(b)
           \/ RecordSynced \/ UNCHANGED vars
  BY <1>6 DEF Relay, Switch, RecordSynced, db, vars
<1>7. CASE Announcement \/ Crash
  <2>1. (sync' = sync /\ blocks' = blocks) \/ sync'.pc = "begin"
    BY <1>0, <1>7 DEF Announcement, Crash, SyncTyped, db
  <2> QED
    BY <2>1 DEF Working, Storing
<1> QED
  BY <1>1, <1>2, <1>3, <1>4, <1>5, <1>6, <1>7, AnsweredQueue, GenesisQueue DEF Next, SyncStep

\* The first of the headers is below all of them.
LEMMA QueueChain ==
  ASSUME TypeInv, TreeInv, sync.pc \in Working, NEW x \in Queued
  PROVE  Current \in L!Chain(x)
<1>1. PICK q : q = sync.queue
  OBVIOUS
<1>2. q \in Seq(Blocks) /\ q # <<>> /\ Line(q)
  BY <1>1 DEF TypeInv, SyncTyped, TreeInv, Place
<1>3. Len(q) \in Nat /\ Head(q) = q[1] /\ \A n \in 1 .. Len(q) : q[n] \in Blocks
  BY <1>2, RestOfQueue
<1>4. PICK bad : bad = {b \in Queued : Head(q) \notin L!Chain(b)}
  OBVIOUS
<1>5. ASSUME bad # {}
      PROVE  FALSE
  <2>1. bad \in SUBSET Blocks
    BY <1>4, QueueBlocks
  <2>2. PICK b \in bad : b = Genesis \/ Parent[b] \notin bad
    BY <1>5, <2>1, IndexAssumption
  <2>3. b \in Blocks
    BY <2>1, <2>2
  <2>4. PICK n \in 1 .. Len(q) : b = q[n]
    BY <1>1, <1>4, <2>2 DEF Queued
  <2>5. CASE n = 1
    BY <1>3, <1>4, <2>2, <2>3, <2>4, <2>5, ChainMembers
  <2>6. CASE n # 1
    <3>1. n \in 2 .. Len(q) /\ n - 1 \in 1 .. Len(q)
      BY <1>3, <2>4, <2>6
    <3>2. b # Genesis /\ Parent[b] = q[n - 1]
      BY <1>2, <2>4, <3>1 DEF Line
    <3>3. Parent[b] \in Queued
      BY <1>1, <3>1, <3>2 DEF Queued
    <3>4. Head(q) \in L!Chain(Parent[b])
      BY <1>4, <2>2, <3>2, <3>3
    <3> QED
      BY <1>4, <2>2, <2>3, <3>2, <3>4, ChainOfChild
  <2> QED
    BY <2>5, <2>6
<1> QED
  BY <1>1, <1>4, <1>5 DEF Current

-----------------------------------------------------------------------------
(* The collections are those of one chain.                                 *)

Taken == \E o \in Blocks \cup {NoBlock} : Within(L!Chain(o))

\* A block that goes on from another chain than the collections are of finds them
\* rolled back to its own.
LEMMA StoresNext ==
  ASSUME TypeInv, TreeInv, IndexInv, Store, NEW o \in Blocks \cup {NoBlock},
         Within(L!Chain(o)), Current \notin L!Chain(o)
  PROVE  Current \in Blocks /\ Within(L!Chain(Current))
<1>1. PICK b : b = Current
  OBVIOUS
<1>2. b \in Blocks /\ b = Head(sync.queue)
  BY <1>1, QueueBlocks DEF Current
<1>3. sync.pc = "store"
  BY DEF Store
<1>4. Unfinished(blocks) = {}
  <2>1. ASSUME NEW x \in Unfinished(blocks)
        PROVE  FALSE
    <3>1. x \in AllStored /\ x \in L!Chain(o)
      BY <2>1 DEF Within, Unfinished, AllStored, Stored
    <3>2. o \in Blocks
      BY <3>1, ChainOfGenesis
    <3>3. Genesis \in L!Chain(o)
      BY <3>2, ChainMembers
    <3>4. x = Head(sync.queue) \/ Head(sync.queue) = Genesis
      BY <1>3, <2>1 DEF IndexInv, UnfinishedRight, Owed, Working
    <3> QED
      BY <1>1, <1>2, <3>1, <3>3, <3>4
  <2> QED
    BY <2>1
<1>5. AllMatch(coins, txs, L!Chain(LocalTip), Nat)
  <2>1. Filling(coins, txs, LocalTip, {}, "mint")
    BY <1>3, <1>4 DEF IndexInv, DocsMatch, FillStep, Rollback
  <2> QED
    BY <2>1, NothingUnfinished
<1>6. AllStored \subseteq L!Chain(LocalTip)
  BY <1>4 DEF TreeInv, Holds, Unfinished, AllStored, Stored
<1>7. L!Chain(LocalTip) \subseteq L!Chain(b)
  <2>1. Fits(LocalTip, sync.queue)
    BY <1>3 DEF TreeInv, Place
  <2>2. CASE b = Genesis
    <3>1. LocalTip \in {NoBlock, Genesis}
      BY <1>2, <2>1, <2>2, ChainMembers, IndexAssumption DEF Fits, AtGenesis, TreeInv, Holds
    <3> QED
      BY <2>2, <3>1, ChainOfGenesis
  <2>3. CASE b # Genesis
    BY <1>2, <2>1, <2>3, ChainOfChild DEF Fits
  <2> QED
    BY <2>2, <2>3
<1>8. Within(L!Chain(LocalTip))
  BY <1>5, <1>6 DEF AllMatch, MintsMatch, TxsMatch, Within
<1> QED
  BY <1>1, <1>2, <1>7, <1>8, WithinMore

LEMMA TakenKept ==
  ASSUME TypeInv, TreeInv, IndexInv, [Next]_vars, Taken
  PROVE  Taken'
<1>1. PICK o \in Blocks \cup {NoBlock} : Within(L!Chain(o))
  BY DEF Taken
<1>2. CASE Store => Current \in L!Chain(o)
  BY <1>1, <1>2, WithinKept DEF Taken
<1>3. CASE Store /\ Current \notin L!Chain(o)
  <2>1. PICK b : b = Current
    OBVIOUS
  <2>2. b \in Blocks /\ Within(L!Chain(b))
    BY <1>1, <1>3, <2>1, StoresNext
  <2>3. Within(L!Chain(b))'
    BY <2>1, <2>2, ChainMembers, WithinKept
  <2> QED
    BY <2>2, <2>3 DEF Taken
<1> QED
  BY <1>2, <1>3

LEMMA TakenPruned ==
  ASSUME TypeInv, WriteInvalid \/ WriteOld, Taken
  PROVE  Taken'
BY WithinPruned DEF Taken

LEMMA InitTaken ==
  ASSUME Init
  PROVE  Taken
<1>1. Within(L!Chain(NoBlock))
  BY DEF Init, Within, AllStored, Stored, IsMinted, IsConfirmed
<1> QED
  BY <1>1 DEF Taken

-----------------------------------------------------------------------------
(* Transactions that the peers' chain leaves out.                          *)

\* The blocks in whose chain t is not.
Free(t) == {d \in Blocks : \A x \in L!Chain(d) : t \notin L!TxsOf(x)}

\* The peers' chain, all that is stored or has a height, and what the sync works
\* through and does not give up for a fork, are free of t.
Doomed(t) ==
  /\ best \in Free(t) /\ Within(Free(t))
  /\ sync.pc \in Working =>
       Queued \subseteq Free(t) \/ (sync.pc = "add" /\ ~ ExtendsTip(Current))

LEMMA FreeBelow ==
  ASSUME NEW t, NEW d \in Free(t)
  PROVE  d \in Blocks /\ L!Chain(d) \subseteq Free(t)
BY ChainAt DEF Free

LEMMA DoomedKept ==
  ASSUME OnePeer, TypeInv, TreeInv, [Next]_vars, NEW t, Doomed(t), best' \in Free(t)
  PROVE  Doomed(t)'
<1>1. Store => Current \in Free(t)
  BY QueueBlocks DEF Doomed, Store, Working
<1>2. Within(Free(t))'
  BY <1>1, WithinKept DEF Doomed
<1>3. sync'.pc \in Working =>
        Queued' \subseteq Free(t) \/ (sync'.pc = "add" /\ ~ ExtendsTip(Current)')
  <2>1. CASE sync' = sync /\ blocks' = blocks
    <3>1. ExtendsTip(Current)' <=> ExtendsTip(Current)
      BY <2>1, TipRests DEF ExtendsTip, TipHeight, Current
    <3> QED
      BY <2>1, <3>1 DEF Doomed, Queued
  <2>2. CASE best' = best /\ Queued' \subseteq L!Chain(best)
    BY <2>2, FreeBelow DEF Doomed
  <2>3. CASE /\ sync.pc \in Working /\ Queued' \subseteq Queued
             /\ sync.pc = "add" => ExtendsTip(Current)
    BY <2>3 DEF Doomed
  <2> QED
    BY <2>1, <2>2, <2>3, QueueStep
<1> QED
  BY <1>2, <1>3 DEF Doomed, Free

LEMMA DoomedPruned ==
  ASSUME TypeInv, WriteInvalid \/ WriteOld, NEW t, Doomed(t)
  PROVE  Doomed(t)'
<1>1. Within(Free(t))'
  BY WithinPruned DEF Doomed
<1>2. /\ Queued' = Queued /\ best' = best /\ sync' = sync /\ Current' = Current
      /\ ExtendsTip(Current)' <=> ExtendsTip(Current)
  BY PrunedRest, TipRests DEF Queued, ExtendsTip, TipHeight, Current
<1> QED
  BY <1>1, <1>2 DEF Doomed, Free

\* No document says a height of a transaction that all these blocks are free of, or
\* of what it mints.
LEMMA FreeUnmined ==
  ASSUME ValidChains, NEW t \in Txs, Within(Free(t)), NEW h \in Nat
  PROVE  /\ ~ IsConfirmed(txs, t, h)
         /\ \A c \in Outputs[t] : ~ IsMinted(coins, c, h)
<1>1. \A d \in Free(t) : d \in Blocks /\ t \notin L!TxsOf(d)
  BY ChainMembers DEF Free
<1>2. ~ IsConfirmed(txs, t, h)
  BY <1>1 DEF Within, ConfirmedIn
<1>3. ASSUME NEW c \in Outputs[t], IsMinted(coins, c, h)
      PROVE  FALSE
  <2>1. c \in Coins
    BY DEF Coins
  <2>2. PICK d, u : d \in Free(t) /\ u \in L!TxsOf(d) /\ c \in Outputs[u]
    BY <1>3, <2>1 DEF Within, MintedIn
  <2>3. u \in Txs
    BY <1>1, <2>2, BlockTypes
  <2>4. u = t
    BY <2>1, <2>2, <2>3, MinterIs
  <2> QED
    BY <1>1, <2>2, <2>4
<1> QED
  BY <1>2, <1>3

\* What spends from a transaction is in no chain that the transaction is not in.
LEMMA FreeSpender ==
  ASSUME ValidChains, PendingRight(coins), NEW t \in Txs, NEW d \in SpentOutputs(t)
  PROVE  d[2] \in Txs /\ Free(t) \subseteq Free(d[2])
<1>1. PICK c \in Outputs[t] : /\ Known(c) /\ coins[c].spent = Pending
                              /\ d = <<c, coins[c].by>>
  BY DEF SpentOutputs
<1>2. PICK u : u = coins[c].by
  OBVIOUS
<1>3. c \in Coins
  BY DEF Coins
<1>4. u \in Txs /\ c \in L!Spends(u) /\ d[2] = u
  BY <1>1, <1>2, <1>3, IndexAssumption DEF PendingRight, Known, Txs
<1>5. ASSUME NEW b \in Free(t), NEW x \in L!Chain(b), u \in L!TxsOf(x)
      PROVE  FALSE
  <2>1. b \in Blocks /\ \A f \in L!Chain(b) : t \notin L!TxsOf(f)
    BY DEF Free
  <2>2. x \in Blocks /\ L!Chain(x) \subseteq L!Chain(b)
    BY <2>1, ChainAt
  <2>3. PICK f, w : f \in L!Chain(x) /\ w \in L!TxsOf(f) /\ c \in Outputs[w]
    BY <1>4, <1>5, <2>2 DEF ValidChains
  <2>4. f \in Blocks
    BY <2>2, <2>3, ChainMembers
  <2>5. w \in Txs
    BY <2>3, <2>4, BlockTypes
  <2>6. w = t
    BY <1>3, <2>3, <2>5, MinterIs
  <2> QED
    BY <2>1, <2>2, <2>3, <2>6
<1> QED
  BY <1>4, <1>5 DEF Free

-----------------------------------------------------------------------------
(* The writes and the index.                                               *)

LEMMA TreePruned ==
  ASSUME TreeInv, WriteInvalid \/ WriteOld
  PROVE  TreeInv' /\ LocalTip' = LocalTip
<1>1. LocalTip' = LocalTip
  BY PrunedRest, TipRests
<1> QED
  BY <1>1, PrunedRest DEF TreeInv

\* A write that leaves every height leaves the index right.
LEMMA PrunedAside ==
  ASSUME TypeInv, IndexInv, WriteInvalid \/ WriteOld, SameMints(coins, coins'),
         SameSpends(coins, coins'), SameTxs(txs, txs'), PendingRight(coins')
  PROVE  IndexInv'
<1>1. LocalTip' = LocalTip
  BY PrunedRest, TipRests
<1>2. /\ blocks' = blocks /\ sync' = sync /\ imp' = imp /\ best' = best
      /\ Current' = Current
  BY PrunedRest DEF Current
<1>3. DocsMatch'
  BY <1>2, DocsKept DEF IndexInv
<1>4. ImportsRight'
  BY <1>2, ImportsKept DEF IndexInv
<1>5. UnfinishedRight'
  BY <1>2, OwedKept DEF IndexInv
<1>6. NextRight(blocks', LocalTip') /\ LinkRight'
  BY <1>1, <1>2 DEF IndexInv, LinkRight
<1> QED
  BY <1>3, <1>4, <1>5, <1>6 DEF IndexInv

LEMMA PrunedSpends ==
  ASSUME TypeInv, WriteInvalid \/ WriteOld, PendingRight(coins)
  PROVE  SameSpends(coins, coins') /\ PendingRight(coins')
<1>1. ASSUME NEW c \in Coins
      PROVE  \/ coins[c] = NoDoc /\ coins'[c] = NoDoc
             \/ /\ coins[c] # NoDoc /\ coins'[c] # NoDoc
                /\ coins'[c].spent = coins[c].spent /\ coins'[c].by = coins[c].by
             \/ /\ coins[c] # NoDoc /\ coins'[c] # NoDoc
                /\ coins[c].spent = Pending /\ coins'[c].spent = Unspent
  BY CoinWritten
<1>2. Pending \notin Nat /\ Unspent \notin Nat /\ Pending # Unspent
  BY DEF Pending, Unspent
<1>3. SameSpends(coins, coins')
  <2> SUFFICES ASSUME NEW c \in Coins, NEW h \in Nat, NEW t \in Txs
               PROVE  IsSpent(coins', c, h, t) <=> IsSpent(coins, c, h, t)
    BY DEF SameSpends
  <2> QED
    BY <1>1, <1>2 DEF IsSpent
<1>4. PendingRight(coins')
  <2> SUFFICES ASSUME NEW c \in Coins, coins'[c] # NoDoc, coins'[c].spent = Pending
               PROVE  coins'[c].by \in Relayed /\ c \in L!Spends(coins'[c].by)
    BY DEF PendingRight
  <2> QED
    BY <1>1, <1>2 DEF PendingRight
<1> QED
  BY <1>3, <1>4

LEMMA WriteInvalidMatch ==
  ASSUME ValidChains, TypeInv, IndexInv, WriteInvalid,
         Call.tx \in Txs, Within(Free(Call.tx))
  PROVE  IndexInv' /\ SameMints(coins, coins') /\ SameTxs(txs, txs')
<1>1. PICK m \in Txs : m = Call.tx
  OBVIOUS
<1>2. PendingRight(coins) /\ ~ WriteOld
  BY DEF IndexInv, WriteInvalid, WriteOld, InvalidateTxs, InvalidateMinted, InvalidateSpent,
         Updated, ExpireTxs, ExpireMinted, ExpireSpent, Removed
<1>3. Conflicting \notin Nat /\ Expired \notin Nat /\ Pending \notin Nat
  BY DEF Conflicting, Expired, Pending
<1>4. SameMints(coins, coins')
  <2> SUFFICES ASSUME NEW c \in Coins, NEW h \in Nat
               PROVE  IsMinted(coins', c, h) <=> IsMinted(coins, c, h)
    BY DEF SameMints
  <2>1. CASE coins'[c] = coins[c]
    BY <2>1 DEF IsMinted
  <2>2. CASE coins[c] # NoDoc /\ coins'[c] # NoDoc /\ coins'[c].mint = coins[c].mint
    BY <2>2 DEF IsMinted
  <2>3. CASE c \in Outputs[m] /\ coins'[c].mint = Conflicting
    <3>1. ~ IsMinted(coins, c, h)
      BY <1>1, <2>3, FreeUnmined
    <3> QED
      BY <1>3, <2>3, <3>1 DEF IsMinted
  <2>4. CASE coins[c].mint = Pending /\ coins'[c].mint = Expired
    BY <1>3, <2>4 DEF IsMinted
  <2> QED
    BY <1>1, <2>1, <2>2, <2>3, <2>4, CoinWritten
<1>5. SameTxs(txs, txs')
  <2> SUFFICES ASSUME NEW t \in Txs, NEW h \in Nat
               PROVE  IsConfirmed(txs', t, h) <=> IsConfirmed(txs, t, h)
    BY DEF SameTxs
  <2>1. CASE txs'[t] = txs[t]
    BY <2>1 DEF IsConfirmed
  <2>2. CASE t = m /\ txs'[t].height = Conflicting
    <3>1. ~ IsConfirmed(txs, t, h)
      BY <1>1, <2>2, FreeUnmined
    <3> QED
      BY <1>3, <2>2, <3>1 DEF IsConfirmed
  <2> QED
    BY <1>1, <1>2, <2>1, <2>2, TxWritten
<1> QED
  BY <1>2, <1>4, <1>5, PrunedAside, PrunedSpends

LEMMA WriteOldMatch ==
  ASSUME TypeInv, IndexInv, WriteOld
  PROVE  IndexInv' /\ SameMints(coins, coins') /\ SameTxs(txs, txs')
<1>1. Pending \notin Nat /\ Expired \notin Nat
  BY DEF Pending, Expired
<1>2. ~ WriteInvalid
  BY DEF WriteInvalid, WriteOld, InvalidateTxs, InvalidateMinted, InvalidateSpent,
         Updated, ExpireTxs, ExpireMinted, ExpireSpent, Removed
<1>3. SameMints(coins, coins')
  <2> SUFFICES ASSUME NEW c \in Coins, NEW h \in Nat
               PROVE  IsMinted(coins', c, h) <=> IsMinted(coins, c, h)
    BY DEF SameMints
  <2> QED
    BY <1>1, <1>2, CoinWritten DEF IsMinted
<1>4. SameTxs(txs, txs')
  <2> SUFFICES ASSUME NEW t \in Txs, NEW h \in Nat
               PROVE  IsConfirmed(txs', t, h) <=> IsConfirmed(txs, t, h)
    BY DEF SameTxs
  <2> QED
    BY <1>1, <1>2, TxWritten DEF IsConfirmed
<1> QED
  BY <1>3, <1>4, PrunedAside, PrunedSpends DEF IndexInv

-----------------------------------------------------------------------------
(* Replacements.                                                           *)

\* A transaction of a block that the mempool has never held replaces one of the
\* mempool.
Replaces(r, t) ==
  t \in Relayed /\ r \in Txs \ Relayed /\ L!Spends(t) \cap L!Spends(r) # {}

\* While the service marks what a settled replacement replaces, the peers' chain does
\* not leave the replacement out again.
SettledStays == pruner.pc = "invalidate" => L!ConfirmedAt(best, pruner.by) # {}

ReplacedRight(ts) ==
  \A t \in Txs : ts[t] # NoDoc =>
    /\ ts[t].replacedBy # NoTx => Replaces(ts[t].replacedBy, t)
    /\ ts[t].height = Expired => t \in Relayed

\* What an import has found is replaced by the transaction it found it for.
VictimOK(i, r, b) ==
  r.pc = "invalidate" =>
    i = Syncer /\ Replaces(BatchOf(i, b)[Upcoming(r.todo)], r.victim)
VictimsRight == \A i \in Importers : VictimOK(i, imp[i], Current)

\* The calls that come down from t are for transactions that are in no chain that t is
\* not in.
Calls(t) ==
  {r \in [tx : Txs, todo : SUBSET (Coins \X Txs), left : SUBSET Updates] :
     Free(t) \subseteq Free(r.tx) /\ \A d \in r.todo : Free(t) \subseteq Free(d[2])}

PrunerTyped ==
  pruner \in [pc : {"rest", "invalidate", "expire"}, txs : SUBSET Relayed,
              left : SUBSET Updates, root : {pruner.root}, by : {pruner.by},
              calls : {pruner.calls}]

\* What a look has found remains so until all of it is written.
InvalidationRight ==
  pruner.pc = "invalidate" =>
    /\ Replaces(pruner.by, pruner.root) /\ Doomed(pruner.root)
    /\ pruner.calls \in Seq(Calls(pruner.root))
    /\ pruner.calls # <<>> => pruner.calls[1].tx = pruner.root

LEMMA RelayedTxs == Relayed \subseteq Txs
BY IndexAssumption DEF Txs

LEMMA ReplacedOf ==
  ASSUME ReplacedRight(txs), NEW t \in Txs, txs[t] # NoDoc
  PROVE  /\ txs[t].replacedBy # NoTx => Replaces(txs[t].replacedBy, t)
         /\ txs[t].height = Expired => t \in Relayed
BY DEF ReplacedRight

\* What replaces is not replaced in its turn.
LEMMA ReplacementIs ==
  ASSUME ReplacedRight(txs), NEW t \in Txs, Seen(t), NEW r, r = txs[t].replacedBy, r # NoTx
  PROVE  Replacement(t) = r /\ Replaces(r, t) /\ ~ Overtaken(r)
<1>1. Replaces(r, t)
  BY ReplacedOf DEF Seen
<1>2. r \in Txs /\ r \notin Relayed
  BY <1>1 DEF Replaces
<1>3. ~ Overtaken(r)
  BY <1>2, ReplacedOf DEF Overtaken, Seen, Replaces
<1>4. PICK R, met : /\ R = {<<q, txs[q].replacedBy>> : q \in {u \in Txs \ {t} : Overtaken(u)}}
                    /\ met = Reached({r}, R)
  OBVIOUS
<1>5. ASSUME NEW e \in R
      PROVE  e[1] \notin {r}
  <2>1. PICK q \in Txs : Overtaken(q) /\ e = <<q, txs[q].replacedBy>>
    BY <1>4
  <2> QED
    BY <1>3, <2>1
<1>6. met = {r}
  <2>1. {r} \in SUBSET Txs /\ {r} \subseteq {r}
    BY <1>2
  <2>2. Reached({r}, R) \subseteq {r}
    BY <1>5, <2>1, ReachedWithin
  <2>3. {r} \subseteq Reached({r}, R)
    BY <2>1, ReachedFrom
  <2> QED
    BY <1>4, <2>2, <2>3
<1>7. Replacement(t) = CHOOSE q \in met :
        \/ ~ Overtaken(q) \/ q = t
        \/ \E u, v \in met \cup {t} :
             u # v /\ Overtaken(u) /\ Overtaken(v)
             /\ txs[u].replacedBy = q /\ txs[v].replacedBy = q
  BY <1>4 DEF Replacement
<1>8. Replacement(t) = r
  BY <1>3, <1>6, <1>7
<1> QED
  BY <1>1, <1>3, <1>8

\* A chain with a replacement in it is free of what it replaces.
LEMMA ReplacedFree ==
  ASSUME ValidChains, NEW d \in Blocks, NEW b \in L!Chain(d), NEW r \in L!TxsOf(b), NEW t,
         Replaces(r, t)
  PROVE  d \in Free(t)
<1>1. t \in Relayed /\ r \in Txs \ Relayed /\ t # r
  BY DEF Replaces
<1>2. PICK c : c \in L!Spends(t) /\ c \in L!Spends(r)
  BY DEF Replaces
<1> QED
  BY <1>1, <1>2, OneSpender DEF Free

LEMMA BestFree ==
  ASSUME ValidChains, NEW b \in Blocks, NEW r, NEW t, Replaces(r, t), L!ConfirmedAt(b, r) # {}
  PROVE  b \in Free(t)
<1>1. PICK e \in L!Chain(b) : r \in L!TxsOf(e)
  BY DEF L!ConfirmedAt
<1> QED
  BY <1>1, ReplacedFree

\* Headers that go on from the index, with a replacement in it, have it below them.
LEMMA QueueFree ==
  ASSUME ValidChains, TypeInv, TreeInv, IndexInv, NEW r \in Txs, NEW t, Replaces(r, t),
         NEW h \in Nat, IsConfirmed(txs, r, h), best \in Free(t), sync.pc \in Working,
         ~ (sync.pc = "add" /\ ~ ExtendsTip(Current))
  PROVE  Queued \subseteq Free(t)
<1>1. PICK q : q = sync.queue
  OBVIOUS
<1>2. q \in Seq(Blocks) /\ q # <<>> /\ Current = Head(q)
  BY <1>1 DEF TypeInv, SyncTyped, Current
<1>3. Len(q) \in Nat /\ Head(q) = q[1] /\ Head(q) \in Blocks
  BY <1>2, RestOfQueue
<1>4. Fits(LocalTip, q)
  <2>1. CASE sync.pc = "add"
    BY <1>1, <2>1, ForksDoNot DEF TreeInv, Place
  <2>2. CASE sync.pc # "add"
    BY <1>1, <2>2 DEF TreeInv, Place, Half, Working
  <2> QED
    BY <2>1, <2>2
<1>5. CASE Head(q) = Genesis
  <2>1. Len(q) = 1
    BY <1>4, <1>5 DEF Fits
  <2>2. Queued = {Genesis}
    BY <1>1, <1>3, <1>5, <2>1 DEF Queued
  <2>3. best \in Blocks /\ Genesis \in L!Chain(best)
    BY ChainMembers DEF Free
  <2> QED
    BY <2>2, <2>3, FreeBelow
<1>6. CASE Head(q) # Genesis
  <2>1. Parent[Head(q)] = LocalTip
    BY <1>4, <1>6 DEF Fits
  <2>2. L!Chain(LocalTip) \subseteq L!Chain(Head(q))
    BY <1>3, <1>6, <2>1, ChainOfChild
  <2>3. sync.pc \notin Rollback
    BY DEF Working, Storing, Rollback
  <2>4. \A x \in Unfinished(blocks) : x = Head(q)
    BY <1>1, <1>6 DEF IndexInv, UnfinishedRight, Owed
  <2>5. \/ TxsMatch(txs, L!Chain(LocalTip), Nat)
        \/ TxsMatch(txs, L!Chain(Head(q)), Nat)
    BY <2>3, <2>4 DEF IndexInv, DocsMatch, Filling
  <2>6. PICK b \in L!Chain(Head(q)) : r \in L!TxsOf(b)
    BY <2>2, <2>5 DEF TxsMatch, ConfirmedIn
  <2> SUFFICES ASSUME NEW x \in Queued PROVE x \in Free(t)
    OBVIOUS
  <2>7. x \in Blocks /\ Head(q) \in L!Chain(x)
    BY <1>2, QueueBlocks, QueueChain
  <2>8. b \in L!Chain(x)
    BY <2>6, <2>7, ChainAt
  <2> QED
    BY <2>6, <2>7, <2>8, ReplacedFree
<1> QED
  BY <1>5, <1>6

\* What is replaced by a transaction that has settled and that the peers' chain holds
\* will not be taken up.
LEMMA SettledDooms ==
  ASSUME ValidChains, TypeInv, TreeInv, IndexInv, Taken, ReplacedRight(txs),
         NEW t, NEW r, Replaces(r, t), Settled(r), best \in Free(t)
  PROVE  Doomed(t)
<1>1. r \in Txs \ Relayed
  BY DEF Replaces
<1>2. txs[r] # NoDoc /\ (txs[r].height > Pending \/ txs[r].height = Expired)
  BY DEF Settled, Seen
<1>3. txs[r].height \in Nat \cup {Pending, Conflicting, Expired} /\ txs[r].height # Expired
  BY <1>1, <1>2, TxOf, ReplacedOf
<1>4. PICK h \in Nat : IsConfirmed(txs, r, h)
  BY <1>2, <1>3 DEF IsConfirmed, Pending, Conflicting, Expired
<1>5. PICK o \in Blocks \cup {NoBlock} : Within(L!Chain(o))
  BY DEF Taken
<1>6. PICK b \in L!Chain(o) : r \in L!TxsOf(b)
  BY <1>1, <1>4, <1>5 DEF Within, ConfirmedIn
<1>7. o \in Blocks
  BY <1>6, ChainOfGenesis
<1>8. L!Chain(o) \subseteq Free(t)
  BY <1>6, <1>7, ReplacedFree, FreeBelow
<1>9. Within(Free(t))
  BY <1>5, <1>8, WithinMore
<1> QED
  BY <1>1, <1>4, <1>9, QueueFree DEF Doomed

LEMMA LookInvalidRight ==
  ASSUME ValidChains, TypeInv, TreeInv, IndexInv, Taken, ReplacedRight(txs),
         NEW c \in Coins, LookInvalid(c), SettledStays'
  PROVE  PrunerTyped' /\ InvalidationRight'
<1>1. PICK child : child = Minter(c)
  OBVIOUS
<1>2. PICK t \in (IF txs[child].replacedBy # NoTx THEN {child}
                  ELSE {Minter(d) : d \in {e \in Coins : Known(e) /\ coins[e].by = child}}) :
        /\ Seen(t) /\ txs[t].replacedBy # NoTx /\ Settled(Replacement(t))
        /\ pruner' = [AtRest EXCEPT !.pc = "invalidate", !.root = t, !.by = txs[t].replacedBy]
  BY <1>1 DEF LookInvalid
<1>3. PICK r : r = txs[t].replacedBy
  OBVIOUS
<1>4. t \in Txs
  BY <1>1, <1>2, MinterIs
<1>5. Settled(r) /\ Replaces(r, t)
  BY <1>2, <1>3, <1>4, ReplacementIs
<1>6. /\ pruner' = [pc |-> "invalidate", txs |-> {}, left |-> {}, root |-> t, by |-> r,
                    calls |-> <<>>]
      /\ UNCHANGED vars
  BY <1>2, <1>3 DEF LookInvalid, AtRest
<1>7. best \in Free(t) /\ best' = best
  BY <1>5, <1>6, BestFree DEF SettledStays, TypeInv, NetTyped, vars
<1>8. Doomed(t)
  BY <1>5, <1>7, SettledDooms
<1>9. Doomed(t)'
  BY <1>6, <1>8, TipRests
     DEF Doomed, Free, Within, Queued, Current, ExtendsTip, TipHeight, AllStored, Stored,
         MintedIn, ConfirmedIn, IsMinted, IsConfirmed, vars
<1>10. pruner'.calls \in Seq(Calls(t)')
  BY <1>6
<1> QED
  BY <1>5, <1>6, <1>9, <1>10 DEF PrunerTyped, InvalidationRight, Calls, Free, Replaces, Doomed

\* The heirs of an old transaction, none of them mined, are the mempool's own.
LEMMA LookOldRight ==
  ASSUME TypeInv, PendingRight(coins), NEW t \in Relayed, LookOld(t)
  PROVE  PrunerTyped' /\ InvalidationRight'
<1>1. PICK heirs : heirs = Heirs({t})
  OBVIOUS
<1>2. /\ \A c \in Related(heirs) : coins[c].spent < 0
      /\ pruner' = [AtRest EXCEPT !.pc = "expire", !.txs = heirs, !.left = Updates]
  BY <1>1 DEF LookOld
<1>3. PICK R : R = {<<Minter(c), coins[c].by>> : c \in {d \in Related(Txs) : coins[d].by # NoTx}}
  OBVIOUS
<1>4. heirs = Reached({t}, R) /\ t \in Txs
  BY <1>1, <1>3, RelayedTxs DEF Heirs
<1>5. heirs \subseteq Txs /\ t \in heirs
  BY <1>4, ReachedFrom
<1>6. ASSUME NEW e \in R, e[1] \in heirs \cap Relayed
      PROVE  e[2] \in heirs \cap Relayed
  <2>1. PICK c \in Related(Txs) : coins[c].by # NoTx /\ e = <<Minter(c), coins[c].by>>
    BY <1>3
  <2>2. c \in Coins /\ coins[c] # NoDoc /\ c \in Related(heirs)
    BY <1>6, <2>1 DEF Related, Known
  <2>3. coins[c] \in CoinDoc /\ coins[c].spent < 0
    BY <1>2, <2>2, CoinOf
  <2>4. coins[c].spent \in Nat \cup {Pending, Unspent} /\ coins[c].spent # Unspent
    BY <2>1, <2>3 DEF CoinDoc
  <2>5. coins[c].spent = Pending
    BY <2>3, <2>4
  <2>6. coins[c].by \in Relayed
    BY <2>2, <2>5 DEF PendingRight
  <2> QED
    BY <1>4, <1>6, <2>1, <2>6, ReachedFrom, RelayedTxs
<1>7. heirs \cap Relayed \in SUBSET Txs /\ {t} \subseteq heirs \cap Relayed
  BY <1>5
<1>8. heirs \subseteq heirs \cap Relayed
  BY <1>4, <1>6, <1>7, ReachedWithin
<1>9. pruner' = [pc |-> "expire", txs |-> heirs, left |-> Updates, root |-> NoTx, by |-> NoTx,
                 calls |-> <<>>]
  BY <1>2 DEF AtRest
<1> QED
  BY <1>8, <1>9 DEF PrunerTyped, InvalidationRight

-----------------------------------------------------------------------------
(* The steps and the replacements.                                         *)

\* Nobody but the pruning of a block's batch finds something to invalidate.
LEMMA FoundVictim ==
  ASSUME ValidChains, Compatible, TypeInv, TreeInv, IndexInv, NEW i \in Importers, Import(i),
         imp'[i].pc = "invalidate"
  PROVE  /\ i = Syncer /\ sync' = sync
         /\ Replaces(BatchOf(i, Current)[Upcoming(imp'[i].todo)], imp'[i].victim)
<1>1. PruneFind(i) /\ ~ Pruned(i)
  <2>1. ~ Pruned(i)
    BY SetsPruned DEF TypeInv
  <2>2. ASSUME NEW pc, pc # "invalidate", imp' = [imp EXCEPT ![i].pc = pc]
        PROVE  FALSE
    <3>1. Moves(i, pc)
      BY <2>2, ImportMoves DEF TypeInv
    <3> QED
      BY <2>2, <3>1 DEF Moves
  <2>3. ~ ImportMint(i)
    <3>1. ImportMint(i) => \E pc \in {"prune", "spend"} : Moves(i, pc)
      BY MintKeeps
    <3> QED
      BY <3>1 DEF Moves
  <2>4. ~ ImportSpend(i) /\ ~ ImportTx(i)
    <3>1. ImportTx(i) => \E pc : pc # "invalidate" /\ imp' = [imp EXCEPT ![i].pc = pc]
      BY DEF ImportTx
    <3> QED
      BY <2>2, <3>1 DEF ImportSpend
  <2> QED
    BY <2>1, <2>3, <2>4 DEF Import, Invalidate
<1>2. imp[i].pc = "prune" /\ sync' = sync
  BY <1>1 DEF PruneFind
<1>3. PICK t, c : t = Pruning(i) /\ c = Inputs[t][1]
  OBVIOUS
<1>4. InBatch(i, t) /\ t \in Txs /\ c \in Coins /\ c \in L!Spends(t)
  BY <1>2, <1>3, PruningSpends
<1>5. PICK v : v = coins[c].by
  OBVIOUS
<1>6. HeldByOther(c, t) /\ imp' = [imp EXCEPT ![i].pc = "invalidate", ![i].victim = v]
  BY <1>1, <1>3, <1>5 DEF PruneFind
<1>7. v \in Relayed /\ c \in L!Spends(v) /\ v # t
  BY <1>4, <1>5, <1>6 DEF HeldByOther, Known, IndexInv, PendingRight
<1>8. imp'[i].todo = imp[i].todo /\ imp'[i].victim = v
  BY <1>6, SetsVictim DEF TypeInv
<1>9. t \notin Relayed
  BY <1>4, <1>7 DEF Compatible
<1>10. i = Syncer
  BY <1>4, <1>9, InBatches, Relays
<1>11. BatchOf(i, Current)[Upcoming(imp'[i].todo)] = t
  BY <1>3, <1>8, InBatches DEF Pruning
<1> QED
  BY <1>2, <1>4, <1>7, <1>8, <1>9, <1>10, <1>11 DEF Replaces

LEMMA VictimsRest ==
  ASSUME TypeInv, VictimsRight, imp' = imp,
         sync.pc = "import" => Current' = Current
  PROVE  VictimsRight'
<1> SUFFICES ASSUME NEW i \in Importers, imp[i].pc = "invalidate"
             PROVE  i = Syncer /\ Replaces(BatchOf(i, Current')[Upcoming(imp[i].todo)], imp[i].victim)
  BY DEF VictimsRight, VictimOK
<1>1. /\ i = Syncer
      /\ Replaces(BatchOf(i, Current)[Upcoming(imp[i].todo)], imp[i].victim)
  BY DEF VictimsRight, VictimOK
<1>2. sync.pc = "import"
  BY <1>1 DEF TypeInv, ImpTyped
<1> QED
  BY <1>1, <1>2

LEMMA VictimsKept ==
  ASSUME ValidChains, Compatible, TypeInv, TreeInv, IndexInv, VictimsRight, [Next]_vars
  PROVE  VictimsRight'
<1>0. imp = [i \in Importers |-> imp[i]] /\ \A i \in Importers : imp[i] \in
        [pc : ImportSteps, todo : {imp[i].todo}, victim : {imp[i].victim}]
  BY DEF TypeInv, ImpTyped
<1>1. CASE SyncStep /\ ~ Link
  <2>1. imp' = imp /\ sync.pc # "import"
    BY <1>1 DEF SyncStep, Begin, AskGenesis, Ask, AddBlock, DeleteBlocks, DeleteTxs, DeleteCoins,
                Deleted, Unspend, Store, MarkProcessed
  <2> QED
    BY <2>1, VictimsRest
<1>2. ASSUME NEW j \in Importers, imp' = [imp EXCEPT ![j].pc = "mint"], sync.pc # "import" \/ sync' = sync
      PROVE  VictimsRight'
  <2> SUFFICES ASSUME NEW i \in Importers, imp'[i].pc = "invalidate"
               PROVE  i = Syncer /\ Replaces(BatchOf(i, Current')[Upcoming(imp'[i].todo)], imp'[i].victim)
    BY DEF VictimsRight, VictimOK
  <2>1. i # j /\ imp'[i] = imp[i]
    BY <1>0, <1>2
  <2>2. /\ i = Syncer
        /\ Replaces(BatchOf(i, Current)[Upcoming(imp[i].todo)], imp[i].victim)
    BY <2>1 DEF VictimsRight, VictimOK
  <2>3. sync.pc = "import"
    BY <2>1, <2>2 DEF TypeInv, ImpTyped
  <2>4. Current' = Current
    BY <1>2, <2>3 DEF Current
  <2> QED
    BY <2>1, <2>2, <2>4
<1>3. CASE Link
  <2>1. Syncer \in Importers /\ sync.pc # "import" /\ imp' = [imp EXCEPT ![Syncer].pc = "mint"]
    BY <1>3 DEF Link, Importers
  <2> QED
    BY <1>2, <2>1
<1>4. ASSUME NEW t \in Relayed, Relay(t)
      PROVE  VictimsRight'
  <2>1. t \in Importers /\ sync' = sync /\ imp' = [imp EXCEPT ![t].pc = "mint"]
    BY <1>4 DEF Relay, Importers
  <2> QED
    BY <1>2, <2>1
<1>5. CASE (\E b \in Blocks : Switch(b)) \/ RecordSynced \/ UNCHANGED vars
  <2>1. imp' = imp /\ Current' = Current
    BY <1>5 DEF Switch, RecordSynced, vars, Current
  <2> QED
    BY <2>1, VictimsRest
<1>6. CASE Announcement
  <2>1. imp' = imp /\ (sync.pc = "import" => Current' = Current)
    BY <1>6 DEF Announcement, Current
  <2> QED
    BY <2>1, VictimsRest
<1>7. CASE Crash
  <2>1. \A i \in Importers : imp'[i].pc = "off"
    BY <1>7 DEF Crash
  <2> QED
    BY <2>1 DEF VictimsRight, VictimOK
<1>8. ASSUME NEW j \in Importers, Import(j)
      PROVE  VictimsRight'
  <2> SUFFICES ASSUME NEW i \in Importers, imp'[i].pc = "invalidate"
               PROVE  i = Syncer /\ Replaces(BatchOf(i, Current')[Upcoming(imp'[i].todo)], imp'[i].victim)
    BY DEF VictimsRight, VictimOK
  <2>1. CASE i = j
    <3>1. /\ i = Syncer /\ sync' = sync
          /\ Replaces(BatchOf(i, Current)[Upcoming(imp'[i].todo)], imp'[i].victim)
      BY <1>8, <2>1, FoundVictim
    <3>2. Current' = Current
      BY <3>1 DEF Current
    <3> QED
      BY <3>1, <3>2
  <2>2. CASE i # j
    <3>1. imp'[i] = imp[i]
      BY <1>8, <2>2, NextOfImport DEF TypeInv, Moves
    <3>2. /\ i = Syncer
          /\ Replaces(BatchOf(i, Current)[Upcoming(imp[i].todo)], imp[i].victim)
      BY <3>1 DEF VictimsRight, VictimOK
    <3>3. sync' = sync
      BY <1>8, <2>2, <3>2, NextOfImport DEF TypeInv
    <3>4. Current' = Current
      BY <3>3 DEF Current
    <3> QED
      BY <3>1, <3>2, <3>4
  <2> QED
    BY <2>1, <2>2
<1> QED
  BY <1>1, <1>3, <1>4, <1>5, <1>6, <1>7, <1>8 DEF Next

LEMMA ReplacedKept ==
  ASSUME TypeInv, VictimsRight, ReplacedRight(txs), [Next]_vars
  PROVE  ReplacedRight(txs')
<1> SUFFICES ASSUME NEW t \in Txs, txs'[t] # NoDoc
             PROVE  /\ txs'[t].replacedBy # NoTx => Replaces(txs'[t].replacedBy, t)
                    /\ txs'[t].height = Expired => t \in Relayed
  BY DEF ReplacedRight
<1>1. CASE txs[t] # NoDoc /\ txs'[t] = txs[t]
  BY <1>1, ReplacedOf
<1>2. ASSUME NEW i \in Importers, ImportTx(i), txs'[t].height = ImportHeight(i),
             \/ txs[t] # NoDoc /\ txs'[t].replacedBy = txs[t].replacedBy
             \/ txs'[t].replacedBy = NoTx
      PROVE  /\ txs'[t].replacedBy # NoTx => Replaces(txs'[t].replacedBy, t)
             /\ txs'[t].height # Expired
  <2>1. ImportHeight(i) # Expired
    BY <1>2, HeightNotExpired DEF ImportTx
  <2> QED
    BY <1>2, <2>1, ReplacedOf
<1>3. ASSUME NEW i \in Importers, Invalidate(i), t = imp[i].victim, txs'[t].height = Conflicting,
             txs'[t].replacedBy = Pruning(i)
      PROVE  Replaces(txs'[t].replacedBy, t) /\ txs'[t].height # Expired
  <2>1. Replaces(BatchOf(i, Current)[Upcoming(imp[i].todo)], imp[i].victim)
    BY <1>3 DEF VictimsRight, VictimOK, Invalidate
  <2> QED
    BY <1>3, <2>1, InBatches DEF Pruning, Conflicting, Expired
<1> QED
  BY <1>1, <1>2, <1>3, TxStep

LEMMA ReplacedPruned ==
  ASSUME TypeInv, ReplacedRight(txs), PrunerTyped, InvalidationRight, WriteInvalid \/ WriteOld
  PROVE  ReplacedRight(txs')
<1> SUFFICES ASSUME NEW t \in Txs, txs'[t] # NoDoc
             PROVE  /\ txs'[t].replacedBy # NoTx => Replaces(txs'[t].replacedBy, t)
                    /\ txs'[t].height = Expired => t \in Relayed
  BY DEF ReplacedRight
<1>1. CASE txs'[t] = txs[t]
  BY <1>1, ReplacedOf
<1>2. CASE /\ txs[t] # NoDoc /\ WriteInvalid /\ t = Call.tx /\ txs'[t].height = Conflicting
           /\ \/ Depth = 1 /\ txs'[t].replacedBy = pruner.by
              \/ txs'[t].replacedBy = txs[t].replacedBy
  <2>1. /\ Replaces(pruner.by, pruner.root) /\ pruner.calls \in Seq(Calls(pruner.root))
        /\ pruner.calls # <<>> => pruner.calls[1].tx = pruner.root
    BY <1>2 DEF InvalidationRight, WriteInvalid, InvalidateTxs, InvalidateMinted,
                InvalidateSpent, Updated
  <2>2. Depth = 1 => Call.tx = pruner.root
    BY <2>1 DEF Depth, Call
  <2> QED
    BY <1>2, <2>1, <2>2, ReplacedOf DEF Conflicting, Expired
<1>3. CASE /\ txs[t] # NoDoc /\ t \in pruner.txs /\ txs'[t].replacedBy = txs[t].replacedBy
  BY <1>3, ReplacedOf DEF PrunerTyped
<1> QED
  BY <1>1, <1>2, <1>3, TxWritten

-----------------------------------------------------------------------------
(* The steps of the service.                                               *)

LEMMA NewCallRight ==
  ASSUME ValidChains, PendingRight(coins), NEW t \in Txs, NEW u \in Txs, Free(t) \subseteq Free(u)
  PROVE  NewCall(u) \in Calls(t)
<1>1. PICK todo : todo = SpentOutputs(u)
  OBVIOUS
<1>2. ASSUME NEW d \in todo
      PROVE  d \in Coins \X Txs /\ Free(t) \subseteq Free(d[2])
  <2>1. d[2] \in Txs /\ Free(u) \subseteq Free(d[2])
    BY <1>1, <1>2, FreeSpender
  <2>2. \E c \in Outputs[u] : d = <<c, coins[c].by>>
    BY <1>1, <1>2 DEF SpentOutputs
  <2>3. Outputs[u] \subseteq Coins
    BY DEF Coins
  <2> QED
    BY <2>1, <2>2, <2>3
<1>3. NewCall(u) = [tx |-> u, todo |-> todo, left |-> Updates]
  BY <1>1 DEF NewCall
<1> QED
  BY <1>2, <1>3 DEF Calls

\* A stack of calls that is worked off.
LEMMA CallsGoOn ==
  ASSUME NEW t, NEW s \in Seq(Calls(t)), s # <<>>
  PROVE  /\ s[Len(s)] \in Calls(t) /\ Len(s) \in Nat \ {0}
         /\ \A n \in 1 .. Len(s) : s[n] \in Calls(t)
         /\ \A left \in SUBSET Updates : [s EXCEPT ![Len(s)].left = left] \in Seq(Calls(t))
         /\ \A todo \in SUBSET s[Len(s)].todo :
              [s EXCEPT ![Len(s)].todo = todo] \in Seq(Calls(t))
<1>1. PICK n : n = Len(s)
  OBVIOUS
<1>2. n \in 1 .. Len(s) /\ n \in Nat \ {0} /\ \A i \in 1 .. Len(s) : s[i] \in Calls(t)
  BY <1>1
<1>3. \A r \in Calls(t) : \A left \in SUBSET Updates : [r EXCEPT !.left = left] \in Calls(t)
  BY DEF Calls
<1>4. \A r \in Calls(t) : \A todo \in SUBSET r.todo : [r EXCEPT !.todo = todo] \in Calls(t)
  BY DEF Calls
<1>5. \A r \in Calls(t) : [s EXCEPT ![n] = r] \in Seq(Calls(t))
  BY <1>2
<1>6. \A left : [s EXCEPT ![n].left = left] = [s EXCEPT ![n] = [s[n] EXCEPT !.left = left]]
  OBVIOUS
<1>7. \A todo : [s EXCEPT ![n].todo = todo] = [s EXCEPT ![n] = [s[n] EXCEPT !.todo = todo]]
  OBVIOUS
<1> QED
  BY <1>1, <1>2, <1>3, <1>4, <1>5, <1>6, <1>7

LEMMA StackRight ==
  ASSUME PrunerTyped, InvalidationRight, pruner.pc = "invalidate",
         NEW r, r = pruner.root, Doomed(r)', NEW s \in Seq(Calls(r)),
         s # <<>> => s[1].tx = r, pruner' = [pruner EXCEPT !.calls = s]
  PROVE  PrunerTyped' /\ InvalidationRight'
<1>1. PICK y : y = pruner.by /\ Replaces(y, r)
  BY DEF InvalidationRight
<1>2. /\ pruner'.pc = "invalidate" /\ pruner'.root = r /\ pruner'.by = y /\ pruner'.calls = s
      /\ pruner' \in [pc : {"invalidate"}, txs : SUBSET Relayed, left : SUBSET Updates,
                      root : {r}, by : {y}, calls : {s}]
  BY <1>1 DEF PrunerTyped
<1>3. InvalidationRight'
  <2>1. Doomed(pruner.root)'
    BY <1>2 DEF Doomed, Free
  <2>2. pruner'.calls \in Seq(Calls(pruner'.root))
    BY <1>2
  <2> QED
    BY <1>1, <1>2, <2>1, <2>2 DEF InvalidationRight, Replaces, Calls, Free
<1> QED
  BY <1>2, <1>3 DEF PrunerTyped

LEMMA RestRight ==
  ASSUME pruner' = AtRest
  PROVE  PrunerTyped' /\ InvalidationRight'
BY DEF AtRest, PrunerTyped, InvalidationRight

LEMMA SameDoomed ==
  ASSUME UNCHANGED vars, NEW t, Doomed(t)
  PROVE  Doomed(t)'
BY TipRests
   DEF Doomed, Free, Within, Queued, Current, ExtendsTip, TipHeight, AllStored, Stored,
       MintedIn, ConfirmedIn, IsMinted, IsConfirmed, vars

LEMMA DescendRight ==
  ASSUME ValidChains, TypeInv, IndexInv, PrunerTyped, InvalidationRight, Descend
  PROVE  PrunerTyped' /\ InvalidationRight'
<1>1. PICK r, s, n : r = pruner.root /\ s = pruner.calls /\ n = Len(s)
  OBVIOUS
<1>2. /\ pruner.pc = "invalidate" /\ n > 0 /\ UNCHANGED vars
      /\ Depth = n /\ Call = s[n]
  BY <1>1 DEF Descend, Depth, Call
<1>3. PICK d \in s[n].todo :
        pruner' = [pruner EXCEPT
          !.calls = Append([pruner.calls EXCEPT ![n].todo = s[n].todo \ {d}], NewCall(d[2]))]
  BY <1>1, <1>2 DEF Descend
<1>4. /\ Replaces(pruner.by, r) /\ Doomed(r) /\ s \in Seq(Calls(r))
      /\ s # <<>> => s[1].tx = r
  BY <1>1, <1>2 DEF InvalidationRight
<1>5. s # <<>> /\ s[n] \in Calls(r) /\ n \in 1 .. Len(s)
  BY <1>1, <1>2, <1>4, CallsGoOn
<1>6. d[2] \in Txs /\ Free(r) \subseteq Free(d[2])
  BY <1>3, <1>5 DEF Calls
<1>7. r \in Txs /\ PendingRight(coins)
  BY <1>4, RelayedTxs DEF Replaces, IndexInv
<1>8. NewCall(d[2]) \in Calls(r)
  BY <1>6, <1>7, NewCallRight
<1>9. PICK u : u = [s EXCEPT ![n].todo = s[n].todo \ {d}]
  OBVIOUS
<1>10. u \in Seq(Calls(r))
  BY <1>1, <1>4, <1>5, <1>9, CallsGoOn
<1>11. Len(u) = n /\ u[1].tx = r
  BY <1>1, <1>4, <1>5, <1>9
<1>12. PICK v : v = Append(u, NewCall(d[2]))
  OBVIOUS
<1>13. v \in Seq(Calls(r)) /\ v[1].tx = r
  BY <1>1, <1>2, <1>8, <1>10, <1>11, <1>12
<1>14. pruner' = [pruner EXCEPT !.calls = v]
  BY <1>1, <1>3, <1>9, <1>12
<1> QED
  BY <1>1, <1>2, <1>4, <1>13, <1>14, SameDoomed, StackRight

LEMMA UnwrittenRight ==
  ASSUME ValidChains, TypeInv, TreeInv, IndexInv, Taken, ReplacedRight(txs),
         PrunerTyped, InvalidationRight, Unwritten, SettledStays'
  PROVE  PrunerTyped' /\ InvalidationRight'
<1>1. CASE Invalidation
  <2>1. PICK r, s : r = pruner.root /\ s = <<NewCall(r)>>
    OBVIOUS
  <2>2. pruner.pc = "invalidate" /\ pruner' = [pruner EXCEPT !.calls = s] /\ UNCHANGED vars
    BY <1>1, <2>1 DEF Invalidation
  <2>3. r \in Txs /\ Doomed(r) /\ PendingRight(coins)
    BY <2>1, <2>2, RelayedTxs DEF InvalidationRight, Replaces, IndexInv
  <2>4. NewCall(r) \in Calls(r) /\ NewCall(r).tx = r
    BY <2>3, NewCallRight DEF NewCall
  <2>5. s \in Seq(Calls(r)) /\ s[1].tx = r
    BY <2>1, <2>4
  <2> QED
    BY <2>1, <2>2, <2>3, <2>5, SameDoomed, StackRight
<1>2. CASE Stop
  BY <1>2, RestRight DEF Stop
<1>3. ASSUME NEW t \in Relayed, LookOld(t)
      PROVE  PrunerTyped' /\ InvalidationRight'
  BY <1>3, LookOldRight DEF IndexInv
<1>4. ASSUME NEW c \in Coins, LookInvalid(c)
      PROVE  PrunerTyped' /\ InvalidationRight'
  BY <1>4, LookInvalidRight
<1> QED
  BY <1>1, <1>2, <1>3, <1>4, DescendRight DEF Unwritten

LEMMA WriteInvalidRight ==
  ASSUME TypeInv, PrunerTyped, InvalidationRight, WriteInvalid
  PROVE  PrunerTyped' /\ InvalidationRight'
<1>1. PICK r, s, n : r = pruner.root /\ s = pruner.calls /\ n = Len(s)
  OBVIOUS
<1>2. PICK update \in Updates : Updated(update)
  BY DEF WriteInvalid, InvalidateTxs, InvalidateMinted, InvalidateSpent, Updates
<1>3. /\ pruner.pc = "invalidate" /\ n > 0 /\ Depth = n /\ Call = s[n]
  BY <1>1, <1>2 DEF Updated, Depth, Call
<1>4. /\ Doomed(r) /\ s \in Seq(Calls(r))
      /\ s # <<>> => s[1].tx = r
  BY <1>1, <1>3 DEF InvalidationRight
<1>5. s # <<>> /\ s[n] \in Calls(r) /\ n \in Nat \ {0} /\ n \in 1 .. Len(s)
  BY <1>1, <1>3, <1>4, CallsGoOn
<1>6. Doomed(r)'
  BY <1>4, DoomedPruned
<1>7. CASE pruner' = AtRest
  BY <1>7, RestRight
<1>8. CASE pruner' = [pruner EXCEPT !.calls[n].left = @ \ {update}]
  <2>1. PICK u : u = [s EXCEPT ![n].left = s[n].left \ {update}]
    OBVIOUS
  <2>2. s[n].left \ {update} \in SUBSET Updates
    BY <1>5 DEF Calls
  <2>3. u \in Seq(Calls(r))
    BY <1>1, <1>4, <1>5, <2>1, <2>2, CallsGoOn
  <2>4. u[1].tx = r
    BY <1>1, <1>4, <1>5, <2>1
  <2>5. pruner' = [pruner EXCEPT !.calls = u]
    BY <1>1, <1>8, <2>1 DEF PrunerTyped
  <2> QED
    BY <1>1, <1>3, <1>6, <2>3, <2>4, <2>5, StackRight
<1>9. CASE n > 1 /\ pruner' = [pruner EXCEPT !.calls = SubSeq(@, 1, n - 1)]
  <2>1. PICK u : u = SubSeq(s, 1, n - 1)
    OBVIOUS
  <2>2. u \in Seq(Calls(r)) /\ u[1] = s[1]
    BY <1>1, <1>4, <1>5, <1>9, <2>1
  <2>3. pruner' = [pruner EXCEPT !.calls = u]
    BY <1>1, <1>9, <2>1 DEF PrunerTyped
  <2> QED
    BY <1>1, <1>3, <1>4, <1>5, <1>6, <2>2, <2>3, StackRight
<1> QED
  BY <1>2, <1>3, <1>7, <1>8, <1>9 DEF Updated

LEMMA WriteOldRight ==
  ASSUME PrunerTyped, WriteOld
  PROVE  PrunerTyped' /\ InvalidationRight'
<1>1. PICK update \in Updates : Removed(update)
  BY DEF WriteOld, ExpireTxs, ExpireMinted, ExpireSpent, Updates
<1>2. CASE pruner' = [pruner EXCEPT !.left = @ \ {update}]
  <2>1. pruner.pc = "expire"
    BY <1>1 DEF Removed
  <2> QED
    BY <1>2, <2>1 DEF PrunerTyped, InvalidationRight
<1> QED
  BY <1>1, <1>2, RestRight DEF Removed

-----------------------------------------------------------------------------
(* The invariant.                                                          *)

PruneInv ==
  /\ TypeInv /\ TreeInv /\ IndexInv /\ Taken
  /\ ReplacedRight(txs) /\ VictimsRight
  /\ PrunerTyped /\ InvalidationRight

Hypotheses == OnePeer /\ ValidChains /\ Compatible /\ CrashesHeal

LEMMA PTyped ==
  ASSUME TypeInv, [PNext]_pvars
  PROVE  TypeInv'
BY StepIs, StepTyped, PruningTyped

LEMMA PInit_Inv ==
  ASSUME OnePeer, PInit
  PROVE  PruneInv
<1>1. Init /\ pruner = AtRest
  BY DEF PInit
<1>2. TypeInv /\ TreeInv /\ IndexInv /\ Taken
  BY <1>1, InitTyped, InitInTree, InitMatches, InitTaken
<1>3. ReplacedRight(txs) /\ VictimsRight
  BY <1>1 DEF Init, ReplacedRight, VictimsRight, VictimOK
<1>4. PrunerTyped /\ InvalidationRight
  BY <1>1 DEF PrunerTyped, InvalidationRight, AtRest
<1> QED
  BY <1>2, <1>3, <1>4 DEF PruneInv

LEMMA StepKeepsInv ==
  ASSUME Hypotheses, PruneInv, [Next]_vars, pruner' = pruner \/ (UNCHANGED vars /\ Unwritten),
         SettledStays'
  PROVE  PruneInv'
<1>1. TypeInv' /\ TreeInv' /\ IndexInv'
  BY StepTyped, StepInTree, StepMatches DEF Hypotheses, PruneInv, TreeStep
<1>2. Taken' /\ ReplacedRight(txs') /\ VictimsRight'
  BY TakenKept, ReplacedKept, VictimsKept DEF Hypotheses, PruneInv
<1>3. CASE pruner' = pruner
  <2>1. PICK r, y : r = pruner.root /\ y = pruner.by
    OBVIOUS
  <2>2. CASE pruner.pc = "invalidate"
    <3>1. Replaces(y, r) /\ Doomed(r)
      BY <2>1, <2>2 DEF PruneInv, InvalidationRight
    <3>2. best' \in Blocks /\ L!ConfirmedAt(best', y) # {}
      BY <1>1, <1>3, <2>1, <2>2 DEF SettledStays, TypeInv, NetTyped, L!ConfirmedAt
    <3>3. best' \in Free(r)
      BY <3>1, <3>2, BestFree DEF Hypotheses
    <3>4. Doomed(r)'
      BY <3>1, <3>3, DoomedKept DEF Hypotheses, PruneInv
    <3>5. Doomed(pruner.root)'
      BY <1>3, <2>1, <3>4 DEF Doomed, Free
    <3> QED
      BY <1>1, <1>2, <1>3, <3>5
         DEF PruneInv, PrunerTyped, InvalidationRight, Replaces, Calls, Free
  <2>3. CASE pruner.pc # "invalidate"
    BY <1>1, <1>2, <1>3, <2>3 DEF PruneInv, PrunerTyped, InvalidationRight
  <2> QED
    BY <2>2, <2>3
<1>4. CASE Unwritten
  BY <1>1, <1>2, <1>4, UnwrittenRight DEF PruneInv, Hypotheses
<1> QED
  BY <1>3, <1>4

LEMMA WritesKeepInv ==
  ASSUME Hypotheses, PruneInv, WriteInvalid \/ WriteOld
  PROVE  /\ PruneInv'
         /\ SameMints(coins, coins') /\ SameSpends(coins, coins') /\ SameTxs(txs, txs')
<1>1. TypeInv' /\ TreeInv'
  BY PruningTyped, TreePruned DEF PruneInv
<1>2. IndexInv' /\ SameMints(coins, coins') /\ SameTxs(txs, txs')
  <2>1. CASE WriteInvalid
    <3>1. PICK r, s : r = pruner.root /\ s = pruner.calls
      OBVIOUS
    <3>2. pruner.pc = "invalidate" /\ Len(s) > 0 /\ Call = s[Len(s)]
      BY <2>1, <3>1 DEF WriteInvalid, InvalidateTxs, InvalidateMinted, InvalidateSpent,
                        Updated, Depth, Call
    <3>3. Doomed(r) /\ s \in Seq(Calls(r))
      BY <3>1, <3>2 DEF PruneInv, InvalidationRight
    <3>4. Call \in Calls(r)
      BY <3>2, <3>3, CallsGoOn
    <3>5. Call.tx \in Txs /\ Free(r) \subseteq Free(Call.tx)
      BY <3>4 DEF Calls
    <3>6. Within(Free(Call.tx))
      BY <3>3, <3>5, WithinMore DEF Doomed
    <3> QED
      BY <2>1, <3>5, <3>6, WriteInvalidMatch DEF PruneInv, Hypotheses
  <2>2. CASE WriteOld
    BY <2>2, WriteOldMatch DEF PruneInv
  <2> QED
    BY <2>1, <2>2
<1>3. SameSpends(coins, coins')
  BY PrunedSpends DEF PruneInv, IndexInv
<1>4. Taken' /\ ReplacedRight(txs')
  BY TakenPruned, ReplacedPruned DEF PruneInv
<1>5. VictimsRight'
  <2>1. imp' = imp /\ Current' = Current
    BY PrunedRest DEF Current
  <2> QED
    BY <2>1, VictimsRest DEF PruneInv
<1>6. PrunerTyped' /\ InvalidationRight'
  BY WriteInvalidRight, WriteOldRight DEF PruneInv
<1> QED
  BY <1>1, <1>2, <1>3, <1>4, <1>5, <1>6 DEF PruneInv

LEMMA PruneInvKept ==
  ASSUME Hypotheses, PruneInv, [PNext]_pvars, SettledStays'
  PROVE  PruneInv'
BY StepIs, StepKeepsInv, WritesKeepInv

LEMMA WritesSpareMined ==
  ASSUME Hypotheses, PruneInv, WriteInvalid \/ WriteOld
  PROVE  /\ \A t \in Txs : Seen(t) /\ txs[t].height >= 0 => txs'[t] = txs[t]
         /\ \A c \in Coins : Known(c) =>
              /\ coins[c].mint >= 0 => coins'[c].mint = coins[c].mint
              /\ coins[c].spent >= 0 => coins'[c].spent = coins[c].spent
<1>1. TypeInv /\ SameMints(coins, coins') /\ SameTxs(txs, txs')
  BY WritesKeepInv DEF PruneInv
<1>2. ASSUME NEW t \in Txs, Seen(t), txs[t].height >= 0
      PROVE  txs'[t] = txs[t]
  <2>1. txs[t].height \in Nat
    BY <1>1, <1>2, TxOf DEF Seen, Pending, Conflicting, Expired
  <2>2. PICK h \in Nat : txs[t].height = h
    BY <2>1
  <2>3. txs'[t] # NoDoc /\ txs'[t].height = h
    BY <1>1, <1>2, <2>2 DEF SameTxs, IsConfirmed, Seen
  <2> QED
    BY <1>1, <2>3, TxWritten DEF Conflicting, Expired
<1>3. ASSUME NEW c \in Coins, Known(c)
      PROVE  /\ coins[c].mint >= 0 => coins'[c].mint = coins[c].mint
             /\ coins[c].spent >= 0 => coins'[c].spent = coins[c].spent
  <2>1. coins[c] # NoDoc /\ coins[c] \in CoinDoc
    BY <1>1, <1>3, CoinOf DEF Known
  <2>2. coins[c].mint >= 0 => coins[c].mint \in Nat
    BY <2>1 DEF CoinDoc, Pending, Conflicting, Expired
  <2>3. coins[c].mint >= 0 => coins'[c].mint = coins[c].mint
    BY <1>1, <2>1, <2>2 DEF SameMints, IsMinted
  <2>4. coins'[c].spent = coins[c].spent \/ coins[c].spent = Pending
    BY <1>1, <2>1, CoinWritten
  <2> QED
    BY <2>3, <2>4 DEF Pending
<1> QED
  BY <1>2, <1>3

-----------------------------------------------------------------------------
(* What follows.                                                           *)

\* Every document is typed while the service prunes, with no hypothesis but those on
\* the constants.
THEOREM PruningTypes == PSpec => []TypeInv
<1>1. PInit => TypeInv
  BY InitTyped DEF PInit
<1>2. TypeInv /\ [PNext]_pvars => TypeInv'
  BY PTyped
<1> QED
  BY <1>1, <1>2, PTL DEF PSpec

\* The invariant of the pruning, for every tree of valid chains, every depth of the
\* calls of _invalidateTx, and every end of the service: what is stored is of one
\* chain, what is replaced is replaced by a transaction the mempool never held, and
\* what the service is at work to invalidate can be in no block the index will take
\* up, as long as the peers do not leave the replacement out again meanwhile.
THEOREM PruningInvariant ==
  ASSUME Hypotheses
  PROVE  PSpec /\ []SettledStays => []PruneInv
<1>1. PInit => PruneInv
  BY PInit_Inv DEF Hypotheses
<1>2. PruneInv /\ [PNext]_pvars /\ SettledStays' => PruneInv'
  BY PruneInvKept
<1> QED
  BY <1>1, <1>2, PTL DEF PSpec

\* The service disturbs nothing of the index: between two blocks it matches its chain
\* however the looks and the writes fall among the steps of the sync.
THEOREM PrunedIndexCorrect ==
  ASSUME Hypotheses
  PROVE  PSpec /\ []SettledStays => []IndexMatchesChain
<1>1. PruneInv => IndexMatchesChain
  BY StoredMatches, MatchesFollow DEF PruneInv, IndexMatchesChain
<1> QED
  BY <1>1, PruningInvariant, PTL

\* So the repository's own verification of the index finds nothing wrong with a
\* processed block while the service prunes.
THEOREM PrunedIndexVerified ==
  ASSUME Hypotheses
  PROVE  PSpec /\ []SettledStays =>
           [](Quiet => \A b \in Processed :
                ~ (CorruptedBlock(b) \/ DupeBlockHeight(b) \/ CoinShouldBeSpent(b)
                   \/ CoinHeightMismatch(b)))
<1>1. PruneInv => (Quiet => \A b \in Processed :
                     ~ (CorruptedBlock(b) \/ DupeBlockHeight(b) \/ CoinShouldBeSpent(b)
                        \/ CoinHeightMismatch(b)))
  BY QuietVerified DEF PruneInv, Hypotheses
<1> QED
  BY <1>1, PruningInvariant, PTL

\* The pruning takes nothing from a block, even from one that came between the look
\* and a write, or between two writes: for every tree of valid chains, every depth
\* INV_MATURE_LEN and any number of descendants, as long as the peers do not leave a
\* settled replacement out again while the service marks what it replaces.
THEOREM MinedKept ==
  ASSUME Hypotheses
  PROVE  PSpec /\ []SettledStays => MinedIsNotPruned
<1>1. PruneInv /\ [PNext]_pvars =>
        [pruner' # pruner =>
           /\ \A t \in Txs : Seen(t) /\ txs[t].height >= 0 => txs'[t] = txs[t]
           /\ \A c \in Coins : Known(c) =>
                /\ coins[c].mint >= 0 => coins'[c].mint = coins[c].mint
                /\ coins[c].spent >= 0 => coins'[c].spent = coins[c].spent]_pvars
  <2> SUFFICES ASSUME PruneInv, [PNext]_pvars, pruner' # pruner
               PROVE  (WriteInvalid \/ WriteOld) \/ (coins' = coins /\ txs' = txs)
    BY WritesSpareMined
  <2> QED
    BY StepIs DEF vars
<1> QED
  BY <1>1, PruningInvariant, PTL DEF PSpec, MinedIsNotPruned

\* Nothing but a rollback takes a confirmed spend away, not the service either,
\* whatever the chains and the mempool are.
THEOREM PrunedSpendsKept == PSpec => ConfirmedSpendKept
<1>1. ASSUME TypeInv, [PNext]_pvars, NEW c \in Coins, coins[c] # NoDoc,
             coins[c].spent >= 0, coins[c] # coins'[c]
      PROVE  sync.pc \in {"reorg", "unspend"} \/ SpendKept(c)
  <2>1. CASE [Next]_vars
    BY <1>1, <2>1, StepKeepsSpend DEF Known
  <2>2. CASE WriteInvalid \/ WriteOld
    <3>1. coins[c].spent # Pending
      BY <1>1 DEF Pending
    <3> QED
      BY <1>1, <2>2, <3>1, CoinWritten DEF SpendKept
  <2> QED
    BY <1>1, <2>1, <2>2, StepIs
<1>2. TypeInv /\ [PNext]_pvars =>
        [\A c \in Coins :
           (Known(c) /\ coins[c].spent >= 0 /\ coins[c] # coins'[c]) =>
             \/ sync.pc \in {"reorg", "unspend"}
             \/ coins'[c] # NoDoc /\ coins'[c].spent = coins[c].spent
                                  /\ coins'[c].by = coins[c].by]_vars
  BY <1>1 DEF SpendKept, Known
<1> QED
  BY <1>2, PruningTypes, PTL DEF PSpec, ConfirmedSpendKept

\* The tip of the index follows the tree of blocks while the service prunes, if one
\* peer answers and its chain is more than the genesis block.
THEOREM PrunedTipFollows ==
  ASSUME OnePeer
  PROVE  PSpec => FollowsLedger
<1>1. PInit => TreeInv /\ L!Init
  BY InitInTree DEF PInit, L!Init
<1>2. TypeInv /\ TreeInv /\ [PNext]_pvars => TreeInv' /\ [L!Next]_LocalTip
  <2>1. ASSUME TypeInv, TreeInv, [Next]_vars
        PROVE  TreeInv' /\ [L!Next]_LocalTip
    BY <2>1, StepInTree, TipSteps DEF TreeStep
  <2>2. ASSUME TreeInv, WriteInvalid \/ WriteOld
        PROVE  TreeInv' /\ [L!Next]_LocalTip
    BY <2>2, TreePruned
  <2> QED
    BY <2>1, <2>2, StepIs
<1> QED
  BY <1>1, <1>2, PruningTypes, PTL DEF PSpec, FollowsLedger, L!Spec
=============================================================================
