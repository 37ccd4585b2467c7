------------------------------ MODULE UtxoIndex ------------------------------
(***************************************************************************)
(* The index bitcore-node keeps of a UTXO chain: the collections blocks,   *)
(* transactions and coins, the single-threaded sync of a worker            *)
(* (modules/bitcoin/p2p.ts), the storing of a block and the rollback of a  *)
(* reorganisation (models/block.ts), and the import of a batch of          *)
(* transactions (models/transaction.ts), which the sync runs for a block   *)
(* and the handler of 'peertx' runs for each transaction of the mempool,   *)
(* at the same time.  Every write to the database is an action; a crash    *)
(* may come between any two of them.                                       *)
(***************************************************************************)
EXTENDS Integers, Sequences, FiniteSets

CONSTANTS
  Blocks, Genesis, Parent, BlockTxs, Inputs, Outputs, NoBlock,
  Syncer,        \* the importer that works for the sync
  Relayed,       \* transactions the peers may announce to the mempool
  NoTx,
  FirstBest,     \* the block the peers' chain ends in at the start
  LocatorLimit,  \* how many hashes getLocatorHashes sends, 30 in the code
  MaxCrashes,    \* bound: crashes of the worker
  CrashPoints,   \* where in the sync a crash is looked at,
  CrashBlocks,   \* and the storing of which blocks it may interrupt
  MaxLate        \* bound: answers to GetHeaders that a second peer repeats

ASSUME IndexAssumption ==
  /\ Genesis \in Blocks /\ FirstBest \in Blocks /\ NoBlock \notin Blocks
  /\ Parent \in [Blocks \ {Genesis} -> Blocks]
  /\ \A S \in SUBSET Blocks : S # {} =>          \* hashes have no cycles
       \E b \in S : b = Genesis \/ Parent[b] \notin S
  /\ DOMAIN BlockTxs = Blocks /\ DOMAIN Outputs = DOMAIN Inputs
  /\ Relayed \subseteq DOMAIN Inputs /\ Syncer \notin DOMAIN Inputs
  /\ NoTx \notin DOMAIN Inputs
  /\ LocatorLimit \in Nat \ {0} /\ MaxCrashes \in Nat /\ MaxLate \in Nat

Txs == DOMAIN Inputs
Coins == UNION {Outputs[t] : t \in Txs}
Importers == {Syncer} \cup Relayed

\* SpentHeightIndicators
Pending == -1
Unspent == -2
Conflicting == -3
Expired == -5       \* only MempoolPruning sets it

VARIABLES
  blocks,    \* hash -> document of the collection blocks, or NoDoc
  coins,     \* outpoint -> document of the collection coins, or NoDoc
  txs,       \* txid -> document of the collection transactions, or NoDoc
  synced,    \* known: the worker takes the initial sync for complete;
             \* stored: state.initialSyncComplete says so, or is due to
  sync,      \* the call of sync(): where it is, the blocks of its headers
  imp,       \* importer -> where its batchImport is
  best,      \* the block the peers' chain ends in
  announced, \* a message with a new block is on its way
  late,      \* a repeated answer to GetHeaders that is on its way, or NoReply
  crashes, repeats

db == <<blocks, coins, txs, synced>>
net == <<best, announced>>
vars == <<blocks, coins, txs, synced, sync, imp, best, announced, late,
          crashes, repeats>>

NoDoc == [absent |-> TRUE]
NoReply == <<NoBlock>>

Stored(b) == blocks[b] # NoDoc
Known(c) == coins[c] # NoDoc
Seen(t) == txs[t] # NoDoc

AllStored == {b \in Blocks : Stored(b)}

\* getLocalTip: the processed block of the greatest height.
Processed == {b \in Blocks : Stored(b) /\ blocks[b].processed}
LocalTip ==
  IF Processed = {} THEN NoBlock
  ELSE CHOOSE b \in Processed :
         \A d \in Processed : blocks[d].height <= blocks[b].height

L == INSTANCE Ledger WITH tip <- LocalTip

TipHeight == IF LocalTip = NoBlock THEN 0 ELSE blocks[LocalTip].height

\* No block is being stored and nothing is being rolled back.
Quiet == sync.pc \in {"idle", "begin", "askGenesis", "ask", "add"}

StoredParent(b) == b # Genesis /\ Stored(Parent[b])
Current == Head(sync.queue)

Init ==
  /\ blocks = [b \in Blocks |-> NoDoc]
  /\ coins = [c \in Coins |-> NoDoc]
  /\ txs = [t \in Txs |-> NoDoc]
  /\ synced = [known |-> FALSE, stored |-> "no"]
  /\ sync = [pc |-> "begin", queue |-> <<>>, left |-> {}, from |-> 0]
  /\ imp = [i \in Importers |-> [pc |-> "off", todo |-> {}, victim |-> NoTx]]
  /\ best = FirstBest
  /\ announced = FALSE
  /\ late = NoReply
  /\ crashes = 0 /\ repeats = 0
-----------------------------------------------------------------------------
(* Headers.                                                                *)

\* Fault: the tip is left out of the locators.
BelowTip == {b \in Processed : blocks[b].height < TipHeight}

\* getLocatorHashes: the highest processed blocks, or the zero hash.
Locators ==
  IF Cardinality(Processed) < 2 THEN {}
  ELSE {b \in Processed :
          Cardinality({d \in Processed : blocks[d].height > blocks[b].height})
            < LocatorLimit}

\* What a peer answers: its chain above the highest locator it has in it,
\* all of its chain but the genesis block when it has none.
HeadersAfter(locators) ==
  LET chain == L!ChainOf[best]
      common == {i \in 1..Len(chain) : chain[i] \in locators}
      last == IF common = {} THEN 1
              ELSE CHOOSE i \in common : \A j \in common : j <= i
  IN SubSeq(chain, last + 1, Len(chain))

\* getHeaders takes the first message 'headers' that comes while it waits.
\* With several peers the request is answered more than once, and an answer
\* left over from one request may be the first that the next one sees.  One
\* that comes when nobody waits is dropped: it is never taken.
Answers == {HeadersAfter(Locators)} \cup (IF late = NoReply THEN {} ELSE {late})

Receive(headers) ==
  \/ /\ headers = late
     /\ late' \in {NoReply, HeadersAfter(Locators)}
     /\ UNCHANGED repeats
  \/ /\ headers = HeadersAfter(Locators)
     /\ UNCHANGED <<late, repeats>>
  \/ /\ headers = HeadersAfter(Locators)
     /\ late = NoReply /\ repeats < MaxLate
     /\ late' = headers
     /\ repeats' = repeats + 1

\* The beginning of sync(): below height 1 the genesis block comes first.
Begin ==
  /\ sync.pc = "begin"
  /\ synced' = [synced EXCEPT !.known = synced.stored = "yes"]
  /\ sync' = [sync EXCEPT !.pc = IF TipHeight = 0 THEN "askGenesis" ELSE "ask",
                          !.queue = <<>>]
  /\ UNCHANGED <<blocks, coins, txs, imp, net, late, crashes, repeats>>

\* handleGenesisBlock: the parent of the first header is taken for the genesis
\* block.
AskGenesis ==
  /\ sync.pc = "askGenesis"
  /\ \E headers \in Answers :
       /\ Receive(headers)
       /\ sync' = IF headers = <<>> THEN [sync EXCEPT !.pc = "ask"]
                  ELSE [sync EXCEPT !.pc = "add", !.queue = <<Parent[Head(headers)]>>]
  /\ UNCHANGED <<db, imp, net, crashes>>

\* The loop over the headers; no headers end the sync, which is then recorded.
Ask ==
  /\ sync.pc = "ask"
  /\ \E headers \in Answers :
       /\ Receive(headers)
       /\ IF headers = <<>>
          THEN /\ sync' = [sync EXCEPT !.pc = "idle"]
               /\ synced' = IF synced.stored = "no"
                            THEN [synced EXCEPT !.stored = "due"] ELSE synced
          ELSE /\ sync' = [sync EXCEPT !.pc = "add", !.queue = headers]
               /\ UNCHANGED synced
  /\ UNCHANGED <<blocks, coins, txs, imp, net, crashes>>

\* $addToSet of initialSyncComplete; the next sync may have begun.
RecordSynced ==
  /\ synced.stored = "due"
  /\ synced' = [synced EXCEPT !.stored = "yes"]
  /\ UNCHANGED <<blocks, coins, txs, sync, imp, net, late, crashes, repeats>>
-----------------------------------------------------------------------------
(* addBlock: handleReorg, then processBlock.                               *)

\* Fault: the block whose parent is stored is never taken for a fork.
ExtendsAnyBlock(b) == LocalTip = NoBlock \/ TipHeight = 0 \/ StoredParent(b)

\* The two early returns of handleReorg.
ExtendsTip(b) ==
  \/ LocalTip = NoBlock
  \/ TipHeight = 0
  \/ b # Genesis /\ Parent[b] = LocalTip

\* Fault: the rollback starts above the tip.
RollbackNothing(b) == TipHeight + 1

\* Everything from the stored parent of the header on is rolled back, the
\* parent too; without one, the tip.
RollbackHeight(b) ==
  IF StoredParent(b) THEN blocks[Parent[b]].height ELSE TipHeight

AddBlock ==
  /\ sync.pc = "add"
  /\ sync' =
       IF ExtendsTip(Current) THEN [sync EXCEPT !.pc = "store"]
       ELSE [sync EXCEPT !.pc = "reorg", !.from = RollbackHeight(Current),
                         !.left = {"blocks", "txs", "coins"}]
  /\ UNCHANGED <<db, imp, net, late, crashes, repeats>>

\* Promise.all of three deletions, which end in any order.
Deleted(what) ==
  /\ sync.pc = "reorg" /\ what \in sync.left
  /\ LET left == sync.left \ {what}
     IN sync' = [sync EXCEPT !.left = left,
                             !.pc = IF left = {} THEN "unspend" ELSE "reorg"]

DeleteBlocks ==
  /\ Deleted("blocks")
  /\ blocks' = [b \in Blocks |->
       IF Stored(b) /\ blocks[b].height >= sync.from THEN NoDoc ELSE blocks[b]]
  /\ UNCHANGED <<coins, txs, synced, imp, net, late, crashes, repeats>>

DeleteTxs ==
  /\ Deleted("txs")
  /\ txs' = [t \in Txs |->
       IF Seen(t) /\ txs[t].height >= sync.from THEN NoDoc ELSE txs[t]]
  /\ UNCHANGED <<blocks, coins, synced, imp, net, late, crashes, repeats>>

DeleteCoins ==
  /\ Deleted("coins")
  /\ coins' = [c \in Coins |->
       IF Known(c) /\ coins[c].mint >= sync.from THEN NoDoc ELSE coins[c]]
  /\ UNCHANGED <<blocks, txs, synced, imp, net, late, crashes, repeats>>

\* Fault: the rollback leaves the spends of the blocks it deletes.
KeptSpent(coin) == coin

\* What becomes of a coin spent at or above the height.
GivenBack(coin) == [coin EXCEPT !.spent = Unspent, !.by = NoTx]

\* Then the spends are undone; addBlock rejects with 'reorg' and sync()
\* starts again.
Unspend ==
  /\ sync.pc = "unspend"
  /\ coins' = [c \in Coins |->
       IF Known(c) /\ coins[c].spent >= sync.from THEN GivenBack(coins[c])
       ELSE coins[c]]
  /\ sync' = [sync EXCEPT !.pc = "begin"]
  /\ UNCHANGED <<blocks, txs, synced, imp, net, late, crashes, repeats>>

BlockHeight(b) == IF StoredParent(b) THEN blocks[Parent[b]].height + 1 ELSE 0

\* getBlockOp
BlockOp(b) == [height |-> BlockHeight(b), next |-> NoBlock, processed |-> FALSE]

Store ==
  /\ sync.pc = "store"
  /\ blocks' = [blocks EXCEPT ![Current] = BlockOp(Current)]
  /\ sync' = [sync EXCEPT !.pc = "link"]
  /\ UNCHANGED <<coins, txs, synced, imp, net, late, crashes, repeats>>

\* The parent learns its nextBlockHash, and batchImport is called.
Link ==
  /\ sync.pc = "link"
  /\ blocks' = IF StoredParent(Current)
               THEN [blocks EXCEPT ![Parent[Current]].next = Current] ELSE blocks
  /\ sync' = [sync EXCEPT !.pc = "import"]
  /\ imp' = [imp EXCEPT ![Syncer].pc = "mint"]
  /\ UNCHANGED <<coins, txs, synced, net, late, crashes, repeats>>

\* The last write of processBlock; the next header, or the next request.
MarkProcessed ==
  /\ sync.pc = "processed"
  /\ blocks' = [blocks EXCEPT ![Current].processed = TRUE]
  /\ sync' = [sync EXCEPT !.queue = Tail(@),
                          !.pc = IF Len(sync.queue) = 1 THEN "ask" ELSE "add"]
  /\ UNCHANGED <<coins, txs, synced, imp, net, late, crashes, repeats>>
-----------------------------------------------------------------------------
(* batchImport: coins minted, mempool pruned, coins spent, transactions.   *)

Batch(i) == IF i = Syncer THEN BlockTxs[Current] ELSE <<i>>
ImportHeight(i) == IF i = Syncer THEN blocks[Current].height ELSE Pending
InBatch(i, t) == \E k \in 1..Len(Batch(i)) : Batch(i)[k] = t

\* The place in the batch of the transaction pruneMempool comes to next.
Upcoming(places) == CHOOSE k \in places : \A j \in places : k <= j
Pruning(i) == Batch(i)[Upcoming(imp[i].todo)]

Rest(i) == UNCHANGED <<blocks, synced, net, late, crashes, repeats>>

\* 'peertx' of a transaction whose hash is not cached: one that is possible
\* on the peers' chain when it is sent.
Relay(t) ==
  /\ imp[t].pc = "off"
  /\ L!ConfirmedAt(best, t) = {}
  /\ \A c \in L!Spends(t) : L!SpentAt(best, c) = {}
  /\ imp' = [imp EXCEPT ![t].pc = "mint"]
  /\ UNCHANGED <<db, sync, net, late, crashes, repeats>>

\* streamMintOps: a coin that exists takes the height of the block; the
\* mempool only inserts (toMempoolSafeUpsert).
Mint(i, c) ==
  IF ~ Known(c) THEN [mint |-> ImportHeight(i), spent |-> Unspent, by |-> NoTx]
  ELSE IF i = Syncer THEN [coins[c] EXCEPT !.mint = ImportHeight(i)]
  ELSE coins[c]

ImportMint(i) ==
  /\ imp[i].pc = "mint"
  /\ coins' = [c \in Coins |->
       IF \E t \in Txs : InBatch(i, t) /\ c \in Outputs[t] THEN Mint(i, c)
       ELSE coins[c]]
  /\ LET spenders == {k \in 1..Len(Batch(i)) : Inputs[Batch(i)[k]] # <<>>}
         prunes == i # Syncer \/ synced.known
     IN imp' = [imp EXCEPT
          ![i].pc = IF prunes /\ spenders # {} THEN "prune" ELSE "spend",
          ![i].todo = IF prunes THEN spenders ELSE {}]
  /\ Rest(i) /\ UNCHANGED <<txs, sync>>

Pruned(i) ==
  LET todo == imp[i].todo \ {Upcoming(imp[i].todo)}
  IN imp' = [imp EXCEPT ![i].todo = todo, ![i].victim = NoTx,
                        ![i].pc = IF todo = {} THEN "spend" ELSE "prune"]

\* The query of pruneMempool: another transaction of the mempool spends c.
HeldByOther(c, t) == Known(c) /\ coins[c].spent = Pending /\ coins[c].by # t

\* pruneMempool looks, for each transaction of the batch, at its first input
\* only.
PruneFind(i) ==
  /\ imp[i].pc = "prune"
  /\ LET t == Pruning(i)
         c == Inputs[t][1]
     IN IF HeldByOther(c, t)
        THEN imp' = [imp EXCEPT ![i].pc = "invalidate", ![i].victim = coins[c].by]
        ELSE Pruned(i)
  /\ Rest(i) /\ UNCHANGED <<coins, txs, sync>>

\* _invalidateTx, simple: the transaction found above, its outputs, its inputs.
Invalidate(i) ==
  /\ imp[i].pc = "invalidate"
  /\ LET v == imp[i].victim
     IN /\ txs' = IF Seen(v)
                  THEN [txs EXCEPT ![v] = [height |-> Conflicting,
                                           replacedBy |-> Pruning(i)]]
                  ELSE txs
        /\ coins' = [c \in Coins |->
             IF ~ Known(c) THEN NoDoc
             ELSE IF c \in Outputs[v] THEN [coins[c] EXCEPT !.mint = Conflicting]
             ELSE IF coins[c].by = v /\ coins[c].spent = Pending
                  THEN [coins[c] EXCEPT !.spent = Unspent, !.by = NoTx]
             ELSE coins[c]]
  /\ Pruned(i)
  /\ Rest(i) /\ UNCHANGED sync

\* Fault: the spend is written whatever the coin says.
Spendable(c) == Known(c)

\* The filter of streamSpendOps: the coin exists and no block spends it.
MaySpend(c) == Known(c) /\ coins[c].spent < 0

ImportSpend(i) ==
  /\ imp[i].pc = "spend"
  /\ coins' = [c \in Coins |->
       LET spenders == {t \in Txs : InBatch(i, t) /\ c \in L!Spends(t)}
       IN IF MaySpend(c) /\ spenders # {}
          THEN [coins[c] EXCEPT !.spent = ImportHeight(i),
                                !.by = CHOOSE t \in spenders : TRUE]
          ELSE coins[c]]
  /\ imp' = [imp EXCEPT ![i].pc = "doc"]
  /\ Rest(i) /\ UNCHANGED <<txs, sync>>

\* streamTxOps: as for the coins, the mempool only inserts.
ImportTx(i) ==
  /\ imp[i].pc = "doc"
  /\ txs' = [t \in Txs |->
       IF ~ InBatch(i, t) THEN txs[t]
       ELSE IF ~ Seen(t) THEN [height |-> ImportHeight(i), replacedBy |-> NoTx]
       ELSE IF i = Syncer THEN [txs[t] EXCEPT !.height = ImportHeight(i)]
       ELSE txs[t]]
  /\ imp' = [imp EXCEPT ![i].pc = IF i = Syncer THEN "off" ELSE "done"]
  /\ sync' = IF i = Syncer THEN [sync EXCEPT !.pc = "processed"] ELSE sync
  /\ Rest(i) /\ UNCHANGED coins
-----------------------------------------------------------------------------
(* The peers and the process.                                              *)

\* The peers' chain becomes a longer one, and they send its last block.
Switch(b) ==
  /\ L!Height(b) > L!Height(best)
  /\ best' = b
  /\ announced' = TRUE
  /\ UNCHANGED <<db, sync, imp, late, crashes, repeats>>

\* 'peerblock' starts a sync unless one runs; the block itself is not kept.
Announcement ==
  /\ announced
  /\ announced' = FALSE
  /\ sync' = IF sync.pc = "idle" THEN [sync EXCEPT !.pc = "begin"] ELSE sync
  /\ UNCHANGED <<db, imp, best, late, crashes, repeats>>

\* The worker dies and is started again: the database is all that is left.
Crash ==
  /\ crashes < MaxCrashes /\ sync.pc \in CrashPoints
  /\ ~ Quiet => Current \in CrashBlocks
  /\ crashes' = crashes + 1
  /\ sync' = [pc |-> "begin", queue |-> <<>>, left |-> {}, from |-> 0]
  /\ imp' = [i \in Importers |-> [pc |-> "off", todo |-> {}, victim |-> NoTx]]
  /\ announced' = FALSE
  /\ late' = NoReply
  /\ synced' = [known |-> FALSE,
                stored |-> IF synced.stored = "due" THEN "no" ELSE synced.stored]
  /\ UNCHANGED <<blocks, coins, txs, best, repeats>>

Import(i) ==
  ImportMint(i) \/ PruneFind(i) \/ Invalidate(i) \/ ImportSpend(i) \/ ImportTx(i)

SyncStep ==
  \/ Begin \/ AskGenesis \/ Ask \/ AddBlock
  \/ DeleteBlocks \/ DeleteTxs \/ DeleteCoins \/ Unspend
  \/ Store \/ Link \/ MarkProcessed

Next ==
  \/ SyncStep
  \/ \E i \in Importers : Import(i)
  \/ \E t \in Relayed : Relay(t)
  \/ \E b \in Blocks : Switch(b)
  \/ Announcement \/ RecordSynced \/ Crash

\* The worker's own steps are taken, and a message sent arrives.
Fairness ==
  /\ WF_vars(SyncStep)
  /\ \A i \in Importers : WF_vars(Import(i))
  /\ WF_vars(Announcement) /\ WF_vars(RecordSynced)

Spec == Init /\ [][Next]_vars /\ Fairness
-----------------------------------------------------------------------------
(* Properties.                                                             *)

TypeOK ==
  /\ \A b \in Blocks : Stored(b) =>
       blocks[b] \in [height : Nat, next : Blocks \cup {NoBlock}, processed : BOOLEAN]
  /\ \A c \in Coins : Known(c) =>
       /\ coins[c].mint \in Nat \cup {Pending, Conflicting}
       /\ coins[c].spent \in Nat \cup {Pending, Unspent}
       /\ (coins[c].by = NoTx) = (coins[c].spent = Unspent)
  /\ \A t \in Txs : Seen(t) => txs[t].height \in Nat \cup {Pending, Conflicting}
  /\ sync.pc \in {"idle", "begin", "askGenesis", "ask", "add", "reorg", "unspend",
                  "store", "link", "import", "processed"}
  /\ (sync.pc = "import") = (imp[Syncer].pc # "off")

\* What validateDataForBlock reports of a processed block, looking for its
\* transactions by height as it does.
CorruptedBlock(b) ==
  LET h == blocks[b].height
      above == {d \in Processed : blocks[d].height = h + 1}
  IN \/ Cardinality({t \in Txs : Seen(t) /\ txs[t].height = h}) # Len(BlockTxs[b])
     \/ b # LocalTip /\ blocks[b].next \notin above
DupeBlockHeight(b) ==
  \E d \in Processed \ {b} : blocks[d].height = blocks[b].height
CoinShouldBeSpent(b) ==
  \E t \in L!TxsOf(b) : \E c \in L!Spends(t) :
    ~ Known(c) \/ coins[c].spent # blocks[b].height
CoinHeightMismatch(b) ==
  \E t \in Txs : /\ Seen(t) /\ txs[t].height = blocks[b].height
                 /\ \E c \in Outputs[t] :
                      ~ Known(c) \/ coins[c].mint # blocks[b].height

\* Between two blocks the repository's own verification of the index finds
\* nothing wrong with any block the index calls processed: the transactions
\* found at its height are the block's, each coin it spends is spent at its
\* height, the coins of its transactions are minted there, no other block has
\* its height, and nextBlockHash leads up the chain.
VerificationPasses ==
  /\ TypeOK
  /\ Quiet => \A b \in Processed :
       ~ (CorruptedBlock(b) \/ DupeBlockHeight(b) \/ CoinShouldBeSpent(b)
          \/ CoinHeightMismatch(b))

\* The coins and the transactions with a height are those of the chain that
\* ends in the local tip, and nothing of an abandoned fork.
Matches ==
  /\ \A c \in Coins :
       /\ L!MintedAt(LocalTip, c) =
            (IF Known(c) /\ coins[c].mint >= 0 THEN {coins[c].mint} ELSE {})
       /\ L!SpentAt(LocalTip, c) =
            (IF Known(c) /\ coins[c].spent >= 0
             THEN {<<coins[c].spent, coins[c].by>>} ELSE {})
  /\ \A t \in Txs :
       L!ConfirmedAt(LocalTip, t) =
         (IF Seen(t) /\ txs[t].height >= 0 THEN {txs[t].height} ELSE {})

\* Between two blocks the index matches the chain: a rollback undoes all that
\* storing the blocks did, whatever the mempool's imports did meanwhile.  A
\* crash in the middle of a block leaves it half stored until the next sync
\* stores it again; when that has come to its end the index matches again.
IndexMatchesChain ==
  (Quiet /\ (sync.pc = "idle" \/ AllStored = Processed)) => Matches

\* Only a rollback takes a confirmed spend away: no late transaction of the
\* mempool and no replacement overwrites what a block has spent.
ConfirmedSpendKept ==
  [][\A c \in Coins :
       (Known(c) /\ coins[c].spent >= 0 /\ coins[c] # coins'[c]) =>
         \/ sync.pc \in {"reorg", "unspend"}
         \/ coins'[c] # NoDoc /\ coins'[c].spent = coins[c].spent
                              /\ coins'[c].by = coins[c].by]_vars

\* The tip the index reports moves up to a child or back to an ancestor, in
\* whatever order the deletions of a rollback end and wherever a crash falls.
FollowsLedger == L!Spec

\* A rollback is begun only when the tip is not on the chain of the headers that
\* are worked through, so that nothing is given up that would have to be fetched
\* again but the last block in common.
NoNeedlessRollback ==
  [][sync.pc = "add" /\ sync'.pc = "reorg" =>
       LocalTip \notin L!Chain(sync.queue[Len(sync.queue)])]_vars

\* When the peers' chain has come to rest, the index reaches its last block.
CatchesUp == <>[](LocalTip = best)

\* When the pruning of a block's batch ends, no transaction of the mempool
\* still holds a coin the block is about to spend with another one.
PrunedBeforeSpending ==
  [][imp[Syncer].pc \in {"prune", "invalidate"} /\ imp'[Syncer].pc = "spend" =>
       \A t \in L!TxsOf(Current) : \A c \in L!Spends(t) :
         Known(c) /\ coins'[c].spent = Pending => coins'[c].by = t]_vars

\* After the initial sync a block never spends a coin that a transaction of
\* the mempool still holds: the one it replaces has been marked before.
ReplacedAreMarked ==
  [][imp[Syncer].pc = "spend" /\ imp'[Syncer].pc = "doc" /\ synced.known =>
       \A t \in L!TxsOf(Current) : \A c \in L!Spends(t) :
         Known(c) /\ coins[c].spent = Pending => coins[c].by = t]_vars

\* No transaction of the chain is marked as one that can no longer confirm.
MinedNotConflicting ==
  Quiet => \A t \in Txs : L!ConfirmedAt(LocalTip, t) # {} =>
             /\ Seen(t) /\ txs[t].height # Conflicting
             /\ \A c \in Outputs[t] : Known(c) /\ coins[c].mint # Conflicting
=============================================================================
