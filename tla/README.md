# Verification of reddcore

TLA+ modules, TLC runs and TLAPS proofs for the `reddcore` monorepo (a fork of
bitcore: `packages/*`). The modules follow the code of the repository; where
`PROJECT.json` maps a definition to lines, those lines are what it stands for.

## 1. Inventory

| Part | State | Operations | What is hard about it |
|---|---|---|---|
| Transaction proposals (`bitcore-wallet-service`, BWS: `lib/server.ts`, `lib/model/txproposal.ts`, `lib/storage.ts`, `lib/chain/btc`) | documents of the `txs` collection: status, votes, inputs | createTx, publishTx, signTx, rejectTx, broadcastTx, removePendingTx, getPendingTxs | several server processes, one database; documents are fetched, changed in memory and stored whole; only three operations take a lock; the explorer lags and its answers get lost |
| Wallet lock (`lib/lock.ts`, `locks` collection) | one document per wallet with an expiry time | acquire, runLocked, clearExpiredLock | waiting, expiry, deletion by key, crashed owners |
| Account-based chains (`lib/chain/eth` …, prepareTx) | nonces, refreshed transaction data | prepareTx, signTx, publishing again | nonces chosen from lists read earlier |
| Membership | wallet document, copayers look-up | createWallet, joinWallet, addAccess | look-ups rewritten in three calls; different checks on different paths |
| Addresses and scanning | address manager, addresses | createAddress, scan | scan and creation share counters |
| Blockchain monitor, notifications | last transactions seen, subscriptions | third-party broadcasts, confirmations | delayed second look, duplicated events |
| Threshold signatures (BWS `lib/tss.ts`, clients `tsskey.ts`, `tsssign.ts`, `bitcore-tss`) | session documents with versions and rounds; the clients' sessions | processMessage, storeKey, storeBwsJoinSecret, storeSignature, subscribe | parties race to close a round; lost answers; two documents of one session |
| Block and UTXO index (`bitcore-node`: `models/block.ts`, `models/transaction.ts`, `models/coin.ts`) | blocks, transactions, coins with mint and spend heights | processBlock, handleReorg, mint and spend streams, pruneMempool | many collections without transactions; reorganisations, crashes between writes |
| Workers and syncing-node election (`services/p2p.ts`, `models/state.ts`, `modules/bitcoin/p2p.ts`) | heart-beat in the state document | refresh, nominate, resign, sync | leases between processes, late timers |
| Multi-threaded sync (`modules/bitcoin/sync.ts`) | header queue, block buffer | fetch, ordered processing, stop | results out of order, errors in the middle, waiting for a batch |
| Pruning of the mempool (`services/pruning.ts`) | replaced and old transactions, their coins | processAllInvalidTxs, processOldMempoolTxs | looks and writes with block processing between them |
| EVM indexing, wallet import (`bitcore-node`) | transactions, wallet addresses | sync, updateCoins | races with block processing |
| Peer-to-peer protocol (`bitcore-p2p*`) | peers, address pool | handshake, retry | connection failures |
| Coin libraries, clients, command lines, explorer (`bitcore-lib*`, `bitcore-mnemonic`, `bitcore-wallet-client`, `bitcore-client`, `bitcore-cli`, `crypto-wallet-core`, `crypto-rpc`, `insight`, `bitcore-logging`, `bitcore-build`) | – | serialisation, cryptography, key derivation, HTTP requests, presentation | – |

How they interact: clients send requests to BWS; BWS keeps its state in MongoDB,
locks a wallet through a document of the same database, asks `bitcore-node`
(the "explorer") for outputs and transactions and hands it transactions to
broadcast; `bitcore-node` indexes the chain from its peers.

What makes each part correct: for the proposals, that enough copayers approved
what is spent, that status and votes agree, that votes, inputs and payments are
not lost; for the lock, mutual exclusion, bounded waiting and recovery; for the
index, that the coins are those of the best chain after any crash or
reorganisation; for the workers, at most one syncing node and no lost block; for
sessions, one message per party and round. `PROJECT.json` lists the hazards,
each at its line, with the properties that cover it.

## 2. Modules

| Module | What it is |
|---|---|
| `TxProposals` | the proposals of one wallet: one action per database or explorer call of every operation |
| `MultisigSpend` | abstract: an output is spent once, by a payment a quorum approved |
| `ProposalLifecycle` | abstract: the life a proposal is meant to have |
| `WalletLock` | `lock.ts` and the `locks` collection for one key |
| `LeaseLock` | abstract: what the users of the lock rely on |
| `Ledger` | abstract: the tip of an index follows the tree of blocks; what a chain confirms |
| `UtxoIndex` | blocks, transactions and coins of `bitcore-node`, write by write |
| `MempoolPruning` | the pruning service next to `UtxoIndex` |
| `UtxoSync` | the initial sync with worker threads |
| `SyncingNode` | the election of the process that keeps the index |
| `RoundBarrier` | abstract: rounds of messages from a fixed number of parties |
| `TssRounds` | the rounds of a session document: versions, current round, what is refused |
| `TssKeyGen`, `TssWallet`, `TssSign` | the key, the wallet, the signature of a threshold wallet |
| `ThresholdWallet` | the three composed |
| `MCTxProposals`, `MCWalletLock`, `MCUtxoIndex`, `MCMempoolPruning`, `MCUtxoSync` | symmetry, operations, trees of blocks and transactions for TLC |
| `TxProposals_proofs`, `WalletLock_proofs` | theorems about the proposals and the lock |
| `Ledger_proofs` | lemmas about the chains of any tree of blocks |
| `UtxoIndex_proofs`, `UtxoSync_proofs` | theorems about the index and the sync with threads; both use `Ledger_proofs` |
| `SyncingNode_proofs` | theorems about the election |
| `MempoolPruning_proofs` | theorems about the index next to the pruning service; extends `UtxoIndex_proofs` |
| `ThresholdWallet_proofs` | theorems about the key, the wallet and the signature |

`TxProposals` uses the lock in the form of `LeaseLock` (property
`UsesLeaseLock`), `WalletLock` implements `LeaseLock` (property `IsLeaseLock`):
this is how the two compose. It also implements `MultisigSpend` under all
interleavings (`SpendsAreApproved`), and `ProposalLifecycle` when requests are
served one at a time (`FollowsLifecycle`). `UndisturbedSpec` is the specification
without the overlaps that lose votes in the code: no vote on a proposal, and no
creation of it that is sent again, runs together with another vote on it or its
removal; everything else interleaves freely.

`UtxoIndex` implements `Ledger` (`FollowsLedger`), and `UtxoSync` uses `addBlock` in the
form `Ledger` gives it. `MempoolPruning` extends `UtxoIndex`: two processes write
the same collections. `SyncingNode` says which process runs `UtxoIndex` or
`UtxoSync`. Both sessions of `ThresholdWallet` implement `RoundBarrier`.

### TxProposals

State: `txps` is the `txs` collection (an absent document is `NoTxp`); `lock` the
owner of the wallet's lock document; `reqs` the requests being served, by any
number of processes, each with the local copy (`doc`) its handler holds; `aged`
says for which proposals `DELETE_LOCKTIME` is over; `chain` holds what the
network accepted and `signedTxs` the fully signed transactions that were
returned to clients. `removed` and `cast` record removals and stored votes; no
action of a handler reads them.

A handler is the sequence of its steps: `pc` of the request says which call comes
next. The fetch actions (`PublishTxFetch`, `SignTxFetch`, …) contain the tests
that follow the fetch, with the early returns of the code in their order, and put
the changed document into `doc`; the store actions (`StoreTx`, `StoreVote`,
`ProcessBroadcast`) replace the stored document by it, as `storeTx` does, and
create it again if it is gone. `GetUtxos`, `FetchPendingTxs`, `Sweep…` are
`getUtxosForCurrentWallet` with the `getPendingTxs` inside it; createTx, publishTx
and a client's getPendingTxs share them, as in the code. `CallFails` is any call
answered with an error, `Crash` the death of the process (or a release that never
arrives).

Data: an input is a model value, its amounts and addresses are left out, so
selecting inputs is any nonempty choice of available ones or a failure. A
transaction is its proposal, its inputs and the set of signers: the id of a P2SH
transaction covers the signatures, so other signers mean another id.

`MaySign` refuses an accepted proposal. No line of `signTx` says so: `isPending` is
true of it, and it is `addSignature` of bitcore-lib that throws for a fully signed
input, which `sign` turns into BAD_SIGNATURES.

### WalletLock

One key, every process runs one task. `LockExists` is the answer E11000: it starts
`clearExpiredLock`, which nobody waits for (`finds` and `deletes` count the calls
in flight, before and after their look-up), and then returns LOCKED or retries
with the reduced `timeLeft`. `waitTime` undefined is `Forever`; the comparison
`undefined < 0` is false. `ReleaseLock` and `DeleteLock` delete by key, whoever
owns the document, and turn the deletions under way that had seen it into `strays`, which may
hit its successor. Time is the count of retry steps; `Expire` lets `expireOn` pass.
`PromptSpec` is the specification in which no task outlives its lock and nobody takes the
lock while a stray is under way. `LeaseLock` says when a lock may disappear under its owner:
when `threatened`, which here is an expired lease, a stray, or another task that lost its own
lock and is about to release by key.

### UtxoIndex and MempoolPruning

State: `blocks`, `coins` and `txs` are the collections (an absent document is
`NoDoc`), with heights, `nextBlockHash`, `processed`, `spentTxid` and `replacedByTxid`;
`sync` is the one call of `sync()`, `imp` the calls of `batchImport`, one for the block
and one for each relayed transaction; `best` is the peers' chain, `announced` and
`late` messages on their way.

`Begin`, `AskGenesis`, `Ask` are `sync()`; `AddBlock` the tests of `handleReorg`;
`DeleteBlocks`, `DeleteTxs`, `DeleteCoins` its three deletions, in any order, and
`Unspend` what follows; `Store`, `Link`, `MarkProcessed` are `processBlock` around
`batchImport`, which is `ImportMint`, `PruneFind`, `Invalidate`, `ImportSpend`, `ImportTx`.
`Crash` loses everything but the collections. Answers to `GetHeaders` may be
repeated by a second peer (`late`) and be taken for the answer to a later request.

The end of `sync()` and the write of `initialSyncComplete` are two steps (`Ask`,
`RecordSynced`).

`MempoolPruning` adds what a look found to do (`pruner`) and what an end of the service left half
written (`torn`). `LookInvalid` and `LookOld` read. `_invalidateTx` is a stack of calls: `Descend`
makes the call for the next spent output, and each of its three updates is a step
(`InvalidateTxs`, `InvalidateMinted`, `InvalidateSpent`), the last leaving out what an invalid parent
minted. `removeOldMempool` is three steps in any order, each with its own filter (`ExpireTxs`,
`ExpireMinted`, `ExpireSpent`). `Stop` ends the service, or what an update that failed belongs to,
between any two of them.

`VerificationPasses` uses the repository's own `verify` script as the definition of a
sound index; `IndexMatchesChain` compares all three collections with what
`Ledger` says the chain of the tip confirms.

### UtxoSync

`entry` is `sync()` of the worker on its way to the threads: the height it read, the headers it asked
for, the genesis block it hands to `addBlock`. `isSyncing` is false again before the threads
start, so a block of a peer begins it anew while they work (`PeerBlock`, `ReadTip`, `AskHeaders`,
`StoreGenesis`, `GenesisRejected`). `queue` is what is left of `headerQueue`, `job` the block every thread has, `buffer` and
`running` are the block buffer and the block given to `addBlock`. `NextBatch` is a round
of `syncLoop`, `Fetch` a thread, `BlockFetched` and `BlockProcessed` are
`onBlockFetched` with `processOrderedBlocks` and `assignNextBlock`. A rejection of
`addBlock` is not caught: it stops the process (`BlockRejected`, `Restart`). A thread
that exits is taken off the list and may still be given a block (`Die`, `Assign`).
`NoNeedlessRollback` says that the tip does not fall while a block of the batch is above it,
but for the rejection of the genesis block of a second `sync()`, which does just that
(`SecondSync`); the peers may switch to another chain at any time, and back.

### SyncingNode

`field` is `state.syncingNode`; since no two heart-beats are equal, its content is the
owner, an age, and for each reader whether it still holds what was read. A timer that is due may
have sent its write already: `Stop` and a failed renewal clear some of those and not others, and what a process
has sent may arrive when it is gone, with a heart-beat of nobody alive. `Refresh`,
`Nominate`, `Resign` are the calls of the worker; `Tick` is the passing of one wait of
`refreshSyncingNode`. A tick that passes while a process is behind is a stall.

### ThresholdWallet

A session is the list of its rounds, a round the parties whose message is in it;
`version` is the `__v` of the key's document, which every stored message raises by one;
of a signing session there may be two documents, each with its own. `posts`, `joins` and `sposts` are the requests BWS works on,
with the copy of the session each holds: `Push` is `_pushMessage`, which stores only for
the version it was checked against and otherwise reads and checks again. `Poll` and
`SignPoll` are an iteration of `subscribe` of the clients, `CreateWallet`, `PostSecret`,
`GetSecret` what the client does when the key is there. `JoinChecked`, `DeleteLookups`,
`InsertLookups`, `StoreWallet` are `joinWallet` under the wallet lock.

A request may be lost on its way or fail in BWS at any call (`Lose…`), and a client
may stop waiting for one that BWS still works on (`GiveUp`). `broken` records that a
request was lost that cannot be repeated: the client goes back to the round before and
sends the message again, which BWS refuses for ever when it has it already; a copayer
whose look-up is inserted is refused for ever as registered; a creator whose
secret is lost makes another wallet that it may not join.

## 3. Runs

All runs finish; the passing ones explore their whole state space.

| Run | Instance | Shows |
|---|---|---|
| `Voting` | 2-of-3, 1 proposal, 2 requests at a time | `StatusMatchesVotes`, `OneVotePerCopayer`, `NoStalemate` while create, publish, sign and reject race |
| `Race` | 2-of-2, 1 proposal, 2 requests, all operations but the listing, lagging explorer, lapsing lock | the inductive invariant `IInv`, `BroadcastedIsOnChain`, `SpendsAreApproved`, `UsesLeaseLock` |
| `Sequential` | 1-of-2, 2 proposals for 1 input, 1 request, all operations, lagging explorer, lapsing lock | `FollowsLifecycle` |
| `Concurrent` | 1-of-2, 2 proposals for 1 input, 2 requests of all operations, lagging explorer, `UndisturbedSpec` | `InputsLockedOnce`, `RecordedVoteKept`, `PaymentRecognised` |
| `LockContention` | 3 processes, waits none, 0 and 100 ms, failures, 2 clean-ups at a time, `PromptSpec` | `MutualExclusion`, `WaitIsHonoured` (with the types) |
| `LockCrash` | 3 processes, failures, long tasks, fairness | `EveryoneServed`, `IsLeaseLock` |
| `Reorgs` | 5 blocks with a fork, 1 relayed transaction that conflicts with both branches, 2 crashes | `VerificationPasses` (with the types), `IndexMatchesChain`, `ConfirmedSpendKept`, `FollowsLedger`, `NoNeedlessRollback`, `CatchesUp` |
| `Pruning` | 5 blocks with a fork, the first two synced, 2 relayed transactions, one spending from the other, both passes of the service, 1 stop of it | `InputsGivenBack` (with the types), `MinedIsNotPruned`, `OrphansAreInvalidated` |
| `UtxoSync` | 8 blocks with a fork, 2 threads, `sync()` started again, 1 failed write, 1 stop or kill, 1 dead thread, any number of failed fetches | `NoBlockLost` (with the types), `NoNeedlessRollback`, `SyncEnds` |
| `SyncingNode` | 2 processes, a lease of 2 ticks, 1 stall, 2 stops or kills | `OneSyncingNode` (with the types), `SyncsAlone`, `FreshIsNotReplaced`, `SomeoneSyncs` |
| `ThresholdWallet` | 3 parties of whom 2 sign, any one request lost or given up | `SentIsStored`, `MembersKept`, `LookupsMatch`, `SignedByQuorum` (with the types), `IsKeyBarrier`, `IsSignBarrier`, `KeyForEveryone`, `SignersFinish` |

One run refutes what the repository says of the program (the finding):
`KeyJoinOrder`, of `ThresholdWallet` without failures, refutes
`ParticipantsAuthenticate`. `authTssRequest` is to find the public key of a party by its
number; messages of the first round are stored in the order they arrive, so when
party 2 joins before party 1 both are refused for ever, and no key is made.

**Counterexample configurations.** Beside the runs of `PROJECT.json`, these
configurations show with a counterexample what the code does not do; what holds
in spite of them is in the runs above.

| Configuration | Module | Property violated | How |
|---|---|---|---|
| `StaleVoteUnlocks` | `MCTxProposals` | `InputsLockedOnce`: publishing locks the inputs | signTx fetches a proposal; another copayer rejects it for good; a second proposal for the same input passes the check of publishTx; signTx stores its copy, pending or accepted again; publishTx stores: both hold the input |
| `BothVerdicts` | `MCTxProposals` | `OneVerdictPerCopayer`: a copayer votes once | signTx and rejectTx of one copayer both fetch, then both store |
| `PaymentMissed` | `MCTxProposals` | `PaymentRecognised`: a payment on chain is marked | two copayers give the last signature at once, two differently signed transactions are handed out, the stored id is that of the second, a client broadcasts the first |
| `RemovedByOthers` | `MCTxProposals` | `OnlyCreatorRemoves`: only the creator removes | after `DELETE_LOCKTIME` another copayer does |
| `LockStaleClear` | `MCWalletLock` | `MutualExclusion`: tasks of a lock exclude each other | two waiters find the expired lock of a dead process; the first deletes it, a third process acquires, the second deletes that lock too |
| `LockDefaultWait` | `MCWalletLock` | `DefaultWaitIsHonoured`: the default wait is 50 ms | without waitTime the retries never end |
| `CrashThenFork` | `MCUtxoIndex` | `VerificationPasses` | a crash leaves a block stored and not processed; the chain switches to the other branch; the rollback begins at the processed tip and the half-stored block stays |
| `CrashInRollback` | `MCUtxoIndex` | `VerificationPasses` | a crash between the three deletions of a rollback and the one after: the tip is already lower, and nobody finishes the rollback |
| `LateHeaders` | `MCUtxoIndex` | `VerificationPasses` | headers that a second peer sent for an earlier request are taken for the answer to the next one |
| `SecondInputKept` | `MCUtxoIndex` | `PrunedBeforeSpending` | the conflicts of a transaction are looked for at its first input only |
| `ConflictUnmarked` | `MCUtxoIndex` | `ReplacedAreMarked` | a relayed transaction spends a coin after the look for conflicts and before the spend of the block |
| `MinedInvalidated` | `MCUtxoIndex` | `MinedNotConflicting` | a relayed transaction is found to hold a coin of the mempool and is invalidated after a block has confirmed it |
| `PruningStopped` | `MCMempoolPruning` | `NothingHeldByGone`: what is removed gives its inputs back | the service ends after `removeOldMempool` has marked a transaction expired and before its inputs are unspent; no later pass finds it |
| `ReplacementAbandoned` | `MCMempoolPruning` | `MinedIsNotPruned` | the peers leave a settled replacement for a longer branch while its conflict is being invalidated, and the block of that branch confirms it before the update |
| `SecondSync` | `MCUtxoSync` | `BatchOnlyGrows`: the tip never falls while a block of the batch is above it | a block of a peer starts `sync()` while the threads work on the first blocks; it has read height 0 and gives the genesis block to `addBlock`, which takes the raised tip back and rejects |


`StaleVoteUnlocks`, `BothVerdicts` and `PaymentMissed` are the overlaps that `UndisturbedSpec`
leaves out, `LockStaleClear` the late clean-up that `PromptSpec` does.

None of the first four lets the network take an unapproved payment or an output twice:
`SpendsAreApproved` holds in spite of them, and is proved.

**Bounds.** Two requests are enough for a fetch and a store of one to enclose any
steps of the other; slots are reused, so a request slot serves any number of
requests. Three copayers with two signatures are the smallest wallet where
acceptance, rejection and a missing vote are all possible; 2-of-2 has a
proposal accepted by everyone and rejected by one. Two proposals for one input
conflict. `Concurrent` has any one copayer decide, so that votes, publications, broadcasts, sweeps
and removals of both proposals overlap in two requests. `MaxTries` bounds the count of attempts (six steps of 50 ms pass the
longest wait of 100 ms by more than the two steps the property allows; 0 where no
property reads it), `MaxClears` the `clearExpiredLock` calls in flight: one is
enough to clear a lock, two to show the late deletion. A call started beyond the
bound is dropped, which the code's own early return for a lock that is gone or
fresh also amounts to. Without the operation "remove" nothing reads `aged`, and
`Age` is disabled.

*Index.* The trees have a fork below the tip with a longer branch, so that a
reorganisation happens, deletes more than one block and stores a transaction again
that both branches have. Two crashes hit the storing of a block and its repetition,
or two blocks. In `Reorgs` the storing of `a2` is not interrupted and neither is a
rollback, and no answer to `GetHeaders` is repeated: those cases are
`CrashThenFork`, `CrashInRollback` and `LateHeaders`.

*Pruning.* `SyncedInit` begins with the first two blocks stored, as the first of them mints what the
relayed transactions spend. `MatureLen` is 0, which makes a replacement settle one block above it,
and `DescendantLimit` is not reached. `Outdated` is the relayed transaction that gets old enough for
`--OLD` (any of them is in the proofs). One stop (`MaxStops`) cuts any pass at any update. No
reorganisation of this tree reaches below a settled replacement: `INV_MATURE_LEN` presumes that,
and `_invalidateTx` does not look at heights itself, so `MinedIsNotPruned` rests on it:
`ReplacementAbandoned` has a tree that does, and `SettledStays` is the hypothesis of the proof.
`InputsGivenBack` and `OrphansAreInvalidated` exempt only what the stop left half written (`Torn`).

*UtxoSync.* Two batches, the first longer than the threads are many; with two threads
one block waits in the buffer while another is processed, and a block of a peer may start
`sync()` again at any moment.

*SyncingNode.* A lease of two ticks is the shortest that a renewal each tick keeps fresh
(in the code 300 to 1, which adds only ages at which nothing happens). Two processes
take over from each other; one stall lets any one timer or read be late.

*ThresholdWallet.* `Ready` is 3 instead of 5, two rounds of messages instead of four: a
first round with its joins, and a later one that is like all that follow. 2-of-3
leaves a party out of the signature. `MaxWallets` exceeds the faults, so that the
creator can repeat `createWallet`. After a failure everyone has joined before
anyone signs (`Settled`), as failures of the two sessions meet only in the
look-ups. Party numbers matter, so there is no symmetry.

**Symmetry.** Copayers, proposals, inputs and requests are interchangeable, in the
actions as in the properties of the runs that use it; liveness is checked without.

**Deadlock** is checked in the lock runs, where a process is always served or able
to go on. The proposal runs say `CHECK_DEADLOCK FALSE`: their clients may send
nothing more once every proposal is removed. `Reorgs`, `Pruning`, `UtxoSync` and
`ThresholdWallet` say it too: the peers' chain comes to rest, and a threshold wallet
is finished, or stuck as described above. `SyncingNode` checks it.

**Fairness.** `LockCrash`: weak fairness of a process' own steps:
timers fire, database calls return, and a task of the service calls back. Weak fairness of
`FindLock` and `DeleteLock`: the calls were sent and return. Weak fairness of
`Expire`: time passes. Nothing is assumed of who wins a race for the lock: the
processes are finitely many and each runs one task, so they run out of rivals.

`Reorgs`, `Pruning`: the worker takes its steps, each import goes on, an announced
block arrives. The pruning service writes what it has looked up; strong fairness of
its look (`setInterval` repeats it over all coins, while the looks of the other pass and of
other coins come between). `UtxoSync`: the loop, the processing of blocks and
messages between threads go on; a fetch ends, and when it is repeated for ever it
succeeds some time (strong fairness, an assumption on the RPC of the coin's node); a
process that has stopped is started again, by the process manager, as in
`SyncingNode`, where besides processes run and time passes. `ThresholdWallet`: one
weak fairness for each party, over its client's steps and those of BWS for it; nothing makes
anyone sign.

## 4. Proofs

`tlapm` checks every proof to its leaves; nothing is assumed but the named
assumptions on the constants (`1 <= m <= n` with finitely many copayers, distinct
names, numbers that are numbers, a tree of blocks in which hashes have no cycles)
and the hypotheses that a theorem names. What they leave out is shown by a configuration
of section 3:

| Hypothesis | Theorems | What it says |
|---|---|---|
| `PromptSpec` | `WalletLock_proofs!TasksExclude` | no task outlives its `lockTime`, and nobody takes the lock while a clean-up that saw the last one expired is under way. Processes die, releases get lost, locks expire and are cleared; `LockStaleClear` shows the lock without it |
| `TriesCounted` | `WaitsHonoured` | the count of attempts in the model goes past every wait |
| `~MayLapse` | `TxProposals_proofs!TasksExclude`, `InputsReserved`, `VotesKept`, `PaymentsRecognised` | no lock is cleared while its owner works |
| `UndisturbedSpec` | `InputsReserved`, `VotesKept`, `PaymentsRecognised` | a vote does not overlap with another vote on the same proposal or with its removal, nor a creation sent again with its removal; `StaleVoteUnlocks`, `BothVerdicts` and `PaymentMissed` show them. Any number of requests otherwise, each with any other |
| `OneAtATime` | `ImplementsLifecycle` | one request is served at a time: the life a proposal is meant to have, which overlapping requests leave in the ways shown above |
| `Lease > 1` | `SyncAlone` | the lease is longer than the wait between two heart-beats (300 s to 1 s in the code) |
| `OnePeer` | those of the index and the pruning below and `ProcessedAreChain`, `TipFollowsLedger`, `RollbacksNeeded`, `PrunedTipFollows` | no second answer to `GetHeaders` is taken for a later one (`LateHeaders` shows it), and the peers have more than the genesis block |
| `ValidChains` | `IndexInvariant`, `IndexCorrect`, `VerificationCorrect`; `PruningInvariant`, `PrunedIndexCorrect`, `PrunedIndexVerified`, `MinedKept` | what the rules of a chain give: a transaction once in a chain, a coin spent once and not before it is minted, ids unique |
| `Compatible` | the same | relayed transactions do not conflict with one another (they may with those of blocks); `MinedInvalidated` shows what two that do can lead to |
| `CrashesHeal` | the same | no crash in a rollback (`CrashInRollback`), and none in the storing of a block that the peers may leave for a longer branch (`CrashThenFork`); crashes between blocks, and any number of them in the storing of the other blocks, are allowed, the configuration of `Reorgs` included |
| `[]SettledStays` | those of the pruning in the row of `ValidChains` | while the service marks what a settled replacement replaces, the peers' chain does not leave the replacement out again (`INV_MATURE_LEN`). Nothing is said of chains at other times, of other replacements or of `--OLD`; `ReplacementAbandoned` shows the service without it |

*Proposals.* `Invariant` proves `Spec => []IInv`. `StatusMatchesVotes` alone is not
inductive: a store replaces the document by a request's copy, so the copies must
be known to be sound although they are out of date. `IInv` says of every stored
proposal that status and votes agree, that no copayer is counted twice, that all
its votes were cast and that a broadcasted one is on chain (`StoredOK`); of every
copy the same, but for the vote the request is about to store (`RequestOK`); and
of every transaction handed out or taken by the network that enough copayers
approved it (`Authorised`). The set of votes and the chain only grow, so what
holds of a copy when it is fetched still holds when it is stored: this monotonicity
(`RequestMonotone`, `StoredMonotone`) is the core of the argument. From `IInv` follow
`TypeCorrect`, `StatusCorrect`, `VotesDistinct` and `BroadcastedCorrect`;
`AlwaysDecidable` adds a counting argument for any m and n (if everyone voted, the
accepts reach m or the rejects reach the number that makes m impossible); and
`ImplementsMultisigSpend` is the refinement of `MultisigSpend`: every step either
adds approvals, spends with a quorum, or stutters.

`TaskInv` ties the owner of the lock to the program counters, which makes
`ImplementsLeaseLock` the refinement of the same `LeaseLock` that `WalletLock`
implements: with any crash and any lapse. `SharedInv` is of concurrent requests under
`UndisturbedSpec`: the copy of a request that is about to store has all votes and signatures that
the stored document has (`Learnt`), so no store takes a vote or a payment back; and no pending
proposal holds an input that a locked request may still take, since its look at the proposals. `InputsReserved`,
`VotesKept` and `PaymentsRecognised` follow. `SerialInv` says what one request finds when it stores: the
document it fetched, unless it has been removed. The refinement
`ImplementsLifecycle` of `ProposalLifecycle` follows from it together with `IInv` and
`TaskInv`, for every operation and every failure in its middle.

*Lock.* `LockInv` says of the clean-ups in flight that one that is going to delete and is not a stray
has seen the stored lock, which has expired. With `Prompt` a process at work owns the stored lock
(`OwnerInv`), from which `TasksExclude` follows: deletions do happen, of the locks of dead processes.
`ImplementsLeaseLock` needs no hypothesis, so it says of every lapse which of the threats it came from. `WaitInv` says that the time left between two attempts is the waitTime
less the attempts made, and not below one step: without it neither bound of
`WaitIsHonoured` is inductive.

*Election.* `ElectionInv`: a timer that can still write the field belongs to the owner
it would replace or comes due when the lease has run out, and one of a process now gone replaces
the field of no process (`TimersRight`); who takes itself for
the syncing node has read its own heart-beat (`ViewsRight`). From it `OneNodeSyncs` and the
action property `FreshStays`, whatever is late. `InTimeInv` adds, while no stall has happened,
that every running owner has renewed its heart-beat and that a sync runs with the field
(`SyncAlone`).

*Threshold wallets.* `KeyInv` is of the session and of the copies: the rounds are full but the
last, and a copy at the stored version is the stored session, so that a push stores
what was checked (`RoundsRight` is kept by each operator of `TssRounds`). `WalletInv` ties each
join to the program counter of its request and the look-ups to the members; `SignInv` says the
same of the first document of a signing session as `KeyInv` of the key's, whichever of the
documents an update hits, and counts them. Together they are `ThresholdInv`, an invariant of
`ThresholdWallet` for any number of parties, signers and rounds, with requests lost, given up and
overtaken. `SentStays`, `MembersStay`, `LookupsStay`, `QuorumSigns` and the refinements
`KeyIsBarrier`, `SignIsBarrier` of `RoundBarrier` follow.

*Chains.* `Ledger_proofs` has what both parts of the index need of a tree of blocks: how
the chain of a child extends that of its parent, that heights grow along a chain, that
two chains that share a block share what is below, and that a chain has one block of each
height. Hashes without cycles make this provable: each lemma takes a least counterexample
below the block in question.

*Sync with threads.* `SyncInv` says of every height of a batch that has left the queue, that one of
queue, threads, buffer and running block holds it, that the held blocks are those of one
chain, and that the next block lies on the tip unless the peers have switched. `EntryInv` is of a `sync()`
on its way to the threads, before them or beside them: what it gives to `addBlock` is the genesis block or a
block the tip has passed. `BlocksKept` and `NoRollback` follow; the latter, that the tip does not fall
while a block of the batch is above it, however often the processing fails and the process restarts, but
for the one rejection `SecondSync` shows.

*Index.* `TypeInv` types every document, and says that a block being stored has one;
`SpendsKept` follows: nothing but a rollback takes a confirmed spend away. `TreeInv` says that
the processed blocks are one chain at every moment (`ProcessedAreChain`), crashes in the middle of a
rollback or of a block included, and that the headers in work belong to that chain or fork off it.
Hence `TipFollowsLedger`, the refinement of `Ledger`: the tip moves to a child or back to
an ancestor; and `RollbacksNeeded`.

`IndexInv` says of `coins` and `txs` which blocks they match, pointwise (`AllMatch`): in a rollback
those below the height it goes back to, with nothing left above by a deletion that has ended
(`Rolling`); otherwise, collection by collection, those of the chain of the tip or of one more block that is
stored and not processed (`Filling`): the one being stored, whose part of the import is written, or one
that a crash left. `UnfinishedRight` says that such a block is next on the peers' chain and
the first of the headers to come, so that it is stored again and never taken for a fork
(`HeirComesNext`, `ForksLeaveNothing`); after a restart without a tip there may be two, the genesis
block and the one above. Storing again writes what is there already (`MintsWritten`, `SpendsWritten`,
`TxsWritten`), and the verification holds in between because the chain above contains that of the
tip (`VerificationFollows`). A rollback is sound because a chain
spends a coin at or above the height that mints it, so that deleting the coins takes no spend
below the height (`SpentAreMinted`). An import of the mempool is sound because it writes no height (`DocsKept`), and
the pruning of a block because the transaction it invalidates spends what the block
spends, so it is not in the chain (`PruneFindMatch`, `InvalidateMatch`). `IndexCorrect` and
`VerificationCorrect` follow.

*Pruning.* `PruningInvariant` is `IndexInv` with what makes the writes of the service harmless.
Looks and writes are apart, and so are the writes, so it has to say that what a look found still is so, which
the collections alone do not tell: a block may arrive between any two of them. A transaction is
`Doomed` when the peers' chain, all that is stored or has a height, and all that is queued leave it out,
unless a queued fork is about to be given up by a rollback. That remains so while the peers' chain leaves it out (`DoomedKept`), and
while the replacement stays (`SettledStays`) it does, since both spend one coin. The look establishes it
(`SettledDooms`): a replacement is never a relayed transaction (`ReplacedRight`), so it cannot be expired, and
a settled one is confirmed. What spends from a doomed transaction is in no chain the root is not
in, which goes down the stack of `_invalidateTx` call by call (`Calls`, `InvalidationRight`). `Taken` ties the headers in work to the
collections, so that a rollback comes before anything of another line. The updates of --OLD ask again whether
the data is pending, which is all they need. From the invariant: no
update of a pass touches what a block has confirmed (`MinedKept`), the coins and transactions with a
height are those of the tip's chain (`PrunedIndexCorrect`), and the repository's verification finds
nothing (`PrunedIndexVerified`) with the service running and ending anywhere. `PrunedSpendsKept` needs no hypothesis and
`PrunedTipFollows` only `OnePeer`: every step of the service is a stutter of `Ledger`.

*Only model-checked.*

- Liveness: `EveryoneServed`, `CatchesUp`, `OrphansAreInvalidated`, `SyncEnds`, `SomeoneSyncs`,
  `KeyForEveryone`, `SignersFinish`. The prover does not handle fairness.
- `InputsGivenBack`. For any tree of blocks it is not true of the code: a rollback deletes transactions
  before coins and a crash may come after the spends of an import, each of which leaves a coin held by a
  transaction that is gone. What would exclude these cases for every tree is more than the code gives, so
  the instance of `Pruning`, where stops but no crashes happen, is where it is checked.

Every other property of the passing runs is a theorem.

## 5. What is left out, and why

- Notifications, logging, e-mail, confirmation subscriptions: no property here
  reads them.
- The creation backoff (`_canCreateTx`), fees, amounts, change and address creation,
  dry runs (which store nothing), suspended chains and version checks: they only
  make a request fail, as `CallFails` already may.
- Wrong signatures are refused before anything is stored.
- Replace-by-fee, and proposals with mutable data (`deferNonce`, `refreshOnPublish`),
  which may be published again: only UTXO wallets with plain proposals are modelled.
- A client does not reuse the id of a removed proposal for a new one. Broadcasted
  proposals are subtracted whatever their age (the code looks at the last day and
  the last hundred).
- The chain only grows: no reorganisation. `getTransaction` may fail to know a
  transaction the chain has (`SweepMissing`, `CheckTxInBlockchain`); a transaction it
  finds stays there, so the look-up and the store after it are one step in the sweep.
  When one look-up of the sweep fails the others, already started, are not
  followed further.
- An error of removeTx is ignored by the code; the model answers it like any other.
- A write that takes effect although it is answered with an error is the successful
  step; the answer to the client is not modelled.
- With `MayLapse` FALSE no task of `TxProposals` outlives `LOCK_EXE_TIME` and no late
  `clearExpiredLock` hits a lock in use; `WalletLock` shows what happens otherwise.
- Errors of the database calls inside `clearExpiredLock` are left out; the next attempt
  starts another one.
- *Index*: a `bulkWrite` is one step, and so is the `_invalidateTx` that the sync calls for what a block
  replaces (`Invalidate`); that of the pruning service is taken apart. An answer
  carries all headers (the code's limit of 2000 only splits them). The parent chain of a
  fork coin (`parentChain`, `forkHeight`) is left out, and so is the tagging of
  wallets. Against peers that have the genesis block only, nothing is stored. A
  transaction whose inputs come from two invalid ones is not in the instances.
- *MempoolPruning*: the passes of the service take turns; the next minute's look may begin in the code while
  another pass still writes. When one update of a `Promise.all` fails the others may still land; those that
  do come before `Stop` here.
- *UtxoSync*: `addBlock` is a step of `Ledger`; its writes are in `UtxoIndex`. Two calls of it are taken
  one after the other. A rejection stops the process, and what else is under way ends with it. A `sync()` that gets to the
  threads when the sync is done starts none. Headers that arrive late are in `UtxoIndex` (`LateHeaders`).
- *SyncingNode*: a heart-beat that expires between two rounds demotes a process
  silently, as in the code; the exit forced 30 s after `stop()` is any `Exit`. A timer queued by a
  round in flight at `stop()` is kept, as in the code; timers whose write has arrived are
  dropped here, the code keeps their entries (`p2p.ts:148`), which nothing reads. The read and the
  conditional write of `Resign` are one step.
- *Threshold wallets*: contents of messages and shares; a failed GET changes nothing and is
  left out; the two reads of a poll are one step; the wallet lock is taken for
  granted, without the lapse `WalletLock` shows. The order of messages is kept
  in the first round of a key, where `authTssRequest` reads it, and nowhere else.
  Found with TLC and therefore exempted by the properties: a creator whose secret was stored and not
  answered can get into a second wallet while another join has deleted the look-ups of
  the first, which splits the parties (`\/ broken` in `MembersKept`); of two
  documents of one signing session, messages can go to one and the signature to the
  other (`Len(sigs) = 1` in `SignedByQuorum`).

Not modelled at all:

- Addresses and scanning (`createAddress`, `scan`), `addAccess`, joining of wallets without a
  threshold key. `scan` reads the wallet before it has the lock (`server.ts:4785`),
  `addAccess` stores the whole wallet without one (`server.ts:1118`): planned.
- Account-based chains (nonces, `prepareTx`), the blockchain monitor, the import of wallet
  addresses, EVM indexing: planned, see below.
- The pool of peers of `bitcore-p2p`, the cache of inventories of the worker (`p2p.ts:85`).
- The script interpreters and the rest of the coin libraries, key derivation, HTTP
  routes, the command lines and the explorer: computations and presentation,
  without interacting state.

## 6. Plan

1. **Done**: `TxProposals` and `WalletLock` with their abstract specifications and
   proofs; `UtxoIndex`, `MempoolPruning`, `UtxoSync`, `SyncingNode`; the threshold sessions and
   wallet.
2. **Done**: the proofs of section 4, of every safety property of the runs.
3. Further modules: **AddressScan**, **WalletImport**, **AccountNonces**,
   **BlockchainMonitor**; **PeerPool** for bitcore-p2p.
4. Pure algorithms as functions, against a reference definition over bounded
   inputs: block locators, the gap-free nonce, input selection.
