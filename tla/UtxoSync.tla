------------------------------ MODULE UtxoSync ------------------------------
(***************************************************************************)
(* The initial sync of a UTXO chain with worker threads                    *)
(* (modules/bitcoin/sync.ts, syncWorker.ts): threads fetch the blocks of a *)
(* batch of headers from the node's RPC in any order, the main thread puts *)
(* them into a buffer and hands them to addBlock one by one, by height.    *)
(* Every run is entered through sync() of the worker (p2p.ts), which stores *)
(* the genesis block first and may be called again while the threads are   *)
(* at work.  addBlock is what Ledger promises: it extends the tip, or rolls *)
(* back and rejects.  A rejection is an unhandled one and stops the        *)
(* process; what else the process had under way is taken to end with it.   *)
(***************************************************************************)
EXTENDS Integers, Sequences, FiniteSets

CONSTANTS
  Blocks, Genesis, Parent, NoBlock,
  FirstBest,     \* the block the peers' chain ends in at the start
  ThreadCount,   \* config.threads
  MaxFailures,   \* bound: writes of a block that fail
  MaxRestarts,   \* bound: the times the process is stopped or killed
  MaxDeaths      \* bound: threads that exit on their own

ASSUME SyncAssumption ==
  /\ Genesis \in Blocks /\ FirstBest \in Blocks \ {Genesis} /\ NoBlock \notin Blocks
  /\ Parent \in [Blocks \ {Genesis} -> Blocks]
  /\ \A S \in SUBSET Blocks : S # {} =>          \* hashes have no cycles
       \E b \in S : b = Genesis \/ Parent[b] \notin S
  /\ ThreadCount \in Nat \ {0}
  /\ MaxFailures \in Nat /\ MaxRestarts \in Nat /\ MaxDeaths \in Nat

Threads == 1..ThreadCount

VARIABLES
  tip,        \* the highest processed block of the index
  best,       \* the block the peers' chain ends in
  announced,  \* a peer has sent a block the process has not looked at
  entry,      \* how far sync() is before it hands over to the threads
  loop,       \* where syncLoop is
  queue,      \* the part of headerQueue no thread has been given
  job,        \* thread -> the block it has, and how far it is with it
  dead,       \* threads that have exited
  buffer,     \* blockBuffer, blocks with their heights
  next,       \* nextProcessHeight
  target,     \* batchTargetHeight
  running,    \* the block processOrderedBlocks has given to addBlock
  stopping,
  failures, restarts

memory == <<loop, queue, job, dead, buffer, next, target, running, stopping>>
vars == <<tip, best, announced, entry, memory, failures, restarts>>

L == INSTANCE Ledger WITH
       BlockTxs <- [b \in Blocks |-> <<>>], Inputs <- <<>>, Outputs <- <<>>

Idle == [pc |-> "idle", hash |-> NoBlock, height |-> 0]
Nothing == [hash |-> NoBlock, driver |-> 0]

\* isSyncing is true as long as entry is anything but NoEntry.
EntryAt(pc) == [pc |-> pc, hash |-> NoBlock]
NoEntry == EntryAt("none")

Init ==
  /\ tip = NoBlock /\ best = FirstBest /\ announced = FALSE
  /\ entry = EntryAt("read")
  /\ loop = "off" /\ queue = <<>> /\ buffer = {} /\ next = 0 /\ target = 0
  /\ job = [t \in Threads |-> Idle] /\ dead = {}
  /\ running = Nothing /\ stopping = FALSE
  /\ failures = 0 /\ restarts = 0
-----------------------------------------------------------------------------
(* addBlock, one call after the other.                                     *)

TipHeight == IF tip = NoBlock THEN 0 ELSE L!Height(tip)

\* handleReorg takes any block when the tip has height 0.
ExtendsTip(b) == TipHeight = 0 \/ (b # Genesis /\ Parent[b] = tip)

Below(b) == IF b = Genesis THEN NoBlock ELSE Parent[b]

\* addBlock rejects, after a rollback or for an error of the database.
AddRejected(b) ==
  \/ /\ ~ ExtendsTip(b)
     /\ tip' = IF b # Genesis /\ Parent[b] \in L!Chain(tip)
               THEN Below(Parent[b]) ELSE Below(tip)
     /\ UNCHANGED failures
  \/ /\ failures < MaxFailures
     /\ failures' = failures + 1
     /\ UNCHANGED tip

\* The rejection reaches nobody, and the process stops.
GoDown ==
  /\ running' = Nothing
  /\ entry' = NoEntry
  /\ stopping' = TRUE
-----------------------------------------------------------------------------
(* sync() of the worker, up to the threads.                                *)

\* What a peer answers to the locators of the processed blocks.
Headers ==
  LET chain == L!ChainOf[best]
      common == {i \in 1..Len(chain) : i = 1 \/ chain[i] \in L!Chain(tip)}
      last == CHOOSE i \in common : \A j \in common : j <= i
  IN SubSeq(chain, last + 1, Len(chain))

\* A peer's block starts sync(), also when the threads are at work: isSyncing
\* is false by then.
PeerBlock ==
  /\ announced /\ loop # "done"
  /\ announced' = FALSE
  /\ entry' = IF entry = NoEntry THEN EntryAt("read") ELSE entry
  /\ UNCHANGED <<tip, best, memory, failures, restarts>>

ReadTip ==
  /\ entry.pc = "read"
  /\ entry' = EntryAt(IF TipHeight = 0 THEN "ask" ELSE "start")
  /\ UNCHANGED <<tip, best, announced, memory, failures, restarts>>

\* handleGenesisBlock takes the parent of the first header for the genesis
\* block.
AskHeaders ==
  /\ entry.pc = "ask"
  /\ entry' = IF Headers = <<>> THEN EntryAt("start")
              ELSE [pc |-> "add", hash |-> Parent[Head(Headers)]]
  /\ UNCHANGED <<tip, best, announced, memory, failures, restarts>>

StoreGenesis ==
  /\ entry.pc = "add" /\ ExtendsTip(entry.hash)
  /\ tip' = entry.hash
  /\ entry' = EntryAt("start")
  /\ UNCHANGED <<best, announced, memory, failures, restarts>>

GenesisRejected ==
  /\ entry.pc = "add" /\ AddRejected(entry.hash)
  /\ GoDown
  /\ UNCHANGED <<best, announced, loop, queue, job, dead, buffer, next, target,
                 restarts>>

\* sync() of the threads returns at once when it runs already.
Start ==
  /\ entry.pc = "start"
  /\ entry' = NoEntry
  /\ loop' = IF loop = "off" THEN "headers" ELSE loop
  /\ UNCHANGED <<tip, best, announced, queue, job, dead, buffer, next, target,
                 running, stopping, failures, restarts>>
-----------------------------------------------------------------------------
(* The batches of syncLoop.                                                *)

Item(hash, height) == [hash |-> hash, height |-> height]
Fetching(item) == [pc |-> "fetch", hash |-> item.hash, height |-> item.height]

\* The threads of the list get the first blocks, in the order of the list.
Place(t) == Cardinality({u \in Threads \ dead : u <= t})

NextBatch ==
  /\ loop = "headers" /\ ~ stopping /\ Headers # <<>>
  /\ LET base == L!Height(tip)
         items == [i \in 1..Len(Headers) |-> Item(Headers[i], base + i)]
         given == IF Len(items) < Cardinality(Threads \ dead) THEN Len(items)
                  ELSE Cardinality(Threads \ dead)
     IN /\ queue' = SubSeq(items, given + 1, Len(items))
        /\ job' = [t \in Threads |->
             IF t \notin dead /\ Place(t) <= given THEN Fetching(items[Place(t)])
             ELSE job[t]]
        /\ next' = base + 1
        /\ target' = base + Len(items)
  /\ loop' = "batch"
  /\ UNCHANGED <<tip, best, announced, entry, dead, buffer, running, stopping,
                 failures, restarts>>

\* finishSync
Finish ==
  /\ loop = "headers" /\ (stopping \/ Headers = <<>>)
  /\ loop' = IF stopping THEN "stopped" ELSE "done"
  /\ UNCHANGED <<tip, best, announced, entry, queue, job, dead, buffer, next,
                 target, running, stopping, failures, restarts>>
-----------------------------------------------------------------------------
(* The threads.                                                            *)

Fetch(t) ==
  /\ t \notin dead /\ job[t].pc = "fetch"
  /\ \E pc \in {"sent", "failed"} : job' = [job EXCEPT ![t].pc = pc]
  /\ UNCHANGED <<tip, best, announced, entry, loop, queue, dead, buffer, next,
                 target, running, stopping, failures, restarts>>

\* Fault: a thread that failed goes on with the next block.
RetryNext(t) ==
  IF queue = <<>> THEN job[t] ELSE Fetching(Head(queue))

\* The thread is given the same block again.
Retried(t) == [job[t] EXCEPT !.pc = "fetch"]

Retry(t) ==
  /\ job[t].pc = "failed"
  /\ job' = [job EXCEPT ![t] = Retried(t)]
  /\ UNCHANGED <<tip, best, announced, entry, loop, queue, dead, buffer, next,
                 target, running, stopping, failures, restarts>>

\* A thread exits; the list forgets it, and nobody has its block any more.
Die(t) ==
  /\ Cardinality(dead) < MaxDeaths /\ t \notin dead
  /\ dead' = dead \cup {t}
  /\ UNCHANGED <<tip, best, announced, entry, loop, queue, job, buffer, next,
                 target, running, stopping, failures, restarts>>
-----------------------------------------------------------------------------
(* onBlockFetched and processOrderedBlocks.                                *)

\* assignNextBlock: the first block of the queue goes to the thread, also to
\* one that is dead.
Assign(t) ==
  IF queue # <<>> /\ ~ stopping
  THEN /\ job' = [job EXCEPT ![t] = Fetching(Head(queue))]
       /\ queue' = Tail(queue)
  ELSE /\ job' = [job EXCEPT ![t] = Idle]
       /\ UNCHANGED queue

\* Fault: any block of the buffer is as good as the next one.
ReadyUnordered(items, height) == items

\* The blocks of the buffer that may be processed.
Ready(items, height) == {item \in items : item.height = height}

\* The loop over the buffer, on behalf of the thread t: the next block goes
\* to addBlock, or the loop is over and the thread gets another block.
Process(t, items, height) ==
  IF Ready(items, height) # {} /\ ~ stopping
  THEN \E item \in Ready(items, height) :
         /\ buffer' = items \ {item}
         /\ running' = [hash |-> item.hash, driver |-> t]
         /\ job' = [job EXCEPT ![t] = [Idle EXCEPT !.pc = "drive"]]
         /\ UNCHANGED queue
  ELSE /\ buffer' = items
       /\ running' = Nothing
       /\ Assign(t)

\* processOrderedBlocks returns at once when it runs already.
Buffered(t, items) ==
  /\ buffer' = items
  /\ Assign(t)
  /\ UNCHANGED running

BlockFetched(t) ==
  /\ job[t].pc = "sent"
  /\ LET items == {item \in buffer : item.height # job[t].height}
                    \cup {Item(job[t].hash, job[t].height)}
     IN IF running # Nothing THEN Buffered(t, items) ELSE Process(t, items, next)
  /\ UNCHANGED <<tip, best, announced, entry, loop, dead, next, target, stopping,
                 failures, restarts>>

\* Fault: the batch is resolved one block too late.
BatchDoneLate(height) == height > target

BatchDone(height) == height >= target

\* addBlock has stored the block.
BlockProcessed ==
  /\ running # Nothing /\ ExtendsTip(running.hash)
  /\ tip' = running.hash
  /\ next' = next + 1
  /\ loop' = IF BatchDone(next) THEN "headers" ELSE loop
  /\ Process(running.driver, buffer, next + 1)
  /\ UNCHANGED <<best, announced, entry, dead, target, stopping, failures, restarts>>

BlockRejected ==
  /\ running # Nothing /\ AddRejected(running.hash)
  /\ GoDown
  /\ UNCHANGED <<best, announced, loop, queue, job, dead, buffer, next, target,
                 restarts>>
-----------------------------------------------------------------------------
(* The peers and the process.                                              *)

Switch(b) ==
  /\ L!Height(b) > L!Height(best)
  /\ best' = b /\ announced' = TRUE
  /\ UNCHANGED <<tip, entry, memory, failures, restarts>>

Stop ==
  /\ ~ stopping /\ restarts < MaxRestarts
  /\ stopping' = TRUE
  /\ restarts' = restarts + 1
  /\ UNCHANGED <<tip, best, announced, entry, loop, queue, job, dead, buffer, next,
                 target, running, failures>>

\* The process is gone, killed or stopped, and is started again.
Restart ==
  /\ \/ stopping /\ UNCHANGED restarts
     \/ restarts < MaxRestarts /\ restarts' = restarts + 1
  /\ entry' = EntryAt("read") /\ announced' = FALSE
  /\ loop' = "off" /\ queue' = <<>> /\ buffer' = {} /\ next' = 0 /\ target' = 0
  /\ job' = [t \in Threads |-> Idle] /\ dead' = {}
  /\ running' = Nothing /\ stopping' = FALSE
  /\ UNCHANGED <<tip, best, failures>>

EntryStep == ReadTip \/ AskHeaders \/ StoreGenesis \/ GenesisRejected \/ Start
LoopStep == NextBatch \/ Finish
BlockStep == BlockProcessed \/ BlockRejected
Deliver(t) == BlockFetched(t) \/ Retry(t)

Next ==
  \/ PeerBlock \/ EntryStep \/ LoopStep \/ BlockStep \/ Stop \/ Restart
  \/ \E t \in Threads : Fetch(t) \/ Deliver(t) \/ Die(t)
  \/ \E b \in Blocks : Switch(b)

\* The process's own steps, messages between threads, and the RPC, which
\* answers with the block if it is asked often enough; a process that has
\* stopped is started again.
Fairness ==
  /\ WF_vars(EntryStep) /\ WF_vars(LoopStep) /\ WF_vars(BlockStep)
  /\ \A t \in Threads :
       /\ WF_vars(Deliver(t))
       /\ WF_vars(Fetch(t))
       /\ SF_vars(Fetch(t) /\ job'[t].pc = "sent")
  /\ WF_vars(stopping /\ Restart)

Spec == Init /\ [][Next]_vars /\ Fairness
-----------------------------------------------------------------------------
(* Properties.                                                             *)

Jobs == {"idle", "fetch", "sent", "failed", "drive"}
Entries == {"none", "read", "ask", "add", "start"}

TypeOK ==
  /\ tip \in Blocks \cup {NoBlock} /\ best \in Blocks
  /\ announced \in BOOLEAN
  /\ entry \in [pc : Entries, hash : Blocks \cup {NoBlock}]
  /\ loop \in {"off", "headers", "batch", "stopped", "done"}
  /\ job \in [Threads -> [pc : Jobs, hash : Blocks \cup {NoBlock}, height : Nat]]
  /\ \A item \in buffer : item.height \in next..target
  /\ running # Nothing => job[running.driver].pc = "drive"

\* The places a block of the batch with this height can be in.
Holders(h) ==
  {<<"queue", i>> : i \in {i \in 1..Len(queue) : queue[i].height = h}}
  \cup {<<"thread", t>> : t \in {t \in Threads :
          job[t].pc \in {"fetch", "sent", "failed"} /\ job[t].height = h}}
  \cup {<<"buffer", item.hash>> : item \in {item \in buffer : item.height = h}}
  \cup (IF running # Nothing /\ h = next THEN {<<"running", running.hash>>} ELSE {})

\* Through failed requests, blocks that arrive in any order and threads that
\* are handed on, every block of the batch that is not yet processed is in
\* exactly one place.
NoBlockLost ==
  /\ TypeOK
  /\ loop = "batch" /\ ~ stopping =>
       \A h \in next..target : Cardinality(Holders(h)) = 1

\* The blocks of the batch that are waited for, fetched or being added.
Batch ==
  {queue[i].hash : i \in 1..Len(queue)} \cup {job[t].hash : t \in Threads}
  \cup {item.hash : item \in buffer} \cup {running.hash}

\* Nothing is rolled back but for a fork: as long as the tip is below a block
\* of the batch it stays or grows, since the buffer puts what the threads fetch
\* back into the order of the chain.  Only a second sync(), called for a peer's
\* block at height 0, may give addBlock the genesis block again after the
\* threads have raised the tip.
NoNeedlessRollback ==
  [][(\E b \in Batch : tip \in L!Chain(b)) /\ ~ GenesisRejected =>
       tip' # NoBlock /\ L!Height(tip) <= L!Height(tip')]_vars

\* The same of every step, which the second sync() breaks (p2p.ts:356).
BatchOnlyGrows ==
  [][(\E b \in Batch : tip \in L!Chain(b)) =>
       tip' # NoBlock /\ L!Height(tip) <= L!Height(tip')]_vars

\* A thread has died with a block, or a block was given to it afterwards.
BlockDied == \E t \in dead : job[t].pc = "fetch"

\* The initial sync comes to its end, whatever fails and whoever restarts it,
\* unless a thread dies with a block: nobody else fetches that one.
SyncEnds == <>(loop = "done") \/ <>[]BlockDied
=============================================================================
