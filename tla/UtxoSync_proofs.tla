--------------------------- MODULE UtxoSync_proofs ---------------------------
(***************************************************************************)
(* Proofs about the initial sync with threads, for every tree of blocks,   *)
(* every number of threads and every bound on the failures.                *)
(***************************************************************************)
EXTENDS UtxoSync, FiniteSetTheorems, SequenceTheorems, TLAPS

-----------------------------------------------------------------------------
(* The chains of the blocks of this module.                                *)

T == INSTANCE Ledger_proofs WITH
       BlockTxs <- [b \in Blocks |-> <<>>], Inputs <- <<>>, Outputs <- <<>>

LEMMA TreeOfBlocks == T!IsTree
BY SyncAssumption DEF T!IsTree

LEMMA SameChains ==
  /\ L!ChainOf = T!ChainOf
  /\ \A b : L!Chain(b) = T!Chain(b) /\ L!Height(b) = T!Height(b)
BY DEF L!ChainOf, L!Chain, L!Height, T!ChainOf, T!Chain, T!Height

LEMMA ChainStep ==
  ASSUME NEW b \in Blocks
  PROVE  L!ChainOf[b] = IF b = Genesis THEN <<b>> ELSE Append(L!ChainOf[Parent[b]], b)
BY TreeOfBlocks, SameChains, T!ChainStep

LEMMA ChainShape ==
  ASSUME NEW b \in Blocks
  PROVE  /\ L!ChainOf[b] \in Seq(Blocks) /\ L!ChainOf[b] # <<>>
         /\ L!ChainOf[b][1] = Genesis /\ L!ChainOf[b][Len(L!ChainOf[b])] = b
BY TreeOfBlocks, SameChains, T!ChainShape

LEMMA ChainPrefix ==
  ASSUME NEW b \in Blocks, NEW i \in 1 .. Len(L!ChainOf[b])
  PROVE  /\ L!ChainOf[b][i] \in Blocks
         /\ Len(L!ChainOf[L!ChainOf[b][i]]) = i
         /\ \A j \in 1 .. i : L!ChainOf[L!ChainOf[b][i]][j] = L!ChainOf[b][j]
BY TreeOfBlocks, SameChains, T!ChainPrefix

LEMMA ChainParent ==
  ASSUME NEW b \in Blocks, NEW i \in 1 .. Len(L!ChainOf[b]), i # 1
  PROVE  L!ChainOf[b][i] # Genesis /\ Parent[L!ChainOf[b][i]] = L!ChainOf[b][i - 1]
BY TreeOfBlocks, SameChains, T!ChainParent

LEMMA ChainMembers ==
  ASSUME NEW b \in Blocks
  PROVE  /\ L!Chain(b) \subseteq Blocks /\ b \in L!Chain(b) /\ Genesis \in L!Chain(b)
         /\ L!Height(b) \in Nat /\ L!Height(b) + 1 = Len(L!ChainOf[b])
         /\ \A i \in 1 .. Len(L!ChainOf[b]) :
               L!ChainOf[b][i] \in L!Chain(b) /\ L!Height(L!ChainOf[b][i]) = i - 1
BY TreeOfBlocks, SameChains, T!ChainMembers

LEMMA ChainAt ==
  ASSUME NEW b \in Blocks, NEW x \in L!Chain(b)
  PROVE  /\ x \in Blocks /\ L!Height(x) + 1 \in 1 .. Len(L!ChainOf[b])
         /\ x = L!ChainOf[b][L!Height(x) + 1]
         /\ L!Chain(x) \subseteq L!Chain(b)
BY TreeOfBlocks, SameChains, T!ChainAt

-----------------------------------------------------------------------------
(* The invariant.                                                          *)

Items == [hash : Blocks, height : Nat]
JobTable == [Threads -> [pc : Jobs, hash : Blocks \cup {NoBlock}, height : Nat]]

Carried(j, t) == j[t].pc \in {"fetch", "sent", "failed"}

\* The highest height that has been taken out of the queue.
Top(q, tg) == tg - Len(q)

\* The heights of the queue are the last ones of the batch, and no two places
\* hold the same height.  r is the hash of the block that is being added.
Places(q, j, buf, r, nx, tg) ==
  /\ q \in Seq(Items) /\ j \in JobTable /\ buf \subseteq Items
  /\ nx \in Nat /\ tg \in Nat /\ r \in Blocks \cup {NoBlock}
  /\ nx - 1 <= Top(q, tg)
  /\ \A t \in Threads : Carried(j, t) <=> j[t].hash # NoBlock
  /\ \A i \in 1 .. Len(q) : q[i].height = Top(q, tg) + i
  /\ \A t \in Threads : Carried(j, t) => j[t].height \in nx .. Top(q, tg)
  /\ \A item \in buf : item.height \in nx .. Top(q, tg)
  /\ r # NoBlock =>
       /\ nx <= Top(q, tg)
       /\ \A t \in Threads : Carried(j, t) => j[t].height # nx
       /\ \A item \in buf : item.height # nx
  /\ \A t, u \in Threads :
       Carried(j, t) /\ Carried(j, u) /\ j[t].height = j[u].height => t = u
  /\ \A x, y \in buf : x.height = y.height => x = y
  /\ \A t \in Threads : \A item \in buf : Carried(j, t) => j[t].height # item.height

Held(j, buf, r, nx, h) ==
  \/ r # NoBlock /\ h = nx
  \/ \E t \in Threads : Carried(j, t) /\ j[t].height = h
  \/ \E item \in buf : item.height = h

\* Every height that has been taken out of the queue is held.
AllHeld(q, j, buf, r, nx, tg) ==
  \A h \in nx .. Top(q, tg) : Held(j, buf, r, nx, h)

\* The block of the height, when the batch is the chain of b shifted by d.
At(b, d, hash, height) ==
  /\ height + 1 - d \in 2 .. Len(L!ChainOf[b])
  /\ hash = L!ChainOf[b][height + 1 - d]

InChain(b, d, q, j, buf, r, nx) ==
  /\ \A i \in 1 .. Len(q) : At(b, d, q[i].hash, q[i].height)
  /\ \A t \in Threads : Carried(j, t) => At(b, d, j[t].hash, j[t].height)
  /\ \A item \in buf : At(b, d, item.hash, item.height)
  /\ r # NoBlock => At(b, d, r, nx)

\* The next block belongs on the tip, or none does.
OnTip(b, d) ==
  \/ d = 0 /\ next \in 1 .. Len(L!ChainOf[b]) /\ tip = L!ChainOf[b][next]
  \/ tip \in Blocks \ L!Chain(b)

TypeInv ==
  /\ tip \in Blocks \cup {NoBlock} /\ best \in Blocks
  /\ loop \in {"off", "headers", "batch", "stopped", "done"}
  /\ dead \subseteq Threads /\ stopping \in BOOLEAN
  /\ queue \in Seq(Items) /\ job \in JobTable /\ buffer \subseteq Items
  /\ next \in Nat /\ target \in Nat
  /\ running = Nothing \/ running \in [hash : Blocks, driver : Threads]
  /\ running # Nothing => loop = "batch" /\ job[running.driver].pc = "drive"
  /\ \A t \in Threads : Carried(job, t) <=> job[t].hash # NoBlock
  /\ tip = NoBlock => loop = "off" \/ stopping

\* Outside a batch nobody has a block.
Empty ==
  /\ queue = <<>> /\ buffer = {} /\ running = Nothing
  /\ \A t \in Threads : ~ Carried(job, t)

BatchInv ==
  /\ loop # "batch" => Empty
  /\ loop = "batch" => Places(queue, job, buffer, running.hash, next, target)
  /\ loop = "batch" /\ ~ stopping =>
       AllHeld(queue, job, buffer, running.hash, next, target)

ChainInv ==
  running # Nothing \/ (loop = "batch" /\ ~ stopping) =>
    \E b \in Blocks : \E d \in Int :
      InChain(b, d, queue, job, buffer, running.hash, next) /\ OnTip(b, d)

SyncInv == TypeInv /\ BatchInv /\ ChainInv

\* The block sync() is about to add is the genesis block, or one the tip has
\* passed.
EntryInv ==
  /\ announced \in BOOLEAN
  /\ entry \in [pc : Entries, hash : Blocks \cup {NoBlock}]
  /\ best \in Blocks \ {Genesis}
  /\ entry.pc = "add" =>
       entry.hash = Genesis \/ (tip \in Blocks /\ entry.hash \in L!Chain(tip))
  /\ entry.pc = "start" => tip \in Blocks
-----------------------------------------------------------------------------
(* How a block moves from one place to the next.                           *)

\* A thread that has no block is given the first of the queue.
LEMMA GiveBlock ==
  ASSUME NEW q, NEW j, NEW buf, NEW r, NEW nx, NEW tg,
         Places(q, j, buf, r, nx, tg), q # <<>>,
         NEW t \in Threads, ~ Carried(j, t),
         NEW k, k = [j EXCEPT ![t] = Fetching(Head(q))]
  PROVE  /\ Places(Tail(q), k, buf, r, nx, tg)
         /\ AllHeld(q, j, buf, r, nx, tg) => AllHeld(Tail(q), k, buf, r, nx, tg)
         /\ \A b \in Blocks, d \in Int : InChain(b, d, q, j, buf, r, nx)
                                      => InChain(b, d, Tail(q), k, buf, r, nx)
<1>1. /\ q \in Seq(Items) /\ j \in JobTable /\ nx \in Nat /\ tg \in Nat
      /\ Len(q) \in Nat /\ Len(q) >= 1 /\ Head(q) = q[1] /\ q[1] \in Items
  BY DEF Places
<1>2. /\ Tail(q) \in Seq(Items) /\ Len(Tail(q)) = Len(q) - 1
      /\ \A i \in 1 .. Len(q) - 1 : Tail(q)[i] = q[i + 1]
  BY <1>1
<1>3. Top(q, tg) \in Int /\ Top(Tail(q), tg) = Top(q, tg) + 1
  BY <1>1, <1>2 DEF Top
<1>4. q[1].height = Top(q, tg) + 1
  BY <1>1 DEF Places
<1>5. PICK w : w = Fetching(q[1])
  OBVIOUS
<1>6. /\ w \in [pc : Jobs, hash : Blocks \cup {NoBlock}, height : Nat]
      /\ w.pc = "fetch" /\ w.hash = q[1].hash /\ w.height = q[1].height
      /\ w.hash # NoBlock
  BY <1>1, <1>5, SyncAssumption DEF Fetching, Items, Jobs
<1>7. k \in JobTable /\ k[t] = w /\ \A u \in Threads : u # t => k[u] = j[u]
  BY <1>1, <1>5, <1>6 DEF JobTable
<1>8. Carried(k, t) /\ \A u \in Threads : u # t => (Carried(k, u) <=> Carried(j, u))
  BY <1>6, <1>7 DEF Carried
<1>9. ASSUME NEW u \in Threads, Carried(k, u)
      PROVE  \/ u = t /\ k[u].height = Top(q, tg) + 1
             \/ u # t /\ Carried(j, u) /\ k[u] = j[u]
  BY <1>4, <1>6, <1>7, <1>8, <1>9
<1>10. nx - 1 <= Top(q, tg)
  BY DEF Places
<1>11. Places(Tail(q), k, buf, r, nx, tg)
  <2>1. \A u \in Threads : Carried(k, u) <=> k[u].hash # NoBlock
    BY <1>6, <1>7, <1>8 DEF Places
  <2>2. \A i \in 1 .. Len(Tail(q)) : Tail(q)[i].height = Top(Tail(q), tg) + i
    BY <1>1, <1>2, <1>3 DEF Places
  <2>3. ASSUME NEW u \in Threads, Carried(k, u)
        PROVE  k[u].height \in nx .. Top(Tail(q), tg)
    BY <1>1, <1>3, <1>9, <1>10, <2>3 DEF Places
  <2>4. \A item \in buf : item.height \in nx .. Top(Tail(q), tg) /\ item.height <= Top(q, tg)
    BY <1>1, <1>3 DEF Places
  <2>5. r # NoBlock =>
          /\ nx <= Top(Tail(q), tg)
          /\ \A u \in Threads : Carried(k, u) => k[u].height # nx
          /\ \A item \in buf : item.height # nx
    <3> SUFFICES ASSUME r # NoBlock
                 PROVE  /\ nx <= Top(Tail(q), tg)
                        /\ \A u \in Threads : Carried(k, u) => k[u].height # nx
                        /\ \A item \in buf : item.height # nx
      OBVIOUS
    <3>2. /\ nx <= Top(q, tg)
          /\ \A u \in Threads : Carried(j, u) => j[u].height # nx
          /\ \A item \in buf : item.height # nx
      BY DEF Places
    <3>3. ASSUME NEW u \in Threads, Carried(k, u) PROVE k[u].height # nx
      BY <1>1, <1>3, <1>9, <3>2, <3>3
    <3>4. nx <= Top(Tail(q), tg)
      BY <1>1, <1>3, <3>2
    <3> QED
      BY <3>2, <3>3, <3>4
  <2>6. ASSUME NEW u \in Threads, NEW v \in Threads, Carried(k, u), Carried(k, v),
               k[u].height = k[v].height
        PROVE  u = v
    BY <1>1, <1>3, <1>9, <2>6 DEF Places
  <2>7. ASSUME NEW u \in Threads, NEW item \in buf, Carried(k, u)
        PROVE  k[u].height # item.height
    BY <1>1, <1>3, <1>9, <2>4, <2>7 DEF Places
  <2>8. /\ buf \subseteq Items /\ r \in Blocks \cup {NoBlock}
        /\ \A x, y \in buf : x.height = y.height => x = y
    BY DEF Places
  <2>9. nx - 1 <= Top(Tail(q), tg)
    BY <1>1, <1>3, <1>10
  <2> QED
    BY <1>1, <1>2, <1>7, <2>1, <2>2, <2>3, <2>4, <2>5, <2>6, <2>7, <2>8, <2>9 DEF Places
<1>12. ASSUME AllHeld(q, j, buf, r, nx, tg) PROVE AllHeld(Tail(q), k, buf, r, nx, tg)
  <2>1. SUFFICES ASSUME NEW h \in nx .. Top(Tail(q), tg) PROVE Held(k, buf, r, nx, h)
    BY DEF AllHeld
  <2>2. CASE h = Top(q, tg) + 1
    BY <1>4, <1>6, <1>7, <1>8, <2>2 DEF Held
  <2>3. CASE h # Top(q, tg) + 1
    <3>1. Held(j, buf, r, nx, h)
      BY <1>1, <1>3, <1>12, <2>1, <2>3 DEF AllHeld
    <3> QED
      BY <1>7, <1>8, <3>1 DEF Held
  <2> QED
    BY <2>2, <2>3
<1>13. ASSUME NEW b \in Blocks, NEW d \in Int, InChain(b, d, q, j, buf, r, nx)
       PROVE  InChain(b, d, Tail(q), k, buf, r, nx)
  <2>1. \A i \in 1 .. Len(Tail(q)) : At(b, d, Tail(q)[i].hash, Tail(q)[i].height)
    BY <1>1, <1>2, <1>13 DEF InChain
  <2>2. ASSUME NEW u \in Threads, Carried(k, u)
        PROVE  At(b, d, k[u].hash, k[u].height)
    <3>1. CASE u = t
      <4>1. At(b, d, q[1].hash, q[1].height)
        BY <1>1, <1>13 DEF InChain
      <4> QED
        BY <1>6, <1>7, <3>1, <4>1
    <3>2. CASE u # t
      BY <1>7, <1>8, <1>13, <2>2, <3>2 DEF InChain
    <3> QED
      BY <3>1, <3>2
  <2> QED
    BY <1>13, <2>1, <2>2 DEF InChain
<1> QED
  BY <1>11, <1>12, <1>13

\* Each thread has the same block in both tables, or none.
SameBlocks(j, k) ==
  /\ k \in JobTable
  /\ \A u \in Threads : /\ Carried(k, u) <=> Carried(j, u)
                        /\ k[u].hash = j[u].hash
                        /\ Carried(j, u) => k[u].height = j[u].height

\* The threads go on with the blocks they have.
LEMMA SamePlaces ==
  ASSUME NEW q, NEW j, NEW buf, NEW r, NEW nx, NEW tg,
         Places(q, j, buf, r, nx, tg), NEW k, SameBlocks(j, k)
  PROVE  /\ Places(q, k, buf, r, nx, tg)
         /\ AllHeld(q, j, buf, r, nx, tg) => AllHeld(q, k, buf, r, nx, tg)
         /\ \A b \in Blocks, d \in Int : InChain(b, d, q, j, buf, r, nx)
                                      => InChain(b, d, q, k, buf, r, nx)
<1> k \in JobTable
  BY DEF SameBlocks
<1> \A u \in Threads : /\ Carried(k, u) <=> Carried(j, u)
                       /\ k[u].hash = j[u].hash
                       /\ Carried(j, u) => k[u].height = j[u].height
  BY DEF SameBlocks
<1>1. Places(q, k, buf, r, nx, tg)
  <2>1. \A u \in Threads : Carried(k, u) => k[u].height \in nx .. Top(q, tg)
    BY DEF Places
  <2>2. r # NoBlock => \A u \in Threads : Carried(k, u) => k[u].height # nx
    BY DEF Places
  <2>3. ASSUME NEW u \in Threads, NEW v \in Threads, Carried(k, u), Carried(k, v),
               k[u].height = k[v].height
        PROVE  u = v
    <3>1. Carried(j, u) /\ Carried(j, v) /\ j[u].height = j[v].height
      BY <2>3
    <3> QED
      BY <3>1 DEF Places
  <2>4. ASSUME NEW u \in Threads, NEW item \in buf, Carried(k, u)
        PROVE  k[u].height # item.height
    <3>1. Carried(j, u) /\ j[u].height = k[u].height
      BY <2>4
    <3>2. j[u].height # item.height
      BY <3>1 DEF Places
    <3> QED
      BY <3>1, <3>2
  <2>5. \A u \in Threads : Carried(k, u) <=> k[u].hash # NoBlock
    BY DEF Places
  <2> QED
    BY <2>1, <2>2, <2>3, <2>4, <2>5 DEF Places
<1>2. AllHeld(q, j, buf, r, nx, tg) => AllHeld(q, k, buf, r, nx, tg)
  BY DEF AllHeld, Held
<1>3. ASSUME NEW b \in Blocks, NEW d \in Int, InChain(b, d, q, j, buf, r, nx)
      PROVE  InChain(b, d, q, k, buf, r, nx)
  BY <1>3 DEF InChain
<1> QED
  BY <1>1, <1>2, <1>3

\* A block that was fetched is put into the buffer.
Passed(q, j, buf, k, items, r, nx, tg) ==
  /\ Places(q, k, items, r, nx, tg)
  /\ AllHeld(q, j, buf, r, nx, tg) => AllHeld(q, k, items, r, nx, tg)
  /\ \A b \in Blocks, d \in Int : InChain(b, d, q, j, buf, r, nx)
                               => InChain(b, d, q, k, items, r, nx)

LEMMA IntoBuffer ==
  ASSUME NEW q, NEW j, NEW buf, NEW r, NEW nx, NEW tg, NEW t, NEW k, NEW items,
         Places(q, j, buf, r, nx, tg),
         t \in Threads, Carried(j, t), k = [j EXCEPT ![t] = Idle],
         items = {item \in buf : item.height # j[t].height}
                              \cup {Item(j[t].hash, j[t].height)}
  PROVE  Passed(q, j, buf, k, items, r, nx, tg)
<1>1. j \in JobTable /\ j[t].hash # NoBlock
  BY DEF Places
<1>2. PICK x : x = Item(j[t].hash, j[t].height)
  OBVIOUS
<1>3. x \in Items /\ x.hash = j[t].hash /\ x.height = j[t].height
  BY <1>1, <1>2 DEF Item, Items, JobTable
<1>4. \A item \in buf : item.height # j[t].height
  BY DEF Places
<1>5. items = buf \cup {x}
  BY <1>2, <1>4
<1>6. k \in JobTable /\ k[t].pc = "idle" /\ k[t].hash = NoBlock /\ \A u \in Threads : u # t => k[u] = j[u]
  BY <1>1 DEF JobTable, Jobs, Idle
<1>7. ~ Carried(k, t) /\ \A u \in Threads : Carried(k, u) => u # t /\ Carried(j, u) /\ k[u] = j[u]
  BY <1>6 DEF Carried
<1>8. \A u \in Threads : u # t /\ Carried(j, u) => Carried(k, u) /\ k[u] = j[u]
  BY <1>6 DEF Carried
<1>9. \A u \in Threads : Carried(k, u) <=> k[u].hash # NoBlock
  BY <1>6, <1>7, <1>8 DEF Places
<1>10. \A u \in Threads : u # t /\ Carried(j, u) => j[u].height # x.height
  BY <1>3 DEF Places
<1>11. x.height \in nx .. Top(q, tg) /\ (r # NoBlock => x.height # nx)
  BY <1>3 DEF Places
<1>12. Places(q, k, items, r, nx, tg)
  <2>1. \A u \in Threads : Carried(k, u) => k[u].height \in nx .. Top(q, tg)
    BY <1>7 DEF Places
  <2>2. ASSUME r # NoBlock
        PROVE  /\ \A u \in Threads : Carried(k, u) => k[u].height # nx
               /\ \A item \in items : item.height # nx
    <3>1. \A item \in buf : item.height # nx
      BY <2>2 DEF Places
    <3>2. \A u \in Threads : Carried(k, u) => k[u].height # nx
      BY <1>7, <2>2 DEF Places
    <3> QED
      BY <1>5, <1>11, <2>2, <3>1, <3>2
  <2>3. \A u, v \in Threads :
          Carried(k, u) /\ Carried(k, v) /\ k[u].height = k[v].height => u = v
    BY <1>7 DEF Places
  <2>4. ASSUME NEW u \in Threads, NEW item \in items, Carried(k, u)
        PROVE  k[u].height # item.height
    <3>1. u # t /\ Carried(j, u) /\ k[u] = j[u]
      BY <1>7, <2>4
    <3>2. item \in buf => j[u].height # item.height
      BY <3>1 DEF Places
    <3> QED
      BY <1>5, <1>10, <3>1, <3>2
  <2>5. items \subseteq Items /\ \A item \in items : item.height \in nx .. Top(q, tg)
    <3>1. buf \subseteq Items /\ \A item \in buf : item.height \in nx .. Top(q, tg)
      BY DEF Places
    <3> QED
      BY <1>3, <1>5, <1>11, <3>1
  <2>6. \A y, z \in items : y.height = z.height => y = z
    <3>1. \A y, z \in buf : y.height = z.height => y = z
      BY DEF Places
    <3> QED
      BY <1>3, <1>4, <1>5, <3>1
  <2> QED
    BY <1>6, <1>9, <2>1, <2>2, <2>3, <2>4, <2>5, <2>6 DEF Places
<1>13. ASSUME AllHeld(q, j, buf, r, nx, tg) PROVE AllHeld(q, k, items, r, nx, tg)
  <2>1. SUFFICES ASSUME NEW h \in nx .. Top(q, tg) PROVE Held(k, items, r, nx, h)
    BY DEF AllHeld
  <2>2. Held(j, buf, r, nx, h)
    BY <1>13 DEF AllHeld
  <2>3. CASE h = x.height
    BY <1>5, <2>3 DEF Held
  <2>4. CASE h # x.height
    <3>1. \A u \in Threads : Carried(j, u) /\ j[u].height = h => Carried(k, u) /\ k[u].height = h
      BY <1>3, <1>8, <2>4
    <3> QED
      BY <1>5, <2>2, <3>1 DEF Held
  <2> QED
    BY <2>3, <2>4
<1>14. ASSUME NEW b \in Blocks, NEW d \in Int, InChain(b, d, q, j, buf, r, nx)
       PROVE  InChain(b, d, q, k, items, r, nx)
  <2>1. At(b, d, x.hash, x.height)
    BY <1>3, <1>14 DEF InChain
  <2> QED
    BY <1>5, <1>7, <1>14, <2>1 DEF InChain
<1> QED
  BY <1>12, <1>13, <1>14 DEF Passed

\* The next block is taken out of the buffer, to be added.
LEMMA FromBuffer ==
  ASSUME NEW q, NEW j, NEW buf, NEW nx, NEW tg,
         Places(q, j, buf, NoBlock, nx, tg),
         NEW x \in buf, x.height = nx
  PROVE  /\ x.hash \in Blocks /\ x.hash # NoBlock
         /\ Places(q, j, buf \ {x}, x.hash, nx, tg)
         /\ AllHeld(q, j, buf, NoBlock, nx, tg) => AllHeld(q, j, buf \ {x}, x.hash, nx, tg)
         /\ \A b \in Blocks, d \in Int : InChain(b, d, q, j, buf, NoBlock, nx)
                                      => InChain(b, d, q, j, buf \ {x}, x.hash, nx)
<1>1. /\ x \in Items /\ x.hash \in Blocks /\ x.hash # NoBlock
      /\ q \in Seq(Items) /\ nx \in Nat /\ tg \in Nat
  BY SyncAssumption DEF Places, Items
<1>2. nx <= Top(q, tg)
  <2>1. x.height \in nx .. Top(q, tg)
    BY DEF Places
  <2>2. Top(q, tg) \in Int
    BY <1>1 DEF Top
  <2> QED
    BY <1>1, <2>1, <2>2
<1>3. \A t \in Threads : Carried(j, t) => j[t].height # nx
  BY DEF Places
<1>4. \A item \in buf \ {x} : item.height # nx
  BY DEF Places
<1>5. Places(q, j, buf \ {x}, x.hash, nx, tg)
  BY <1>1, <1>2, <1>3, <1>4 DEF Places
<1>6. AllHeld(q, j, buf, NoBlock, nx, tg) => AllHeld(q, j, buf \ {x}, x.hash, nx, tg)
  BY <1>1 DEF AllHeld, Held
<1>7. ASSUME NEW b \in Blocks, NEW d \in Int, InChain(b, d, q, j, buf, NoBlock, nx)
      PROVE  InChain(b, d, q, j, buf \ {x}, x.hash, nx)
  <2>1. At(b, d, x.hash, nx)
    BY <1>7 DEF InChain
  <2> QED
    BY <1>7, <2>1 DEF InChain
<1> QED
  BY <1>1, <1>5, <1>6, <1>7

\* The block has been added.
LEMMA BlockAdded ==
  ASSUME NEW q, NEW j, NEW buf, NEW r, NEW nx, NEW tg,
         Places(q, j, buf, r, nx, tg), r # NoBlock
  PROVE  /\ nx <= tg
         /\ Places(q, j, buf, NoBlock, nx + 1, tg)
         /\ AllHeld(q, j, buf, r, nx, tg) => AllHeld(q, j, buf, NoBlock, nx + 1, tg)
         /\ \A b \in Blocks, d \in Int : InChain(b, d, q, j, buf, r, nx)
                                      => InChain(b, d, q, j, buf, NoBlock, nx + 1)
<1>1. q \in Seq(Items) /\ Len(q) \in Nat /\ nx \in Nat /\ tg \in Nat /\ nx <= Top(q, tg)
  BY DEF Places
<1>2. Top(q, tg) \in Int /\ Top(q, tg) <= tg
  BY <1>1 DEF Top
<1>3. \A t \in Threads : Carried(j, t) => j[t].height \in nx + 1 .. Top(q, tg)
  <2>1. \A t \in Threads : Carried(j, t) => j[t].height \in nx .. Top(q, tg) /\ j[t].height # nx
    BY DEF Places
  <2> QED
    BY <1>1, <1>2, <2>1
<1>4. \A item \in buf : item.height \in nx + 1 .. Top(q, tg)
  <2>1. \A item \in buf : item.height \in nx .. Top(q, tg) /\ item.height # nx
    BY DEF Places
  <2> QED
    BY <1>1, <1>2, <2>1
<1>5. (nx + 1) - 1 <= Top(q, tg) /\ nx + 1 \in Nat
  BY <1>1
<1>6. Places(q, j, buf, NoBlock, nx + 1, tg)
  <2>1. /\ j \in JobTable /\ buf \subseteq Items
        /\ \A t \in Threads : Carried(j, t) <=> j[t].hash # NoBlock
        /\ \A i \in 1 .. Len(q) : q[i].height = Top(q, tg) + i
        /\ \A t, u \in Threads :
              Carried(j, t) /\ Carried(j, u) /\ j[t].height = j[u].height => t = u
        /\ \A x, y \in buf : x.height = y.height => x = y
        /\ \A t \in Threads : \A item \in buf : Carried(j, t) => j[t].height # item.height
    BY DEF Places
  <2> QED
    BY <1>1, <1>3, <1>4, <1>5, <2>1 DEF Places
<1>7. ASSUME AllHeld(q, j, buf, r, nx, tg) PROVE AllHeld(q, j, buf, NoBlock, nx + 1, tg)
  <2>1. SUFFICES ASSUME NEW h \in nx + 1 .. Top(q, tg) PROVE Held(j, buf, NoBlock, nx + 1, h)
    BY DEF AllHeld
  <2>2. h \in nx .. Top(q, tg) /\ h # nx
    BY <1>1, <1>2
  <2>3. Held(j, buf, r, nx, h)
    BY <1>7, <2>2 DEF AllHeld
  <2> QED
    BY <2>2, <2>3 DEF Held
<1>8. ASSUME NEW b \in Blocks, NEW d \in Int, InChain(b, d, q, j, buf, r, nx)
      PROVE  InChain(b, d, q, j, buf, NoBlock, nx + 1)
  BY <1>8 DEF InChain
<1>9. nx <= tg
  BY <1>1, <1>2
<1> QED
  BY <1>6, <1>7, <1>8, <1>9

-----------------------------------------------------------------------------
(* The batches.                                                            *)

\* The headers are the chain of the peers above a block of it; above the tip
\* when the tip is on it.
LEMMA HeadersAreChain ==
  ASSUME best \in Blocks, tip \in Blocks \cup {NoBlock}
  PROVE  \E last \in 1 .. Len(L!ChainOf[best]) :
           /\ last = 1 \/ L!ChainOf[best][last] \in L!Chain(tip)
           /\ Headers \in Seq(Blocks) /\ Len(Headers) = Len(L!ChainOf[best]) - last
           /\ \A i \in 1 .. Len(Headers) : Headers[i] = L!ChainOf[best][last + i]
           /\ tip \in L!Chain(best) => last = L!Height(tip) + 1
<1>1. PICK chain : chain = L!ChainOf[best]
  OBVIOUS
<1>2. chain \in Seq(Blocks) /\ Len(chain) \in Nat /\ Len(chain) >= 1
  BY <1>1, ChainShape
<1>3. PICK common : common = {i \in 1 .. Len(chain) : i = 1 \/ chain[i] \in L!Chain(tip)}
  OBVIOUS
<1>4. \E i \in common : \A j \in common : j <= i
  <2>1. common \in SUBSET Nat /\ (\A i \in common : i <= Len(chain)) /\ common # {}
    BY <1>2, <1>3
  <2> QED
    BY <1>2, <2>1, T!GreatestNumber
<1>5. PICK last : last = CHOOSE i \in common : \A j \in common : j <= i
  OBVIOUS
<1>6. last \in common /\ \A j \in common : j <= last
  BY <1>4, <1>5
<1>7. last \in 1 .. Len(chain)
  BY <1>3, <1>6
<1>8. Headers = SubSeq(chain, last + 1, Len(chain))
  BY <1>1, <1>3, <1>5 DEF Headers
<1>9. /\ Headers \in Seq(Blocks) /\ Len(Headers) = Len(chain) - last
      /\ \A i \in 1 .. Len(Headers) : Headers[i] = chain[last + i]
  <2>1. last + 1 \in 1 .. Len(chain) + 1 /\ Len(chain) \in last + 1 - 1 .. Len(chain)
    BY <1>2, <1>7
  <2>2. /\ SubSeq(chain, last + 1, Len(chain)) \in Seq(Blocks)
        /\ Len(SubSeq(chain, last + 1, Len(chain))) = Len(chain) - last
        /\ \A i \in 1 .. Len(chain) - last : SubSeq(chain, last + 1, Len(chain))[i] = chain[last + i]
    BY <1>2, <1>7, SubSeqProperties
  <2> QED
    BY <1>8, <2>2
<1>10. ASSUME tip \in L!Chain(best) PROVE last = L!Height(tip) + 1
  <2>0. tip \in Blocks
    BY <1>10, ChainMembers
  <2>1. /\ L!Height(tip) + 1 \in 1 .. Len(chain) /\ tip = chain[L!Height(tip) + 1]
    BY <1>1, <1>10, ChainAt
  <2>2. tip \in L!Chain(tip) /\ L!Height(tip) \in Nat
    BY <2>0, ChainMembers
  <2>3. L!Height(tip) + 1 <= last
    BY <1>3, <1>6, <2>1, <2>2
  <2>4. last = 1 \/ chain[last] \in L!Chain(tip)
    BY <1>3, <1>6
  <2>5. CASE chain[last] \in L!Chain(tip)
    <3>1. L!Height(chain[last]) + 1 \in 1 .. Len(L!ChainOf[tip])
      BY <2>0, <2>5, ChainAt
    <3>2. L!Height(chain[last]) = last - 1
      BY <1>1, <1>7, ChainMembers
    <3>3. Len(L!ChainOf[tip]) = L!Height(tip) + 1
      BY <2>0, ChainMembers
    <3> QED
      BY <1>2, <1>7, <2>2, <2>3, <3>1, <3>2, <3>3
  <2> QED
    BY <1>2, <1>7, <2>2, <2>3, <2>4, <2>5
<1>11. last = 1 \/ chain[last] \in L!Chain(tip)
  BY <1>3, <1>6
<1> QED
  BY <1>1, <1>7, <1>9, <1>10, <1>11

\* The threads that live are numbered from 1 on, in their order.
LEMMA PlacesOfThreads ==
  ASSUME NEW live, live = Threads \ dead
  PROVE  /\ IsFiniteSet(live) /\ Cardinality(live) \in Nat
         /\ \A t \in live : Place(t) \in 1 .. Cardinality(live)
         /\ \A t, u \in live : Place(t) = Place(u) => t = u
         /\ \A i \in 1 .. Cardinality(live) : \E t \in live : Place(t) = i
<1>1. IsFiniteSet(live) /\ Cardinality(live) \in Nat
  <2>1. IsFiniteSet(Threads)
    BY FS_Interval, SyncAssumption DEF Threads
  <2> QED
    BY <2>1, FS_Subset, FS_CardinalityType
<1>2. live \subseteq Nat
  BY SyncAssumption DEF Threads
<1>3. ASSUME NEW t \in live
      PROVE  Place(t) \in 1 .. Cardinality(live)
  <2>1. PICK S : S = {u \in live : u <= t}
    OBVIOUS
  <2>2. Place(t) = Cardinality(S)
    BY <2>1 DEF Place
  <2>3. IsFiniteSet(S) /\ Cardinality(S) <= Cardinality(live) /\ Cardinality(S) \in Nat
    BY <1>1, <2>1, FS_Subset, FS_CardinalityType
  <2>4. t \in S
    BY <1>2, <2>1
  <2>5. Cardinality(S) # 0
    BY <2>3, <2>4, FS_EmptySet
  <2> QED
    BY <1>1, <2>2, <2>3, <2>5
<1>4. ASSUME NEW t \in live, NEW u \in live, t < u
      PROVE  Place(t) < Place(u)
  <2>1. PICK S : S = {v \in live : v <= t}
    OBVIOUS
  <2>2. PICK V : V = {v \in live : v <= u}
    OBVIOUS
  <2>3. Place(t) = Cardinality(S) /\ Place(u) = Cardinality(V)
    BY <2>1, <2>2 DEF Place
  <2>4. IsFiniteSet(V) /\ S \subseteq V
    BY <1>1, <1>2, <1>4, <2>1, <2>2, FS_Subset
  <2>5. u \in V /\ u \notin S
    BY <1>2, <1>4, <2>1, <2>2
  <2>6. /\ IsFiniteSet(S) /\ Cardinality(S) <= Cardinality(V)
        /\ (Cardinality(V) = Cardinality(S) => V = S)
    BY <2>4, FS_Subset
  <2>7. Cardinality(S) \in Nat /\ Cardinality(V) \in Nat
    BY <2>4, <2>6, FS_CardinalityType
  <2> QED
    BY <2>3, <2>5, <2>6, <2>7
<1>5. ASSUME NEW t \in live, NEW u \in live, Place(t) = Place(u)
      PROVE  t = u
  <2>1. t \in Nat /\ u \in Nat /\ Place(t) \in Nat /\ Place(u) \in Nat
    BY <1>2, <1>3
  <2>2. ~ (t < u) /\ ~ (u < t)
    BY <1>4, <1>5, <2>1
  <2> QED
    BY <2>1, <2>2
<1>6. PICK f : f = [t \in live |-> Place(t)]
  OBVIOUS
<1>7. PICK I : I = 1 .. Cardinality(live)
  OBVIOUS
<1>8. f \in [live -> I]
  BY <1>3, <1>6, <1>7
<1>9. f \in Injection(live, I)
  BY <1>5, <1>6, <1>8 DEF Injection, IsInjective
<1>10. IsFiniteSet(I) /\ Cardinality(I) = Cardinality(live)
  BY <1>1, <1>7, FS_Interval
<1>11. f \in Surjection(live, I)
  BY <1>9, <1>10, FS_Injection
<1>12. \A i \in I : \E t \in live : f[t] = i
  BY <1>11 DEF Surjection
<1> QED
  BY <1>1, <1>3, <1>5, <1>6, <1>7, <1>12

LEMMA BatchStarts ==
  ASSUME SyncInv, NextBatch
  PROVE  SyncInv'
<1>1. /\ loop = "headers" /\ ~ stopping /\ Headers # <<>> /\ loop' = "batch"
      /\ tip' = tip /\ best' = best /\ dead' = dead /\ buffer' = buffer
      /\ running' = running /\ stopping' = stopping
  BY DEF NextBatch
<1>2. /\ queue = <<>> /\ buffer = {} /\ running = Nothing
      /\ \A t \in Threads : ~ Carried(job, t)
  BY <1>1 DEF SyncInv, BatchInv, Empty
<1>3. tip \in Blocks /\ best \in Blocks
  BY <1>1 DEF SyncInv, TypeInv
<1>4. PICK base : base = L!Height(tip)
  OBVIOUS
<1>5. base \in Nat /\ base + 1 = Len(L!ChainOf[tip])
  BY <1>3, <1>4, ChainMembers
<1>6. PICK last \in 1 .. Len(L!ChainOf[best]) :
        /\ Headers \in Seq(Blocks) /\ Len(Headers) = Len(L!ChainOf[best]) - last
        /\ \A i \in 1 .. Len(Headers) : Headers[i] = L!ChainOf[best][last + i]
        /\ tip \in L!Chain(best) => last = L!Height(tip) + 1
  BY <1>3, HeadersAreChain
<1>7. PICK n : n = Len(Headers)
  OBVIOUS
<1>8. n \in Nat /\ n >= 1 /\ Len(L!ChainOf[best]) \in Nat /\ last \in Nat
  BY <1>1, <1>3, <1>6, <1>7, ChainShape
<1>9. PICK items : items = [i \in 1 .. Len(Headers) |-> Item(Headers[i], L!Height(tip) + i)]
  OBVIOUS
<1>10. \A i \in 1 .. n : /\ items[i] \in Items /\ items[i].hash = Headers[i]
                         /\ items[i].height = base + i
  BY <1>4, <1>5, <1>6, <1>7, <1>8, <1>9 DEF Item, Items
<1>11. items \in Seq(Items) /\ Len(items) = n
  BY <1>7, <1>8, <1>9, <1>10
<1>12. PICK live : live = Threads \ dead
  OBVIOUS
<1>13. /\ Cardinality(live) \in Nat
       /\ \A t \in live : Place(t) \in 1 .. Cardinality(live)
       /\ \A t, u \in live : Place(t) = Place(u) => t = u
       /\ \A i \in 1 .. Cardinality(live) : \E t \in live : Place(t) = i
  BY <1>12, PlacesOfThreads
<1>14. PICK given : given = IF n < Cardinality(live) THEN n ELSE Cardinality(live)
  OBVIOUS
<1>15. given \in 0 .. n /\ given <= Cardinality(live) /\ given \in Nat
  BY <1>8, <1>13, <1>14
<1>16. /\ queue' = SubSeq(items, given + 1, n)
       /\ job' = [t \in Threads |->
            IF t \in live /\ Place(t) <= given THEN Fetching(items[Place(t)]) ELSE job[t]]
       /\ next' = base + 1 /\ target' = base + n
  <2>1. /\ queue' = SubSeq(items, given + 1, Len(items))
        /\ job' = [t \in Threads |->
             IF t \notin dead /\ Place(t) <= given THEN Fetching(items[Place(t)]) ELSE job[t]]
        /\ next' = base + 1 /\ target' = base + Len(items)
    <3>1. given = IF Len(items) < Cardinality(Threads \ dead) THEN Len(items)
                  ELSE Cardinality(Threads \ dead)
      BY <1>11, <1>12, <1>14
    <3>2. PICK g : g = IF Len(items) < Cardinality(Threads \ dead) THEN Len(items)
                       ELSE Cardinality(Threads \ dead)
      OBVIOUS
    <3>3. /\ queue' = SubSeq(items, g + 1, Len(items))
          /\ job' = [t \in Threads |->
               IF t \notin dead /\ Place(t) <= g THEN Fetching(items[Place(t)]) ELSE job[t]]
          /\ next' = L!Height(tip) + 1 /\ target' = L!Height(tip) + Len(items)
      BY <1>9, <3>2 DEF NextBatch
    <3> QED
      BY <1>4, <3>1, <3>2, <3>3
  <2> QED
    BY <1>11, <1>12, <2>1
<1>17. /\ queue' \in Seq(Items) /\ Len(queue') = n - given
       /\ \A i \in 1 .. n - given : queue'[i] = items[given + i]
  <2>1. given + 1 \in 1 .. n + 1 /\ n \in given + 1 - 1 .. n
    BY <1>8, <1>15
  <2>2. /\ SubSeq(items, given + 1, n) \in Seq(Items)
        /\ Len(SubSeq(items, given + 1, n)) = n - given
        /\ \A i \in 1 .. n - given : SubSeq(items, given + 1, n)[i] = items[given + i]
    BY <1>8, <1>11, <1>15, SubSeqProperties
  <2> QED
    BY <1>16, <2>2
<1>18. Top(queue', target') = base + given
  BY <1>5, <1>8, <1>15, <1>16, <1>17 DEF Top
<1>19. ASSUME NEW t \in Threads, t \in live, Place(t) <= given
       PROVE  /\ Place(t) \in 1 .. given /\ Place(t) \in 1 .. n
              /\ job'[t] = Fetching(items[Place(t)])
              /\ job'[t] \in [pc : Jobs, hash : Blocks \cup {NoBlock}, height : Nat]
              /\ Carried(job', t) /\ job'[t].hash # NoBlock
              /\ job'[t].hash = Headers[Place(t)] /\ job'[t].height = base + Place(t)
  <2>1. Place(t) \in 1 .. given /\ Place(t) \in 1 .. n
    BY <1>8, <1>13, <1>15, <1>19
  <2>2. PICK x : x = items[Place(t)]
    OBVIOUS
  <2>3. x \in Items /\ x.hash = Headers[Place(t)] /\ x.height = base + Place(t)
    BY <1>10, <2>1, <2>2
  <2>4. job'[t] = Fetching(x)
    BY <1>16, <1>19, <2>2
  <2>5. x.hash # NoBlock
    BY <2>3, SyncAssumption DEF Items
  <2> QED
    BY <2>1, <2>2, <2>3, <2>4, <2>5 DEF Fetching, Carried, Jobs, Items
<1>20. ASSUME NEW t \in Threads, ~ (t \in live /\ Place(t) <= given)
       PROVE  job'[t] = job[t] /\ ~ Carried(job', t) /\ job'[t].hash = NoBlock
  <2>1. job'[t] = job[t]
    BY <1>16, <1>20
  <2>2. ~ Carried(job, t) /\ job[t].hash = NoBlock
    BY <1>2 DEF SyncInv, TypeInv
  <2> QED
    BY <2>1, <2>2 DEF Carried
<1>21. job' \in JobTable
  <2>1. job \in JobTable
    BY DEF SyncInv, TypeInv
  <2>2. \A t \in Threads : job'[t] \in [pc : Jobs, hash : Blocks \cup {NoBlock}, height : Nat]
    BY <1>19, <1>20, <2>1 DEF JobTable
  <2>3. job' = [t \in Threads |-> job'[t]]
    BY <1>16
  <2> QED
    BY <2>2, <2>3 DEF JobTable
<1>22. \A t \in Threads : Carried(job', t) <=> job'[t].hash # NoBlock
  BY <1>19, <1>20
<1>23. \A t \in Threads : Carried(job', t) =>
         /\ t \in live /\ Place(t) \in 1 .. given /\ Place(t) \in 1 .. n
         /\ job'[t].hash = Headers[Place(t)] /\ job'[t].height = base + Place(t)
  BY <1>19, <1>20
<1>24. running'.hash = NoBlock /\ buffer' = {} /\ running' = Nothing
  BY <1>1, <1>2 DEF Nothing
<1>25. Places(queue', job', buffer', running'.hash, next', target')
  <2>1. next' \in Nat /\ target' \in Nat /\ next' - 1 <= Top(queue', target')
    BY <1>5, <1>8, <1>15, <1>16, <1>18
  <2>2. \A i \in 1 .. Len(queue') : queue'[i].height = Top(queue', target') + i
    <3>1. ASSUME NEW i \in 1 .. Len(queue')
          PROVE  queue'[i].height = Top(queue', target') + i
      <4>1. given + i \in 1 .. n /\ i \in 1 .. n - given /\ i \in Nat
        BY <1>8, <1>15, <1>17
      <4>2. queue'[i].height = base + (given + i)
        BY <1>10, <1>17, <4>1
      <4> QED
        BY <1>5, <1>15, <1>18, <4>1, <4>2
    <3> QED
      BY <3>1
  <2>3. \A t \in Threads : Carried(job', t) => job'[t].height \in next' .. Top(queue', target')
    BY <1>5, <1>15, <1>16, <1>18, <1>23
  <2>4. \A t, u \in Threads :
          Carried(job', t) /\ Carried(job', u) /\ job'[t].height = job'[u].height => t = u
    BY <1>5, <1>8, <1>13, <1>23
  <2> QED
    BY <1>17, <1>21, <1>22, <1>24, <2>1, <2>2, <2>3, <2>4 DEF Places
<1>26. AllHeld(queue', job', buffer', running'.hash, next', target')
  <2>1. SUFFICES ASSUME NEW h \in next' .. Top(queue', target')
                 PROVE  Held(job', buffer', running'.hash, next', h)
    BY DEF AllHeld
  <2>2. h - base \in 1 .. given /\ h - base \in 1 .. Cardinality(live)
    BY <1>5, <1>13, <1>15, <1>16, <1>18
  <2>3. PICK t \in live : Place(t) = h - base
    BY <1>13, <2>2
  <2>4. t \in Threads
    BY <1>12
  <2>5. Carried(job', t) /\ job'[t].height = base + Place(t)
    BY <1>19, <2>2, <2>3, <2>4
  <2>6. base + Place(t) = h
    BY <1>5, <1>16, <1>18, <2>3
  <2> QED
    BY <2>4, <2>5, <2>6 DEF Held
<1>27. \E b \in Blocks : \E d \in Int :
         InChain(b, d, queue', job', buffer', running'.hash, next') /\ OnTip(b, d)'
  <2> PICK c : c = best
    OBVIOUS
  <2>1. PICK d : d = base + 1 - last
    OBVIOUS
  <2>2. d \in Int
    BY <1>5, <1>8, <2>1
  <2>3. ASSUME NEW i \in 1 .. n PROVE At(c, d, Headers[i], base + i)
    <3>1. (base + i) + 1 - d = last + i /\ last + i \in 2 .. Len(L!ChainOf[c])
      BY <1>5, <1>6, <1>7, <1>8, <2>1
    <3> QED
      BY <1>6, <1>7, <3>1 DEF At
  <2>4. \A i \in 1 .. Len(queue') : At(c, d, queue'[i].hash, queue'[i].height)
    <3>1. ASSUME NEW i \in 1 .. Len(queue')
          PROVE  /\ given + i \in 1 .. n /\ queue'[i].hash = Headers[given + i]
                 /\ queue'[i].height = base + (given + i)
      <4>1. given + i \in 1 .. n /\ i \in 1 .. n - given
        BY <1>8, <1>15, <1>17
      <4> QED
        BY <1>10, <1>17, <4>1
    <3> QED
      BY <2>3, <3>1
  <2>5. \A t \in Threads : Carried(job', t) => At(c, d, job'[t].hash, job'[t].height)
    BY <1>23, <2>3
  <2>6. InChain(c, d, queue', job', buffer', running'.hash, next')
    BY <1>24, <2>4, <2>5 DEF InChain
  <2>7. OnTip(c, d)'
    <3>1. CASE tip \in L!Chain(c)
      <4>1. last = base + 1 /\ d = 0
        BY <1>4, <1>5, <1>6, <1>8, <2>1, <3>1
      <4>2. tip = L!ChainOf[c][last]
        BY <1>3, <1>4, <3>1, <4>1, ChainAt
      <4>3. d = 0 /\ next' \in 1 .. Len(L!ChainOf[c]) /\ tip' = L!ChainOf[c][next']
        BY <1>1, <1>6, <1>16, <4>1, <4>2
      <4> QED
        BY <1>1, <4>3 DEF OnTip
    <3>2. CASE tip \notin L!Chain(c)
      BY <1>1, <1>3, <3>2 DEF OnTip
    <3> QED
      BY <3>1, <3>2
  <2>8. InChain(c, d, queue', job', buffer', running'.hash, next') /\ OnTip(c, d)'
    BY <2>6, <2>7
  <2> QED
    BY <1>3, <2>2, <2>8
<1>28. TypeInv'
  <2>1. next' \in Nat /\ target' \in Nat
    BY <1>5, <1>8, <1>16
  <2>2. dead' \subseteq Threads /\ stopping' \in BOOLEAN
    BY <1>1 DEF SyncInv, TypeInv
  <2> QED
    BY <1>1, <1>3, <1>17, <1>21, <1>22, <1>24, <2>1, <2>2, SyncAssumption DEF TypeInv
<1>29. BatchInv'
  BY <1>1, <1>25, <1>26 DEF BatchInv
<1>30. ChainInv'
  BY <1>27 DEF ChainInv
<1> QED
  BY <1>28, <1>29, <1>30 DEF SyncInv

-----------------------------------------------------------------------------
(* The steps of a batch.                                                   *)

\* A thread that has just given its block away gets the next one, or none.
LEMMA AssignKeeps ==
  ASSUME NEW t \in Threads, NEW items, NEW r, NEW height, NEW tg,
         job \in JobTable, NEW j, j = [job EXCEPT ![t] = Idle],
         Places(queue, j, items, r, height, tg), Assign(t)
  PROVE  /\ Places(queue', job', items, r, height, tg)
         /\ AllHeld(queue, j, items, r, height, tg)
              => AllHeld(queue', job', items, r, height, tg)
         /\ \A b \in Blocks, d \in Int : InChain(b, d, queue, j, items, r, height)
                                      => InChain(b, d, queue', job', items, r, height)
         /\ \A u \in Threads : u # t => job'[u] = job[u]
<1>1. j[t] = Idle /\ ~ Carried(j, t)
  BY DEF JobTable, Carried, Idle
<1>2. CASE queue # <<>> /\ ~ stopping
  <2>1. job' = [job EXCEPT ![t] = Fetching(Head(queue))] /\ queue' = Tail(queue)
    BY <1>2 DEF Assign
  <2>2. job' = [j EXCEPT ![t] = Fetching(Head(queue))]
    BY <2>1 DEF JobTable
  <2>3. \A u \in Threads : u # t => job'[u] = job[u]
    BY <2>1 DEF JobTable
  <2> QED
    BY <1>1, <1>2, <2>1, <2>2, <2>3, GiveBlock
<1>3. CASE ~ (queue # <<>> /\ ~ stopping)
  <2>1. job' = j /\ queue' = queue
    BY <1>3 DEF Assign
  <2>2. \A u \in Threads : u # t => job'[u] = job[u]
    BY <2>1 DEF JobTable
  <2> QED
    BY <2>1, <2>2
<1> QED
  BY <1>2, <1>3

\* A thread that has just put its block into the buffer hands the next one to
\* addBlock.
Driving == [pc |-> "drive", hash |-> NoBlock, height |-> 0]

Driven(q, j, k, buf, x, nx, tg) ==
  /\ x.hash \in Blocks /\ x.hash # NoBlock
  /\ Places(q, k, buf \ {x}, x.hash, nx, tg)
  /\ AllHeld(q, j, buf, NoBlock, nx, tg) => AllHeld(q, k, buf \ {x}, x.hash, nx, tg)
  /\ \A b \in Blocks, d \in Int : InChain(b, d, q, j, buf, NoBlock, nx)
                               => InChain(b, d, q, k, buf \ {x}, x.hash, nx)

LEMMA DriveBlock ==
  ASSUME NEW q, NEW j, NEW buf, NEW nx, NEW tg, NEW t, NEW k, NEW x,
         Places(q, j, buf, NoBlock, nx, tg),
         t \in Threads, ~ Carried(j, t), k = [j EXCEPT ![t] = Driving],
         x \in buf, x.height = nx
  PROVE  Driven(q, j, k, buf, x, nx, tg)
<1>1. j \in JobTable /\ j[t].hash = NoBlock
  BY DEF Places
<1>2. /\ k \in JobTable /\ k[t].pc = "drive" /\ k[t].hash = NoBlock
      /\ \A u \in Threads : u # t => k[u] = j[u]
  BY <1>1 DEF JobTable, Jobs, Driving
<1>3. SameBlocks(j, k)
  BY <1>1, <1>2 DEF Carried, SameBlocks
<1>4. /\ Places(q, k, buf, NoBlock, nx, tg)
      /\ AllHeld(q, j, buf, NoBlock, nx, tg) => AllHeld(q, k, buf, NoBlock, nx, tg)
      /\ \A b \in Blocks, d \in Int : InChain(b, d, q, j, buf, NoBlock, nx)
                                   => InChain(b, d, q, k, buf, NoBlock, nx)
  BY <1>3, SamePlaces
<1>5. /\ x.hash \in Blocks /\ x.hash # NoBlock
      /\ Places(q, k, buf \ {x}, x.hash, nx, tg)
      /\ AllHeld(q, k, buf, NoBlock, nx, tg) => AllHeld(q, k, buf \ {x}, x.hash, nx, tg)
      /\ \A b \in Blocks, d \in Int : InChain(b, d, q, k, buf, NoBlock, nx)
                                   => InChain(b, d, q, k, buf \ {x}, x.hash, nx)
  BY <1>4, FromBuffer
<1> QED
  BY <1>4, <1>5 DEF Driven

LEMMA ProcessKeeps ==
  ASSUME NEW t \in Threads, NEW items, NEW height, NEW tg,
         job \in JobTable, NEW j, j = [job EXCEPT ![t] = Idle],
         Places(queue, j, items, NoBlock, height, tg), Process(t, items, height)
  PROVE  /\ Places(queue', job', buffer', running'.hash, height, tg)
         /\ AllHeld(queue, j, items, NoBlock, height, tg)
              => AllHeld(queue', job', buffer', running'.hash, height, tg)
         /\ \A b \in Blocks, d \in Int :
              InChain(b, d, queue, j, items, NoBlock, height)
              => InChain(b, d, queue', job', buffer', running'.hash, height)
         /\ \/ running' = Nothing
            \/ /\ ~ stopping
               /\ running' \in [hash : Blocks, driver : Threads]
               /\ job'[running'.driver].pc = "drive"
<1>1. ~ Carried(j, t)
  BY DEF JobTable, Carried, Idle
<1>2. CASE Ready(items, height) # {} /\ ~ stopping
  <2>1. PICK x : /\ x \in items /\ x.height = height
          /\ buffer' = items \ {x} /\ running' = [hash |-> x.hash, driver |-> t]
          /\ job' = [job EXCEPT ![t] = [Idle EXCEPT !.pc = "drive"]]
          /\ queue' = queue
    BY <1>2 DEF Process, Ready
  <2>2. x \in items /\ x.height = height
    BY <2>1
  <2>3. [Idle EXCEPT !.pc = "drive"] = Driving
    BY DEF Idle, Driving
  <2>4. PICK k : k = [j EXCEPT ![t] = Driving]
    OBVIOUS
  <2>5. job' = k
    BY <2>1, <2>3, <2>4 DEF JobTable
  <2>6. k[t].pc = "drive"
    BY <2>4 DEF JobTable, Driving
  <2>7. Driven(queue, j, k, items, x, height, tg)
    BY <1>1, <2>2, <2>4, DriveBlock
  <2>8. /\ x.hash \in Blocks /\ x.hash # NoBlock
        /\ Places(queue, k, items \ {x}, x.hash, height, tg)
        /\ AllHeld(queue, j, items, NoBlock, height, tg)
             => AllHeld(queue, k, items \ {x}, x.hash, height, tg)
        /\ \A b \in Blocks, d \in Int : InChain(b, d, queue, j, items, NoBlock, height)
                                     => InChain(b, d, queue, k, items \ {x}, x.hash, height)
    BY <2>7 DEF Driven
  <2>9. running'.hash = x.hash /\ running'.driver = t
    BY <2>1
  <2>10. running' \in [hash : Blocks, driver : Threads] /\ job'[running'.driver].pc = "drive"
    BY <2>1, <2>5, <2>6, <2>8, <2>9
  <2> QED
    BY <1>2, <2>1, <2>5, <2>8, <2>9, <2>10
<1>3. CASE ~ (Ready(items, height) # {} /\ ~ stopping)
  <2>1. buffer' = items /\ running' = Nothing /\ Assign(t)
    BY <1>3 DEF Process
  <2>2. running'.hash = NoBlock
    BY <2>1 DEF Nothing
  <2> QED
    BY <2>1, <2>2, AssignKeeps
<1> QED
  BY <1>2, <1>3

\* A thread goes on with the same block.
GoesOn(j, k) ==
  /\ k \in JobTable
  /\ \A u \in Threads : /\ Carried(k, u) <=> Carried(j, u)
                        /\ k[u].hash = j[u].hash /\ k[u].height = j[u].height
                        /\ j[u].pc = "drive" => k[u].pc = "drive"

LEMMA SameBlock ==
  ASSUME NEW j, NEW t, NEW w, NEW k, j \in JobTable, t \in Threads, Carried(j, t),
         w \in {"fetch", "sent", "failed"}, k = [j EXCEPT ![t].pc = w]
  PROVE  GoesOn(j, k)
<1>1. PICK x : x = j[t]
  OBVIOUS
<1>2. x \in [pc : Jobs, hash : Blocks \cup {NoBlock}, height : Nat] /\ x.pc \in {"fetch", "sent", "failed"}
  BY <1>1 DEF JobTable, Carried
<1>3. PICK y : y = [x EXCEPT !.pc = w]
  OBVIOUS
<1>4. /\ y \in [pc : Jobs, hash : Blocks \cup {NoBlock}, height : Nat]
      /\ y.pc = w /\ y.hash = x.hash /\ y.height = x.height
  BY <1>2, <1>3 DEF Jobs
<1>5. k = [j EXCEPT ![t] = y]
  BY <1>1, <1>3 DEF JobTable
<1>6. k[t] = y /\ \A u \in Threads : u # t => k[u] = j[u]
  BY <1>5 DEF JobTable
<1>7. k \in JobTable
  BY <1>4, <1>5 DEF JobTable
<1>8. ASSUME NEW u \in Threads
      PROVE  /\ Carried(k, u) <=> Carried(j, u)
             /\ k[u].hash = j[u].hash /\ k[u].height = j[u].height
             /\ j[u].pc = "drive" => k[u].pc = "drive"
  <2>1. CASE u = t
    BY <1>1, <1>2, <1>4, <1>6, <2>1 DEF Carried
  <2>2. CASE u # t
    BY <1>6, <2>2 DEF Carried
  <2> QED
    BY <2>1, <2>2
<1> QED
  BY <1>7, <1>8 DEF GoesOn

LEMMA SameBlockKeeps ==
  ASSUME SyncInv, NEW t \in Threads, Carried(job, t),
         NEW k, k = job', GoesOn(job, k),
         UNCHANGED <<tip, best, loop, queue, dead, buffer, next, target, running, stopping>>
  PROVE  SyncInv'
<1>1. k = job' /\ k \in JobTable
  BY DEF GoesOn
<1>2. \A u \in Threads : Carried(job, u) <=> job[u].hash # NoBlock
  BY DEF SyncInv, TypeInv
<1>3. \A u \in Threads : /\ Carried(k, u) <=> Carried(job, u)
                         /\ k[u].hash = job[u].hash /\ k[u].height = job[u].height
                         /\ job[u].pc = "drive" => k[u].pc = "drive"
  BY DEF GoesOn
<1>4. loop = "batch"
  BY DEF SyncInv, BatchInv, Empty
<1>5. TypeInv'
  <2>1. running # Nothing => running \in [hash : Blocks, driver : Threads] /\ job[running.driver].pc = "drive"
    BY DEF SyncInv, TypeInv
  <2>2. running # Nothing => k[running.driver].pc = "drive"
    BY <1>3, <2>1
  <2>3. \A u \in Threads : Carried(k, u) <=> k[u].hash # NoBlock
    BY <1>2, <1>3
  <2> QED
    BY <1>1, <1>3, <2>2, <2>3 DEF SyncInv, TypeInv
<1>6. /\ Places(queue, job, buffer, running.hash, next, target)
      /\ ~ stopping => AllHeld(queue, job, buffer, running.hash, next, target)
  BY <1>4 DEF SyncInv, BatchInv
<1>7. /\ Places(queue, k, buffer, running.hash, next, target)
      /\ ~ stopping => AllHeld(queue, k, buffer, running.hash, next, target)
      /\ \A b \in Blocks, d \in Int : InChain(b, d, queue, job, buffer, running.hash, next)
                                   => InChain(b, d, queue, k, buffer, running.hash, next)
  <2>1. SameBlocks(job, k)
    BY <1>1, <1>3 DEF SameBlocks
  <2> QED
    BY <1>6, <2>1, SamePlaces
<1>8. BatchInv'
  BY <1>1, <1>4, <1>7 DEF BatchInv
<1>9. ChainInv'
  <2>1. SUFFICES ASSUME running # Nothing \/ (loop = "batch" /\ ~ stopping)
                 PROVE  \E b \in Blocks : \E d \in Int :
                          InChain(b, d, queue', job', buffer', running'.hash, next') /\ OnTip(b, d)'
    BY DEF ChainInv
  <2>2. PICK b \in Blocks, d \in Int :
          InChain(b, d, queue, job, buffer, running.hash, next) /\ OnTip(b, d)
    BY <2>1 DEF SyncInv, ChainInv
  <2>3. InChain(b, d, queue', job', buffer', running'.hash, next')
    BY <1>1, <1>7, <2>2
  <2>4. OnTip(b, d)'
    BY <2>2 DEF OnTip
  <2> QED
    BY <2>3, <2>4
<1> QED
  BY <1>5, <1>8, <1>9 DEF SyncInv

LEMMA FetchedKeeps ==
  ASSUME SyncInv, NEW t \in Threads, BlockFetched(t)
  PROVE  SyncInv'
<1>1. /\ job[t].pc = "sent" /\ tip' = tip /\ best' = best /\ loop' = loop /\ dead' = dead
      /\ next' = next /\ target' = target /\ stopping' = stopping
  BY DEF BlockFetched
<1>2. job \in JobTable /\ Carried(job, t)
  BY <1>1 DEF SyncInv, TypeInv, Carried
<1>3. loop = "batch"
  BY <1>2 DEF SyncInv, BatchInv, Empty
<1>4. /\ Places(queue, job, buffer, running.hash, next, target)
      /\ ~ stopping => AllHeld(queue, job, buffer, running.hash, next, target)
  BY <1>3 DEF SyncInv, BatchInv
<1>5. PICK items : items = {item \in buffer : item.height # job[t].height}
                             \cup {Item(job[t].hash, job[t].height)}
  OBVIOUS
<1>6. PICK j : j = [job EXCEPT ![t] = Idle]
  OBVIOUS
<1>7. /\ Places(queue, j, items, running.hash, next, target)
      /\ AllHeld(queue, job, buffer, running.hash, next, target)
           => AllHeld(queue, j, items, running.hash, next, target)
      /\ \A b \in Blocks, d \in Int :
           InChain(b, d, queue, job, buffer, running.hash, next)
           => InChain(b, d, queue, j, items, running.hash, next)
  <2>1. Passed(queue, job, buffer, j, items, running.hash, next, target)
    BY <1>2, <1>4, <1>5, <1>6, IntoBuffer
  <2> QED
    BY <2>1 DEF Passed
\* What the rest of the handler is to show.
<1> DEFINE Kept ==
      /\ Places(queue', job', buffer', running'.hash, next, target)
      /\ AllHeld(queue, j, items, running.hash, next, target)
           => AllHeld(queue', job', buffer', running'.hash, next, target)
      /\ \A b \in Blocks, d \in Int :
           InChain(b, d, queue, j, items, running.hash, next)
           => InChain(b, d, queue', job', buffer', running'.hash, next)
      /\ \/ running' = Nothing
         \/ /\ running # Nothing \/ ~ stopping
            /\ running' \in [hash : Blocks, driver : Threads]
            /\ job'[running'.driver].pc = "drive"
<1>8. Kept
  <2>1. CASE running # Nothing
    <3>1. buffer' = items /\ running' = running /\ Assign(t)
      BY <1>5, <2>1 DEF BlockFetched, Buffered
    <3>2. /\ Places(queue', job', items, running.hash, next, target)
          /\ AllHeld(queue, j, items, running.hash, next, target)
               => AllHeld(queue', job', items, running.hash, next, target)
          /\ \A b \in Blocks, d \in Int :
               InChain(b, d, queue, j, items, running.hash, next)
               => InChain(b, d, queue', job', items, running.hash, next)
          /\ \A u \in Threads : u # t => job'[u] = job[u]
      BY <1>2, <1>6, <1>7, <3>1, AssignKeeps
    <3>3. running \in [hash : Blocks, driver : Threads] /\ job[running.driver].pc = "drive"
      BY <2>1 DEF SyncInv, TypeInv
    <3>4. running.driver \in Threads /\ running.driver # t
      BY <1>1, <3>3
    <3>5. job'[running.driver].pc = "drive"
      BY <3>2, <3>3, <3>4
    <3> QED
      BY <2>1, <3>1, <3>2, <3>3, <3>5
  <2>2. CASE running = Nothing
    <3>1. running.hash = NoBlock
      BY <2>2 DEF Nothing
    <3>2. Process(t, items, next)
      BY <1>5, <2>2 DEF BlockFetched
    <3>3. Places(queue, j, items, NoBlock, next, target)
      BY <1>7, <3>1
    <3>4. /\ Places(queue', job', buffer', running'.hash, next, target)
          /\ AllHeld(queue, j, items, NoBlock, next, target)
               => AllHeld(queue', job', buffer', running'.hash, next, target)
          /\ \A b \in Blocks, d \in Int :
               InChain(b, d, queue, j, items, NoBlock, next)
               => InChain(b, d, queue', job', buffer', running'.hash, next)
          /\ \/ running' = Nothing
             \/ /\ ~ stopping
                /\ running' \in [hash : Blocks, driver : Threads]
                /\ job'[running'.driver].pc = "drive"
      BY <1>2, <1>6, <3>2, <3>3, ProcessKeeps
    <3> QED
      BY <3>1, <3>4
  <2> QED
    BY <2>1, <2>2
<1>9. /\ Places(queue', job', buffer', running'.hash, next', target')
      /\ ~ stopping' => AllHeld(queue', job', buffer', running'.hash, next', target')
  BY <1>1, <1>4, <1>7, <1>8
<1>10. TypeInv'
  <2>1. /\ queue' \in Seq(Items) /\ job' \in JobTable /\ buffer' \subseteq Items
        /\ next' \in Nat /\ target' \in Nat
        /\ \A u \in Threads : Carried(job', u) <=> job'[u].hash # NoBlock
    BY <1>9 DEF Places
  <2>2. /\ running' = Nothing \/ running' \in [hash : Blocks, driver : Threads]
        /\ running' # Nothing => job'[running'.driver].pc = "drive"
    BY <1>8
  <2> QED
    BY <1>1, <1>3, <2>1, <2>2 DEF SyncInv, TypeInv
<1>11. BatchInv'
  BY <1>1, <1>3, <1>9 DEF BatchInv
<1>12. ChainInv'
  <2>1. SUFFICES ASSUME running' # Nothing \/ (loop' = "batch" /\ ~ stopping')
                 PROVE  \E b \in Blocks : \E d \in Int :
                          InChain(b, d, queue', job', buffer', running'.hash, next') /\ OnTip(b, d)'
    BY DEF ChainInv
  <2>2. running # Nothing \/ (loop = "batch" /\ ~ stopping)
    BY <1>1, <1>3, <1>8, <2>1
  <2>3. PICK b \in Blocks, d \in Int :
          InChain(b, d, queue, job, buffer, running.hash, next) /\ OnTip(b, d)
    BY <2>2 DEF SyncInv, ChainInv
  <2>4. InChain(b, d, queue', job', buffer', running'.hash, next')
    BY <1>1, <1>7, <1>8, <2>3
  <2>5. OnTip(b, d)'
    BY <1>1, <2>3 DEF OnTip
  <2> QED
    BY <2>4, <2>5
<1> QED
  BY <1>10, <1>11, <1>12 DEF SyncInv

\* The block that is being added is the next of the chain of its batch, or the
\* tip is not on that chain.
LEMMA NextOnTip ==
  ASSUME NEW b \in Blocks, NEW d \in Int, next \in Nat, running.hash # NoBlock,
         InChain(b, d, queue, job, buffer, running.hash, next), OnTip(b, d)
  PROVE  /\ running.hash \in Blocks \ {Genesis} /\ running.hash \in L!Chain(b)
         /\ Parent[running.hash] \in L!Chain(b)
         /\ tip \in Blocks
         /\ tip \in L!Chain(b) =>
              /\ d = 0 /\ next + 1 \in 1 .. Len(L!ChainOf[b])
              /\ running.hash = L!ChainOf[b][next + 1]
              /\ Parent[running.hash] = tip
              /\ L!Height(running.hash) = next /\ L!Height(tip) = next - 1
<1>1. PICK i : i = next + 1 - d
  OBVIOUS
<1>2. i \in 2 .. Len(L!ChainOf[b]) /\ running.hash = L!ChainOf[b][i]
  BY <1>1 DEF InChain, At
<1>3. Len(L!ChainOf[b]) \in Nat
  BY ChainShape
<1>4. i \in 1 .. Len(L!ChainOf[b]) /\ i - 1 \in 1 .. Len(L!ChainOf[b]) /\ i # 1 /\ i \in Nat
  BY <1>2, <1>3
<1>5. /\ running.hash # Genesis /\ Parent[running.hash] = L!ChainOf[b][i - 1]
      /\ running.hash \in Blocks
  BY <1>2, <1>4, ChainParent, ChainPrefix
<1>6. /\ running.hash \in L!Chain(b) /\ L!ChainOf[b][i - 1] \in L!Chain(b)
      /\ L!Chain(b) \subseteq Blocks
  BY <1>2, <1>4, ChainMembers
<1>7. tip \in Blocks
  BY ChainMembers DEF OnTip
<1>8. ASSUME tip \in L!Chain(b)
      PROVE  /\ d = 0 /\ next + 1 \in 1 .. Len(L!ChainOf[b])
             /\ running.hash = L!ChainOf[b][next + 1]
             /\ Parent[running.hash] = tip
             /\ L!Height(running.hash) = next /\ L!Height(tip) = next - 1
  <2>1. d = 0 /\ next \in 1 .. Len(L!ChainOf[b]) /\ tip = L!ChainOf[b][next]
    BY <1>8 DEF OnTip
  <2>2. i = next + 1 /\ i - 1 = next
    BY <1>1, <2>1
  <2>3. L!Height(running.hash) = i - 1 /\ L!Height(tip) = next - 1
    BY <1>2, <1>4, <2>1, ChainMembers
  <2> QED
    BY <1>2, <1>4, <1>5, <2>1, <2>2, <2>3
<1> QED
  BY <1>5, <1>6, <1>7, <1>8

\* Above the target there is nothing.
LEMMA PlacesEnd ==
  ASSUME NEW q, NEW j, NEW buf, NEW r, NEW nx, NEW tg,
         Places(q, j, buf, r, nx, tg), nx > tg
  PROVE  q = <<>> /\ buf = {} /\ r = NoBlock /\ \A t \in Threads : ~ Carried(j, t)
<1>1. q \in Seq(Items) /\ Len(q) \in Nat /\ nx \in Nat /\ tg \in Nat /\ nx - 1 <= Top(q, tg)
  BY DEF Places
<1>2. Len(q) = 0 /\ Top(q, tg) < nx /\ Top(q, tg) \in Int
  BY <1>1 DEF Top
<1>3. q = <<>>
  BY <1>1, <1>2
<1>4. \A h : h \in nx .. Top(q, tg) => FALSE
  BY <1>1, <1>2
<1>5. buf = {}
  BY <1>4 DEF Places
<1>6. \A t \in Threads : ~ Carried(j, t)
  BY <1>4 DEF Places
<1>7. r = NoBlock
  BY <1>1, <1>2 DEF Places
<1> QED
  BY <1>3, <1>5, <1>6, <1>7

\* A tip of height 0 is the genesis block.
LEMMA LowestTip ==
  ASSUME NEW b \in Blocks, NEW x \in Blocks, L!Height(x) = 0
  PROVE  x \in L!Chain(b)
<1>1. Len(L!ChainOf[x]) = 1
  BY ChainMembers DEF L!Height
<1>2. x = Genesis
  BY <1>1, ChainShape
<1> QED
  BY <1>2, ChainMembers

LEMMA AddedOnTip ==
  ASSUME SyncInv, running # Nothing, ExtendsTip(running.hash)
  PROVE  \E b \in Blocks :
           /\ InChain(b, 0, queue, job, buffer, running.hash, next)
           /\ next + 1 \in 1 .. Len(L!ChainOf[b]) /\ running.hash = L!ChainOf[b][next + 1]
           /\ running.hash \in Blocks /\ tip \in Blocks
           /\ L!Height(running.hash) = next /\ L!Height(tip) = next - 1
           /\ running.hash # Genesis /\ Parent[running.hash] = tip
<1>1. PICK b \in Blocks, d \in Int :
        InChain(b, d, queue, job, buffer, running.hash, next) /\ OnTip(b, d)
  BY DEF SyncInv, ChainInv
<1>2. running \in [hash : Blocks, driver : Threads] /\ next \in Nat
  BY DEF SyncInv, TypeInv
<1>3. running.hash # NoBlock
  BY <1>2, SyncAssumption
<1>4. /\ running.hash \in Blocks \ {Genesis} /\ running.hash \in L!Chain(b)
      /\ Parent[running.hash] \in L!Chain(b)
      /\ tip \in Blocks
      /\ tip \in L!Chain(b) =>
           /\ d = 0 /\ next + 1 \in 1 .. Len(L!ChainOf[b])
           /\ running.hash = L!ChainOf[b][next + 1]
           /\ Parent[running.hash] = tip
           /\ L!Height(running.hash) = next /\ L!Height(tip) = next - 1
  BY <1>1, <1>2, <1>3, NextOnTip
<1>5. tip \in L!Chain(b)
  BY <1>4, LowestTip, SyncAssumption DEF ExtendsTip, TipHeight
<1> QED
  BY <1>1, <1>4, <1>5

LEMMA ProcessedKeeps ==
  ASSUME SyncInv, BlockProcessed
  PROVE  SyncInv'
<1>1. /\ running # Nothing /\ ExtendsTip(running.hash)
      /\ tip' = running.hash /\ next' = next + 1
      /\ loop' = IF BatchDone(next) THEN "headers" ELSE loop
      /\ Process(running.driver, buffer, next + 1)
      /\ best' = best /\ dead' = dead /\ target' = target /\ stopping' = stopping
  BY DEF BlockProcessed
<1>2. /\ running \in [hash : Blocks, driver : Threads] /\ loop = "batch"
      /\ job[running.driver].pc = "drive" /\ job \in JobTable
      /\ next \in Nat /\ target \in Nat
  BY <1>1 DEF SyncInv, TypeInv
<1>3. PICK t \in Threads : t = running.driver
  BY <1>2
<1>4. running.hash # NoBlock /\ running.hash \in Blocks
  BY <1>2, SyncAssumption
<1>5. /\ Places(queue, job, buffer, running.hash, next, target)
      /\ ~ stopping => AllHeld(queue, job, buffer, running.hash, next, target)
  BY <1>2 DEF SyncInv, BatchInv
<1>6. /\ next <= target
      /\ Places(queue, job, buffer, NoBlock, next + 1, target)
      /\ AllHeld(queue, job, buffer, running.hash, next, target)
           => AllHeld(queue, job, buffer, NoBlock, next + 1, target)
      /\ \A b \in Blocks, d \in Int :
           InChain(b, d, queue, job, buffer, running.hash, next)
           => InChain(b, d, queue, job, buffer, NoBlock, next + 1)
  BY <1>4, <1>5, BlockAdded
<1>7. PICK j : j = [job EXCEPT ![t] = Idle]
  OBVIOUS
<1>8. SameBlocks(job, j)
  <2>1. ~ Carried(job, t) /\ job[t].hash = NoBlock
    BY <1>2, <1>3 DEF SyncInv, TypeInv, Carried
  <2>2. /\ j \in JobTable /\ j[t].hash = NoBlock /\ ~ Carried(j, t)
        /\ \A u \in Threads : u # t => j[u] = job[u]
    BY <1>2, <1>7 DEF JobTable, Jobs, Idle, Carried
  <2> QED
    BY <2>1, <2>2 DEF SameBlocks, Carried
<1>9. /\ Places(queue, j, buffer, NoBlock, next + 1, target)
      /\ AllHeld(queue, job, buffer, NoBlock, next + 1, target)
           => AllHeld(queue, j, buffer, NoBlock, next + 1, target)
      /\ \A b \in Blocks, d \in Int :
           InChain(b, d, queue, job, buffer, NoBlock, next + 1)
           => InChain(b, d, queue, j, buffer, NoBlock, next + 1)
  BY <1>6, <1>8, SamePlaces
<1>10. Process(t, buffer, next + 1)
  BY <1>1, <1>3
<1>11. /\ Places(queue', job', buffer', running'.hash, next + 1, target)
       /\ AllHeld(queue, j, buffer, NoBlock, next + 1, target)
            => AllHeld(queue', job', buffer', running'.hash, next + 1, target)
       /\ \A b \in Blocks, d \in Int :
            InChain(b, d, queue, j, buffer, NoBlock, next + 1)
            => InChain(b, d, queue', job', buffer', running'.hash, next + 1)
       /\ \/ running' = Nothing
          \/ /\ ~ stopping
             /\ running' \in [hash : Blocks, driver : Threads]
             /\ job'[running'.driver].pc = "drive"
  BY <1>2, <1>7, <1>9, <1>10, ProcessKeeps
<1>12. PICK b \in Blocks :
         /\ InChain(b, 0, queue, job, buffer, running.hash, next)
         /\ next + 1 \in 1 .. Len(L!ChainOf[b]) /\ running.hash = L!ChainOf[b][next + 1]
  BY <1>1, AddedOnTip
<1>13. /\ InChain(b, 0, queue', job', buffer', running'.hash, next')
       /\ OnTip(b, 0)'
  <2>1. InChain(b, 0, queue', job', buffer', running'.hash, next')
    BY <1>1, <1>6, <1>9, <1>11, <1>12
  <2>2. tip' = L!ChainOf[b][next'] /\ next' \in 1 .. Len(L!ChainOf[b])
    BY <1>1, <1>12
  <2> QED
    BY <2>1, <2>2 DEF OnTip
<1>14. CASE ~ BatchDone(next)
  <2>1. loop' = "batch"
    BY <1>1, <1>2, <1>14
  <2>2. TypeInv'
    <3>1. /\ queue' \in Seq(Items) /\ job' \in JobTable /\ buffer' \subseteq Items
          /\ next' \in Nat /\ target' \in Nat
          /\ \A u \in Threads : Carried(job', u) <=> job'[u].hash # NoBlock
      BY <1>1, <1>2, <1>11 DEF Places
    <3>2. /\ running' = Nothing \/ running' \in [hash : Blocks, driver : Threads]
          /\ running' # Nothing => job'[running'.driver].pc = "drive"
      BY <1>11
    <3>3. tip' \in Blocks /\ tip' # NoBlock
      BY <1>1, <1>4
    <3> QED
      BY <1>1, <2>1, <3>1, <3>2, <3>3 DEF SyncInv, TypeInv
  <2>3. BatchInv'
    BY <1>1, <1>5, <1>6, <1>9, <1>11, <2>1 DEF BatchInv
  <2>4. ChainInv'
    BY <1>13 DEF ChainInv
  <2> QED
    BY <2>2, <2>3, <2>4 DEF SyncInv
<1>15. CASE BatchDone(next)
  <2>1. loop' = "headers" /\ next + 1 > target
    BY <1>1, <1>2, <1>15 DEF BatchDone
  <2>2. /\ queue' = <<>> /\ buffer' = {} /\ running'.hash = NoBlock
        /\ \A u \in Threads : ~ Carried(job', u)
    BY <1>11, <2>1, PlacesEnd
  <2>3. running' = Nothing
    BY <1>11, <2>2, SyncAssumption
  <2>4. TypeInv'
    <3>1. /\ queue' \in Seq(Items) /\ job' \in JobTable /\ buffer' \subseteq Items
          /\ next' \in Nat /\ target' \in Nat
          /\ \A u \in Threads : Carried(job', u) <=> job'[u].hash # NoBlock
      BY <1>1, <1>2, <1>11 DEF Places
    <3>2. tip' \in Blocks /\ tip' # NoBlock
      BY <1>1, <1>4
    <3> QED
      BY <1>1, <2>1, <2>3, <3>1, <3>2 DEF SyncInv, TypeInv
  <2>5. BatchInv'
    BY <2>1, <2>2, <2>3 DEF BatchInv, Empty
  <2>6. ChainInv'
    BY <2>1, <2>3 DEF ChainInv
  <2> QED
    BY <2>4, <2>5, <2>6 DEF SyncInv
<1> QED
  BY <1>14, <1>15

\* What a rejected addBlock leaves of the tip.
LEMMA TipRejected ==
  ASSUME tip \in Blocks, NEW b \in Blocks, AddRejected(b)
  PROVE  tip' \in Blocks \cup {NoBlock}
<1>1. \A c \in Blocks : Below(c) \in Blocks \cup {NoBlock}
  BY SyncAssumption DEF Below
<1>2. b # Genesis => Parent[b] \in Blocks
  BY SyncAssumption
<1> QED
  BY <1>1, <1>2 DEF AddRejected

\* The process goes down with the block it was adding.
LEMMA RejectedKeeps ==
  ASSUME SyncInv, tip' \in Blocks \cup {NoBlock}, GoDown,
         UNCHANGED <<best, loop, queue, job, dead, buffer, next, target>>
  PROVE  SyncInv'
<1>1. running' = Nothing /\ stopping' = TRUE
  BY DEF GoDown
<1>2. TypeInv'
  BY <1>1 DEF SyncInv, TypeInv, Carried
<1>3. BatchInv'
  <2>1. running'.hash = NoBlock
    BY <1>1 DEF Nothing
  <2>2. ASSUME loop' = "batch"
        PROVE  Places(queue', job', buffer', running'.hash, next', target')
    <3>1. Places(queue, job, buffer, running.hash, next, target)
      BY <2>2 DEF SyncInv, BatchInv
    <3>2. Places(queue, job, buffer, NoBlock, next, target)
      BY <3>1 DEF Places
    <3> QED
      BY <2>1, <3>2
  <2>3. loop' # "batch" => Empty'
    BY <1>1 DEF SyncInv, BatchInv, Empty, Carried
  <2> QED
    BY <1>1, <2>2, <2>3 DEF BatchInv
<1>4. ChainInv'
  BY <1>1 DEF ChainInv
<1> QED
  BY <1>2, <1>3, <1>4 DEF SyncInv

LEMMA BlockRejectedKeeps ==
  ASSUME SyncInv, BlockRejected
  PROVE  SyncInv'
<1>1. running # Nothing /\ AddRejected(running.hash) /\ GoDown
      /\ UNCHANGED <<best, loop, queue, job, dead, buffer, next, target>>
  BY DEF BlockRejected
<1>2. running \in [hash : Blocks, driver : Threads] /\ next \in Nat
  BY <1>1 DEF SyncInv, TypeInv
<1>3. running.hash # NoBlock
  BY <1>2, SyncAssumption
<1>4. PICK b \in Blocks, d \in Int :
        InChain(b, d, queue, job, buffer, running.hash, next) /\ OnTip(b, d)
  BY <1>1 DEF SyncInv, ChainInv
<1>5. tip \in Blocks
  BY <1>2, <1>3, <1>4, NextOnTip
<1>6. tip' \in Blocks \cup {NoBlock}
  BY <1>1, <1>2, <1>5, TipRejected
<1> QED
  BY <1>1, <1>6, RejectedKeeps

\* The steps that leave the batch and the tip alone.
LEMMA AsideKeeps ==
  ASSUME SyncInv, dead' \subseteq Threads, best' \in Blocks,
         stopping' \in BOOLEAN, stopping => stopping',
         UNCHANGED <<tip, loop, queue, job, buffer, next, target, running>>
  PROVE  SyncInv'
<1>1. TypeInv'
  BY DEF SyncInv, TypeInv, Carried
<1>2. BatchInv'
  BY DEF SyncInv, BatchInv, Empty, Carried
<1>3. ChainInv'
  <2>1. SUFFICES ASSUME running' # Nothing \/ (loop' = "batch" /\ ~ stopping')
                 PROVE  \E b \in Blocks : \E d \in Int :
                          InChain(b, d, queue', job', buffer', running'.hash, next') /\ OnTip(b, d)'
    BY DEF ChainInv
  <2>2. PICK b \in Blocks, d \in Int :
          InChain(b, d, queue, job, buffer, running.hash, next) /\ OnTip(b, d)
    BY <2>1 DEF SyncInv, ChainInv
  <2>3. OnTip(b, d)'
    BY <2>2 DEF OnTip
  <2> QED
    BY <2>2, <2>3
<1> QED
  BY <1>1, <1>2, <1>3 DEF SyncInv

LEMMA OffKeeps ==
  ASSUME SyncInv, loop # "batch", loop' \in {"headers", "stopped", "done"},
         tip \in Blocks \/ loop # "off",
         UNCHANGED <<tip, best, queue, job, dead, buffer, next, target, running, stopping>>
  PROVE  SyncInv'
<1>1. Empty
  BY DEF SyncInv, BatchInv
<1>2. tip' \in Blocks \cup {NoBlock} /\ (tip' = NoBlock => stopping')
  BY SyncAssumption DEF SyncInv, TypeInv
<1>3. TypeInv'
  BY <1>1, <1>2 DEF SyncInv, TypeInv, Carried, Empty
<1>4. BatchInv'
  BY <1>1 DEF BatchInv, Empty, Carried
<1>5. ChainInv'
  BY <1>1 DEF ChainInv, Empty
<1> QED
  BY <1>3, <1>4, <1>5 DEF SyncInv

\* Once the tip is raised, the block that sync() adds is below it: it is stored
\* again at height 0 only.
LEMMA GenesisStays ==
  ASSUME SyncInv, EntryInv, entry.pc = "add", ExtendsTip(entry.hash)
  PROVE  /\ tip = NoBlock \/ tip = Genesis
         /\ entry.hash = Genesis
<1>1. tip \in Blocks \cup {NoBlock}
  BY DEF SyncInv, TypeInv
<1>2. CASE tip = NoBlock
  BY <1>2, SyncAssumption DEF EntryInv
<1>3. ASSUME tip \in Blocks, L!Height(tip) = 0
      PROVE  tip = Genesis /\ entry.hash = Genesis
  <2>1. Len(L!ChainOf[tip]) = 1
    BY <1>3 DEF L!Height
  <2>2. tip = Genesis
    BY <1>3, <2>1, ChainShape
  <2>3. ASSUME entry.hash \in L!Chain(tip) PROVE entry.hash = Genesis
    <3>1. L!Height(entry.hash) + 1 \in 1 .. 1 /\ entry.hash = L!ChainOf[tip][L!Height(entry.hash) + 1]
      BY <1>3, <2>1, <2>3, ChainAt
    <3> QED
      BY <1>3, <3>1, ChainShape
  <2> QED
    BY <1>3, <2>2, <2>3 DEF EntryInv
<1>4. ASSUME tip \in Blocks, entry.hash # Genesis, Parent[entry.hash] = tip
      PROVE  FALSE
  <2>1. entry.hash \in L!Chain(tip)
    BY <1>4 DEF EntryInv
  <2>2. entry.hash \in Blocks /\ L!Height(entry.hash) + 1 \in 1 .. Len(L!ChainOf[tip])
    BY <1>4, <2>1, ChainAt
  <2>3. L!ChainOf[entry.hash] = Append(L!ChainOf[tip], entry.hash)
    BY <1>4, <2>2, ChainStep
  <2>4. L!Height(entry.hash) = Len(L!ChainOf[tip]) /\ Len(L!ChainOf[tip]) \in Nat
    BY <1>4, <2>3, ChainShape DEF L!Height
  <2> QED
    BY <2>2, <2>4
<1>5. tip \in Blocks => L!Height(tip) = 0 \/ (entry.hash # Genesis /\ Parent[entry.hash] = tip)
  BY SyncAssumption DEF ExtendsTip, TipHeight
<1> QED
  BY <1>1, <1>2, <1>3, <1>4, <1>5 DEF EntryInv

LEMMA StoredKeeps ==
  ASSUME SyncInv, EntryInv, StoreGenesis
  PROVE  SyncInv'
<1>1. /\ tip' = entry.hash /\ entry.hash = Genesis /\ (tip = NoBlock \/ tip = Genesis)
      /\ UNCHANGED <<best, memory>>
  BY GenesisStays DEF StoreGenesis
<1>2. CASE tip = Genesis
  BY <1>1, <1>2, AsideKeeps DEF SyncInv, TypeInv, memory
<1>3. CASE tip = NoBlock
  <2>1. /\ UNCHANGED <<loop, queue, job, dead, buffer, next, target, running, stopping>>
        /\ best' = best
    BY <1>1 DEF memory
  <2>2. loop = "off" \/ stopping
    BY <1>3 DEF SyncInv, TypeInv
  <2>3. running = Nothing
    <3>1. SUFFICES ASSUME running # Nothing PROVE FALSE
      OBVIOUS
    <3>2. PICK b \in Blocks, d \in Int :
            InChain(b, d, queue, job, buffer, running.hash, next) /\ OnTip(b, d)
      BY <3>1 DEF SyncInv, ChainInv
    <3>3. running \in [hash : Blocks, driver : Threads] /\ next \in Nat
      BY <3>1 DEF SyncInv, TypeInv
    <3>4. tip \in Blocks
      BY <3>2, <3>3, NextOnTip, SyncAssumption
    <3> QED
      BY <1>3, <3>4, SyncAssumption
  <2>4. TypeInv'
    BY <1>1, <2>1, SyncAssumption DEF SyncInv, TypeInv, Carried
  <2>5. BatchInv'
    BY <2>1 DEF SyncInv, BatchInv, Empty, Carried
  <2>6. ChainInv'
    BY <2>1, <2>2, <2>3 DEF ChainInv
  <2> QED
    BY <2>4, <2>5, <2>6 DEF SyncInv
<1> QED
  BY <1>1, <1>2, <1>3

LEMMA EntryKeeps ==
  ASSUME SyncInv, EntryInv, EntryStep
  PROVE  SyncInv'
<1>1. /\ dead \subseteq Threads /\ best \in Blocks /\ stopping \in BOOLEAN
      /\ tip \in Blocks \cup {NoBlock}
  BY DEF SyncInv, TypeInv
<1>2. CASE ReadTip \/ AskHeaders
  BY <1>1, <1>2, AsideKeeps DEF ReadTip, AskHeaders, memory
<1>3. CASE StoreGenesis
  BY <1>3, StoredKeeps
<1>4. CASE GenesisRejected
  <2>1. /\ entry.pc = "add" /\ AddRejected(entry.hash) /\ GoDown
        /\ UNCHANGED <<best, loop, queue, job, dead, buffer, next, target>>
    BY <1>4 DEF GenesisRejected
  <2>2. CASE tip = NoBlock
    <3>1. tip' = tip
      BY <2>1, <2>2 DEF AddRejected, ExtendsTip, TipHeight
    <3> QED
      BY <1>1, <2>1, <3>1, RejectedKeeps
  <2>3. CASE tip \in Blocks
    <3>1. entry.hash \in Blocks
      BY <2>1, <2>3, ChainMembers, SyncAssumption DEF EntryInv
    <3>2. tip' \in Blocks \cup {NoBlock}
      BY <2>1, <2>3, <3>1, TipRejected
    <3> QED
      BY <2>1, <3>2, RejectedKeeps
  <2> QED
    BY <1>1, <2>2, <2>3
<1>5. CASE Start
  <2>1. /\ UNCHANGED <<tip, best, queue, job, dead, buffer, next, target, running, stopping>>
        /\ loop' = IF loop = "off" THEN "headers" ELSE loop
        /\ tip \in Blocks
    BY <1>5 DEF Start, EntryInv
  <2>2. CASE loop = "off"
    BY <2>1, <2>2, OffKeeps
  <2>3. CASE loop # "off"
    BY <1>1, <2>1, <2>3, AsideKeeps
  <2> QED
    BY <2>2, <2>3
<1> QED
  BY <1>2, <1>3, <1>4, <1>5 DEF EntryStep

\* A process that has just been started has no block.
LEMMA FreshProcess ==
  ASSUME tip \in Blocks \cup {NoBlock}, best \in Blocks,
         loop = "off", queue = <<>>, buffer = {}, next = 0, target = 0,
         job = [t \in Threads |-> Idle], dead = {}, running = Nothing, stopping = FALSE
  PROVE  SyncInv
<1>1. Idle \in [pc : Jobs, hash : Blocks \cup {NoBlock}, height : Nat]
  BY DEF Idle, Jobs
<1>2. job \in JobTable /\ \A t \in Threads : ~ Carried(job, t) /\ job[t].hash = NoBlock
  BY <1>1 DEF JobTable, Carried, Idle
<1>3. TypeInv
  <2>1. \A t \in Threads : Carried(job, t) <=> job[t].hash # NoBlock
    BY <1>2
  <2>2. queue \in Seq(Items) /\ buffer \subseteq Items /\ next \in Nat /\ target \in Nat
    OBVIOUS
  <2> QED
    BY <1>2, <2>1, <2>2 DEF TypeInv
<1>4. BatchInv
  BY <1>2 DEF BatchInv, Empty
<1>5. ChainInv
  BY DEF ChainInv
<1> QED
  BY <1>3, <1>4, <1>5 DEF SyncInv

LEMMA SyncInit ==
  Init => SyncInv
BY FreshProcess, SyncAssumption DEF Init

LEMMA SyncStep ==
  ASSUME SyncInv, EntryInv, [Next]_vars
  PROVE  SyncInv'
<1>1. /\ dead \subseteq Threads /\ best \in Blocks /\ stopping \in BOOLEAN
      /\ tip \in Blocks \cup {NoBlock} /\ job \in JobTable
  BY DEF SyncInv, TypeInv
<1>2. CASE LoopStep
  <2>1. CASE NextBatch
    BY <2>1, BatchStarts
  <2>2. CASE Finish
    BY <2>2, OffKeeps DEF Finish
  <2> QED
    BY <1>2, <2>1, <2>2 DEF LoopStep
<1>3. CASE BlockStep
  BY <1>3, ProcessedKeeps, BlockRejectedKeeps DEF BlockStep
<1>4. CASE Stop
  BY <1>1, <1>4, AsideKeeps DEF Stop
<1>5. CASE Restart
  <2>1. /\ loop' = "off" /\ queue' = <<>> /\ buffer' = {} /\ next' = 0 /\ target' = 0
        /\ job' = [t \in Threads |-> Idle] /\ dead' = {} /\ running' = Nothing
        /\ stopping' = FALSE /\ tip' = tip /\ best' = best
    BY <1>5 DEF Restart
  <2>2. Idle \in [pc : Jobs, hash : Blocks \cup {NoBlock}, height : Nat]
    BY DEF Idle, Jobs
  <2>3. job' \in JobTable /\ \A t \in Threads : ~ Carried(job', t) /\ job'[t].hash = NoBlock
    BY <2>1, <2>2 DEF JobTable, Carried, Idle
  <2>4. TypeInv'
    <3>1. \A t \in Threads : Carried(job', t) <=> job'[t].hash # NoBlock
      BY <2>3
    <3>2. queue' \in Seq(Items) /\ buffer' \subseteq Items /\ next' \in Nat /\ target' \in Nat
      BY <2>1
    <3> QED
      BY <1>1, <2>1, <2>3, <3>1, <3>2 DEF TypeInv
  <2>5. BatchInv'
    BY <2>1, <2>3 DEF BatchInv, Empty
  <2>6. ChainInv'
    BY <2>1 DEF ChainInv
  <2> QED
    BY <2>4, <2>5, <2>6 DEF SyncInv
<1>6. ASSUME NEW t \in Threads, Fetch(t) \/ Retry(t)
      PROVE  SyncInv'
  <2>1. PICK w \in {"fetch", "sent", "failed"} : job' = [job EXCEPT ![t].pc = w]
    BY <1>1, <1>6 DEF Fetch, Retry, Retried, JobTable
  <2>2. Carried(job, t)
    BY <1>6 DEF Fetch, Retry, Carried
  <2>3. PICK k : k = job'
    OBVIOUS
  <2>4. GoesOn(job, k)
    BY <1>1, <2>1, <2>2, <2>3, SameBlock
  <2>5. UNCHANGED <<tip, best, loop, queue, dead, buffer, next, target, running, stopping>>
    BY <1>6 DEF Fetch, Retry
  <2> QED
    BY <2>2, <2>3, <2>4, <2>5, SameBlockKeeps
<1>7. ASSUME NEW t \in Threads, BlockFetched(t)
      PROVE  SyncInv'
  BY <1>7, FetchedKeeps
<1>8. ASSUME NEW t \in Threads, Die(t)
      PROVE  SyncInv'
  BY <1>1, <1>8, AsideKeeps DEF Die
<1>9. ASSUME NEW b \in Blocks, Switch(b)
      PROVE  SyncInv'
  BY <1>1, <1>9, AsideKeeps DEF Switch, memory
<1>10. CASE UNCHANGED vars
  BY <1>1, <1>10, AsideKeeps DEF vars, memory
<1>11. CASE PeerBlock
  BY <1>1, <1>11, AsideKeeps DEF PeerBlock, memory
<1>12. CASE EntryStep
  BY <1>12, EntryKeeps
<1> QED
  BY <1>2, <1>3, <1>4, <1>5, <1>6, <1>7, <1>8, <1>9, <1>10, <1>11, <1>12
     DEF Next, Deliver

\* The first header a peer sends is one above a block of the chain of the tip.
LEMMA FirstHeader ==
  ASSUME tip \in Blocks \cup {NoBlock}, best \in Blocks \ {Genesis}
  PROVE  /\ tip = NoBlock => Headers # <<>>
         /\ Headers # <<>> => /\ Parent[Head(Headers)] \in Blocks
                              /\ \/ Parent[Head(Headers)] = Genesis
                                 \/ Parent[Head(Headers)] \in L!Chain(tip)
<1>1. PICK last \in 1 .. Len(L!ChainOf[best]) :
        /\ last = 1 \/ L!ChainOf[best][last] \in L!Chain(tip)
        /\ Headers \in Seq(Blocks) /\ Len(Headers) = Len(L!ChainOf[best]) - last
        /\ \A i \in 1 .. Len(Headers) : Headers[i] = L!ChainOf[best][last + i]
  BY HeadersAreChain
<1>2. /\ Len(L!ChainOf[best]) \in Nat /\ last \in Nat
      /\ L!ChainOf[best][1] = Genesis /\ L!ChainOf[best][Len(L!ChainOf[best])] = best
  BY ChainShape
<1>3. ASSUME tip = NoBlock PROVE Headers # <<>>
  <2>1. last = 1
    BY <1>1, <1>3 DEF L!Chain
  <2>2. Len(L!ChainOf[best]) # 1
    BY <1>2
  <2>3. Len(Headers) # 0
    BY <1>1, <1>2, <2>1, <2>2
  <2> QED
    BY <2>3
<1>4. ASSUME Headers # <<>>
      PROVE  /\ Parent[Head(Headers)] \in Blocks
             /\ \/ Parent[Head(Headers)] = Genesis
                \/ Parent[Head(Headers)] \in L!Chain(tip)
  <2>1. Len(Headers) >= 1 /\ Head(Headers) = Headers[1] /\ Len(Headers) \in Nat
    BY <1>1, <1>4
  <2>2. Head(Headers) = L!ChainOf[best][last + 1]
    BY <1>1, <2>1
  <2>3. last + 1 \in 1 .. Len(L!ChainOf[best]) /\ last + 1 # 1 /\ (last + 1) - 1 = last
    BY <1>1, <1>2, <2>1
  <2>4. Parent[Head(Headers)] = L!ChainOf[best][last]
    BY <2>2, <2>3, ChainParent
  <2>5. L!ChainOf[best][last] \in Blocks
    BY <1>1, ChainPrefix
  <2> QED
    BY <1>1, <1>2, <2>4, <2>5
<1> QED
  BY <1>3, <1>4

LEMMA EntryHolds ==
  ASSUME SyncInv, EntryInv, [Next]_vars
  PROVE  EntryInv'
<1>1. tip \in Blocks \cup {NoBlock} /\ best \in Blocks
  BY DEF SyncInv, TypeInv
<1>2. CASE PeerBlock
  BY <1>2 DEF PeerBlock, EntryInv, EntryAt, Entries
<1>3. CASE ReadTip
  <2>1. TipHeight # 0 => tip \in Blocks
    BY <1>1 DEF TipHeight
  <2> QED
    BY <1>3, <2>1 DEF ReadTip, EntryInv, EntryAt, Entries
<1>4. CASE AskHeaders
  BY <1>1, <1>4, FirstHeader, ChainMembers DEF AskHeaders, EntryInv, EntryAt, Entries, L!Chain
<1>5. CASE StoreGenesis
  <2>1. tip' = Genesis /\ entry' = EntryAt("start") /\ UNCHANGED <<best, announced>>
    BY <1>5, GenesisStays DEF StoreGenesis
  <2> QED
    BY <2>1, SyncAssumption DEF EntryInv, EntryAt, Entries
<1>6. CASE GenesisRejected \/ BlockRejected
  BY <1>6 DEF GenesisRejected, BlockRejected, GoDown, EntryInv, NoEntry, EntryAt, Entries
<1>7. CASE Start
  BY <1>7 DEF Start, EntryInv, NoEntry, EntryAt, Entries
<1>8. CASE BlockProcessed
  <2>1. /\ running # Nothing /\ ExtendsTip(running.hash) /\ tip' = running.hash
        /\ UNCHANGED <<best, announced, entry>>
    BY <1>8 DEF BlockProcessed
  <2>2. running.hash \in Blocks \ {Genesis} /\ tip \in Blocks /\ Parent[running.hash] = tip
    BY <2>1, AddedOnTip
  <2>3. L!Chain(tip) \subseteq L!Chain(running.hash)
    <3>1. L!ChainOf[running.hash] = Append(L!ChainOf[tip], running.hash)
      BY <2>2, ChainStep
    <3>2. L!ChainOf[running.hash] \in Seq(Blocks) /\ L!ChainOf[tip] \in Seq(Blocks)
      BY <2>2, ChainShape
    <3>3. /\ Len(L!ChainOf[running.hash]) = Len(L!ChainOf[tip]) + 1
          /\ \A i \in 1 .. Len(L!ChainOf[tip]) : L!ChainOf[running.hash][i] = L!ChainOf[tip][i]
      BY <3>1, <3>2
    <3> QED
      BY <2>2, <3>2, <3>3, SyncAssumption DEF L!Chain
  <2> QED
    BY <2>1, <2>2, <2>3 DEF EntryInv
<1>9. CASE Restart
  BY <1>9, SyncAssumption DEF Restart, EntryInv, EntryAt, Entries
<1>10. ASSUME NEW b \in Blocks, Switch(b)
       PROVE  EntryInv'
  <2>1. /\ best' = b /\ announced' = TRUE /\ UNCHANGED <<tip, entry>>
        /\ L!Height(b) > L!Height(best)
    BY <1>10 DEF Switch
  <2>2. b # Genesis
    <3>1. L!Height(best) \in Nat
      BY <1>1, ChainMembers
    <3>2. L!Height(Genesis) = 0
      <4>1. L!ChainOf[Genesis] = <<Genesis>>
        BY ChainStep, SyncAssumption
      <4>2. Len(<<Genesis>>) = 1
        OBVIOUS
      <4> QED
        BY <4>1, <4>2 DEF L!Height
    <3> QED
      BY <2>1, <3>1, <3>2
  <2> QED
    BY <2>1, <2>2 DEF EntryInv
<1>11. ASSUME UNCHANGED <<tip, best, announced, entry>>
       PROVE  EntryInv'
  BY <1>11 DEF EntryInv
<1> QED
  BY <1>2, <1>3, <1>4, <1>5, <1>6, <1>7, <1>8, <1>9, <1>10, <1>11
     DEF Next, EntryStep, LoopStep, BlockStep, Deliver, NextBatch, Finish, Stop, Fetch,
         BlockFetched, Retry, Die, vars

\* What is true of the queue, the threads, the buffer and the block that is
\* being added at every moment of every sync: no two of them hold the same
\* height, every height that has left the queue is held, and the blocks are
\* those of one chain, the next one on the tip unless the peers have switched.
THEOREM SyncInvariant == Spec => [](SyncInv /\ EntryInv)
<1>1. Init => SyncInv /\ EntryInv
  <2>1. Init => EntryInv
    <3>1. Init => entry = EntryAt("read") /\ best = FirstBest /\ announced = FALSE
      BY DEF Init
    <3>2. EntryAt("read") \in [pc : Entries, hash : Blocks \cup {NoBlock}]
      BY DEF EntryAt, Entries
    <3>3. EntryAt("read").pc = "read"
      BY DEF EntryAt
    <3> QED
      BY <3>1, <3>2, <3>3, SyncAssumption DEF EntryInv
  <2> QED
    BY <2>1, SyncInit
<1>2. SyncInv /\ EntryInv /\ [Next]_vars => (SyncInv /\ EntryInv)'
  BY SyncStep, EntryHolds
<1> QED
  BY <1>1, <1>2, PTL DEF Spec
-----------------------------------------------------------------------------
(* No block of a batch is lost.                                            *)

LEMMA RunningHash ==
  ASSUME TypeInv
  PROVE  running # Nothing <=> running.hash # NoBlock
BY SyncAssumption DEF TypeInv, Nothing

LEMMA TypeOfSync ==
  ASSUME SyncInv, EntryInv
  PROVE  TypeOK
<1>1. ASSUME NEW item \in buffer
      PROVE  item.height \in next .. target
  <2>1. loop = "batch"
    BY <1>1 DEF SyncInv, BatchInv, Empty
  <2>2. Places(queue, job, buffer, running.hash, next, target)
    BY <2>1 DEF SyncInv, BatchInv
  <2>3. /\ item.height \in next .. Top(queue, target) /\ Len(queue) \in Nat
        /\ next \in Nat /\ target \in Nat
    BY <2>2 DEF Places
  <2> QED
    BY <2>3 DEF Top
<1> QED
  BY <1>1 DEF SyncInv, TypeInv, EntryInv, TypeOK, JobTable

\* The four kinds of places.
LEMMA KindsOfHolders ==
  ASSUME SyncInv, NEW h, NEW y
  PROVE  y \in Holders(h) <=>
           \/ \E i \in 1 .. Len(queue) : queue[i].height = h /\ y = <<"queue", i>>
           \/ \E t \in Threads : Carried(job, t) /\ job[t].height = h /\ y = <<"thread", t>>
           \/ \E item \in buffer : item.height = h /\ y = <<"buffer", item.hash>>
           \/ running.hash # NoBlock /\ h = next /\ y = <<"running", running.hash>>
<1>1. running # Nothing <=> running.hash # NoBlock
  BY RunningHash DEF SyncInv
<1> QED
  BY <1>1 DEF Holders, Carried

LEMMA OneHolder ==
  ASSUME SyncInv, loop = "batch", ~ stopping, NEW h \in next .. target
  PROVE  \E x \in Holders(h) : \A y \in Holders(h) : y = x
<1>1. /\ Places(queue, job, buffer, running.hash, next, target)
      /\ AllHeld(queue, job, buffer, running.hash, next, target)
  BY DEF SyncInv, BatchInv
<1>2. PICK top : top = Top(queue, target)
  OBVIOUS
<1>3. /\ next \in Nat /\ target \in Nat /\ Len(queue) \in Nat /\ top = target - Len(queue)
      /\ h \in Int
  BY <1>1, <1>2 DEF Places, Top
<1>4. /\ \A i \in 1 .. Len(queue) : queue[i].height = top + i
      /\ \A t \in Threads : Carried(job, t) => job[t].height \in next .. top
      /\ \A item \in buffer : item.height \in next .. top
      /\ running.hash # NoBlock => next <= top
  BY <1>1, <1>2 DEF Places
<1>5. running.hash # NoBlock =>
        /\ \A t \in Threads : Carried(job, t) => job[t].height # next
        /\ \A item \in buffer : item.height # next
  BY <1>1 DEF Places
<1>6. /\ \A t, u \in Threads :
           Carried(job, t) /\ Carried(job, u) /\ job[t].height = job[u].height => t = u
      /\ \A x, y \in buffer : x.height = y.height => x = y
      /\ \A t \in Threads : \A item \in buffer :
           Carried(job, t) => job[t].height # item.height
  BY <1>1 DEF Places
<1>7. CASE h > top
  <2>1. PICK i : i = h - top
    OBVIOUS
  <2>2. i \in 1 .. Len(queue) /\ queue[i].height = h
    BY <1>3, <1>4, <1>7, <2>1
  <2>3. <<"queue", i>> \in Holders(h)
    BY <2>2, KindsOfHolders
  <2>4. ASSUME NEW y \in Holders(h) PROVE y = <<"queue", i>>
    <3>1. ~ \E t \in Threads : Carried(job, t) /\ job[t].height = h
      BY <1>3, <1>4, <1>7
    <3>2. ~ \E item \in buffer : item.height = h
      BY <1>3, <1>4, <1>7
    <3>3. ~ (running.hash # NoBlock /\ h = next)
      BY <1>3, <1>4, <1>7
    <3>4. PICK k \in 1 .. Len(queue) : queue[k].height = h /\ y = <<"queue", k>>
      BY <3>1, <3>2, <3>3, KindsOfHolders
    <3>5. k = i
      BY <1>3, <1>4, <2>1, <3>4
    <3> QED
      BY <3>4, <3>5
  <2> QED
    BY <2>3, <2>4
<1>8. CASE ~ (h > top)
  <2>1. ~ \E i \in 1 .. Len(queue) : queue[i].height = h
    BY <1>3, <1>4, <1>8
  <2>2. Held(job, buffer, running.hash, next, h)
    BY <1>1, <1>2, <1>3, <1>8 DEF AllHeld
  <2>3. CASE running.hash # NoBlock /\ h = next
    <3>1. <<"running", running.hash>> \in Holders(h)
      BY <2>3, KindsOfHolders
    <3>2. ASSUME NEW y \in Holders(h) PROVE y = <<"running", running.hash>>
      BY <1>5, <2>1, <2>3, KindsOfHolders
    <3> QED
      BY <3>1, <3>2
  <2>4. ASSUME NEW t \in Threads, Carried(job, t), job[t].height = h
        PROVE  \E x \in Holders(h) : \A y \in Holders(h) : y = x
    <3>1. <<"thread", t>> \in Holders(h)
      BY <2>4, KindsOfHolders
    <3>2. ASSUME NEW y \in Holders(h) PROVE y = <<"thread", t>>
      <4>1. ~ \E item \in buffer : item.height = h
        BY <1>6, <2>4
      <4>2. ~ (running.hash # NoBlock /\ h = next)
        BY <1>5, <2>4
      <4>3. PICK u \in Threads : Carried(job, u) /\ job[u].height = h /\ y = <<"thread", u>>
        BY <2>1, <4>1, <4>2, KindsOfHolders
      <4>4. u = t
        BY <1>6, <2>4, <4>3
      <4> QED
        BY <4>3, <4>4
    <3> QED
      BY <3>1, <3>2
  <2>5. ASSUME NEW item \in buffer, item.height = h
        PROVE  \E x \in Holders(h) : \A y \in Holders(h) : y = x
    <3>1. <<"buffer", item.hash>> \in Holders(h)
      BY <2>5, KindsOfHolders
    <3>2. ASSUME NEW y \in Holders(h) PROVE y = <<"buffer", item.hash>>
      <4>1. ~ \E t \in Threads : Carried(job, t) /\ job[t].height = h
        BY <1>6, <2>5
      <4>2. ~ (running.hash # NoBlock /\ h = next)
        BY <1>5, <2>5
      <4>3. PICK other \in buffer : other.height = h /\ y = <<"buffer", other.hash>>
        BY <2>1, <4>1, <4>2, KindsOfHolders
      <4>4. other = item
        BY <1>6, <2>5, <4>3
      <4> QED
        BY <4>3, <4>4
    <3> QED
      BY <3>1, <3>2
  <2> QED
    BY <2>2, <2>3, <2>4, <2>5 DEF Held
<1> QED
  BY <1>7, <1>8

\* Whatever fails, in whatever order the blocks come back and to whomever the
\* threads are handed: as long as the process has not been told to stop, each
\* block of the batch that is not in the index yet is in the queue, with a
\* thread, in the buffer or being added, and in one of these places only.
THEOREM BlocksKept == Spec => []NoBlockLost
<1>1. ASSUME SyncInv, EntryInv PROVE NoBlockLost
  <2>1. ASSUME loop = "batch", ~ stopping, NEW h \in next .. target
        PROVE  Cardinality(Holders(h)) = 1
    <3>1. PICK x \in Holders(h) : \A y \in Holders(h) : y = x
      BY <1>1, <2>1, OneHolder
    <3>2. Holders(h) = {x}
      BY <3>1
    <3> QED
      BY <3>2, FS_Singleton
  <2>2. TypeOK
    BY <1>1, TypeOfSync
  <2> QED
    BY <2>1, <2>2 DEF NoBlockLost
<1> QED
  BY <1>1, SyncInvariant, PTL
-----------------------------------------------------------------------------
(* Nothing is rolled back without a fork.                                  *)

\* A tip below a block of the batch is in the chain of the batch.
LEMMA TipInChain ==
  ASSUME SyncInv, running # Nothing,
         NEW b \in Blocks, NEW d \in Int, NEW x \in Batch, tip \in L!Chain(x),
         InChain(b, d, queue, job, buffer, running.hash, next)
  PROVE  tip \in L!Chain(b)
<1>1. x # NoBlock
  BY DEF L!Chain
<1>2. \E height \in Int : At(b, d, x, height)
  <2>1. CASE \E i \in 1 .. Len(queue) : x = queue[i].hash
    <3>1. PICK i \in 1 .. Len(queue) : x = queue[i].hash
      BY <2>1
    <3>2. At(b, d, x, queue[i].height) /\ queue[i] \in Items
      BY <3>1 DEF InChain, SyncInv, TypeInv
    <3> QED
      BY <3>2 DEF Items
  <2>2. CASE \E t \in Threads : x = job[t].hash
    <3>1. PICK t \in Threads : x = job[t].hash
      BY <2>2
    <3>2. Carried(job, t) /\ job[t].height \in Nat
      BY <1>1, <3>1 DEF SyncInv, TypeInv, JobTable
    <3>3. At(b, d, x, job[t].height)
      BY <3>1, <3>2 DEF InChain
    <3> QED
      BY <3>2, <3>3
  <2>3. CASE \E item \in buffer : x = item.hash
    <3>1. PICK item \in buffer : x = item.hash
      BY <2>3
    <3>2. At(b, d, x, item.height) /\ item \in Items
      BY <3>1 DEF InChain, SyncInv, TypeInv
    <3> QED
      BY <3>2 DEF Items
  <2>4. CASE x = running.hash
    <3>1. At(b, d, x, next) /\ next \in Nat
      BY <1>1, <2>4 DEF InChain, SyncInv, TypeInv
    <3> QED
      BY <3>1
  <2> QED
    BY <2>1, <2>2, <2>3, <2>4 DEF Batch
<1>3. PICK i \in 2 .. Len(L!ChainOf[b]) : x = L!ChainOf[b][i]
  BY <1>2 DEF At
<1>4. i \in 1 .. Len(L!ChainOf[b])
  BY <1>3, ChainShape
<1>5. x \in L!Chain(b)
  BY <1>3, <1>4, ChainMembers
<1> QED
  BY <1>5, ChainAt

LEMMA TipStays ==
  ASSUME SyncInv, tip # NoBlock, tip' = tip
  PROVE  tip' # NoBlock /\ L!Height(tip) <= L!Height(tip')
<1>1. tip \in Blocks
  BY DEF SyncInv, TypeInv
<1>2. L!Height(tip) \in Nat
  BY <1>1, ChainMembers
<1>3. L!Height(tip') = L!Height(tip)
  OBVIOUS
<1> QED
  BY <1>2, <1>3

LEMMA RejectedForFork ==
  ASSUME SyncInv, running # Nothing, NEW x \in Batch, tip \in L!Chain(x)
  PROVE  ExtendsTip(running.hash)
<1>1. PICK b \in Blocks, d \in Int :
        InChain(b, d, queue, job, buffer, running.hash, next) /\ OnTip(b, d)
  BY DEF SyncInv, ChainInv
<1>2. tip \in L!Chain(b)
  BY <1>1, TipInChain
<1>3. next \in Nat /\ running.hash # NoBlock
  BY RunningHash DEF SyncInv, TypeInv
<1>4. running.hash # Genesis /\ Parent[running.hash] = tip
  BY <1>1, <1>2, <1>3, NextOnTip
<1> QED
  BY <1>4 DEF ExtendsTip

LEMMA TipNotRolledBack ==
  ASSUME SyncInv, EntryInv, [Next]_vars, ~ GenesisRejected,
         NEW x \in Batch, tip \in L!Chain(x)
  PROVE  tip' # NoBlock /\ L!Height(tip) <= L!Height(tip')
<1>1. tip # NoBlock
  <2>1. SUFFICES ASSUME tip = NoBlock PROVE FALSE
    OBVIOUS
  <2>2. x # NoBlock
    BY DEF L!Chain
  <2>3. Batch \subseteq Blocks \cup {NoBlock}
    <3>1. ASSUME NEW i \in 1 .. Len(queue) PROVE queue[i].hash \in Blocks
      <4>1. queue \in Seq(Items)
        BY DEF SyncInv, TypeInv
      <4>2. queue[i] \in Items
        BY <4>1
      <4> QED
        BY <4>2 DEF Items
    <3>2. \A t \in Threads : job[t].hash \in Blocks \cup {NoBlock}
      BY DEF SyncInv, TypeInv, JobTable
    <3>3. \A item \in buffer : item.hash \in Blocks
      BY DEF SyncInv, TypeInv, Items
    <3>4. running.hash \in Blocks \cup {NoBlock}
      BY DEF SyncInv, TypeInv, Nothing
    <3> QED
      BY <3>1, <3>2, <3>3, <3>4 DEF Batch
  <2>4. L!Chain(x) \subseteq Blocks
    BY <2>2, <2>3, ChainMembers
  <2> QED
    BY <2>1, <2>4, SyncAssumption
<1>2. CASE tip' = tip
  BY <1>1, <1>2, TipStays
<1>3. CASE BlockProcessed
  <2>1. running # Nothing /\ ExtendsTip(running.hash) /\ tip' = running.hash
    BY <1>3 DEF BlockProcessed
  <2>2. PICK b \in Blocks :
          /\ InChain(b, 0, queue, job, buffer, running.hash, next)
          /\ next + 1 \in 1 .. Len(L!ChainOf[b]) /\ running.hash = L!ChainOf[b][next + 1]
          /\ running.hash \in Blocks /\ tip \in Blocks
          /\ L!Height(running.hash) = next /\ L!Height(tip) = next - 1
    BY <2>1, AddedOnTip
  <2>3. next \in Nat
    BY DEF SyncInv, TypeInv
  <2>4. L!Height(tip') = next
    BY <2>1, <2>2
  <2> QED
    BY <2>1, <2>2, <2>3, <2>4, SyncAssumption
<1>4. CASE BlockRejected
  <2>1. running # Nothing
    BY <1>4 DEF BlockRejected
  <2>2. ExtendsTip(running.hash)
    BY <2>1, RejectedForFork
  <2>3. tip' = tip
    BY <1>4, <2>2 DEF BlockRejected, AddRejected
  <2> QED
    BY <1>2, <2>3
<1>5. CASE StoreGenesis
  <2>1. tip' = Genesis /\ tip = Genesis
    BY <1>1, <1>5, GenesisStays DEF StoreGenesis
  <2> QED
    BY <1>2, <2>1
<1> QED
  BY <1>2, <1>3, <1>4, <1>5 DEF Next, PeerBlock, EntryStep, ReadTip, AskHeaders, Start,
     LoopStep, BlockStep, Deliver, NextBatch, Finish, Stop, Restart, Fetch,
     BlockFetched, Retry, Die, Switch, vars, memory

\* The blocks of a batch roll nothing back that is below a block of the batch:
\* the tip falls only when the batch is of another branch, whatever was lost,
\* repeated or reordered on the way from the threads, or when a second sync()
\* gives addBlock the genesis block again.
THEOREM NoRollback == Spec => NoNeedlessRollback
<1>1. ASSUME SyncInv, EntryInv, [Next]_vars
      PROVE  [(\E b \in Batch : tip \in L!Chain(b)) /\ ~ GenesisRejected =>
                tip' # NoBlock /\ L!Height(tip) <= L!Height(tip')]_vars
  BY <1>1, TipNotRolledBack
<1> QED
  BY <1>1, SyncInvariant, PTL DEF Spec, NoNeedlessRollback
=============================================================================
