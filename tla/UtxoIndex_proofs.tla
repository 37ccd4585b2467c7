-------------------------- MODULE UtxoIndex_proofs --------------------------
(***************************************************************************)
(* Proofs about the block index, for every tree of blocks, every set of    *)
(* transactions and every interleaving of the sync with the imports of the *)
(* mempool, crashes included.                                              *)
(***************************************************************************)
EXTENDS UtxoIndex, FiniteSetTheorems, SequenceTheorems, TLAPS

-----------------------------------------------------------------------------
(* The chains of the blocks of this module.                                *)

T == INSTANCE Ledger_proofs WITH tip <- LocalTip

LEMMA TreeOfBlocks == T!IsTree
BY IndexAssumption DEF T!IsTree

LEMMA SameChains ==
  /\ L!ChainOf = T!ChainOf
  /\ \A b : L!Chain(b) = T!Chain(b) /\ L!Height(b) = T!Height(b)
BY DEF L!ChainOf, L!Chain, L!Height, T!ChainOf, T!Chain, T!Height

LEMMA ChainStep ==
  ASSUME NEW b \in Blocks
  PROVE  L!ChainOf[b] = IF b = Genesis THEN <<b>> ELSE Append(L!ChainOf[Parent[b]], b)
BY TreeOfBlocks, SameChains, T!ChainStep

LEMMA ChainShape ==
  ASSUME NEW b \in Blocks
  PROVE  /\ L!ChainOf[b] \in Seq(Blocks) /\ L!ChainOf[b] # <<>>
         /\ L!ChainOf[b][1] = Genesis /\ L!ChainOf[b][Len(L!ChainOf[b])] = b
BY TreeOfBlocks, SameChains, T!ChainShape

LEMMA ChainPrefix ==
  ASSUME NEW b \in Blocks, NEW i \in 1 .. Len(L!ChainOf[b])
  PROVE  /\ L!ChainOf[b][i] \in Blocks
         /\ Len(L!ChainOf[L!ChainOf[b][i]]) = i
         /\ \A j \in 1 .. i : L!ChainOf[L!ChainOf[b][i]][j] = L!ChainOf[b][j]
BY TreeOfBlocks, SameChains, T!ChainPrefix

LEMMA ChainParent ==
  ASSUME NEW b \in Blocks, NEW i \in 1 .. Len(L!ChainOf[b]), i # 1
  PROVE  L!ChainOf[b][i] # Genesis /\ Parent[L!ChainOf[b][i]] = L!ChainOf[b][i - 1]
BY TreeOfBlocks, SameChains, T!ChainParent

LEMMA ChainMembers ==
  ASSUME NEW b \in Blocks
  PROVE  /\ L!Chain(b) \subseteq Blocks /\ b \in L!Chain(b) /\ Genesis \in L!Chain(b)
         /\ L!Height(b) \in Nat /\ L!Height(b) + 1 = Len(L!ChainOf[b])
         /\ \A i \in 1 .. Len(L!ChainOf[b]) :
               L!ChainOf[b][i] \in L!Chain(b) /\ L!Height(L!ChainOf[b][i]) = i - 1
BY TreeOfBlocks, SameChains, T!ChainMembers

LEMMA ChainAt ==
  ASSUME NEW b \in Blocks, NEW x \in L!Chain(b)
  PROVE  /\ x \in Blocks /\ L!Height(x) + 1 \in 1 .. Len(L!ChainOf[b])
         /\ x = L!ChainOf[b][L!Height(x) + 1]
         /\ L!Chain(x) \subseteq L!Chain(b)
BY TreeOfBlocks, SameChains, T!ChainAt

LEMMA ChainOfGenesis ==
  L!Chain(Genesis) = {Genesis} /\ L!Height(Genesis) = 0 /\ L!Chain(NoBlock) = {}
BY TreeOfBlocks, SameChains, T!ChainOfGenesis

LEMMA ChainOfChild ==
  ASSUME NEW b \in Blocks, b # Genesis
  PROVE  L!Chain(b) = L!Chain(Parent[b]) \cup {b} /\ L!Height(b) = L!Height(Parent[b]) + 1
BY TreeOfBlocks, SameChains, T!ChainOfChild

LEMMA HighestOfChain ==
  ASSUME NEW b \in Blocks, NEW x \in L!Chain(b)
  PROVE  /\ L!Height(x) \in Nat /\ L!Height(x) <= L!Height(b)
         /\ L!Height(x) = L!Height(b) => x = b
BY TreeOfBlocks, SameChains, T!HighestOfChain

LEMMA LowestOfChain ==
  ASSUME NEW b \in Blocks, L!Height(b) = 0
  PROVE  b = Genesis
BY TreeOfBlocks, SameChains, T!LowestOfChain

LEMMA ChainBelow ==
  ASSUME NEW b \in Blocks, NEW n \in Nat
  PROVE  \E q \in L!Chain(b) \cup {NoBlock} :
            {x \in L!Chain(b) : L!Height(x) < n} = L!Chain(q)
<1>1. PICK q \in T!Chain(b) \cup {NoBlock} :
        {x \in T!Chain(b) : T!Height(x) < n} = T!Chain(q)
  BY TreeOfBlocks, T!ChainBelow
<1>2. {x \in L!Chain(b) : L!Height(x) < n} = {x \in T!Chain(b) : T!Height(x) < n}
  BY SameChains
<1> QED
  BY <1>1, <1>2, SameChains

\* A chain has one block of each height.
LEMMA ChainCount ==
  ASSUME NEW b \in Blocks
  PROVE  IsFiniteSet(L!Chain(b)) /\ Cardinality(L!Chain(b)) = L!Height(b) + 1
<1> DEFINE Good(x) == IsFiniteSet(L!Chain(x)) /\ Cardinality(L!Chain(x)) = L!Height(x) + 1
<1>1. PICK S : S = {x \in Blocks : ~ Good(x)}
  OBVIOUS
<1>2. ASSUME S # {} PROVE FALSE
  <2>1. PICK x \in S : \/ x = Genesis
                       \/ /\ x \in Blocks \ {Genesis}
                          /\ Parent[x] \notin S /\ Parent[x] \in Blocks
    BY <1>1, <1>2, TreeOfBlocks, T!Ancestry
  <2>2. x \in Blocks /\ ~ Good(x)
    BY <1>1
  <2>3. CASE x = Genesis
    <3>1. L!Chain(x) = {Genesis} /\ L!Height(x) = 0
      BY <2>3, ChainOfGenesis
    <3>2. IsFiniteSet({Genesis}) /\ Cardinality({Genesis}) = 1
      BY FS_Singleton
    <3> QED
      BY <2>2, <3>1, <3>2
  <2>4. CASE x # Genesis
    <3>1. PICK p \in Blocks : p = Parent[x] /\ Good(p)
      BY <1>1, <2>1, <2>4
    <3>2. L!Chain(x) = L!Chain(p) \cup {x} /\ L!Height(x) = L!Height(p) + 1
      BY <2>2, <2>4, <3>1, ChainOfChild
    <3>3. L!Height(p) \in Nat
      BY ChainMembers
    <3>4. x \notin L!Chain(p)
      <4>1. x \in L!Chain(p) => L!Height(x) <= L!Height(p)
        BY HighestOfChain
      <4> QED
        BY <3>2, <3>3, <4>1
    <3>5. IsFiniteSet(L!Chain(x)) /\ Cardinality(L!Chain(x)) = Cardinality(L!Chain(p)) + 1
      BY <3>1, <3>2, <3>4, FS_AddElement
    <3> QED
      BY <2>2, <3>1, <3>2, <3>3, <3>5
  <2> QED
    BY <2>3, <2>4
<1> QED
  BY <1>1, <1>2

-----------------------------------------------------------------------------
(* The types.                                                              *)

Doc == [height : Nat, next : Blocks \cup {NoBlock}, processed : BOOLEAN]

CoinDoc ==
  {coin \in [mint : Nat \cup {Pending, Conflicting, Expired},
             spent : Nat \cup {Pending, Unspent}, by : Txs \cup {NoTx}] :
     (coin.by = NoTx) <=> (coin.spent = Unspent)}

SyncSteps == {"idle", "begin", "askGenesis", "ask", "add", "reorg", "unspend",
              "store", "link", "import", "processed"}
Storing == {"link", "import", "processed"}
Working == {"add", "store"} \cup Storing

ImportSteps == {"off", "mint", "prune", "invalidate", "spend", "doc", "done"}

DocsTyped ==
  /\ blocks \in [Blocks -> Doc \cup {NoDoc}]
  /\ coins \in [Coins -> CoinDoc \cup {NoDoc}]
  /\ txs = [t \in Txs |-> txs[t]]
  /\ \A t \in Txs : Seen(t) =>
       txs[t] \in [height : Nat \cup {Pending, Conflicting, Expired},
                 replacedBy : {txs[t].replacedBy}]

\* A block that is being stored has its document.
SyncTyped ==
  /\ sync \in [pc : SyncSteps, queue : Seq(Blocks), left : {sync.left}, from : {sync.from}]
  /\ sync.pc \in Working => sync.queue # <<>>
  /\ sync.pc \in Storing => Stored(Current)

ImpTyped ==
  /\ imp = [i \in Importers |-> imp[i]]
  /\ \A i \in Importers :
       imp[i] \in [pc : ImportSteps, todo : {imp[i].todo}, victim : {imp[i].victim}]
  /\ imp[Syncer].pc # "done"
  /\ (sync.pc = "import") <=> (imp[Syncer].pc # "off")

HeaderLists == {h \in Seq(Blocks) : h # <<>> => Head(h) # Genesis}

NetTyped == best \in Blocks /\ (late = NoReply \/ late \in HeaderLists)

TypeInv == DocsTyped /\ SyncTyped /\ ImpTyped /\ NetTyped

LEMMA Documents ==
  /\ \A d \in Doc : d # NoDoc
  /\ \A d \in CoinDoc : d # NoDoc
  /\ \A h, r : [height |-> h, replacedBy |-> r] # NoDoc
<1>1. \A d \in Doc : DOMAIN d = {"height", "next", "processed"}
  BY DEF Doc
<1>2. \A d \in CoinDoc : DOMAIN d = {"mint", "spent", "by"}
  BY DEF CoinDoc
<1>3. \A h, r : DOMAIN [height |-> h, replacedBy |-> r] = {"height", "replacedBy"}
  OBVIOUS
<1>4. DOMAIN NoDoc = {"absent"}
  BY DEF NoDoc
<1> QED
  BY <1>1, <1>2, <1>3, <1>4

\* The headers begin above the highest locator on the peers' chain.
HeadersFrom(headers, locators, last) ==
  /\ last \in 1 .. Len(L!ChainOf[best])
  /\ headers \in HeaderLists /\ headers \in Seq(Blocks)
  /\ Len(headers) = Len(L!ChainOf[best]) - last
  /\ \A i \in 1 .. Len(headers) : headers[i] = L!ChainOf[best][last + i]
  /\ last = 1 \/ L!ChainOf[best][last] \in locators
  /\ \A j \in 1 .. Len(L!ChainOf[best]) : L!ChainOf[best][j] \in locators => j <= last

LEMMA HeadersOfPart ==
  ASSUME NEW chain, NEW last, NEW locators, NEW headers,
         best \in Blocks,
         chain = L!ChainOf[best], chain \in Seq(Blocks), last \in 1 .. Len(chain),
         headers = SubSeq(chain, last + 1, Len(chain)),
         last = 1 \/ chain[last] \in locators,
         \A j \in 1 .. Len(chain) : chain[j] \in locators => j <= last
  PROVE  HeadersFrom(headers, locators, last)
<1>1. Len(chain) \in Nat /\ last \in Nat
  OBVIOUS
<1>2. last + 1 \in 1 .. Len(chain) + 1 /\ Len(chain) \in last + 1 - 1 .. Len(chain)
  BY <1>1
<1>3. /\ headers \in Seq(Blocks) /\ Len(headers) = Len(chain) - last
      /\ \A i \in 1 .. Len(chain) - last : headers[i] = chain[last + i]
  BY <1>1, <1>2, SubSeqProperties
<1>4. ASSUME headers # <<>> PROVE Head(headers) # Genesis
  <2>1. Len(headers) >= 1 /\ Head(headers) = headers[1]
    BY <1>1, <1>3, <1>4
  <2>2. last + 1 \in 1 .. Len(chain) /\ last + 1 # 1 /\ Head(headers) = chain[last + 1]
    BY <1>1, <1>3, <2>1
  <2> QED
    BY <2>2, ChainParent
<1>5. headers \in HeaderLists
  BY <1>3, <1>4 DEF HeaderLists
<1> QED
  BY <1>1, <1>3, <1>5 DEF HeadersFrom

LEMMA HeadersAreChain ==
  ASSUME best \in Blocks, NEW locators
  PROVE  \E last : HeadersFrom(HeadersAfter(locators), locators, last)
<1>1. PICK chain : chain = L!ChainOf[best]
  OBVIOUS
<1>2. chain \in Seq(Blocks) /\ Len(chain) \in Nat /\ Len(chain) >= 1
  BY <1>1, ChainShape
<1>3. PICK common : common = {i \in 1 .. Len(chain) : chain[i] \in locators}
  OBVIOUS
<1>4. PICK last : last = IF common = {} THEN 1
                         ELSE CHOOSE i \in common : \A j \in common : j <= i
  OBVIOUS
<1>0. HeadersAfter(locators) = SubSeq(chain, last + 1, Len(chain))
  BY <1>1, <1>3, <1>4 DEF HeadersAfter
<1>5. CASE common = {}
  <2>1. last = 1
    BY <1>4, <1>5
  <2>2. \A j \in 1 .. Len(chain) : chain[j] \in locators => j <= last
    BY <1>3, <1>5
  <2>3. last \in 1 .. Len(chain)
    BY <1>2, <2>1
  <2> QED
    BY <1>0, <1>1, <1>2, <2>1, <2>2, <2>3, HeadersOfPart
<1>6. CASE common # {}
  <2>1. \E i \in common : \A j \in common : j <= i
    <3>1. common \in SUBSET Nat /\ (\A i \in common : i <= Len(chain))
      BY <1>2, <1>3
    <3> QED
      BY <1>2, <1>6, <3>1, T!GreatestNumber
  <2>2. last \in common /\ \A j \in common : j <= last
    BY <1>4, <1>6, <2>1
  <2>3. last \in 1 .. Len(chain) /\ chain[last] \in locators
    BY <1>3, <2>2
  <2>4. \A j \in 1 .. Len(chain) : chain[j] \in locators => j <= last
    BY <1>3, <2>2
  <2> QED
    BY <1>0, <1>1, <1>2, <2>3, <2>4, HeadersOfPart
<1> QED
  BY <1>5, <1>6

\* What the steps leave alone.
SameDocs == blocks' = blocks /\ coins' = coins /\ txs' = txs
SameImp == imp' = imp /\ (sync'.pc = "import" <=> sync.pc = "import")
SameNet == best' = best /\ late' = late

LEMMA InitTyped ==
  Init => TypeInv
<1> SUFFICES ASSUME Init PROVE TypeInv
  OBVIOUS
<1>1. DocsTyped
  BY DEF Init, DocsTyped, Seen
<1>2. SyncTyped
  BY DEF Init, SyncTyped, SyncSteps, Working, Storing
<1>3. ImpTyped
  BY DEF Init, ImpTyped, ImportSteps, Importers
<1>4. NetTyped
  BY IndexAssumption DEF Init, NetTyped
<1> QED
  BY <1>1, <1>2, <1>3, <1>4 DEF TypeInv

LEMMA KeepDocs ==
  ASSUME DocsTyped, SameDocs
  PROVE  DocsTyped'
BY DEF DocsTyped, SameDocs, Seen

LEMMA KeepImp ==
  ASSUME ImpTyped, SameImp
  PROVE  ImpTyped'
BY DEF ImpTyped, SameImp

LEMMA KeepNet ==
  ASSUME NetTyped, SameNet
  PROVE  NetTyped'
BY DEF NetTyped, SameNet

\* Where a step of the sync takes it.
GoesTo(pc, queue) ==
  sync' \in [pc : {pc}, queue : {queue}, left : {sync'.left}, from : {sync'.from}]

LEMMA OutOfWork ==
  ASSUME SyncTyped, NEW pc \in SyncSteps \ Working, NEW queue \in Seq(Blocks),
         GoesTo(pc, queue)
  PROVE  SyncTyped'
BY DEF SyncTyped, GoesTo, Working

LEMMA BackToWork ==
  ASSUME SyncTyped, NEW pc \in {"add", "store"}, NEW queue \in Seq(Blocks), queue # <<>>,
         GoesTo(pc, queue)
  PROVE  SyncTyped'
BY DEF SyncTyped, GoesTo, Working, Storing, SyncSteps

LEMMA StoringTyped ==
  ASSUME SyncTyped, NEW pc \in Storing, GoesTo(pc, sync.queue), sync.queue # <<>>,
         blocks'[Head(sync.queue)] # NoDoc
  PROVE  SyncTyped'
BY DEF SyncTyped, GoesTo, Working, Storing, SyncSteps, Stored, Current

LEMMA SetStep ==
  ASSUME SyncTyped, NEW pc, sync' = [sync EXCEPT !.pc = pc]
  PROVE  GoesTo(pc, sync.queue)
BY DEF SyncTyped, GoesTo

LEMMA SetStepAndQueue ==
  ASSUME SyncTyped, NEW pc, NEW queue, sync' = [sync EXCEPT !.pc = pc, !.queue = queue]
  PROVE  GoesTo(pc, queue)
BY DEF SyncTyped, GoesTo

\* A sync that asks for headers and gets some.
LEMMA ReceivedTyped ==
  ASSUME TypeInv, NEW headers \in Answers, Receive(headers)
  PROVE  /\ headers \in HeaderLists /\ headers \in Seq(Blocks)
         /\ late' = NoReply \/ late' \in HeaderLists
<1>1. PICK fresh : fresh = HeadersAfter(Locators)
  OBVIOUS
<1>2. fresh \in HeaderLists
  BY <1>1, HeadersAreChain DEF TypeInv, NetTyped, HeadersFrom
<1>3. headers \in HeaderLists
  BY <1>1, <1>2 DEF Answers, TypeInv, NetTyped
<1>4. late' = NoReply \/ late' = fresh \/ late' = late \/ late' = headers
  BY <1>1 DEF Receive
<1> QED
  BY <1>2, <1>3, <1>4 DEF TypeInv, NetTyped, HeaderLists

LEMMA AskingTyped ==
  ASSUME TypeInv, Begin \/ AskGenesis \/ Ask
  PROVE  TypeInv'
<1>1. SameDocs
  BY DEF SameDocs, Begin, AskGenesis, Ask, db
<1>2. best' = best /\ imp' = imp /\ sync.pc # "import"
  BY DEF Begin, AskGenesis, Ask, net
<1>3. SyncTyped' /\ sync'.pc # "import"
  <2>1. CASE Begin
    <3>1. PICK pc \in {"ask", "askGenesis"} : sync' = [sync EXCEPT !.pc = pc, !.queue = <<>>]
      BY <2>1 DEF Begin
    <3>2. GoesTo(pc, <<>>)
      BY <3>1, SetStepAndQueue DEF TypeInv
    <3>3. pc \in SyncSteps \ Working /\ <<>> \in Seq(Blocks)
      BY DEF SyncSteps, Working, Storing
    <3>4. SyncTyped'
      BY <3>2, <3>3, OutOfWork DEF TypeInv
    <3> QED
      BY <3>2, <3>4 DEF GoesTo
  <2>2. CASE AskGenesis
    <3>1. CASE sync' = [sync EXCEPT !.pc = "ask"]
      BY <3>1, SetStep, OutOfWork DEF TypeInv, SyncSteps, Working, Storing, GoesTo, SyncTyped
    <3>2. ASSUME NEW headers \in Answers, Receive(headers), headers # <<>>,
                 sync' = [sync EXCEPT !.pc = "add", !.queue = <<Parent[Head(headers)]>>]
          PROVE  SyncTyped' /\ sync'.pc # "import"
      <4>1. PICK q : q = <<Parent[Head(headers)]>>
        OBVIOUS
      <4>2. GoesTo("add", q)
        BY <3>2, <4>1, SetStepAndQueue DEF TypeInv
      <4>3. headers \in Seq(Blocks) /\ Head(headers) # Genesis
        BY <3>2, ReceivedTyped DEF HeaderLists
      <4>4. Head(headers) \in Blocks
        BY <3>2, <4>3
      <4>5. Parent[Head(headers)] \in Blocks
        BY <4>3, <4>4, IndexAssumption
      <4>6. q \in Seq(Blocks) /\ q # <<>>
        BY <4>1, <4>5
      <4> QED
        BY <4>2, <4>6, BackToWork DEF TypeInv, GoesTo
    <3> QED
      BY <2>2, <3>1, <3>2 DEF AskGenesis
  <2>3. CASE Ask
    <3>1. PICK headers \in Answers :
            /\ Receive(headers)
            /\ \/ headers = <<>> /\ sync' = [sync EXCEPT !.pc = "idle"]
               \/ headers # <<>> /\ sync' = [sync EXCEPT !.pc = "add", !.queue = headers]
      BY <2>3 DEF Ask
    <3>2. headers \in Seq(Blocks)
      BY <3>1, ReceivedTyped
    <3>3. CASE sync' = [sync EXCEPT !.pc = "idle"]
      BY <3>3, SetStep, OutOfWork DEF TypeInv, SyncSteps, Working, Storing, GoesTo, SyncTyped
    <3>4. CASE headers # <<>> /\ sync' = [sync EXCEPT !.pc = "add", !.queue = headers]
      <4>1. GoesTo("add", headers)
        BY <3>4, SetStepAndQueue DEF TypeInv
      <4> QED
        BY <3>2, <3>4, <4>1, BackToWork DEF TypeInv, GoesTo
    <3> QED
      BY <3>1, <3>3, <3>4
  <2> QED
    BY <2>1, <2>2, <2>3
<1>4. late' = NoReply \/ late' \in HeaderLists
  BY ReceivedTyped DEF Begin, AskGenesis, Ask, TypeInv, NetTyped
<1>5. DocsTyped' /\ ImpTyped' /\ NetTyped'
  BY <1>1, <1>2, <1>3, <1>4, KeepDocs, KeepImp DEF TypeInv, SameImp, NetTyped
<1> QED
  BY <1>3, <1>5 DEF TypeInv

LEMMA RollbackTyped ==
  ASSUME TypeInv, AddBlock \/ DeleteBlocks \/ DeleteTxs \/ DeleteCoins \/ Unspend
  PROVE  TypeInv'
<1>1. best' = best /\ late' = late /\ imp' = imp /\ sync.pc # "import"
  BY DEF AddBlock, DeleteBlocks, DeleteTxs, DeleteCoins, Unspend, Deleted, net
<1>2. SyncTyped' /\ sync'.pc # "import"
  <2>1. CASE AddBlock
    <3>1. sync.queue \in Seq(Blocks) /\ sync.queue # <<>>
      BY <2>1 DEF AddBlock, TypeInv, SyncTyped, Working
    <3>2. GoesTo("store", sync.queue) \/ GoesTo("reorg", sync.queue)
      BY <2>1 DEF AddBlock, TypeInv, SyncTyped, GoesTo
    <3> QED
      BY <3>1, <3>2, OutOfWork, BackToWork
         DEF TypeInv, SyncSteps, Working, Storing, GoesTo
  <2>2. ASSUME NEW what, Deleted(what)
        PROVE  SyncTyped' /\ sync'.pc # "import"
    <3>1. GoesTo("unspend", sync.queue) \/ GoesTo("reorg", sync.queue)
      BY <2>2 DEF Deleted, TypeInv, SyncTyped, GoesTo
    <3> QED
      BY <3>1, OutOfWork DEF TypeInv, SyncTyped, SyncSteps, Working, Storing, GoesTo
  <2>3. CASE Unspend
    <3>1. GoesTo("begin", sync.queue)
      BY <2>3, SetStep DEF Unspend, TypeInv
    <3> QED
      BY <3>1, OutOfWork DEF TypeInv, SyncTyped, SyncSteps, Working, Storing, GoesTo
  <2> QED
    BY <2>1, <2>2, <2>3 DEF DeleteBlocks, DeleteTxs, DeleteCoins
<1>3. DocsTyped'
  <2>1. CASE AddBlock
    BY <2>1, KeepDocs DEF AddBlock, SameDocs, db, TypeInv
  <2>2. CASE DeleteBlocks
    BY <2>2 DEF DeleteBlocks, TypeInv, DocsTyped, Stored, Seen
  <2>3. CASE DeleteTxs
    BY <2>3 DEF DeleteTxs, TypeInv, DocsTyped, Seen
  <2>4. CASE DeleteCoins
    BY <2>4 DEF DeleteCoins, TypeInv, DocsTyped, Known, Seen
  <2>5. CASE Unspend
    <3>1. ASSUME NEW c \in Coins, Known(c), coins[c].spent >= sync.from
          PROVE  GivenBack(coins[c]) \in CoinDoc
      BY <3>1 DEF TypeInv, DocsTyped, Known, CoinDoc, GivenBack, Unspent
    <3> QED
      BY <2>5, <3>1 DEF Unspend, TypeInv, DocsTyped, Seen
  <2> QED
    BY <2>1, <2>2, <2>3, <2>4, <2>5
<1>4. ImpTyped' /\ NetTyped'
  BY <1>1, <1>2, KeepImp, KeepNet DEF TypeInv, SameImp, SameNet
<1> QED
  BY <1>2, <1>3, <1>4 DEF TypeInv

LEMMA StoredParents ==
  ASSUME TypeInv, NEW b \in Blocks, StoredParent(b)
  PROVE  Parent[b] \in Blocks /\ blocks[Parent[b]] \in Doc
BY IndexAssumption DEF StoredParent, Stored, TypeInv, DocsTyped

LEMMA LinkTyped ==
  ASSUME TypeInv, Link, DocsTyped', NetTyped',
         NEW b \in Blocks, b = Current, blocks'[b] \in Doc
  PROVE  TypeInv'
<1>1. GoesTo("import", sync.queue) /\ sync.queue # <<>>
  BY SetStep DEF Link, TypeInv, SyncTyped, Working, Storing
<1>2. blocks'[Head(sync.queue)] # NoDoc
  BY Documents DEF Current
<1>3. SyncTyped'
  BY <1>1, <1>2, StoringTyped DEF TypeInv, Storing
<1>4. imp' = [imp EXCEPT ![Syncer].pc = "mint"] /\ Syncer \in Importers
  BY DEF Link, Importers
<1>5. ImpTyped'
  BY <1>1, <1>4 DEF TypeInv, ImpTyped, GoesTo, ImportSteps
<1> QED
  BY <1>3, <1>5 DEF TypeInv

LEMMA RestOfQueue ==
  ASSUME NEW q \in Seq(Blocks), q # <<>>
  PROVE  /\ Head(q) \in Blocks /\ q[1] = Head(q) /\ Len(q) \in Nat \ {0}
         /\ Tail(q) \in Seq(Blocks) /\ Len(Tail(q)) = Len(q) - 1
         /\ \A i \in 1 .. Len(q) - 1 : Tail(q)[i] = q[i + 1]
         /\ Len(q) # 1 => Tail(q) # <<>>
<1>1. Head(q) \in Blocks /\ q[1] = Head(q)
  BY HeadTailProperties
<1>2. Len(q) \in Nat \ {0}
  OBVIOUS
<1>3. Tail(q) \in Seq(Blocks) /\ Len(Tail(q)) = Len(q) - 1
  BY HeadTailProperties
<1>4. \A i \in 1 .. Len(q) - 1 : Tail(q)[i] = q[i + 1]
  BY HeadTailProperties
<1>5. Len(q) # 1 => Tail(q) # <<>>
  <2>1. PICK s \in Seq(Blocks) : s = Tail(q) /\ Len(s) = Len(q) - 1
    BY <1>3
  <2>2. Len(q) # 1 => Len(s) # 0
    BY <1>2, <2>1
  <2>3. s = <<>> => Len(s) = 0
    BY EmptySeq
  <2>4. Len(q) # 1 => s # <<>>
    BY <2>2, <2>3
  <2> QED
    BY <2>1, <2>4
<1> QED
  BY <1>1, <1>2, <1>3, <1>4, <1>5

LEMMA BlockWritesTyped ==
  ASSUME TypeInv, Store \/ Link \/ MarkProcessed
  PROVE  TypeInv'
<1>1. best' = best /\ late' = late /\ coins' = coins /\ txs' = txs
  BY DEF Store, Link, MarkProcessed, net
<1>2. PICK b : b = Current
  OBVIOUS
<1>3. /\ sync.queue \in Seq(Blocks) /\ sync.queue # <<>> /\ b = Head(sync.queue)
      /\ b \in Blocks
  <2>1. sync.queue \in Seq(Blocks) /\ sync.queue # <<>>
    BY DEF Store, Link, MarkProcessed, TypeInv, SyncTyped, Working, Storing
  <2> QED
    BY <1>2, <2>1 DEF Current
<1>4. NetTyped'
  BY <1>1, KeepNet DEF SameNet, TypeInv
<1>5. blocks \in [Blocks -> Doc \cup {NoDoc}]
  BY DEF TypeInv, DocsTyped
<1>6. ASSUME blocks' \in [Blocks -> Doc \cup {NoDoc}] PROVE DocsTyped'
  BY <1>1, <1>6 DEF TypeInv, DocsTyped, Seen
<1>7. CASE Store
  <2>1. BlockOp(b) \in Doc
    <3>1. BlockHeight(b) \in Nat
      BY <1>3, StoredParents DEF BlockHeight, Doc
    <3> QED
      BY <3>1 DEF BlockOp, Doc
  <2>2. blocks' = [blocks EXCEPT ![b] = BlockOp(b)]
    BY <1>2, <1>7 DEF Store
  <2>3. blocks' \in [Blocks -> Doc \cup {NoDoc}] /\ blocks'[b] \in Doc
    BY <1>3, <1>5, <2>1, <2>2
  <2>4. GoesTo("link", sync.queue) /\ imp' = imp /\ sync.pc # "import"
    BY <1>7, SetStep DEF Store, TypeInv
  <2>5. SyncTyped'
    BY <1>3, <2>3, <2>4, StoringTyped, Documents DEF TypeInv, Storing
  <2>6. ImpTyped'
    BY <2>4, KeepImp DEF SameImp, TypeInv, GoesTo
  <2> QED
    BY <1>4, <1>6, <2>3, <2>5, <2>6 DEF TypeInv
<1>8. CASE Link
  <2>1. blocks[b] \in Doc
    BY <1>2, <1>3, <1>5, <1>8 DEF Link, TypeInv, SyncTyped, Storing, Stored
  <2>2. CASE ~ StoredParent(b)
    <3>1. blocks' = blocks
      BY <1>2, <1>8, <2>2 DEF Link
    <3>2. DocsTyped' /\ blocks'[b] \in Doc
      BY <1>5, <1>6, <2>1, <3>1
    <3> QED
      BY <1>2, <1>3, <1>4, <1>8, <3>2, LinkTyped
  <2>3. CASE StoredParent(b)
    <3>1. blocks' = [blocks EXCEPT ![Parent[b]].next = b]
      BY <1>2, <1>8, <2>3 DEF Link
    <3>2. Parent[b] \in Blocks /\ blocks[Parent[b]] \in Doc
      BY <1>3, <2>3, StoredParents
    <3>3. [blocks[Parent[b]] EXCEPT !.next = b] \in Doc
      BY <1>3, <3>2 DEF Doc
    <3>4. blocks' \in [Blocks -> Doc \cup {NoDoc}] /\ blocks'[b] \in Doc
      BY <1>3, <1>5, <2>1, <3>1, <3>2, <3>3
    <3> QED
      BY <1>2, <1>3, <1>4, <1>6, <1>8, <3>4, LinkTyped
  <2> QED
    BY <2>2, <2>3
<1>9. CASE MarkProcessed
  <2>1. blocks[b] \in Doc
    BY <1>2, <1>3, <1>5, <1>9 DEF MarkProcessed, TypeInv, SyncTyped, Storing, Stored
  <2>2. [blocks[b] EXCEPT !.processed = TRUE] \in Doc
    BY <2>1 DEF Doc
  <2>3. blocks' = [blocks EXCEPT ![b].processed = TRUE]
    BY <1>2, <1>9 DEF MarkProcessed
  <2>4. blocks' \in [Blocks -> Doc \cup {NoDoc}]
    BY <1>3, <1>5, <2>2, <2>3
  <2>5. PICK pc : /\ pc = IF Len(sync.queue) = 1 THEN "ask" ELSE "add"
                  /\ sync' = [sync EXCEPT !.queue = Tail(sync.queue), !.pc = pc]
    BY <1>9 DEF MarkProcessed
  <2>6. GoesTo(pc, Tail(sync.queue))
    BY <2>5 DEF GoesTo, TypeInv, SyncTyped
  <2>7. Tail(sync.queue) \in Seq(Blocks) /\ (pc = "add" => Tail(sync.queue) # <<>>)
    <3>1. Tail(sync.queue) \in Seq(Blocks) /\ (Len(sync.queue) # 1 => Tail(sync.queue) # <<>>)
      BY <1>3, RestOfQueue
    <3>2. pc = "add" => Len(sync.queue) # 1
      BY <2>5
    <3> QED
      BY <3>1, <3>2
  <2>8. SyncTyped'
    BY <2>5, <2>6, <2>7, OutOfWork, BackToWork DEF TypeInv, SyncSteps, Working, Storing
  <2>9. imp' = imp /\ sync.pc # "import" /\ sync'.pc # "import"
    BY <1>9, <2>5, <2>6 DEF MarkProcessed, GoesTo
  <2>10. ImpTyped'
    BY <2>9, KeepImp DEF SameImp, TypeInv
  <2> QED
    BY <1>4, <1>6, <2>4, <2>8, <2>10 DEF TypeInv
<1> QED
  BY <1>7, <1>8, <1>9

\* What an import writes as the height.
LEMMA HeightTyped ==
  ASSUME TypeInv, NEW i \in Importers, imp[i].pc # "off"
  PROVE  ImportHeight(i) \in Nat \cup {Pending}
<1>1. CASE i = Syncer
  <2>1. sync.pc = "import"
    BY <1>1 DEF TypeInv, ImpTyped
  <2>2. Stored(Current) /\ sync.queue \in Seq(Blocks) /\ sync.queue # <<>>
    BY <2>1 DEF TypeInv, SyncTyped, Storing, Working
  <2>3. Current \in Blocks
    BY <2>2 DEF Current
  <2>4. blocks[Current] \in Doc
    BY <2>2, <2>3 DEF TypeInv, DocsTyped, Stored
  <2> QED
    BY <1>1, <2>4 DEF ImportHeight, Doc
<1> QED
  BY <1>1 DEF ImportHeight

LEMMA MintTyped ==
  ASSUME TypeInv, NEW i \in Importers, imp[i].pc # "off", NEW c \in Coins
  PROVE  Mint(i, c) \in CoinDoc \/ Mint(i, c) = coins[c]
<1>1. ImportHeight(i) \in Nat \cup {Pending}
  BY HeightTyped
<1>2. CASE ~ Known(c)
  BY <1>1, <1>2 DEF Mint, CoinDoc, Unspent
<1>3. CASE Known(c)
  <2>1. coins[c] \in CoinDoc
    BY <1>3 DEF Known, TypeInv, DocsTyped
  <2>2. [coins[c] EXCEPT !.mint = ImportHeight(i)] \in CoinDoc
    BY <1>1, <2>1 DEF CoinDoc
  <2> QED
    BY <1>3, <2>2 DEF Mint
<1> QED
  BY <1>2, <1>3

LEMMA CoinsTyped ==
  ASSUME TypeInv, NEW i \in Importers,
         ImportMint(i) \/ Invalidate(i) \/ ImportSpend(i)
  PROVE  coins' \in [Coins -> CoinDoc \cup {NoDoc}]
<1>1. \A c \in Coins : coins[c] \in CoinDoc \cup {NoDoc}
  BY DEF TypeInv, DocsTyped
<1>2. CASE ImportMint(i)
  <2>1. \A c \in Coins : Mint(i, c) \in CoinDoc \cup {NoDoc}
    BY <1>1, <1>2, MintTyped DEF ImportMint
  <2> QED
    BY <1>1, <1>2, <2>1 DEF ImportMint
<1>3. CASE Invalidate(i)
  <2>1. ASSUME NEW c \in Coins, Known(c)
        PROVE  /\ [coins[c] EXCEPT !.mint = Conflicting] \in CoinDoc
               /\ [coins[c] EXCEPT !.spent = Unspent, !.by = NoTx] \in CoinDoc
    <3>1. coins[c] \in CoinDoc
      BY <1>1, <2>1 DEF Known
    <3> QED
      BY <3>1 DEF CoinDoc, Conflicting, Unspent
  <2>2. PICK v : v = imp[i].victim
    OBVIOUS
  <2>3. coins' = [c \in Coins |->
             IF ~ Known(c) THEN NoDoc
             ELSE IF c \in Outputs[v] THEN [coins[c] EXCEPT !.mint = Conflicting]
             ELSE IF coins[c].by = v /\ coins[c].spent = Pending
                  THEN [coins[c] EXCEPT !.spent = Unspent, !.by = NoTx]
             ELSE coins[c]]
    BY <1>3, <2>2 DEF Invalidate
  <2> QED
    BY <1>1, <2>1, <2>3
<1>4. CASE ImportSpend(i)
  <2>1. ImportHeight(i) \in Nat \cup {Pending}
    BY <1>4, HeightTyped DEF ImportSpend
  <2>2. ASSUME NEW c \in Coins, Known(c), NEW t \in Txs
        PROVE  [coins[c] EXCEPT !.spent = ImportHeight(i), !.by = t] \in CoinDoc
    <3>1. coins[c] \in CoinDoc
      BY <1>1, <2>2 DEF Known
    <3>2. t # NoTx /\ ImportHeight(i) # Unspent
      BY <2>1, IndexAssumption DEF Txs, Unspent, Pending
    <3>3. PICK d, h : d = coins[c] /\ h = ImportHeight(i)
      OBVIOUS
    <3>4. PICK e : e = [d EXCEPT !.spent = h, !.by = t]
      OBVIOUS
    <3>5. /\ e \in [mint : Nat \cup {Pending, Conflicting, Expired},
                    spent : Nat \cup {Pending, Unspent}, by : Txs \cup {NoTx}]
          /\ e.spent = h /\ e.by = t
      BY <2>1, <3>1, <3>3, <3>4 DEF CoinDoc
    <3>6. e \in CoinDoc
      BY <3>2, <3>3, <3>5 DEF CoinDoc
    <3> QED
      BY <3>3, <3>4, <3>6
  <2>3. ASSUME NEW c \in Coins
        PROVE  coins'[c] \in CoinDoc \cup {NoDoc}
    <3>1. PICK spenders : spenders = {t \in Txs : InBatch(i, t) /\ c \in L!Spends(t)}
      OBVIOUS
    <3>2. coins'[c] = IF MaySpend(c) /\ spenders # {}
                      THEN [coins[c] EXCEPT !.spent = ImportHeight(i),
                                            !.by = CHOOSE t \in spenders : TRUE]
                      ELSE coins[c]
      BY <1>4, <3>1 DEF ImportSpend
    <3>3. spenders # {} => (CHOOSE t \in spenders : TRUE) \in Txs
      BY <3>1
    <3> QED
      BY <1>1, <2>2, <3>2, <3>3 DEF MaySpend
  <2> QED
    BY <1>4, <2>3 DEF ImportSpend
<1> QED
  BY <1>2, <1>3, <1>4

LEMMA TxsTyped ==
  ASSUME TypeInv, NEW i \in Importers, Invalidate(i) \/ ImportTx(i)
  PROVE  /\ txs' = [t \in Txs |-> txs'[t]]
         /\ \A t \in Txs : Seen(t)' =>
              txs'[t] \in [height : Nat \cup {Pending, Conflicting, Expired},
                           replacedBy : {txs'[t].replacedBy}]
<1>1. /\ txs = [t \in Txs |-> txs[t]]
      /\ \A t \in Txs : Seen(t) =>
           txs[t] \in [height : Nat \cup {Pending, Conflicting, Expired},
                       replacedBy : {txs[t].replacedBy}]
  BY DEF TypeInv, DocsTyped
<1>2. CASE Invalidate(i)
  <2>1. PICK v, r : txs' = IF Seen(v)
                           THEN [txs EXCEPT ![v] = [height |-> Conflicting, replacedBy |-> r]]
                           ELSE txs
    BY <1>2 DEF Invalidate
  <2> QED
    BY <1>1, <2>1 DEF Seen, Conflicting
<1>3. CASE ImportTx(i)
  <2>1. ImportHeight(i) \in Nat \cup {Pending}
    BY <1>3, HeightTyped DEF ImportTx
  <2>2. ASSUME NEW t \in Txs
        PROVE  \/ txs'[t] = txs[t]
               \/ txs'[t] = [height |-> ImportHeight(i), replacedBy |-> NoTx]
               \/ Seen(t) /\ txs'[t] = [txs[t] EXCEPT !.height = ImportHeight(i)]
    BY <1>3 DEF ImportTx
  <2>3. ASSUME NEW t \in Txs, Seen(t)'
        PROVE  txs'[t] \in [height : Nat \cup {Pending, Conflicting, Expired},
                            replacedBy : {txs'[t].replacedBy}]
    <3>1. CASE txs'[t] = txs[t]
      BY <1>1, <2>3, <3>1 DEF Seen
    <3>2. CASE txs'[t] = [height |-> ImportHeight(i), replacedBy |-> NoTx]
      BY <2>1, <3>2
    <3>3. CASE Seen(t) /\ txs'[t] = [txs[t] EXCEPT !.height = ImportHeight(i)]
      <4>1. txs[t] \in [height : Nat \cup {Pending, Conflicting, Expired},
                        replacedBy : {txs[t].replacedBy}]
        BY <1>1, <3>3
      <4> QED
        BY <2>1, <3>3, <4>1
    <3> QED
      BY <2>2, <3>1, <3>2, <3>3
  <2>4. txs' = [t \in Txs |-> txs'[t]]
    BY <1>3 DEF ImportTx
  <2> QED
    BY <2>3, <2>4
<1> QED
  BY <1>2, <1>3

\* An import goes on to its next step.
Moves(i, pc) ==
  /\ imp' = [j \in Importers |-> imp'[j]]
  /\ \A j \in Importers \ {i} : imp'[j] = imp[j]
  /\ imp'[i] \in [pc : {pc}, todo : {imp'[i].todo}, victim : {imp'[i].victim}]

LEMMA ImportMoves ==
  ASSUME ImpTyped, NEW i \in Importers
  PROVE  /\ \A pc, todo : imp' = [imp EXCEPT ![i].pc = pc, ![i].todo = todo] => Moves(i, pc)
         /\ \A pc, victim : imp' = [imp EXCEPT ![i].pc = pc, ![i].victim = victim] => Moves(i, pc)
         /\ \A pc : imp' = [imp EXCEPT ![i].pc = pc] => Moves(i, pc)
         /\ Pruned(i) => \E pc \in {"spend", "prune"} : Moves(i, pc)
<1>1. /\ imp = [j \in Importers |-> imp[j]]
      /\ imp[i] \in [pc : ImportSteps, todo : {imp[i].todo}, victim : {imp[i].victim}]
  BY DEF ImpTyped
<1>2. ASSUME NEW r, NEW pc, imp' = [imp EXCEPT ![i] = r],
             r \in [pc : {pc}, todo : {r.todo}, victim : {r.victim}]
      PROVE  Moves(i, pc)
  BY <1>1, <1>2 DEF Moves
<1>3. ASSUME NEW pc, NEW todo, imp' = [imp EXCEPT ![i].pc = pc, ![i].todo = todo]
      PROVE  Moves(i, pc)
  <2>1. PICK r : r = [imp[i] EXCEPT !.pc = pc, !.todo = todo]
    OBVIOUS
  <2>2. r \in [pc : {pc}, todo : {r.todo}, victim : {r.victim}]
    BY <1>1, <2>1
  <2>3. imp' = [imp EXCEPT ![i] = r]
    BY <1>1, <1>3, <2>1
  <2> QED
    BY <1>2, <2>2, <2>3
<1>4. ASSUME NEW pc, NEW victim, imp' = [imp EXCEPT ![i].pc = pc, ![i].victim = victim]
      PROVE  Moves(i, pc)
  <2>1. PICK r : r = [imp[i] EXCEPT !.pc = pc, !.victim = victim]
    OBVIOUS
  <2>2. r \in [pc : {pc}, todo : {r.todo}, victim : {r.victim}]
    BY <1>1, <2>1
  <2>3. imp' = [imp EXCEPT ![i] = r]
    BY <1>1, <1>4, <2>1
  <2> QED
    BY <1>2, <2>2, <2>3
<1>5. ASSUME NEW pc, imp' = [imp EXCEPT ![i].pc = pc]
      PROVE  Moves(i, pc)
  <2>1. PICK r : r = [imp[i] EXCEPT !.pc = pc]
    OBVIOUS
  <2>2. r \in [pc : {pc}, todo : {r.todo}, victim : {r.victim}]
    BY <1>1, <2>1
  <2>3. imp' = [imp EXCEPT ![i] = r]
    BY <1>1, <1>5, <2>1
  <2> QED
    BY <1>2, <2>2, <2>3
<1>6. ASSUME Pruned(i)
      PROVE  \E pc \in {"spend", "prune"} : Moves(i, pc)
  <2>1. PICK todo, pc : /\ todo = imp[i].todo \ {Upcoming(imp[i].todo)}
                        /\ pc = IF todo = {} THEN "spend" ELSE "prune"
    OBVIOUS
  <2>2. PICK r : r = [imp[i] EXCEPT !.todo = todo, !.victim = NoTx, !.pc = pc]
    OBVIOUS
  <2>3. r \in [pc : {pc}, todo : {r.todo}, victim : {r.victim}]
    BY <1>1, <2>2
  <2>4. imp' = [imp EXCEPT ![i].todo = todo, ![i].victim = NoTx, ![i].pc = pc]
    BY <1>6, <2>1 DEF Pruned
  <2>5. imp' = [imp EXCEPT ![i] = r]
    BY <1>1, <2>2, <2>4
  <2> QED
    BY <1>2, <2>1, <2>3, <2>5
<1> QED
  BY <1>3, <1>4, <1>5, <1>6

LEMMA NextOfImport ==
  ASSUME ImpTyped, NEW i \in Importers, Import(i)
  PROVE  /\ imp[i].pc # "off" /\ blocks' = blocks
         /\ \/ sync' = sync /\ \E pc \in {"prune", "invalidate", "spend", "doc"} : Moves(i, pc)
            \/ i = Syncer /\ sync' = [sync EXCEPT !.pc = "processed"] /\ Moves(i, "off")
            \/ i # Syncer /\ sync' = sync /\ Moves(i, "done")
<1>1. CASE ImportMint(i)
  <2>1. imp[i].pc = "mint" /\ blocks' = blocks /\ sync' = sync
    BY <1>1 DEF ImportMint, Rest
  <2>2. PICK pc \in {"prune", "spend"} :
          \E todo : imp' = [imp EXCEPT ![i].pc = pc, ![i].todo = todo]
    BY <1>1 DEF ImportMint
  <2>3. Moves(i, pc)
    BY <2>2, ImportMoves
  <2> QED
    BY <2>1, <2>3
<1>2. CASE PruneFind(i)
  <2>1. imp[i].pc = "prune" /\ blocks' = blocks /\ sync' = sync
    BY <1>2 DEF PruneFind, Rest
  <2>2. \/ \E v : imp' = [imp EXCEPT ![i].pc = "invalidate", ![i].victim = v]
        \/ Pruned(i)
    BY <1>2 DEF PruneFind
  <2>3. \E pc \in {"prune", "invalidate", "spend", "doc"} : Moves(i, pc)
    BY <2>2, ImportMoves
  <2> QED
    BY <2>1, <2>3
<1>3. CASE Invalidate(i)
  <2>1. imp[i].pc = "invalidate" /\ blocks' = blocks /\ sync' = sync
    BY <1>3 DEF Invalidate, Rest
  <2>2. Pruned(i)
    BY <1>3 DEF Invalidate
  <2>3. \E pc \in {"prune", "invalidate", "spend", "doc"} : Moves(i, pc)
    BY <2>2, ImportMoves
  <2> QED
    BY <2>1, <2>3
<1>4. CASE ImportSpend(i)
  <2>1. imp[i].pc = "spend" /\ blocks' = blocks /\ sync' = sync
    BY <1>4 DEF ImportSpend, Rest
  <2>2. Moves(i, "doc")
    BY <1>4, ImportMoves DEF ImportSpend
  <2> QED
    BY <2>1, <2>2
<1>5. CASE ImportTx(i)
  <2>1. imp[i].pc = "doc" /\ blocks' = blocks
    BY <1>5 DEF ImportTx, Rest
  <2>2. CASE i = Syncer
    <3>1. imp' = [imp EXCEPT ![i].pc = "off"] /\ sync' = [sync EXCEPT !.pc = "processed"]
      BY <1>5, <2>2 DEF ImportTx
    <3> QED
      BY <2>1, <2>2, <3>1, ImportMoves
  <2>3. CASE i # Syncer
    <3>1. imp' = [imp EXCEPT ![i].pc = "done"] /\ sync' = sync
      BY <1>5, <2>3 DEF ImportTx
    <3> QED
      BY <2>1, <2>3, <3>1, ImportMoves
  <2> QED
    BY <2>2, <2>3
<1> QED
  BY <1>1, <1>2, <1>3, <1>4, <1>5 DEF Import

LEMMA MovedTyped ==
  ASSUME ImpTyped, NEW i \in Importers, NEW pc \in ImportSteps, Moves(i, pc),
         i = Syncer => pc # "done" /\ (sync'.pc = "import" <=> pc # "off"),
         i # Syncer => (sync'.pc = "import" <=> sync.pc = "import")
  PROVE  ImpTyped'
<1>1. Syncer \in Importers
  BY DEF Importers
<1>2. ASSUME NEW j \in Importers
      PROVE  imp'[j] \in [pc : ImportSteps, todo : {imp'[j].todo}, victim : {imp'[j].victim}]
  <2>1. CASE j = i
    BY <2>1 DEF Moves
  <2>2. CASE j # i
    BY <2>2 DEF Moves, ImpTyped
  <2> QED
    BY <2>1, <2>2
<1>3. imp'[i].pc = pc
  BY DEF Moves
<1>4. i # Syncer => imp'[Syncer] = imp[Syncer]
  BY <1>1 DEF Moves
<1>5. imp' = [j \in Importers |-> imp'[j]]
  BY DEF Moves
<1> QED
  BY <1>2, <1>3, <1>4, <1>5 DEF ImpTyped

LEMMA ImportersTyped ==
  ASSUME TypeInv, NEW i \in Importers, Import(i)
  PROVE  SyncTyped' /\ ImpTyped'
<1>1. imp[i].pc # "off" /\ blocks' = blocks
  BY NextOfImport DEF TypeInv
<1>2. i = Syncer => sync.pc = "import"
  BY <1>1 DEF TypeInv, ImpTyped
<1>3. CASE sync' = sync
  <2>1. SyncTyped'
    BY <1>1, <1>3 DEF TypeInv, SyncTyped, Stored, Current
  <2>2. CASE \E pc \in {"prune", "invalidate", "spend", "doc"} : Moves(i, pc)
    BY <1>2, <1>3, <2>1, <2>2, MovedTyped DEF TypeInv, ImportSteps
  <2>3. CASE i # Syncer /\ Moves(i, "done")
    BY <1>3, <2>1, <2>3, MovedTyped DEF TypeInv, ImportSteps
  <2>4. CASE i = Syncer /\ sync' = [sync EXCEPT !.pc = "processed"]
    BY <1>2, <1>3, <2>4 DEF TypeInv, SyncTyped
  <2> QED
    BY <2>2, <2>3, <2>4, NextOfImport DEF TypeInv
<1>4. CASE i = Syncer /\ sync' = [sync EXCEPT !.pc = "processed"] /\ Moves(i, "off")
  <2>1. GoesTo("processed", sync.queue)
    BY <1>4, SetStep DEF TypeInv
  <2>2. sync.queue # <<>> /\ blocks'[Head(sync.queue)] # NoDoc
    BY <1>1, <1>2, <1>4 DEF TypeInv, SyncTyped, Working, Storing, Stored, Current
  <2>3. SyncTyped'
    BY <2>1, <2>2, StoringTyped DEF TypeInv, Storing
  <2>4. ImpTyped'
    BY <1>4, <2>1, MovedTyped DEF TypeInv, ImportSteps, GoesTo
  <2> QED
    BY <2>3, <2>4
<1> QED
  BY <1>3, <1>4, NextOfImport DEF TypeInv

LEMMA ImportTyped ==
  ASSUME TypeInv, NEW i \in Importers, Import(i)
  PROVE  TypeInv'
<1>1. blocks' = blocks /\ best' = best /\ late' = late
  BY DEF Import, ImportMint, PruneFind, Invalidate, ImportSpend, ImportTx, Rest, net
<1>2. coins' \in [Coins -> CoinDoc \cup {NoDoc}]
  <2>1. CASE ImportMint(i) \/ Invalidate(i) \/ ImportSpend(i)
    BY <2>1, CoinsTyped
  <2>2. CASE PruneFind(i) \/ ImportTx(i)
    BY <2>2 DEF PruneFind, ImportTx, TypeInv, DocsTyped
  <2> QED
    BY <2>1, <2>2 DEF Import
<1>3. /\ txs' = [t \in Txs |-> txs'[t]]
      /\ \A t \in Txs : Seen(t)' =>
           txs'[t] \in [height : Nat \cup {Pending, Conflicting, Expired},
                        replacedBy : {txs'[t].replacedBy}]
  <2>1. CASE Invalidate(i) \/ ImportTx(i)
    BY <2>1, TxsTyped
  <2>2. CASE ImportMint(i) \/ PruneFind(i) \/ ImportSpend(i)
    BY <2>2 DEF ImportMint, PruneFind, ImportSpend, TypeInv, DocsTyped, Seen
  <2> QED
    BY <2>1, <2>2 DEF Import
<1>4. DocsTyped' /\ NetTyped'
  BY <1>1, <1>2, <1>3 DEF TypeInv, DocsTyped, NetTyped
<1> QED
  BY <1>4, ImportersTyped DEF TypeInv

LEMMA OutsideTyped ==
  ASSUME TypeInv,
         \/ \E t \in Relayed : Relay(t)
         \/ \E b \in Blocks : Switch(b)
         \/ Announcement \/ RecordSynced \/ Crash \/ UNCHANGED vars
  PROVE  TypeInv'
<1>1. SameDocs
  BY DEF SameDocs, Relay, Switch, Announcement, RecordSynced, Crash, vars, db
<1>2. DocsTyped'
  BY <1>1, KeepDocs DEF TypeInv
<1>3. ASSUME NEW t \in Relayed, Relay(t)
      PROVE  TypeInv'
  <2>1. sync' = sync /\ best' = best /\ late' = late
    BY <1>3 DEF Relay, net
  <2>2. t \in Importers /\ t # Syncer
    BY IndexAssumption DEF Importers
  <2>3. Moves(t, "mint")
    BY <1>3, <2>2, ImportMoves DEF Relay, TypeInv
  <2>4. ImpTyped'
    BY <2>1, <2>2, <2>3, MovedTyped DEF TypeInv, ImportSteps
  <2>5. SyncTyped' /\ NetTyped'
    BY <1>1, <2>1 DEF TypeInv, SyncTyped, NetTyped, SameDocs, Stored, Current
  <2> QED
    BY <1>2, <2>4, <2>5 DEF TypeInv
<1>4. ASSUME NEW b \in Blocks, Switch(b)
      PROVE  TypeInv'
  <2>1. sync' = sync /\ imp' = imp /\ late' = late /\ best' = b
    BY <1>4 DEF Switch
  <2> QED
    BY <1>1, <1>2, <2>1 DEF TypeInv, SyncTyped, ImpTyped, NetTyped, SameDocs, Stored, Current
<1>5. CASE Announcement
  <2>1. imp' = imp /\ late' = late /\ best' = best
    BY <1>5 DEF Announcement
  <2>2. CASE sync' = sync
    BY <1>1, <1>2, <2>1, <2>2
       DEF TypeInv, SyncTyped, ImpTyped, NetTyped, SameDocs, Stored, Current
  <2>3. CASE sync.pc = "idle" /\ sync' = [sync EXCEPT !.pc = "begin"]
    <3>1. GoesTo("begin", sync.queue)
      BY <2>3, SetStep DEF TypeInv
    <3>2. SyncTyped'
      BY <3>1, OutOfWork DEF TypeInv, SyncTyped, SyncSteps, Working, Storing
    <3>3. ImpTyped' /\ NetTyped'
      BY <2>1, <2>3, <3>1, KeepImp, KeepNet DEF TypeInv, SameImp, SameNet, GoesTo
    <3> QED
      BY <1>2, <3>2, <3>3 DEF TypeInv
  <2> QED
    BY <1>5, <2>2, <2>3 DEF Announcement
<1>6. CASE Crash
  <2>1. sync' = [pc |-> "begin", queue |-> <<>>, left |-> {}, from |-> 0]
    BY <1>6 DEF Crash
  <2>2. SyncTyped'
    BY <2>1 DEF SyncTyped, SyncSteps, Working, Storing
  <2>3. imp' = [i \in Importers |-> [pc |-> "off", todo |-> {}, victim |-> NoTx]]
    BY <1>6 DEF Crash
  <2>4. ImpTyped'
    BY <2>1, <2>3 DEF ImpTyped, ImportSteps, Importers
  <2>5. NetTyped'
    BY <1>6 DEF Crash, NetTyped, TypeInv
  <2> QED
    BY <1>2, <2>2, <2>4, <2>5 DEF TypeInv
<1>7. CASE RecordSynced \/ UNCHANGED vars
  BY <1>2, <1>7 DEF RecordSynced, net, vars, TypeInv, SyncTyped, ImpTyped, NetTyped, Stored, Current
<1> QED
  BY <1>3, <1>4, <1>5, <1>6, <1>7

LEMMA StepTyped ==
  TypeInv /\ [Next]_vars => TypeInv'
BY AskingTyped, RollbackTyped, BlockWritesTyped, ImportTyped, OutsideTyped
   DEF Next, SyncStep

\* Every document, every import and the sync itself are typed at every moment,
\* and a block that is being stored has its document.
THEOREM TypesKept == Spec => []TypeInv
  BY InitTyped, StepTyped, PTL DEF Spec

\* Nothing expires without the pruning service.
NothingExpired ==
  /\ \A c \in Coins : Known(c) => coins[c].mint # Expired
  /\ \A t \in Txs : Seen(t) => txs[t].height # Expired

LEMMA HeightNotExpired ==
  ASSUME TypeInv, NEW i \in Importers, imp[i].pc # "off"
  PROVE  ImportHeight(i) # Expired
BY HeightTyped DEF Expired, Pending

LEMMA CoinsNotExpired ==
  ASSUME TypeInv, NothingExpired, [Next]_vars, NEW c \in Coins, Known(c)'
  PROVE  coins'[c].mint # Expired
<1>1. coins[c] # NoDoc => coins[c] \in CoinDoc /\ coins[c].mint # Expired
  BY DEF TypeInv, DocsTyped, NothingExpired, Known
<1>2. CASE coins'[c] = coins[c]
  BY <1>1, <1>2 DEF Known
<1>3. CASE DeleteCoins \/ Unspend
  <2>1. \/ coins'[c] = NoDoc \/ coins'[c] = coins[c]
        \/ coins[c] # NoDoc /\ coins'[c] = [coins[c] EXCEPT !.spent = Unspent, !.by = NoTx]
    BY <1>3 DEF DeleteCoins, Unspend, Known, GivenBack
  <2>2. CASE coins[c] # NoDoc /\ coins'[c] = [coins[c] EXCEPT !.spent = Unspent, !.by = NoTx]
    BY <1>1, <2>2 DEF CoinDoc
  <2> QED
    BY <1>2, <2>1, <2>2 DEF Known
<1>4. ASSUME NEW i \in Importers, Import(i)
      PROVE  coins'[c].mint # Expired
  <2>1. CASE ImportMint(i)
    <3>1. coins'[c] = coins[c] \/ coins'[c] = Mint(i, c)
      BY <2>1 DEF ImportMint
    <3>2. ImportHeight(i) # Expired
      BY <2>1, HeightNotExpired DEF ImportMint
    <3>3. CASE coins[c] = NoDoc /\ coins'[c] = Mint(i, c)
      BY <3>2, <3>3 DEF Mint, Known
    <3>4. CASE coins[c] # NoDoc /\ coins'[c] = Mint(i, c)
      BY <1>1, <3>2, <3>4 DEF Mint, Known, CoinDoc
    <3> QED
      BY <1>2, <3>1, <3>3, <3>4
  <2>2. CASE Invalidate(i)
    <3>1. \/ coins'[c] = NoDoc \/ coins'[c] = coins[c]
          \/ coins[c] # NoDoc /\ coins'[c] = [coins[c] EXCEPT !.mint = Conflicting]
          \/ coins[c] # NoDoc /\ coins'[c] = [coins[c] EXCEPT !.spent = Unspent, !.by = NoTx]
      BY <2>2 DEF Invalidate, Known
    <3>2. CASE coins[c] # NoDoc /\ coins'[c] = [coins[c] EXCEPT !.mint = Conflicting]
      <4>1. coins'[c].mint = Conflicting
        BY <1>1, <3>2 DEF CoinDoc
      <4> QED
        BY <4>1 DEF Conflicting, Expired
    <3>3. CASE coins[c] # NoDoc /\ coins'[c] = [coins[c] EXCEPT !.spent = Unspent, !.by = NoTx]
      BY <1>1, <3>3 DEF CoinDoc
    <3> QED
      BY <1>2, <3>1, <3>2, <3>3 DEF Known
  <2>3. CASE ImportSpend(i)
    <3>1. PICK h, t : \/ coins'[c] = coins[c]
                      \/ coins[c] # NoDoc /\ coins'[c] = [coins[c] EXCEPT !.spent = h, !.by = t]
      BY <2>3 DEF ImportSpend, MaySpend, Known
    <3> QED
      BY <1>1, <1>2, <3>1 DEF CoinDoc
  <2>4. CASE PruneFind(i) \/ ImportTx(i)
    BY <1>2, <2>4 DEF PruneFind, ImportTx
  <2> QED
    BY <1>4, <2>1, <2>2, <2>3, <2>4 DEF Import
<1> QED
  <2>1. CASE \/ Begin \/ AskGenesis \/ Ask \/ AddBlock \/ DeleteBlocks \/ DeleteTxs
             \/ Store \/ Link \/ MarkProcessed
    BY <1>2, <2>1 DEF Begin, AskGenesis, Ask, AddBlock, DeleteBlocks, DeleteTxs, Store, Link,
                      MarkProcessed, db
  <2>2. CASE \/ \E t \in Relayed : Relay(t)
             \/ \E b \in Blocks : Switch(b)
             \/ Announcement \/ RecordSynced \/ Crash \/ UNCHANGED vars
    BY <1>2, <2>2 DEF Relay, Switch, Announcement, RecordSynced, Crash, db, vars
  <2> QED
    BY <1>3, <1>4, <2>1, <2>2 DEF Next, SyncStep

LEMMA TxsNotExpired ==
  ASSUME TypeInv, NothingExpired, [Next]_vars, NEW t \in Txs, Seen(t)'
  PROVE  txs'[t].height # Expired
<1>1. txs[t] # NoDoc =>
        /\ txs[t].height # Expired
        /\ txs[t] \in [height : Nat \cup {Pending, Conflicting, Expired},
                       replacedBy : {txs[t].replacedBy}]
  BY DEF TypeInv, DocsTyped, NothingExpired, Seen
<1>2. CASE txs'[t] = txs[t]
  BY <1>1, <1>2 DEF Seen
<1>3. CASE DeleteTxs
  BY <1>1, <1>3 DEF DeleteTxs, Seen
<1>4. ASSUME NEW i \in Importers, Import(i)
      PROVE  txs'[t].height # Expired
  <2>1. CASE ImportTx(i)
    <3>1. ImportHeight(i) # Expired
      BY <2>1, HeightNotExpired DEF ImportTx
    <3>2. \/ txs'[t] = txs[t]
          \/ txs'[t] = [height |-> ImportHeight(i), replacedBy |-> NoTx]
          \/ txs[t] # NoDoc /\ txs'[t] = [txs[t] EXCEPT !.height = ImportHeight(i)]
      BY <2>1 DEF ImportTx, Seen
    <3> QED
      BY <1>1, <1>2, <3>1, <3>2
  <2>2. CASE Invalidate(i)
    <3>1. PICK v, r : txs' = IF Seen(v)
                             THEN [txs EXCEPT ![v] = [height |-> Conflicting, replacedBy |-> r]]
                             ELSE txs
      BY <2>2 DEF Invalidate
    <3>2. txs = [u \in Txs |-> txs[u]]
      BY DEF TypeInv, DocsTyped
    <3>3. txs'[t] = txs[t] \/ txs'[t] = [height |-> Conflicting, replacedBy |-> r]
      BY <3>1, <3>2
    <3> QED
      BY <1>2, <3>3 DEF Conflicting, Expired
  <2>3. CASE ImportMint(i) \/ PruneFind(i) \/ ImportSpend(i)
    BY <1>2, <2>3 DEF ImportMint, PruneFind, ImportSpend
  <2> QED
    BY <1>4, <2>1, <2>2, <2>3 DEF Import
<1> QED
  <2>1. CASE \/ Begin \/ AskGenesis \/ Ask \/ AddBlock \/ DeleteBlocks \/ DeleteCoins \/ Unspend
             \/ Store \/ Link \/ MarkProcessed
    BY <1>2, <2>1 DEF Begin, AskGenesis, Ask, AddBlock, DeleteBlocks, DeleteCoins, Unspend,
                      Store, Link, MarkProcessed, db
  <2>2. CASE \/ \E u \in Relayed : Relay(u)
             \/ \E b \in Blocks : Switch(b)
             \/ Announcement \/ RecordSynced \/ Crash \/ UNCHANGED vars
    BY <1>2, <2>2 DEF Relay, Switch, Announcement, RecordSynced, Crash, db, vars
  <2> QED
    BY <1>3, <1>4, <2>1, <2>2 DEF Next, SyncStep

\* The types that validateDataForBlock takes for granted.
THEOREM TypeCorrect == Spec => []TypeOK
<1>1. Init => NothingExpired
  BY DEF Init, NothingExpired, Known, Seen
<1>2. TypeInv /\ NothingExpired /\ [Next]_vars => NothingExpired'
  BY CoinsNotExpired, TxsNotExpired DEF NothingExpired
<1>3. TypeInv /\ NothingExpired => TypeOK
  <2> SUFFICES ASSUME TypeInv, NothingExpired PROVE TypeOK
    OBVIOUS
  <2>1. \A b \in Blocks : Stored(b) =>
          blocks[b] \in [height : Nat, next : Blocks \cup {NoBlock}, processed : BOOLEAN]
    BY DEF TypeInv, DocsTyped, Stored, Doc
  <2>2. \A c \in Coins : Known(c) => coins[c] \in CoinDoc /\ coins[c].mint # Expired
    BY DEF TypeInv, DocsTyped, Known, NothingExpired
  <2>3. \A c \in Coins : Known(c) =>
          /\ coins[c].mint \in Nat \cup {Pending, Conflicting}
          /\ coins[c].spent \in Nat \cup {Pending, Unspent}
          /\ (coins[c].by = NoTx) = (coins[c].spent = Unspent)
    BY <2>2 DEF CoinDoc
  <2>4. \A t \in Txs : Seen(t) => txs[t].height \in Nat \cup {Pending, Conflicting}
    BY DEF TypeInv, DocsTyped, NothingExpired
  <2>5. sync.pc \in SyncSteps /\ (sync.pc = "import") = (imp[Syncer].pc # "off")
    BY DEF TypeInv, SyncTyped, ImpTyped
  <2> QED
    BY <2>1, <2>3, <2>4, <2>5 DEF TypeOK, SyncSteps
<1> QED
  BY <1>1, <1>2, <1>3, TypesKept, PTL DEF Spec

-----------------------------------------------------------------------------
(* A confirmed spend.                                                      *)

SpendKept(c) ==
  coins'[c] # NoDoc /\ coins'[c].spent = coins[c].spent /\ coins'[c].by = coins[c].by

LEMMA ImportKeepsSpend ==
  ASSUME TypeInv, NEW i \in Importers, Import(i),
         NEW c \in Coins, Known(c), coins[c].spent >= 0
  PROVE  SpendKept(c)
<1>1. coins[c] \in CoinDoc
  BY DEF TypeInv, DocsTyped, Known
<1>2. coins[c] # NoDoc /\ coins[c].spent # Pending
  BY DEF Known, Pending
<1>3. ASSUME NEW h PROVE [coins[c] EXCEPT !.mint = h] # NoDoc
  <2>1. DOMAIN [coins[c] EXCEPT !.mint = h] = {"mint", "spent", "by"}
    BY <1>1 DEF CoinDoc
  <2> QED
    BY <2>1 DEF NoDoc
<1>4. ASSUME NEW h PROVE LET d == [coins[c] EXCEPT !.mint = h]
                         IN  d.spent = coins[c].spent /\ d.by = coins[c].by
  BY <1>1 DEF CoinDoc
<1>5. coins'[c] = coins[c] \/ \E h : coins'[c] = [coins[c] EXCEPT !.mint = h]
  <2>1. CASE ImportMint(i)
    BY <2>1 DEF ImportMint, Mint
  <2>2. CASE Invalidate(i)
    BY <1>2, <2>2 DEF Invalidate
  <2>3. CASE ImportSpend(i)
    <3>1. ~ MaySpend(c)
      <4>1. coins[c].spent \in Int
        BY <1>1 DEF CoinDoc, Pending, Unspent
      <4> QED
        BY <4>1 DEF MaySpend
    <3> QED
      BY <2>3, <3>1 DEF ImportSpend
  <2>4. CASE PruneFind(i) \/ ImportTx(i)
    BY <2>4 DEF PruneFind, ImportTx
  <2> QED
    BY <2>1, <2>2, <2>3, <2>4 DEF Import
<1> QED
  BY <1>2, <1>3, <1>4, <1>5 DEF SpendKept

LEMMA StepKeepsSpend ==
  ASSUME TypeInv, [Next]_vars, NEW c \in Coins, Known(c), coins[c].spent >= 0,
         coins[c] # coins'[c]
  PROVE  sync.pc \in {"reorg", "unspend"} \/ SpendKept(c)
<1>1. CASE \E i \in Importers : Import(i)
  BY <1>1, ImportKeepsSpend
<1>2. CASE DeleteCoins \/ Unspend
  BY <1>2 DEF DeleteCoins, Deleted, Unspend
<1>3. CASE Begin \/ AskGenesis \/ Ask \/ AddBlock \/ DeleteBlocks \/ DeleteTxs
  BY <1>3 DEF Begin, AskGenesis, Ask, AddBlock, DeleteBlocks, DeleteTxs, db
<1>4. CASE Store \/ Link \/ MarkProcessed
  BY <1>4 DEF Store, Link, MarkProcessed
<1>5. CASE \/ \E t \in Relayed : Relay(t)
           \/ \E b \in Blocks : Switch(b)
           \/ Announcement \/ RecordSynced \/ Crash \/ UNCHANGED vars
  BY <1>5 DEF Relay, Switch, Announcement, RecordSynced, Crash, vars, db
<1> QED
  BY <1>1, <1>2, <1>3, <1>4, <1>5 DEF Next, SyncStep

\* Nothing but a rollback takes a confirmed spend away: not the import of another
\* block, no late transaction of the mempool and no replacement of one.
THEOREM SpendsKept == Spec => ConfirmedSpendKept
<1>1. TypeInv /\ [Next]_vars =>
        [\A c \in Coins :
           (Known(c) /\ coins[c].spent >= 0 /\ coins[c] # coins'[c]) =>
             \/ sync.pc \in {"reorg", "unspend"}
             \/ coins'[c] # NoDoc /\ coins'[c].spent = coins[c].spent
                                  /\ coins'[c].by = coins[c].by]_vars
  BY StepKeepsSpend DEF SpendKept
<1> QED
  BY <1>1, TypesKept, PTL DEF Spec, ConfirmedSpendKept
-----------------------------------------------------------------------------
(* The tip and the tree of blocks.                                         *)

\* The processed blocks of a collection of blocks are the chain of p, and every
\* block of it has its height.
Holds(docs, p) ==
  /\ p \in Blocks \cup {NoBlock}
  /\ {b \in Blocks : docs[b] # NoDoc /\ docs[b].processed} = L!Chain(p)
  /\ \A b \in Blocks : docs[b] # NoDoc => docs[b].height = L!Height(b)

TipOf(docs) ==
  LET processed == {b \in Blocks : docs[b] # NoDoc /\ docs[b].processed}
  IN IF processed = {} THEN NoBlock
     ELSE CHOOSE b \in processed : \A d \in processed : docs[d].height <= docs[b].height

LEMMA TipIs ==
  LocalTip = TipOf(blocks) /\ LocalTip' = TipOf(blocks')
BY DEF LocalTip, Processed, Stored, TipOf

\* The highest processed block is the end of the chain.
LEMMA TipOfChain ==
  ASSUME NEW docs, NEW p, Holds(docs, p)
  PROVE  TipOf(docs) = p
<1>1. PICK processed : processed = {b \in Blocks : docs[b] # NoDoc /\ docs[b].processed}
  OBVIOUS
<1>2. TipOf(docs) = IF processed = {} THEN NoBlock
                    ELSE CHOOSE b \in processed :
                           \A d \in processed : docs[d].height <= docs[b].height
  BY <1>1 DEF TipOf
<1>3. p \in Blocks \cup {NoBlock} /\ processed = L!Chain(p)
  BY <1>1 DEF Holds
<1>4. CASE p = NoBlock
  BY <1>2, <1>3, <1>4, ChainOfGenesis
<1>5. CASE p \in Blocks
  <2>1. p \in processed /\ processed \subseteq Blocks
    BY <1>3, <1>5, ChainMembers
  <2>2. \A b \in processed : docs[b].height = L!Height(b)
    BY <1>1 DEF Holds
  <2>3. \A b \in processed : /\ L!Height(b) \in Nat /\ L!Height(b) <= L!Height(p)
                             /\ L!Height(b) = L!Height(p) => b = p
    BY <1>3, <1>5, HighestOfChain
  <2>4. \A d \in processed : docs[d].height <= docs[p].height
    BY <2>1, <2>2, <2>3
  <2>5. ASSUME NEW b \in processed, \A d \in processed : docs[d].height <= docs[b].height
        PROVE  b = p
    BY <2>1, <2>2, <2>3, <2>5
  <2>6. PICK x : x = CHOOSE b \in processed :
                       \A d \in processed : docs[d].height <= docs[b].height
    OBVIOUS
  <2>7. x \in processed /\ \A d \in processed : docs[d].height <= docs[x].height
    BY <2>1, <2>4, <2>6
  <2>8. x = p
    BY <2>5, <2>7
  <2> QED
    BY <1>2, <2>1, <2>6, <2>8
<1> QED
  BY <1>3, <1>4, <1>5

AtGenesis(p) == p \in {NoBlock, Genesis}

\* The headers of the queue follow one another.
Line(q) == \A i \in 2 .. Len(q) : q[i] # Genesis /\ Parent[q[i]] = q[i - 1]

\* The first header belongs on the tip p, or forks off below it in a chain that
\* p is not in.
Fits(p, q) ==
  \/ Head(q) = Genesis /\ AtGenesis(p) /\ Len(q) = 1
  \/ Head(q) # Genesis /\ p # NoBlock /\ Parent[Head(q)] = p
Forks(p, q) ==
  /\ Head(q) # Genesis /\ ~ AtGenesis(p) /\ Parent[Head(q)] # p
  /\ p \notin L!Chain(q[Len(q)])

\* The first block of the queue is stored, but not processed.
Half(docs, p, q) ==
  /\ docs[Head(q)] # NoDoc /\ ~ docs[Head(q)].processed
  /\ Fits(p, q) /\ (Head(q) = Genesis => p = NoBlock)

Place(docs, p, pc, q) ==
  /\ pc = "askGenesis" => AtGenesis(p)
  /\ pc = "ask" => p # NoBlock
  /\ pc \in Working => Line(q)
  /\ pc = "add" => Fits(p, q) \/ Forks(p, q)
  /\ pc = "store" => Fits(p, q)
  /\ pc \in Storing => Half(docs, p, q)

TreeInv ==
  /\ Holds(blocks, LocalTip)
  /\ Place(blocks, LocalTip, sync.pc, sync.queue)
  /\ sync.from \in Nat
  /\ best # Genesis /\ late = NoReply /\ repeats \in Nat

\* How the tip may move.
TipStep(p, q) ==
  \/ q = p
  \/ q \in Blocks /\ (IF p = NoBlock THEN q = Genesis ELSE q # Genesis /\ Parent[q] = p)
  \/ p # NoBlock /\ q \in L!Chain(p) \cup {NoBlock}

LEMMA TipSteps ==
  ASSUME TipStep(LocalTip, LocalTip')
  PROVE  [L!Next]_LocalTip
BY DEF TipStep, L!Next, L!Extend, L!Rollback

LEMMA TreeAfter ==
  ASSUME NEW p, Holds(blocks', p), Place(blocks', p, sync'.pc, sync'.queue),
         sync'.from \in Nat, best' # Genesis, late' = NoReply, repeats' \in Nat
  PROVE  TreeInv' /\ LocalTip' = p
<1>1. LocalTip' = p
  BY TipIs, TipOfChain
<1> QED
  BY <1>1 DEF TreeInv

\* A step that leaves the blocks alone leaves the tip where it is.
LEMMA TipRests ==
  ASSUME blocks' = blocks
  PROVE  LocalTip' = LocalTip
BY TipIs

\* Only one peer answers, so the answer is the one to this request.
LEMMA Answered ==
  ASSUME MaxLate = 0, FirstBest # Genesis, TypeInv, TreeInv,
         NEW headers \in Answers, Receive(headers)
  PROVE  headers = HeadersAfter(Locators) /\ late' = NoReply /\ repeats' = repeats
<1>1. headers = HeadersAfter(Locators)
  BY DEF Answers, TreeInv
<1>2. headers \in Seq(Blocks)
  BY ReceivedTyped
<1>3. headers # NoReply
  <2>1. SUFFICES ASSUME headers = NoReply PROVE FALSE
    OBVIOUS
  <2>2. PICK s \in Seq(Blocks) : s = NoReply
    BY <1>2, <2>1
  <2>3. Len(s) = 1 /\ s[1] = NoBlock /\ s[1] \in Blocks
    BY <2>2 DEF NoReply
  <2> QED
    BY <2>3, IndexAssumption
<1>4. late = NoReply /\ ~ (repeats < MaxLate)
  BY DEF TreeInv
<1> QED
  BY <1>1, <1>3, <1>4 DEF Receive

LEMMA TipStored ==
  ASSUME TreeInv, LocalTip # NoBlock
  PROVE  /\ LocalTip \in Blocks /\ Stored(LocalTip)
         /\ blocks[LocalTip].height = L!Height(LocalTip) /\ TipHeight = L!Height(LocalTip)
<1>1. PICK p : p = LocalTip
  OBVIOUS
<1>2. Holds(blocks, p) /\ p \in Blocks
  BY <1>1 DEF TreeInv, Holds
<1>3. p \in L!Chain(p)
  BY <1>2, ChainMembers
<1>4. blocks[p] # NoDoc /\ blocks[p].height = L!Height(p)
  BY <1>2, <1>3 DEF Holds
<1> QED
  BY <1>1, <1>2, <1>4 DEF Stored, TipHeight

LEMMA LowTip ==
  ASSUME TreeInv
  PROVE  (TipHeight = 0) <=> AtGenesis(LocalTip)
<1>1. CASE LocalTip = NoBlock
  BY <1>1 DEF TipHeight, AtGenesis
<1>2. CASE LocalTip # NoBlock
  BY <1>2, TipStored, LowestOfChain, ChainOfGenesis DEF AtGenesis
<1> QED
  BY <1>1, <1>2

LEMMA TipIsLocator ==
  ASSUME TreeInv
  PROVE  /\ AtGenesis(LocalTip) => Locators = {}
         /\ ~ AtGenesis(LocalTip) => LocalTip \in Locators /\ Locators \subseteq L!Chain(LocalTip)
<1>1. PICK p : p = LocalTip
  OBVIOUS
<1>2. p \in Blocks \cup {NoBlock} /\ Processed = L!Chain(p)
  BY <1>1 DEF TreeInv, Holds, Processed, Stored
<1>3. CASE AtGenesis(p)
  <2>1. Cardinality(Processed) < 2
    <3>1. CASE p = NoBlock
      <4>1. Processed = {} /\ Cardinality({}) = 0
        BY <1>2, <3>1, ChainOfGenesis, FS_EmptySet
      <4> QED
        BY <4>1
    <3>2. CASE p = Genesis
      <4>1. Cardinality(Processed) = 0 + 1
        BY <1>2, <3>2, IndexAssumption, ChainCount, ChainOfGenesis
      <4> QED
        BY <4>1
    <3> QED
      BY <1>3, <3>1, <3>2 DEF AtGenesis
  <2> QED
    BY <1>1, <1>3, <2>1 DEF Locators
<1>4. CASE ~ AtGenesis(p)
  <2>1. p \in Blocks /\ p # Genesis
    BY <1>2, <1>4 DEF AtGenesis
  <2>2. ~ (Cardinality(Processed) < 2)
    <3>1. Cardinality(Processed) = L!Height(p) + 1
      BY <1>2, <2>1, ChainCount
    <3>2. L!Height(p) \in Nat /\ L!Height(p) # 0
      BY <2>1, ChainMembers, LowestOfChain
    <3> QED
      BY <3>1, <3>2
  <2>3. Locators = {b \in Processed :
          Cardinality({d \in Processed : blocks[d].height > blocks[b].height}) < LocatorLimit}
    BY <2>2 DEF Locators
  <2>4. {d \in Processed : blocks[d].height > blocks[p].height} = {}
    <3>1. \A d \in Processed : blocks[d].height = L!Height(d) /\ d \in L!Chain(p)
      BY <1>1, <1>2 DEF TreeInv, Holds, Processed, Stored
    <3>2. \A d \in Processed : L!Height(d) \in Nat /\ L!Height(d) <= L!Height(p)
      BY <2>1, <3>1, HighestOfChain
    <3>3. blocks[p].height = L!Height(p) /\ L!Height(p) \in Nat
      BY <1>1, <2>1, TipStored, ChainMembers, IndexAssumption
    <3> QED
      BY <3>1, <3>2, <3>3
  <2>5. p \in Processed
    BY <1>2, <2>1, ChainMembers
  <2>6. 0 < LocatorLimit /\ Cardinality({}) = 0
    BY IndexAssumption, FS_EmptySet
  <2>7. p \in Locators
    BY <2>3, <2>4, <2>5, <2>6
  <2> QED
    BY <1>1, <1>2, <1>4, <2>3, <2>7
<1> QED
  BY <1>1, <1>3, <1>4

\* The headers of an answer: they fit the tip, or they fork off below it.
LEMMA HeadersPlaced ==
  ASSUME TypeInv, TreeInv, NEW headers, headers = HeadersAfter(Locators)
  PROVE  /\ headers \in Seq(Blocks) /\ Line(headers)
         /\ AtGenesis(LocalTip) => headers # <<>> /\ Parent[Head(headers)] = Genesis
         /\ headers # <<>> /\ LocalTip # NoBlock =>
              Fits(LocalTip, headers) \/ Forks(LocalTip, headers)
<1>1. PICK p, chain, locators :
        p = LocalTip /\ chain = L!ChainOf[best] /\ locators = Locators
  OBVIOUS
<1>2. best \in Blocks /\ best # Genesis
  BY DEF TypeInv, NetTyped, TreeInv
<1>3. PICK last : HeadersFrom(headers, locators, last)
  BY <1>1, <1>2, HeadersAreChain
<1>4. /\ chain \in Seq(Blocks) /\ chain[1] = Genesis /\ chain[Len(chain)] = best
      /\ Len(chain) \in Nat /\ Len(chain) # 0
  BY <1>1, <1>2, ChainShape
<1>5. /\ last \in 1 .. Len(chain) /\ headers \in Seq(Blocks)
      /\ Len(headers) = Len(chain) - last
      /\ \A i \in 1 .. Len(headers) : headers[i] = chain[last + i]
      /\ last = 1 \/ chain[last] \in locators
      /\ \A j \in 1 .. Len(chain) : chain[j] \in locators => j <= last
  BY <1>1, <1>3 DEF HeadersFrom
<1>6. ASSUME NEW i \in 1 .. Len(headers)
      PROVE  headers[i] # Genesis /\ Parent[headers[i]] = chain[last + i - 1]
  <2>1. last + i \in 1 .. Len(chain) /\ last + i # 1
    BY <1>4, <1>5
  <2> QED
    BY <1>1, <1>2, <1>5, <2>1, ChainParent
<1>7. Line(headers)
  <2>1. ASSUME NEW i \in 2 .. Len(headers)
        PROVE  headers[i] # Genesis /\ Parent[headers[i]] = headers[i - 1]
    <3>1. i \in 1 .. Len(headers) /\ i - 1 \in 1 .. Len(headers)
      BY <1>5
    <3>2. headers[i - 1] = chain[last + (i - 1)] /\ last + (i - 1) = last + i - 1
      BY <1>5, <3>1
    <3> QED
      BY <1>6, <3>1, <3>2
  <2> QED
    BY <2>1 DEF Line
<1>8. ASSUME AtGenesis(p) PROVE last = 1
  BY <1>1, <1>5, <1>8, TipIsLocator
<1>9. ASSUME AtGenesis(p) PROVE headers # <<>> /\ Parent[Head(headers)] = Genesis
  <2>1. Len(chain) # 1
    BY <1>2, <1>4
  <2>2. Len(headers) # 0
    BY <1>4, <1>5, <1>8, <1>9, <2>1
  <2>3. 1 \in 1 .. Len(headers) /\ Head(headers) = headers[1]
    BY <1>5, <2>2, RestOfQueue
  <2>4. last + 1 - 1 = 1 /\ chain[1] = Genesis
    BY <1>4, <1>8, <1>9
  <2>5. Parent[headers[1]] = chain[last + 1 - 1]
    BY <1>6, <2>3
  <2> QED
    BY <2>2, <2>3, <2>4, <2>5
<1>10. ASSUME headers # <<>>, p # NoBlock
       PROVE  Fits(p, headers) \/ Forks(p, headers)
  <2>1. Len(headers) \in Nat \ {0} /\ Head(headers) = headers[1]
    BY <1>5, <1>10, RestOfQueue
  <2>2. Head(headers) # Genesis /\ Parent[Head(headers)] = chain[last]
    <3>1. 1 \in 1 .. Len(headers) /\ last + 1 - 1 = last
      BY <1>5, <2>1
    <3> QED
      BY <1>6, <2>1, <3>1
  <2>3. CASE chain[last] = p
    BY <1>10, <2>2, <2>3 DEF Fits
  <2>4. CASE chain[last] # p
    <3>1. ~ AtGenesis(p)
      BY <1>4, <1>8, <1>10, <2>4 DEF AtGenesis
    <3>2. p \in locators /\ locators \subseteq L!Chain(p)
      BY <1>1, <3>1, TipIsLocator
    <3>3. p \in Blocks
      BY <1>1, <1>10 DEF TreeInv, Holds
    <3>4. chain[last] \in L!Chain(p)
      BY <1>4, <1>5, <3>2, <3>3, ChainMembers
    <3>5. headers[Len(headers)] = best
      <4>1. Len(headers) \in 1 .. Len(headers) /\ last + Len(headers) = Len(chain)
        BY <1>4, <1>5, <2>1
      <4> QED
        BY <1>4, <1>5, <4>1
    <3>6. p \notin L!Chain(best)
      <4>1. SUFFICES ASSUME p \in L!Chain(best) PROVE FALSE
        OBVIOUS
      <4>2. PICK j \in 1 .. Len(chain) : p = chain[j] /\ j = L!Height(p) + 1
        BY <1>1, <1>2, <4>1, ChainAt
      <4>3. j <= last
        BY <1>5, <3>2, <4>2
      <4>4. L!Height(chain[last]) = last - 1
        BY <1>1, <1>2, <1>5, ChainMembers
      <4>5. L!Height(chain[last]) <= L!Height(p) /\ L!Height(p) \in Nat
        BY <3>3, <3>4, HighestOfChain, ChainMembers
      <4>6. last = j
        BY <1>5, <4>2, <4>3, <4>4, <4>5
      <4> QED
        BY <2>4, <4>2, <4>6
    <3> QED
      BY <2>2, <2>4, <3>1, <3>5, <3>6 DEF Forks
  <2> QED
    BY <2>3, <2>4
<1> QED
  BY <1>1, <1>5, <1>7, <1>9, <1>10

-----------------------------------------------------------------------------
(* The steps and the tree.                                                 *)

OnePeer == MaxLate = 0 /\ FirstBest # Genesis

TreeStep == TreeInv' /\ TipStep(LocalTip, LocalTip')

\* A step that changes neither the blocks nor what the peers answer.
SameTree == blocks' = blocks /\ best' = best /\ late' = late /\ repeats' = repeats

LEMMA PlacedStep ==
  ASSUME TreeInv, blocks' = blocks, NEW pc, NEW q, GoesTo(pc, q),
         Place(blocks, LocalTip, pc, q), sync'.from \in Nat,
         best' # Genesis, late' = NoReply, repeats' \in Nat
  PROVE  TreeStep
<1>1. PICK p : p = LocalTip
  OBVIOUS
<1>2. sync'.pc = pc /\ sync'.queue = q
  BY DEF GoesTo
<1>3. Holds(blocks', p) /\ Place(blocks', p, sync'.pc, sync'.queue)
  BY <1>1, <1>2 DEF TreeInv
<1>4. TreeInv' /\ LocalTip' = p
  BY <1>3, TreeAfter
<1> QED
  BY <1>1, <1>4 DEF TreeStep, TipStep

\* Steps of the sync that say nothing of the tree.
LEMMA PlainStep ==
  ASSUME TreeInv, SameTree, NEW pc, NEW q, GoesTo(pc, q), sync'.from \in Nat,
         pc \notin Working, pc \notin {"askGenesis", "ask"}
  PROVE  TreeStep
BY PlacedStep DEF SameTree, TreeInv, Place, Working, Storing

LEMMA BeginInTree ==
  ASSUME TypeInv, TreeInv, Begin
  PROVE  TreeStep
<1>1. PICK pc : /\ pc = IF TipHeight = 0 THEN "askGenesis" ELSE "ask"
                /\ sync' = [sync EXCEPT !.pc = pc, !.queue = <<>>]
  BY DEF Begin
<1>2. GoesTo(pc, <<>>) /\ sync'.from = sync.from
  BY <1>1, SetStepAndQueue DEF TypeInv, SyncTyped
<1>3. Place(blocks, LocalTip, pc, <<>>)
  BY <1>1, LowTip DEF Place, AtGenesis, Working, Storing
<1>4. blocks' = blocks /\ best' = best /\ late' = late /\ repeats' = repeats
  BY DEF Begin, db, net
<1> QED
  BY <1>2, <1>3, <1>4, PlacedStep DEF TreeInv

LEMMA AskGenesisInTree ==
  ASSUME OnePeer, TypeInv, TreeInv, AskGenesis
  PROVE  TreeStep
<1>1. PICK headers \in Answers :
        /\ Receive(headers)
        /\ sync' = IF headers = <<>> THEN [sync EXCEPT !.pc = "ask"]
                   ELSE [sync EXCEPT !.pc = "add", !.queue = <<Parent[Head(headers)]>>]
  BY DEF AskGenesis
<1>2. headers = HeadersAfter(Locators) /\ late' = NoReply /\ repeats' = repeats
  BY <1>1, Answered DEF OnePeer
<1>3. AtGenesis(LocalTip)
  BY DEF AskGenesis, TreeInv, Place
<1>4. headers # <<>> /\ Parent[Head(headers)] = Genesis
  BY <1>2, <1>3, HeadersPlaced
<1>5. sync' = [sync EXCEPT !.pc = "add", !.queue = <<Genesis>>]
  BY <1>1, <1>4
<1>6. GoesTo("add", <<Genesis>>) /\ sync'.from = sync.from
  BY <1>5, SetStepAndQueue DEF TypeInv, SyncTyped
<1>7. PICK q : q = <<Genesis>>
  OBVIOUS
<1>8. Len(q) = 1 /\ Head(q) = Genesis
  BY <1>7
<1>9. Line(q) /\ Fits(LocalTip, q)
  BY <1>3, <1>8 DEF Line, Fits
<1>10. Place(blocks, LocalTip, "add", <<Genesis>>)
  BY <1>7, <1>9 DEF Place, Storing
<1>11. blocks' = blocks /\ best' = best
  BY DEF AskGenesis, db, net
<1> QED
  BY <1>2, <1>6, <1>10, <1>11, PlacedStep DEF TreeInv

LEMMA AskInTree ==
  ASSUME OnePeer, TypeInv, TreeInv, Ask
  PROVE  TreeStep
<1>1. PICK headers \in Answers :
        /\ Receive(headers)
        /\ \/ headers = <<>> /\ sync' = [sync EXCEPT !.pc = "idle"]
           \/ headers # <<>> /\ sync' = [sync EXCEPT !.pc = "add", !.queue = headers]
  BY DEF Ask
<1>2. headers = HeadersAfter(Locators) /\ late' = NoReply /\ repeats' = repeats
  BY <1>1, Answered DEF OnePeer
<1>3. LocalTip # NoBlock
  BY DEF Ask, TreeInv, Place
<1>4. blocks' = blocks /\ best' = best
  BY DEF Ask, net
<1>5. CASE sync' = [sync EXCEPT !.pc = "idle"]
  <2>1. GoesTo("idle", sync.queue) /\ sync'.from = sync.from
    BY <1>5, SetStep DEF TypeInv, SyncTyped
  <2>2. Place(blocks, LocalTip, "idle", sync.queue)
    BY DEF Place, Working, Storing
  <2> QED
    BY <1>2, <1>4, <2>1, <2>2, PlacedStep DEF TreeInv
<1>6. CASE headers # <<>> /\ sync' = [sync EXCEPT !.pc = "add", !.queue = headers]
  <2>1. GoesTo("add", headers) /\ sync'.from = sync.from
    BY <1>6, SetStepAndQueue DEF TypeInv, SyncTyped
  <2>2. Line(headers) /\ (Fits(LocalTip, headers) \/ Forks(LocalTip, headers))
    BY <1>2, <1>3, <1>6, HeadersPlaced
  <2>3. Place(blocks, LocalTip, "add", headers)
    BY <2>2 DEF Place, Storing
  <2> QED
    BY <1>2, <1>4, <2>1, <2>3, PlacedStep DEF TreeInv
<1> QED
  BY <1>1, <1>5, <1>6

\* A header that fits is never taken for a fork.
LEMMA FitsExtends ==
  ASSUME TreeInv, Fits(LocalTip, sync.queue)
  PROVE  ExtendsTip(Current)
BY LowTip DEF Fits, ExtendsTip, Current

LEMMA ForksDoNot ==
  ASSUME TreeInv, Forks(LocalTip, sync.queue)
  PROVE  ~ ExtendsTip(Current)
BY LowTip DEF Forks, ExtendsTip, Current, AtGenesis

LEMMA AddBlockInTree ==
  ASSUME TypeInv, TreeInv, AddBlock
  PROVE  /\ TreeStep
         /\ sync'.pc = "reorg" => LocalTip \notin L!Chain(sync.queue[Len(sync.queue)])
<1>1. /\ Line(sync.queue)
      /\ Fits(LocalTip, sync.queue) \/ Forks(LocalTip, sync.queue)
  BY DEF AddBlock, TreeInv, Place, Working
<1>2. blocks' = blocks /\ best' = best /\ late' = late /\ repeats' = repeats
  BY DEF AddBlock, db, net
<1>3. CASE ExtendsTip(Current)
  <2>1. GoesTo("store", sync.queue) /\ sync'.from = sync.from
    BY <1>3, SetStep DEF AddBlock, TypeInv, SyncTyped
  <2>2. Place(blocks, LocalTip, "store", sync.queue)
    BY <1>1, <1>3, ForksDoNot DEF Place, Storing
  <2> QED
    BY <1>2, <2>1, <2>2, PlacedStep DEF TreeInv, GoesTo
<1>4. CASE ~ ExtendsTip(Current)
  <2>1. LocalTip \notin L!Chain(sync.queue[Len(sync.queue)])
    BY <1>1, <1>4, FitsExtends DEF Forks
  <2>2. PICK from : from = RollbackHeight(Current)
    OBVIOUS
  <2>3. from \in Nat
    <3>1. LocalTip # NoBlock
      BY <1>4 DEF ExtendsTip
    <3>2. LocalTip \in Blocks /\ TipHeight = L!Height(LocalTip)
      BY <3>1, TipStored
    <3>3. TipHeight \in Nat
      BY <3>2, ChainMembers
    <3>4. Current \in Blocks
      BY RestOfQueue DEF AddBlock, TypeInv, SyncTyped, Working, Current
    <3> QED
      BY <2>2, <3>3, <3>4, StoredParents DEF RollbackHeight, Doc
  <2>4. GoesTo("reorg", sync.queue) /\ sync'.from = from
    BY <1>4, <2>2 DEF AddBlock, TypeInv, SyncTyped, GoesTo
  <2>5. TreeStep
    BY <1>2, <2>3, <2>4, PlainStep DEF SameTree, Working, Storing
  <2> QED
    BY <2>1, <2>5
<1> QED
  BY <1>3, <1>4

LEMMA DeletedGoes ==
  ASSUME TypeInv, TreeInv, NEW what, Deleted(what)
  PROVE  /\ sync'.from = sync.from
         /\ \E pc \in {"reorg", "unspend"} : GoesTo(pc, sync.queue)
BY DEF Deleted, TypeInv, SyncTyped, GoesTo

LEMMA DeleteBlocksInTree ==
  ASSUME TypeInv, TreeInv, DeleteBlocks
  PROVE  /\ TreeStep
         /\ L!Chain(LocalTip') = {b \in L!Chain(LocalTip) : L!Height(b) < sync.from}
<1>1. PICK p, n : p = LocalTip /\ n = sync.from
  OBVIOUS
<1>2. Holds(blocks, p) /\ n \in Nat
  BY <1>1 DEF TreeInv
<1>3. blocks' = [b \in Blocks |->
         IF blocks[b] # NoDoc /\ blocks[b].height >= n THEN NoDoc ELSE blocks[b]]
  BY <1>1 DEF DeleteBlocks, Stored
<1>4. PICK q : /\ Holds(blocks', q) /\ q \in L!Chain(p) \cup {NoBlock}
               /\ L!Chain(q) = {b \in L!Chain(p) : L!Height(b) < n}
  <2>1. ASSUME NEW b \in Blocks, blocks'[b] # NoDoc
        PROVE  /\ blocks[b] # NoDoc /\ blocks'[b] = blocks[b]
               /\ blocks[b].height = L!Height(b) /\ ~ (L!Height(b) >= n)
    BY <1>2, <1>3, <2>1 DEF Holds
  <2>2. ASSUME NEW b \in Blocks, blocks[b] # NoDoc, L!Height(b) < n
        PROVE  blocks'[b] = blocks[b]
    <3>1. blocks[b].height = L!Height(b) /\ L!Height(b) \in Nat
      BY <1>2, <2>2, ChainMembers DEF Holds
    <3> QED
      BY <1>2, <1>3, <2>2, <3>1
  <2>3. {b \in Blocks : blocks[b] # NoDoc /\ blocks[b].processed} = L!Chain(p)
    BY <1>2 DEF Holds
  <2>4. {b \in Blocks : blocks'[b] # NoDoc /\ blocks'[b].processed}
          = {b \in L!Chain(p) : L!Height(b) < n}
    <3>1. ASSUME NEW b \in Blocks, blocks'[b] # NoDoc /\ blocks'[b].processed
          PROVE  b \in L!Chain(p) /\ L!Height(b) < n
      <4>1. L!Height(b) \in Nat /\ ~ (L!Height(b) >= n)
        BY <2>1, <3>1, ChainMembers
      <4>2. b \in L!Chain(p)
        BY <2>1, <2>3, <3>1
      <4> QED
        BY <1>2, <4>1, <4>2
    <3>2. ASSUME NEW b \in L!Chain(p), L!Height(b) < n
          PROVE  b \in Blocks /\ blocks'[b] # NoDoc /\ blocks'[b].processed
      <4>1. b \in Blocks /\ blocks[b] # NoDoc /\ blocks[b].processed
        BY <2>3
      <4> QED
        BY <2>2, <3>2, <4>1
    <3> QED
      BY <3>1, <3>2
  <2>5. \A b \in Blocks : blocks'[b] # NoDoc => blocks'[b].height = L!Height(b)
    BY <2>1
  <2>6. PICK q \in L!Chain(p) \cup {NoBlock} : {b \in L!Chain(p) : L!Height(b) < n} = L!Chain(q)
    <3>1. CASE p \in Blocks
      BY <1>2, <3>1, ChainBelow
    <3>2. CASE p = NoBlock
      BY <3>2, ChainOfGenesis
    <3> QED
      BY <1>2, <3>1, <3>2 DEF Holds
  <2>7. q \in Blocks \cup {NoBlock}
    BY <2>3, <2>6
  <2>8. Holds(blocks', q)
    BY <2>4, <2>5, <2>6, <2>7 DEF Holds
  <2> QED
    BY <2>6, <2>8
<1>5. PICK pc \in {"reorg", "unspend"} : GoesTo(pc, sync.queue)
  BY DeletedGoes DEF DeleteBlocks
<1>6. sync'.from \in Nat
  BY DeletedGoes DEF DeleteBlocks, TreeInv
<1>7. Place(blocks', q, sync'.pc, sync'.queue)
  BY <1>5 DEF GoesTo, Place, Working, Storing
<1>8. best' = best /\ late' = late /\ repeats' = repeats
  BY DEF DeleteBlocks, net
<1>9. TreeInv' /\ LocalTip' = q
  BY <1>4, <1>6, <1>7, <1>8, TreeAfter DEF TreeInv
<1>10. p = NoBlock => q = p
  BY <1>4, ChainOfGenesis
<1>11. L!Chain(LocalTip') = {b \in L!Chain(LocalTip) : L!Height(b) < sync.from}
  BY <1>1, <1>4, <1>9
<1> QED
  BY <1>1, <1>4, <1>9, <1>10, <1>11 DEF TreeStep, TipStep

LEMMA RollbackInTree ==
  ASSUME TypeInv, TreeInv, DeleteTxs \/ DeleteCoins \/ Unspend
  PROVE  TreeStep
<1>1. SameTree
  BY DEF DeleteTxs, DeleteCoins, Unspend, SameTree, net
<1>2. /\ sync'.from = sync.from
      /\ \E pc \in {"reorg", "unspend", "begin"} : GoesTo(pc, sync.queue)
  <2>1. CASE DeleteTxs \/ DeleteCoins
    BY <2>1, DeletedGoes DEF DeleteTxs, DeleteCoins
  <2>2. CASE Unspend
    BY <2>2, SetStep DEF Unspend, TypeInv, SyncTyped
  <2> QED
    BY <2>1, <2>2
<1> QED
  BY <1>1, <1>2, PlainStep DEF TreeInv, Working, Storing

LEMMA StoreInTree ==
  ASSUME TypeInv, TreeInv, Store
  PROVE  TreeStep /\ LocalTip' = IF Current = Genesis THEN NoBlock ELSE LocalTip
<1>1. PICK p, b, q : p = LocalTip /\ b = Current /\ q = sync.queue
  OBVIOUS
<1>2. q \in Seq(Blocks) /\ q # <<>> /\ b = Head(q) /\ b \in Blocks
  BY <1>1, RestOfQueue DEF Store, TypeInv, SyncTyped, Working, Current
<1>3. Holds(blocks, p) /\ Line(q) /\ Fits(p, q)
  BY <1>1 DEF Store, TreeInv, Place, Working
<1>4. blocks' = [blocks EXCEPT ![b] = BlockOp(b)]
  BY <1>1 DEF Store
<1>5. blocks \in [Blocks -> Doc \cup {NoDoc}]
  BY DEF TypeInv, DocsTyped
<1>6. PICK doc : doc = BlockOp(b)
  OBVIOUS
<1>7. doc # NoDoc /\ ~ doc.processed /\ doc.height = BlockHeight(b)
  <2>1. DOMAIN doc = {"height", "next", "processed"}
    BY <1>6 DEF BlockOp
  <2>2. doc # NoDoc
    BY <2>1 DEF NoDoc
  <2> QED
    BY <1>6, <2>2 DEF BlockOp
<1>8. PICK r : r = IF b = Genesis THEN NoBlock ELSE p
  OBVIOUS
<1>9. /\ b # Genesis => /\ Parent[b] = p /\ p \in Blocks
                        /\ L!Chain(b) = L!Chain(p) \cup {b} /\ L!Height(b) = L!Height(p) + 1
      /\ b = Genesis => p \in {NoBlock, Genesis}
  <2>1. CASE b = Genesis
    BY <1>2, <1>3, <2>1 DEF Fits, AtGenesis
  <2>2. CASE b # Genesis
    <3>1. Parent[b] = p /\ p \in Blocks
      BY <1>2, <1>3, <2>2 DEF Fits, Holds
    <3> QED
      BY <1>2, <2>2, <3>1, ChainOfChild
  <2> QED
    BY <2>1, <2>2
<1>10. BlockHeight(b) = L!Height(b)
  <2>1. CASE b = Genesis
    BY <2>1, ChainOfGenesis DEF BlockHeight, StoredParent
  <2>2. CASE b # Genesis
    <3>1. p # NoBlock
      BY <1>9, <2>2, IndexAssumption
    <3>2. Stored(p) /\ blocks[p].height = L!Height(p)
      BY <1>1, <3>1, TipStored
    <3> QED
      BY <1>9, <2>2, <3>2 DEF BlockHeight, StoredParent
  <2> QED
    BY <2>1, <2>2
<1>11. Holds(blocks', r)
  <2>1. blocks'[b] = doc /\ \A x \in Blocks \ {b} : blocks'[x] = blocks[x]
    BY <1>2, <1>4, <1>5, <1>6
  <2>2. {x \in Blocks : blocks'[x] # NoDoc /\ blocks'[x].processed}
          = {x \in Blocks : blocks[x] # NoDoc /\ blocks[x].processed} \ {b}
    BY <1>7, <2>1
  <2>3. {x \in Blocks : blocks'[x] # NoDoc /\ blocks'[x].processed} = L!Chain(p) \ {b}
    BY <1>3, <2>2 DEF Holds
  <2>4. L!Chain(p) \ {b} = L!Chain(r)
    <3>1. CASE b = Genesis
      BY <1>8, <1>9, <3>1, ChainOfGenesis
    <3>2. CASE b # Genesis
      <4>1. b \notin L!Chain(p)
        <5>1. b \in L!Chain(p) => L!Height(b) <= L!Height(p)
          BY <1>9, <3>2, HighestOfChain
        <5>2. L!Height(p) \in Nat /\ L!Height(b) = L!Height(p) + 1
          BY <1>9, <3>2, ChainMembers
        <5> QED
          BY <5>1, <5>2
      <4> QED
        BY <1>8, <3>2, <4>1
    <3> QED
      BY <3>1, <3>2
  <2>5. \A x \in Blocks : blocks'[x] # NoDoc => blocks'[x].height = L!Height(x)
    BY <1>3, <1>7, <1>10, <2>1 DEF Holds
  <2>6. r \in Blocks \cup {NoBlock}
    BY <1>8, <1>9
  <2> QED
    BY <2>3, <2>4, <2>5, <2>6 DEF Holds
<1>12. GoesTo("link", q) /\ sync'.from = sync.from
  BY <1>1, SetStep DEF Store, TypeInv, SyncTyped
<1>13. Place(blocks', r, sync'.pc, sync'.queue)
  <2>1. sync'.pc = "link" /\ sync'.queue = q
    BY <1>12 DEF GoesTo
  <2>2. Fits(r, q) /\ (b = Genesis => r = NoBlock)
    BY <1>2, <1>3, <1>8 DEF Fits, AtGenesis
  <2>3. blocks'[b] = doc
    BY <1>2, <1>4, <1>5, <1>6
  <2>4. Half(blocks', r, q)
    BY <1>2, <1>7, <2>2, <2>3 DEF Half
  <2> QED
    BY <1>3, <2>1, <2>4 DEF Place
<1>14. best' = best /\ late' = late /\ repeats' = repeats
  BY DEF Store, net
<1>15. TreeInv' /\ LocalTip' = r
  BY <1>11, <1>12, <1>13, <1>14, TreeAfter DEF TreeInv
<1>16. TipStep(p, r)
  BY <1>8, <1>9 DEF TipStep
<1> QED
  BY <1>1, <1>8, <1>15, <1>16 DEF TreeStep

LEMMA LinkInTree ==
  ASSUME TypeInv, TreeInv, Link
  PROVE  TreeStep /\ LocalTip' = LocalTip
<1>1. PICK p, b, q : p = LocalTip /\ b = Current /\ q = sync.queue
  OBVIOUS
<1>2. /\ q \in Seq(Blocks) /\ q # <<>> /\ b = Head(q) /\ b \in Blocks
      /\ blocks[b] # NoDoc
  BY <1>1, RestOfQueue DEF Link, TypeInv, SyncTyped, Working, Storing, Current, Stored
<1>3. Holds(blocks, p) /\ Line(q) /\ Half(blocks, p, q)
  BY <1>1 DEF Link, TreeInv, Place, Working, Storing
<1>4. blocks \in [Blocks -> Doc \cup {NoDoc}]
  BY DEF TypeInv, DocsTyped
<1>5. ASSUME NEW x \in Blocks
      PROVE  /\ (blocks'[x] # NoDoc) <=> (blocks[x] # NoDoc)
             /\ blocks[x] # NoDoc => /\ blocks'[x].height = blocks[x].height
                                     /\ blocks'[x].processed = blocks[x].processed
  <2>1. CASE ~ StoredParent(b)
    BY <1>1, <2>1 DEF Link
  <2>2. CASE StoredParent(b)
    <3>1. PICK par \in Blocks : par = Parent[b] /\ blocks[par] \in Doc
      BY <1>2, <2>2, StoredParents
    <3>2. blocks' = [blocks EXCEPT ![par].next = b]
      BY <1>1, <2>2, <3>1 DEF Link
    <3>3. PICK d : d = [blocks[par] EXCEPT !.next = b]
      OBVIOUS
    <3>4. d \in Doc /\ d.height = blocks[par].height /\ d.processed = blocks[par].processed
      BY <1>2, <3>1, <3>3 DEF Doc
    <3>5. blocks'[par] = d /\ (x # par => blocks'[x] = blocks[x])
      BY <1>4, <3>2, <3>3
    <3> QED
      BY <3>1, <3>4, <3>5, Documents
  <2> QED
    BY <2>1, <2>2
<1>6. Holds(blocks', p)
  <2>1. {x \in Blocks : blocks'[x] # NoDoc /\ blocks'[x].processed}
          = {x \in Blocks : blocks[x] # NoDoc /\ blocks[x].processed}
    BY <1>5
  <2> QED
    BY <1>3, <1>5, <2>1 DEF Holds
<1>7. GoesTo("import", q) /\ sync'.from = sync.from
  BY <1>1, SetStep DEF Link, TypeInv, SyncTyped
<1>8. Half(blocks', p, q)
  BY <1>2, <1>3, <1>5 DEF Half
<1>9. Place(blocks', p, sync'.pc, sync'.queue)
  BY <1>3, <1>7, <1>8 DEF GoesTo, Place
<1>10. best' = best /\ late' = late /\ repeats' = repeats
  BY DEF Link, net
<1>11. TreeInv' /\ LocalTip' = p
  BY <1>6, <1>7, <1>9, <1>10, TreeAfter DEF TreeInv
<1> QED
  BY <1>1, <1>11 DEF TreeStep, TipStep

LEMMA MarkProcessedInTree ==
  ASSUME TypeInv, TreeInv, MarkProcessed
  PROVE  TreeStep /\ LocalTip' = Current
<1>1. PICK p, b, q : p = LocalTip /\ b = Current /\ q = sync.queue
  OBVIOUS
<1>2. /\ q \in Seq(Blocks) /\ q # <<>> /\ b = Head(q) /\ b \in Blocks
      /\ blocks[b] # NoDoc
  BY <1>1, RestOfQueue DEF MarkProcessed, TypeInv, SyncTyped, Working, Storing, Current, Stored
<1>3. Holds(blocks, p) /\ Line(q) /\ Half(blocks, p, q)
  BY <1>1 DEF MarkProcessed, TreeInv, Place, Working, Storing
<1>4. blocks \in [Blocks -> Doc \cup {NoDoc}]
  BY DEF TypeInv, DocsTyped
<1>5. blocks' = [blocks EXCEPT ![b].processed = TRUE]
  BY <1>1 DEF MarkProcessed
<1>6. /\ blocks'[b] # NoDoc /\ blocks'[b].processed /\ blocks'[b].height = blocks[b].height
      /\ \A x \in Blocks \ {b} : blocks'[x] = blocks[x]
  <2>1. blocks[b] \in Doc
    BY <1>2, <1>4
  <2>2. PICK d : d = [blocks[b] EXCEPT !.processed = TRUE]
    OBVIOUS
  <2>3. d \in Doc /\ d.processed /\ d.height = blocks[b].height
    BY <2>1, <2>2 DEF Doc
  <2>4. blocks'[b] = d /\ \A x \in Blocks \ {b} : blocks'[x] = blocks[x]
    BY <1>2, <1>4, <1>5, <2>2
  <2> QED
    BY <2>3, <2>4, Documents
<1>7. /\ b = Genesis => p = NoBlock
      /\ b # Genesis => p \in Blocks /\ Parent[b] = p
  BY <1>2, <1>3 DEF Half, Fits, Holds
<1>8. L!Chain(b) = L!Chain(p) \cup {b}
  <2>1. CASE b = Genesis
    BY <1>7, <2>1, ChainOfGenesis
  <2>2. CASE b # Genesis
    BY <1>2, <1>7, <2>2, ChainOfChild
  <2> QED
    BY <2>1, <2>2
<1>9. Holds(blocks', b)
  <2>1. {x \in Blocks : blocks'[x] # NoDoc /\ blocks'[x].processed}
          = {x \in Blocks : blocks[x] # NoDoc /\ blocks[x].processed} \cup {b}
    BY <1>2, <1>6
  <2>2. {x \in Blocks : blocks'[x] # NoDoc /\ blocks'[x].processed} = L!Chain(b)
    BY <1>3, <1>8, <2>1 DEF Holds
  <2>3. \A x \in Blocks : blocks'[x] # NoDoc => blocks'[x].height = L!Height(x)
    BY <1>2, <1>3, <1>6 DEF Holds
  <2> QED
    BY <1>2, <2>2, <2>3 DEF Holds
<1>10. PICK pc, rest : /\ pc = IF Len(q) = 1 THEN "ask" ELSE "add"
                       /\ rest = Tail(q)
  OBVIOUS
<1>11. GoesTo(pc, rest) /\ sync'.from = sync.from
  <2>1. sync' = [sync EXCEPT !.queue = rest, !.pc = pc]
    BY <1>1, <1>10 DEF MarkProcessed
  <2> QED
    BY <2>1 DEF GoesTo, TypeInv, SyncTyped
<1>12. /\ q[1] = b /\ Len(q) \in Nat \ {0} /\ Len(rest) = Len(q) - 1 /\ rest \in Seq(Blocks)
       /\ \A i \in 1 .. Len(q) - 1 : rest[i] = q[i + 1]
       /\ Len(q) # 1 => rest # <<>>
  BY <1>2, <1>10, RestOfQueue
<1>13. Line(rest)
  <2>1. ASSUME NEW i \in 2 .. Len(rest)
        PROVE  rest[i] # Genesis /\ Parent[rest[i]] = rest[i - 1]
    <3>1. /\ i \in 1 .. Len(q) - 1 /\ i - 1 \in 1 .. Len(q) - 1
          /\ i + 1 \in 2 .. Len(q) /\ i - 1 + 1 = i /\ i + 1 - 1 = i
      BY <1>12
    <3>2. rest[i] = q[i + 1] /\ rest[i - 1] = q[i]
      BY <1>12, <3>1
    <3>3. q[i + 1] # Genesis /\ Parent[q[i + 1]] = q[i]
      BY <1>3, <3>1 DEF Line
    <3> QED
      BY <3>2, <3>3
  <2> QED
    BY <2>1 DEF Line
<1>14. Len(q) # 1 => Fits(b, rest)
  <2>1. SUFFICES ASSUME Len(q) # 1 PROVE Fits(b, rest)
    OBVIOUS
  <2>2. 2 \in 2 .. Len(q) /\ 1 \in 1 .. Len(q) - 1 /\ 2 - 1 = 1 /\ 1 + 1 = 2
    BY <1>12, <2>1
  <2>3. q[2] # Genesis /\ Parent[q[2]] = q[1]
    BY <1>3, <2>2 DEF Line
  <2>4. rest[1] = q[2] /\ Head(rest) = rest[1]
    BY <1>12, <2>1, <2>2, RestOfQueue
  <2>5. b # NoBlock
    BY <1>2, IndexAssumption
  <2> QED
    BY <1>12, <2>3, <2>4, <2>5 DEF Fits
<1>15. Place(blocks', b, pc, rest)
  <2>1. b # NoBlock
    BY <1>2, IndexAssumption
  <2> QED
    BY <1>10, <1>13, <1>14, <2>1 DEF Place, Storing
<1>16. Place(blocks', b, sync'.pc, sync'.queue)
  BY <1>11, <1>15 DEF GoesTo
<1>17. best' = best /\ late' = late /\ repeats' = repeats
  BY DEF MarkProcessed, net
<1>18. TreeInv' /\ LocalTip' = b
  BY <1>9, <1>11, <1>16, <1>17, TreeAfter DEF TreeInv
<1>19. TipStep(p, b)
  BY <1>2, <1>7, IndexAssumption DEF TipStep
<1> QED
  BY <1>1, <1>18, <1>19 DEF TreeStep

\* An import of transactions leaves the blocks to the sync.
LEMMA ImportInTree ==
  ASSUME TypeInv, TreeInv, NEW i \in Importers, Import(i)
  PROVE  TreeStep
<1>1. blocks' = blocks /\ best' = best /\ late' = late /\ repeats' = repeats
  BY DEF Import, ImportMint, PruneFind, Invalidate, ImportSpend, ImportTx, Rest, net
<1>2. CASE sync' = sync
  BY <1>1, <1>2, TipRests DEF TreeStep, TipStep, TreeInv
<1>3. CASE i = Syncer /\ sync' = [sync EXCEPT !.pc = "processed"]
  <2>1. GoesTo("processed", sync.queue) /\ sync'.from = sync.from
    BY <1>3, SetStep DEF TypeInv, SyncTyped
  <2>2. sync.pc = "import"
    BY <1>3, NextOfImport DEF TypeInv, ImpTyped
  <2>3. Place(blocks, LocalTip, "processed", sync.queue)
    BY <2>2 DEF TreeInv, Place, Working, Storing
  <2> QED
    BY <1>1, <2>1, <2>3, PlacedStep DEF TreeInv
<1> QED
  BY <1>2, <1>3, NextOfImport DEF TypeInv

LEMMA OutsideInTree ==
  ASSUME TypeInv, TreeInv,
         \/ \E t \in Relayed : Relay(t)
         \/ \E b \in Blocks : Switch(b)
         \/ Announcement \/ RecordSynced \/ Crash \/ UNCHANGED vars
  PROVE  TreeStep
<1>1. blocks' = blocks /\ repeats' = repeats
  BY DEF Relay, Switch, Announcement, RecordSynced, Crash, vars, db
<1>2. ASSUME sync' = sync, best' # Genesis, late' = NoReply
      PROVE  TreeStep
  BY <1>1, <1>2, TipRests DEF TreeStep, TipStep, TreeInv
<1>3. CASE (\E t \in Relayed : Relay(t)) \/ RecordSynced \/ UNCHANGED vars
  BY <1>2, <1>3 DEF Relay, RecordSynced, vars, net, TreeInv
<1>4. ASSUME NEW b \in Blocks, Switch(b)
      PROVE  TreeStep
  <2>1. best \in Blocks /\ L!Height(b) > L!Height(best)
    BY <1>4 DEF Switch, TypeInv, NetTyped
  <2>2. L!Height(best) \in Nat
    BY <2>1, ChainMembers
  <2>3. b # Genesis
    BY <2>1, <2>2, ChainOfGenesis
  <2> QED
    BY <1>2, <1>4, <2>3 DEF Switch, TreeInv
<1>5. CASE Announcement
  <2>1. best' = best /\ late' = late
    BY <1>5 DEF Announcement
  <2>2. CASE sync' = sync
    BY <1>2, <2>1, <2>2 DEF TreeInv
  <2>3. CASE sync' = [sync EXCEPT !.pc = "begin"]
    <3>1. GoesTo("begin", sync.queue) /\ sync'.from = sync.from
      BY <2>3, SetStep DEF TypeInv, SyncTyped
    <3> QED
      BY <1>1, <2>1, <3>1, PlainStep DEF SameTree, TreeInv, Working, Storing
  <2> QED
    BY <1>5, <2>2, <2>3 DEF Announcement
<1>6. CASE Crash
  <2>1. sync' = [pc |-> "begin", queue |-> <<>>, left |-> {}, from |-> 0]
    BY <1>6 DEF Crash
  <2>2. GoesTo("begin", <<>>) /\ sync'.from = 0
    BY <2>1 DEF GoesTo
  <2>3. best' = best /\ late' = NoReply
    BY <1>6 DEF Crash
  <2>4. Place(blocks, LocalTip, "begin", <<>>)
    BY DEF Place, Working, Storing
  <2> QED
    BY <1>1, <2>2, <2>3, <2>4, PlacedStep DEF TreeInv
<1> QED
  BY <1>3, <1>4, <1>5, <1>6

LEMMA InitInTree ==
  ASSUME OnePeer, Init
  PROVE  TreeInv /\ LocalTip = NoBlock
<1>1. \A b \in Blocks : blocks[b] = NoDoc
  BY DEF Init
<1>2. {b \in Blocks : blocks[b] # NoDoc /\ blocks[b].processed} = {}
  BY <1>1
<1>3. Holds(blocks, NoBlock)
  BY <1>1, <1>2, ChainOfGenesis DEF Holds
<1>4. LocalTip = NoBlock
  BY <1>3, TipIs, TipOfChain
<1>5. Place(blocks, NoBlock, sync.pc, sync.queue) /\ sync.from = 0
  BY DEF Init, Place, Working, Storing
<1>6. best # Genesis /\ late = NoReply /\ repeats = 0
  BY DEF Init, OnePeer
<1> QED
  BY <1>3, <1>4, <1>5, <1>6 DEF TreeInv

LEMMA StepInTree ==
  ASSUME OnePeer, TypeInv, TreeInv, [Next]_vars
  PROVE  TreeStep
BY BeginInTree, AskGenesisInTree, AskInTree, AddBlockInTree, DeleteBlocksInTree,
   RollbackInTree, StoreInTree, LinkInTree, MarkProcessedInTree, ImportInTree, OutsideInTree
   DEF Next, SyncStep

\* The processed blocks are one chain of the tree at every moment, whatever is being
\* deleted or stored and wherever a crash falls, and the headers that are worked
\* through belong to it or fork off it.
THEOREM ProcessedAreChain ==
  ASSUME OnePeer
  PROVE  Spec => []TreeInv
<1>1. Init => TreeInv
  BY InitInTree
<1>2. TypeInv /\ TreeInv /\ [Next]_vars => TreeInv'
  BY StepInTree DEF TreeStep
<1> QED
  BY <1>1, <1>2, TypesKept, PTL DEF Spec

\* The tip of the index only ever moves to a child or back to an ancestor, if one
\* peer answers and its chain is more than the genesis block.
THEOREM TipFollowsLedger ==
  ASSUME OnePeer
  PROVE  Spec => FollowsLedger
<1>1. Init => L!Init
  BY InitInTree DEF L!Init
<1>2. TypeInv /\ TreeInv /\ [Next]_vars => [L!Next]_LocalTip
  BY StepInTree, TipSteps DEF TreeStep
<1> QED
  BY <1>1, <1>2, TypesKept, ProcessedAreChain, PTL DEF Spec, FollowsLedger, L!Spec

\* A rollback is begun only for headers of a chain the tip is not in.
THEOREM RollbacksNeeded ==
  ASSUME OnePeer
  PROVE  Spec => NoNeedlessRollback
<1>1. TypeInv /\ TreeInv /\ [Next]_vars =>
        [sync.pc = "add" /\ sync'.pc = "reorg" =>
           LocalTip \notin L!Chain(sync.queue[Len(sync.queue)])]_vars
  <2> SUFFICES ASSUME TypeInv, TreeInv, Next, sync.pc = "add", sync'.pc = "reorg"
               PROVE  LocalTip \notin L!Chain(sync.queue[Len(sync.queue)])
    OBVIOUS
  <2>1. CASE AddBlock
    BY <2>1, AddBlockInTree
  <2>2. CASE Begin \/ AskGenesis \/ Ask \/ DeleteBlocks \/ DeleteTxs \/ DeleteCoins \/ Unspend
             \/ Store \/ Link \/ MarkProcessed
    BY <2>2 DEF Begin, AskGenesis, Ask, DeleteBlocks, DeleteTxs, DeleteCoins, Deleted, Unspend,
                Store, Link, MarkProcessed
  <2>3. CASE \E i \in Importers : Import(i)
    <3>1. sync' = sync \/ sync' = [sync EXCEPT !.pc = "processed"]
      BY <2>3, NextOfImport DEF TypeInv
    <3> QED
      BY <3>1 DEF TypeInv, SyncTyped
  <2>4. CASE \/ \E t \in Relayed : Relay(t)
             \/ \E b \in Blocks : Switch(b)
             \/ Announcement \/ RecordSynced \/ Crash
    BY <2>4 DEF Relay, Switch, Announcement, RecordSynced, Crash
  <2> QED
    BY <2>1, <2>2, <2>3, <2>4 DEF Next, SyncStep
<1> QED
  BY <1>1, TypesKept, ProcessedAreChain, PTL DEF Spec, NoNeedlessRollback

-----------------------------------------------------------------------------
(* The documents and the chain.                                            *)

\* What the rules of the chain give.  Nothing the peers send is a transaction
\* twice in a chain, spends a coin twice, or spends one that no block up to it
\* mints; ids and outpoints are unique.  The relayed transactions, besides, do
\* not conflict with one another (they may with those of the blocks).
ValidChains ==
  /\ BlockTxs \in [Blocks -> Seq(Txs)] /\ Inputs \in [Txs -> Seq(Coins)]
  /\ \A t, u \in Txs : t # u => Outputs[t] \cap Outputs[u] = {}
  /\ \A b \in Blocks : \A i, j \in 1 .. Len(BlockTxs[b]) :
       BlockTxs[b][i] = BlockTxs[b][j] => i = j
  /\ \A b \in Blocks : \A d, e \in L!Chain(b) : d # e => L!TxsOf(d) \cap L!TxsOf(e) = {}
  /\ \A b \in Blocks : \A d, e \in L!Chain(b) : \A t \in L!TxsOf(d), u \in L!TxsOf(e) :
       t # u => L!Spends(t) \cap L!Spends(u) = {}
  /\ \A b \in Blocks : \A t \in L!TxsOf(b) : \A c \in L!Spends(t) :
       \E d \in L!Chain(b) : \E u \in L!TxsOf(d) : c \in Outputs[u]
Compatible == \A t, u \in Relayed : t # u => L!Spends(t) \cap L!Spends(u) = {}

\* No crash in a rollback, and none in the storing of a block that the peers may
\* leave again.
CrashesHeal ==
  /\ CrashPoints \cap {"reorg", "unspend"} = {}
  /\ \A x \in CrashBlocks : \A b, d \in Blocks :
       x \in L!Chain(b) /\ L!Height(d) > L!Height(b) => x \in L!Chain(d)

\* What the blocks of D do at height h, and what the documents say.
MintedIn(D, c, h) ==
  \E d \in D : L!Height(d) = h /\ \E t \in L!TxsOf(d) : c \in Outputs[t]
SpentIn(D, c, h, t) ==
  \E d \in D : L!Height(d) = h /\ t \in L!TxsOf(d) /\ c \in L!Spends(t)
ConfirmedIn(D, t, h) == \E d \in D : L!Height(d) = h /\ t \in L!TxsOf(d)

IsMinted(cs, c, h) == cs[c] # NoDoc /\ cs[c].mint = h
IsSpent(cs, c, h, t) == cs[c] # NoDoc /\ cs[c].spent = h /\ cs[c].by = t
IsConfirmed(ts, t, h) == ts[t] # NoDoc /\ ts[t].height = h

\* The documents say of the heights H what the blocks D do.
MintsMatch(cs, D, H) ==
  \A c \in Coins : \A h \in H : IsMinted(cs, c, h) <=> MintedIn(D, c, h)
SpendsMatch(cs, D, H) ==
  \A c \in Coins : \A h \in H : \A t \in Txs : IsSpent(cs, c, h, t) <=> SpentIn(D, c, h, t)
TxsMatch(ts, D, H) ==
  \A t \in Txs : \A h \in H : IsConfirmed(ts, t, h) <=> ConfirmedIn(D, t, h)

AllMatch(cs, ts, D, H) == MintsMatch(cs, D, H) /\ SpendsMatch(cs, D, H) /\ TxsMatch(ts, D, H)

Resting == {"idle", "begin", "askGenesis", "ask", "add", "store"}
Rollback == {"reorg", "unspend"}
Below(f) == {h \in Nat : h < f}

SpentLater(cs) ==
  \A c \in Coins : \A h \in Nat : \A t \in Txs :
    IsSpent(cs, c, h, t) => \E k \in Nat : k <= h /\ IsMinted(cs, c, k)

\* During a rollback the documents match below the height it goes back to; what
\* has been deleted leaves nothing from there on.
Rolling(cs, ts, p, f, left) ==
  /\ AllMatch(cs, ts, L!Chain(p), Below(f))
  /\ "blocks" \notin left => \A b \in L!Chain(p) : L!Height(b) < f
  /\ "txs" \notin left => \A t \in Txs : \A h \in Nat : IsConfirmed(ts, t, h) => h < f
  /\ "coins" \notin left => \A c \in Coins : \A h \in Nat : IsMinted(cs, c, h) => h < f
  /\ "coins" \in left => SpentLater(cs)

\* The blocks that have been stored and not been marked as processed.
Unfinished(docs) == {x \in Blocks : docs[x] # NoDoc /\ ~ docs[x].processed}

\* A block that a crash left unfinished: the one above the tip on the peers' chain,
\* or the one above the genesis block when that is stored again.
Heir(top, p, x) ==
  /\ x \in CrashBlocks /\ x \in L!Chain(top)
  /\ IF x = Genesis THEN p = NoBlock ELSE Parent[x] = p \/ (p = NoBlock /\ Parent[x] = Genesis)

\* Where the sync is with the queue q, the blocks U are unfinished.
Mendable(top, q) == \A n \in 1 .. Len(q) : q[n] \in CrashBlocks => q[n] \in L!Chain(top)
Owed(top, p, pc, q, U) ==
  /\ pc \in {"idle"} \cup Rollback => U = {}
  /\ \A x \in U : (pc \in Storing /\ x = Head(q)) \/ Heir(top, p, x)
  /\ pc \in Working => (\A x \in U : x = Head(q) \/ Head(q) = Genesis) /\ Mendable(top, q)
UnfinishedRight == Owed(best, LocalTip, sync.pc, sync.queue, Unfinished(blocks))

\* Each collection matches the chain of the tip p or that of a block of U that is
\* unfinished; the latter as soon as its part of an import is written.
Filling(cs, ts, p, U, step) ==
  /\ \/ \E e \in U : MintsMatch(cs, L!Chain(e), Nat)
     \/ step = "mint" /\ MintsMatch(cs, L!Chain(p), Nat)
  /\ \/ \E e \in U : SpendsMatch(cs, L!Chain(e), Nat)
     \/ step \in {"mint", "prune", "invalidate", "spend"} /\ SpendsMatch(cs, L!Chain(p), Nat)
  /\ \/ \E e \in U : TxsMatch(ts, L!Chain(e), Nat)
     \/ step # "done" /\ TxsMatch(ts, L!Chain(p), Nat)

FillStep ==
  IF sync.pc = "import" THEN imp[Syncer].pc ELSE IF sync.pc = "processed" THEN "done" ELSE "mint"

DocsMatch ==
  /\ sync.pc \in Rollback => Rolling(coins, txs, LocalTip, sync.from, sync.left)
  /\ sync.pc \notin Rollback => Filling(coins, txs, LocalTip, Unfinished(blocks), FillStep)
  /\ sync.pc = "unspend" => sync.left = {}

\* A coin spent by the mempool is spent by a relayed transaction.
PendingRight(cs) ==
  \A c \in Coins : cs[c] # NoDoc /\ cs[c].spent = Pending =>
    cs[c].by \in Relayed /\ c \in L!Spends(cs[c].by)

\* What an import still prunes for has inputs; what it is to invalidate is not
\* in a chain that the index takes up.
BatchOf(i, b) == IF i = Syncer THEN BlockTxs[b] ELSE <<i>>
Spenders(i, b) == {k \in 1 .. Len(BatchOf(i, b)) : Inputs[BatchOf(i, b)[k]] # <<>>}
ImportOK(i, r, b, U) ==
  /\ r.pc \in {"prune", "invalidate"} => r.todo # {} /\ r.todo \subseteq Spenders(i, b)
  /\ r.pc = "invalidate" =>
       /\ i = Syncer /\ r.victim \in Relayed
       /\ \A e \in U : \A d \in L!Chain(e) : r.victim \notin L!TxsOf(d)
ImportsRight == \A i \in Importers : ImportOK(i, imp[i], Current, Unfinished(blocks))

\* nextBlockHash leads up the chain.
NextRight(docs, p) ==
  \A b \in L!Chain(p) : b # p =>
    \E d \in L!Chain(p) : L!Height(d) = L!Height(b) + 1 /\ docs[b].next = d
LinkRight ==
  sync.pc \in {"import", "processed"} /\ Current # Genesis => blocks[LocalTip].next = Current

IndexInv ==
  /\ DocsMatch /\ PendingRight(coins) /\ ImportsRight
  /\ UnfinishedRight /\ NextRight(blocks, LocalTip) /\ LinkRight

-----------------------------------------------------------------------------
(* One block more.                                                         *)

Child(p, b) ==
  /\ b \in Blocks /\ L!Height(b) \in Nat
  /\ L!Chain(b) = L!Chain(p) \cup {b} /\ b \notin L!Chain(p)

LEMMA BlockTypes ==
  ASSUME ValidChains, NEW b \in Blocks
  PROVE  /\ L!TxsOf(b) \subseteq Txs /\ \A t \in Txs : L!Spends(t) \subseteq Coins
         /\ BlockTxs[b] \in Seq(Txs) /\ Len(BlockTxs[b]) \in Nat
         /\ \A t \in Txs : Inputs[t] \in Seq(Coins)
<1>1. BlockTxs[b] \in Seq(Txs) /\ \A t \in Txs : Inputs[t] \in Seq(Coins)
  BY DEF ValidChains
<1>2. L!TxsOf(b) \subseteq Txs
  BY <1>1 DEF L!TxsOf
<1>3. \A t \in Txs : L!Spends(t) \subseteq Coins
  BY <1>1 DEF L!Spends
<1> QED
  BY <1>1, <1>2, <1>3

\* A chain mints a coin once, spends it once, confirms a transaction once.
LEMMA OneBlock ==
  ASSUME ValidChains, NEW e \in Blocks, NEW b \in L!Chain(e), NEW d \in L!Chain(e), NEW t,
         t \in L!TxsOf(d), t \in L!TxsOf(b)
  PROVE  d = b
BY DEF ValidChains

LEMMA OneMinter ==
  ASSUME ValidChains, NEW t \in Txs, NEW u \in Txs, NEW c, c \in Outputs[t], c \in Outputs[u]
  PROVE  t = u
BY DEF ValidChains

LEMMA OneSpender ==
  ASSUME ValidChains, NEW e \in Blocks, NEW b \in L!Chain(e), NEW d \in L!Chain(e),
         NEW t, NEW u, NEW c,
         t \in L!TxsOf(d), u \in L!TxsOf(b), c \in L!Spends(t), c \in L!Spends(u)
  PROVE  t = u
BY DEF ValidChains

LEMMA MintedHere ==
  ASSUME ValidChains, NEW e \in Blocks, NEW b \in L!Chain(e), NEW t, NEW c, NEW h,
         t \in L!TxsOf(b), c \in Outputs[t]
  PROVE  MintedIn(L!Chain(e), c, h) <=> h = L!Height(b)
<1>1. ASSUME NEW d \in L!Chain(e), NEW u \in L!TxsOf(d), c \in Outputs[u]
      PROVE  d = b
  <2>1. d \in Blocks /\ b \in Blocks
    BY ChainMembers
  <2>2. u \in Txs /\ t \in Txs
    BY <2>1, BlockTypes
  <2>3. u = t
    BY <1>1, <2>2, OneMinter
  <2> QED
    BY <2>3, OneBlock
<1> QED
  BY <1>1 DEF MintedIn

LEMMA SpentHere ==
  ASSUME ValidChains, NEW e \in Blocks, NEW b \in L!Chain(e), NEW t, NEW c, NEW h, NEW u,
         t \in L!TxsOf(b), c \in L!Spends(t)
  PROVE  SpentIn(L!Chain(e), c, h, u) <=> h = L!Height(b) /\ u = t
<1>1. ASSUME NEW d \in L!Chain(e), u \in L!TxsOf(d), c \in L!Spends(u)
      PROVE  u = t /\ d = b
  <2>1. u = t
    BY <1>1, OneSpender
  <2> QED
    BY <1>1, <2>1, OneBlock
<1> QED
  BY <1>1 DEF SpentIn

LEMMA ConfirmedHere ==
  ASSUME ValidChains, NEW e \in Blocks, NEW b \in L!Chain(e), NEW t, NEW h, t \in L!TxsOf(b)
  PROVE  ConfirmedIn(L!Chain(e), t, h) <=> h = L!Height(b)
BY OneBlock DEF ConfirmedIn

LEMMA NotHere ==
  ASSUME NEW C, NEW D, NEW b, C = D \cup {b}, NEW c, NEW h, NEW t
  PROVE  /\ (\A u \in L!TxsOf(b) : c \notin Outputs[u]) =>
              (MintedIn(C, c, h) <=> MintedIn(D, c, h))
         /\ (\A u \in L!TxsOf(b) : c \notin L!Spends(u)) =>
              (SpentIn(C, c, h, t) <=> SpentIn(D, c, h, t))
         /\ t \notin L!TxsOf(b) =>
              (ConfirmedIn(C, t, h) <=> ConfirmedIn(D, t, h))
BY DEF MintedIn, SpentIn, ConfirmedIn

-----------------------------------------------------------------------------
(* The collections after the writes of an import for the block b, when the *)
(* chain of e, which has b in it, is D and b.                              *)

LEMMA MintsWritten ==
  ASSUME ValidChains, NEW e \in Blocks, NEW b \in L!Chain(e), NEW D, L!Chain(e) = D \cup {b},
         NEW cs, NEW ds, MintsMatch(cs, D, Nat),
         \A c \in Coins :
           \/ /\ \E t \in L!TxsOf(b) : c \in Outputs[t]
              /\ \A h \in Nat : IsMinted(ds, c, h) <=> h = L!Height(b)
           \/ (\A t \in L!TxsOf(b) : c \notin Outputs[t]) /\ ds[c] = cs[c]
  PROVE  MintsMatch(ds, L!Chain(e), Nat)
<1> SUFFICES ASSUME NEW c \in Coins, NEW h \in Nat
             PROVE  IsMinted(ds, c, h) <=> MintedIn(L!Chain(e), c, h)
  BY DEF MintsMatch
<1>1. CASE /\ \E t \in L!TxsOf(b) : c \in Outputs[t]
           /\ \A k \in Nat : IsMinted(ds, c, k) <=> k = L!Height(b)
  BY <1>1, MintedHere
<1>2. CASE (\A t \in L!TxsOf(b) : c \notin Outputs[t]) /\ ds[c] = cs[c]
  <2>1. IsMinted(ds, c, h) <=> IsMinted(cs, c, h)
    BY <1>2 DEF IsMinted
  <2>2. MintedIn(L!Chain(e), c, h) <=> MintedIn(D, c, h)
    BY <1>2, NotHere
  <2> QED
    BY <2>1, <2>2 DEF MintsMatch
<1> QED
  BY <1>1, <1>2

LEMMA SpendsWritten ==
  ASSUME ValidChains, NEW e \in Blocks, NEW b \in L!Chain(e), NEW D, L!Chain(e) = D \cup {b},
         NEW cs, NEW ds, SpendsMatch(cs, D, Nat),
         \A c \in Coins :
           \/ /\ \E t \in L!TxsOf(b) :
                   /\ c \in L!Spends(t)
                   /\ \A h \in Nat : \A u \in Txs :
                        IsSpent(ds, c, h, u) <=> h = L!Height(b) /\ u = t
           \/ /\ \E t \in L!TxsOf(b) : c \in L!Spends(t)
              /\ ds[c] = cs[c] /\ \E h \in Nat : \E u \in Txs : IsSpent(cs, c, h, u)
           \/ (\A t \in L!TxsOf(b) : c \notin L!Spends(t)) /\ ds[c] = cs[c]
  PROVE  SpendsMatch(ds, L!Chain(e), Nat)
<1> SUFFICES ASSUME NEW c \in Coins, NEW h \in Nat, NEW u \in Txs
             PROVE  IsSpent(ds, c, h, u) <=> SpentIn(L!Chain(e), c, h, u)
  BY DEF SpendsMatch
<1>1. CASE \E t \in L!TxsOf(b) :
             /\ c \in L!Spends(t)
             /\ \A k \in Nat : \A w \in Txs :
                  IsSpent(ds, c, k, w) <=> k = L!Height(b) /\ w = t
  <2>1. PICK t \in L!TxsOf(b) :
             /\ c \in L!Spends(t)
             /\ \A k \in Nat : \A w \in Txs :
                  IsSpent(ds, c, k, w) <=> k = L!Height(b) /\ w = t
    BY <1>1
  <2>2. SpentIn(L!Chain(e), c, h, u) <=> h = L!Height(b) /\ u = t
    BY <2>1, SpentHere
  <2> QED
    BY <2>1, <2>2
<1>2. CASE /\ \E t \in L!TxsOf(b) : c \in L!Spends(t)
           /\ ds[c] = cs[c] /\ \E k \in Nat : \E w \in Txs : IsSpent(cs, c, k, w)
  <2>1. PICK t \in L!TxsOf(b) : c \in L!Spends(t)
    BY <1>2
  <2>2. PICK k \in Nat, w \in Txs : IsSpent(cs, c, k, w)
    BY <1>2
  <2>3. PICK d \in D : w \in L!TxsOf(d) /\ c \in L!Spends(w)
    BY <2>2 DEF SpendsMatch, SpentIn
  <2>4. d \in L!Chain(e)
    BY <2>3
  <2>5. w = t
    BY <2>1, <2>3, <2>4, OneSpender
  <2>6. d = b
    BY <2>1, <2>3, <2>4, <2>5, OneBlock
  <2>7. L!Chain(e) = D
    BY <2>3, <2>6
  <2>8. IsSpent(ds, c, h, u) <=> IsSpent(cs, c, h, u)
    BY <1>2 DEF IsSpent
  <2> QED
    BY <2>7, <2>8 DEF SpendsMatch
<1>3. CASE (\A t \in L!TxsOf(b) : c \notin L!Spends(t)) /\ ds[c] = cs[c]
  <2>1. IsSpent(ds, c, h, u) <=> IsSpent(cs, c, h, u)
    BY <1>3 DEF IsSpent
  <2>2. SpentIn(L!Chain(e), c, h, u) <=> SpentIn(D, c, h, u)
    BY <1>3, NotHere
  <2> QED
    BY <2>1, <2>2 DEF SpendsMatch
<1> QED
  BY <1>1, <1>2, <1>3

LEMMA TxsWritten ==
  ASSUME ValidChains, NEW e \in Blocks, NEW b \in L!Chain(e), NEW D, L!Chain(e) = D \cup {b},
         NEW ts, NEW us, TxsMatch(ts, D, Nat),
         \A t \in Txs :
           \/ t \in L!TxsOf(b) /\ \A h \in Nat : IsConfirmed(us, t, h) <=> h = L!Height(b)
           \/ t \notin L!TxsOf(b) /\ us[t] = ts[t]
  PROVE  TxsMatch(us, L!Chain(e), Nat)
<1> SUFFICES ASSUME NEW t \in Txs, NEW h \in Nat
             PROVE  IsConfirmed(us, t, h) <=> ConfirmedIn(L!Chain(e), t, h)
  BY DEF TxsMatch
<1>1. CASE t \in L!TxsOf(b)
  BY <1>1, ConfirmedHere
<1>2. CASE t \notin L!TxsOf(b) /\ us[t] = ts[t]
  <2>1. IsConfirmed(us, t, h) <=> IsConfirmed(ts, t, h)
    BY <1>2 DEF IsConfirmed
  <2>2. ConfirmedIn(L!Chain(e), t, h) <=> ConfirmedIn(D, t, h)
    BY <1>2, NotHere
  <2> QED
    BY <2>1, <2>2 DEF TxsMatch
<1> QED
  BY <1>1, <1>2

-----------------------------------------------------------------------------
(* Writes that no chain sees.                                              *)

SameMints(cs, ds) == \A c \in Coins : \A h \in Nat : IsMinted(ds, c, h) <=> IsMinted(cs, c, h)
SameSpends(cs, ds) ==
  \A c \in Coins : \A h \in Nat : \A t \in Txs : IsSpent(ds, c, h, t) <=> IsSpent(cs, c, h, t)
SameTxs(ts, us) == \A t \in Txs : \A h \in Nat : IsConfirmed(us, t, h) <=> IsConfirmed(ts, t, h)

LEMMA MatchesKept ==
  ASSUME NEW D, NEW H \in SUBSET Nat
  PROVE  /\ \A cs, ds : SameMints(cs, ds) /\ MintsMatch(cs, D, H) => MintsMatch(ds, D, H)
         /\ \A cs, ds : SameSpends(cs, ds) /\ SpendsMatch(cs, D, H) => SpendsMatch(ds, D, H)
         /\ \A ts, us : SameTxs(ts, us) /\ TxsMatch(ts, D, H) => TxsMatch(us, D, H)
<1>1. ASSUME NEW cs, NEW ds, SameMints(cs, ds), MintsMatch(cs, D, H) PROVE MintsMatch(ds, D, H)
  BY <1>1 DEF SameMints, MintsMatch
<1>2. ASSUME NEW cs, NEW ds, SameSpends(cs, ds), SpendsMatch(cs, D, H) PROVE SpendsMatch(ds, D, H)
  BY <1>2 DEF SameSpends, SpendsMatch
<1>3. ASSUME NEW ts, NEW us, SameTxs(ts, us), TxsMatch(ts, D, H) PROVE TxsMatch(us, D, H)
  BY <1>3 DEF SameTxs, TxsMatch
<1> QED
  BY <1>1, <1>2, <1>3

LEMMA RollingKept ==
  ASSUME NEW p, NEW f, NEW left, NEW cs, NEW ds, NEW ts, NEW us,
         SameMints(cs, ds), SameSpends(cs, ds), SameTxs(ts, us),
         Rolling(cs, ts, p, f, left)
  PROVE  Rolling(ds, us, p, f, left)
<1>1. AllMatch(ds, us, L!Chain(p), Below(f))
  <2>1. Below(f) \in SUBSET Nat
    BY DEF Below
  <2> QED
    BY <2>1, MatchesKept DEF Rolling, AllMatch
<1>2. "coins" \in left => SpentLater(ds)
  BY DEF Rolling, SpentLater, SameMints, SameSpends
<1>3. "txs" \notin left => \A t \in Txs : \A h \in Nat : IsConfirmed(us, t, h) => h < f
  BY DEF Rolling, SameTxs
<1>4. "coins" \notin left => \A c \in Coins : \A h \in Nat : IsMinted(ds, c, h) => h < f
  BY DEF Rolling, SameMints
<1> QED
  BY <1>1, <1>2, <1>3, <1>4 DEF Rolling

LEMMA FillingKept ==
  ASSUME NEW p, NEW U, NEW step, NEW cs, NEW ds, NEW ts, NEW us,
         SameMints(cs, ds), SameSpends(cs, ds), SameTxs(ts, us),
         Filling(cs, ts, p, U, step)
  PROVE  Filling(ds, us, p, U, step)
<1>1. /\ \A D : MintsMatch(cs, D, Nat) => MintsMatch(ds, D, Nat)
      /\ \A D : SpendsMatch(cs, D, Nat) => SpendsMatch(ds, D, Nat)
      /\ \A D : TxsMatch(ts, D, Nat) => TxsMatch(us, D, Nat)
  BY MatchesKept
<1> QED
  BY <1>1 DEF Filling

\* A crash may come after any of the writes.
LEMMA FillingFromThere ==
  ASSUME NEW cs, NEW ts, NEW p, NEW U, NEW step, Filling(cs, ts, p, U, step)
  PROVE  Filling(cs, ts, p, U, "mint")
BY DEF Filling

LEMMA NothingUnfinished ==
  ASSUME NEW cs, NEW ts, NEW p
  PROVE  Filling(cs, ts, p, {}, "mint") <=> AllMatch(cs, ts, L!Chain(p), Nat)
BY DEF Filling, AllMatch

\* A step that is not the sync's, and writes nothing that a chain sees.
LEMMA DocsKept ==
  ASSUME DocsMatch, SameMints(coins, coins'), SameSpends(coins, coins'), SameTxs(txs, txs'),
         sync' = sync, blocks' = blocks, imp'[Syncer].pc = imp[Syncer].pc
  PROVE  DocsMatch'
<1>1. LocalTip' = LocalTip
  BY TipRests
<1>2. sync.pc \in Rollback => Rolling(coins', txs', LocalTip', sync.from, sync.left)
  BY <1>1, RollingKept DEF DocsMatch
<1>3. sync.pc \notin Rollback =>
        Filling(coins', txs', LocalTip', Unfinished(blocks), FillStep)
  BY <1>1, FillingKept DEF DocsMatch
<1>4. FillStep' = FillStep
  BY DEF FillStep
<1> QED
  BY <1>2, <1>3, <1>4 DEF DocsMatch

LEMMA NothingWritten ==
  /\ \A cs : SameMints(cs, cs) /\ SameSpends(cs, cs)
  /\ \A ts : SameTxs(ts, ts)
BY DEF SameMints, SameSpends, SameTxs

LEMMA ImportsKept ==
  ASSUME TypeInv, ImportsRight, imp' = imp,
         sync.pc = "import" => Current' = Current /\ blocks' = blocks
  PROVE  ImportsRight'
<1>1. PICK U : U = Unfinished(blocks')
  OBVIOUS
<1> SUFFICES ASSUME NEW i \in Importers PROVE ImportOK(i, imp[i], Current', U)
  BY <1>1 DEF ImportsRight
<1>2. ImportOK(i, imp[i], Current, Unfinished(blocks))
  BY DEF ImportsRight
<1>3. CASE i # Syncer
  BY <1>2, <1>3 DEF ImportOK, Spenders, BatchOf
<1>4. CASE i = Syncer /\ sync.pc # "import"
  <2>1. imp[i].pc = "off"
    BY <1>4 DEF TypeInv, ImpTyped
  <2> QED
    BY <2>1 DEF ImportOK
<1>5. CASE sync.pc = "import"
  BY <1>1, <1>2, <1>5
<1> QED
  BY <1>3, <1>4, <1>5

\* The sync goes on without a write to the collections.
LEMMA RestKept ==
  ASSUME IndexInv, coins' = coins, txs' = txs, blocks' = blocks,
         sync.pc \notin Rollback, sync'.pc \in Resting, ImportsRight', UnfinishedRight'
  PROVE  IndexInv'
<1>1. LocalTip' = LocalTip
  BY TipRests
<1>2. sync'.pc \notin Rollback /\ FillStep' = "mint"
  BY DEF Resting, Rollback, FillStep
<1>3. DocsMatch'
  BY <1>1, <1>2, FillingFromThere DEF IndexInv, DocsMatch, Rollback
<1>4. LinkRight'
  BY DEF LinkRight, Resting
<1> QED
  BY <1>1, <1>3, <1>4 DEF IndexInv

LEMMA Aside ==
  ASSUME IndexInv, coins' = coins, txs' = txs, blocks' = blocks, sync' = sync,
         imp'[Syncer] = imp[Syncer], ImportsRight', UnfinishedRight'
  PROVE  IndexInv'
<1>1. LocalTip' = LocalTip
  BY TipRests
<1>2. DocsMatch'
  BY NothingWritten, DocsKept DEF IndexInv
<1>3. LinkRight'
  BY <1>1 DEF IndexInv, LinkRight, Current
<1> QED
  BY <1>1, <1>2, <1>3 DEF IndexInv

\* Headers are asked for, and the unfinished block is the first to come.
LEMMA HeadersOnChain ==
  ASSUME TypeInv, NEW headers, headers = HeadersAfter(Locators)
  PROVE  Mendable(best, headers)
<1>1. PICK last : HeadersFrom(headers, Locators, last)
  BY HeadersAreChain DEF TypeInv, NetTyped
<1>2. PICK chain : chain = L!ChainOf[best]
  OBVIOUS
<1>3. best \in Blocks
  BY DEF TypeInv, NetTyped
<1>4. /\ Len(headers) = Len(chain) - last /\ last \in 1 .. Len(chain) /\ Len(chain) \in Nat
      /\ \A i \in 1 .. Len(headers) : headers[i] = chain[last + i]
      /\ \A i \in 1 .. Len(chain) : chain[i] \in L!Chain(best)
  <2>1. chain \in Seq(Blocks) /\ \A i \in 1 .. Len(chain) : chain[i] \in L!Chain(best)
    BY <1>3, <1>2, ChainShape, ChainMembers
  <2> QED
    BY <1>1, <1>2, <2>1 DEF HeadersFrom
<1>5. ASSUME NEW n \in 1 .. Len(headers)
      PROVE  headers[n] \in L!Chain(best)
  <2>1. last + n \in 1 .. Len(chain)
    BY <1>4
  <2> QED
    BY <1>4, <2>1
<1> QED
  BY <1>5 DEF Mendable

LEMMA HeirComesNext ==
  ASSUME TypeInv, TreeInv, LocalTip # NoBlock, NEW x \in Blocks, Heir(best, LocalTip, x),
         NEW headers, headers = HeadersAfter(Locators)
  PROVE  headers # <<>> /\ Head(headers) = x
<1>1. PICK p, chain, locators :
        p = LocalTip /\ chain = L!ChainOf[best] /\ locators = Locators
  OBVIOUS
<1>2. best \in Blocks /\ p \in Blocks /\ p # NoBlock
  BY <1>1 DEF TypeInv, NetTyped, TreeInv, Holds
<1>3. x # Genesis /\ Parent[x] = p /\ x \in L!Chain(best)
  BY <1>1, <1>2 DEF Heir
<1>4. PICK last : HeadersFrom(headers, locators, last)
  BY <1>1, <1>2, HeadersAreChain
<1>5. /\ last \in 1 .. Len(chain) /\ headers \in Seq(Blocks)
      /\ Len(headers) = Len(chain) - last
      /\ \A i \in 1 .. Len(headers) : headers[i] = chain[last + i]
      /\ last = 1 \/ chain[last] \in locators
      /\ \A j \in 1 .. Len(chain) : chain[j] \in locators => j <= last
      /\ Len(chain) \in Nat
  BY <1>1, <1>2, <1>4, ChainShape DEF HeadersFrom
<1>6. /\ L!Height(x) + 1 \in 1 .. Len(chain) /\ x = chain[L!Height(x) + 1]
      /\ L!Height(x) = L!Height(p) + 1 /\ L!Height(p) \in Nat
  BY <1>1, <1>2, <1>3, ChainAt, ChainOfChild, ChainMembers
<1>7. p = chain[L!Height(p) + 1] /\ L!Height(p) + 1 \in 1 .. Len(chain)
  <2>1. L!Height(x) + 1 # 1 /\ L!Height(x) + 1 - 1 = L!Height(p) + 1
    BY <1>6
  <2>2. Parent[x] = chain[L!Height(x) + 1 - 1]
    BY <1>1, <1>2, <1>6, <2>1, ChainParent
  <2> QED
    BY <1>3, <1>5, <1>6, <2>1, <2>2
<1>8. last = L!Height(p) + 1
  <2>1. CASE AtGenesis(p)
    <3>1. p = Genesis /\ L!Height(p) = 0
      BY <1>2, <2>1, ChainOfGenesis DEF AtGenesis
    <3>2. locators = {}
      BY <1>1, <2>1, TipIsLocator
    <3> QED
      BY <1>5, <3>1, <3>2
  <2>2. CASE ~ AtGenesis(p)
    <3>1. p \in locators /\ locators \subseteq L!Chain(p)
      BY <1>1, <2>2, TipIsLocator
    <3>2. L!Height(p) + 1 <= last
      BY <1>5, <1>7, <3>1
    <3>3. CASE last = 1
      BY <1>6, <3>2, <3>3
    <3>4. CASE chain[last] \in locators
      <4>1. L!Height(chain[last]) <= L!Height(p)
        BY <1>2, <3>1, <3>4, HighestOfChain
      <4>2. L!Height(chain[last]) = last - 1
        BY <1>1, <1>2, <1>5, ChainMembers
      <4> QED
        BY <1>5, <1>6, <3>2, <4>1, <4>2
    <3> QED
      BY <1>5, <3>3, <3>4
  <2> QED
    BY <2>1, <2>2
<1>9. Len(headers) \in Nat /\ Len(headers) >= 1 /\ headers[1] = x
  <2>1. last + 1 = L!Height(x) + 1
    BY <1>6, <1>8
  <2>2. Len(headers) \in Nat /\ 1 \in 1 .. Len(headers)
    BY <1>5, <1>6, <2>1
  <2> QED
    BY <1>5, <1>6, <2>1, <2>2
<1> QED
  BY <1>5, <1>9, RestOfQueue

LEMMA OwedStep ==
  ASSUME blocks' = blocks, best' = best, NEW pc, NEW q, GoesTo(pc, q),
         Owed(best, LocalTip, pc, q, Unfinished(blocks))
  PROVE  UnfinishedRight'
<1>1. LocalTip' = LocalTip
  BY TipRests
<1>2. sync'.pc = pc /\ sync'.queue = q
  BY DEF GoesTo
<1> QED
  BY <1>1, <1>2 DEF UnfinishedRight

LEMMA OwedKept ==
  ASSUME UnfinishedRight, blocks' = blocks, best' = best, sync' = sync
  PROVE  UnfinishedRight'
BY TipRests DEF UnfinishedRight

\* Nothing is unfinished but what a crash has left.
LEMMA OwedOutside ==
  ASSUME UnfinishedRight, sync.pc \notin Storing
  PROVE  \A x \in Unfinished(blocks) : x \in Blocks /\ Heir(best, LocalTip, x)
BY DEF UnfinishedRight, Owed, Unfinished

LEMMA HeadersMatch ==
  ASSUME OnePeer, TypeInv, TreeInv, IndexInv, Begin \/ AskGenesis \/ Ask
  PROVE  IndexInv'
<1>1. /\ coins' = coins /\ txs' = txs /\ blocks' = blocks /\ imp' = imp /\ best' = best
      /\ sync.pc \in {"begin", "askGenesis", "ask"}
  BY DEF Begin, AskGenesis, Ask, db, net
<1>2. sync.pc \notin Rollback /\ sync.pc # "import" /\ sync.pc \notin Storing
  BY <1>1 DEF Rollback, Storing
<1>3. PICK U, p : U = Unfinished(blocks) /\ p = LocalTip
  OBVIOUS
<1>4. \A x \in U : x \in Blocks /\ Heir(best, p, x)
  BY <1>2, <1>3, OwedOutside DEF IndexInv
<1>5. sync'.pc \in Resting /\ UnfinishedRight'
  <2>1. CASE Begin
    <3>1. PICK pc : /\ pc = IF TipHeight = 0 THEN "askGenesis" ELSE "ask"
                    /\ sync' = [sync EXCEPT !.pc = pc, !.queue = <<>>]
      BY <2>1 DEF Begin
    <3>2. GoesTo(pc, <<>>)
      BY <3>1, SetStepAndQueue DEF TypeInv, SyncTyped
    <3>3. pc \in {"askGenesis", "ask"}
      BY <3>1
    <3>4. Owed(best, p, pc, <<>>, U)
      BY <1>4, <3>3 DEF Owed, Rollback, Working, Storing
    <3>5. sync'.pc \in Resting
      BY <3>2, <3>3 DEF GoesTo, Resting
    <3> QED
      BY <1>1, <1>3, <3>2, <3>4, <3>5, OwedStep
  <2>2. CASE AskGenesis
    <3>1. PICK headers \in Answers :
            /\ Receive(headers)
            /\ sync' = IF headers = <<>> THEN [sync EXCEPT !.pc = "ask"]
                       ELSE [sync EXCEPT !.pc = "add", !.queue = <<Parent[Head(headers)]>>]
      BY <2>2 DEF AskGenesis
    <3>2. headers # <<>> /\ Parent[Head(headers)] = Genesis
      <4>1. headers = HeadersAfter(Locators)
        BY <3>1, Answered DEF OnePeer
      <4>2. AtGenesis(LocalTip)
        BY <2>2 DEF AskGenesis, TreeInv, Place
      <4> QED
        BY <4>1, <4>2, HeadersPlaced
    <3>3. PICK q : q = <<Genesis>>
      OBVIOUS
    <3>4. GoesTo("add", q)
      BY <3>1, <3>2, <3>3, SetStepAndQueue DEF TypeInv, SyncTyped
    <3>5. Mendable(best, q) /\ Head(q) = Genesis
      <4>1. Len(q) = 1 /\ q[1] = Genesis /\ Head(q) = Genesis
        BY <3>3
      <4>2. Genesis \in L!Chain(best)
        BY ChainMembers DEF TypeInv, NetTyped
      <4> QED
        BY <4>1, <4>2 DEF Mendable
    <3>6. Owed(best, p, "add", q, U)
      BY <1>4, <3>5 DEF Owed, Rollback, Storing
    <3>7. sync'.pc \in Resting
      BY <3>4 DEF GoesTo, Resting
    <3> QED
      BY <1>1, <1>3, <3>4, <3>6, <3>7, OwedStep
  <2>3. CASE Ask
    <3>1. PICK headers \in Answers :
            /\ Receive(headers)
            /\ \/ headers = <<>> /\ sync' = [sync EXCEPT !.pc = "idle"]
               \/ headers # <<>> /\ sync' = [sync EXCEPT !.pc = "add", !.queue = headers]
      BY <2>3 DEF Ask
    <3>2. headers = HeadersAfter(Locators)
      BY <3>1, Answered DEF OnePeer
    <3>3. p # NoBlock
      BY <1>3, <2>3 DEF Ask, TreeInv, Place
    <3>4. \A x \in U : headers # <<>> /\ Head(headers) = x
      BY <1>3, <1>4, <3>2, <3>3, HeirComesNext
    <3>5. CASE headers = <<>> /\ sync' = [sync EXCEPT !.pc = "idle"]
      <4>1. GoesTo("idle", sync.queue)
        BY <3>5, SetStep DEF TypeInv, SyncTyped
      <4>2. Owed(best, p, "idle", sync.queue, U)
        BY <3>4, <3>5 DEF Owed, Working, Storing
      <4>3. sync'.pc \in Resting
        BY <4>1 DEF GoesTo, Resting
      <4> QED
        BY <1>1, <1>3, <4>1, <4>2, <4>3, OwedStep
    <3>6. CASE headers # <<>> /\ sync' = [sync EXCEPT !.pc = "add", !.queue = headers]
      <4>1. GoesTo("add", headers)
        BY <3>6, SetStepAndQueue DEF TypeInv, SyncTyped
      <4>2. Mendable(best, headers)
        BY <3>2, HeadersOnChain
      <4>3. Owed(best, p, "add", headers, U)
        BY <1>4, <3>4, <4>2 DEF Owed, Rollback, Storing
      <4>4. sync'.pc \in Resting
        BY <4>1 DEF GoesTo, Resting
      <4> QED
        BY <1>1, <1>3, <4>1, <4>3, <4>4, OwedStep
    <3> QED
      BY <3>1, <3>5, <3>6
  <2> QED
    BY <2>1, <2>2, <2>3
<1> QED
  BY <1>1, <1>2, <1>5, ImportsKept, RestKept DEF IndexInv

\* The peers' chain grows, or they go over to a higher one.
LEMMA SwitchMatch ==
  ASSUME CrashesHeal, TypeInv, IndexInv, NEW b \in Blocks, Switch(b)
  PROVE  IndexInv'
<1>1. /\ coins' = coins /\ txs' = txs /\ blocks' = blocks /\ imp' = imp /\ sync' = sync
      /\ best' = b
  BY DEF Switch, db
<1>2. \A x \in CrashBlocks : x \in L!Chain(best) => x \in L!Chain(b)
  BY DEF Switch, CrashesHeal, TypeInv, NetTyped
<1>3. UnfinishedRight'
  <2>1. PICK p, q, top : p = LocalTip /\ q = sync.queue /\ top = best
    OBVIOUS
  <2>2. Owed(top, p, sync.pc, q, Unfinished(blocks))
    BY <2>1 DEF IndexInv, UnfinishedRight
  <2>3. \A x : Heir(top, p, x) => Heir(b, p, x)
    BY <1>2, <2>1 DEF Heir
  <2>4. Mendable(top, q) => Mendable(b, q)
    BY <1>2, <2>1 DEF Mendable
  <2>5. Owed(b, p, sync.pc, q, Unfinished(blocks))
    BY <2>2, <2>3, <2>4 DEF Owed
  <2>6. LocalTip' = p
    BY <1>1, <2>1, TipRests
  <2> QED
    BY <1>1, <2>1, <2>5, <2>6 DEF UnfinishedRight
<1>4. Current' = Current
  BY <1>1 DEF Current
<1> QED
  BY <1>1, <1>3, <1>4, ImportsKept, Aside DEF IndexInv

\* A crash leaves the block it interrupts to the next sync.
LEMMA CrashMatch ==
  ASSUME CrashesHeal, TypeInv, TreeInv, IndexInv, Crash
  PROVE  IndexInv'
<1>1. /\ coins' = coins /\ txs' = txs /\ blocks' = blocks /\ best' = best
      /\ sync.pc \in CrashPoints /\ (~ Quiet => Current \in CrashBlocks)
      /\ sync' = [pc |-> "begin", queue |-> <<>>, left |-> {}, from |-> 0]
  BY DEF Crash, db
<1>2. sync.pc \notin Rollback /\ sync'.pc = "begin" /\ GoesTo("begin", <<>>)
  BY <1>1 DEF CrashesHeal, Rollback, GoesTo
<1>3. \A i \in Importers : imp'[i].pc = "off"
  BY DEF Crash
<1>4. ImportsRight'
  BY <1>3 DEF ImportsRight, ImportOK
<1>5. PICK p, q, b, U : p = LocalTip /\ q = sync.queue /\ b = Current /\ U = Unfinished(blocks)
  OBVIOUS
<1>6. Owed(best, p, sync.pc, q, U) /\ b = Head(q)
  BY <1>5 DEF IndexInv, UnfinishedRight, Current
<1>7. ASSUME sync.pc \in Storing
      PROVE  Heir(best, p, b)
  <2>1. b \in CrashBlocks
    BY <1>1, <1>5, <1>7 DEF Quiet, Storing
  <2>2. Mendable(best, q)
    BY <1>6, <1>7 DEF Owed, Working
  <2>3. q \in Seq(Blocks) /\ q # <<>>
    BY <1>5, <1>7 DEF TypeInv, SyncTyped, Working
  <2>4. Len(q) \in Nat /\ 1 \in 1 .. Len(q) /\ q[1] = b
    BY <1>6, <2>3, RestOfQueue
  <2>5. b \in L!Chain(best)
    BY <2>1, <2>2, <2>4 DEF Mendable
  <2>6. Half(blocks, p, q)
    BY <1>5, <1>7 DEF TreeInv, Place
  <2> QED
    BY <1>6, <2>1, <2>5, <2>6 DEF Heir, Half, Fits
<1>8. Owed(best, p, "begin", <<>>, U)
  BY <1>6, <1>7 DEF Owed, Rollback, Working, Storing
<1>9. UnfinishedRight'
  BY <1>1, <1>2, <1>5, <1>8, OwedStep
<1> QED
  BY <1>1, <1>2, <1>4, <1>9, RestKept DEF Resting

LEMMA OutsideMatch ==
  ASSUME CrashesHeal, TypeInv, TreeInv, IndexInv,
         \/ \E t \in Relayed : Relay(t)
         \/ \E b \in Blocks : Switch(b)
         \/ Announcement \/ RecordSynced \/ Crash \/ UNCHANGED vars
  PROVE  IndexInv'
<1>1. ASSUME NEW t \in Relayed, Relay(t)
      PROVE  IndexInv'
  <2>1. t \in Importers /\ t # Syncer /\ Syncer \in Importers
    BY IndexAssumption DEF Importers
  <2>2. Moves(t, "mint")
    BY <1>1, <2>1, ImportMoves DEF Relay, TypeInv
  <2>3. /\ sync' = sync /\ Current' = Current /\ blocks' = blocks /\ best' = best
        /\ coins' = coins /\ txs' = txs
    BY <1>1 DEF Relay, Current, db, net
  <2>4. ImportsRight'
    <3>1. PICK U : U = Unfinished(blocks)
      OBVIOUS
    <3> SUFFICES ASSUME NEW i \in Importers PROVE ImportOK(i, imp'[i], Current, U)
      BY <2>3, <3>1 DEF ImportsRight
    <3>2. CASE i = t
      <4>1. imp'[i].pc = "mint"
        BY <2>2, <3>2 DEF Moves
      <4> QED
        BY <4>1 DEF ImportOK
    <3>3. CASE i # t
      BY <2>2, <3>1, <3>3 DEF Moves, IndexInv, ImportsRight
    <3> QED
      BY <3>2, <3>3
  <2>5. imp'[Syncer] = imp[Syncer]
    BY <2>1, <2>2 DEF Moves
  <2> QED
    BY <2>3, <2>4, <2>5, OwedKept, Aside DEF IndexInv
<1>2. CASE RecordSynced \/ UNCHANGED vars
  <2>1. /\ sync' = sync /\ Current' = Current /\ blocks' = blocks /\ best' = best
        /\ coins' = coins /\ txs' = txs /\ imp' = imp
    BY <1>2 DEF RecordSynced, net, vars, Current
  <2> QED
    BY <2>1, ImportsKept, OwedKept, Aside DEF IndexInv
<1>3. CASE Announcement
  <2>1. imp' = imp /\ blocks' = blocks /\ best' = best /\ coins' = coins /\ txs' = txs
    BY <1>3 DEF Announcement, db
  <2>2. CASE sync' = sync
    <3>1. Current' = Current
      BY <2>2 DEF Current
    <3> QED
      BY <2>1, <2>2, <3>1, ImportsKept, OwedKept, Aside DEF IndexInv
  <2>3. CASE sync.pc = "idle" /\ sync' = [sync EXCEPT !.pc = "begin"]
    <3>1. sync.pc \notin Rollback /\ sync.pc # "import"
      BY <2>3 DEF Rollback
    <3>2. GoesTo("begin", sync.queue)
      BY <2>3, SetStep DEF TypeInv, SyncTyped
    <3>3. sync'.pc \in Resting
      BY <3>2 DEF GoesTo, Resting
    <3>4. Owed(best, LocalTip, "begin", sync.queue, Unfinished(blocks))
      BY <2>3 DEF IndexInv, UnfinishedRight, Owed, Rollback, Working, Storing
    <3>5. UnfinishedRight'
      BY <2>1, <3>2, <3>4, OwedStep
    <3> QED
      BY <2>1, <3>1, <3>3, <3>5, ImportsKept, RestKept DEF IndexInv
  <2> QED
    BY <1>3, <2>2, <2>3 DEF Announcement
<1> QED
  BY <1>1, <1>2, <1>3, SwitchMatch, CrashMatch

-----------------------------------------------------------------------------
(* The rollback.                                                           *)

\* What a chain spends it has minted at or below.
LEMMA SpentAreMinted ==
  ASSUME ValidChains, NEW p \in Blocks \cup {NoBlock}, NEW cs,
         MintsMatch(cs, L!Chain(p), Nat), SpendsMatch(cs, L!Chain(p), Nat)
  PROVE  SpentLater(cs)
<1> SUFFICES ASSUME NEW c \in Coins, NEW h \in Nat, NEW t \in Txs, IsSpent(cs, c, h, t)
             PROVE  \E k \in Nat : k <= h /\ IsMinted(cs, c, k)
  BY DEF SpentLater
<1>1. SpentIn(L!Chain(p), c, h, t)
  BY DEF SpendsMatch
<1>2. PICK d \in L!Chain(p) : L!Height(d) = h /\ t \in L!TxsOf(d) /\ c \in L!Spends(t)
  BY <1>1 DEF SpentIn
<1>3. p \in Blocks
  BY <1>2, ChainOfGenesis
<1>4. d \in Blocks /\ L!Chain(d) \subseteq L!Chain(p)
  BY <1>2, <1>3, ChainAt
<1>5. PICK e \in L!Chain(d) : \E u \in L!TxsOf(e) : c \in Outputs[u]
  BY <1>2, <1>4 DEF ValidChains
<1>6. L!Height(e) \in Nat /\ L!Height(e) <= h
  BY <1>2, <1>4, HighestOfChain
<1>7. MintedIn(L!Chain(p), c, L!Height(e))
  BY <1>4, <1>5 DEF MintedIn
<1> QED
  BY <1>6, <1>7 DEF MintsMatch

LEMMA NoneUnfinished ==
  ASSUME UnfinishedRight, sync.pc \in {"idle"} \cup Rollback
  PROVE  Unfinished(blocks) = {}
BY DEF UnfinishedRight, Owed

LEMMA OwedNothing ==
  ASSUME Unfinished(blocks') = {}, sync'.pc \notin Working
  PROVE  UnfinishedRight'
BY DEF UnfinishedRight, Owed

\* An unfinished block is never taken for a fork.
LEMMA ForksLeaveNothing ==
  ASSUME UnfinishedRight, sync.pc = "add", Forks(LocalTip, sync.queue)
  PROVE  Unfinished(blocks) = {}
<1>1. PICK p, q, U : p = LocalTip /\ q = sync.queue /\ U = Unfinished(blocks)
  OBVIOUS
<1>2. Head(q) # Genesis /\ p # NoBlock /\ Parent[Head(q)] # p
  BY <1>1 DEF Forks, AtGenesis
<1>3. \A x \in U : Heir(best, p, x) /\ (x = Head(q) \/ Head(q) = Genesis)
  BY <1>1 DEF UnfinishedRight, Owed, Working, Storing
<1>4. ASSUME NEW x \in U
      PROVE  FALSE
  BY <1>2, <1>3 DEF Heir
<1> QED
  BY <1>1, <1>4

LEMMA AddBlockMatch ==
  ASSUME ValidChains, TypeInv, TreeInv, IndexInv, AddBlock
  PROVE  IndexInv'
<1>1. /\ coins' = coins /\ txs' = txs /\ blocks' = blocks /\ imp' = imp /\ best' = best
      /\ sync.pc = "add"
  BY DEF AddBlock, db, net
<1>2. ImportsRight'
  BY <1>1, ImportsKept DEF IndexInv
<1>3. CASE ExtendsTip(Current)
  <2>1. GoesTo("store", sync.queue)
    BY <1>3, SetStep DEF AddBlock, TypeInv, SyncTyped
  <2>2. Owed(best, LocalTip, "store", sync.queue, Unfinished(blocks))
    BY <1>1 DEF IndexInv, UnfinishedRight, Owed, Rollback, Working, Storing
  <2>3. UnfinishedRight'
    BY <1>1, <2>1, <2>2, OwedStep
  <2>4. sync.pc \notin Rollback /\ sync'.pc \in Resting
    BY <1>1, <2>1 DEF GoesTo, Resting, Rollback
  <2> QED
    BY <1>1, <1>2, <2>3, <2>4, RestKept
<1>4. CASE ~ ExtendsTip(Current)
  <2>1. sync'.pc = "reorg" /\ sync'.left = {"blocks", "txs", "coins"}
    BY <1>4 DEF AddBlock, TypeInv, SyncTyped
  <2>2. PICK p, f, left : p = LocalTip /\ f = sync'.from /\ left = sync'.left
    OBVIOUS
  <2>3. p \in Blocks \cup {NoBlock}
    BY <2>2 DEF TreeInv, Holds
  <2>4. Unfinished(blocks) = {}
    <3>1. Forks(LocalTip, sync.queue)
      BY <1>1, <1>4, FitsExtends DEF TreeInv, Place
    <3> QED
      BY <1>1, <3>1, ForksLeaveNothing DEF IndexInv
  <2>5. AllMatch(coins, txs, L!Chain(p), Nat)
    <3>1. FillStep = "mint" /\ sync.pc \notin Rollback
      BY <1>1 DEF FillStep, Rollback
    <3>2. Filling(coins, txs, p, {}, "mint")
      BY <2>2, <2>4, <3>1 DEF IndexInv, DocsMatch
    <3> QED
      BY <3>2, NothingUnfinished
  <2>6. Rolling(coins, txs, p, f, left)
    <3>1. SpentLater(coins)
      BY <2>3, <2>5, SpentAreMinted DEF AllMatch
    <3>2. AllMatch(coins, txs, L!Chain(p), Below(f))
      BY <2>5 DEF AllMatch, MintsMatch, SpendsMatch, TxsMatch, Below
    <3> QED
      BY <2>1, <2>2, <3>1, <3>2 DEF Rolling
  <2>7. LocalTip' = p
    BY <1>1, <2>2, TipRests
  <2>8. DocsMatch'
    BY <1>1, <2>1, <2>2, <2>6, <2>7 DEF DocsMatch, Rollback
  <2>9. LinkRight'
    BY <2>1 DEF LinkRight
  <2>10. UnfinishedRight'
    BY <1>1, <2>1, <2>4, OwedNothing DEF Working, Storing
  <2> QED
    BY <1>1, <1>2, <2>2, <2>7, <2>8, <2>9, <2>10 DEF IndexInv
<1> QED
  BY <1>3, <1>4

LEMMA DeletedSync ==
  ASSUME TypeInv, NEW what, Deleted(what)
  PROVE  /\ sync.pc = "reorg" /\ what \in sync.left
         /\ sync'.pc \in Rollback /\ sync'.from = sync.from
         /\ sync'.left = sync.left \ {what} /\ sync'.queue = sync.queue
         /\ sync'.pc = "unspend" => sync'.left = {}
<1>1. sync.pc = "reorg" /\ what \in sync.left
  BY DEF Deleted
<1>2. PICK left : left = sync.left \ {what}
  OBVIOUS
<1>3. sync' = [sync EXCEPT !.left = left, !.pc = IF left = {} THEN "unspend" ELSE "reorg"]
  BY <1>2 DEF Deleted
<1>4. CASE left = {}
  <2>1. sync' = [sync EXCEPT !.left = left, !.pc = "unspend"]
    BY <1>3, <1>4
  <2> QED
    BY <1>1, <1>2, <1>4, <2>1 DEF TypeInv, SyncTyped, Rollback
<1>5. CASE left # {}
  <2>1. sync' = [sync EXCEPT !.left = left, !.pc = "reorg"]
    BY <1>3, <1>5
  <2> QED
    BY <1>1, <1>2, <1>5, <2>1 DEF TypeInv, SyncTyped, Rollback
<1> QED
  BY <1>4, <1>5

\* A deletion keeps the invariant if it keeps its part of it.
LEMMA RolledBack ==
  ASSUME TypeInv, IndexInv, NEW what, Deleted(what), imp' = imp,
         Rolling(coins', txs', LocalTip', sync.from, sync.left \ {what}),
         Unfinished(blocks') \subseteq Unfinished(blocks),
         PendingRight(coins'), NextRight(blocks', LocalTip')
  PROVE  IndexInv'
<1>1. /\ sync.pc = "reorg" /\ sync'.pc \in Rollback /\ sync'.from = sync.from
      /\ sync'.left = sync.left \ {what}
      /\ sync'.pc = "unspend" => sync'.left = {}
  BY DeletedSync
<1>2. ImportsRight'
  BY <1>1, ImportsKept DEF IndexInv
<1>3. DocsMatch'
  BY <1>1 DEF DocsMatch
<1>4. LinkRight'
  BY <1>1 DEF LinkRight, Rollback
<1>5. UnfinishedRight'
  <2>1. Unfinished(blocks) = {}
    BY <1>1, NoneUnfinished DEF IndexInv, Rollback
  <2> QED
    BY <1>1, <2>1, OwedNothing DEF Rollback, Working, Storing
<1> QED
  BY <1>2, <1>3, <1>4, <1>5 DEF IndexInv

LEMMA DeleteTxsMatch ==
  ASSUME TypeInv, TreeInv, IndexInv, DeleteTxs
  PROVE  IndexInv'
<1>1. PICK p, f, left : p = LocalTip /\ f = sync.from /\ left = sync.left
  OBVIOUS
<1>2. /\ coins' = coins /\ blocks' = blocks /\ imp' = imp /\ LocalTip' = p
      /\ f \in Nat /\ Deleted("txs")
  BY <1>1, TipRests DEF DeleteTxs, TreeInv
<1>3. Rolling(coins, txs, p, f, left)
  BY <1>1, <1>2, DeletedSync DEF IndexInv, DocsMatch, Rollback
<1>4. ASSUME NEW t \in Txs, NEW h \in Nat
      PROVE  IsConfirmed(txs', t, h) <=> IsConfirmed(txs, t, h) /\ h < f
  <2>1. txs'[t] = IF txs[t] # NoDoc /\ txs[t].height >= f THEN NoDoc ELSE txs[t]
    BY <1>1 DEF DeleteTxs, Seen
  <2>2. txs[t] # NoDoc => txs[t].height \in Int
    BY DEF TypeInv, DocsTyped, Seen, Pending, Conflicting, Expired
  <2> QED
    BY <1>2, <2>1, <2>2 DEF IsConfirmed
<1>5. TxsMatch(txs', L!Chain(p), Below(f))
  BY <1>3, <1>4 DEF Rolling, AllMatch, TxsMatch, Below
<1>6. Rolling(coins, txs', p, f, left \ {"txs"})
  BY <1>3, <1>4, <1>5 DEF Rolling, AllMatch
<1> QED
  BY <1>1, <1>2, <1>6, RolledBack DEF IndexInv

LEMMA DeleteCoinsMatch ==
  ASSUME TypeInv, TreeInv, IndexInv, DeleteCoins
  PROVE  IndexInv'
<1>1. PICK p, f, left : p = LocalTip /\ f = sync.from /\ left = sync.left
  OBVIOUS
<1>2. /\ txs' = txs /\ blocks' = blocks /\ imp' = imp /\ LocalTip' = p
      /\ f \in Nat /\ Deleted("coins") /\ "coins" \in left
  BY <1>1, TipRests, DeletedSync DEF DeleteCoins, TreeInv
<1>3. Rolling(coins, txs, p, f, left)
  BY <1>1, <1>2, DeletedSync DEF IndexInv, DocsMatch, Rollback
<1>4. ASSUME NEW c \in Coins
      PROVE  /\ coins'[c] = IF coins[c] # NoDoc /\ coins[c].mint >= f THEN NoDoc ELSE coins[c]
             /\ coins[c] # NoDoc => coins[c].mint \in Int
  <2>1. coins[c] # NoDoc => coins[c].mint \in Int
    BY DEF TypeInv, DocsTyped, CoinDoc, Pending, Conflicting, Expired
  <2> QED
    BY <1>1, <2>1 DEF DeleteCoins, Known
<1>5. ASSUME NEW c \in Coins, NEW h \in Nat
      PROVE  IsMinted(coins', c, h) <=> IsMinted(coins, c, h) /\ h < f
  BY <1>2, <1>4 DEF IsMinted
<1>6. ASSUME NEW c \in Coins, NEW h \in Below(f), NEW t \in Txs
      PROVE  IsSpent(coins', c, h, t) <=> IsSpent(coins, c, h, t)
  <2>1. h \in Nat /\ h < f
    BY DEF Below
  <2>2. ASSUME IsSpent(coins, c, h, t)
        PROVE  coins'[c] = coins[c]
    <3>1. PICK k \in Nat : k <= h /\ IsMinted(coins, c, k)
      BY <1>2, <1>3, <2>1, <2>2 DEF Rolling, SpentLater
    <3>2. ~ (coins[c].mint >= f)
      BY <1>2, <2>1, <3>1 DEF IsMinted
    <3> QED
      BY <1>4, <3>2
  <2>3. coins'[c] = coins[c] \/ coins'[c] = NoDoc
    BY <1>4
  <2> QED
    BY <2>2, <2>3 DEF IsSpent
<1>7. AllMatch(coins', txs, L!Chain(p), Below(f))
  <2>1. MintsMatch(coins', L!Chain(p), Below(f))
    BY <1>3, <1>5 DEF Rolling, AllMatch, MintsMatch, Below
  <2>2. SpendsMatch(coins', L!Chain(p), Below(f))
    BY <1>3, <1>6 DEF Rolling, AllMatch, SpendsMatch
  <2> QED
    BY <1>3, <2>1, <2>2 DEF Rolling, AllMatch
<1>8. Rolling(coins', txs, p, f, left \ {"coins"})
  BY <1>3, <1>5, <1>7 DEF Rolling
<1>9. PendingRight(coins')
  BY <1>4 DEF IndexInv, PendingRight
<1> QED
  BY <1>1, <1>2, <1>8, <1>9, RolledBack DEF IndexInv

LEMMA DeleteBlocksMatch ==
  ASSUME TypeInv, TreeInv, IndexInv, DeleteBlocks
  PROVE  IndexInv'
<1>1. PICK p, q, f, left : p = LocalTip /\ q = LocalTip' /\ f = sync.from /\ left = sync.left
  OBVIOUS
<1>2. coins' = coins /\ txs' = txs /\ imp' = imp /\ Deleted("blocks") /\ f \in Nat
  BY <1>1 DEF DeleteBlocks, TreeInv
<1>3. Rolling(coins, txs, p, f, left)
  BY <1>1, <1>2, DeletedSync DEF IndexInv, DocsMatch, Rollback
<1>4. L!Chain(q) = {b \in L!Chain(p) : L!Height(b) < f} /\ TreeInv'
  BY <1>1, DeleteBlocksInTree DEF TreeStep
<1>5. ASSUME NEW h \in Below(f)
      PROVE  /\ \A c : MintedIn(L!Chain(q), c, h) <=> MintedIn(L!Chain(p), c, h)
             /\ \A c, t : SpentIn(L!Chain(q), c, h, t) <=> SpentIn(L!Chain(p), c, h, t)
             /\ \A t : ConfirmedIn(L!Chain(q), t, h) <=> ConfirmedIn(L!Chain(p), t, h)
  <2>1. h < f
    BY DEF Below
  <2> QED
    BY <1>4, <2>1 DEF MintedIn, SpentIn, ConfirmedIn
<1>6. AllMatch(coins, txs, L!Chain(q), Below(f))
  BY <1>3, <1>5 DEF Rolling, AllMatch, MintsMatch, SpendsMatch, TxsMatch
<1>7. Rolling(coins, txs, q, f, left \ {"blocks"})
  BY <1>3, <1>4, <1>6 DEF Rolling
<1>8. Unfinished(blocks') \subseteq Unfinished(blocks)
  <2>1. ASSUME NEW b \in Blocks, blocks'[b] # NoDoc
        PROVE  blocks'[b] = blocks[b]
    BY <2>1 DEF DeleteBlocks
  <2> QED
    BY <2>1 DEF Unfinished
<1>9. NextRight(blocks', q)
  <2> SUFFICES ASSUME NEW b \in L!Chain(q), b # q
               PROVE  \E d \in L!Chain(q) : L!Height(d) = L!Height(b) + 1 /\ blocks'[b].next = d
    BY DEF NextRight
  <2>1. q \in Blocks
    <3>1. q # NoBlock
      BY ChainOfGenesis
    <3> QED
      BY <1>1, <1>4, <3>1 DEF TreeInv, Holds
  <2>2. /\ q \in L!Chain(p) /\ L!Height(q) < f /\ b \in L!Chain(p) /\ b \in Blocks
        /\ L!Height(q) \in Nat
    BY <1>4, <2>1, ChainMembers
  <2>3. L!Height(b) \in Nat /\ L!Height(b) < L!Height(q)
    <3>1. /\ L!Height(b) \in Nat /\ L!Height(b) <= L!Height(q)
          /\ L!Height(b) = L!Height(q) => b = q
      BY <2>1, HighestOfChain
    <3> QED
      BY <2>2, <3>1
  <2>4. p \in Blocks
    <3>1. p # NoBlock
      BY <2>2, ChainOfGenesis
    <3> QED
      BY <1>1, <3>1 DEF TreeInv, Holds
  <2>5. L!Height(q) <= L!Height(p)
    BY <2>2, <2>4, HighestOfChain
  <2>6. b # p
    BY <2>2, <2>3, <2>5
  <2>7. PICK d \in L!Chain(p) : L!Height(d) = L!Height(b) + 1 /\ blocks[b].next = d
    BY <1>1, <2>2, <2>6 DEF IndexInv, NextRight
  <2>8. d \in L!Chain(q)
    BY <1>2, <1>4, <2>2, <2>3, <2>7
  <2>9. blocks'[b] = blocks[b]
    <3>1. blocks[b] # NoDoc => blocks[b].height = L!Height(b)
      BY <2>2 DEF TreeInv, Holds
    <3>2. ~ (L!Height(b) >= f)
      BY <1>2, <2>2, <2>3
    <3>3. blocks'[b] = IF blocks[b] # NoDoc /\ blocks[b].height >= f THEN NoDoc ELSE blocks[b]
      BY <1>1, <2>2 DEF DeleteBlocks, Stored
    <3> QED
      BY <3>1, <3>2, <3>3
  <2> QED
    BY <2>7, <2>8, <2>9
<1> QED
  BY <1>1, <1>2, <1>7, <1>9, <1>8, RolledBack DEF IndexInv

LEMMA UnspendMatch ==
  ASSUME TypeInv, TreeInv, IndexInv, Unspend
  PROVE  IndexInv'
<1>1. PICK p, f : p = LocalTip /\ f = sync.from
  OBVIOUS
<1>2. /\ txs' = txs /\ blocks' = blocks /\ imp' = imp /\ LocalTip' = p
      /\ sync.pc = "unspend" /\ f \in Nat
  BY <1>1, TipRests DEF Unspend, TreeInv
<1>3. Rolling(coins, txs, p, f, {})
  BY <1>1, <1>2 DEF IndexInv, DocsMatch, Rollback
<1>4. ASSUME NEW c \in Coins
      PROVE  \/ /\ coins'[c] = coins[c]
                /\ coins[c] # NoDoc => coins[c].spent \in Int /\ coins[c].spent < f
             \/ /\ coins[c] # NoDoc /\ coins'[c] # NoDoc /\ coins[c].spent \in Int
                /\ coins[c].spent >= f
                /\ coins'[c].mint = coins[c].mint /\ coins'[c].spent = Unspent
  <2>1. coins[c] \in CoinDoc \cup {NoDoc}
    BY DEF TypeInv, DocsTyped
  <2>2. coins'[c] = IF coins[c] # NoDoc /\ coins[c].spent >= f
                    THEN [coins[c] EXCEPT !.spent = Unspent, !.by = NoTx] ELSE coins[c]
    BY <1>1 DEF Unspend, Known, GivenBack
  <2>3. CASE coins[c] # NoDoc /\ coins[c].spent >= f
    <3>1. PICK d : d = [coins[c] EXCEPT !.spent = Unspent, !.by = NoTx]
      OBVIOUS
    <3>2. coins[c] \in CoinDoc
      BY <2>1, <2>3
    <3>3. coins[c].spent \in Int /\ d.mint = coins[c].mint /\ d.spent = Unspent
      BY <3>1, <3>2 DEF CoinDoc, Unspent, Pending
    <3>4. d \in CoinDoc
      BY <3>1, <3>2 DEF CoinDoc, Unspent
    <3>5. d \in CoinDoc /\ d.mint = coins[c].mint /\ d.spent = Unspent /\ coins[c].spent \in Int
      BY <3>3, <3>4
    <3> QED
      BY <2>2, <2>3, <3>1, <3>5, Documents
  <2>4. CASE ~ (coins[c] # NoDoc /\ coins[c].spent >= f)
    <3>1. coins[c] # NoDoc => coins[c].spent \in Int
      BY <2>1 DEF CoinDoc, Unspent, Pending
    <3> QED
      BY <1>2, <2>2, <2>4, <3>1
  <2> QED
    BY <2>3, <2>4
<1>5. ASSUME NEW c \in Coins, NEW h \in Nat
      PROVE  /\ IsMinted(coins', c, h) <=> IsMinted(coins, c, h)
             /\ \A t \in Txs : IsSpent(coins', c, h, t) <=> IsSpent(coins, c, h, t) /\ h < f
  <2>1. IsMinted(coins', c, h) <=> IsMinted(coins, c, h)
    BY <1>4 DEF IsMinted
  <2>2. ASSUME NEW t \in Txs
        PROVE  IsSpent(coins', c, h, t) <=> IsSpent(coins, c, h, t) /\ h < f
    BY <1>2, <1>4 DEF IsSpent, Unspent
  <2> QED
    BY <2>1, <2>2
<1>6. ASSUME NEW h \in Nat, ~ (h < f)
      PROVE  /\ \A c : ~ MintedIn(L!Chain(p), c, h)
             /\ \A c, t : ~ SpentIn(L!Chain(p), c, h, t)
             /\ \A t : ~ ConfirmedIn(L!Chain(p), t, h)
  BY <1>3, <1>6 DEF Rolling, MintedIn, SpentIn, ConfirmedIn
<1>7. MintsMatch(coins', L!Chain(p), Nat)
  <2> SUFFICES ASSUME NEW c \in Coins, NEW h \in Nat
               PROVE  IsMinted(coins, c, h) <=> MintedIn(L!Chain(p), c, h)
    BY <1>5 DEF MintsMatch
  <2>1. CASE h < f
    BY <1>3, <2>1 DEF Rolling, AllMatch, MintsMatch, Below
  <2>2. CASE ~ (h < f)
    BY <1>3, <1>6, <2>2 DEF Rolling
  <2> QED
    BY <2>1, <2>2
<1>8. SpendsMatch(coins', L!Chain(p), Nat)
  <2> SUFFICES ASSUME NEW c \in Coins, NEW h \in Nat, NEW t \in Txs
               PROVE  IsSpent(coins, c, h, t) /\ h < f <=> SpentIn(L!Chain(p), c, h, t)
    BY <1>5 DEF SpendsMatch
  <2>1. CASE h < f
    BY <1>3, <2>1 DEF Rolling, AllMatch, SpendsMatch, Below
  <2>2. CASE ~ (h < f)
    BY <1>6, <2>2
  <2> QED
    BY <2>1, <2>2
<1>9. TxsMatch(txs, L!Chain(p), Nat)
  <2> SUFFICES ASSUME NEW t \in Txs, NEW h \in Nat
               PROVE  IsConfirmed(txs, t, h) <=> ConfirmedIn(L!Chain(p), t, h)
    BY DEF TxsMatch
  <2>1. CASE h < f
    BY <1>3, <2>1 DEF Rolling, AllMatch, TxsMatch, Below
  <2>2. CASE ~ (h < f)
    BY <1>3, <1>6, <2>2 DEF Rolling
  <2> QED
    BY <2>1, <2>2
<1>10. sync'.pc = "begin"
  BY DEF Unspend, TypeInv, SyncTyped
<1>11. Unfinished(blocks) = {}
  BY <1>2, NoneUnfinished DEF IndexInv, Rollback
<1>12. DocsMatch'
  <2>1. Filling(coins', txs', p, {}, "mint")
    BY <1>2, <1>7, <1>8, <1>9, NothingUnfinished DEF AllMatch
  <2>2. FillStep' = "mint" /\ sync'.pc \notin Rollback
    BY <1>10 DEF FillStep, Rollback
  <2> QED
    BY <1>2, <1>10, <1>11, <2>1, <2>2 DEF DocsMatch
<1>13. PendingRight(coins')
  <2> SUFFICES ASSUME NEW c \in Coins, coins'[c] # NoDoc, coins'[c].spent = Pending
               PROVE  coins'[c] = coins[c]
    BY DEF IndexInv, PendingRight
  <2> QED
    BY <1>4 DEF Unspent, Pending
<1>14. ImportsRight' /\ LinkRight'
  BY <1>2, <1>10, ImportsKept DEF IndexInv, LinkRight
<1>15. UnfinishedRight'
  BY <1>2, <1>10, <1>11, OwedNothing DEF Working, Storing
<1> QED
  BY <1>1, <1>2, <1>12, <1>13, <1>14, <1>15 DEF IndexInv

-----------------------------------------------------------------------------
(* The storing of a block.                                                 *)

LEMMA ChildOf ==
  ASSUME NEW p, NEW b \in Blocks, b = Genesis => p = NoBlock,
         b # Genesis => p \in Blocks /\ Parent[b] = p
  PROVE  Child(p, b) /\ (b # Genesis => L!Height(b) = L!Height(p) + 1)
<1>1. L!Height(b) \in Nat
  BY ChainMembers
<1>2. CASE b = Genesis
  BY <1>1, <1>2, ChainOfGenesis DEF Child
<1>3. CASE b # Genesis
  <2>1. L!Chain(b) = L!Chain(p) \cup {b} /\ L!Height(b) = L!Height(p) + 1
    BY <1>3, ChainOfChild
  <2>2. L!Height(p) \in Nat
    BY <1>3, ChainMembers
  <2>3. b \in L!Chain(p) => L!Height(b) <= L!Height(p)
    BY <1>3, HighestOfChain
  <2>4. b \notin L!Chain(p)
    BY <2>1, <2>2, <2>3
  <2> QED
    BY <1>1, <2>1, <2>4 DEF Child
<1> QED
  BY <1>2, <1>3

\* Stands for the tip and the block that is being stored.
LEMMA StoringChains ==
  ASSUME TypeInv, TreeInv, sync.pc \in Storing
  PROVE  /\ Current \in Blocks /\ Stored(Current) /\ Child(LocalTip, Current)
         /\ blocks[Current].height = L!Height(Current)
         /\ Current = Genesis => LocalTip = NoBlock
         /\ Current # Genesis => /\ LocalTip \in Blocks /\ Parent[Current] = LocalTip
                                 /\ L!Height(Current) = L!Height(LocalTip) + 1
<1>1. PICK p, b : p = LocalTip /\ b = Current
  OBVIOUS
<1>2. b \in Blocks /\ Stored(b)
  BY <1>1, RestOfQueue DEF TypeInv, SyncTyped, Working, Current
<1>3. Half(blocks, p, sync.queue) /\ Holds(blocks, p)
  BY <1>1 DEF TreeInv, Place
<1>4. b = Genesis => p = NoBlock
  BY <1>1, <1>3 DEF Half, Current
<1>5. b # Genesis => p \in Blocks /\ Parent[b] = p
  BY <1>1, <1>3 DEF Half, Fits, Holds, Current
<1>6. blocks[b].height = L!Height(b)
  BY <1>2, <1>3 DEF Holds, Stored
<1> QED
  BY <1>1, <1>2, <1>4, <1>5, <1>6, ChildOf

\* The block that is being stored is unfinished, and in the chain of any other.
LEMMA UnfinishedChains ==
  ASSUME TypeInv, TreeInv, UnfinishedRight, sync.pc \in Storing
  PROVE  /\ Current \in Unfinished(blocks)
         /\ \A e \in Unfinished(blocks) :
              e \in Blocks /\ Current \in L!Chain(e) /\ (e = Current \/ Current = Genesis)
<1>1. PICK b, U : b = Current /\ U = Unfinished(blocks)
  OBVIOUS
<1>2. b \in Blocks /\ blocks[b] # NoDoc /\ ~ blocks[b].processed
  BY <1>1, StoringChains DEF TreeInv, Place, Half, Stored, Current
<1>3. b \in U
  BY <1>1, <1>2 DEF Unfinished
<1>4. ASSUME NEW e \in U
      PROVE  e \in Blocks /\ b \in L!Chain(e) /\ (e = b \/ b = Genesis)
  <2>1. e \in Blocks
    BY <1>1 DEF Unfinished
  <2>2. e = b \/ b = Genesis
    BY <1>1 DEF UnfinishedRight, Owed, Working, Current
  <2>3. e \in L!Chain(e) /\ Genesis \in L!Chain(e)
    BY <2>1, ChainMembers
  <2> QED
    BY <2>1, <2>2, <2>3
<1> QED
  BY <1>1, <1>3, <1>4

LEMMA StoredUnfinished ==
  ASSUME TypeInv, NEW b \in Blocks, blocks' = [blocks EXCEPT ![b] = BlockOp(b)]
  PROVE  Unfinished(blocks') = Unfinished(blocks) \cup {b}
<1>1. PICK doc : doc = BlockOp(b)
  OBVIOUS
<1>2. doc # NoDoc /\ ~ doc.processed
  <2>1. DOMAIN doc = {"height", "next", "processed"}
    BY <1>1 DEF BlockOp
  <2>2. doc # NoDoc
    BY <2>1 DEF NoDoc
  <2> QED
    BY <1>1, <2>2 DEF BlockOp
<1>3. blocks'[b] = doc /\ \A x \in Blocks \ {b} : blocks'[x] = blocks[x]
  BY <1>1 DEF TypeInv, DocsTyped
<1> QED
  BY <1>2, <1>3 DEF Unfinished

LEMMA StoreOwes ==
  ASSUME TypeInv, TreeInv, UnfinishedRight, Store
  PROVE  UnfinishedRight'
<1>1. PICK p, b, q, r, U : /\ p = LocalTip /\ b = Current /\ q = sync.queue
                           /\ r = LocalTip' /\ U = Unfinished(blocks)
  OBVIOUS
<1>2. b \in Blocks /\ b = Head(q) /\ sync.pc = "store"
  BY <1>1, RestOfQueue DEF Store, TypeInv, SyncTyped, Working, Current
<1>3. Fits(p, q)
  BY <1>1 DEF Store, TreeInv, Place
<1>4. r = IF b = Genesis THEN NoBlock ELSE p
  BY <1>1, StoreInTree
<1>5. Unfinished(blocks') = U \cup {b}
  BY <1>1, <1>2, StoredUnfinished DEF Store
<1>6. GoesTo("link", q) /\ best' = best
  BY <1>1, SetStep DEF Store, TypeInv, SyncTyped, net
<1>7. /\ \A x \in U : Heir(best, p, x) /\ (x = b \/ b = Genesis)
      /\ Mendable(best, q)
  BY <1>1, <1>2 DEF UnfinishedRight, Owed, Working, Storing
<1>8. ASSUME NEW x \in U, x # b
      PROVE  Heir(best, r, x)
  <2>1. b = Genesis /\ r = NoBlock /\ p \in {NoBlock, Genesis} /\ x # Genesis
    BY <1>2, <1>3, <1>4, <1>7, <1>8 DEF Fits, AtGenesis
  <2>2. x \in Blocks /\ Parent[x] # NoBlock
    BY <1>1, <2>1, IndexAssumption DEF Unfinished
  <2>3. Parent[x] = Genesis
    BY <1>7, <2>1, <2>2 DEF Heir
  <2> QED
    BY <1>7, <2>1, <2>3 DEF Heir
<1>9. Owed(best, r, "link", q, U \cup {b})
  BY <1>2, <1>7, <1>8 DEF Owed, Rollback, Storing
<1>10. sync'.pc = "link" /\ sync'.queue = q
  BY <1>6 DEF GoesTo
<1> QED
  BY <1>1, <1>5, <1>6, <1>9, <1>10 DEF UnfinishedRight

LEMMA StoreMatch ==
  ASSUME TypeInv, TreeInv, IndexInv, Store
  PROVE  IndexInv'
<1>1. PICK p, b, r : p = LocalTip /\ b = Current /\ r = LocalTip'
  OBVIOUS
<1>2. b \in Blocks
  BY <1>1, RestOfQueue DEF Store, TypeInv, SyncTyped, Working, Current
<1>3. Fits(p, sync.queue) /\ Holds(blocks, p)
  BY <1>1 DEF Store, TreeInv, Place
<1>4. /\ b = Genesis => p \in {NoBlock, Genesis}
      /\ b # Genesis => p \in Blocks /\ Parent[b] = p
  BY <1>1, <1>3 DEF Fits, Holds, AtGenesis, Current
<1>5. r = IF b = Genesis THEN NoBlock ELSE p
  BY <1>1, StoreInTree
<1>6. /\ coins' = coins /\ txs' = txs /\ imp' = imp /\ sync.pc = "store"
      /\ sync' = [sync EXCEPT !.pc = "link"] /\ blocks' = [blocks EXCEPT ![b] = BlockOp(b)]
  BY <1>1 DEF Store
<1>7. sync'.pc = "link" /\ Current' = b
  BY <1>1, <1>6 DEF TypeInv, SyncTyped, Current
<1>8. Filling(coins, txs, r, Unfinished(blocks'), "mint")
  <2>1. PICK U : U = Unfinished(blocks)
    OBVIOUS
  <2>2. FillStep = "mint" /\ sync.pc \notin Rollback
    BY <1>6 DEF FillStep, Rollback
  <2>3. Filling(coins, txs, p, U, "mint")
    BY <1>1, <2>1, <2>2 DEF IndexInv, DocsMatch
  <2>4. Unfinished(blocks') = U \cup {b}
    BY <1>2, <1>6, <2>1, StoredUnfinished
  <2>5. p = r \/ p = b
    BY <1>4, <1>5
  <2>6. Filling(coins, txs, r, U \cup {b}, "mint")
    <3>1. CASE p = r
      BY <2>3, <3>1 DEF Filling
    <3>2. CASE p = b
      BY <2>3, <3>2 DEF Filling
    <3> QED
      BY <2>5, <3>1, <3>2
  <2> QED
    BY <2>4, <2>6
<1>9. DocsMatch'
  <2>1. FillStep' = "mint"
    BY <1>7 DEF FillStep
  <2> QED
    BY <1>1, <1>6, <1>7, <1>8, <2>1 DEF DocsMatch, Rollback
<1>10. NextRight(blocks', r)
  <2>1. CASE b = Genesis
    BY <1>5, <2>1, ChainOfGenesis DEF NextRight
  <2>2. CASE b # Genesis
    <3>1. Child(p, b)
      BY <1>2, <1>4, <2>2, ChildOf
    <3>2. p \in Blocks /\ L!Chain(p) \subseteq Blocks
      BY <1>4, <2>2, ChainMembers
    <3>3. \A x \in L!Chain(p) : blocks'[x] = blocks[x]
      BY <1>6, <3>1, <3>2 DEF Child, TypeInv, DocsTyped
    <3>4. NextRight(blocks, p) /\ r = p
      BY <1>1, <1>5, <2>2 DEF IndexInv
    <3> QED
      BY <3>3, <3>4 DEF NextRight
  <2> QED
    BY <2>1, <2>2
<1>11. ImportsRight' /\ LinkRight'
  BY <1>6, <1>7, ImportsKept DEF IndexInv, LinkRight
<1>12. UnfinishedRight'
  BY StoreOwes DEF IndexInv
<1> QED
  BY <1>1, <1>6, <1>9, <1>10, <1>11, <1>12 DEF IndexInv

LEMMA LinkedUnfinished ==
  ASSUME TypeInv, Link
  PROVE  Unfinished(blocks') = Unfinished(blocks)
<1>1. PICK b : b = Current
  OBVIOUS
<1>2. b \in Blocks
  BY <1>1, RestOfQueue DEF Link, TypeInv, SyncTyped, Working, Storing, Current
<1>3. ASSUME NEW x \in Blocks
      PROVE  /\ (blocks'[x] # NoDoc) <=> (blocks[x] # NoDoc)
             /\ blocks[x] # NoDoc => blocks'[x].processed = blocks[x].processed
  <2>1. CASE ~ StoredParent(b)
    BY <1>1, <2>1 DEF Link
  <2>2. CASE StoredParent(b)
    <3>1. PICK par \in Blocks : par = Parent[b] /\ blocks[par] \in Doc
      BY <1>2, <2>2, StoredParents DEF TypeInv
    <3>2. blocks' = [blocks EXCEPT ![par].next = b]
      BY <1>1, <2>2, <3>1 DEF Link
    <3>3. PICK d : d = [blocks[par] EXCEPT !.next = b]
      OBVIOUS
    <3>4. d \in Doc /\ d.processed = blocks[par].processed
      BY <1>2, <3>1, <3>3 DEF Doc
    <3>5. blocks'[par] = d /\ (x # par => blocks'[x] = blocks[x])
      BY <3>2, <3>3 DEF TypeInv, DocsTyped
    <3> QED
      BY <3>1, <3>4, <3>5, Documents
  <2> QED
    BY <2>1, <2>2
<1> QED
  BY <1>3 DEF Unfinished

LEMMA LinkMatch ==
  ASSUME TypeInv, TreeInv, IndexInv, Link
  PROVE  IndexInv'
<1>1. PICK p, b : p = LocalTip /\ b = Current
  OBVIOUS
<1>2. sync.pc = "link" /\ sync.pc \in Storing
  BY DEF Link, Storing
<1>3. /\ b \in Blocks /\ Child(p, b)
      /\ b # Genesis => p \in Blocks /\ Parent[b] = p
  BY <1>1, <1>2, StoringChains
<1>4. /\ coins' = coins /\ txs' = txs /\ LocalTip' = p
      /\ sync' = [sync EXCEPT !.pc = "import"]
      /\ imp' = [imp EXCEPT ![Syncer].pc = "mint"]
  BY <1>1, LinkInTree DEF Link
<1>5. sync'.pc = "import" /\ Current' = b
  BY <1>1, <1>4 DEF TypeInv, SyncTyped, Current
<1>6. Syncer \in Importers /\ Moves(Syncer, "mint")
  BY <1>4, ImportMoves DEF Importers, TypeInv
<1>7. imp'[Syncer].pc = "mint" /\ \A j \in Importers \ {Syncer} : imp'[j] = imp[j]
  BY <1>6 DEF Moves
<1>8. PICK U : U = Unfinished(blocks)
  OBVIOUS
<1>9. Unfinished(blocks') = U
  BY <1>8, LinkedUnfinished
<1>10. DocsMatch'
  <2>1. Filling(coins, txs, p, U, "mint")
    BY <1>1, <1>2, <1>8 DEF IndexInv, DocsMatch, FillStep, Rollback
  <2>2. FillStep' = "mint"
    BY <1>5, <1>7 DEF FillStep
  <2> QED
    BY <1>4, <1>5, <1>9, <2>1, <2>2 DEF DocsMatch, Rollback
<1>11. ImportsRight'
  <2> SUFFICES ASSUME NEW i \in Importers PROVE ImportOK(i, imp'[i], b, U)
    BY <1>5, <1>9 DEF ImportsRight
  <2>1. CASE i = Syncer
    BY <1>7, <2>1 DEF ImportOK
  <2>2. CASE i # Syncer
    <3>1. ImportOK(i, imp[i], Current, U)
      BY <1>8 DEF IndexInv, ImportsRight
    <3> QED
      BY <1>7, <2>2, <3>1 DEF ImportOK, Spenders, BatchOf
  <2> QED
    BY <2>1, <2>2
<1>12. /\ b # Genesis => blocks'[p].next = b
       /\ \A x \in Blocks : x # p => blocks'[x] = blocks[x]
  <2>1. blocks' = IF StoredParent(b) THEN [blocks EXCEPT ![Parent[b]].next = b] ELSE blocks
    BY <1>1 DEF Link
  <2>2. CASE b = Genesis
    BY <2>1, <2>2 DEF StoredParent
  <2>3. CASE b # Genesis
    <3>1. p \in Blocks /\ Parent[b] = p /\ Stored(p)
      BY <1>1, <1>3, <2>3, TipStored, IndexAssumption
    <3>2. blocks' = [blocks EXCEPT ![p].next = b]
      BY <2>1, <2>3, <3>1 DEF StoredParent
    <3>3. blocks \in [Blocks -> Doc \cup {NoDoc}] /\ blocks[p] \in Doc
      BY <3>1 DEF TypeInv, DocsTyped, Stored
    <3>4. PICK d : d = [blocks[p] EXCEPT !.next = b]
      OBVIOUS
    <3>5. d.next = b
      BY <3>3, <3>4 DEF Doc
    <3> QED
      BY <3>1, <3>2, <3>3, <3>4, <3>5
  <2> QED
    BY <2>2, <2>3
<1>13. NextRight(blocks', p)
  <2>1. \A x \in L!Chain(p) : x \in Blocks
    BY <1>3, ChainMembers DEF Child
  <2> QED
    BY <1>1, <1>12, <2>1 DEF IndexInv, NextRight
<1>14. LinkRight'
  BY <1>4, <1>5, <1>12 DEF LinkRight
<1>15. UnfinishedRight'
  <2>1. Owed(best, p, "import", sync.queue, U)
    BY <1>1, <1>2, <1>8 DEF IndexInv, UnfinishedRight, Owed, Rollback, Working, Storing
  <2>2. sync'.queue = sync.queue /\ best' = best
    BY <1>4 DEF Link, net, TypeInv, SyncTyped
  <2> QED
    BY <1>4, <1>5, <1>9, <2>1, <2>2 DEF UnfinishedRight
<1> QED
  BY <1>4, <1>10, <1>11, <1>13, <1>14, <1>15 DEF IndexInv

LEMMA ProcessedUnfinished ==
  ASSUME TypeInv, MarkProcessed
  PROVE  Unfinished(blocks') = Unfinished(blocks) \ {Current}
<1>1. PICK b : b = Current
  OBVIOUS
<1>2. b \in Blocks /\ blocks[b] \in Doc
  BY <1>1, RestOfQueue
     DEF MarkProcessed, TypeInv, SyncTyped, DocsTyped, Working, Storing, Current, Stored
<1>3. PICK d : d = [blocks[b] EXCEPT !.processed = TRUE]
  OBVIOUS
<1>4. d.processed
  BY <1>2, <1>3 DEF Doc
<1>5. blocks'[b] = d /\ \A x \in Blocks \ {b} : blocks'[x] = blocks[x]
  BY <1>1, <1>2, <1>3 DEF MarkProcessed, TypeInv, DocsTyped
<1> QED
  BY <1>1, <1>4, <1>5 DEF Unfinished

LEMMA ProcessedOwes ==
  ASSUME TypeInv, TreeInv, UnfinishedRight, MarkProcessed
  PROVE  UnfinishedRight'
<1>1. PICK p, b, q, U : p = LocalTip /\ b = Current /\ q = sync.queue /\ U = Unfinished(blocks)
  OBVIOUS
<1>2. sync.pc = "processed" /\ sync.pc \in Storing /\ sync.pc \in Working
  BY DEF MarkProcessed, Storing, Working
<1>3. b \in U /\ \A e \in U : e \in Blocks /\ (e = b \/ b = Genesis)
  BY <1>1, <1>2, UnfinishedChains
<1>4. (b = Genesis => p = NoBlock /\ Len(q) = 1) /\ b = Head(q)
  BY <1>1, <1>2 DEF TreeInv, Place, Half, Fits, Current
<1>5. PICK pc, rest : pc = (IF Len(q) = 1 THEN "ask" ELSE "add") /\ rest = Tail(q)
  OBVIOUS
<1>6. sync' = [sync EXCEPT !.queue = rest, !.pc = pc] /\ best' = best
  BY <1>1, <1>5 DEF MarkProcessed, net
<1>7. sync'.pc = pc /\ sync'.queue = rest
  BY <1>6 DEF TypeInv, SyncTyped
<1>8. (\A x \in U : x = b \/ Heir(best, p, x)) /\ Mendable(best, q)
  BY <1>1, <1>2 DEF UnfinishedRight, Owed, Current
<1>9. ASSUME NEW x \in U \ {b}
      PROVE  Heir(best, b, x) /\ pc = "ask"
  <2>1. b = Genesis /\ x # Genesis /\ x \in Blocks
    BY <1>3
  <2>2. p = NoBlock /\ pc = "ask"
    BY <1>4, <1>5, <2>1
  <2>3. Parent[x] # NoBlock
    BY <2>1, IndexAssumption
  <2>4. Parent[x] = b
    BY <1>8, <2>1, <2>2, <2>3 DEF Heir
  <2> QED
    BY <1>8, <2>1, <2>2, <2>4 DEF Heir
<1>10. Mendable(best, rest)
  <2>1. /\ q \in Seq(Blocks) /\ q # <<>>
    BY <1>1, <1>2 DEF TypeInv, SyncTyped
  <2>2. /\ Len(q) \in Nat \ {0} /\ Len(rest) = Len(q) - 1
        /\ \A i \in 1 .. Len(q) - 1 : rest[i] = q[i + 1]
    BY <1>5, <2>1, RestOfQueue
  <2>3. ASSUME NEW n \in 1 .. Len(rest), rest[n] \in CrashBlocks
        PROVE  rest[n] \in L!Chain(best)
    <3>1. n + 1 \in 1 .. Len(q) /\ rest[n] = q[n + 1]
      BY <2>2
    <3> QED
      BY <1>8, <2>3, <3>1 DEF Mendable
  <2> QED
    BY <2>3 DEF Mendable
<1>11. Owed(best, b, pc, rest, U \ {b})
  BY <1>5, <1>9, <1>10 DEF Owed, Rollback, Working, Storing
<1>12. LocalTip' = b /\ Unfinished(blocks') = U \ {b}
  BY <1>1, MarkProcessedInTree, ProcessedUnfinished
<1> QED
  BY <1>6, <1>7, <1>11, <1>12 DEF UnfinishedRight

LEMMA MarkProcessedMatch ==
  ASSUME TypeInv, TreeInv, IndexInv, MarkProcessed
  PROVE  IndexInv'
<1>1. PICK p, b : p = LocalTip /\ b = Current
  OBVIOUS
<1>2. sync.pc = "processed" /\ sync.pc \in Storing
  BY DEF MarkProcessed, Storing
<1>3. /\ b \in Blocks /\ Child(p, b) /\ Stored(b)
      /\ b = Genesis => p = NoBlock
      /\ b # Genesis => p \in Blocks /\ Parent[b] = p /\ L!Height(b) = L!Height(p) + 1
  BY <1>1, <1>2, StoringChains
<1>4. /\ coins' = coins /\ txs' = txs /\ imp' = imp /\ LocalTip' = b
      /\ blocks' = [blocks EXCEPT ![b].processed = TRUE]
  BY <1>1, MarkProcessedInTree DEF MarkProcessed
<1>5. sync'.pc \in {"ask", "add"}
  BY DEF MarkProcessed, TypeInv, SyncTyped
<1>6. PICK U : U = Unfinished(blocks)
  OBVIOUS
<1>7. Unfinished(blocks') = U \ {b}
  BY <1>1, <1>6, ProcessedUnfinished
<1>8. DocsMatch'
  <2>1. Filling(coins, txs, p, U, "done")
    BY <1>1, <1>2, <1>6 DEF IndexInv, DocsMatch, FillStep, Rollback
  <2>2. Filling(coins, txs, b, U \ {b}, "mint")
    BY <2>1 DEF Filling
  <2>3. FillStep' = "mint"
    BY <1>5 DEF FillStep
  <2> QED
    BY <1>4, <1>5, <1>7, <2>2, <2>3 DEF DocsMatch, Rollback
<1>9. NextRight(blocks', b)
  <2> SUFFICES ASSUME NEW x \in L!Chain(b), x # b
               PROVE  \E d \in L!Chain(b) : L!Height(d) = L!Height(x) + 1 /\ blocks'[x].next = d
    BY DEF NextRight
  <2>1. x \in L!Chain(p) /\ x \in Blocks /\ b \in L!Chain(b) /\ L!Chain(p) \subseteq L!Chain(b)
    BY <1>3, ChainMembers DEF Child
  <2>2. b # Genesis
    BY <1>3, <2>1, ChainOfGenesis
  <2>3. blocks'[x] = blocks[x]
    BY <1>3, <1>4, <2>1 DEF TypeInv, DocsTyped
  <2>4. CASE x = p
    <3>1. blocks[p].next = b
      BY <1>1, <1>2, <2>2 DEF IndexInv, LinkRight
    <3> QED
      BY <1>3, <2>1, <2>2, <2>3, <2>4, <3>1
  <2>5. CASE x # p
    BY <1>1, <2>1, <2>3, <2>5 DEF IndexInv, NextRight
  <2> QED
    BY <2>4, <2>5
<1>10. ImportsRight' /\ LinkRight'
  BY <1>2, <1>4, <1>5, ImportsKept DEF IndexInv, LinkRight
<1>11. UnfinishedRight'
  BY ProcessedOwes DEF IndexInv
<1> QED
  BY <1>4, <1>8, <1>9, <1>10, <1>11 DEF IndexInv

-----------------------------------------------------------------------------
(* The imports.                                                            *)

LEMMA LeastPlace ==
  ASSUME NEW S \in SUBSET Nat, S # {}
  PROVE  Upcoming(S) \in S
<1>1. PICK n \in S : TRUE
  OBVIOUS
<1>2. PICK D : D = {m \in Nat : \E i \in S : i <= n /\ m = n - i}
  OBVIOUS
<1>3. D \in SUBSET Nat /\ D # {} /\ n \in Nat /\ \A m \in D : m <= n
  <2>1. n \in Nat /\ \A i \in S : i \in Nat
    OBVIOUS
  <2>2. 0 \in D
    BY <1>2, <2>1
  <2>3. ASSUME NEW m \in D PROVE m <= n
    BY <1>2, <2>1
  <2> QED
    BY <1>2, <2>1, <2>2, <2>3
<1>4. PICK m \in D : \A k \in D : k <= m
  BY <1>3, T!GreatestNumber
<1>5. PICK i \in S : i <= n /\ m = n - i
  BY <1>2, <1>4
<1>6. ASSUME NEW j \in S PROVE i <= j
  <2>1. CASE j <= n
    <3>1. n - j \in D
      BY <1>2, <1>3, <2>1
    <3> QED
      BY <1>3, <1>4, <1>5, <3>1
  <2>2. CASE ~ (j <= n)
    BY <1>3, <1>5, <2>2
  <2> QED
    BY <2>1, <2>2
<1> QED
  BY <1>5, <1>6 DEF Upcoming

LEMMA InBatches ==
  ASSUME NEW i \in Importers, NEW t
  PROVE  /\ i = Syncer => (InBatch(i, t) <=> t \in L!TxsOf(Current))
         /\ i # Syncer => (InBatch(i, t) <=> t = i)
         /\ Batch(i) = BatchOf(i, Current)
<1>1. CASE i = Syncer
  BY <1>1 DEF InBatch, Batch, BatchOf, L!TxsOf
<1>2. CASE i # Syncer
  <2>1. Batch(i) = <<i>>
    BY <1>2 DEF Batch
  <2>2. Len(<<i>>) = 1 /\ <<i>>[1] = i /\ 1 \in 1 .. 1 /\ \A k \in 1 .. 1 : k = 1
    OBVIOUS
  <2> QED
    BY <1>2, <2>1, <2>2 DEF InBatch, BatchOf
<1> QED
  BY <1>1, <1>2

LEMMA Relays ==
  ASSUME NEW i \in Importers
  PROVE  /\ Syncer \in Importers /\ Syncer \notin Txs
         /\ i # Syncer => i \in Relayed /\ i \in Txs
BY IndexAssumption DEF Importers, Txs

\* What the steps of an import set.
LEMMA SetsTodo ==
  ASSUME ImpTyped, NEW i \in Importers, NEW pc, NEW todo,
         imp' = [imp EXCEPT ![i].pc = pc, ![i].todo = todo]
  PROVE  imp'[i].pc = pc /\ imp'[i].todo = todo /\ Moves(i, pc)
<1>1. imp[i] \in [pc : ImportSteps, todo : {imp[i].todo}, victim : {imp[i].victim}]
  BY DEF ImpTyped
<1>2. PICK r : r = [imp[i] EXCEPT !.pc = pc, !.todo = todo]
  OBVIOUS
<1>3. r.pc = pc /\ r.todo = todo
  BY <1>1, <1>2
<1>4. imp'[i] = r
  BY <1>2 DEF ImpTyped
<1> QED
  BY <1>3, <1>4, ImportMoves

LEMMA SetsVictim ==
  ASSUME ImpTyped, NEW i \in Importers, NEW pc, NEW victim,
         imp' = [imp EXCEPT ![i].pc = pc, ![i].victim = victim]
  PROVE  /\ imp'[i].pc = pc /\ imp'[i].todo = imp[i].todo /\ imp'[i].victim = victim
         /\ Moves(i, pc)
<1>1. imp[i] \in [pc : ImportSteps, todo : {imp[i].todo}, victim : {imp[i].victim}]
  BY DEF ImpTyped
<1>2. PICK r : r = [imp[i] EXCEPT !.pc = pc, !.victim = victim]
  OBVIOUS
<1>3. r.pc = pc /\ r.todo = imp[i].todo /\ r.victim = victim
  BY <1>1, <1>2
<1>4. imp'[i] = r
  BY <1>2 DEF ImpTyped
<1> QED
  BY <1>3, <1>4, ImportMoves

LEMMA SetsPruned ==
  ASSUME ImpTyped, NEW i \in Importers, Pruned(i)
  PROVE  \E pc \in {"spend", "prune"} :
           /\ Moves(i, pc) /\ imp'[i].pc = pc
           /\ imp'[i].todo \subseteq imp[i].todo /\ (pc = "prune" => imp'[i].todo # {})
<1>1. imp[i] \in [pc : ImportSteps, todo : {imp[i].todo}, victim : {imp[i].victim}]
  BY DEF ImpTyped
<1>2. PICK todo, pc : /\ todo = imp[i].todo \ {Upcoming(imp[i].todo)}
                      /\ pc = IF todo = {} THEN "spend" ELSE "prune"
  OBVIOUS
<1>3. imp' = [imp EXCEPT ![i].todo = todo, ![i].victim = NoTx, ![i].pc = pc]
  BY <1>2 DEF Pruned
<1>4. PICK r : r = [imp[i] EXCEPT !.todo = todo, !.victim = NoTx, !.pc = pc]
  OBVIOUS
<1>5. r.pc = pc /\ r.todo = todo
  BY <1>1, <1>4
<1>6. imp'[i] = r
  BY <1>3, <1>4 DEF ImpTyped
<1>7. pc \in {"spend", "prune"} /\ Moves(i, pc)
  <2>1. PICK s \in {"spend", "prune"} : Moves(i, s)
    BY ImportMoves
  <2>2. imp'[i].pc = s
    BY <2>1 DEF Moves
  <2> QED
    BY <1>5, <1>6, <2>1, <2>2
<1> QED
  BY <1>2, <1>5, <1>6, <1>7

LEMMA ImportsGoOn ==
  ASSUME ImportsRight, Current' = Current, blocks' = blocks, NEW i \in Importers, NEW pc,
         Moves(i, pc), ImportOK(i, imp'[i], Current, Unfinished(blocks))
  PROVE  ImportsRight'
<1>1. Unfinished(blocks') = Unfinished(blocks)
  OBVIOUS
<1> QED
  BY <1>1 DEF ImportsRight, Moves

\* What an import keeps of the rest.
LEMMA ImportActs ==
  ASSUME NEW i \in Importers, Import(i)
  PROVE  blocks' = blocks /\ best' = best
BY DEF Import, ImportMint, PruneFind, Invalidate, ImportSpend, ImportTx, Rest, net

LEMMA ImportedAside ==
  ASSUME TypeInv, IndexInv, NEW i \in Importers, i # Syncer, Import(i),
         SameMints(coins, coins'), SameSpends(coins, coins'), SameTxs(txs, txs'),
         PendingRight(coins'), ImportOK(i, imp'[i], Current, Unfinished(blocks))
  PROVE  IndexInv'
<1>1. blocks' = blocks /\ best' = best /\ sync' = sync /\ \E pc : Moves(i, pc)
  BY ImportActs, NextOfImport DEF TypeInv
<1>2. Current' = Current /\ LocalTip' = LocalTip
  BY <1>1, TipRests DEF Current
<1>3. imp'[Syncer] = imp[Syncer]
  BY <1>1, Relays DEF Moves
<1>4. DocsMatch'
  BY <1>1, <1>2, <1>3, DocsKept DEF IndexInv
<1>5. ImportsRight'
  BY <1>1, <1>2, ImportsGoOn DEF IndexInv
<1>6. LinkRight' /\ UnfinishedRight'
  BY <1>1, <1>2, OwedKept DEF IndexInv, LinkRight
<1> QED
  BY <1>1, <1>2, <1>4, <1>5, <1>6 DEF IndexInv

LEMMA ImportedInBlock ==
  ASSUME TypeInv, IndexInv, sync.pc = "import", Import(Syncer), sync' = sync,
         NEW U, U = Unfinished(blocks),
         NEW pc, Moves(Syncer, pc), Filling(coins', txs', LocalTip, U, pc),
         PendingRight(coins'), ImportOK(Syncer, imp'[Syncer], Current, U)
  PROVE  IndexInv'
<1>1. blocks' = blocks /\ best' = best
  BY ImportActs DEF Importers
<1>2. Current' = Current /\ LocalTip' = LocalTip /\ imp'[Syncer].pc = pc
  BY <1>1, TipRests DEF Current, Moves
<1>3. FillStep' = pc
  BY <1>2 DEF FillStep
<1>4. DocsMatch'
  BY <1>1, <1>2, <1>3 DEF DocsMatch, Rollback
<1>5. ImportsRight'
  BY <1>1, <1>2, ImportsGoOn, Relays DEF IndexInv, Importers
<1>6. LinkRight' /\ UnfinishedRight'
  BY <1>1, <1>2, OwedKept DEF IndexInv, LinkRight
<1> QED
  BY <1>1, <1>2, <1>4, <1>5, <1>6 DEF IndexInv

\* The block an import works for, and the chains the collections may be written for.
LEMMA ImportingBlock ==
  ASSUME TypeInv, TreeInv, UnfinishedRight, sync.pc = "import", NEW b, b = Current
  PROVE  /\ b \in Blocks /\ b \in Unfinished(blocks) /\ b \in L!Chain(b)
         /\ L!Chain(b) = L!Chain(LocalTip) \cup {b}
         /\ \A e \in Unfinished(blocks) :
              e \in Blocks /\ b \in L!Chain(e) /\ L!Chain(e) = L!Chain(e) \cup {b}
<1>1. sync.pc \in Storing
  BY DEF Storing
<1>2. b \in Blocks /\ Child(LocalTip, b)
  BY <1>1, StoringChains
<1>3. b \in Unfinished(blocks) /\ \A e \in Unfinished(blocks) : e \in Blocks /\ b \in L!Chain(e)
  BY <1>1, UnfinishedChains
<1>4. b \in L!Chain(b)
  BY <1>2, ChainMembers
<1> QED
  BY <1>2, <1>3, <1>4 DEF Child

LEMMA ImportState ==
  ASSUME TypeInv, IndexInv, imp[Syncer].pc # "off"
  PROVE  /\ sync.pc = "import" /\ Current \in Blocks
         /\ Filling(coins, txs, LocalTip, Unfinished(blocks), imp[Syncer].pc)
         /\ ImportOK(Syncer, imp[Syncer], Current, Unfinished(blocks))
<1>1. sync.pc = "import"
  BY DEF TypeInv, ImpTyped
<1>2. Current \in Blocks
  BY <1>1, RestOfQueue DEF TypeInv, SyncTyped, Working, Storing, Current
<1> QED
  BY <1>1, <1>2, Relays DEF IndexInv, DocsMatch, FillStep, Rollback, ImportsRight, Importers

LEMMA ImportHeights ==
  ASSUME TypeInv, TreeInv, NEW i \in Importers, imp[i].pc # "off"
  PROVE  /\ i = Syncer => ImportHeight(i) = L!Height(Current) /\ L!Height(Current) \in Nat
         /\ i # Syncer => ImportHeight(i) = Pending
<1>1. CASE i = Syncer
  <2>1. sync.pc \in Storing
    BY <1>1 DEF TypeInv, ImpTyped, Storing
  <2>2. Current \in Blocks /\ blocks[Current].height = L!Height(Current)
    BY <2>1, StoringChains
  <2> QED
    BY <1>1, <2>2, ChainMembers DEF ImportHeight
<1>2. CASE i # Syncer
  BY <1>2 DEF ImportHeight
<1> QED
  BY <1>1, <1>2

LEMMA MintEffect ==
  ASSUME TypeInv, NEW i \in Importers, NEW c \in Coins, NEW d, d = Mint(i, c)
  PROVE  /\ d # NoDoc
         /\ coins[c] # NoDoc => d.spent = coins[c].spent /\ d.by = coins[c].by
         /\ coins[c] = NoDoc => d.spent = Unspent
         /\ i = Syncer \/ coins[c] = NoDoc => d.mint = ImportHeight(i)
         /\ i # Syncer /\ coins[c] # NoDoc => d = coins[c]
<1>1. CASE coins[c] = NoDoc
  <2>1. d = [mint |-> ImportHeight(i), spent |-> Unspent, by |-> NoTx]
    BY <1>1 DEF Mint, Known
  <2>2. DOMAIN d = {"mint", "spent", "by"}
    BY <2>1
  <2>3. d # NoDoc
    BY <2>2 DEF NoDoc
  <2> QED
    BY <1>1, <2>1, <2>3
<1>2. CASE coins[c] # NoDoc /\ i = Syncer
  <2>1. d = [coins[c] EXCEPT !.mint = ImportHeight(i)]
    BY <1>2 DEF Mint, Known
  <2>2. coins[c] \in CoinDoc
    BY <1>2 DEF TypeInv, DocsTyped
  <2>3. DOMAIN d = {"mint", "spent", "by"}
    BY <2>1, <2>2 DEF CoinDoc
  <2>4. d # NoDoc
    BY <2>3 DEF NoDoc
  <2>5. d.mint = ImportHeight(i) /\ d.spent = coins[c].spent /\ d.by = coins[c].by
    BY <2>1, <2>2 DEF CoinDoc
  <2> QED
    BY <1>2, <2>4, <2>5
<1>3. CASE coins[c] # NoDoc /\ i # Syncer
  BY <1>3 DEF Mint, Known
<1> QED
  BY <1>1, <1>2, <1>3

LEMMA MintKeeps ==
  ASSUME TypeInv, IndexInv, NEW i \in Importers, ImportMint(i)
  PROVE  /\ SameSpends(coins, coins') /\ PendingRight(coins')
         /\ ImportOK(i, imp'[i], Current, Unfinished(blocks))
         /\ \E pc \in {"prune", "spend"} : Moves(i, pc)
<1>1. ASSUME NEW c \in Coins
      PROVE  \/ coins'[c] = coins[c]
             \/ /\ coins[c] # NoDoc /\ coins'[c] # NoDoc
                /\ coins'[c].spent = coins[c].spent /\ coins'[c].by = coins[c].by
             \/ coins[c] = NoDoc /\ coins'[c] # NoDoc /\ coins'[c].spent = Unspent
  <2>1. coins'[c] = coins[c] \/ coins'[c] = Mint(i, c)
    BY DEF ImportMint
  <2> QED
    BY <2>1, MintEffect
<1>2. SameSpends(coins, coins')
  <2> SUFFICES ASSUME NEW c \in Coins, NEW h \in Nat, NEW t \in Txs
               PROVE  IsSpent(coins', c, h, t) <=> IsSpent(coins, c, h, t)
    BY DEF SameSpends
  <2>1. Unspent \notin Nat
    BY DEF Unspent
  <2> QED
    BY <1>1, <2>1 DEF IsSpent
<1>3. PendingRight(coins')
  <2> SUFFICES ASSUME NEW c \in Coins, coins'[c] # NoDoc, coins'[c].spent = Pending
               PROVE  coins'[c].by \in Relayed /\ c \in L!Spends(coins'[c].by)
    BY DEF PendingRight
  <2>1. Unspent # Pending
    BY DEF Unspent, Pending
  <2> QED
    BY <1>1, <2>1 DEF IndexInv, PendingRight
<1>4. PICK spenders, prunes :
        /\ spenders = {k \in 1 .. Len(Batch(i)) : Inputs[Batch(i)[k]] # <<>>}
        /\ prunes = (i # Syncer \/ synced.known)
  OBVIOUS
<1>5. PICK pc, todo : /\ pc = IF prunes /\ spenders # {} THEN "prune" ELSE "spend"
                      /\ todo = IF prunes THEN spenders ELSE {}
  OBVIOUS
<1>6. imp' = [imp EXCEPT ![i].pc = pc, ![i].todo = todo]
  BY <1>4, <1>5 DEF ImportMint
<1>7. imp'[i].pc = pc /\ imp'[i].todo = todo /\ Moves(i, pc)
  BY <1>6, SetsTodo DEF TypeInv
<1>8. spenders = Spenders(i, Current)
  BY <1>4, InBatches DEF Spenders
<1>9. ImportOK(i, imp'[i], Current, Unfinished(blocks))
  BY <1>5, <1>7, <1>8 DEF ImportOK
<1> QED
  BY <1>2, <1>3, <1>5, <1>7, <1>9

LEMMA MintMatch ==
  ASSUME ValidChains, TypeInv, TreeInv, IndexInv, NEW i \in Importers, ImportMint(i)
  PROVE  IndexInv'
<1>1. /\ imp[i].pc = "mint" /\ txs' = txs /\ sync' = sync /\ blocks' = blocks
  BY DEF ImportMint, Rest
<1>2. ASSUME NEW c \in Coins
      PROVE  coins'[c] = IF \E t \in Txs : InBatch(i, t) /\ c \in Outputs[t] THEN Mint(i, c)
                         ELSE coins[c]
  BY DEF ImportMint
<1>3. CASE i # Syncer
  <2>1. SameMints(coins, coins')
    <3> SUFFICES ASSUME NEW c \in Coins, NEW h \in Nat
                 PROVE  IsMinted(coins', c, h) <=> IsMinted(coins, c, h)
      BY DEF SameMints
    <3>1. CASE coins'[c] = coins[c]
      BY <3>1 DEF IsMinted
    <3>2. CASE coins'[c] = Mint(i, c) /\ coins[c] = NoDoc
      <4>1. coins'[c].mint = Pending
        BY <1>1, <1>3, <3>2, MintEffect, ImportHeights
      <4> QED
        BY <3>2, <4>1 DEF IsMinted, Pending
    <3>3. CASE coins'[c] = Mint(i, c) /\ coins[c] # NoDoc
      <4>1. coins'[c] = coins[c]
        BY <1>3, <3>3, MintEffect
      <4> QED
        BY <4>1 DEF IsMinted
    <3> QED
      BY <1>2, <3>1, <3>2, <3>3
  <2>2. Import(i) /\ SameTxs(txs, txs')
    BY <1>1, NothingWritten DEF Import
  <2> QED
    BY <1>3, <2>1, <2>2, MintKeeps, ImportedAside
<1>4. CASE i = Syncer
  <2>1. PICK p, b, U : p = LocalTip /\ b = Current /\ U = Unfinished(blocks)
    OBVIOUS
  <2>2. sync.pc = "import" /\ b \in Blocks /\ Filling(coins, txs, p, U, "mint")
    BY <1>1, <1>4, <2>1, ImportState
  <2>3. ASSUME NEW c \in Coins
        PROVE  \/ /\ \E t \in L!TxsOf(b) : c \in Outputs[t]
                  /\ \A h \in Nat : IsMinted(coins', c, h) <=> h = L!Height(b)
               \/ (\A t \in L!TxsOf(b) : c \notin Outputs[t]) /\ coins'[c] = coins[c]
    <3>1. (\E t \in Txs : InBatch(i, t) /\ c \in Outputs[t])
            <=> (\E t \in L!TxsOf(b) : c \in Outputs[t])
      <4>1. L!TxsOf(b) \subseteq Txs
        BY <2>2, BlockTypes
      <4>2. \A t : InBatch(i, t) <=> t \in L!TxsOf(b)
        BY <1>4, <2>1, InBatches
      <4> QED
        BY <4>1, <4>2
    <3>2. CASE \E t \in L!TxsOf(b) : c \in Outputs[t]
      <4>1. coins'[c] = Mint(i, c)
        BY <1>2, <3>1, <3>2
      <4>2. coins'[c] # NoDoc /\ coins'[c].mint = L!Height(b)
        BY <1>1, <1>4, <2>1, <4>1, MintEffect, ImportHeights
      <4> QED
        BY <3>2, <4>2 DEF IsMinted
    <3>3. CASE ~ \E t \in L!TxsOf(b) : c \in Outputs[t]
      BY <1>2, <3>1, <3>3
    <3> QED
      BY <3>2, <3>3
  <2>4. \E e \in U : MintsMatch(coins', L!Chain(e), Nat)
    <3>1. CASE \E e \in U : MintsMatch(coins, L!Chain(e), Nat)
      <4>1. PICK e \in U : MintsMatch(coins, L!Chain(e), Nat)
        BY <3>1
      <4>2. e \in Blocks /\ b \in L!Chain(e) /\ L!Chain(e) = L!Chain(e) \cup {b}
        BY <2>1, <2>2, ImportingBlock DEF IndexInv
      <4> QED
        BY <2>3, <4>1, <4>2, MintsWritten
    <3>2. CASE MintsMatch(coins, L!Chain(p), Nat)
      <4>1. b \in U /\ b \in L!Chain(b) /\ L!Chain(b) = L!Chain(p) \cup {b}
        BY <2>1, <2>2, ImportingBlock DEF IndexInv
      <4> QED
        BY <2>2, <2>3, <3>2, <4>1, MintsWritten
    <3> QED
      BY <2>2, <3>1, <3>2 DEF Filling
  <2>5. ASSUME NEW pc \in {"prune", "spend"}
        PROVE  Filling(coins', txs', p, U, pc)
    <3>1. \A D : SpendsMatch(coins, D, Nat) => SpendsMatch(coins', D, Nat)
      BY MintKeeps, MatchesKept
    <3> QED
      BY <1>1, <2>2, <2>4, <3>1 DEF Filling
  <2>6. Import(i)
    BY DEF Import
  <2> QED
    BY <1>1, <1>4, <2>1, <2>2, <2>5, <2>6, MintKeeps, ImportedInBlock
<1> QED
  BY <1>3, <1>4

\* What the pruning comes to next spends its first input.
LEMMA PruningSpends ==
  ASSUME ValidChains, TypeInv, TreeInv, IndexInv, NEW i \in Importers,
         imp[i].pc \in {"prune", "invalidate"}, NEW t, t = Pruning(i)
  PROVE  /\ InBatch(i, t) /\ t \in Txs /\ Inputs[t] # <<>>
         /\ Inputs[t][1] \in Coins /\ Inputs[t][1] \in L!Spends(t)
<1>1. PICK S, k : S = imp[i].todo /\ k = Upcoming(S)
  OBVIOUS
<1>2. S # {} /\ S \subseteq Spenders(i, Current)
  BY <1>1 DEF IndexInv, ImportsRight, ImportOK
<1>3. k \in S
  <2>1. S \in SUBSET Nat
    BY <1>2 DEF Spenders
  <2> QED
    BY <1>1, <1>2, <2>1, LeastPlace
<1>4. k \in 1 .. Len(Batch(i)) /\ t = Batch(i)[k] /\ Inputs[t] # <<>>
  BY <1>1, <1>2, <1>3, InBatches DEF Spenders, Pruning
<1>5. InBatch(i, t)
  BY <1>4 DEF InBatch
<1>6. t \in Txs
  <2>1. CASE i # Syncer
    BY <1>5, <2>1, InBatches, Relays
  <2>2. CASE i = Syncer
    <3>1. sync.pc \in Storing
      BY <2>2 DEF TypeInv, ImpTyped, Storing
    <3>2. t \in L!TxsOf(Current) /\ Current \in Blocks
      BY <1>5, <2>2, <3>1, InBatches, StoringChains
    <3> QED
      BY <3>2, BlockTypes
  <2> QED
    BY <2>1, <2>2
<1>7. Inputs[t] \in Seq(Coins)
  BY <1>6 DEF ValidChains
<1>8. Inputs[t][1] \in Coins /\ 1 \in 1 .. Len(Inputs[t])
  BY <1>4, <1>7
<1> QED
  BY <1>4, <1>5, <1>6, <1>8 DEF L!Spends

LEMMA PrunedOK ==
  ASSUME TypeInv, IndexInv, NEW i \in Importers, imp[i].pc \in {"prune", "invalidate"}, Pruned(i)
  PROVE  /\ ImportOK(i, imp'[i], Current, Unfinished(blocks))
         /\ \E pc \in {"prune", "spend"} : Moves(i, pc)
<1>1. PICK pc \in {"spend", "prune"} :
           /\ Moves(i, pc) /\ imp'[i].pc = pc
           /\ imp'[i].todo \subseteq imp[i].todo /\ (pc = "prune" => imp'[i].todo # {})
  BY SetsPruned DEF TypeInv
<1>2. imp[i].todo \subseteq Spenders(i, Current)
  BY DEF IndexInv, ImportsRight, ImportOK
<1> QED
  BY <1>1, <1>2 DEF ImportOK

\* After the mints the pruning goes on at its own pace.
LEMMA PruningGoesOn ==
  ASSUME NEW cs, NEW ts, NEW p, NEW U, NEW r, NEW s,
         r \in {"prune", "invalidate"}, s \in {"prune", "invalidate", "spend"},
         Filling(cs, ts, p, U, r)
  PROVE  Filling(cs, ts, p, U, s)
BY DEF Filling

LEMMA PruneFindMatch ==
  ASSUME ValidChains, Compatible, TypeInv, TreeInv, IndexInv, NEW i \in Importers, PruneFind(i)
  PROVE  IndexInv'
<1>1. /\ imp[i].pc = "prune" /\ coins' = coins /\ txs' = txs /\ sync' = sync
      /\ Import(i)
  BY DEF PruneFind, Rest, Import
<1>2. PICK t, c, U : t = Pruning(i) /\ c = Inputs[t][1] /\ U = Unfinished(blocks)
  OBVIOUS
<1>3. InBatch(i, t) /\ t \in Txs /\ c \in Coins /\ c \in L!Spends(t)
  BY <1>1, <1>2, PruningSpends
<1>4. \/ /\ HeldByOther(c, t)
         /\ imp' = [imp EXCEPT ![i].pc = "invalidate", ![i].victim = coins[c].by]
      \/ Pruned(i)
  BY <1>2 DEF PruneFind
<1>5. HeldByOther(c, t) =>
        coins[c].by \in Relayed /\ c \in L!Spends(coins[c].by) /\ coins[c].by # t
  BY <1>3 DEF HeldByOther, Known, IndexInv, PendingRight
<1>6. CASE i # Syncer
  <2>1. t = i /\ t \in Relayed
    BY <1>3, <1>6, InBatches, Relays
  <2>2. ~ HeldByOther(c, t)
    BY <1>3, <1>5, <2>1 DEF Compatible
  <2>3. ImportOK(i, imp'[i], Current, Unfinished(blocks))
    BY <1>1, <1>4, <2>2, PrunedOK
  <2>4. /\ SameTxs(txs, txs') /\ SameMints(coins, coins')
        /\ SameSpends(coins, coins') /\ PendingRight(coins')
    BY <1>1, NothingWritten DEF IndexInv
  <2> QED
    BY <1>1, <1>6, <2>3, <2>4, ImportedAside
<1>7. CASE i = Syncer
  <2>1. PICK b : b = Current
    OBVIOUS
  <2>2. sync.pc = "import" /\ Filling(coins, txs, LocalTip, U, "prune")
    BY <1>1, <1>2, <1>7, ImportState
  <2>3. b \in L!Chain(b) /\ \A e \in U : e \in Blocks /\ b \in L!Chain(e)
    BY <1>2, <2>1, <2>2, ImportingBlock DEF IndexInv
  <2>4. \E pc \in {"prune", "invalidate", "spend"} :
          Moves(i, pc) /\ ImportOK(i, imp'[i], Current, U)
    <3>1. CASE Pruned(i)
      BY <1>1, <1>2, <3>1, PrunedOK
    <3>2. CASE /\ HeldByOther(c, t)
               /\ imp' = [imp EXCEPT ![i].pc = "invalidate", ![i].victim = coins[c].by]
      <4>1. PICK v : v = coins[c].by
        OBVIOUS
      <4>2. /\ imp'[i].pc = "invalidate" /\ imp'[i].todo = imp[i].todo
            /\ imp'[i].victim = v /\ Moves(i, "invalidate")
        <5>1. imp' = [imp EXCEPT ![i].pc = "invalidate", ![i].victim = v]
          BY <3>2, <4>1
        <5> QED
          BY <5>1, SetsVictim DEF TypeInv
      <4>3. ASSUME NEW e \in U, NEW d \in L!Chain(e), v \in L!TxsOf(d)
            PROVE  FALSE
        <5>1. t \in L!TxsOf(b)
          BY <1>3, <1>7, <2>1, InBatches
        <5>2. c \in L!Spends(v) /\ v # t
          BY <1>5, <3>2, <4>1
        <5>3. e \in Blocks /\ b \in L!Chain(e)
          BY <2>3
        <5> QED
          BY <1>3, <4>3, <5>1, <5>2, <5>3, OneSpender
      <4>4. imp[i].todo # {} /\ imp[i].todo \subseteq Spenders(i, Current)
        BY <1>1 DEF IndexInv, ImportsRight, ImportOK
      <4>5. v \in Relayed
        BY <1>5, <3>2, <4>1
      <4>6. ImportOK(i, imp'[i], Current, U)
        BY <1>7, <4>2, <4>3, <4>4, <4>5 DEF ImportOK
      <4> QED
        BY <4>2, <4>6
    <3> QED
      BY <1>4, <3>1, <3>2
  <2>5. PICK pc \in {"prune", "invalidate", "spend"} :
          Moves(i, pc) /\ ImportOK(i, imp'[i], Current, U)
    BY <2>4
  <2>6. Filling(coins', txs', LocalTip, U, pc) /\ PendingRight(coins')
    BY <1>1, <2>2, PruningGoesOn DEF IndexInv
  <2> QED
    BY <1>1, <1>2, <1>7, <2>2, <2>5, <2>6, ImportedInBlock
<1> QED
  BY <1>6, <1>7

LEMMA InvalidateMatch ==
  ASSUME ValidChains, TypeInv, TreeInv, IndexInv, NEW i \in Importers, Invalidate(i)
  PROVE  IndexInv'
<1>1. imp[i].pc = "invalidate" /\ sync' = sync /\ Import(i) /\ Pruned(i)
  BY DEF Invalidate, Rest, Import
<1>2. PICK p, b, v, U :
        p = LocalTip /\ b = Current /\ v = imp[i].victim /\ U = Unfinished(blocks)
  OBVIOUS
<1>3. i = Syncer /\ v \in Relayed /\ \A e \in U : \A d \in L!Chain(e) : v \notin L!TxsOf(d)
  BY <1>1, <1>2 DEF IndexInv, ImportsRight, ImportOK
<1>4. sync.pc = "import" /\ Filling(coins, txs, p, U, "invalidate")
  BY <1>1, <1>2, <1>3, ImportState
<1>5. v \in Txs
  BY <1>3, IndexAssumption DEF Txs
<1>6. /\ \A e \in U : e \in Blocks
      /\ \A d \in L!Chain(p) : v \notin L!TxsOf(d)
  <2>1. b \in U /\ L!Chain(b) = L!Chain(p) \cup {b} /\ \A e \in U : e \in Blocks
    BY <1>2, <1>4, ImportingBlock DEF IndexInv
  <2> QED
    BY <1>3, <2>1
<1>7. SameTxs(txs, txs')
  <2> SUFFICES ASSUME NEW t \in Txs, NEW h \in Nat
               PROVE  IsConfirmed(txs', t, h) <=> IsConfirmed(txs, t, h)
    BY DEF SameTxs
  <2>1. PICK d : d = [height |-> Conflicting, replacedBy |-> Pruning(i)]
    OBVIOUS
  <2>2. txs' = IF Seen(v) THEN [txs EXCEPT ![v] = d] ELSE txs
    BY <1>2, <2>1 DEF Invalidate
  <2>3. CASE t # v \/ ~ Seen(v)
    BY <2>2, <2>3 DEF IsConfirmed, TypeInv, DocsTyped
  <2>4. CASE t = v /\ Seen(v)
    <3>1. txs'[t] = d
      BY <1>5, <2>2, <2>4 DEF TypeInv, DocsTyped
    <3>2. ~ IsConfirmed(txs', t, h)
      BY <2>1, <3>1 DEF IsConfirmed, Conflicting
    <3>3. /\ \A e \in U : ~ ConfirmedIn(L!Chain(e), t, h)
          /\ ~ ConfirmedIn(L!Chain(p), t, h)
      BY <1>3, <1>6, <2>4 DEF ConfirmedIn
    <3>4. ~ IsConfirmed(txs, t, h)
      BY <1>4, <3>3 DEF Filling, TxsMatch
    <3> QED
      BY <3>2, <3>4
  <2> QED
    BY <2>3, <2>4
<1>8. ASSUME NEW c \in Coins, coins[c] # NoDoc
      PROVE  /\ coins'[c] # NoDoc
             /\ \/ coins'[c].mint = coins[c].mint
                \/ c \in Outputs[v] /\ coins'[c].mint = Conflicting
             /\ \/ coins'[c].spent = coins[c].spent /\ coins'[c].by = coins[c].by
                \/ coins[c].spent = Pending /\ coins'[c].spent = Unspent
  <2>1. coins[c] \in CoinDoc
    BY <1>8 DEF TypeInv, DocsTyped
  <2>2. PICK d, e : /\ d = [coins[c] EXCEPT !.mint = Conflicting]
                    /\ e = [coins[c] EXCEPT !.spent = Unspent, !.by = NoTx]
    OBVIOUS
  <2>3. d \in CoinDoc /\ e \in CoinDoc
    BY <2>1, <2>2 DEF CoinDoc, Unspent
  <2>4. /\ d.mint = Conflicting /\ d.spent = coins[c].spent /\ d.by = coins[c].by
        /\ e.mint = coins[c].mint /\ e.spent = Unspent
    BY <2>1, <2>2 DEF CoinDoc
  <2>5. coins'[c] = IF c \in Outputs[v] THEN d
                    ELSE IF coins[c].by = v /\ coins[c].spent = Pending THEN e ELSE coins[c]
    BY <1>2, <1>8, <2>2 DEF Invalidate, Known
  <2>6. d # NoDoc /\ e # NoDoc
    BY <2>3, Documents
  <2> QED
    BY <1>8, <2>4, <2>5, <2>6
<1>9. ASSUME NEW c \in Coins, coins[c] = NoDoc
      PROVE  coins'[c] = coins[c]
  BY <1>9 DEF Invalidate, Known
<1>10. SameMints(coins, coins')
  <2> SUFFICES ASSUME NEW c \in Coins, NEW h \in Nat
               PROVE  IsMinted(coins', c, h) <=> IsMinted(coins, c, h)
    BY DEF SameMints
  <2>1. CASE coins[c] = NoDoc \/ coins'[c].mint = coins[c].mint
    BY <1>8, <1>9, <2>1 DEF IsMinted
  <2>2. CASE coins[c] # NoDoc /\ c \in Outputs[v] /\ coins'[c].mint = Conflicting
    <3>1. ~ IsMinted(coins', c, h)
      BY <2>2 DEF IsMinted, Conflicting
    <3>2. PICK e \in U : MintsMatch(coins, L!Chain(e), Nat)
      BY <1>4 DEF Filling
    <3>3. ~ MintedIn(L!Chain(e), c, h)
      <4>1. SUFFICES ASSUME NEW d \in L!Chain(e), NEW u \in L!TxsOf(d), c \in Outputs[u]
                     PROVE  FALSE
        BY DEF MintedIn
      <4>2. d \in Blocks /\ u \in Txs
        BY <1>6, <3>2, ChainMembers, BlockTypes
      <4>3. u = v
        BY <1>5, <2>2, <4>1, <4>2, OneMinter
      <4> QED
        BY <1>3, <3>2, <4>3
    <3> QED
      BY <3>1, <3>2, <3>3 DEF MintsMatch
  <2> QED
    BY <1>8, <2>1, <2>2
<1>11. SameSpends(coins, coins')
  <2> SUFFICES ASSUME NEW c \in Coins, NEW h \in Nat, NEW t \in Txs
               PROVE  IsSpent(coins', c, h, t) <=> IsSpent(coins, c, h, t)
    BY DEF SameSpends
  <2>1. Pending \notin Nat /\ Unspent \notin Nat
    BY DEF Pending, Unspent
  <2> QED
    BY <1>8, <1>9, <2>1 DEF IsSpent
<1>12. PendingRight(coins')
  <2> SUFFICES ASSUME NEW c \in Coins, coins'[c] # NoDoc, coins'[c].spent = Pending
               PROVE  coins'[c].by \in Relayed /\ c \in L!Spends(coins'[c].by)
    BY DEF PendingRight
  <2>1. Unspent # Pending
    BY DEF Unspent, Pending
  <2> QED
    BY <1>8, <1>9, <2>1 DEF IndexInv, PendingRight
<1>13. ImportOK(i, imp'[i], Current, U) /\ \E pc \in {"prune", "spend"} : Moves(i, pc)
  BY <1>1, <1>2, PrunedOK
<1>14. ASSUME NEW pc \in {"prune", "spend"}
       PROVE  Filling(coins', txs', p, U, pc)
  BY <1>4, <1>7, <1>10, <1>11, FillingKept, PruningGoesOn
<1> QED
  BY <1>1, <1>2, <1>3, <1>4, <1>12, <1>13, <1>14, ImportedInBlock

LEMMA SpendEffect ==
  ASSUME TypeInv, NEW i \in Importers, ImportSpend(i), NEW c \in Coins
  PROVE  \/ /\ coins'[c] = coins[c]
            /\ MaySpend(c) => \A t \in Txs : InBatch(i, t) => c \notin L!Spends(t)
         \/ /\ MaySpend(c) /\ coins'[c] # NoDoc /\ coins'[c].mint = coins[c].mint
            /\ coins'[c].spent = ImportHeight(i)
            /\ coins'[c].by \in Txs /\ InBatch(i, coins'[c].by)
            /\ c \in L!Spends(coins'[c].by)
<1>1. PICK spenders : spenders = {t \in Txs : InBatch(i, t) /\ c \in L!Spends(t)}
  OBVIOUS
<1>2. PICK u : u = CHOOSE t \in spenders : TRUE
  OBVIOUS
<1>3. PICK d : d = [coins[c] EXCEPT !.spent = ImportHeight(i), !.by = u]
  OBVIOUS
<1>4. coins'[c] = IF MaySpend(c) /\ spenders # {} THEN d ELSE coins[c]
  BY <1>1, <1>2, <1>3 DEF ImportSpend
<1>5. CASE MaySpend(c) /\ spenders # {}
  <2>1. u \in Txs /\ InBatch(i, u) /\ c \in L!Spends(u)
    BY <1>1, <1>2, <1>5
  <2>2. coins[c] \in CoinDoc
    BY <1>5 DEF MaySpend, Known, TypeInv, DocsTyped
  <2>3. DOMAIN d = {"mint", "spent", "by"}
    BY <1>3, <2>2 DEF CoinDoc
  <2>4. d # NoDoc
    BY <2>3 DEF NoDoc
  <2>5. d.mint = coins[c].mint /\ d.spent = ImportHeight(i) /\ d.by = u
    BY <1>3, <2>2 DEF CoinDoc
  <2> QED
    BY <1>4, <1>5, <2>1, <2>4, <2>5
<1>6. CASE ~ (MaySpend(c) /\ spenders # {})
  <2>1. coins'[c] = coins[c]
    BY <1>4, <1>6
  <2> QED
    BY <1>1, <1>6, <2>1
<1> QED
  BY <1>5, <1>6

LEMMA SpendMatch ==
  ASSUME ValidChains, TypeInv, TreeInv, IndexInv, NEW i \in Importers, ImportSpend(i)
  PROVE  IndexInv'
<1>1. imp[i].pc = "spend" /\ txs' = txs /\ sync' = sync /\ Import(i)
  BY DEF ImportSpend, Rest, Import
<1>2. SameMints(coins, coins')
  <2> SUFFICES ASSUME NEW c \in Coins, NEW h \in Nat
               PROVE  IsMinted(coins', c, h) <=> IsMinted(coins, c, h)
    BY DEF SameMints
  <2> QED
    BY SpendEffect DEF IsMinted, MaySpend, Known
<1>3. Moves(i, "doc")
  BY ImportMoves DEF ImportSpend, TypeInv
<1>4. ImportOK(i, imp'[i], Current, Unfinished(blocks))
  <2>1. imp'[i].pc = "doc"
    BY <1>3 DEF Moves
  <2> QED
    BY <2>1 DEF ImportOK
<1>5. CASE i # Syncer
  <2>1. ASSUME NEW c \in Coins
        PROVE  \/ coins'[c] = coins[c]
               \/ /\ coins[c] # NoDoc /\ coins[c].spent < 0 /\ coins'[c].spent = Pending
                  /\ coins'[c].by \in Relayed /\ c \in L!Spends(coins'[c].by)
    BY <1>1, <1>5, SpendEffect, ImportHeights, InBatches, Relays DEF MaySpend, Known
  <2>2. SameSpends(coins, coins')
    <3> SUFFICES ASSUME NEW c \in Coins, NEW h \in Nat, NEW t \in Txs
                 PROVE  IsSpent(coins', c, h, t) <=> IsSpent(coins, c, h, t)
      BY DEF SameSpends
    <3>1. CASE coins'[c] = coins[c]
      BY <3>1 DEF IsSpent
    <3>2. CASE coins[c].spent < 0 /\ coins'[c].spent = Pending
      BY <3>2 DEF IsSpent, Pending
    <3> QED
      BY <2>1, <3>1, <3>2
  <2>3. PendingRight(coins')
    BY <2>1 DEF IndexInv, PendingRight
  <2>4. SameTxs(txs, txs')
    BY <1>1, NothingWritten
  <2> QED
    BY <1>1, <1>2, <1>4, <1>5, <2>2, <2>3, <2>4, ImportedAside
<1>6. CASE i = Syncer
  <2>1. PICK p, b, U : p = LocalTip /\ b = Current /\ U = Unfinished(blocks)
    OBVIOUS
  <2>2. sync.pc = "import" /\ b \in Blocks /\ Filling(coins, txs, p, U, "spend")
    BY <1>1, <1>6, <2>1, ImportState
  <2>3. /\ b \in U /\ b \in L!Chain(b) /\ L!Chain(b) = L!Chain(p) \cup {b}
        /\ \A e \in U : e \in Blocks /\ b \in L!Chain(e) /\ L!Chain(e) = L!Chain(e) \cup {b}
    BY <2>1, <2>2, ImportingBlock DEF IndexInv
  <2>4. ImportHeight(i) = L!Height(b) /\ L!Height(b) \in Nat
    BY <1>1, <1>6, <2>1, ImportHeights
  <2>5. \A t : InBatch(i, t) <=> t \in L!TxsOf(b)
    BY <1>6, <2>1, InBatches
  <2>6. L!TxsOf(b) \subseteq Txs
    BY <2>2, BlockTypes
  <2>7. PICK m \in U : MintsMatch(coins, L!Chain(m), Nat)
    BY <2>2 DEF Filling
  <2>8. ASSUME NEW c \in Coins, NEW t \in L!TxsOf(b), c \in L!Spends(t)
        PROVE  coins[c] # NoDoc
    <3>1. PICK d \in L!Chain(b) : \E u \in L!TxsOf(d) : c \in Outputs[u]
      BY <2>2, <2>8 DEF ValidChains
    <3>2. L!Height(d) \in Nat /\ d \in L!Chain(m)
      <4>1. m \in Blocks /\ b \in L!Chain(m)
        BY <2>3
      <4>2. L!Chain(b) \subseteq L!Chain(m)
        BY <4>1, ChainAt
      <4> QED
        BY <2>2, <3>1, <4>2, ChainMembers
    <3>3. MintedIn(L!Chain(m), c, L!Height(d))
      BY <3>1, <3>2 DEF MintedIn
    <3> QED
      BY <2>7, <3>2, <3>3 DEF MintsMatch, IsMinted
  <2>9. ASSUME NEW c \in Coins
         PROVE
           \/ /\ \E t \in L!TxsOf(b) :
                   /\ c \in L!Spends(t)
                   /\ \A h \in Nat : \A u \in Txs :
                        IsSpent(coins', c, h, u) <=> h = L!Height(b) /\ u = t
           \/ /\ \E t \in L!TxsOf(b) : c \in L!Spends(t)
              /\ coins'[c] = coins[c] /\ \E h \in Nat : \E u \in Txs : IsSpent(coins, c, h, u)
           \/ (\A t \in L!TxsOf(b) : c \notin L!Spends(t)) /\ coins'[c] = coins[c]
    <3>1. CASE /\ MaySpend(c) /\ coins'[c] # NoDoc /\ coins'[c].spent = L!Height(b)
               /\ coins'[c].by \in L!TxsOf(b) /\ c \in L!Spends(coins'[c].by)
      BY <3>1 DEF IsSpent
    <3>2. CASE coins'[c] = coins[c] /\ \A t \in L!TxsOf(b) : c \notin L!Spends(t)
      BY <3>2
    <3>3. CASE /\ coins'[c] = coins[c] /\ ~ MaySpend(c)
               /\ \E t \in L!TxsOf(b) : c \in L!Spends(t)
      <4>1. coins[c] # NoDoc
        BY <2>8, <3>3
      <4>2. coins[c] \in CoinDoc /\ ~ (coins[c].spent < 0)
        BY <3>3, <4>1 DEF TypeInv, DocsTyped, MaySpend, Known
      <4>3. coins[c].spent \in Nat
        BY <4>2 DEF CoinDoc, Pending, Unspent
      <4>4. coins[c].by \in Txs
        BY <4>2, <4>3 DEF CoinDoc, Unspent
      <4>5. IsSpent(coins, c, coins[c].spent, coins[c].by)
        BY <4>1 DEF IsSpent
      <4> QED
        BY <3>3, <4>3, <4>4, <4>5
    <3>4. \/ coins'[c] = coins[c] /\ (MaySpend(c) => \A t \in L!TxsOf(b) : c \notin L!Spends(t))
          \/ /\ MaySpend(c) /\ coins'[c] # NoDoc /\ coins'[c].spent = L!Height(b)
             /\ coins'[c].by \in L!TxsOf(b) /\ c \in L!Spends(coins'[c].by)
      BY <2>4, <2>5, <2>6, SpendEffect
    <3> QED
      BY <3>1, <3>2, <3>3, <3>4
  <2>10. \E e \in U : SpendsMatch(coins', L!Chain(e), Nat)
    <3>1. CASE \E e \in U : SpendsMatch(coins, L!Chain(e), Nat)
      <4>1. PICK e \in U : SpendsMatch(coins, L!Chain(e), Nat)
        BY <3>1
      <4>2. e \in Blocks /\ b \in L!Chain(e) /\ L!Chain(e) = L!Chain(e) \cup {b}
        BY <2>3
      <4> QED
        BY <2>9, <4>1, <4>2, SpendsWritten
    <3>2. CASE SpendsMatch(coins, L!Chain(p), Nat)
      BY <2>2, <2>3, <2>9, <3>2, SpendsWritten
    <3> QED
      BY <2>2, <3>1, <3>2 DEF Filling
  <2>11. MintsMatch(coins', L!Chain(m), Nat)
    BY <1>2, <2>7, MatchesKept
  <2>12. Filling(coins', txs', p, U, "doc")
    BY <1>1, <2>2, <2>7, <2>10, <2>11 DEF Filling
  <2>13. PendingRight(coins')
    <3> SUFFICES ASSUME NEW c \in Coins, coins'[c] # NoDoc, coins'[c].spent = Pending
                 PROVE  coins'[c] = coins[c]
      BY DEF IndexInv, PendingRight
    <3> QED
      BY <2>4, SpendEffect DEF Pending
  <2> QED
    BY <1>1, <1>3, <1>4, <1>6, <2>1, <2>2, <2>12, <2>13, ImportedInBlock
<1> QED
  BY <1>5, <1>6

LEMMA TxMatch ==
  ASSUME ValidChains, TypeInv, TreeInv, IndexInv, NEW i \in Importers, ImportTx(i)
  PROVE  IndexInv'
<1>1. imp[i].pc = "doc" /\ coins' = coins /\ blocks' = blocks /\ best' = best /\ Import(i)
  BY ImportActs DEF ImportTx, Rest, Import
<1>2. ASSUME NEW t \in Txs
      PROVE  \/ txs'[t] = txs[t] /\ (~ InBatch(i, t) \/ i # Syncer)
             \/ /\ InBatch(i, t) /\ txs'[t] # NoDoc /\ txs'[t].height = ImportHeight(i)
                /\ i # Syncer => txs[t] = NoDoc
  <2>1. PICK d, e : /\ d = [height |-> ImportHeight(i), replacedBy |-> NoTx]
                    /\ e = [txs[t] EXCEPT !.height = ImportHeight(i)]
    OBVIOUS
  <2>2. txs'[t] = IF ~ InBatch(i, t) THEN txs[t] ELSE IF ~ Seen(t) THEN d
                  ELSE IF i = Syncer THEN e ELSE txs[t]
    BY <2>1 DEF ImportTx
  <2>3. d # NoDoc /\ d.height = ImportHeight(i)
    BY <2>1, Documents
  <2>4. Seen(t) => e # NoDoc /\ e.height = ImportHeight(i)
    <3>1. SUFFICES ASSUME Seen(t) PROVE e # NoDoc /\ e.height = ImportHeight(i)
      OBVIOUS
    <3>2. txs[t] \in [height : Nat \cup {Pending, Conflicting, Expired},
                 replacedBy : {txs[t].replacedBy}]
      BY <3>1 DEF TypeInv, DocsTyped
    <3>3. DOMAIN e = {"height", "replacedBy"} /\ e.height = ImportHeight(i)
      BY <2>1, <3>2
    <3> QED
      BY <3>3 DEF NoDoc
  <2> QED
    BY <2>2, <2>3, <2>4 DEF Seen
<1>3. CASE i # Syncer
  <2>1. SameTxs(txs, txs')
    <3> SUFFICES ASSUME NEW t \in Txs, NEW h \in Nat
                 PROVE  IsConfirmed(txs', t, h) <=> IsConfirmed(txs, t, h)
      BY DEF SameTxs
    <3>1. ImportHeight(i) = Pending /\ Pending # h
      BY <1>1, <1>3, ImportHeights DEF Pending
    <3> QED
      BY <1>2, <1>3, <3>1 DEF IsConfirmed
  <2>2. Moves(i, "done")
    <3>1. imp' = [imp EXCEPT ![i].pc = "done"]
      BY <1>3 DEF ImportTx
    <3> QED
      BY <3>1, ImportMoves DEF TypeInv
  <2>3. ImportOK(i, imp'[i], Current, Unfinished(blocks))
    <3>1. imp'[i].pc = "done"
      BY <2>2 DEF Moves
    <3> QED
      BY <3>1 DEF ImportOK
  <2>4. /\ SameMints(coins, coins') /\ SameSpends(coins, coins')
        /\ PendingRight(coins')
    BY <1>1, NothingWritten DEF IndexInv
  <2> QED
    BY <1>1, <1>3, <2>1, <2>3, <2>4, ImportedAside
<1>4. CASE i = Syncer
  <2>1. PICK p, b, U : p = LocalTip /\ b = Current /\ U = Unfinished(blocks)
    OBVIOUS
  <2>2. sync.pc = "import" /\ b \in Blocks /\ Filling(coins, txs, p, U, "doc")
    BY <1>1, <1>4, <2>1, ImportState
  <2>3. /\ b \in U /\ b \in L!Chain(b) /\ L!Chain(b) = L!Chain(p) \cup {b}
        /\ \A e \in U : e \in Blocks /\ b \in L!Chain(e) /\ L!Chain(e) = L!Chain(e) \cup {b}
    BY <2>1, <2>2, ImportingBlock DEF IndexInv
  <2>4. ASSUME NEW t \in Txs
        PROVE  \/ /\ t \in L!TxsOf(b)
                  /\ \A h \in Nat : IsConfirmed(txs', t, h) <=> h = L!Height(b)
               \/ t \notin L!TxsOf(b) /\ txs'[t] = txs[t]
    <3>1. InBatch(i, t) <=> t \in L!TxsOf(b)
      BY <1>4, <2>1, InBatches
    <3>2. ImportHeight(i) = L!Height(b)
      BY <1>1, <1>4, <2>1, ImportHeights
    <3> QED
      BY <1>2, <1>4, <3>1, <3>2 DEF IsConfirmed
  <2>5. \E e \in U : TxsMatch(txs', L!Chain(e), Nat)
    <3>1. CASE \E e \in U : TxsMatch(txs, L!Chain(e), Nat)
      <4>1. PICK e \in U : TxsMatch(txs, L!Chain(e), Nat)
        BY <3>1
      <4>2. e \in Blocks /\ b \in L!Chain(e) /\ L!Chain(e) = L!Chain(e) \cup {b}
        BY <2>3
      <4> QED
        BY <2>4, <4>1, <4>2, TxsWritten
    <3>2. CASE TxsMatch(txs, L!Chain(p), Nat)
      BY <2>2, <2>3, <2>4, <3>2, TxsWritten
    <3> QED
      BY <2>2, <3>1, <3>2 DEF Filling
  <2>6. sync' = [sync EXCEPT !.pc = "processed"] /\ imp' = [imp EXCEPT ![i].pc = "off"]
    BY <1>4 DEF ImportTx
  <2>7. GoesTo("processed", sync.queue)
    BY <2>6, SetStep DEF TypeInv, SyncTyped
  <2>8. sync'.pc = "processed" /\ Current' = b /\ LocalTip' = p
    BY <1>1, <2>1, <2>7, TipRests DEF GoesTo, Current
  <2>9. DocsMatch'
    <3>1. Filling(coins', txs', p, U, "done")
      BY <1>1, <2>2, <2>5 DEF Filling
    <3>2. FillStep' = "done"
      BY <2>8 DEF FillStep
    <3> QED
      BY <1>1, <2>1, <2>8, <3>1, <3>2 DEF DocsMatch, Rollback
  <2>10. ImportsRight'
    <3>1. Moves(i, "off")
      BY <2>6, ImportMoves DEF TypeInv
    <3>2. imp'[i].pc = "off"
      BY <3>1 DEF Moves
    <3>3. ImportOK(i, imp'[i], Current, U)
      BY <3>2 DEF ImportOK
    <3> QED
      BY <1>1, <2>1, <2>8, <3>1, <3>3, ImportsGoOn DEF IndexInv
  <2>11. LinkRight'
    BY <1>1, <2>1, <2>2, <2>8 DEF IndexInv, LinkRight
  <2>12. UnfinishedRight'
    <3>1. Owed(best, LocalTip, "processed", sync.queue, U)
      BY <2>1, <2>2 DEF IndexInv, UnfinishedRight, Owed, Rollback, Working, Storing
    <3> QED
      BY <1>1, <2>1, <2>7, <3>1, OwedStep
  <2> QED
    BY <1>1, <2>1, <2>8, <2>9, <2>10, <2>11, <2>12 DEF IndexInv
<1> QED
  BY <1>3, <1>4

-----------------------------------------------------------------------------
(* The invariant and what follows from it.                                 *)

LEMMA InitMatches ==
  ASSUME OnePeer, Init
  PROVE  IndexInv
<1>1. LocalTip = NoBlock /\ L!Chain(NoBlock) = {}
  BY InitInTree, ChainOfGenesis
<1>2. \A c \in Coins : coins[c] = NoDoc
  BY DEF Init
<1>3. \A t \in Txs : txs[t] = NoDoc
  BY DEF Init
<1>4. sync.pc = "begin" /\ \A i \in Importers : imp[i].pc = "off"
  BY DEF Init
<1>5. Unfinished(blocks) = {}
  BY DEF Init, Unfinished
<1>6. AllMatch(coins, txs, {}, Nat)
  BY <1>2, <1>3 DEF AllMatch, MintsMatch, SpendsMatch, TxsMatch, IsMinted, IsSpent, IsConfirmed,
                    MintedIn, SpentIn, ConfirmedIn
<1>7. DocsMatch
  <2>1. Filling(coins, txs, LocalTip, Unfinished(blocks), "mint")
    BY <1>1, <1>5, <1>6, NothingUnfinished
  <2> QED
    BY <1>4, <2>1 DEF DocsMatch, FillStep, Rollback
<1>8. PendingRight(coins) /\ ImportsRight /\ LinkRight
  BY <1>2, <1>4 DEF PendingRight, ImportsRight, ImportOK, LinkRight
<1>9. NextRight(blocks, LocalTip)
  BY <1>1 DEF NextRight
<1>10. UnfinishedRight
  BY <1>4, <1>5 DEF UnfinishedRight, Owed, Working, Storing
<1> QED
  BY <1>7, <1>8, <1>9, <1>10 DEF IndexInv

LEMMA StepMatches ==
  ASSUME OnePeer, ValidChains, Compatible, CrashesHeal, TypeInv, TreeInv, IndexInv, [Next]_vars
  PROVE  IndexInv'
<1>1. CASE \E i \in Importers : Import(i)
  BY <1>1, MintMatch, PruneFindMatch, InvalidateMatch, SpendMatch, TxMatch DEF Import
<1>2. CASE SyncStep
  BY <1>2, HeadersMatch, AddBlockMatch, DeleteBlocksMatch, DeleteTxsMatch, DeleteCoinsMatch,
     UnspendMatch, StoreMatch, LinkMatch, MarkProcessedMatch DEF SyncStep
<1>3. CASE \/ \E t \in Relayed : Relay(t)
           \/ \E b \in Blocks : Switch(b)
           \/ Announcement \/ RecordSynced \/ Crash \/ UNCHANGED vars
  BY <1>3, OutsideMatch
<1> QED
  BY <1>1, <1>2, <1>3 DEF Next

THEOREM IndexInvariant ==
  ASSUME OnePeer, ValidChains, Compatible, CrashesHeal
  PROVE  Spec => []IndexInv
<1>1. Init => IndexInv
  BY InitMatches
<1>2. TypeInv /\ TreeInv /\ IndexInv /\ [Next]_vars => IndexInv'
  BY StepMatches
<1> QED
  BY <1>1, <1>2, TypesKept, ProcessedAreChain, PTL DEF Spec

LEMMA QuietMatches ==
  ASSUME IndexInv, Quiet
  PROVE  Filling(coins, txs, LocalTip, Unfinished(blocks), "mint")
BY DEF Quiet, IndexInv, DocsMatch, FillStep, Rollback

\* When all that is stored is processed, no import is half written.
LEMMA StoredMatches ==
  ASSUME IndexInv, Quiet, sync.pc = "idle" \/ AllStored = Processed
  PROVE  AllMatch(coins, txs, L!Chain(LocalTip), Nat)
<1>1. Unfinished(blocks) = {}
  <2>1. CASE sync.pc = "idle"
    BY <2>1, NoneUnfinished DEF IndexInv
  <2>2. CASE AllStored = Processed
    BY <2>2 DEF Unfinished, AllStored, Processed, Stored
  <2> QED
    BY <2>1, <2>2
<1> QED
  BY <1>1, QuietMatches, NothingUnfinished

\* The sets of heights of the ledger hold what the documents say.
LEMMA LedgerMinted ==
  ASSUME NEW p \in Blocks \cup {NoBlock}, NEW c, NEW h
  PROVE  h \in L!MintedAt(p, c) <=> h \in Nat /\ MintedIn(L!Chain(p), c, h)
<1>1. \A d \in L!Chain(p) : L!Height(d) \in Nat
  BY HighestOfChain, ChainOfGenesis
<1> QED
  BY <1>1 DEF L!MintedAt, MintedIn

LEMMA LedgerConfirmed ==
  ASSUME NEW p \in Blocks \cup {NoBlock}, NEW t, NEW h
  PROVE  h \in L!ConfirmedAt(p, t) <=> h \in Nat /\ ConfirmedIn(L!Chain(p), t, h)
<1>1. \A d \in L!Chain(p) : L!Height(d) \in Nat
  BY HighestOfChain, ChainOfGenesis
<1> QED
  BY <1>1 DEF L!ConfirmedAt, ConfirmedIn

LEMMA LedgerSpent ==
  ASSUME NEW p \in Blocks \cup {NoBlock}, NEW c, NEW x
  PROVE  x \in L!SpentAt(p, c) <=>
           \E h \in Nat : \E t \in Txs : x = <<h, t>> /\ SpentIn(L!Chain(p), c, h, t)
<1>1. \A d \in L!Chain(p) : L!Height(d) \in Nat
  BY HighestOfChain, ChainOfGenesis
<1>2. x \in L!SpentAt(p, c) <=>
        \E d \in L!Chain(p) : \E t \in Txs :
          x = <<L!Height(d), t>> /\ t \in L!TxsOf(d) /\ c \in L!Spends(t)
  <2>1. PICK Q : Q = {q \in L!Chain(p) \X DOMAIN Inputs :
                        q[2] \in L!TxsOf(q[1]) /\ c \in L!Spends(q[2])}
    OBVIOUS
  <2>2. x \in L!SpentAt(p, c) <=> \E q \in Q : x = <<L!Height(q[1]), q[2]>>
    BY <2>1 DEF L!SpentAt
  <2>3. \A d \in L!Chain(p) : \A t \in Txs :
          t \in L!TxsOf(d) /\ c \in L!Spends(t) <=> <<d, t>> \in Q
    BY <2>1 DEF Txs
  <2>4. \A q \in Q : \E d \in L!Chain(p) : \E t \in Txs : q = <<d, t>>
    BY <2>1 DEF Txs
  <2>5. ASSUME x \in L!SpentAt(p, c)
        PROVE  \E d \in L!Chain(p) : \E t \in Txs :
                 x = <<L!Height(d), t>> /\ t \in L!TxsOf(d) /\ c \in L!Spends(t)
    <3>1. PICK q \in Q : x = <<L!Height(q[1]), q[2]>>
      BY <2>2, <2>5
    <3>2. PICK d \in L!Chain(p), t \in Txs : q = <<d, t>>
      BY <2>4
    <3>3. q[1] = d /\ q[2] = t /\ <<d, t>> \in Q
      BY <3>2
    <3> QED
      BY <2>3, <3>1, <3>3
  <2>6. ASSUME NEW d \in L!Chain(p), NEW t \in Txs,
               x = <<L!Height(d), t>> /\ t \in L!TxsOf(d) /\ c \in L!Spends(t)
        PROVE  x \in L!SpentAt(p, c)
    <3>1. PICK q \in Q : q = <<d, t>>
      BY <2>3, <2>6
    <3>2. q[1] = d /\ q[2] = t
      BY <3>1
    <3> QED
      BY <2>2, <2>6, <3>2
  <2> QED
    BY <2>5, <2>6
<1> QED
  BY <1>1, <1>2 DEF SpentIn

LEMMA MatchesFollow ==
  ASSUME TypeInv, TreeInv, AllMatch(coins, txs, L!Chain(LocalTip), Nat)
  PROVE  Matches
<1>1. PICK p : p = LocalTip
  OBVIOUS
<1>2. p \in Blocks \cup {NoBlock}
  BY <1>1 DEF TreeInv, Holds
<1>3. ASSUME NEW c \in Coins
      PROVE  L!MintedAt(p, c) = IF Known(c) /\ coins[c].mint >= 0 THEN {coins[c].mint} ELSE {}
  <2>1. \A h : h \in L!MintedAt(p, c) <=> h \in Nat /\ IsMinted(coins, c, h)
    BY <1>1, <1>2, LedgerMinted DEF AllMatch, MintsMatch
  <2>2. coins[c] # NoDoc => coins[c].mint \in Nat \cup {Pending, Conflicting, Expired}
    BY DEF TypeInv, DocsTyped, CoinDoc
  <2>3. \A h : h \in Nat /\ IsMinted(coins, c, h) <=>
               Known(c) /\ coins[c].mint >= 0 /\ h = coins[c].mint
    BY <2>2 DEF IsMinted, Known, Pending, Conflicting, Expired
  <2> QED
    BY <2>1, <2>3
<1>4. ASSUME NEW c \in Coins
      PROVE  L!SpentAt(p, c) = IF Known(c) /\ coins[c].spent >= 0
                               THEN {<<coins[c].spent, coins[c].by>>} ELSE {}
  <2>1. \A x : x \in L!SpentAt(p, c) <=>
           \E h \in Nat : \E t \in Txs : x = <<h, t>> /\ IsSpent(coins, c, h, t)
    BY <1>1, <1>2, LedgerSpent DEF AllMatch, SpendsMatch
  <2>2. CASE Known(c) /\ coins[c].spent >= 0
    <3>1. coins[c] \in CoinDoc
      BY <2>2 DEF TypeInv, DocsTyped, Known
    <3>2. coins[c].spent \in Nat
      BY <2>2, <3>1 DEF CoinDoc, Pending, Unspent
    <3>3. coins[c].by \in Txs
      BY <3>1, <3>2 DEF CoinDoc, Unspent
    <3>4. \A x : x \in L!SpentAt(p, c) <=> x = <<coins[c].spent, coins[c].by>>
      BY <2>1, <2>2, <3>2, <3>3 DEF IsSpent, Known
    <3> QED
      BY <2>2, <3>4
  <2>3. CASE ~ (Known(c) /\ coins[c].spent >= 0)
    <3>1. \A h \in Nat : \A t : ~ IsSpent(coins, c, h, t)
      BY <2>3 DEF IsSpent, Known
    <3> QED
      BY <2>1, <2>3, <3>1
  <2> QED
    BY <2>2, <2>3
<1>5. ASSUME NEW t \in Txs
      PROVE  L!ConfirmedAt(p, t) = IF Seen(t) /\ txs[t].height >= 0 THEN {txs[t].height} ELSE {}
  <2>1. \A h : h \in L!ConfirmedAt(p, t) <=> h \in Nat /\ IsConfirmed(txs, t, h)
    BY <1>1, <1>2, LedgerConfirmed DEF AllMatch, TxsMatch
  <2>2. txs[t] # NoDoc => txs[t].height \in Nat \cup {Pending, Conflicting, Expired}
    BY DEF TypeInv, DocsTyped, Seen
  <2>3. \A h : h \in Nat /\ IsConfirmed(txs, t, h) <=>
               Seen(t) /\ txs[t].height >= 0 /\ h = txs[t].height
    BY <2>2 DEF IsConfirmed, Seen, Pending, Conflicting, Expired
  <2> QED
    BY <2>1, <2>3
<1> QED
  BY <1>1, <1>3, <1>4, <1>5 DEF Matches

\* Whenever no block is being stored or rolled back and none is left half stored, the
\* coins and the transactions say what the chain that ends in the tip says, for every
\* tree of valid chains and every mempool of transactions that do not conflict with
\* one another, if crashes leave no block of a branch that the peers abandon.
THEOREM IndexCorrect ==
  ASSUME OnePeer, ValidChains, Compatible, CrashesHeal
  PROVE  Spec => []IndexMatchesChain
<1>1. TypeInv /\ TreeInv /\ IndexInv => IndexMatchesChain
  BY StoredMatches, MatchesFollow DEF IndexMatchesChain
<1> QED
  BY <1>1, IndexInvariant, TypesKept, ProcessedAreChain, PTL

\* A block of valid chains has as many transactions as places.
LEMMA TxsCount ==
  ASSUME ValidChains, NEW b \in Blocks
  PROVE  Cardinality(L!TxsOf(b)) = Len(BlockTxs[b])
<1>1. PICK f, n : f = BlockTxs[b] /\ n = Len(f)
  OBVIOUS
<1>2. f \in Seq(Txs) /\ n \in Nat /\ DOMAIN f = 1 .. n
  BY <1>1 DEF ValidChains
<1>3. f \in [1 .. n -> L!TxsOf(b)]
  BY <1>1, <1>2 DEF L!TxsOf
<1>4. f \in Injection(1 .. n, L!TxsOf(b))
  BY <1>1, <1>2, <1>3 DEF Injection, IsInjective, ValidChains
<1>5. f \in Surjection(1 .. n, L!TxsOf(b))
  BY <1>1, <1>3 DEF Surjection, L!TxsOf
<1>6. ExistsBijection(1 .. n, L!TxsOf(b))
  BY <1>4, <1>5 DEF ExistsBijection, Bijection
<1> QED
  BY <1>1, <1>2, <1>6, FS_CountingElements

LEMMA SameHeight ==
  ASSUME NEW p \in Blocks, NEW b \in L!Chain(p), NEW d \in L!Chain(p), L!Height(d) = L!Height(b)
  PROVE  d = b
BY ChainAt

\* The blocks of the tip's chain are found right in any chain they are part of.
LEMMA VerificationFollows ==
  ASSUME ValidChains, TypeInv, TreeInv, NextRight(blocks, LocalTip), NEW b \in Processed,
         NEW m \in Blocks, L!Chain(LocalTip) \subseteq L!Chain(m),
         NEW s \in Blocks, L!Chain(LocalTip) \subseteq L!Chain(s),
         NEW x \in Blocks, L!Chain(LocalTip) \subseteq L!Chain(x),
         MintsMatch(coins, L!Chain(m), Nat), SpendsMatch(coins, L!Chain(s), Nat),
         TxsMatch(txs, L!Chain(x), Nat)
  PROVE  /\ ~ CorruptedBlock(b) /\ ~ DupeBlockHeight(b)
         /\ ~ CoinShouldBeSpent(b) /\ ~ CoinHeightMismatch(b)
<1>1. PICK p, h : p = LocalTip /\ h = blocks[b].height
  OBVIOUS
<1>2. Holds(blocks, p) /\ Processed = L!Chain(p)
  BY <1>1 DEF TreeInv, Holds, Processed, Stored
<1>3. b \in L!Chain(p) /\ p \in Blocks /\ b \in Blocks
  <2>1. p # NoBlock
    BY <1>2, ChainOfGenesis
  <2> QED
    BY <1>2, <2>1 DEF Holds, Processed
<1>4. \A d \in L!Chain(p) : blocks[d].height = L!Height(d)
  BY <1>2 DEF Holds, Processed, Stored
<1>5. h = L!Height(b) /\ h \in Nat
  BY <1>1, <1>3, <1>4, ChainMembers
<1>6. ASSUME NEW t \in Txs
      PROVE  (Seen(t) /\ txs[t].height = h) <=> t \in L!TxsOf(b)
  <2>1. (Seen(t) /\ txs[t].height = h) <=> ConfirmedIn(L!Chain(x), t, h)
    BY <1>1, <1>5 DEF TxsMatch, IsConfirmed, Seen
  <2>2. b \in L!Chain(x)
    BY <1>1, <1>3
  <2>3. \A d \in L!Chain(x) : L!Height(d) = h => d = b
    BY <1>5, <2>2, SameHeight
  <2> QED
    BY <1>5, <2>1, <2>2, <2>3 DEF ConfirmedIn
<1>7. L!TxsOf(b) \subseteq Txs /\ \A t \in Txs : L!Spends(t) \subseteq Coins
  BY <1>3, BlockTypes
<1>8. ~ CorruptedBlock(b)
  <2>1. Cardinality({t \in Txs : Seen(t) /\ txs[t].height = h}) = Len(BlockTxs[b])
    <3>1. {t \in Txs : Seen(t) /\ txs[t].height = h} = L!TxsOf(b)
      BY <1>6, <1>7
    <3> QED
      BY <1>3, <3>1, TxsCount
  <2>2. ASSUME b # p
        PROVE  blocks[b].next \in {d \in Processed : blocks[d].height = h + 1}
    <3>1. PICK d \in L!Chain(p) : L!Height(d) = L!Height(b) + 1 /\ blocks[b].next = d
      BY <1>1, <1>3, <2>2 DEF NextRight
    <3> QED
      BY <1>2, <1>4, <1>5, <3>1
  <2> QED
    BY <1>1, <2>1, <2>2 DEF CorruptedBlock
<1>9. ~ DupeBlockHeight(b)
  BY <1>2, <1>3, <1>4, SameHeight DEF DupeBlockHeight
<1>10. ~ CoinShouldBeSpent(b)
  <2>1. ASSUME NEW t \in L!TxsOf(b), NEW c \in L!Spends(t)
        PROVE  Known(c) /\ coins[c].spent = h
    <3>1. t \in Txs /\ c \in Coins
      BY <1>7
    <3>2. SpentIn(L!Chain(s), c, h, t)
      BY <1>1, <1>3, <1>5 DEF SpentIn
    <3> QED
      BY <1>1, <1>5, <3>1, <3>2 DEF SpendsMatch, IsSpent, Known
  <2> QED
    BY <1>1, <2>1 DEF CoinShouldBeSpent
<1>11. ~ CoinHeightMismatch(b)
  <2>1. ASSUME NEW t \in Txs, Seen(t), txs[t].height = h, NEW c \in Outputs[t]
        PROVE  Known(c) /\ coins[c].mint = h
    <3>1. t \in L!TxsOf(b)
      BY <1>6, <2>1
    <3>2. MintedIn(L!Chain(m), c, h)
      BY <1>1, <1>3, <1>5, <3>1 DEF MintedIn
    <3>3. c \in Coins
      BY DEF Coins
    <3> QED
      BY <1>1, <1>5, <3>2, <3>3 DEF MintsMatch, IsMinted, Known
  <2> QED
    BY <1>1, <2>1 DEF CoinHeightMismatch
<1> QED
  BY <1>8, <1>9, <1>10, <1>11

\* What a crash has left unfinished is above the tip.
LEMMA UnfinishedAbove ==
  ASSUME TypeInv, TreeInv, IndexInv, Quiet, LocalTip # NoBlock, NEW e \in Unfinished(blocks)
  PROVE  e \in Blocks /\ L!Chain(LocalTip) \subseteq L!Chain(e)
<1>1. e \in Blocks /\ Heir(best, LocalTip, e)
  BY OwedOutside DEF IndexInv, Quiet, Storing
<1>2. e # Genesis /\ Parent[e] = LocalTip /\ LocalTip \in Blocks
  BY <1>1 DEF Heir, TreeInv, Holds
<1> QED
  BY <1>1, <1>2, ChainOfChild

LEMMA QuietVerified ==
  ASSUME ValidChains, TypeInv, TreeInv, IndexInv, Quiet, NEW b \in Processed
  PROVE  /\ ~ CorruptedBlock(b) /\ ~ DupeBlockHeight(b)
         /\ ~ CoinShouldBeSpent(b) /\ ~ CoinHeightMismatch(b)
<1>1. PICK p, U : p = LocalTip /\ U = Unfinished(blocks)
  OBVIOUS
<1>2. p # NoBlock /\ p \in Blocks
  <2>1. Holds(blocks, p) /\ Processed = L!Chain(p)
    BY <1>1 DEF TreeInv, Holds, Processed, Stored
  <2>2. p # NoBlock
    BY <2>1, ChainOfGenesis
  <2> QED
    BY <2>1, <2>2 DEF Holds
<1>3. \A e \in U \cup {p} : e \in Blocks /\ L!Chain(p) \subseteq L!Chain(e)
  BY <1>1, <1>2, UnfinishedAbove
<1>4. Filling(coins, txs, p, U, "mint")
  BY <1>1, QuietMatches
<1>5. PICK m \in U \cup {p} : MintsMatch(coins, L!Chain(m), Nat)
  BY <1>4 DEF Filling
<1>6. PICK s \in U \cup {p} : SpendsMatch(coins, L!Chain(s), Nat)
  BY <1>4 DEF Filling
<1>7. PICK x \in U \cup {p} : TxsMatch(txs, L!Chain(x), Nat)
  BY <1>4 DEF Filling
<1> QED
  BY <1>1, <1>3, <1>5, <1>6, <1>7, VerificationFollows DEF IndexInv

\* Between two blocks the repository's own verification of the index finds nothing
\* wrong with any processed block, one left half stored above them or not, under the
\* same hypotheses.
THEOREM VerificationCorrect ==
  ASSUME OnePeer, ValidChains, Compatible, CrashesHeal
  PROVE  Spec => []VerificationPasses
<1>1. TypeOK /\ TypeInv /\ TreeInv /\ IndexInv => VerificationPasses
  BY QuietVerified DEF VerificationPasses
<1> QED
  BY <1>1, TypeCorrect, IndexInvariant, TypesKept, ProcessedAreChain, PTL
=============================================================================
