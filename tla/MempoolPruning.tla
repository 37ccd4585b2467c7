--------------------------- MODULE MempoolPruning ---------------------------
(***************************************************************************)
(* The pruning service of bitcore-node (services/pruning.ts), a process of *)
(* its own that works on the collections the sync of UtxoIndex writes at   *)
(* the same time.  --INVALID marks a replaced transaction and its          *)
(* descendants once the replacement is buried; --OLD expires transactions  *)
(* that have left the node's mempool.  A look reads the collections; each  *)
(* update comes later, on its own, and the service may be stopped between  *)
(* any two of them.                                                        *)
(***************************************************************************)
EXTENDS UtxoIndex

CONSTANTS
  MatureLen,        \* INV_MATURE_LEN: blocks above the replacement
  DescendantLimit,  \* DESCENDANT_LIMIT: what --OLD removes with one transaction
  Outdated,         \* relayed transactions that may get older than MEMPOOL_AGE
  MaxStops          \* bound: ends of the service with something half written

ASSUME PruningAssumption ==
  /\ MatureLen \in Nat /\ DescendantLimit \in Nat /\ MaxStops \in Nat
  /\ Outdated \subseteq Relayed

VARIABLES
  pruner,    \* what a look found to do, and what of it is still to be written
  torn       \* what each end of the service has left half written

pvars == <<vars, pruner, torn>>

\* txs and left are those of removeOldMempool; root, by and calls those of
\* _invalidateTx, whose calls are a stack.
AtRest == [pc |-> "rest", txs |-> {}, left |-> {},
           root |-> NoTx, by |-> NoTx, calls |-> <<>>]

\* The three updates of a Promise.all: the documents of the transactions, the
\* coins they mint, the coins they spend.
Updates == {"txs", "minted", "spent"}

Minter(c) == CHOOSE t \in Txs : c \in Outputs[t]

\* What the steps of R lead to from ts: the least set that is closed under them.
Reached(ts, R) ==
  LET closed == {S \in SUBSET Txs :
                   ts \subseteq S /\ \A e \in R : e[1] \in S => e[2] \in S}
  IN {t \in Txs : \A S \in closed : t \in S}

PInit == Init /\ pruner = AtRest /\ torn = <<>>
-----------------------------------------------------------------------------
(* --INVALID                                                               *)

\* A replacement that has been replaced itself.
Overtaken(r) == Seen(r) /\ txs[r].replacedBy # NoTx /\ txs[r].height < 0

\* The loop of invalidateTx: the replacement of the replacement, as long as there
\* is one, or up to the one it meets a second time.
Replacement(t) ==
  LET steps == {<<r, txs[r].replacedBy>> : r \in {q \in Txs \ {t} : Overtaken(q)}}
      met == Reached({txs[t].replacedBy}, steps)
  IN CHOOSE r \in met :
       \/ ~ Overtaken(r) \/ r = t
       \/ \E p, q \in met \cup {t} :
            p # q /\ Overtaken(p) /\ Overtaken(q)
            /\ txs[p].replacedBy = r /\ txs[q].replacedBy = r

\* Re-org protection: the replacement is buried deep enough, or has expired.
Settled(r) ==
  /\ Seen(r)
  /\ \/ /\ txs[r].height > Pending
        /\ L!Height(best) - txs[r].height > MatureLen
     \/ txs[r].height = Expired

\* processAllInvalidTxs comes to a pending coin, and to its transaction or to
\* those it spends from; invalidateTx lets through a replaced one.
LookInvalid(c) ==
  /\ pruner.pc = "rest"
  /\ Known(c) /\ coins[c].mint = Pending /\ Seen(Minter(c))
  /\ LET child == Minter(c)
         parents == {Minter(d) : d \in {e \in Coins : Known(e) /\ coins[e].by = child}}
         suspects == IF txs[child].replacedBy # NoTx THEN {child} ELSE parents
     IN \E t \in suspects :
          /\ Seen(t) /\ txs[t].replacedBy # NoTx /\ txs[t].height < 0
          /\ Settled(Replacement(t))
          /\ pruner' = [AtRest EXCEPT !.pc = "invalidate", !.root = t,
                                      !.by = txs[t].replacedBy]
  /\ UNCHANGED <<vars, torn>>

\* Fault: no call is made for what spends the outputs.
NothingSpent(t) == {}

\* The outputs of t that the mempool spends, each with what spends it.
SpentOutputs(t) ==
  {<<c, coins[c].by>> : c \in {d \in Outputs[t] :
     Known(d) /\ coins[d].spent = Pending /\ coins[d].by # NoTx}}

Depth == Len(pruner.calls)
Call == pruner.calls[Depth]
NewCall(t) == [tx |-> t, todo |-> SpentOutputs(t), left |-> Updates]

\* invalidateTx calls _invalidateTx.
Invalidation ==
  /\ pruner.pc = "invalidate" /\ Depth = 0
  /\ pruner' = [pruner EXCEPT !.calls = <<NewCall(pruner.root)>>]
  /\ UNCHANGED <<vars, torn>>

\* _invalidateTx calls itself for the next of the outputs its query found.
Descend ==
  /\ pruner.pc = "invalidate" /\ Depth > 0
  /\ \E d \in Call.todo :
       LET calls == [pruner.calls EXCEPT ![Depth].todo = @ \ {d}]
       IN pruner' = [pruner EXCEPT !.calls = Append(calls, NewCall(d[2]))]
  /\ UNCHANGED <<vars, torn>>

\* After these calls come the updates; a call returns after the third.
Updated(update) ==
  /\ pruner.pc = "invalidate" /\ Depth > 0
  /\ Call.todo = {} /\ update \in Call.left
  /\ pruner' =
       IF Call.left # {update}
       THEN [pruner EXCEPT !.calls[Depth].left = @ \ {update}]
       ELSE IF Depth > 1 THEN [pruner EXCEPT !.calls = SubSeq(@, 1, Depth - 1)]
       ELSE AtRest
  /\ UNCHANGED <<blocks, synced, sync, imp, net, late, crashes, repeats, torn>>

\* Only the root is replaced by something.
InvalidateTxs ==
  /\ Updated("txs")
  /\ txs' = [t \in Txs |->
       IF t = Call.tx /\ Seen(t)
       THEN [height |-> Conflicting,
             replacedBy |-> IF Depth = 1 THEN pruner.by ELSE txs[t].replacedBy]
       ELSE txs[t]]
  /\ UNCHANGED coins

InvalidateMinted ==
  /\ Updated("minted")
  /\ coins' = [c \in Coins |->
       IF Known(c) /\ c \in Outputs[Call.tx] THEN [coins[c] EXCEPT !.mint = Conflicting]
       ELSE coins[c]]
  /\ UNCHANGED txs

\* Fault: the inputs of what is gone stay spent.
NotReleased(coin) == coin

\* What becomes of an input of a transaction that is gone.
Released(coin) == [coin EXCEPT !.spent = Unspent, !.by = NoTx]

\* What an invalid parent minted stays spent.
InvalidateSpent ==
  /\ Updated("spent")
  /\ LET parents == {pruner.calls[n].tx : n \in 1..(Depth - 1)}
     IN coins' = [c \in Coins |->
          IF Known(c) /\ coins[c].by = Call.tx /\ coins[c].spent = Pending
             /\ Minter(c) \notin parents
          THEN Released(coins[c]) ELSE coins[c]]
  /\ UNCHANGED txs

WriteInvalid == InvalidateTxs \/ InvalidateMinted \/ InvalidateSpent
-----------------------------------------------------------------------------
(* --OLD                                                                   *)

\* yieldRelatedOutputs
Related(ts) == {c \in Coins : Known(c) /\ coins[c].mint # Conflicting /\ Minter(c) \in ts}

Heirs(ts) ==
  Reached(ts, {<<Minter(c), coins[c].by>> : c \in {d \in Related(Txs) : coins[d].by # NoTx}})

\* processOldMempoolTxs: an old transaction that the node's RPC does not know,
\* none of whose heirs is mined.
LookOld(t) ==
  /\ pruner.pc = "rest"
  /\ Seen(t) /\ txs[t].height = Pending
  /\ L!ConfirmedAt(best, t) = {}
  /\ LET heirs == Heirs({t})
     IN /\ \A c \in Related(heirs) : coins[c].mint < 0 /\ coins[c].spent < 0
        /\ Cardinality(heirs \ {t}) <= DescendantLimit
        /\ pruner' = [AtRest EXCEPT !.pc = "expire", !.txs = heirs, !.left = Updates]
  /\ UNCHANGED <<vars, torn>>

\* Fault: the updates do not ask again whether the data is still pending.
StillThere(height) == TRUE

\* The filters of removeOldMempool.
StillPending(height) == height = Pending

\* removeOldMempool: three updates at once, each with a filter of its own.
Removed(update) ==
  /\ pruner.pc = "expire" /\ update \in pruner.left
  /\ pruner' = IF pruner.left = {update} THEN AtRest
               ELSE [pruner EXCEPT !.left = @ \ {update}]
  /\ UNCHANGED <<blocks, synced, sync, imp, net, late, crashes, repeats, torn>>

ExpireTxs ==
  /\ Removed("txs")
  /\ txs' = [t \in Txs |->
       IF t \in pruner.txs /\ Seen(t) /\ StillPending(txs[t].height)
       THEN [txs[t] EXCEPT !.height = Expired] ELSE txs[t]]
  /\ UNCHANGED coins

ExpireMinted ==
  /\ Removed("minted")
  /\ coins' = [c \in Coins |->
       IF Known(c) /\ Minter(c) \in pruner.txs /\ StillPending(coins[c].mint)
       THEN [coins[c] EXCEPT !.mint = Expired] ELSE coins[c]]
  /\ UNCHANGED txs

ExpireSpent ==
  /\ Removed("spent")
  /\ coins' = [c \in Coins |->
       IF Known(c) /\ coins[c].by \in pruner.txs /\ StillPending(coins[c].spent)
       THEN Released(coins[c]) ELSE coins[c]]
  /\ UNCHANGED txs

WriteOld == ExpireTxs \/ ExpireMinted \/ ExpireSpent
-----------------------------------------------------------------------------
\* What the service has found and not written to the end.
UnderWay ==
  pruner.txs \cup {pruner.calls[n].tx : n \in 1..Depth}
    \cup (IF pruner.pc = "invalidate" THEN {pruner.root} ELSE {})

Torn == UNION {torn[n] : n \in 1..Len(torn)}

\* The service is stopped, or an update fails and ends what the look began.
Stop ==
  /\ pruner.pc # "rest" /\ Len(torn) < MaxStops
  /\ torn' = Append(torn, UnderWay)
  /\ pruner' = AtRest
  /\ UNCHANGED vars
-----------------------------------------------------------------------------
PruneInvalid ==
  Invalidation \/ Descend \/ WriteInvalid \/ \E c \in Coins : LookInvalid(c)
PruneOld == WriteOld \/ \E t \in Outdated : LookOld(t)

PNext ==
  \/ Next /\ UNCHANGED <<pruner, torn>>
  \/ PruneInvalid
  \/ PruneOld
  \/ Stop

\* The worker goes on while it has something to do.  The service is run again
\* and again (setInterval), coin after coin, and writes what it has begun.
PFairness ==
  /\ WF_pvars(SyncStep /\ UNCHANGED <<pruner, torn>>)
  /\ WF_pvars((\E i \in Importers : Import(i)) /\ UNCHANGED <<pruner, torn>>)
  /\ WF_pvars(Announcement /\ UNCHANGED <<pruner, torn>>)
  /\ WF_pvars(Invalidation \/ Descend \/ WriteInvalid \/ WriteOld)
  /\ SF_pvars(\E c \in Coins : LookInvalid(c))

PSpec == PInit /\ [][PNext]_pvars /\ PFairness
-----------------------------------------------------------------------------
(* Properties.                                                             *)

PruningTypeOK ==
  /\ \A c \in Coins : Known(c) =>
       /\ coins[c].mint \in Nat \cup {Pending, Conflicting, Expired}
       /\ coins[c].spent \in Nat \cup {Pending, Unspent}
       /\ (coins[c].by = NoTx) = (coins[c].spent = Unspent)
  /\ \A t \in Txs : Seen(t) => txs[t].height \in Nat \cup {Pending, Conflicting, Expired}
  /\ pruner.pc \in {"rest", "invalidate", "expire"}
  /\ UnderWay \subseteq Txs

\* A coin the mempool holds is held by a transaction that may still be mined,
\* is being imported, or was itself minted by one that may not: what expires
\* or is replaced gives its inputs back.  Only what the service is at work on,
\* or was when it ended, may be half written.
InputsGivenBack ==
  /\ PruningTypeOK
  /\ \A c \in Coins : (Known(c) /\ coins[c].spent = Pending) =>
       LET t == coins[c].by IN
       \/ t \in Relayed /\ imp[t].pc = "doc"
       \/ Seen(t) /\ txs[t].height \in {Pending} \cup Nat
       \/ coins[c].mint \in {Conflicting, Expired}
       \/ {t, Minter(c)} \cap (UnderWay \cup Torn) # {}

\* The pruning takes nothing from a block: a transaction or a spend with a
\* height keeps it, even when the block came between the look and the write,
\* or between two writes.
MinedIsNotPruned ==
  [][pruner' # pruner =>
       /\ \A t \in Txs : Seen(t) /\ txs[t].height >= 0 => txs'[t] = txs[t]
       /\ \A c \in Coins : Known(c) =>
            /\ coins[c].mint >= 0 => coins'[c].mint = coins[c].mint
            /\ coins[c].spent >= 0 => coins'[c].spent = coins[c].spent]_pvars

\* A transaction of the mempool that spends from a replaced one does not stay
\* pending for ever: once the replacement is buried, the service finds it, by
\* its pending outputs.  One that the end of the service left half written is
\* found again only if it has such an output.
Orphan(t) ==
  \E c \in L!Spends(t) :
    /\ Known(c) /\ coins[c].by = t
    /\ LET p == Minter(c)
       IN /\ Seen(p) /\ txs[p].replacedBy # NoTx /\ txs[p].height = Conflicting
          /\ Settled(Replacement(p))
Findable(t) == \E c \in Outputs[t] : Known(c) /\ coins[c].mint = Pending
OrphansAreInvalidated ==
  []<>(\A t \in Relayed :
         Seen(t) /\ txs[t].height = Pending /\ (t \in Torn => Findable(t)) => ~ Orphan(t))
=============================================================================
