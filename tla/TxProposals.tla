---------------------------- MODULE TxProposals ----------------------------
(***************************************************************************)
(* The life of the transaction proposals of one multisig wallet in         *)
(* bitcore-wallet-service: createTx, publishTx, signTx, rejectTx,          *)
(* broadcastTx, removePendingTx and getPendingTxs of src/lib/server.ts     *)
(* over the proposal documents of src/lib/storage.ts, for UTXO chains.     *)
(*                                                                         *)
(* Requests of the copayers run concurrently.  Each keeps its own copy of  *)
(* the documents it fetched; every database or explorer call is a step of  *)
(* its own, so any other request may run between a fetch and the store     *)
(* that depends on it.  Only create, publish and remove take the wallet    *)
(* lock (lock.ts, detailed in WalletLock).                                 *)
(***************************************************************************)
EXTENDS Integers, FiniteSets, Sequences

CONSTANTS
  Copayers,            \* the n copayers of a complete wallet
  Txps,                \* proposal ids
  Inputs,              \* the unspent outputs the wallet starts with
  Requests,            \* slots for requests being served at the same time
  RequiredSignatures,  \* m of the m-of-n wallet
  Ops,                 \* the operations the clients of this instance use
  MayLapse,            \* TRUE when a lock may be cleared while its owner works
  ExplorerLags,        \* TRUE when the explorer may report spent outputs
  Nobody, NoLock, Orphan

AllOps == {"create", "publish", "remove", "sign", "reject", "broadcast", "list"}
LockedOps == {"create", "publish", "remove"}

(* Wallet.verifyCopayerLimits: 1 <= m <= n. *)
ASSUME CopayersAssumption ==
  /\ IsFiniteSet(Copayers)
  /\ RequiredSignatures \in 1 .. Cardinality(Copayers)
  /\ Nobody \notin Copayers
ASSUME LockAssumption ==
  NoLock \notin Requests /\ Orphan \notin Requests /\ NoLock # Orphan
ASSUME OpsAssumption ==
  Ops \subseteq AllOps /\ MayLapse \in BOOLEAN /\ ExplorerLags \in BOOLEAN

VARIABLES
  txps,       \* the TXS collection: Txps -> document, NoTxp when absent
  lock,       \* owner of the wallet's document in the LOCKS collection
  reqs,       \* the requests being served, with their local copies
  aged,       \* proposals older than DELETE_LOCKTIME
  removed,    \* ids whose document was deleted
  chain,      \* transactions the network has accepted
  signedTxs,  \* fully signed transactions handed out to clients
  cast        \* votes that were stored

vars == <<txps, lock, reqs, aged, removed, chain, signedTxs, cast>>

----------------------------------------------------------------------------
(* Documents. *)

VoteType == {"accept", "reject"}
Vote == [who : Copayers, type : VoteType]
Status == {"none", "temporary", "pending", "accepted", "rejected", "broadcasted"}
Doc == [status : Status, creator : Copayers \cup {Nobody},
        inputs : SUBSET Inputs, actions : Seq(Vote)]
NoTxp == [status |-> "none", creator |-> Nobody, inputs |-> {}, actions |-> <<>>]

NewTxp(c, ins) ==
  [status |-> "temporary", creator |-> c, inputs |-> ins, actions |-> <<>>]

NumCopayers == Cardinality(Copayers)
(* Fault: a rejection more than it takes to make acceptance impossible. *)
RequiredRejectionsOffByOne == NumCopayers - RequiredSignatures + 2

RequiredRejections ==
  LET k == NumCopayers - RequiredSignatures + 1
  IN  IF RequiredSignatures < k THEN RequiredSignatures ELSE k

VotesOf(d, type) == {i \in DOMAIN d.actions : d.actions[i].type = type}
Voters(d) == {d.actions[i].who : i \in DOMAIN d.actions}
Signers(d) == {d.actions[i].who : i \in VotesOf(d, "accept")}

IsAccepted(d) == Cardinality(VotesOf(d, "accept")) >= RequiredSignatures
IsRejected(d) == Cardinality(VotesOf(d, "reject")) >= RequiredRejections
IsPending(d) == d.status \notin {"none", "temporary", "broadcasted", "rejected"}

UpdatedStatus(d) ==
  IF d.status # "pending" THEN d.status
  ELSE IF IsRejected(d) THEN "rejected"
  ELSE IF IsAccepted(d) THEN "accepted"
  ELSE "pending"

(* Fault: the status is updated before the vote is added. *)
AddActionLate(d, c, type) ==
  [d EXCEPT !.status = UpdatedStatus(d),
            !.actions = Append(@, [who |-> c, type |-> type])]

AddAction(d, c, type) ==
  LET voted == [d EXCEPT !.actions = Append(@, [who |-> c, type |-> type])]
  IN  [voted EXCEPT !.status = UpdatedStatus(voted)]

SetStatus(d, s) == [d EXCEPT !.status = s]

(* A transaction is identified by its proposal and by whose signatures it  *)
(* carries: the id of a P2SH transaction covers its signatures.            *)
Tx == [txp : Txps, inputs : SUBSET Inputs, signers : SUBSET Copayers]
TxOf(t, d) == [txp |-> t, inputs |-> d.inputs, signers |-> Signers(d)]
InputsOf(txs) == UNION {tx.inputs : tx \in txs}

(* What the p2p network does with a transaction (external). *)
NetworkTakes(tx) == tx \notin chain /\ tx.inputs \cap InputsOf(chain) = {}

----------------------------------------------------------------------------
(* Requests.  "doc" is the local copy of the proposal the request is       *)
(* about, "utxos" the outputs the explorer reported, "todo" the accepted   *)
(* proposals getPendingTxs still has to look up on chain, "held" the       *)
(* inputs found locked.                                                    *)

PC == {"idle", "acquire", "read", "utxos", "pending", "sweep", "spent",
       "store", "delete", "release", "vote", "send", "check", "mark"}
Copy == [txp : Txps, doc : Doc]
Request == [pc : PC, op : AllOps, who : Copayers \cup {Nobody},
            txp : Txps \cup {Nobody}, doc : Doc, utxos : SUBSET Inputs,
            todo : SUBSET Copy, held : SUBSET Inputs]
Idle == [pc |-> "idle", op |-> "list", who |-> Nobody, txp |-> Nobody,
         doc |-> NoTxp, utxos |-> {}, todo |-> {}, held |-> {}]

Goto(r, pc) == reqs' = [reqs EXCEPT ![r].pc = pc]
GotoWith(r, pc, d) == reqs' = [reqs EXCEPT ![r].pc = pc, ![r].doc = d]
Reply(r) == reqs' = [reqs EXCEPT ![r] = Idle]
(* A locked task answers its client and then releases the lock. *)
Finish(r) == reqs' = [reqs EXCEPT ![r] = [Idle EXCEPT !.pc = "release"]]

----------------------------------------------------------------------------
Init ==
  /\ txps = [t \in Txps |-> NoTxp]
  /\ lock = NoLock
  /\ reqs = [r \in Requests |-> Idle]
  /\ aged = {}
  /\ removed = {}
  /\ chain = {}
  /\ signedTxs = {}
  /\ cast = {}

(* A client sends a request.  It may choose the id of a new proposal, and  *)
(* send the same creation again, but it does not reuse a removed id.       *)
Start(r, op, c, t) ==
  /\ reqs[r].pc = "idle"
  /\ op \in Ops
  /\ CASE op = "list"   -> t = Nobody
       [] op = "create" -> t \in Txps \ removed
       [] OTHER         -> t \in Txps /\ txps[t] # NoTxp
  /\ reqs' = [reqs EXCEPT ![r] = [Idle EXCEPT
                !.pc = CASE op \in LockedOps -> "acquire"
                         [] op = "list"      -> "pending"
                         [] OTHER            -> "read",
                !.op = op, !.txp = t,
                !.who = IF op \in {"list", "publish", "broadcast"} THEN Nobody ELSE c]]
  /\ UNCHANGED <<txps, lock, aged, removed, chain, signedTxs, cast>>

----------------------------------------------------------------------------
(* The wallet lock, as lock.ts offers it to one wallet's requests.         *)

(* Fault: the lock document is upserted instead of inserted. *)
AcquireUpsert(r) ==
  /\ reqs[r].pc = "acquire"
  /\ lock' = r
  /\ Goto(r, "read")
  /\ UNCHANGED <<txps, aged, removed, chain, signedTxs, cast>>

Acquire(r) ==
  /\ reqs[r].pc = "acquire"
  /\ lock = NoLock
  /\ lock' = r
  /\ Goto(r, "read")
  /\ UNCHANGED <<txps, aged, removed, chain, signedTxs, cast>>

(* Only createTx passes a waitTime; the others retry for ever. *)
WalletBusy(r) ==
  /\ reqs[r].pc = "acquire"
  /\ reqs[r].op = "create"
  /\ lock # NoLock
  /\ Reply(r)
  /\ UNCHANGED <<txps, lock, aged, removed, chain, signedTxs, cast>>

(* The lock is deleted by key, whoever owns it by now. *)
Release(r) ==
  /\ reqs[r].pc = "release"
  /\ lock' = NoLock
  /\ Reply(r)
  /\ UNCHANGED <<txps, aged, removed, chain, signedTxs, cast>>

(* A waiter clears the lock of a request that died.  With MayLapse also    *)
(* that of one at work: one that outlives LOCK_EXE_TIME, or the victim of  *)
(* a late clearExpiredLock (WalletLock shows both).                        *)
LeaseLapses ==
  /\ \/ lock = Orphan
     \/ MayLapse /\ lock \in Requests
  /\ lock' = NoLock
  /\ UNCHANGED <<txps, reqs, aged, removed, chain, signedTxs, cast>>

----------------------------------------------------------------------------
(* getUtxosForCurrentWallet and the getPendingTxs it calls: the outputs    *)
(* the explorer knows, less those of pending and broadcasted proposals.    *)
(* Where the wallet has no output at all no proposal is looked at; when    *)
(* all of Inputs are spent it may still have others, like change.          *)

GetUtxos(r) ==
  /\ reqs[r].pc = "utxos"
  /\ \E seen \in IF ExplorerLags THEN SUBSET chain ELSE {chain} :
       LET found == Inputs \ InputsOf(seen)
       IN  \E to \in IF found = {} THEN {"spent", "pending"} ELSE {"pending"} :
             reqs' = [reqs EXCEPT ![r].pc = to, ![r].utxos = found]
  /\ UNCHANGED <<txps, lock, aged, removed, chain, signedTxs, cast>>

FetchPendingTxs(r) ==
  /\ reqs[r].pc = "pending"
  /\ LET pend == {t \in Txps : IsPending(txps[t])}
         acc  == {t \in pend : txps[t].status = "accepted"}
     IN  reqs' = [reqs EXCEPT ![r].pc = "sweep",
                    ![r].todo = {[txp |-> t, doc |-> txps[t]] : t \in acc},
                    ![r].held = UNION {txps[t].inputs : t \in pend \ acc}]
  /\ UNCHANGED <<txps, lock, aged, removed, chain, signedTxs, cast>>

(* Fault: every accepted proposal is taken for broadcasted. *)
SweepBroadcastedUnseen(r, x) ==
  /\ reqs[r].pc = "sweep"
  /\ x \in reqs[r].todo
  /\ txps' = [txps EXCEPT ![x.txp] = SetStatus(x.doc, "broadcasted")]
  /\ reqs' = [reqs EXCEPT ![r].todo = @ \ {x}]
  /\ UNCHANGED <<lock, aged, removed, chain, signedTxs, cast>>

(* An accepted proposal found on chain is stored as broadcasted. *)
SweepBroadcasted(r, x) ==
  /\ reqs[r].pc = "sweep"
  /\ x \in reqs[r].todo
  /\ TxOf(x.txp, x.doc) \in chain
  /\ txps' = [txps EXCEPT ![x.txp] = SetStatus(x.doc, "broadcasted")]
  /\ reqs' = [reqs EXCEPT ![r].todo = @ \ {x}]
  /\ UNCHANGED <<lock, aged, removed, chain, signedTxs, cast>>

(* One that the explorer does not know stays pending, its inputs locked. *)
SweepMissing(r, x) ==
  /\ reqs[r].pc = "sweep"
  /\ x \in reqs[r].todo
  /\ reqs' = [reqs EXCEPT ![r].todo = @ \ {x},
                          ![r].held = @ \cup x.doc.inputs]
  /\ UNCHANGED <<txps, lock, aged, removed, chain, signedTxs, cast>>

SweepDone(r) ==
  /\ reqs[r].pc = "sweep"
  /\ reqs[r].todo = {}
  /\ IF reqs[r].op = "list" THEN Reply(r) ELSE Goto(r, "spent")
  /\ UNCHANGED <<txps, lock, aged, removed, chain, signedTxs, cast>>

(* Fault: the inputs of pending proposals are not taken away. *)
AvailableIgnoringPending(r) ==
  reqs[r].utxos \
    UNION {txps[t].inputs : t \in {u \in Txps : txps[u].status = "broadcasted"}}

(* The inputs left once those of broadcasted proposals are taken away. *)
Available(r) ==
  reqs[r].utxos \ (reqs[r].held \cup
    UNION {txps[t].inputs : t \in {u \in Txps : txps[u].status = "broadcasted"}})

----------------------------------------------------------------------------
(* createTx *)

(* checkTxpAlreadyExists: a creation that is sent again changes nothing. *)
CreateTxExisting(r) ==
  /\ reqs[r].pc = "read" /\ reqs[r].op = "create"
  /\ txps[reqs[r].txp] # NoTxp
  /\ Finish(r)
  /\ UNCHANGED <<txps, lock, aged, removed, chain, signedTxs, cast>>

(* Inputs named by the client are taken without looking at the outputs. *)
CreateTxWithInputs(r) ==
  /\ reqs[r].pc = "read" /\ reqs[r].op = "create"
  /\ txps[reqs[r].txp] = NoTxp
  /\ \E ins \in SUBSET Inputs \ {{}} :
       GotoWith(r, "store", NewTxp(reqs[r].who, ins))
  /\ UNCHANGED <<txps, lock, aged, removed, chain, signedTxs, cast>>

CreateTxSelecting(r) ==
  /\ reqs[r].pc = "read" /\ reqs[r].op = "create"
  /\ txps[reqs[r].txp] = NoTxp
  /\ Goto(r, "utxos")
  /\ UNCHANGED <<txps, lock, aged, removed, chain, signedTxs, cast>>

SelectTxInputs(r) ==
  /\ reqs[r].pc = "spent" /\ reqs[r].op = "create"
  /\ \/ \E ins \in SUBSET Available(r) \ {{}} :
          reqs' = [reqs EXCEPT ![r] = [@ EXCEPT !.pc = "store",
                     !.doc = NewTxp(reqs[r].who, ins), !.utxos = {}, !.held = {}]]
     \/ Finish(r)      \* INSUFFICIENT_FUNDS or LOCKED_FUNDS
  /\ UNCHANGED <<txps, lock, aged, removed, chain, signedTxs, cast>>

----------------------------------------------------------------------------
(* publishTx *)

(* Fault: any proposal is published afresh, without its votes. *)
PublishTxFetchAny(r) ==
  /\ reqs[r].pc = "read" /\ reqs[r].op = "publish"
  /\ LET d == txps[reqs[r].txp] IN
       IF d.status = "none" THEN Finish(r)
       ELSE GotoWith(r, "utxos", [d EXCEPT !.actions = <<>>])
  /\ UNCHANGED <<txps, lock, aged, removed, chain, signedTxs, cast>>

(* A proposal that is not temporary is returned as it is. *)
PublishTxFetch(r) ==
  /\ reqs[r].pc = "read" /\ reqs[r].op = "publish"
  /\ LET d == txps[reqs[r].txp] IN
       IF d.status = "temporary" THEN GotoWith(r, "utxos", d) ELSE Finish(r)
  /\ UNCHANGED <<txps, lock, aged, removed, chain, signedTxs, cast>>

CheckTxUTXOs(r) ==
  /\ reqs[r].pc = "spent" /\ reqs[r].op = "publish"
  /\ IF reqs[r].doc.inputs \subseteq Available(r)
     THEN reqs' = [reqs EXCEPT ![r] = [@ EXCEPT !.pc = "store",
                     !.doc = SetStatus(reqs[r].doc, "pending"), !.utxos = {}, !.held = {}]]
     ELSE Finish(r)    \* UNAVAILABLE_UTXOS
  /\ UNCHANGED <<txps, lock, aged, removed, chain, signedTxs, cast>>

(* storeTx of createTx and publishTx: an upsert of the whole document. *)
StoreTx(r) ==
  /\ reqs[r].pc = "store"
  /\ txps' = [txps EXCEPT ![reqs[r].txp] = reqs[r].doc]
  /\ Finish(r)
  /\ UNCHANGED <<lock, aged, removed, chain, signedTxs, cast>>

----------------------------------------------------------------------------
(* removePendingTx *)

(* getRemainingDeleteLockTime = 0: the lock time is over, or the creator   *)
(* asks and nobody else has signed.                                        *)
MayDelete(c, t, d) ==
  \/ t \in aged
  \/ d.creator = c /\ Signers(d) \subseteq {c}

(* Fault: TX_NOT_FOUND is tested, the proposal being pending is not. *)
RemoveAnyTxFetch(r) ==
  /\ reqs[r].pc = "read" /\ reqs[r].op = "remove"
  /\ LET t == reqs[r].txp IN
       IF txps[t] # NoTxp /\ MayDelete(reqs[r].who, t, txps[t])
       THEN Goto(r, "delete") ELSE Finish(r)
  /\ UNCHANGED <<txps, lock, aged, removed, chain, signedTxs, cast>>

RemovePendingTxFetch(r) ==
  /\ reqs[r].pc = "read" /\ reqs[r].op = "remove"
  /\ LET t == reqs[r].txp IN
       IF IsPending(txps[t]) /\ MayDelete(reqs[r].who, t, txps[t])
       THEN Goto(r, "delete") ELSE Finish(r)
  /\ UNCHANGED <<txps, lock, aged, removed, chain, signedTxs, cast>>

RemoveTx(r) ==
  /\ reqs[r].pc = "delete"
  /\ txps' = [txps EXCEPT ![reqs[r].txp] = NoTxp]
  /\ removed' = removed \cup {reqs[r].txp}
  /\ Finish(r)
  /\ UNCHANGED <<lock, aged, chain, signedTxs, cast>>

----------------------------------------------------------------------------
(* signTx and rejectTx: no lock is taken between the fetch and the store.  *)

HasVoted(c, d) == c \in Voters(d)

(* Faults: COPAYER_VOTED is not tested; a signature too many is taken. *)
MaySignAgain(c, d) == IsPending(d) /\ ~IsAccepted(d)
MaySignAccepted(c, d) == IsPending(d) /\ ~HasVoted(c, d)

(* A fully signed transaction takes no further signature: BAD_SIGNATURES.  *)
MaySign(c, d) == IsPending(d) /\ ~HasVoted(c, d) /\ ~IsAccepted(d)
MayReject(c, d) == d.status = "pending" /\ ~HasVoted(c, d)

SignTxFetch(r) ==
  /\ reqs[r].pc = "read" /\ reqs[r].op = "sign"
  /\ LET d == txps[reqs[r].txp]  c == reqs[r].who IN
       IF MaySign(c, d) THEN GotoWith(r, "vote", AddAction(d, c, "accept"))
                        ELSE Reply(r)
  /\ UNCHANGED <<txps, lock, aged, removed, chain, signedTxs, cast>>

RejectTxFetch(r) ==
  /\ reqs[r].pc = "read" /\ reqs[r].op = "reject"
  /\ LET d == txps[reqs[r].txp]  c == reqs[r].who IN
       IF MayReject(c, d) THEN GotoWith(r, "vote", AddAction(d, c, "reject"))
                          ELSE Reply(r)
  /\ UNCHANGED <<txps, lock, aged, removed, chain, signedTxs, cast>>

(* The vote a request of signTx or rejectTx adds. *)
OwnVote(q) == [txp |-> q.txp, who |-> q.who,
               type |-> IF q.op = "sign" THEN "accept" ELSE "reject"]

(* storeTx of signTx and rejectTx replaces whatever the document has       *)
(* become, and brings it back if it was removed.  The signer of the last   *)
(* signature gets the fully signed transaction in the answer.              *)
StoreVote(r) ==
  /\ reqs[r].pc = "vote"
  /\ LET t == reqs[r].txp
         d == reqs[r].doc
     IN  /\ txps' = [txps EXCEPT ![t] = d]
         /\ cast' = cast \cup {OwnVote(reqs[r])}
         /\ signedTxs' = signedTxs \cup
              (IF d.status = "accepted" THEN {TxOf(t, d)} ELSE {})
  /\ Reply(r)
  /\ UNCHANGED <<lock, aged, removed, chain>>

----------------------------------------------------------------------------
(* broadcastTx *)

(* Fault: any pending proposal is broadcasted, accepted or not. *)
BroadcastPendingFetch(r) ==
  /\ reqs[r].pc = "read" /\ reqs[r].op = "broadcast"
  /\ LET d == txps[reqs[r].txp] IN
       IF IsPending(d) THEN GotoWith(r, "send", d) ELSE Reply(r)
  /\ UNCHANGED <<txps, lock, aged, removed, chain, signedTxs, cast>>

BroadcastTxFetch(r) ==
  /\ reqs[r].pc = "read" /\ reqs[r].op = "broadcast"
  /\ LET d == txps[reqs[r].txp] IN
       IF d.status = "accepted" THEN GotoWith(r, "send", d) ELSE Reply(r)
  /\ UNCHANGED <<txps, lock, aged, removed, chain, signedTxs, cast>>

BroadcastTaken(r) ==
  /\ reqs[r].pc = "send"
  /\ LET tx == TxOf(reqs[r].txp, reqs[r].doc) IN
       /\ NetworkTakes(tx)
       /\ chain' = chain \cup {tx}
  /\ \/ Goto(r, "mark")
     \/ Goto(r, "check")   \* the network took it, its answer was lost
  /\ UNCHANGED <<txps, lock, aged, removed, signedTxs, cast>>

(* Refused, already known, or the explorer could not be reached. *)
BroadcastFailed(r) ==
  /\ reqs[r].pc = "send"
  /\ Goto(r, "check")
  /\ UNCHANGED <<txps, lock, aged, removed, chain, signedTxs, cast>>

(* After a failure the proposal is marked only if the chain has it. *)
CheckTxInBlockchain(r) ==
  /\ reqs[r].pc = "check"
  /\ \/ TxOf(reqs[r].txp, reqs[r].doc) \in chain /\ Goto(r, "mark")
     \/ Reply(r)
  /\ UNCHANGED <<txps, lock, aged, removed, chain, signedTxs, cast>>

ProcessBroadcast(r) ==
  /\ reqs[r].pc = "mark"
  /\ txps' = [txps EXCEPT ![reqs[r].txp] = SetStatus(reqs[r].doc, "broadcasted")]
  /\ Reply(r)
  /\ UNCHANGED <<lock, aged, removed, chain, signedTxs, cast>>

----------------------------------------------------------------------------
(* Failures and the world around the server. *)

(* A database or explorer call fails: an error is answered, nothing is     *)
(* stored, a lock that was taken is released.  (A write that took effect   *)
(* although it was answered with an error is the step that succeeds, or,   *)
(* for the lock, one followed by Crash.)                                   *)
CallFails(r) ==
  /\ reqs[r].pc \in PC \ {"idle", "release", "send"}
  /\ IF reqs[r].pc # "acquire" /\ reqs[r].op \in LockedOps
     THEN Finish(r) ELSE Reply(r)
  /\ UNCHANGED <<txps, lock, aged, removed, chain, signedTxs, cast>>

(* The process serving r dies, or its release is lost: the lock stays. *)
Crash(r) ==
  /\ reqs[r].pc # "idle"
  /\ lock' = IF lock = r THEN Orphan ELSE lock
  /\ Reply(r)
  /\ UNCHANGED <<txps, aged, removed, chain, signedTxs, cast>>

(* DELETE_LOCKTIME passes for a proposal; only a removal looks at it. *)
Age(t) ==
  /\ "remove" \in Ops
  /\ txps[t] # NoTxp
  /\ aged' = aged \cup {t}
  /\ UNCHANGED <<txps, lock, reqs, removed, chain, signedTxs, cast>>

(* A client broadcasts a fully signed transaction without the server. *)
ThirdPartyBroadcast(tx) ==
  /\ tx \in signedTxs
  /\ NetworkTakes(tx)
  /\ chain' = chain \cup {tx}
  /\ UNCHANGED <<txps, lock, reqs, aged, removed, signedTxs, cast>>

----------------------------------------------------------------------------
Serve(r) ==
  \/ Acquire(r) \/ WalletBusy(r) \/ Release(r)
  \/ GetUtxos(r) \/ FetchPendingTxs(r) \/ SweepDone(r)
  \/ \E x \in reqs[r].todo : SweepBroadcasted(r, x) \/ SweepMissing(r, x)
  \/ CreateTxExisting(r) \/ CreateTxWithInputs(r)
  \/ CreateTxSelecting(r) \/ SelectTxInputs(r)
  \/ PublishTxFetch(r) \/ CheckTxUTXOs(r) \/ StoreTx(r)
  \/ RemovePendingTxFetch(r) \/ RemoveTx(r)
  \/ SignTxFetch(r) \/ RejectTxFetch(r) \/ StoreVote(r)
  \/ BroadcastTxFetch(r) \/ BroadcastTaken(r) \/ BroadcastFailed(r)
  \/ CheckTxInBlockchain(r) \/ ProcessBroadcast(r)

Next ==
  \/ \E r \in Requests, op \in AllOps, c \in Copayers, t \in Txps \cup {Nobody} :
       Start(r, op, c, t)
  \/ \E r \in Requests : Serve(r) \/ CallFails(r) \/ Crash(r)
  \/ LeaseLapses
  \/ \E t \in Txps : Age(t)
  \/ \E tx \in signedTxs : ThirdPartyBroadcast(tx)

Spec == Init /\ [][Next]_vars

(* No vote on a proposal, and no creation of it that is sent again, is     *)
(* under way together with another vote on it or its removal.              *)
Undisturbed ==
  \A r, s \in Requests :
    r # s /\ reqs[r].op # "list" /\ reqs[s].txp = reqs[r].txp =>
      /\ reqs[r].pc = "vote" => reqs[s].pc \notin {"vote", "delete"}
      /\ reqs[r].op = "create" => reqs[s].pc # "delete"

(* The requests run concurrently, but for these overlaps. *)
UndisturbedSpec == Init /\ [][Next /\ Undisturbed']_vars

----------------------------------------------------------------------------
(* Properties. *)

(* Every variable has its type; an idle request is Idle. *)
TypeOK ==
  /\ txps \in [Txps -> Doc]
  /\ lock \in Requests \cup {NoLock, Orphan}
  /\ reqs \in [Requests -> Request]
  /\ aged \subseteq Txps
  /\ removed \subseteq Txps
  /\ chain \subseteq Tx
  /\ signedTxs \subseteq Tx
  /\ cast \subseteq [txp : Txps, who : Copayers, type : VoteType]

(* Whatever copies of a proposal overwrote each other, the stored status   *)
(* is the one the stored votes demand: _updateStatus, the status guards of *)
(* the handlers and the upsert of storeTx never leave them out of step.    *)
Consistent(d) ==
  /\ d.status \in {"none", "temporary"} => d.actions = <<>>
  /\ d.status = "pending" => ~IsAccepted(d) /\ ~IsRejected(d)
  /\ d.status \in {"accepted", "broadcasted"} => IsAccepted(d) /\ ~IsRejected(d)
  /\ d.status = "rejected" => IsRejected(d) /\ ~IsAccepted(d)
StatusMatchesVotes == \A t \in Txps : Consistent(txps[t])

(* No stored proposal counts a copayer twice (the COPAYER_VOTED guards). *)
VotesOnce(d) ==
  \A i, j \in DOMAIN d.actions : d.actions[i].who = d.actions[j].who => i = j
OneVotePerCopayer == \A t \in Txps : VotesOnce(txps[t])

(* requiredRejections is small enough that a pending proposal always       *)
(* leaves a copayer who can still decide it.                               *)
NoStalemate ==
  \A t \in Txps : txps[t].status = "pending" => Voters(txps[t]) # Copayers

(* A proposal marked as broadcasted carries the very signatures of a       *)
(* transaction the network has, by broadcastTx or by getPendingTxs.        *)
BroadcastedIsOnChain ==
  \A t \in Txps : txps[t].status = "broadcasted" => TxOf(t, txps[t]) \in chain

(* Two pending proposals never spend the same output: publishing locks the *)
(* inputs of a proposal until it is rejected, removed or broadcasted,      *)
(* stated of UndisturbedSpec: a vote that is stored late breaks it.        *)
InputsLockedOnce ==
  \A t, u \in Txps :
    t # u /\ IsPending(txps[t]) /\ IsPending(txps[u]) =>
      txps[t].inputs \cap txps[u].inputs = {}

(* A vote that was stored, and answered with success, stays in the stored  *)
(* proposal as long as the proposal exists: no publication, broadcast or   *)
(* sweep that fetched it before overwrites the vote.  Stated of            *)
(* UndisturbedSpec, as another vote may.                                   *)
RecordedVoteKept ==
  \A a \in cast : txps[a.txp] = NoTxp \/
    \E i \in DOMAIN txps[a.txp].actions :
      txps[a.txp].actions[i] = [who |-> a.who, type |-> a.type]

(* No copayer has both its approval and its rejection of the same proposal *)
(* stored and answered with success: signTx after rejectTx, and rejectTx   *)
(* after signTx, fail with COPAYER_VOTED.                                  *)
OneVerdictPerCopayer ==
  \A a, b \in cast : a.txp = b.txp /\ a.who = b.who => a.type = b.type

(* An accepted proposal whose payment the network has taken carries the    *)
(* signatures of that payment, so that it can be recognised on chain and   *)
(* marked as broadcasted, stated of UndisturbedSpec: two last votes at     *)
(* once break it.                                                          *)
PaymentRecognised ==
  \A tx \in chain : txps[tx.txp].status = "accepted" =>
    TxOf(tx.txp, txps[tx.txp]) \in chain

(* At most one request is between the acquisition and the release of the   *)
(* wallet lock.                                                            *)
InTask(r) ==
  \/ reqs[r].pc = "release"
  \/ reqs[r].op \in LockedOps /\ reqs[r].pc \notin {"idle", "acquire"}
LockExcludes == \A r, s \in Requests : InTask(r) /\ InTask(s) => r = s

(* Only the creator removes a proposal, and only when nobody else has      *)
(* voted on it.                                                            *)
OnlyCreatorRemoves ==
  [][\A t \in Txps : txps[t] # NoTxp /\ txps'[t] = NoTxp =>
       \E r \in Requests :
         /\ reqs[r].pc = "delete" /\ reqs[r].txp = t
         /\ reqs[r].who = txps[t].creator
         /\ Voters(txps[t]) \subseteq {reqs[r].who}]_vars

(* The requests rely on no more of the wallet lock than WalletLock gives:  *)
(* this lock is a LeaseLock too, tasks begin and end with it, and unless   *)
(* locks lapse that of a request at work goes only with its task.          *)
LeasedLock == INSTANCE LeaseLock WITH
  Procs <- Requests, busy <- {r \in Requests : InTask(r)}, threatened <- MayLapse
UsesLeaseLock == LeasedLock!Spec

(* Under every interleaving the wallet keeps the promise of an m-of-n      *)
(* wallet: the network only gets payments m copayers have approved.        *)
Approvals == {[txp |-> a.txp, who |-> a.who] : a \in {b \in cast : b.type = "accept"}}
Quorums == {S \in SUBSET Copayers : Cardinality(S) >= RequiredSignatures}
MultisigWallet == INSTANCE MultisigSpend WITH approvals <- Approvals, spent <- chain
SpendsAreApproved == MultisigWallet!Spec

(* Requests served one at a time take every proposal through the life it   *)
(* is meant to have.                                                       *)
Lifecycle == INSTANCE ProposalLifecycle WITH
  stage <- [t \in Txps |-> IF t \in removed THEN "removed" ELSE txps[t].status],
  reserved <- [t \in Txps |-> txps[t].inputs]
FollowsLifecycle == Lifecycle!Spec

----------------------------------------------------------------------------
(***************************************************************************)
(* The inductive invariant behind the safety properties.  A request's copy *)
(* of a proposal may be out of date, but it is sound in itself: its status *)
(* agrees with its votes, and its votes were all stored at some time, but  *)
(* for the one the request is about to store.                              *)
(***************************************************************************)

VoteIn(t, d, i) ==
  [txp |-> t, who |-> d.actions[i].who, type |-> d.actions[i].type]
VotesIn(t, d) == {VoteIn(t, d, i) : i \in DOMAIN d.actions}

Sound(d) == Consistent(d) /\ VotesOnce(d)

StoredOK(t, d, votes, txs) ==
  /\ Sound(d)
  /\ VotesIn(t, d) \subseteq votes
  /\ d.status = "broadcasted" => TxOf(t, d) \in txs

AcceptedCopy(t, d, votes) ==
  d.status = "accepted" /\ Sound(d) /\ VotesIn(t, d) \subseteq votes

RequestOK(q, votes, txs) ==
  /\ q.op = "list" => q.pc \in {"idle", "release", "pending", "sweep"}
  /\ q.op # "list" => q.txp \in Txps
  /\ q.op \in {"create", "remove", "sign", "reject"} => q.who \in Copayers
  /\ q.pc \in {"acquire", "read", "utxos", "pending", "sweep", "spent"} =>
       q.doc.actions = <<>>
  /\ q.pc = "store" =>
       q.doc.status \in {"temporary", "pending"} /\ q.doc.actions = <<>>
  /\ q.pc = "vote" =>
       /\ q.op \in {"sign", "reject"}
       /\ q.doc.status \in {"pending", "accepted", "rejected"}
       /\ Sound(q.doc)
       /\ VotesIn(q.txp, q.doc) \subseteq votes \cup {OwnVote(q)}
  /\ q.pc \in {"send", "check", "mark"} => AcceptedCopy(q.txp, q.doc, votes)
  /\ q.pc = "mark" => TxOf(q.txp, q.doc) \in txs
  /\ \A x \in q.todo : AcceptedCopy(x.txp, x.doc, votes)

Authorised(tx, votes) ==
  /\ Cardinality(tx.signers) >= RequiredSignatures
  /\ \A c \in tx.signers : [txp |-> tx.txp, who |-> c, type |-> "accept"] \in votes

(* Every stored proposal, every local copy and every fully signed          *)
(* transaction is sound; implies the safety properties of this module that *)
(* hold under all interleavings.                                           *)
IInv ==
  /\ TypeOK
  /\ \A t \in Txps : StoredOK(t, txps[t], cast, chain)
  /\ \A r \in Requests : RequestOK(reqs[r], cast, chain)
  /\ \A tx \in chain \cup signedTxs : Authorised(tx, cast)
=============================================================================
