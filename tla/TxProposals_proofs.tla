------------------------ MODULE TxProposals_proofs ------------------------
(***************************************************************************)
(* Proofs about TxProposals.                                               *)
(***************************************************************************)
EXTENDS TxProposals, FiniteSetTheorems, FunctionTheorems, TLAPS

----------------------------------------------------------------------------
(* Requests: updates of one field or two keep them typed. *)

LEMMA IdleType == Idle \in Request
  BY DEF Idle, Request, PC, AllOps, NoTxp, Doc, Status

LEMMA ReleaseType == [Idle EXCEPT !.pc = "release"] \in Request
  BY IdleType DEF Idle, Request, PC

LEMMA GotoType ==
  ASSUME NEW q \in Request, NEW pc \in PC
  PROVE  [q EXCEPT !.pc = pc] \in Request
  BY DEF Request

LEMMA GotoWithType ==
  ASSUME NEW q \in Request, NEW pc \in PC, NEW d \in Doc
  PROVE  [q EXCEPT !.pc = pc, !.doc = d] \in Request
  BY DEF Request

(* An idle request and one about to release the lock hold nothing.         *)
LEMMA IdleOK ==
  ASSUME NEW votes, NEW txs
  PROVE  /\ RequestOK(Idle, votes, txs)
         /\ RequestOK([Idle EXCEPT !.pc = "release"], votes, txs)
  BY DEF RequestOK, Idle, NoTxp

(* What is known of a request stays true as votes and payments are added.  *)
LEMMA RequestMonotone ==
  ASSUME NEW q, NEW V, NEW W, NEW X, NEW Y, V \subseteq W, X \subseteq Y,
         RequestOK(q, V, X)
  PROVE  RequestOK(q, W, Y)
  BY DEF RequestOK, AcceptedCopy

LEMMA StoredMonotone ==
  ASSUME NEW t, NEW d, NEW V, NEW W, NEW X, NEW Y, V \subseteq W, X \subseteq Y,
         StoredOK(t, d, V, X)
  PROVE  StoredOK(t, d, W, Y)
  BY DEF StoredOK

(* The shape of every step of a request: it changes its own record, may    *)
(* store a sound document, and only adds votes and authorised payments.    *)
LEMMA RequestStep ==
  ASSUME IInv, NEW r \in Requests, NEW q \in Request,
         reqs' = [reqs EXCEPT ![r] = q],
         RequestOK(q, cast', chain'),
         txps' \in [Txps -> Doc],
         \A t \in Txps : \/ txps'[t] = txps[t]
                         \/ StoredOK(t, txps'[t], cast', chain'),
         lock' \in Requests \cup {NoLock, Orphan},
         aged' \subseteq Txps, removed' \subseteq Txps,
         cast \subseteq cast', chain \subseteq chain',
         cast' \subseteq [txp : Txps, who : Copayers, type : VoteType],
         chain' \subseteq Tx, signedTxs' \subseteq Tx,
         \A tx \in chain' \cup signedTxs' :
           tx \in chain \cup signedTxs \/ Authorised(tx, cast')
  PROVE  IInv'
<1>1. TypeOK'
  BY DEF IInv, TypeOK
<1>2. ASSUME NEW t \in Txps PROVE StoredOK(t, txps'[t], cast', chain')
  BY StoredMonotone DEF IInv
<1>3. ASSUME NEW s \in Requests PROVE RequestOK(reqs'[s], cast', chain')
  BY RequestMonotone DEF IInv, TypeOK
<1>4. ASSUME NEW tx \in chain' \cup signedTxs' PROVE Authorised(tx, cast')
  BY DEF IInv, Authorised
<1> QED
  BY <1>1, <1>2, <1>3, <1>4 DEF IInv

(* A step that changes nothing but the request and the lock. *)
LEMMA QuietStep ==
  ASSUME IInv, NEW r \in Requests, NEW q \in Request,
         reqs' = [reqs EXCEPT ![r] = q],
         RequestOK(q, cast, chain),
         lock' \in Requests \cup {NoLock, Orphan},
         UNCHANGED <<txps, aged, removed, chain, signedTxs, cast>>
  PROVE  IInv'
  BY RequestStep DEF IInv, TypeOK

----------------------------------------------------------------------------
(* Votes: AddAction keeps a document typed and sound. *)

LEMMA VotedType ==
  ASSUME NEW d \in Doc, NEW c \in Copayers, NEW type \in VoteType
  PROVE  [d EXCEPT !.actions = Append(@, [who |-> c, type |-> type])] \in Doc
<1>1. [who |-> c, type |-> type] \in Vote
  BY DEF Vote
<1>2. d.actions \in Seq(Vote)
  BY DEF Doc
<1>3. Append(d.actions, [who |-> c, type |-> type]) \in Seq(Vote)
  BY <1>1, <1>2
<1> QED
  BY <1>3 DEF Doc

LEMMA SetStatusType ==
  ASSUME NEW d \in Doc, NEW s \in Status
  PROVE  /\ SetStatus(d, s) \in Doc
         /\ SetStatus(d, s).status = s
         /\ SetStatus(d, s).actions = d.actions
         /\ SetStatus(d, s).inputs = d.inputs
  BY DEF SetStatus, Doc

LEMMA AddActionType ==
  ASSUME NEW d \in Doc, NEW c \in Copayers, NEW type \in VoteType
  PROVE  /\ AddAction(d, c, type) \in Doc
         /\ AddAction(d, c, type).actions =
              Append(d.actions, [who |-> c, type |-> type])
<1> DEFINE voted == [d EXCEPT !.actions = Append(@, [who |-> c, type |-> type])]
<1>1. voted \in Doc
  BY VotedType
<1>2. UpdatedStatus(voted) \in Status
  BY <1>1 DEF UpdatedStatus, Doc, Status
<1>3. voted.actions = Append(d.actions, [who |-> c, type |-> type])
  BY DEF Doc
<1> HIDE DEF voted
<1>4. [voted EXCEPT !.status = UpdatedStatus(voted)] \in Doc
  BY <1>1, <1>2 DEF Doc
<1>5. [voted EXCEPT !.status = UpdatedStatus(voted)].actions = voted.actions
  BY <1>1 DEF Doc
<1> QED
  BY <1>3, <1>4, <1>5 DEF AddAction, voted

(* The votes of a document depend on its actions alone.                    *)
LEMMA SameVotes ==
  ASSUME NEW d, NEW e, d.actions = e.actions
  PROVE  /\ \A type : VotesOf(d, type) = VotesOf(e, type)
         /\ Signers(d) = Signers(e)
         /\ IsAccepted(d) = IsAccepted(e)
         /\ IsRejected(d) = IsRejected(e)
         /\ VotesOnce(d) = VotesOnce(e)
         /\ \A t : VotesIn(t, d) = VotesIn(t, e)
  BY DEF VotesOf, Signers, IsAccepted, IsRejected, VotesOnce, VotesIn, VoteIn

(* A vote of one type leaves the votes of the other type alone.            *)
LEMMA OtherVotes ==
  ASSUME NEW d \in Doc, NEW c \in Copayers, NEW type \in VoteType,
         NEW other \in VoteType \ {type}
  PROVE  VotesOf(AddAction(d, c, type), other) = VotesOf(d, other)
<1> DEFINE v == AddAction(d, c, type)
           vote == [who |-> c, type |-> type]
<1>1. /\ v.actions = Append(d.actions, vote)
      /\ d.actions \in Seq(Vote)
  BY AddActionType DEF Doc
<1>2. vote.type # other
  OBVIOUS
<1> HIDE DEF v, vote
<1>3. /\ DOMAIN d.actions = 1 .. Len(d.actions)
      /\ DOMAIN v.actions = 1 .. (Len(d.actions) + 1)
      /\ \A i \in 1 .. Len(d.actions) : v.actions[i] = d.actions[i]
      /\ v.actions[Len(d.actions) + 1] = vote
      /\ Len(d.actions) \in Nat
  BY <1>1
<1>4. VotesOf(v, other) = VotesOf(d, other)
  BY <1>2, <1>3 DEF VotesOf
<1> QED
  BY <1>4 DEF v

(* The vote of a copayer who has not voted keeps the votes distinct.       *)
LEMMA VotesStayDistinct ==
  ASSUME NEW d \in Doc, NEW c \in Copayers, NEW type \in VoteType,
         VotesOnce(d), ~HasVoted(c, d)
  PROVE  VotesOnce(AddAction(d, c, type))
<1> DEFINE v == AddAction(d, c, type)
           vote == [who |-> c, type |-> type]
<1>1. /\ v.actions = Append(d.actions, vote)
      /\ d.actions \in Seq(Vote)
  BY AddActionType DEF Doc
<1>2. vote.who = c
  OBVIOUS
<1> HIDE DEF v, vote
<1>3. /\ DOMAIN d.actions = 1 .. Len(d.actions)
      /\ DOMAIN v.actions = 1 .. (Len(d.actions) + 1)
      /\ \A i \in 1 .. Len(d.actions) : v.actions[i] = d.actions[i]
      /\ v.actions[Len(d.actions) + 1] = vote
      /\ Len(d.actions) \in Nat
  BY <1>1
<1>4. \A i \in 1 .. Len(d.actions) : v.actions[i].who # c
  BY <1>3 DEF HasVoted, Voters
<1>5. VotesOnce(v)
  <2> SUFFICES ASSUME NEW i \in DOMAIN v.actions, NEW j \in DOMAIN v.actions,
                      v.actions[i].who = v.actions[j].who
               PROVE  i = j
    BY DEF VotesOnce
  <2>1. CASE i \in 1 .. Len(d.actions) /\ j \in 1 .. Len(d.actions)
    BY <2>1, <1>3 DEF VotesOnce
  <2>2. CASE i = Len(d.actions) + 1 \/ j = Len(d.actions) + 1
    BY <2>2, <1>2, <1>3, <1>4
  <2> QED
    BY <2>1, <2>2, <1>3
<1> QED
  BY <1>5 DEF v

(* Nothing but the new vote is added to the votes recorded for a proposal. *)
LEMMA VotesInAfter ==
  ASSUME NEW d \in Doc, NEW c \in Copayers, NEW type \in VoteType, NEW t
  PROVE  VotesIn(t, AddAction(d, c, type)) \subseteq
           VotesIn(t, d) \cup {[txp |-> t, who |-> c, type |-> type]}
<1> DEFINE v == AddAction(d, c, type)
           vote == [who |-> c, type |-> type]
<1>1. /\ v.actions = Append(d.actions, vote)
      /\ d.actions \in Seq(Vote)
  BY AddActionType DEF Doc
<1>2. vote.who = c /\ vote.type = type
  OBVIOUS
<1> HIDE DEF v, vote
<1>3. /\ DOMAIN d.actions = 1 .. Len(d.actions)
      /\ DOMAIN v.actions = 1 .. (Len(d.actions) + 1)
      /\ \A i \in 1 .. Len(d.actions) : v.actions[i] = d.actions[i]
      /\ v.actions[Len(d.actions) + 1] = vote
      /\ Len(d.actions) \in Nat
  BY <1>1
<1>4. VotesIn(t, v) \subseteq
        VotesIn(t, d) \cup {[txp |-> t, who |-> c, type |-> type]}
  BY <1>2, <1>3 DEF VotesIn, VoteIn
<1> QED
  BY <1>4 DEF v

(* A vote on a sound pending document, cast by a copayer who has not voted *)
(* on it, gives a sound document that is pending or decided.               *)
LEMMA AddActionSound ==
  ASSUME NEW d \in Doc, NEW c \in Copayers, NEW type \in VoteType,
         Sound(d), d.status = "pending", ~HasVoted(c, d)
  PROVE  /\ Sound(AddAction(d, c, type))
         /\ AddAction(d, c, type).status \in {"pending", "accepted", "rejected"}
<1> DEFINE v == AddAction(d, c, type)
           voted == [d EXCEPT !.actions = Append(@, [who |-> c, type |-> type])]
<1>1. voted \in Doc /\ voted.status = "pending"
  BY VotedType DEF Doc
<1>2. v.status = UpdatedStatus(voted) /\ v.actions = voted.actions
  <2> HIDE DEF voted
  <2>1. /\ [voted EXCEPT !.status = UpdatedStatus(voted)].status = UpdatedStatus(voted)
        /\ [voted EXCEPT !.status = UpdatedStatus(voted)].actions = voted.actions
    BY <1>1 DEF Doc
  <2> QED
    BY <2>1 DEF AddAction, voted
<1>3. v.status = IF IsRejected(v) THEN "rejected"
                 ELSE IF IsAccepted(v) THEN "accepted" ELSE "pending"
  BY <1>1, <1>2, SameVotes DEF UpdatedStatus
<1>4. ~IsAccepted(d) /\ ~IsRejected(d)
  BY DEF Sound, Consistent
<1>5. ~IsAccepted(v) \/ ~IsRejected(v)
  <2>1. CASE type = "accept"
    BY <1>4, <2>1, OtherVotes DEF IsRejected, VoteType
  <2>2. CASE type = "reject"
    BY <1>4, <2>2, OtherVotes DEF IsAccepted, VoteType
  <2> QED
    BY <2>1, <2>2 DEF VoteType
<1>6. VotesOnce(v)
  BY VotesStayDistinct DEF Sound
<1> QED
  BY <1>3, <1>5, <1>6 DEF Sound, Consistent

(* A document without votes is sound unless it claims to be decided.       *)
LEMMA EmptySound ==
  ASSUME NEW d, d.actions = <<>>, d.status \in {"none", "temporary", "pending"}
  PROVE  Sound(d) /\ \A t : VotesIn(t, d) = {}
<1>1. \A type : VotesOf(d, type) = {}
  BY DEF VotesOf
<1>2. Cardinality({}) = 0 /\ Cardinality(Copayers) \in Nat
  BY FS_EmptySet, FS_CardinalityType, CopayersAssumption
<1>3. RequiredRejections \in Nat \ {0} /\ RequiredSignatures \in Nat \ {0}
  BY <1>2, CopayersAssumption DEF RequiredRejections, NumCopayers
<1>4. ~IsAccepted(d) /\ ~IsRejected(d)
  <2>1. Cardinality(VotesOf(d, "accept")) = 0 /\ Cardinality(VotesOf(d, "reject")) = 0
    BY <1>1, <1>2
  <2> QED
    BY <1>3, <2>1 DEF IsAccepted, IsRejected
<1>5. VotesOnce(d) /\ \A t : VotesIn(t, d) = {}
  BY DEF VotesOnce, VotesIn
<1> QED
  BY <1>5, <1>4 DEF Sound, Consistent

(* Marking an accepted document as broadcasted keeps it sound.             *)
LEMMA BroadcastedSound ==
  ASSUME NEW t, NEW d \in Doc, NEW votes, NEW txs,
         AcceptedCopy(t, d, votes), TxOf(t, d) \in txs
  PROVE  StoredOK(t, SetStatus(d, "broadcasted"), votes, txs)
<1> DEFINE b == SetStatus(d, "broadcasted")
<1>1. /\ b.status = "broadcasted"
      /\ b.actions = d.actions
      /\ b.inputs = d.inputs
  BY SetStatusType DEF Status
<1> HIDE DEF b
<1>2. TxOf(t, b) = TxOf(t, d)
  BY <1>1, SameVotes DEF TxOf
<1>3. Sound(b) /\ VotesIn(t, b) = VotesIn(t, d)
  <2>1. IsAccepted(b) /\ ~IsRejected(b) /\ VotesOnce(b)
    BY <1>1, SameVotes DEF Sound, Consistent, AcceptedCopy
  <2> QED
    BY <2>1, <1>1, SameVotes DEF Sound, Consistent
<1> QED
  BY <1>1, <1>2, <1>3 DEF StoredOK, AcceptedCopy, b

----------------------------------------------------------------------------
(* One lemma for the steps of each kind of request. *)

LEMMA InitInvariant == Init => IInv
<1> SUFFICES ASSUME Init PROVE IInv
  OBVIOUS
<1>1. NoTxp \in Doc /\ NoTxp.status = "none" /\ NoTxp.actions = <<>>
  BY DEF NoTxp, Doc, Status
<1>2. TypeOK
  BY <1>1, IdleType DEF Init, TypeOK
<1>3. \A t \in Txps : StoredOK(t, txps[t], cast, chain)
  BY <1>1, EmptySound DEF Init, StoredOK
<1>4. \A r \in Requests : RequestOK(reqs[r], cast, chain)
  BY IdleOK DEF Init
<1> QED
  BY <1>2, <1>3, <1>4 DEF Init, IInv

LEMMA StartInvariant ==
  ASSUME IInv, NEW r \in Requests, NEW op \in AllOps, NEW c \in Copayers,
         NEW t \in Txps \cup {Nobody}, Start(r, op, c, t)
  PROVE  IInv'
<1> DEFINE pc == CASE op \in LockedOps -> "acquire"
                   [] op = "list"      -> "pending"
                   [] OTHER            -> "read"
           who == IF op \in {"list", "publish", "broadcast"} THEN Nobody ELSE c
           q == [Idle EXCEPT !.pc = pc, !.op = op, !.txp = t, !.who = who]
<1>1. /\ pc \in {"acquire", "pending", "read"}
      /\ op = "list" => pc = "pending"
      /\ pc = "pending" => op = "list"
  BY DEF LockedOps
<1>2. op # "list" => t \in Txps
  BY DEF Start
<1>3. /\ who \in Copayers \cup {Nobody}
      /\ op \in {"create", "remove", "sign", "reject"} => who \in Copayers
  OBVIOUS
<1>4. reqs' = [reqs EXCEPT ![r] = q]
  BY DEF Start
<1> HIDE DEF pc, who
<1>5. /\ q \in Request
      /\ q.pc = pc /\ q.op = op /\ q.txp = t /\ q.who = who
      /\ q.doc = NoTxp /\ q.todo = {}
  BY <1>1, <1>3, IdleType DEF Idle, Request, PC
<1> HIDE DEF q
<1>6. RequestOK(q, cast, chain)
  BY <1>1, <1>2, <1>3, <1>5 DEF RequestOK, NoTxp
<1> QED
  BY <1>4, <1>5, <1>6, QuietStep DEF Start, IInv, TypeOK

(* Steps that only move the request on, in most cases.                     *)
LEMMA GotoInvariant ==
  ASSUME IInv, NEW r \in Requests, NEW pc \in PC, Goto(r, pc),
         RequestOK([reqs[r] EXCEPT !.pc = pc], cast, chain),
         lock' \in Requests \cup {NoLock, Orphan},
         UNCHANGED <<txps, aged, removed, chain, signedTxs, cast>>
  PROVE  IInv'
<1>1. [reqs[r] EXCEPT !.pc = pc] \in Request
  BY GotoType DEF IInv, TypeOK
<1>2. reqs' = [reqs EXCEPT ![r] = [reqs[r] EXCEPT !.pc = pc]]
  BY DEF Goto, IInv, TypeOK
<1> QED
  BY <1>1, <1>2, QuietStep

LEMMA GotoWithInvariant ==
  ASSUME IInv, NEW r \in Requests, NEW pc \in PC, NEW d \in Doc,
         GotoWith(r, pc, d),
         RequestOK([reqs[r] EXCEPT !.pc = pc, !.doc = d], cast, chain),
         UNCHANGED <<txps, lock, aged, removed, chain, signedTxs, cast>>
  PROVE  IInv'
<1>1. [reqs[r] EXCEPT !.pc = pc, !.doc = d] \in Request
  BY GotoWithType DEF IInv, TypeOK
<1>2. reqs' = [reqs EXCEPT ![r] = [reqs[r] EXCEPT !.pc = pc, !.doc = d]]
  BY DEF GotoWith, IInv, TypeOK
<1> QED
  BY <1>1, <1>2, QuietStep DEF IInv, TypeOK

LEMMA EndInvariant ==
  ASSUME IInv, NEW r \in Requests, Reply(r) \/ Finish(r),
         lock' \in Requests \cup {NoLock, Orphan},
         UNCHANGED <<txps, aged, removed, chain, signedTxs, cast>>
  PROVE  IInv'
<1>1. CASE Reply(r)
  BY <1>1, IdleType, IdleOK, QuietStep DEF Reply
<1>2. CASE Finish(r)
  BY <1>2, ReleaseType, IdleOK, QuietStep DEF Finish
<1> QED
  BY <1>1, <1>2

(* The wallet lock, failures and crashes. *)
LEMMA LockInvariant ==
  ASSUME IInv, NEW r \in Requests,
         \/ Acquire(r) \/ WalletBusy(r) \/ Release(r)
         \/ CallFails(r) \/ Crash(r)
  PROVE  IInv'
<1> USE DEF IInv, TypeOK
<1>1. CASE Acquire(r)
  <2>1. RequestOK([reqs[r] EXCEPT !.pc = "read"], cast, chain)
    BY <1>1 DEF Acquire, RequestOK, Request
  <2> QED
    BY <1>1, <2>1, GotoInvariant DEF Acquire, PC
<1>2. CASE WalletBusy(r)
  BY <1>2, EndInvariant DEF WalletBusy
<1>3. CASE Release(r)
  BY <1>3, EndInvariant DEF Release
<1>4. CASE CallFails(r)
  BY <1>4, EndInvariant DEF CallFails
<1>5. CASE Crash(r)
  BY <1>5, EndInvariant DEF Crash
<1> QED
  BY <1>1, <1>2, <1>3, <1>4, <1>5

(* getUtxosForCurrentWallet and getPendingTxs. *)
LEMMA FetchInvariant ==
  ASSUME IInv, NEW r \in Requests, GetUtxos(r) \/ FetchPendingTxs(r) \/ SweepDone(r)
  PROVE  IInv'
<1>0. reqs[r] \in Request /\ RequestOK(reqs[r], cast, chain)
  BY DEF IInv, TypeOK
<1>t. lock \in Requests \cup {NoLock, Orphan}
  BY DEF IInv, TypeOK
<1>1. CASE GetUtxos(r)
  <2>1. PICK found \in SUBSET Inputs, pc \in {"spent", "pending"} :
          reqs' = [reqs EXCEPT ![r].pc = pc, ![r].utxos = found]
    BY <1>1 DEF GetUtxos
  <2> DEFINE q == [reqs[r] EXCEPT !.pc = pc, !.utxos = found]
  <2>2. q \in Request /\ reqs' = [reqs EXCEPT ![r] = q]
    BY <1>0, <2>1 DEF Request, PC, IInv, TypeOK
  <2>3. RequestOK(q, cast, chain)
    BY <1>0, <1>1 DEF GetUtxos, RequestOK, Request
  <2> HIDE DEF q
  <2> QED
    BY <1>1, <1>t, <2>2, <2>3, QuietStep DEF GetUtxos
<1>2. CASE FetchPendingTxs(r)
  <2> DEFINE pend == {t \in Txps : IsPending(txps[t])}
             acc == {t \in pend : txps[t].status = "accepted"}
             todo == {[txp |-> t, doc |-> txps[t]] : t \in acc}
             held == UNION {txps[t].inputs : t \in pend \ acc}
             q == [reqs[r] EXCEPT !.pc = "sweep", !.todo = todo, !.held = held]
  <2>1. todo \subseteq Copy /\ held \subseteq Inputs
    BY DEF IInv, TypeOK, Copy, Doc
  <2>2. \A x \in todo : AcceptedCopy(x.txp, x.doc, cast)
    BY DEF IInv, StoredOK, AcceptedCopy
  <2>3. reqs' = [reqs EXCEPT ![r].pc = "sweep", ![r].todo = todo, ![r].held = held]
    BY <1>2 DEF FetchPendingTxs
  <2> HIDE DEF todo, held
  <2>4. q \in Request /\ reqs' = [reqs EXCEPT ![r] = q]
    BY <1>0, <2>1, <2>3 DEF Request, PC, IInv, TypeOK
  <2>5. RequestOK(q, cast, chain)
    BY <1>0, <1>2, <2>2 DEF FetchPendingTxs, RequestOK, Request
  <2> HIDE DEF q
  <2> QED
    BY <1>2, <1>t, <2>4, <2>5, QuietStep DEF FetchPendingTxs
<1>3. CASE SweepDone(r)
  <2>1. CASE reqs[r].op = "list"
    BY <1>3, <1>t, <2>1, EndInvariant DEF SweepDone
  <2>2. CASE reqs[r].op # "list"
    <3>1. RequestOK([reqs[r] EXCEPT !.pc = "spent"], cast, chain)
      BY <1>0, <1>3, <2>2 DEF SweepDone, RequestOK, Request
    <3> QED
      BY <1>3, <1>t, <2>2, <3>1, GotoInvariant DEF SweepDone, PC
  <2> QED
    BY <2>1, <2>2
<1> QED
  BY <1>1, <1>2, <1>3

LEMMA SweepInvariant ==
  ASSUME IInv, NEW r \in Requests, NEW x \in reqs[r].todo,
         SweepBroadcasted(r, x) \/ SweepMissing(r, x)
  PROVE  IInv'
<1>0. /\ reqs[r] \in Request /\ RequestOK(reqs[r], cast, chain)
      /\ x \in Copy /\ AcceptedCopy(x.txp, x.doc, cast)
  BY DEF IInv, TypeOK, RequestOK, Request
<1>t. lock \in Requests \cup {NoLock, Orphan}
  BY DEF IInv, TypeOK
<1>1. CASE SweepBroadcasted(r, x)
  <2> DEFINE q == [reqs[r] EXCEPT !.todo = @ \ {x}]
             d == SetStatus(x.doc, "broadcasted")
  <2>1. q \in Request /\ reqs' = [reqs EXCEPT ![r] = q]
    BY <1>0, <1>1 DEF SweepBroadcasted, Request, IInv, TypeOK
  <2>2. RequestOK(q, cast, chain)
    BY <1>0, <1>1 DEF SweepBroadcasted, RequestOK, Request
  <2>3. d \in Doc /\ x.txp \in Txps
    BY <1>0, SetStatusType DEF Copy, Status
  <2>4. StoredOK(x.txp, d, cast, chain)
    BY <1>0, <1>1, BroadcastedSound DEF SweepBroadcasted, Copy
  <2>5. txps' = [txps EXCEPT ![x.txp] = d]
    BY <1>1 DEF SweepBroadcasted
  <2>6. UNCHANGED <<lock, aged, removed, chain, signedTxs, cast>>
    BY <1>1 DEF SweepBroadcasted
  <2> HIDE DEF q, d
  <2> QED
    BY <2>1, <2>2, <2>3, <2>4, <2>5, <2>6, RequestStep DEF IInv, TypeOK
<1>2. CASE SweepMissing(r, x)
  <2> DEFINE q == [reqs[r] EXCEPT !.todo = @ \ {x}, !.held = @ \cup x.doc.inputs]
  <2>1. q \in Request /\ reqs' = [reqs EXCEPT ![r] = q]
    BY <1>0, <1>2 DEF SweepMissing, Request, Copy, Doc, IInv, TypeOK
  <2>2. RequestOK(q, cast, chain)
    BY <1>0, <1>2 DEF SweepMissing, RequestOK, Request
  <2> HIDE DEF q
  <2> QED
    BY <1>2, <1>t, <2>1, <2>2, QuietStep DEF SweepMissing
<1> QED
  BY <1>1, <1>2

(* createTx and publishTx up to the store. *)
LEMMA CreateInvariant ==
  ASSUME IInv, NEW r \in Requests,
         \/ CreateTxExisting(r) \/ CreateTxWithInputs(r)
         \/ CreateTxSelecting(r) \/ SelectTxInputs(r)
  PROVE  IInv'
<1>0. reqs[r] \in Request /\ RequestOK(reqs[r], cast, chain)
  BY DEF IInv, TypeOK
<1>t. lock \in Requests \cup {NoLock, Orphan}
  BY DEF IInv, TypeOK
<1>d. ASSUME NEW ins \in SUBSET Inputs
      PROVE  /\ NewTxp(reqs[r].who, ins) \in Doc
             /\ NewTxp(reqs[r].who, ins).status = "temporary"
             /\ NewTxp(reqs[r].who, ins).actions = <<>>
  BY <1>0 DEF NewTxp, Doc, Status, Request
<1>1. CASE CreateTxExisting(r)
  BY <1>1, <1>t, EndInvariant DEF CreateTxExisting
<1>2. CASE CreateTxWithInputs(r)
  <2>1. PICK ins \in SUBSET Inputs \ {{}} :
          GotoWith(r, "store", NewTxp(reqs[r].who, ins))
    BY <1>2 DEF CreateTxWithInputs
  <2> DEFINE d == NewTxp(reqs[r].who, ins)
  <2>2. d \in Doc /\ d.status = "temporary" /\ d.actions = <<>>
    BY <1>d
  <2>3. GotoWith(r, "store", d)
    BY <2>1
  <2> HIDE DEF d
  <2>4. RequestOK([reqs[r] EXCEPT !.pc = "store", !.doc = d], cast, chain)
    BY <1>0, <1>2, <2>2 DEF CreateTxWithInputs, RequestOK, Request
  <2> QED
    BY <1>2, <2>2, <2>3, <2>4, GotoWithInvariant DEF CreateTxWithInputs, PC
<1>3. CASE CreateTxSelecting(r)
  <2>1. RequestOK([reqs[r] EXCEPT !.pc = "utxos"], cast, chain)
    BY <1>0, <1>3 DEF CreateTxSelecting, RequestOK, Request
  <2> QED
    BY <1>3, <1>t, <2>1, GotoInvariant DEF CreateTxSelecting, PC
<1>4. CASE SelectTxInputs(r)
  <2>1. CASE Finish(r)
    BY <1>4, <1>t, <2>1, EndInvariant DEF SelectTxInputs
  <2>2. ASSUME NEW ins \in SUBSET Available(r),
               reqs' = [reqs EXCEPT ![r] = [@ EXCEPT !.pc = "store",
                  !.doc = NewTxp(reqs[r].who, ins), !.utxos = {}, !.held = {}]]
        PROVE  IInv'
    <3> DEFINE d == NewTxp(reqs[r].who, ins)
               q == [reqs[r] EXCEPT !.pc = "store", !.doc = d,
                                    !.utxos = {}, !.held = {}]
    <3>1. ins \in SUBSET Inputs
      BY <1>0 DEF Available, Request
    <3>2. d \in Doc /\ d.status = "temporary" /\ d.actions = <<>>
      BY <1>d, <3>1
    <3>3. reqs' = [reqs EXCEPT ![r] = q]
      BY <2>2 DEF IInv, TypeOK
    <3> HIDE DEF d
    <3>4. q \in Request
      BY <1>0, <3>2 DEF Request, PC
    <3>5. RequestOK(q, cast, chain)
      BY <1>0, <1>4, <3>2 DEF SelectTxInputs, RequestOK, Request
    <3> HIDE DEF q
    <3> QED
      BY <1>4, <1>t, <3>3, <3>4, <3>5, QuietStep DEF SelectTxInputs
  <2> QED
    BY <1>4, <2>1, <2>2 DEF SelectTxInputs
<1> QED
  BY <1>1, <1>2, <1>3, <1>4

LEMMA PublishInvariant ==
  ASSUME IInv, NEW r \in Requests, PublishTxFetch(r) \/ CheckTxUTXOs(r)
  PROVE  IInv'
<1>0. reqs[r] \in Request /\ RequestOK(reqs[r], cast, chain)
  BY DEF IInv, TypeOK
<1>t. lock \in Requests \cup {NoLock, Orphan}
  BY DEF IInv, TypeOK
<1>1. CASE PublishTxFetch(r)
  <2> DEFINE d == txps[reqs[r].txp]
  <2>1. d \in Doc /\ (d.status = "temporary" => d.actions = <<>>)
    BY <1>0, <1>1 DEF PublishTxFetch, IInv, TypeOK, StoredOK, Sound, Consistent, RequestOK
  <2>2. CASE d.status = "temporary" /\ GotoWith(r, "utxos", d)
    <3> HIDE DEF d
    <3>1. RequestOK([reqs[r] EXCEPT !.pc = "utxos", !.doc = d], cast, chain)
      BY <1>0, <1>1, <2>1, <2>2 DEF PublishTxFetch, RequestOK, Request
    <3> QED
      BY <1>1, <2>1, <2>2, <3>1, GotoWithInvariant DEF PublishTxFetch, PC
  <2>3. CASE Finish(r)
    BY <1>1, <1>t, <2>3, EndInvariant DEF PublishTxFetch
  <2> QED
    BY <1>1, <2>2, <2>3 DEF PublishTxFetch
<1>2. CASE CheckTxUTXOs(r)
  <2>1. CASE Finish(r)
    BY <1>2, <1>t, <2>1, EndInvariant DEF CheckTxUTXOs
  <2>2. CASE reqs' = [reqs EXCEPT ![r] = [@ EXCEPT !.pc = "store",
                        !.doc = SetStatus(reqs[r].doc, "pending"), !.utxos = {}, !.held = {}]]
    <3> DEFINE d == SetStatus(reqs[r].doc, "pending")
               q == [reqs[r] EXCEPT !.pc = "store", !.doc = d,
                                    !.utxos = {}, !.held = {}]
    <3>1. reqs[r].doc \in Doc /\ reqs[r].doc.actions = <<>>
      BY <1>0, <1>2 DEF CheckTxUTXOs, RequestOK, Request
    <3>2. d \in Doc /\ d.status = "pending" /\ d.actions = <<>>
      BY <3>1, SetStatusType DEF Status
    <3>3. reqs' = [reqs EXCEPT ![r] = q]
      BY <1>0, <2>2 DEF IInv, TypeOK, Request
    <3> HIDE DEF d
    <3>4. q \in Request
      BY <1>0, <3>2 DEF Request, PC
    <3>5. RequestOK(q, cast, chain)
      BY <1>0, <1>2, <3>2 DEF CheckTxUTXOs, RequestOK, Request
    <3> HIDE DEF q
    <3> QED
      BY <1>2, <1>t, <3>3, <3>4, <3>5, QuietStep DEF CheckTxUTXOs
  <2> QED
    BY <1>2, <2>1, <2>2 DEF CheckTxUTXOs
<1> QED
  BY <1>1, <1>2

(* What createTx, publishTx and removePendingTx write.                     *)
LEMMA StoreInvariant ==
  ASSUME IInv, NEW r \in Requests,
         StoreTx(r) \/ RemovePendingTxFetch(r) \/ RemoveTx(r)
  PROVE  IInv'
<1>0. reqs[r] \in Request /\ RequestOK(reqs[r], cast, chain)
  BY DEF IInv, TypeOK
<1>t. lock \in Requests \cup {NoLock, Orphan}
  BY DEF IInv, TypeOK
<1> DEFINE t == reqs[r].txp
           q == [Idle EXCEPT !.pc = "release"]
<1>q. q \in Request /\ RequestOK(q, cast, chain)
  BY ReleaseType, IdleOK
<1>1. CASE StoreTx(r)
  <2> DEFINE d == reqs[r].doc
  <2>1. t \in Txps /\ d \in Doc
    BY <1>0, <1>1 DEF StoreTx, RequestOK, Request
  <2>2. StoredOK(t, d, cast, chain)
    BY <1>0, <1>1, EmptySound DEF StoreTx, RequestOK, StoredOK
  <2>3. /\ txps' = [txps EXCEPT ![t] = d]
        /\ reqs' = [reqs EXCEPT ![r] = q]
        /\ UNCHANGED <<lock, aged, removed, chain, signedTxs, cast>>
    BY <1>1 DEF StoreTx, Finish
  <2> HIDE DEF t, q, d
  <2> QED
    BY <1>q, <2>1, <2>2, <2>3, RequestStep DEF IInv, TypeOK
<1>2. CASE RemovePendingTxFetch(r)
  <2>1. CASE Goto(r, "delete")
    <3>1. RequestOK([reqs[r] EXCEPT !.pc = "delete"], cast, chain)
      BY <1>0, <1>2 DEF RemovePendingTxFetch, RequestOK, Request
    <3> QED
      BY <1>2, <1>t, <2>1, <3>1, GotoInvariant DEF RemovePendingTxFetch, PC
  <2>2. CASE Finish(r)
    BY <1>2, <1>t, <2>2, EndInvariant DEF RemovePendingTxFetch
  <2> QED
    BY <1>2, <2>1, <2>2 DEF RemovePendingTxFetch
<1>3. CASE RemoveTx(r)
  <2>1. t \in Txps
    BY <1>0, <1>3 DEF RemoveTx, RequestOK
  <2>2. NoTxp \in Doc /\ StoredOK(t, NoTxp, cast, chain)
    BY EmptySound DEF NoTxp, Doc, Status, StoredOK
  <2>3. /\ txps' = [txps EXCEPT ![t] = NoTxp]
        /\ reqs' = [reqs EXCEPT ![r] = q]
        /\ removed' = removed \cup {t}
        /\ UNCHANGED <<lock, aged, chain, signedTxs, cast>>
    BY <1>3 DEF RemoveTx, Finish
  <2> HIDE DEF t, q
  <2> QED
    BY <1>q, <2>1, <2>2, <2>3, RequestStep DEF IInv, TypeOK
<1> QED
  BY <1>1, <1>2, <1>3

----------------------------------------------------------------------------
(* Signatures: the accepting votes of a document whose votes are distinct  *)
(* come from as many copayers.                                             *)

LEMMA VotesFinite ==
  ASSUME NEW d \in Doc, NEW type
  PROVE  IsFiniteSet(VotesOf(d, type)) /\ Cardinality(VotesOf(d, type)) \in Nat
<1>1. /\ DOMAIN d.actions = 1 .. Len(d.actions)
      /\ Len(d.actions) \in Nat
  BY DEF Doc
<1>2. IsFiniteSet(1 .. Len(d.actions))
  BY <1>1, FS_Interval
<1>3. VotesOf(d, type) \subseteq 1 .. Len(d.actions)
  BY <1>1 DEF VotesOf
<1> QED
  BY <1>2, <1>3, FS_Subset, FS_CardinalityType

LEMMA SignersCardinality ==
  ASSUME NEW d \in Doc, VotesOnce(d)
  PROVE  Cardinality(Signers(d)) = Cardinality(VotesOf(d, "accept"))
<1> DEFINE S == VotesOf(d, "accept")
           T == Signers(d)
           f == [i \in S |-> d.actions[i].who]
<1>1. IsFiniteSet(S) /\ S \subseteq DOMAIN d.actions
  BY VotesFinite DEF VotesOf
<1>2. f \in [S -> T] /\ \A c \in T : \E i \in S : f[i] = c
  BY DEF Signers
<1>3. \A i, j \in S : f[i] = f[j] => i = j
  BY <1>1 DEF VotesOnce
<1> HIDE DEF S, T, f
<1>4. f \in Surjection(S, T)
  BY <1>2 DEF Surjection, Range
<1>5. f \in Injection(S, T)
  BY <1>2, <1>3 DEF Injection, IsInjective
<1>6. Cardinality(T) = Cardinality(S)
  BY <1>1, <1>4, <1>5, FS_Surjection
<1> QED
  BY <1>6 DEF S, T

(* A sound document with enough signatures gives an authorised payment.    *)
LEMMA AcceptedAuthorised ==
  ASSUME NEW t \in Txps, NEW d \in Doc, NEW votes,
         IsAccepted(d), VotesOnce(d), VotesIn(t, d) \subseteq votes
  PROVE  TxOf(t, d) \in Tx /\ Authorised(TxOf(t, d), votes)
<1>1. Signers(d) \subseteq Copayers
  <2>1. \A i \in DOMAIN d.actions : d.actions[i] \in Vote
    BY DEF Doc
  <2> QED
    BY <2>1 DEF Signers, VotesOf, Vote
<1>2. TxOf(t, d) \in Tx
  BY <1>1 DEF TxOf, Tx, Doc
<1>3. Cardinality(Signers(d)) >= RequiredSignatures
  BY SignersCardinality DEF IsAccepted
<1>4. ASSUME NEW c \in Signers(d)
      PROVE  [txp |-> t, who |-> c, type |-> "accept"] \in votes
  BY DEF Signers, VotesOf, VotesIn, VoteIn
<1> QED
  BY <1>2, <1>3, <1>4 DEF Authorised, TxOf

----------------------------------------------------------------------------
(* signTx and rejectTx, broadcastTx. *)

LEMMA VoteFetchInvariant ==
  ASSUME IInv, NEW r \in Requests, SignTxFetch(r) \/ RejectTxFetch(r)
  PROVE  IInv'
<1>0. reqs[r] \in Request /\ RequestOK(reqs[r], cast, chain)
  BY DEF IInv, TypeOK
<1>t. lock \in Requests \cup {NoLock, Orphan}
  BY DEF IInv, TypeOK
<1> DEFINE t == reqs[r].txp
           c == reqs[r].who
           d == txps[t]
<1>1. CASE Reply(r)
  BY <1>t, <1>1, EndInvariant DEF SignTxFetch, RejectTxFetch
<1>2. ASSUME NEW type \in VoteType, NEW op,
             \/ op = "sign" /\ type = "accept"
             \/ op = "reject" /\ type = "reject",
             reqs[r].op = op, d.status = "pending", ~HasVoted(c, d),
             GotoWith(r, "vote", AddAction(d, c, type)),
             UNCHANGED <<txps, lock, aged, removed, chain, signedTxs, cast>>
      PROVE  IInv'
  <2> DEFINE v == AddAction(d, c, type)
             q == [reqs[r] EXCEPT !.pc = "vote", !.doc = v]
  <2>1. t \in Txps /\ c \in Copayers /\ d \in Doc /\ StoredOK(t, d, cast, chain)
    BY <1>0, <1>2 DEF RequestOK, IInv, TypeOK
  <2>2. v \in Doc /\ Sound(v) /\ v.status \in {"pending", "accepted", "rejected"}
    BY <1>2, <2>1, AddActionType, AddActionSound DEF StoredOK
  <2>3. VotesIn(t, v) \subseteq cast \cup {[txp |-> t, who |-> c, type |-> type]}
    BY <2>1, VotesInAfter DEF StoredOK
  <2> HIDE DEF v, d
  <2>4. /\ q.pc = "vote" /\ q.op = op /\ q.txp = t /\ q.who = c
        /\ q.doc = v /\ q.todo = reqs[r].todo
    BY <1>0, <1>2 DEF Request
  <2>5. OwnVote(q) = [txp |-> t, who |-> c, type |-> type]
    BY <1>2, <2>4 DEF OwnVote
  <2> HIDE DEF q
  <2>6. RequestOK(q, cast, chain)
    BY <1>0, <1>2, <2>1, <2>2, <2>3, <2>4, <2>5 DEF RequestOK
  <2>7. GotoWith(r, "vote", v)
    BY <1>2 DEF v, d
  <2> QED
    BY <1>2, <2>2, <2>6, <2>7, GotoWithInvariant DEF PC, q
<1>3. CASE SignTxFetch(r) /\ MaySign(c, d) /\ GotoWith(r, "vote", AddAction(d, c, "accept"))
  <2>1. d \in Doc /\ Sound(d)
    BY <1>0, <1>3 DEF SignTxFetch, RequestOK, StoredOK, IInv, TypeOK
  <2>2. IsPending(d) /\ ~HasVoted(c, d) /\ ~IsAccepted(d)
    BY <1>3 DEF MaySign
  <2> HIDE DEF d
  <2>3. d.status = "pending"
    BY <2>1, <2>2 DEF IsPending, Sound, Consistent, Doc, Status
  <2> QED
    BY <1>2, <1>3, <2>2, <2>3 DEF SignTxFetch, VoteType, d
<1>4. CASE RejectTxFetch(r) /\ MayReject(c, d) /\ GotoWith(r, "vote", AddAction(d, c, "reject"))
  BY <1>2, <1>4 DEF RejectTxFetch, MayReject, VoteType
<1> QED
  BY <1>1, <1>3, <1>4 DEF SignTxFetch, RejectTxFetch

LEMMA StoreVoteInvariant ==
  ASSUME IInv, NEW r \in Requests, StoreVote(r)
  PROVE  IInv'
<1>0. reqs[r] \in Request /\ RequestOK(reqs[r], cast, chain)
  BY DEF IInv, TypeOK
<1> DEFINE t == reqs[r].txp
           d == reqs[r].doc
           v == OwnVote(reqs[r])
           new == IF d.status = "accepted" THEN {TxOf(t, d)} ELSE {}
<1>1. /\ t \in Txps /\ d \in Doc /\ Sound(d)
      /\ d.status \in {"pending", "accepted", "rejected"}
      /\ VotesIn(t, d) \subseteq cast \cup {v}
      /\ reqs[r].who \in Copayers
  BY <1>0 DEF StoreVote, RequestOK, Request
<1>2. v \in [txp : Txps, who : Copayers, type : VoteType]
  BY <1>1 DEF OwnVote, VoteType
<1>3. /\ txps' = [txps EXCEPT ![t] = d]
      /\ cast' = cast \cup {v}
      /\ signedTxs' = signedTxs \cup new
      /\ reqs' = [reqs EXCEPT ![r] = Idle]
      /\ UNCHANGED <<lock, aged, removed, chain>>
  BY DEF StoreVote, Reply
<1> HIDE DEF t, d, v
<1>4. StoredOK(t, d, cast', chain)
  BY <1>1, <1>3 DEF StoredOK
<1>5. \A tx \in new : tx \in Tx /\ Authorised(tx, cast')
  BY <1>1, <1>3, AcceptedAuthorised DEF Sound, Consistent
<1> HIDE DEF new
<1>6. Idle \in Request /\ RequestOK(Idle, cast', chain')
  BY IdleType, IdleOK
<1> QED
  BY <1>1, <1>2, <1>3, <1>4, <1>5, <1>6, RequestStep DEF IInv, TypeOK

LEMMA BroadcastInvariant ==
  ASSUME IInv, NEW r \in Requests,
         \/ BroadcastTxFetch(r) \/ BroadcastTaken(r) \/ BroadcastFailed(r)
         \/ CheckTxInBlockchain(r) \/ ProcessBroadcast(r)
  PROVE  IInv'
<1>0. reqs[r] \in Request /\ RequestOK(reqs[r], cast, chain)
  BY DEF IInv, TypeOK
<1>t. lock \in Requests \cup {NoLock, Orphan}
  BY DEF IInv, TypeOK
<1> DEFINE t == reqs[r].txp
           d == reqs[r].doc
<1>1. CASE BroadcastTxFetch(r)
  <2> DEFINE e == txps[t]
  <2>1. CASE Reply(r)
    BY <1>1, <1>t, <2>1, EndInvariant DEF BroadcastTxFetch
  <2>2. CASE e.status = "accepted" /\ GotoWith(r, "send", e)
    <3>1. t \in Txps /\ e \in Doc /\ AcceptedCopy(t, e, cast)
      BY <1>0, <1>1, <2>2
         DEF BroadcastTxFetch, RequestOK, IInv, TypeOK, StoredOK, AcceptedCopy
    <3> HIDE DEF e
    <3>2. RequestOK([reqs[r] EXCEPT !.pc = "send", !.doc = e], cast, chain)
      BY <1>0, <1>1, <3>1 DEF BroadcastTxFetch, RequestOK, Request
    <3> QED
      BY <1>1, <2>2, <3>1, <3>2, GotoWithInvariant DEF BroadcastTxFetch, PC
  <2> QED
    BY <1>1, <2>1, <2>2 DEF BroadcastTxFetch
<1>2. CASE BroadcastTaken(r)
  <2> DEFINE tx == TxOf(t, d)
  <2>1. PICK pc \in {"mark", "check"} : Goto(r, pc)
    BY <1>2 DEF BroadcastTaken
  <2>2. chain' = chain \cup {tx} /\ UNCHANGED <<txps, lock, aged, removed, signedTxs, cast>>
    BY <1>2 DEF BroadcastTaken
  <2> DEFINE q == [reqs[r] EXCEPT !.pc = pc]
  <2>3. q \in Request /\ reqs' = [reqs EXCEPT ![r] = q]
    BY <1>0, <2>1, GotoType DEF Goto, PC, IInv, TypeOK
  <2>4. t \in Txps /\ d \in Doc /\ AcceptedCopy(t, d, cast)
    BY <1>0, <1>2 DEF BroadcastTaken, RequestOK, Request
  <2>5. tx \in Tx /\ Authorised(tx, cast)
    BY <2>4, AcceptedAuthorised DEF AcceptedCopy, Sound, Consistent
  <2>6. RequestOK(reqs[r], cast, chain')
    BY <1>0, <2>2, RequestMonotone
  <2>7. RequestOK(q, cast, chain')
    BY <1>0, <1>2, <2>1, <2>2, <2>6 DEF BroadcastTaken, RequestOK, Request
  <2> HIDE DEF q, tx
  <2> QED
    BY <2>2, <2>3, <2>5, <2>7, RequestStep DEF IInv, TypeOK
<1>3. CASE BroadcastFailed(r)
  <2>1. RequestOK([reqs[r] EXCEPT !.pc = "check"], cast, chain)
    BY <1>0, <1>3 DEF BroadcastFailed, RequestOK, Request
  <2> QED
    BY <1>3, <1>t, <2>1, GotoInvariant DEF BroadcastFailed, PC
<1>4. CASE CheckTxInBlockchain(r)
  <2>1. CASE Reply(r)
    BY <1>4, <1>t, <2>1, EndInvariant DEF CheckTxInBlockchain
  <2>2. CASE TxOf(t, d) \in chain /\ Goto(r, "mark")
    <3>1. RequestOK([reqs[r] EXCEPT !.pc = "mark"], cast, chain)
      BY <1>0, <1>4, <2>2 DEF CheckTxInBlockchain, RequestOK, Request
    <3> QED
      BY <1>4, <1>t, <2>2, <3>1, GotoInvariant DEF CheckTxInBlockchain, PC
  <2> QED
    BY <1>4, <2>1, <2>2 DEF CheckTxInBlockchain
<1>5. CASE ProcessBroadcast(r)
  <2> DEFINE b == SetStatus(d, "broadcasted")
  <2>1. /\ t \in Txps /\ d \in Doc /\ AcceptedCopy(t, d, cast)
        /\ TxOf(t, d) \in chain
    BY <1>0, <1>5 DEF ProcessBroadcast, RequestOK, Request
  <2>2. b \in Doc /\ StoredOK(t, b, cast, chain)
    BY <2>1, SetStatusType, BroadcastedSound DEF Status
  <2>3. /\ txps' = [txps EXCEPT ![t] = b]
        /\ reqs' = [reqs EXCEPT ![r] = Idle]
        /\ UNCHANGED <<lock, aged, removed, chain, signedTxs, cast>>
    BY <1>5 DEF ProcessBroadcast, Reply
  <2>4. Idle \in Request /\ RequestOK(Idle, cast, chain)
    BY IdleType, IdleOK
  <2> HIDE DEF t, b
  <2> QED
    BY <2>1, <2>2, <2>3, <2>4, RequestStep DEF IInv, TypeOK
<1> QED
  BY <1>1, <1>2, <1>3, <1>4, <1>5

(* Time passing and clients that broadcast on their own.                   *)
LEMMA WorldInvariant ==
  ASSUME IInv,
         \/ LeaseLapses
         \/ \E t \in Txps : Age(t)
         \/ \E tx \in signedTxs : ThirdPartyBroadcast(tx)
  PROVE  IInv'
<1>1. CASE LeaseLapses
  BY <1>1 DEF LeaseLapses, IInv, TypeOK
<1>2. CASE \E t \in Txps : Age(t)
  BY <1>2 DEF Age, IInv, TypeOK
<1>3. ASSUME NEW tx \in signedTxs, ThirdPartyBroadcast(tx)
      PROVE  IInv'
  <2>1. /\ chain' = chain \cup {tx}
        /\ UNCHANGED <<txps, lock, reqs, aged, removed, signedTxs, cast>>
    BY <1>3 DEF ThirdPartyBroadcast
  <2>2. TypeOK'
    BY <2>1 DEF IInv, TypeOK
  <2>3. \A t \in Txps : StoredOK(t, txps'[t], cast', chain')
    BY <2>1, StoredMonotone DEF IInv
  <2>4. \A r \in Requests : RequestOK(reqs'[r], cast', chain')
    BY <2>1, RequestMonotone DEF IInv
  <2>5. \A x \in chain' \cup signedTxs' : Authorised(x, cast')
    BY <2>1 DEF IInv
  <2> QED
    BY <2>2, <2>3, <2>4, <2>5 DEF IInv
<1> QED
  BY <1>1, <1>2, <1>3

----------------------------------------------------------------------------
(* IInv is an invariant. *)

LEMMA NextInvariant == IInv /\ [Next]_vars => IInv'
<1> SUFFICES ASSUME IInv, [Next]_vars PROVE IInv'
  OBVIOUS
<1>1. CASE UNCHANGED vars
  BY <1>1 DEF vars, IInv, TypeOK
<1>2. ASSUME NEW r \in Requests, NEW op \in AllOps, NEW c \in Copayers,
             NEW t \in Txps \cup {Nobody}, Start(r, op, c, t)
      PROVE  IInv'
  BY <1>2, StartInvariant
<1>3. ASSUME NEW r \in Requests, Serve(r) PROVE IInv'
  <2>1. CASE Acquire(r) \/ WalletBusy(r) \/ Release(r)
    BY <2>1, LockInvariant
  <2>2. CASE GetUtxos(r) \/ FetchPendingTxs(r) \/ SweepDone(r)
    BY <2>2, FetchInvariant
  <2>3. CASE \E x \in reqs[r].todo : SweepBroadcasted(r, x) \/ SweepMissing(r, x)
    BY <2>3, SweepInvariant
  <2>4. CASE \/ CreateTxExisting(r) \/ CreateTxWithInputs(r)
             \/ CreateTxSelecting(r) \/ SelectTxInputs(r)
    BY <2>4, CreateInvariant
  <2>5. CASE PublishTxFetch(r) \/ CheckTxUTXOs(r)
    BY <2>5, PublishInvariant
  <2>6. CASE StoreTx(r) \/ RemovePendingTxFetch(r) \/ RemoveTx(r)
    BY <2>6, StoreInvariant
  <2>7. CASE SignTxFetch(r) \/ RejectTxFetch(r)
    BY <2>7, VoteFetchInvariant
  <2>8. CASE StoreVote(r)
    BY <2>8, StoreVoteInvariant
  <2>9. CASE \/ BroadcastTxFetch(r) \/ BroadcastTaken(r) \/ BroadcastFailed(r)
             \/ CheckTxInBlockchain(r) \/ ProcessBroadcast(r)
    BY <2>9, BroadcastInvariant
  <2> QED
    BY <1>3, <2>1, <2>2, <2>3, <2>4, <2>5, <2>6, <2>7, <2>8, <2>9 DEF Serve
<1>4. ASSUME NEW r \in Requests, CallFails(r) \/ Crash(r) PROVE IInv'
  BY <1>4, LockInvariant
<1>5. CASE \/ LeaseLapses
           \/ \E t \in Txps : Age(t)
           \/ \E tx \in signedTxs : ThirdPartyBroadcast(tx)
  BY <1>5, WorldInvariant
<1> QED
  BY <1>1, <1>2, <1>3, <1>4, <1>5 DEF Next

(* Under every interleaving of the requests, for wallets of every size,    *)
(* with crashes, lapsing locks and a lagging explorer: the stored          *)
(* proposals, the copies the requests hold and the signed transactions are *)
(* sound.                                                                  *)
THEOREM Invariant == Spec => []IInv
<1>1. Init => IInv
  BY InitInvariant
<1>2. IInv /\ [Next]_vars => IInv'
  BY NextInvariant
<1> QED
  BY <1>1, <1>2, PTL DEF Spec

(* Every variable keeps its type. *)
THEOREM TypeCorrect == Spec => []TypeOK
<1>1. IInv => TypeOK
  BY DEF IInv
<1> QED
  BY <1>1, Invariant, PTL

(* However stale copies overwrite each other, the stored status is the one *)
(* the stored votes demand (storeTx after addAction, signTx, rejectTx,     *)
(* publishTx, broadcastTx).                                                *)
THEOREM StatusCorrect == Spec => []StatusMatchesVotes
<1>1. IInv => StatusMatchesVotes
  BY DEF IInv, StoredOK, Sound, StatusMatchesVotes
<1> QED
  BY <1>1, Invariant, PTL

(* No stored proposal counts a copayer twice (COPAYER_VOTED of signTx and  *)
(* rejectTx).                                                              *)
THEOREM VotesDistinct == Spec => []OneVotePerCopayer
<1>1. IInv => OneVotePerCopayer
  BY DEF IInv, StoredOK, Sound, OneVotePerCopayer
<1> QED
  BY <1>1, Invariant, PTL

(* broadcastTx and getPendingTxs mark a proposal as broadcasted only with  *)
(* the signatures of a transaction the network has.                        *)
THEOREM BroadcastedCorrect == Spec => []BroadcastedIsOnChain
<1>1. IInv => BroadcastedIsOnChain
  BY DEF IInv, StoredOK, BroadcastedIsOnChain
<1> QED
  BY <1>1, Invariant, PTL

----------------------------------------------------------------------------
(* A pending proposal can always be decided. *)

(* Sound votes that decide nothing leave a copayer out: fewer than m       *)
(* accept, at most n - m reject.                                           *)
LEMMA UndecidedLeavesOneOut ==
  ASSUME NEW d \in Doc, VotesOnce(d), ~IsAccepted(d), ~IsRejected(d)
  PROVE  Voters(d) # Copayers
<1> DEFINE A == VotesOf(d, "accept")
           R == VotesOf(d, "reject")
           n == Cardinality(Copayers)
           f == [i \in DOMAIN d.actions |-> d.actions[i].who]
<1>1. /\ IsFiniteSet(A) /\ Cardinality(A) \in Nat
      /\ IsFiniteSet(R) /\ Cardinality(R) \in Nat
  BY VotesFinite
<1>2. n \in Nat /\ RequiredSignatures \in 1 .. n
  BY CopayersAssumption, FS_CardinalityType
<1>3. Cardinality(A) < RequiredSignatures
  BY <1>1, <1>2 DEF IsAccepted
<1>4. Cardinality(R) < n - RequiredSignatures + 1
  BY <1>1, <1>2 DEF IsRejected, RequiredRejections, NumCopayers
<1>5. DOMAIN d.actions = A \cup R /\ A \cap R = {}
  <2>1. \A i \in DOMAIN d.actions : d.actions[i] \in Vote
    BY DEF Doc
  <2> QED
    BY <2>1 DEF VotesOf, Vote, VoteType
<1> HIDE DEF A, R, n
<1>6. /\ IsFiniteSet(DOMAIN d.actions)
      /\ Cardinality(DOMAIN d.actions) < n
  <2>1. /\ IsFiniteSet(A \cup R)
        /\ Cardinality(A \cup R) =
             Cardinality(A) + Cardinality(R) - Cardinality(A \cap R)
    BY <1>1, FS_Union
  <2>2. Cardinality(A \cap R) = 0
    BY <1>5, FS_EmptySet
  <2> QED
    BY <1>1, <1>2, <1>3, <1>4, <1>5, <2>1, <2>2
<1>7. f \in Surjection(DOMAIN d.actions, Voters(d))
  BY Fun_IsSurj DEF Voters
<1> HIDE DEF f
<1>8. /\ IsFiniteSet(Voters(d))
      /\ Cardinality(Voters(d)) <= Cardinality(DOMAIN d.actions)
  BY <1>6, <1>7, FS_Surjection
<1>9. Cardinality(Voters(d)) \in Nat /\ Cardinality(DOMAIN d.actions) \in Nat
  BY <1>6, <1>8, FS_CardinalityType
<1> QED
  BY <1>2, <1>6, <1>8, <1>9 DEF n

(* requiredRejections of TxProposal.create never leaves a pending proposal *)
(* that everyone has voted on, for any m and n.                            *)
THEOREM AlwaysDecidable == Spec => []NoStalemate
<1>1. ASSUME IInv PROVE NoStalemate
  BY <1>1, UndecidedLeavesOneOut
     DEF IInv, TypeOK, StoredOK, Sound, Consistent, NoStalemate
<1> QED
  BY <1>1, Invariant, PTL

----------------------------------------------------------------------------
(* The proposals implement the promise of an m-of-n wallet. *)

LEMMA SpendStep ==
  ASSUME IInv, [Next]_vars
  PROVE  [MultisigWallet!Next]_<<Approvals, chain>>
<1> USE DEF Approvals
<1>1. CASE UNCHANGED <<chain, cast>>
  BY <1>1
<1>2. ASSUME NEW tx \in Tx, Authorised(tx, cast), NetworkTakes(tx),
             chain' = chain \cup {tx}, cast' = cast
      PROVE  MultisigWallet!Next
  <2>1. \A q \in chain : tx.inputs \cap q.inputs = {}
    BY <1>2 DEF NetworkTakes, InputsOf
  <2>2. ASSUME NEW c \in tx.signers
        PROVE  [txp |-> tx.txp, who |-> c] \in Approvals
    <3> DEFINE a == [txp |-> tx.txp, who |-> c, type |-> "accept"]
    <3>1. a \in cast /\ a.type = "accept" /\ a.txp = tx.txp /\ a.who = c
      BY <1>2 DEF Authorised
    <3> HIDE DEF a
    <3> QED
      BY <3>1
  <2>3. tx.signers \in Quorums
    BY <1>2 DEF Authorised, Quorums, Tx
  <2>4. Approvals' = Approvals
    BY <1>2
  <2>5. MultisigWallet!Spend(tx)
    <3> HIDE DEF Approvals
    <3> QED
      BY <1>2, <2>1, <2>2, <2>3, <2>4 DEF MultisigWallet!Spend
  <2> QED
    BY <2>5 DEF MultisigWallet!Next, MultisigWallet!Payment, Tx
<1>3. ASSUME NEW r \in Requests, StoreVote(r)
      PROVE  [MultisigWallet!Next]_<<Approvals, chain>>
  <2> DEFINE v == OwnVote(reqs[r])
  <2>1. v.txp \in Txps /\ v.who \in Copayers
    BY <1>3 DEF StoreVote, OwnVote, IInv, RequestOK
  <2>2. cast' = cast \cup {v} /\ chain' = chain
    BY <1>3 DEF StoreVote
  <2> HIDE DEF v
  <2>3. CASE v.type = "accept"
    <3>1. Approvals' = Approvals \cup {[txp |-> v.txp, who |-> v.who]}
      BY <2>2, <2>3
    <3> QED
      BY <2>1, <2>2, <3>1 DEF MultisigWallet!Next, MultisigWallet!Approve
  <2>4. CASE v.type # "accept"
    BY <2>2, <2>4
  <2> QED
    BY <2>3, <2>4
<1>4. ASSUME NEW r \in Requests, BroadcastTaken(r)
      PROVE  MultisigWallet!Next
  <2> DEFINE tx == TxOf(reqs[r].txp, reqs[r].doc)
  <2>1. /\ reqs[r].txp \in Txps /\ reqs[r].doc \in Doc
        /\ AcceptedCopy(reqs[r].txp, reqs[r].doc, cast)
    BY <1>4 DEF BroadcastTaken, IInv, TypeOK, RequestOK, Request
  <2>2. tx \in Tx /\ Authorised(tx, cast)
    BY <2>1, AcceptedAuthorised DEF AcceptedCopy, Sound, Consistent
  <2>3. NetworkTakes(tx) /\ chain' = chain \cup {tx} /\ cast' = cast
    BY <1>4 DEF BroadcastTaken
  <2> QED
    BY <1>2, <2>2, <2>3
<1>5. ASSUME NEW tx \in signedTxs, ThirdPartyBroadcast(tx)
      PROVE  MultisigWallet!Next
  BY <1>2, <1>5 DEF ThirdPartyBroadcast, IInv, TypeOK
<1>6. ASSUME NEW r \in Requests,
             Serve(r), ~StoreVote(r), ~BroadcastTaken(r)
      PROVE  UNCHANGED <<chain, cast>>
  <2>1. CASE \/ Acquire(r) \/ WalletBusy(r) \/ Release(r)
             \/ GetUtxos(r) \/ FetchPendingTxs(r) \/ SweepDone(r)
    BY <2>1 DEF Acquire, WalletBusy, Release, GetUtxos, FetchPendingTxs, SweepDone
  <2>2. CASE \E x \in reqs[r].todo : SweepBroadcasted(r, x) \/ SweepMissing(r, x)
    BY <2>2 DEF SweepBroadcasted, SweepMissing
  <2>3. CASE \/ CreateTxExisting(r) \/ CreateTxWithInputs(r)
             \/ CreateTxSelecting(r) \/ SelectTxInputs(r)
    BY <2>3 DEF CreateTxExisting, CreateTxWithInputs, CreateTxSelecting, SelectTxInputs
  <2>4. CASE \/ PublishTxFetch(r) \/ CheckTxUTXOs(r) \/ StoreTx(r)
             \/ RemovePendingTxFetch(r) \/ RemoveTx(r)
    BY <2>4 DEF PublishTxFetch, CheckTxUTXOs, StoreTx, RemovePendingTxFetch, RemoveTx
  <2>5. CASE \/ SignTxFetch(r) \/ RejectTxFetch(r)
             \/ BroadcastTxFetch(r) \/ BroadcastFailed(r)
             \/ CheckTxInBlockchain(r) \/ ProcessBroadcast(r)
    BY <2>5 DEF SignTxFetch, RejectTxFetch, BroadcastTxFetch, BroadcastFailed,
                CheckTxInBlockchain, ProcessBroadcast
  <2> QED
    BY <1>6, <2>1, <2>2, <2>3, <2>4, <2>5 DEF Serve
<1>7. ASSUME \/ \E r \in Requests, op \in AllOps, c \in Copayers,
                  t \in Txps \cup {Nobody} : Start(r, op, c, t)
             \/ \E r \in Requests : CallFails(r) \/ Crash(r)
             \/ LeaseLapses
             \/ \E t \in Txps : Age(t)
             \/ UNCHANGED vars
      PROVE  UNCHANGED <<chain, cast>>
  BY <1>7 DEF Start, CallFails, Crash, LeaseLapses, Age, vars
<1> QED
  BY <1>1, <1>3, <1>4, <1>5, <1>6, <1>7 DEF Next

(* The network only gets payments that m distinct copayers have approved   *)
(* through signTx, and no two of one output, for every m and n: TxProposals*)
(* implements MultisigSpend.                                               *)
THEOREM ImplementsMultisigSpend == Spec => SpendsAreApproved
<1>1. Init => MultisigWallet!Init
  BY DEF Init, MultisigWallet!Init, Approvals
<1>2. IInv /\ [Next]_vars => [MultisigWallet!Next]_<<Approvals, chain>>
  BY SpendStep
<1> QED
  BY <1>1, <1>2, Invariant, PTL DEF Spec, SpendsAreApproved, MultisigWallet!Spec

----------------------------------------------------------------------------
(* The wallet lock as the requests use it: TxProposals implements          *)
(* LeaseLock, whatever the operations and the faults.                      *)

Task(q) ==
  \/ q.pc = "release"
  \/ q.op \in LockedOps /\ q.pc \notin {"idle", "acquire"}
TaskOK(q) ==
  /\ q.pc \in {"acquire", "utxos", "spent", "store", "delete"} => q.op \in LockedOps
  /\ q.pc \in {"pending", "sweep"} => q.op \in LockedOps \cup {"list"}
  /\ q.pc \in {"idle", "vote", "send", "check", "mark"} => q.op \notin LockedOps

(* The inductive invariant: the owner of the lock runs a task; unless a    *)
(* lock may lapse, nobody else does.                                       *)
TaskInv ==
  /\ \A r \in Requests : TaskOK(reqs[r])
  /\ \A r \in Requests : lock = r => Task(reqs[r])
  /\ ~MayLapse => \A r \in Requests : Task(reqs[r]) => lock = r

Busy == {r \in Requests : InTask(r)}

LEMMA BusyIsTask ==
  /\ \A r : InTask(r) = Task(reqs[r])
  /\ Busy = {r \in Requests : Task(reqs[r])}
  /\ Busy' = {r \in Requests : Task(reqs'[r])}
  BY DEF InTask, Task, Busy

(* What a step of request r may do to the lock while it turns into q. *)
Begins(r, q) == lock = NoLock /\ lock' = r /\ ~Task(reqs[r]) /\ Task(q)
Ends(r, q) == Task(reqs[r]) /\ lock' = NoLock /\ ~Task(q)
Dies(r, q) == lock' = (IF lock = r THEN Orphan ELSE lock) /\ ~Task(q)
GoesOn(r, q) == lock' = lock /\ (Task(reqs[r]) <=> Task(q))

LEMMA LockStep ==
  ASSUME NEW r \in Requests, NEW q, TypeOK, TaskInv,
         reqs' = [reqs EXCEPT ![r] = q], TaskOK(q),
         Begins(r, q) \/ Ends(r, q) \/ Dies(r, q) \/ GoesOn(r, q)
  PROVE  TaskInv' /\ [LeasedLock!Next]_<<lock, Busy>>
<1>1. /\ reqs'[r] = q
      /\ \A s \in Requests : s # r => reqs'[s] = reqs[s]
  BY DEF TypeOK
<1>2. \A s \in Requests : lock = s => Task(reqs[s])
  BY DEF TaskInv
<1>3. NoLock \notin Requests /\ Orphan \notin Requests /\ NoLock # Orphan
  BY LockAssumption
<1>4. TaskInv'
  <2>1. \A s \in Requests : TaskOK(reqs'[s])
    BY <1>1 DEF TaskInv
  <2>2. \A s \in Requests : lock' = s => Task(reqs'[s])
    BY <1>1, <1>2, <1>3 DEF Begins, Ends, Dies, GoesOn
  <2>3. ~MayLapse => \A s \in Requests : Task(reqs'[s]) => lock' = s
    BY <1>1, <1>2, <1>3 DEF Begins, Ends, Dies, GoesOn, TaskInv
  <2> QED
    BY <2>1, <2>2, <2>3 DEF TaskInv
<1>5. Busy' = IF Task(q) THEN Busy \cup {r} ELSE Busy \ {r}
  BY <1>1, BusyIsTask
<1>6. r \in Busy <=> Task(reqs[r])
  BY BusyIsTask
<1> SUFFICES [LeasedLock!Next]_<<lock, Busy>>
  BY <1>4
<1>7. CASE Begins(r, q)
  BY <1>5, <1>6, <1>7 DEF Begins, LeasedLock!Next, LeasedLock!Begin, Busy
<1>8. CASE Ends(r, q)
  <2>1. lock = r \/ MayLapse
    BY <1>8 DEF Ends, TaskInv
  <2> QED
    BY <1>5, <1>6, <1>8, <2>1 DEF Ends, LeasedLock!Next, LeasedLock!End, Busy
<1>9. CASE Dies(r, q)
  <2>1. CASE Task(reqs[r])
    BY <1>5, <1>6, <1>9, <2>1 DEF Dies, LeasedLock!Next, LeasedLock!Die, Busy
  <2>2. CASE ~Task(reqs[r])
    <3>1. lock' = lock
      BY <1>2, <1>9, <2>2 DEF Dies
    <3> QED
      BY <1>5, <1>6, <1>9, <2>2, <3>1 DEF Dies
  <2> QED
    BY <2>1, <2>2
<1>10. CASE GoesOn(r, q)
  BY <1>5, <1>6, <1>10 DEF GoesOn
<1> QED
  BY <1>7, <1>8, <1>9, <1>10

(* An idle request and one that releases the lock. *)
LEMMA RestingTask ==
  /\ TaskOK(Idle) /\ ~Task(Idle)
  /\ TaskOK([Idle EXCEPT !.pc = "release"]) /\ Task([Idle EXCEPT !.pc = "release"])
  BY DEF Idle, Task, TaskOK, LockedOps

LEMMA ReplyLock ==
  ASSUME NEW r \in Requests, TypeOK, TaskInv, Reply(r),
         \/ Task(reqs[r]) /\ lock' = NoLock
         \/ ~Task(reqs[r]) /\ lock' = lock
         \/ lock' = (IF lock = r THEN Orphan ELSE lock)
  PROVE  TaskInv' /\ [LeasedLock!Next]_<<lock, Busy>>
<1>1. reqs' = [reqs EXCEPT ![r] = Idle] /\ TaskOK(Idle) /\ ~Task(Idle)
  BY RestingTask DEF Reply
<1>2. Ends(r, Idle) \/ GoesOn(r, Idle) \/ Dies(r, Idle)
  BY <1>1 DEF Ends, GoesOn, Dies
<1> QED
  BY <1>1, <1>2, LockStep

LEMMA FinishLock ==
  ASSUME NEW r \in Requests, TypeOK, TaskInv, Finish(r), Task(reqs[r]), lock' = lock
  PROVE  TaskInv' /\ [LeasedLock!Next]_<<lock, Busy>>
  BY RestingTask, LockStep DEF Finish, GoesOn

(* A request that moves on, about the same operation. *)
LEMMA GoesOnLock ==
  ASSUME NEW r \in Requests, NEW q \in Request, TypeOK, TaskInv,
         reqs' = [reqs EXCEPT ![r] = q], q.op = reqs[r].op, lock' = lock,
         reqs[r].pc \notin {"idle", "acquire", "release"},
         q.pc \notin {"idle", "acquire", "release"},
         TaskOK(q)
  PROVE  TaskInv' /\ [LeasedLock!Next]_<<lock, Busy>>
  BY LockStep DEF GoesOn, Task

LEMMA StartLock ==
  ASSUME TypeOK, TaskInv, NEW r \in Requests, NEW op \in AllOps, NEW c, NEW t,
         Start(r, op, c, t)
  PROVE  TaskInv' /\ [LeasedLock!Next]_<<lock, Busy>>
<1> DEFINE pc == CASE op \in LockedOps -> "acquire"
                   [] op = "list"      -> "pending"
                   [] OTHER            -> "read"
           who == IF op \in {"list", "publish", "broadcast"} THEN Nobody ELSE c
           q == [Idle EXCEPT !.pc = pc, !.op = op, !.txp = t, !.who = who]
<1>1. reqs' = [reqs EXCEPT ![r] = q] /\ lock' = lock
  BY DEF Start
<1>2. /\ op \in LockedOps => pc = "acquire"
      /\ op = "list" => pc = "pending"
      /\ op \notin LockedOps /\ op # "list" => pc = "read"
  BY DEF LockedOps
<1> HIDE DEF pc, who
<1>3. q.pc = pc /\ q.op = op
  BY DEF Idle
<1> HIDE DEF q
<1>4. TaskOK(q) /\ ~Task(q)
  BY <1>2, <1>3 DEF TaskOK, Task
<1>5. ~Task(reqs[r])
  BY DEF Start, Task, TaskInv, TaskOK
<1>6. GoesOn(r, q)
  BY <1>1, <1>4, <1>5 DEF GoesOn
<1> QED
  BY <1>1, <1>4, <1>6, LockStep

(* One lemma for the requests at the lock, in getPendingTxs, in a locked   *)
(* task and in one that takes no lock.                                     *)
LEMMA AtLock ==
  ASSUME TypeOK, TaskInv, NEW r \in Requests,
         \/ Acquire(r) \/ WalletBusy(r) \/ Release(r)
         \/ CallFails(r) \/ Crash(r)
  PROVE  TaskInv' /\ [LeasedLock!Next]_<<lock, Busy>>
<1>0. reqs[r] \in Request /\ TaskOK(reqs[r])
  BY DEF TypeOK, TaskInv
<1>1. CASE Acquire(r)
  <2> DEFINE q == [reqs[r] EXCEPT !.pc = "read"]
  <2>1. q.pc = "read" /\ q.op = reqs[r].op /\ reqs' = [reqs EXCEPT ![r] = q]
    BY <1>0, <1>1 DEF Acquire, Goto, Request, TypeOK
  <2> HIDE DEF q
  <2>2. reqs[r].pc = "acquire" /\ lock = NoLock /\ lock' = r
    BY <1>1 DEF Acquire
  <2>3. TaskOK(q) /\ Begins(r, q)
    BY <1>0, <2>1, <2>2 DEF TaskOK, Task, Begins
  <2> QED
    BY <2>1, <2>3, LockStep
<1>2. CASE WalletBusy(r)
  <2>1. ~Task(reqs[r]) /\ Reply(r) /\ lock' = lock
    BY <1>2 DEF WalletBusy, Task
  <2> QED
    BY <2>1, ReplyLock
<1>3. CASE Release(r)
  <2>1. Task(reqs[r]) /\ Reply(r) /\ lock' = NoLock
    BY <1>3 DEF Release, Task
  <2> QED
    BY <2>1, ReplyLock
<1>4. CASE CallFails(r)
  <2>1. CASE Finish(r) /\ Task(reqs[r])
    BY <1>4, <2>1, FinishLock DEF CallFails
  <2>2. CASE Reply(r) /\ ~Task(reqs[r])
    BY <1>4, <2>2, ReplyLock DEF CallFails
  <2> QED
    BY <1>0, <1>4, <2>1, <2>2 DEF CallFails, Task
<1>5. CASE Crash(r)
  BY <1>5, ReplyLock DEF Crash
<1> QED
  BY <1>1, <1>2, <1>3, <1>4, <1>5

LEMMA InPendingTxs ==
  ASSUME TypeOK, TaskInv, NEW r \in Requests,
         \/ GetUtxos(r) \/ FetchPendingTxs(r) \/ SweepDone(r)
         \/ \E x \in reqs[r].todo : SweepBroadcasted(r, x) \/ SweepMissing(r, x)
  PROVE  TaskInv' /\ [LeasedLock!Next]_<<lock, Busy>>
<1>0. reqs[r] \in Request /\ TaskOK(reqs[r])
  BY DEF TypeOK, TaskInv
<1>1. ASSUME NEW q, reqs' = [reqs EXCEPT ![r] = q], lock' = lock,
             q.op = reqs[r].op,
             reqs[r].pc \in {"utxos", "pending", "sweep"},
             q.pc \in {"spent", "pending", "sweep"},
             q.op = "list" => q.pc # "spent"
      PROVE  TaskInv' /\ [LeasedLock!Next]_<<lock, Busy>>
  <2>1. TaskOK(q) /\ GoesOn(r, q)
    BY <1>0, <1>1 DEF TaskOK, GoesOn, Task
  <2> QED
    BY <1>1, <2>1, LockStep
<1>2. CASE GetUtxos(r)
  <2>1. PICK found \in SUBSET Inputs, pc \in {"spent", "pending"} :
          reqs' = [reqs EXCEPT ![r].pc = pc, ![r].utxos = found]
    BY <1>2 DEF GetUtxos
  <2> DEFINE q == [reqs[r] EXCEPT !.pc = pc, !.utxos = found]
  <2>2. q.pc = pc /\ q.op = reqs[r].op /\ reqs' = [reqs EXCEPT ![r] = q]
    BY <1>0, <2>1 DEF Request, TypeOK
  <2>3. reqs[r].pc = "utxos" /\ reqs[r].op \in LockedOps /\ lock' = lock
    BY <1>0, <1>2 DEF GetUtxos, TaskOK
  <2> HIDE DEF q
  <2> QED
    BY <1>1, <2>2, <2>3 DEF LockedOps
<1>3. CASE FetchPendingTxs(r)
  <2>1. PICK todo, held :
          reqs' = [reqs EXCEPT ![r].pc = "sweep", ![r].todo = todo, ![r].held = held]
    BY <1>3 DEF FetchPendingTxs
  <2> DEFINE q == [reqs[r] EXCEPT !.pc = "sweep", !.todo = todo, !.held = held]
  <2>2. q.pc = "sweep" /\ q.op = reqs[r].op /\ reqs' = [reqs EXCEPT ![r] = q]
    BY <1>0, <2>1 DEF Request, TypeOK
  <2>3. reqs[r].pc = "pending" /\ lock' = lock
    BY <1>3 DEF FetchPendingTxs
  <2> HIDE DEF q
  <2> QED
    BY <1>1, <2>2, <2>3
<1>4. CASE SweepDone(r)
  <2>1. CASE reqs[r].op = "list"
    <3>1. ~Task(reqs[r]) /\ Reply(r) /\ lock' = lock
      BY <1>4, <2>1 DEF SweepDone, Task, LockedOps
    <3> QED
      BY <3>1, ReplyLock
  <2>2. CASE reqs[r].op # "list"
    <3> DEFINE q == [reqs[r] EXCEPT !.pc = "spent"]
    <3>1. q.pc = "spent" /\ q.op = reqs[r].op /\ reqs' = [reqs EXCEPT ![r] = q]
      BY <1>0, <1>4, <2>2 DEF SweepDone, Goto, Request, TypeOK
    <3>2. reqs[r].pc = "sweep" /\ lock' = lock
      BY <1>4 DEF SweepDone
    <3> HIDE DEF q
    <3> QED
      BY <1>1, <2>2, <3>1, <3>2
  <2> QED
    BY <2>1, <2>2
<1>5. ASSUME NEW x \in reqs[r].todo, SweepBroadcasted(r, x) \/ SweepMissing(r, x)
      PROVE  TaskInv' /\ [LeasedLock!Next]_<<lock, Busy>>
  <2>1. PICK todo, held :
          reqs' = [reqs EXCEPT ![r].todo = todo, ![r].held = held]
    <3>1. CASE SweepMissing(r, x)
      BY <3>1 DEF SweepMissing
    <3>2. CASE SweepBroadcasted(r, x)
      <4>1. reqs' = [reqs EXCEPT ![r].todo = reqs[r].todo \ {x}, ![r].held = reqs[r].held]
        BY <1>0, <3>2 DEF SweepBroadcasted, TypeOK, Request
      <4> QED
        BY <4>1
    <3> QED
      BY <1>5, <3>1, <3>2
  <2> DEFINE q == [reqs[r] EXCEPT !.todo = todo, !.held = held]
  <2>2. /\ reqs[r].pc = "sweep" /\ lock' = lock
    BY <1>5 DEF SweepBroadcasted, SweepMissing
  <2>3. q.pc = reqs[r].pc /\ q.op = reqs[r].op /\ reqs' = [reqs EXCEPT ![r] = q]
    BY <1>0, <2>1 DEF Request, TypeOK
  <2> HIDE DEF q
  <2> QED
    BY <1>1, <2>2, <2>3
<1> QED
  BY <1>2, <1>3, <1>4, <1>5

LEMMA InLockedTask ==
  ASSUME TypeOK, TaskInv, NEW r \in Requests,
         \/ CreateTxExisting(r) \/ CreateTxWithInputs(r)
         \/ CreateTxSelecting(r) \/ SelectTxInputs(r)
         \/ PublishTxFetch(r) \/ CheckTxUTXOs(r) \/ StoreTx(r)
         \/ RemovePendingTxFetch(r) \/ RemoveTx(r)
  PROVE  TaskInv' /\ [LeasedLock!Next]_<<lock, Busy>>
<1>0. reqs[r] \in Request /\ TaskOK(reqs[r])
  BY DEF TypeOK, TaskInv
<1>1. /\ reqs[r].op \in LockedOps
      /\ reqs[r].pc \notin {"idle", "acquire", "release"}
      /\ lock' = lock
  BY <1>0
     DEF TaskOK, LockedOps, CreateTxExisting, CreateTxWithInputs,
         CreateTxSelecting, SelectTxInputs, PublishTxFetch, CheckTxUTXOs,
         StoreTx, RemovePendingTxFetch, RemoveTx
<1>2. CASE Finish(r)
  BY <1>1, <1>2, FinishLock DEF Task
<1>3. ASSUME NEW q, reqs' = [reqs EXCEPT ![r] = q], q.op = reqs[r].op,
             q.pc \in {"utxos", "store", "delete"}
      PROVE  TaskInv' /\ [LeasedLock!Next]_<<lock, Busy>>
  <2>1. TaskOK(q) /\ GoesOn(r, q)
    BY <1>1, <1>3 DEF TaskOK, GoesOn, Task
  <2> QED
    BY <1>3, <2>1, LockStep
<1>4. CASE \E pc \in {"utxos", "store", "delete"} :
             \/ Goto(r, pc)
             \/ \E d : GotoWith(r, pc, d)
             \/ \E d : reqs' = [reqs EXCEPT ![r] = [@ EXCEPT !.pc = pc,
                                  !.doc = d, !.utxos = {}, !.held = {}]]
  <2>1. PICK pc \in {"utxos", "store", "delete"} :
             \/ Goto(r, pc)
             \/ \E d : GotoWith(r, pc, d)
             \/ \E d : reqs' = [reqs EXCEPT ![r] = [@ EXCEPT !.pc = pc,
                                  !.doc = d, !.utxos = {}, !.held = {}]]
    BY <1>4
  <2>2. \E q : /\ reqs' = [reqs EXCEPT ![r] = q]
               /\ q.op = reqs[r].op /\ q.pc = pc
    <3>1. CASE Goto(r, pc)
      <4> DEFINE q == [reqs[r] EXCEPT !.pc = pc]
      <4>1. reqs' = [reqs EXCEPT ![r] = q] /\ q.op = reqs[r].op /\ q.pc = pc
        BY <1>0, <3>1 DEF Goto, TypeOK, Request
      <4> QED
        BY <4>1
    <3>2. ASSUME NEW d, GotoWith(r, pc, d)
          PROVE  \E q : /\ reqs' = [reqs EXCEPT ![r] = q]
                        /\ q.op = reqs[r].op /\ q.pc = pc
      <4> DEFINE q == [reqs[r] EXCEPT !.pc = pc, !.doc = d]
      <4>1. reqs' = [reqs EXCEPT ![r] = q] /\ q.op = reqs[r].op /\ q.pc = pc
        BY <1>0, <3>2 DEF GotoWith, TypeOK, Request
      <4> QED
        BY <4>1
    <3>3. ASSUME NEW d, reqs' = [reqs EXCEPT ![r] = [@ EXCEPT !.pc = pc,
                                   !.doc = d, !.utxos = {}, !.held = {}]]
          PROVE  \E q : /\ reqs' = [reqs EXCEPT ![r] = q]
                        /\ q.op = reqs[r].op /\ q.pc = pc
      <4> DEFINE q == [reqs[r] EXCEPT !.pc = pc, !.doc = d, !.utxos = {}, !.held = {}]
      <4>1. reqs' = [reqs EXCEPT ![r] = q] /\ q.op = reqs[r].op /\ q.pc = pc
        BY <1>0, <3>3 DEF TypeOK, Request
      <4> QED
        BY <4>1
    <3> QED
      BY <2>1, <3>1, <3>2, <3>3
  <2> QED
    BY <1>3, <2>2
<1> QED
  BY <1>2, <1>4
     DEF CreateTxExisting, CreateTxWithInputs, CreateTxSelecting,
         SelectTxInputs, PublishTxFetch, CheckTxUTXOs, StoreTx,
         RemovePendingTxFetch, RemoveTx

LEMMA WithoutLock ==
  ASSUME TypeOK, TaskInv, NEW r \in Requests,
         \/ SignTxFetch(r) \/ RejectTxFetch(r) \/ StoreVote(r)
         \/ BroadcastTxFetch(r) \/ BroadcastTaken(r) \/ BroadcastFailed(r)
         \/ CheckTxInBlockchain(r) \/ ProcessBroadcast(r)
  PROVE  TaskInv' /\ [LeasedLock!Next]_<<lock, Busy>>
<1>0. reqs[r] \in Request /\ TaskOK(reqs[r])
  BY DEF TypeOK, TaskInv
<1>1. /\ reqs[r].op \notin LockedOps
      /\ reqs[r].pc # "release"
      /\ lock' = lock
  BY <1>0
     DEF TaskOK, LockedOps, SignTxFetch, RejectTxFetch, StoreVote,
         BroadcastTxFetch, BroadcastTaken, BroadcastFailed,
         CheckTxInBlockchain, ProcessBroadcast
<1>2. CASE Reply(r)
  BY <1>1, <1>2, ReplyLock DEF Task
<1>3. ASSUME NEW q, reqs' = [reqs EXCEPT ![r] = q], q.op = reqs[r].op,
             q.pc \in {"vote", "send", "check", "mark"}
      PROVE  TaskInv' /\ [LeasedLock!Next]_<<lock, Busy>>
  <2>1. TaskOK(q) /\ GoesOn(r, q)
    BY <1>1, <1>3 DEF TaskOK, GoesOn, Task
  <2> QED
    BY <1>1, <1>3, <2>1, LockStep
<1>4. ASSUME NEW pc \in {"vote", "send", "check", "mark"},
             \/ Goto(r, pc)
             \/ \E d : GotoWith(r, pc, d)
      PROVE  TaskInv' /\ [LeasedLock!Next]_<<lock, Busy>>
  <2>1. CASE Goto(r, pc)
    <3> DEFINE q == [reqs[r] EXCEPT !.pc = pc]
    <3>1. reqs' = [reqs EXCEPT ![r] = q] /\ q.op = reqs[r].op /\ q.pc = pc
      BY <1>0, <2>1 DEF Goto, TypeOK, Request
    <3> HIDE DEF q
    <3> QED
      BY <1>3, <1>4, <3>1
  <2>2. ASSUME NEW d, GotoWith(r, pc, d)
        PROVE  TaskInv' /\ [LeasedLock!Next]_<<lock, Busy>>
    <3> DEFINE q == [reqs[r] EXCEPT !.pc = pc, !.doc = d]
    <3>1. reqs' = [reqs EXCEPT ![r] = q] /\ q.op = reqs[r].op /\ q.pc = pc
      BY <1>0, <2>2 DEF GotoWith, TypeOK, Request
    <3> HIDE DEF q
    <3> QED
      BY <1>3, <1>4, <3>1
  <2> QED
    BY <1>4, <2>1, <2>2
<1>5. \/ Reply(r)
      \/ \E pc \in {"vote", "send", "check", "mark"} :
           Goto(r, pc) \/ \E d : GotoWith(r, pc, d)
  BY DEF SignTxFetch, RejectTxFetch, StoreVote, BroadcastTxFetch,
         BroadcastTaken, BroadcastFailed, CheckTxInBlockchain, ProcessBroadcast
<1> QED
  BY <1>2, <1>4, <1>5

LEMMA LockNext ==
  ASSUME TypeOK, TaskInv, [Next]_vars
  PROVE  TaskInv' /\ [LeasedLock!Next]_<<lock, Busy>>
<1>1. ASSUME UNCHANGED <<reqs, lock>>
      PROVE  TaskInv' /\ [LeasedLock!Next]_<<lock, Busy>>
  <2>1. Busy' = Busy
    BY <1>1, BusyIsTask
  <2> QED
    BY <1>1, <2>1 DEF TaskInv
<1>2. CASE \/ \E t \in Txps : Age(t)
           \/ \E tx \in signedTxs : ThirdPartyBroadcast(tx)
           \/ UNCHANGED vars
  BY <1>1, <1>2 DEF Age, ThirdPartyBroadcast, vars
<1>3. CASE LeaseLapses
  <2>1. /\ reqs' = reqs /\ lock' = NoLock
        /\ lock = Orphan \/ (MayLapse /\ lock \in Requests)
    BY <1>3 DEF LeaseLapses
  <2>2. Busy' = Busy
    BY <2>1, BusyIsTask
  <2>3. LeasedLock!Lapse
    BY <2>1, <2>2, LockAssumption DEF LeasedLock!Lapse, Busy
  <2>4. TaskInv'
    BY <2>1, LockAssumption DEF TaskInv
  <2> QED
    BY <2>3, <2>4 DEF LeasedLock!Next
<1>4. ASSUME NEW r \in Requests, NEW op \in AllOps, NEW c \in Copayers,
             NEW t \in Txps \cup {Nobody}, Start(r, op, c, t)
      PROVE  TaskInv' /\ [LeasedLock!Next]_<<lock, Busy>>
  BY <1>4, StartLock
<1>5. ASSUME NEW r \in Requests, Serve(r) \/ CallFails(r) \/ Crash(r)
      PROVE  TaskInv' /\ [LeasedLock!Next]_<<lock, Busy>>
  BY <1>5, AtLock, InPendingTxs, InLockedTask, WithoutLock DEF Serve
<1> QED
  BY <1>2, <1>3, <1>4, <1>5 DEF Next

LEMMA LockInit == Init => TaskInv /\ LeasedLock!Init
<1> SUFFICES ASSUME Init PROVE TaskInv /\ LeasedLock!Init
  OBVIOUS
<1>1. \A r \in Requests : reqs[r] = Idle
  BY DEF Init
<1>2. lock = NoLock /\ Busy = {}
  BY <1>1, BusyIsTask, RestingTask DEF Init
<1> QED
  BY <1>1, <1>2, RestingTask, LockAssumption DEF TaskInv, LeasedLock!Init, Busy

LEMMA TaskInvariant == Spec => []TaskInv
<1>1. Init => TaskInv
  BY LockInit
<1>2. TypeOK /\ TaskInv /\ [Next]_vars => TaskInv'
  BY LockNext
<1> QED
  BY <1>1, <1>2, TypeCorrect, PTL DEF Spec

(* createTx, publishTx and removePendingTx ask no more of the wallet lock  *)
(* than lock.ts gives: with any crash and any lapse of a lock, TxProposals *)
(* implements LeaseLock, as WalletLock does.                               *)
THEOREM ImplementsLeaseLock == Spec => UsesLeaseLock
<1>1. Init => LeasedLock!Init
  BY LockInit
<1>2. TypeOK /\ TaskInv /\ [Next]_vars => [LeasedLock!Next]_<<lock, Busy>>
  BY LockNext
<1> QED
  BY <1>1, <1>2, TypeCorrect, TaskInvariant, PTL
     DEF Spec, UsesLeaseLock, LeasedLock!Spec, Busy

(* Unless a lock may be cleared while its owner works, at most one request *)
(* at a time is inside a task of runLocked.                                *)
THEOREM TasksExclude ==
  ASSUME ~MayLapse
  PROVE  Spec => []LockExcludes
<1>1. TaskInv => LockExcludes
  BY BusyIsTask DEF TaskInv, LockExcludes
<1> QED
  BY <1>1, TaskInvariant, PTL

-----------------------------------------------------------------------------
(***************************************************************************)
(* Served one at a time, the proposals follow ProposalLifecycle.           *)
(***************************************************************************)

Apart(t, ins) ==
  \A u \in Txps \ {t} : IsPending(txps[u]) => ins \cap txps[u].inputs = {}

(* One request is served at a time. *)
OneAtATime == \A r, s \in Requests : r = s

Stage == [t \in Txps |-> IF t \in removed THEN "removed" ELSE txps[t].status]
Reserves == [t \in Txps |-> txps[t].inputs]

Holds(d) == d.status \in {"pending", "accepted", "broadcasted"}
HasVote(a, d) ==
  \E i \in DOMAIN d.actions : d.actions[i] = [who |-> a.who, type |-> a.type]
Pays(tx, d) == d.status \in {"accepted", "broadcasted"} /\ tx = TxOf(tx.txp, d)

(* The inputs the request may still take are none of u's. *)
Spared(u, q, docs) == docs[u].inputs \cap (q.utxos \ q.held) = {}

(* What a request knows is true of the stored documents. *)
Known(q, docs, gone) ==
  /\ q.op # "list" => q.txp \notin gone
  /\ q.pc = "store" => q.op \in {"create", "publish"}
  /\ q.op = "create" /\ q.pc \in {"utxos", "pending", "sweep", "spent", "store"} =>
       docs[q.txp] = NoTxp
  /\ q.op = "create" /\ q.pc = "store" => q.doc.status = "temporary"
  /\ q.op = "publish" /\ q.pc \in {"utxos", "pending", "sweep", "spent"} =>
       q.doc = docs[q.txp] /\ docs[q.txp].status = "temporary"
  /\ q.op = "publish" /\ q.pc = "store" =>
       /\ q.doc = SetStatus(docs[q.txp], "pending")
       /\ docs[q.txp].status = "temporary"
       /\ \A u \in Txps \ {q.txp} :
            Holds(docs[u]) => docs[q.txp].inputs \cap docs[u].inputs = {}
  /\ q.pc = "delete" => IsPending(docs[q.txp])
  /\ q.pc = "vote" =>
       /\ docs[q.txp].status = "pending"
       /\ q.doc = AddAction(docs[q.txp], q.who, OwnVote(q).type)
  /\ q.pc \in {"send", "check", "mark"} => q.doc = docs[q.txp]
  /\ \A x \in q.todo : x.doc = docs[x.txp]
  /\ q.pc = "sweep" /\ q.op \in LockedOps =>
       \A u \in Txps : IsPending(docs[u]) =>
         Spared(u, q, docs) \/ \E x \in q.todo : x.txp = u
  /\ q.pc = "spent" =>
       \A u \in Txps : IsPending(docs[u]) => Spared(u, q, docs)

SerialInv ==
  /\ \A r \in Requests : Known(reqs[r], txps, removed)
  /\ \A t \in removed : txps[t] = NoTxp
  /\ InputsLockedOnce
  /\ \A a \in cast : a.txp \in removed \/ HasVote(a, txps[a.txp])
  /\ chain \subseteq signedTxs
  /\ \A tx \in signedTxs : tx.txp \in removed \/ Pays(tx, txps[tx.txp])
  /\ \A t \in Txps : txps[t].status = "accepted" => TxOf(t, txps[t]) \in signedTxs

LEMMA KnownResting ==
  ASSUME NEW docs, NEW gone
  PROVE  /\ Known(Idle, docs, gone)
         /\ Known([Idle EXCEPT !.pc = "release"], docs, gone)
  BY DEF Known, Idle

(* Steps that write nothing. *)
LEMMA SerialQuiet ==
  ASSUME OneAtATime, TypeOK, SerialInv, NEW r \in Requests, NEW q,
         reqs' = [reqs EXCEPT ![r] = q],
         UNCHANGED <<txps, removed, cast, signedTxs>>,
         chain' \subseteq signedTxs,
         Known(q, txps, removed)
  PROVE  SerialInv' /\ UNCHANGED <<Stage, Reserves>>
<1>1. \A s \in Requests : reqs'[s] = q
  BY DEF TypeOK, OneAtATime
<1>2. UNCHANGED <<Stage, Reserves>>
  BY DEF Stage, Reserves
<1>3. SerialInv'
  BY <1>1 DEF SerialInv, InputsLockedOnce
<1> QED
  BY <1>2, <1>3

LEMMA SerialResting ==
  ASSUME OneAtATime, TypeOK, SerialInv, NEW r \in Requests,
         Reply(r) \/ Finish(r),
         UNCHANGED <<txps, removed, cast, signedTxs, chain>>
  PROVE  SerialInv' /\ UNCHANGED <<Stage, Reserves>>
<1>1. chain \subseteq signedTxs
  BY DEF SerialInv
<1> QED
  BY <1>1, KnownResting, SerialQuiet DEF Reply, Finish

(* A document d is stored for t. *)
LEMMA SerialWrite ==
  ASSUME OneAtATime, TypeOK, SerialInv, NEW r \in Requests, NEW q,
         NEW t \in Txps \ removed, NEW d \in Doc,
         reqs' = [reqs EXCEPT ![r] = q],
         txps' = [txps EXCEPT ![t] = d],
         UNCHANGED <<removed, chain>>,
         Known(q, txps', removed),
         IsPending(d) => Apart(t, d.inputs),
         \A a \in cast' : a.txp = t => HasVote(a, d),
         \A a \in cast' : a \in cast \/ a.txp = t,
         signedTxs \subseteq signedTxs',
         \A tx \in signedTxs' : tx.txp = t => Pays(tx, d),
         \A tx \in signedTxs' : tx \in signedTxs \/ tx.txp = t,
         d.status = "accepted" => TxOf(t, d) \in signedTxs'
  PROVE  SerialInv'
<1>1. \A s \in Requests : reqs'[s] = q
  BY DEF TypeOK, OneAtATime
<1>2. /\ txps'[t] = d
      /\ \A u \in Txps : u # t => txps'[u] = txps[u]
  BY DEF TypeOK
<1>3. \A s \in Requests : Known(reqs'[s], txps', removed')
  BY <1>1
<1>4. \A u \in removed' : txps'[u] = NoTxp
  BY <1>2 DEF SerialInv, TypeOK
<1>5. InputsLockedOnce'
  <2> SUFFICES ASSUME NEW u \in Txps, NEW v \in Txps, u # v,
                      IsPending(txps'[u]), IsPending(txps'[v])
               PROVE  txps'[u].inputs \cap txps'[v].inputs = {}
    BY DEF InputsLockedOnce
  <2>1. CASE u = t
    BY <1>2, <2>1 DEF Apart
  <2>2. CASE v = t
    BY <1>2, <2>2 DEF Apart
  <2>3. CASE u # t /\ v # t
    BY <1>2, <2>3 DEF SerialInv, InputsLockedOnce
  <2> QED
    BY <2>1, <2>2, <2>3
<1>6. ASSUME NEW a \in cast' PROVE a.txp \in removed' \/ HasVote(a, txps'[a.txp])
  <2>1. CASE a.txp = t
    BY <1>2, <2>1
  <2>2. CASE a.txp # t
    <3>1. a \in cast /\ a.txp \in Txps
      BY <2>2 DEF TypeOK
    <3> QED
      BY <1>2, <2>2, <3>1 DEF SerialInv
  <2> QED
    BY <2>1, <2>2
<1>7. ASSUME NEW tx \in signedTxs' PROVE tx.txp \in removed' \/ Pays(tx, txps'[tx.txp])
  <2>1. CASE tx.txp = t
    BY <1>2, <2>1
  <2>2. CASE tx.txp # t
    <3>1. tx \in signedTxs /\ tx.txp \in Txps
      BY <2>2 DEF TypeOK, Tx
    <3> QED
      BY <1>2, <2>2, <3>1 DEF SerialInv
  <2> QED
    BY <2>1, <2>2
<1>8. ASSUME NEW u \in Txps, txps'[u].status = "accepted"
      PROVE  TxOf(u, txps'[u]) \in signedTxs'
  BY <1>2, <1>8 DEF SerialInv
<1>9. chain' \subseteq signedTxs'
  BY DEF SerialInv
<1> QED
  BY <1>3, <1>4, <1>5, <1>6, <1>7, <1>8, <1>9 DEF SerialInv

LEMMA StageWrite ==
  ASSUME TypeOK, NEW t \in Txps \ removed, NEW d \in Doc,
         txps' = [txps EXCEPT ![t] = d], removed' = removed
  PROVE  /\ Stage[t] = txps[t].status
         /\ Stage' = [Stage EXCEPT ![t] = d.status]
         /\ Reserves' = [Reserves EXCEPT ![t] = d.inputs]
         /\ d.inputs = txps[t].inputs => Reserves' = Reserves
<1>1. /\ txps'[t] = d
      /\ \A u \in Txps : u # t => txps'[u] = txps[u]
  BY DEF TypeOK
<1>2. Stage[t] = txps[t].status
  BY DEF Stage
<1>3. Stage' = [Stage EXCEPT ![t] = d.status]
  <2>1. [Stage EXCEPT ![t] = d.status] =
          [u \in Txps |-> IF u = t THEN d.status
                          ELSE IF u \in removed THEN "removed" ELSE txps[u].status]
    BY DEF Stage
  <2>2. Stage' =
          [u \in Txps |-> IF u \in removed THEN "removed" ELSE txps'[u].status]
    BY DEF Stage
  <2> QED
    BY <1>1, <2>1, <2>2
<1>4. Reserves' = [Reserves EXCEPT ![t] = d.inputs]
  <2>1. [Reserves EXCEPT ![t] = d.inputs] =
          [u \in Txps |-> IF u = t THEN d.inputs ELSE txps[u].inputs]
    BY DEF Reserves
  <2>2. Reserves' = [u \in Txps |-> txps'[u].inputs]
    BY DEF Reserves
  <2> QED
    BY <1>1, <2>1, <2>2
<1>5. d.inputs = txps[t].inputs => Reserves' = Reserves
  BY <1>1 DEF Reserves
<1> QED
  BY <1>2, <1>3, <1>4, <1>5

(* A request that moves on keeps what it knows. *)
LEMMA KnownMoves ==
  ASSUME TypeOK, SerialInv, NEW r \in Requests,
         NEW pc \in {"read", "utxos", "delete"}, Goto(r, pc),
         reqs[r].pc \in {"acquire", "read"},
         pc = "utxos" => reqs[r].op = "create" /\ txps[reqs[r].txp] = NoTxp,
         pc = "delete" => IsPending(txps[reqs[r].txp])
  PROVE  \E q : reqs' = [reqs EXCEPT ![r] = q] /\ Known(q, txps, removed)
<1> DEFINE q == [reqs[r] EXCEPT !.pc = pc]
<1>1. /\ reqs' = [reqs EXCEPT ![r] = q]
      /\ q.pc = pc /\ q.op = reqs[r].op /\ q.txp = reqs[r].txp
      /\ q.todo = reqs[r].todo
  BY DEF Goto, TypeOK, Request
<1> HIDE DEF q
<1>2. Known(q, txps, removed)
  BY <1>1 DEF Known, SerialInv
<1> QED
  BY <1>1, <1>2

----------------------------------------------------------------------------
(* Steps that write no proposal. *)

LifeStep == [Lifecycle!Next]_<<Stage, Reserves>>

LEMMA QuietLife ==
  ASSUME UNCHANGED <<Stage, Reserves>>
  PROVE  LifeStep
  BY DEF LifeStep

(* Steps of the world, of the lock, and the start of a request. *)
LEMMA SerialWorld ==
  ASSUME OneAtATime, IInv, SerialInv,
         \/ LeaseLapses \/ UNCHANGED vars
         \/ \E t \in Txps : Age(t)
         \/ \E tx \in signedTxs : ThirdPartyBroadcast(tx)
  PROVE  SerialInv' /\ LifeStep
<1>1. UNCHANGED <<txps, reqs, removed, cast, signedTxs>> /\ chain' \subseteq signedTxs
  BY DEF LeaseLapses, Age, ThirdPartyBroadcast, vars, SerialInv
<1>2. SerialInv'
  BY <1>1 DEF SerialInv, InputsLockedOnce
<1>3. UNCHANGED <<Stage, Reserves>>
  BY <1>1 DEF Stage, Reserves
<1> QED
  BY <1>2, <1>3, QuietLife

LEMMA SerialStart ==
  ASSUME OneAtATime, IInv, SerialInv, NEW r \in Requests, NEW op \in AllOps,
         NEW c \in Copayers, NEW t \in Txps \cup {Nobody}, Start(r, op, c, t)
  PROVE  SerialInv' /\ LifeStep
<1> DEFINE pc == CASE op \in LockedOps -> "acquire"
                   [] op = "list"      -> "pending"
                   [] OTHER            -> "read"
           who == IF op \in {"list", "publish", "broadcast"} THEN Nobody ELSE c
           q == [Idle EXCEPT !.pc = pc, !.op = op, !.txp = t, !.who = who]
<1>1. /\ reqs' = [reqs EXCEPT ![r] = q]
      /\ UNCHANGED <<txps, removed, cast, signedTxs, chain>>
  BY DEF Start
<1>2. /\ op \in LockedOps => pc = "acquire"
      /\ op = "list" => pc = "pending"
      /\ op \notin LockedOps /\ op # "list" => pc = "read"
  BY DEF LockedOps
<1> HIDE DEF pc, who
<1>3. q.pc = pc /\ q.op = op /\ q.txp = t /\ q.todo = {}
  BY DEF Idle
<1> HIDE DEF q
<1>4. op # "list" => t \notin removed
  BY DEF Start, SerialInv, AllOps
<1>5. Known(q, txps, removed)
  BY <1>2, <1>3, <1>4 DEF Known, LockedOps
<1>6. TypeOK /\ chain' \subseteq signedTxs
  BY <1>1 DEF IInv, SerialInv
<1> QED
  BY <1>1, <1>5, <1>6, SerialQuiet, QuietLife

LEMMA SerialRest ==
  ASSUME OneAtATime, IInv, SerialInv, NEW r \in Requests,
         Reply(r) \/ Finish(r),
         UNCHANGED <<txps, removed, cast, signedTxs, chain>>
  PROVE  SerialInv' /\ LifeStep
  BY SerialResting, QuietLife DEF IInv

LEMMA SerialMoves ==
  ASSUME OneAtATime, IInv, SerialInv, NEW r \in Requests,
         \/ Acquire(r) \/ CreateTxSelecting(r)
         \/ (RemovePendingTxFetch(r) /\ ~Finish(r))
  PROVE  SerialInv' /\ LifeStep
<1>1. /\ TypeOK /\ chain \subseteq signedTxs
      /\ UNCHANGED <<txps, removed, cast, signedTxs, chain>>
  BY DEF IInv, SerialInv, Acquire, CreateTxSelecting, RemovePendingTxFetch
<1>2. \E q : reqs' = [reqs EXCEPT ![r] = q] /\ Known(q, txps, removed)
  BY <1>1, KnownMoves DEF Acquire, CreateTxSelecting, RemovePendingTxFetch
<1> QED
  BY <1>1, <1>2, SerialQuiet, QuietLife

(* getUtxosForCurrentWallet and getPendingTxs. *)
LEMMA SerialLooks ==
  ASSUME OneAtATime, IInv, TaskInv, SerialInv, NEW r \in Requests,
         \/ GetUtxos(r) \/ FetchPendingTxs(r) \/ SweepDone(r)
         \/ \E x \in reqs[r].todo : SweepMissing(r, x)
  PROVE  SerialInv' /\ LifeStep
<1>0. /\ reqs[r] \in Request /\ Known(reqs[r], txps, removed)
      /\ RequestOK(reqs[r], cast, chain) /\ TypeOK
      /\ TaskOK(reqs[r])
  BY DEF IInv, TypeOK, SerialInv, TaskInv
<1>1. chain' \subseteq signedTxs /\ UNCHANGED <<txps, removed, cast, signedTxs, chain>>
  BY DEF SerialInv, GetUtxos, FetchPendingTxs, SweepDone, SweepMissing
<1>2. ASSUME NEW q, reqs' = [reqs EXCEPT ![r] = q], Known(q, txps, removed)
      PROVE  SerialInv' /\ LifeStep
  BY <1>0, <1>1, <1>2, SerialQuiet, QuietLife
<1>3. CASE GetUtxos(r)
  <2>1. PICK found \in SUBSET Inputs, pc \in {"spent", "pending"} :
          /\ reqs' = [reqs EXCEPT ![r].pc = pc, ![r].utxos = found]
          /\ pc = "spent" => found = {}
    BY <1>3 DEF GetUtxos
  <2> DEFINE q == [reqs[r] EXCEPT !.pc = pc, !.utxos = found]
  <2>2. /\ q.pc = pc /\ q.op = reqs[r].op /\ q.utxos = found
        /\ q.txp = reqs[r].txp /\ q.doc = reqs[r].doc /\ q.todo = reqs[r].todo
        /\ reqs' = [reqs EXCEPT ![r] = q]
    BY <1>0, <2>1 DEF Request, TypeOK
  <2> HIDE DEF q
  <2>3. reqs[r].pc = "utxos"
    BY <1>3 DEF GetUtxos
  <2>4. pc = "spent" => \A u : Spared(u, q, txps)
    BY <2>1, <2>2 DEF Spared
  <2>5. Known(q, txps, removed)
    BY <1>0, <2>2, <2>3, <2>4 DEF Known
  <2> QED
    BY <1>2, <2>2, <2>5
<1>4. CASE FetchPendingTxs(r)
  <2> DEFINE pend == {t \in Txps : IsPending(txps[t])}
             acc == {t \in pend : txps[t].status = "accepted"}
             todo == {[txp |-> t, doc |-> txps[t]] : t \in acc}
             held == UNION {txps[t].inputs : t \in pend \ acc}
             q == [reqs[r] EXCEPT !.pc = "sweep", !.todo = todo, !.held = held]
  <2>1. \A u \in Txps : IsPending(txps[u]) =>
          txps[u].inputs \subseteq held \/ \E x \in todo : x.txp = u
    <3>1. ASSUME NEW u \in Txps, IsPending(txps[u]), txps[u].status = "accepted"
          PROVE  \E x \in todo : x.txp = u
      <4>1. [txp |-> u, doc |-> txps[u]] \in todo
        BY <3>1
      <4> QED
        BY <4>1
    <3>2. ASSUME NEW u \in Txps, IsPending(txps[u]), txps[u].status # "accepted"
          PROVE  txps[u].inputs \subseteq held
      BY <3>2
    <3> QED
      BY <3>1, <3>2
  <2>2. \A x \in todo : x.doc = txps[x.txp]
    OBVIOUS
  <2>3. reqs' = [reqs EXCEPT ![r].pc = "sweep", ![r].todo = todo, ![r].held = held]
    BY <1>4 DEF FetchPendingTxs
  <2> HIDE DEF todo, held
  <2>4. /\ q.pc = "sweep" /\ q.op = reqs[r].op /\ q.held = held /\ q.todo = todo
        /\ q.txp = reqs[r].txp /\ q.doc = reqs[r].doc
        /\ reqs' = [reqs EXCEPT ![r] = q]
    BY <1>0, <2>3 DEF Request, TypeOK
  <2> HIDE DEF q
  <2>5. \A u \in Txps : IsPending(txps[u]) =>
          Spared(u, q, txps) \/ \E x \in q.todo : x.txp = u
    BY <2>1, <2>4 DEF Spared
  <2>6. reqs[r].pc = "pending"
    BY <1>4 DEF FetchPendingTxs
  <2>7. Known(q, txps, removed)
    BY <1>0, <2>2, <2>4, <2>5, <2>6 DEF Known
  <2> QED
    BY <1>2, <2>4, <2>7
<1>5. CASE SweepDone(r)
  <2>1. CASE Reply(r)
    BY <1>1, <2>1, SerialRest
  <2>2. CASE reqs[r].op # "list" /\ Goto(r, "spent")
    <3> DEFINE q == [reqs[r] EXCEPT !.pc = "spent"]
    <3>1. /\ q.pc = "spent" /\ q.op = reqs[r].op /\ q.held = reqs[r].held
          /\ q.utxos = reqs[r].utxos /\ q.todo = reqs[r].todo
          /\ q.txp = reqs[r].txp /\ q.doc = reqs[r].doc
          /\ reqs' = [reqs EXCEPT ![r] = q]
      BY <1>0, <2>2 DEF Goto, Request, TypeOK
    <3> HIDE DEF q
    <3>2. reqs[r].pc = "sweep" /\ reqs[r].todo = {} /\ reqs[r].op \in LockedOps
      BY <1>0, <1>5, <2>2 DEF SweepDone, TaskOK
    <3>3. \A u \in Txps : IsPending(txps[u]) => Spared(u, q, txps)
      BY <1>0, <3>1, <3>2 DEF Known, Spared
    <3>4. Known(q, txps, removed)
      BY <1>0, <3>1, <3>2, <3>3 DEF Known
    <3> QED
      BY <1>2, <3>1, <3>4
  <2> QED
    BY <1>5, <2>1, <2>2 DEF SweepDone
<1>6. ASSUME NEW x \in reqs[r].todo, SweepMissing(r, x)
      PROVE  SerialInv' /\ LifeStep
  <2> DEFINE q == [reqs[r] EXCEPT !.todo = @ \ {x}, !.held = @ \cup x.doc.inputs]
  <2>1. /\ q.pc = reqs[r].pc /\ q.op = reqs[r].op
        /\ q.held = reqs[r].held \cup x.doc.inputs
        /\ q.utxos = reqs[r].utxos /\ q.todo = reqs[r].todo \ {x}
        /\ q.txp = reqs[r].txp /\ q.doc = reqs[r].doc
        /\ reqs' = [reqs EXCEPT ![r] = q]
    BY <1>0, <1>6 DEF SweepMissing, Request, TypeOK
  <2> HIDE DEF q
  <2>2. reqs[r].pc = "sweep" /\ x.doc = txps[x.txp]
    BY <1>0, <1>6 DEF SweepMissing, Known
  <2>3. ASSUME reqs[r].op \in LockedOps, NEW u \in Txps, IsPending(txps[u])
        PROVE  Spared(u, q, txps) \/ \E y \in q.todo : y.txp = u
    <3>1. CASE Spared(u, reqs[r], txps)
      BY <2>1, <3>1 DEF Spared
    <3>2. CASE x.txp = u
      BY <2>1, <2>2, <3>2 DEF Spared
    <3>3. CASE \E y \in reqs[r].todo : y.txp = u /\ y # x
      BY <2>1, <3>3
    <3> QED
      BY <1>0, <2>2, <2>3, <3>1, <3>2, <3>3 DEF Known
  <2>4. Known(q, txps, removed)
    BY <1>0, <2>1, <2>2, <2>3 DEF Known
  <2> QED
    BY <1>2, <2>1, <2>4
<1> QED
  BY <1>3, <1>4, <1>5, <1>6

(* createTx, publishTx up to the write. *)
LEMMA SerialPrepares ==
  ASSUME OneAtATime, IInv, SerialInv, NEW r \in Requests,
         \/ CreateTxWithInputs(r) \/ (SelectTxInputs(r) /\ ~Finish(r))
         \/ (PublishTxFetch(r) /\ ~Finish(r)) \/ (CheckTxUTXOs(r) /\ ~Finish(r))
  PROVE  SerialInv' /\ LifeStep
<1>0. /\ reqs[r] \in Request /\ Known(reqs[r], txps, removed)
      /\ RequestOK(reqs[r], cast, chain) /\ TypeOK
  BY DEF IInv, TypeOK, SerialInv
<1>1. chain' \subseteq signedTxs /\ UNCHANGED <<txps, removed, cast, signedTxs, chain>>
  BY DEF SerialInv, CreateTxWithInputs, SelectTxInputs, PublishTxFetch, CheckTxUTXOs
<1>2. ASSUME NEW q, reqs' = [reqs EXCEPT ![r] = q], Known(q, txps, removed)
      PROVE  SerialInv' /\ LifeStep
  BY <1>0, <1>1, <1>2, SerialQuiet, QuietLife
<1>3. CASE CreateTxWithInputs(r)
  <2>1. PICK ins : GotoWith(r, "store", NewTxp(reqs[r].who, ins))
    BY <1>3 DEF CreateTxWithInputs
  <2>2. PICK d : d = NewTxp(reqs[r].who, ins)
    OBVIOUS
  <2> DEFINE q == [reqs[r] EXCEPT !.pc = "store", !.doc = d]
  <2>3. /\ q.pc = "store" /\ q.op = reqs[r].op /\ q.doc = d
        /\ q.txp = reqs[r].txp /\ q.todo = reqs[r].todo
        /\ reqs' = [reqs EXCEPT ![r] = q]
    BY <1>0, <2>1, <2>2 DEF GotoWith, Request, TypeOK
  <2> HIDE DEF q
  <2>4. reqs[r].op = "create" /\ txps[reqs[r].txp] = NoTxp /\ d.status = "temporary"
    BY <1>3, <2>2 DEF CreateTxWithInputs, NewTxp
  <2>5. Known(q, txps, removed)
    BY <1>0, <2>3, <2>4 DEF Known
  <2> QED
    BY <1>2, <2>3, <2>5
<1>4. CASE SelectTxInputs(r) /\ ~Finish(r)
  <2>1. PICK ins : reqs' = [reqs EXCEPT ![r] = [@ EXCEPT !.pc = "store",
                     !.doc = NewTxp(reqs[r].who, ins), !.utxos = {}, !.held = {}]]
    BY <1>4 DEF SelectTxInputs
  <2>2. PICK d : d = NewTxp(reqs[r].who, ins)
    OBVIOUS
  <2> DEFINE q == [reqs[r] EXCEPT !.pc = "store", !.doc = d, !.utxos = {}, !.held = {}]
  <2>3. /\ q.pc = "store" /\ q.op = reqs[r].op /\ q.doc = d
        /\ q.txp = reqs[r].txp /\ q.todo = reqs[r].todo
        /\ reqs' = [reqs EXCEPT ![r] = q]
    BY <1>0, <2>1, <2>2 DEF Request, TypeOK
  <2> HIDE DEF q
  <2>4. /\ reqs[r].op = "create" /\ reqs[r].pc = "spent"
        /\ d.status = "temporary"
    BY <1>4, <2>2 DEF SelectTxInputs, NewTxp
  <2>5. Known(q, txps, removed)
    BY <1>0, <2>3, <2>4 DEF Known
  <2> QED
    BY <1>2, <2>3, <2>5
<1>5. CASE PublishTxFetch(r) /\ ~Finish(r)
  <2>1. PICK d : d = txps[reqs[r].txp]
    OBVIOUS
  <2>2. d.status = "temporary" /\ GotoWith(r, "utxos", d)
    BY <1>5, <2>1 DEF PublishTxFetch
  <2> DEFINE q == [reqs[r] EXCEPT !.pc = "utxos", !.doc = d]
  <2>3. /\ q.pc = "utxos" /\ q.op = reqs[r].op /\ q.doc = d
        /\ q.txp = reqs[r].txp /\ q.todo = reqs[r].todo
        /\ reqs' = [reqs EXCEPT ![r] = q]
    BY <1>0, <2>2 DEF GotoWith, Request, TypeOK
  <2> HIDE DEF q
  <2>4. reqs[r].op = "publish"
    BY <1>5 DEF PublishTxFetch
  <2>5. Known(q, txps, removed)
    BY <1>0, <2>1, <2>2, <2>3, <2>4 DEF Known
  <2> QED
    BY <1>2, <2>3, <2>5
<1>6. CASE CheckTxUTXOs(r) /\ ~Finish(r)
  <2>1. PICK d : d = SetStatus(reqs[r].doc, "pending")
    OBVIOUS
  <2>2. /\ reqs[r].doc.inputs \subseteq Available(r)
        /\ reqs' = [reqs EXCEPT ![r] = [@ EXCEPT !.pc = "store",
                      !.doc = d, !.utxos = {}, !.held = {}]]
    BY <1>6, <2>1 DEF CheckTxUTXOs
  <2> DEFINE q == [reqs[r] EXCEPT !.pc = "store", !.doc = d, !.utxos = {}, !.held = {}]
  <2>3. /\ q.pc = "store" /\ q.op = reqs[r].op /\ q.doc = d
        /\ q.txp = reqs[r].txp /\ q.todo = reqs[r].todo
        /\ reqs' = [reqs EXCEPT ![r] = q]
    BY <1>0, <2>2 DEF Request, TypeOK
  <2> HIDE DEF q
  <2>4. /\ reqs[r].op = "publish" /\ reqs[r].pc = "spent"
        /\ reqs[r].doc = txps[reqs[r].txp] /\ txps[reqs[r].txp].status = "temporary"
    BY <1>0, <1>6 DEF CheckTxUTXOs, Known
  <2>5. ASSUME NEW u \in Txps, Holds(txps[u])
        PROVE  reqs[r].doc.inputs \cap txps[u].inputs = {}
    <3>1. CASE IsPending(txps[u])
      BY <1>0, <2>2, <2>4, <3>1 DEF Known, Spared, Available
    <3>2. CASE txps[u].status = "broadcasted"
      BY <2>2, <3>2 DEF Available
    <3> QED
      BY <2>5, <3>1, <3>2 DEF Holds, IsPending
  <2>6. Known(q, txps, removed)
    BY <1>0, <2>1, <2>3, <2>4, <2>5 DEF Known
  <2> QED
    BY <1>2, <2>3, <2>6
<1> QED
  BY <1>3, <1>4, <1>5, <1>6

----------------------------------------------------------------------------
(* Steps that write one. *)

LEMMA SameHasVote ==
  ASSUME NEW a, NEW d, NEW e, d.actions = e.actions, HasVote(a, e)
  PROVE  HasVote(a, d)
  BY DEF HasVote

LEMMA NothingVoted ==
  ASSUME NEW a
  PROVE  ~HasVote(a, NoTxp)
  BY DEF HasVote, NoTxp

(* storeTx of createTx and publishTx. *)
LEMMA SerialStore ==
  ASSUME OneAtATime, IInv, TaskInv, SerialInv, NEW r \in Requests, StoreTx(r)
  PROVE  SerialInv' /\ LifeStep
<1>0. /\ reqs[r] \in Request /\ Known(reqs[r], txps, removed)
      /\ RequestOK(reqs[r], cast, chain) /\ TaskOK(reqs[r]) /\ TypeOK
  BY DEF IInv, TypeOK, SerialInv, TaskInv
<1>1. PICK t, d, q : /\ t = reqs[r].txp /\ d = reqs[r].doc
                     /\ q = [Idle EXCEPT !.pc = "release"]
  OBVIOUS
<1>2. /\ reqs[r].pc = "store" /\ txps' = [txps EXCEPT ![t] = d]
      /\ reqs' = [reqs EXCEPT ![r] = q]
      /\ UNCHANGED <<removed, chain, cast, signedTxs>>
  BY <1>1 DEF StoreTx, Finish
<1>3. t \in Txps \ removed /\ d \in Doc /\ reqs[r].op \in {"create", "publish"}
  BY <1>0, <1>1, <1>2 DEF Known, RequestOK, Request
<1>4. Known(q, txps', removed)
  BY <1>1, KnownResting
<1>5. ASSUME NEW e, e = txps[t], e.status \notin {"accepted", "broadcasted"}
      PROVE  \A tx \in signedTxs : tx.txp # t
  BY <1>3, <1>5 DEF SerialInv, Pays
<1>6. CASE reqs[r].op = "create"
  <2>1. txps[t] = NoTxp /\ d.status = "temporary"
    BY <1>0, <1>1, <1>2, <1>6 DEF Known
  <2>2. \A a \in cast : a.txp # t
    BY <1>3, <2>1, NothingVoted DEF SerialInv
  <2>3. \A tx \in signedTxs : tx.txp # t
    BY <1>5, <2>1 DEF NoTxp
  <2>4. ~IsPending(d) /\ d.status # "accepted"
    BY <2>1 DEF IsPending
  <2>5. SerialInv'
    BY <1>0, <1>2, <1>3, <1>4, <2>2, <2>3, <2>4, SerialWrite
  <2>6. Lifecycle!Create(t)
    <3>1. /\ Stage[t] = txps[t].status
          /\ Stage' = [Stage EXCEPT ![t] = d.status]
          /\ Reserves' = [Reserves EXCEPT ![t] = d.inputs]
      BY <1>0, <1>2, <1>3, StageWrite
    <3>2. txps[t].status = "none" /\ d.inputs \in SUBSET Inputs
      BY <1>3, <2>1 DEF NoTxp, Doc
    <3> QED
      BY <2>1, <3>1, <3>2 DEF Lifecycle!Create, Lifecycle!Move, Stage, Reserves
  <2> QED
    BY <1>3, <2>5, <2>6 DEF LifeStep, Lifecycle!Next
<1>7. CASE reqs[r].op = "publish"
  <2>1. PICK e : e = txps[t]
    OBVIOUS
  <2>2. /\ d = SetStatus(e, "pending") /\ e.status = "temporary"
        /\ \A u \in Txps \ {t} : Holds(txps[u]) => e.inputs \cap txps[u].inputs = {}
    BY <1>0, <1>1, <1>2, <1>7, <2>1 DEF Known
  <2>3. e \in Doc
    BY <1>0, <1>3, <2>1 DEF TypeOK
  <2>4. d.status = "pending" /\ d.actions = e.actions /\ d.inputs = e.inputs
    BY <2>2, <2>3, SetStatusType DEF Status
  <2>5. \A a \in cast : a.txp = t => HasVote(a, d)
    <3>1. ASSUME NEW a \in cast, a.txp = t PROVE HasVote(a, e)
      BY <1>3, <2>1, <3>1 DEF SerialInv
    <3> QED
      BY <2>4, <3>1, SameHasVote
  <2>6. \A tx \in signedTxs : tx.txp # t
    BY <1>5, <2>1, <2>2
  <2>7. Apart(t, d.inputs)
    <3>1. \A u \in Txps : IsPending(txps[u]) => Holds(txps[u])
      BY <1>0 DEF TypeOK, Doc, Status, IsPending, Holds
    <3> QED
      BY <2>2, <2>4, <3>1 DEF Apart
  <2>8. SerialInv'
    BY <1>0, <1>2, <1>3, <1>4, <2>4, <2>5, <2>6, <2>7, SerialWrite
  <2>9. Lifecycle!Publish(t)
    <3>1. Stage[t] = "temporary"
      BY <1>0, <1>2, <1>3, <2>1, <2>2, StageWrite
    <3>2. Stage' = [Stage EXCEPT ![t] = "pending"] /\ Reserves' = Reserves
      BY <1>0, <1>2, <1>3, <2>1, <2>4, StageWrite
    <3>3. ASSUME NEW u \in Txps \ {t}, Stage[u] \in Lifecycle!Holding
          PROVE  Reserves[t] \cap Reserves[u] = {}
      <4>1. Holds(txps[u])
        BY <3>3 DEF Stage, Holds, Lifecycle!Holding
      <4> QED
        BY <1>3, <2>1, <2>2, <4>1 DEF Reserves
    <3> QED
      BY <3>1, <3>2, <3>3 DEF Lifecycle!Publish, Lifecycle!Move, Stage, Reserves
  <2> QED
    BY <1>3, <2>8, <2>9 DEF LifeStep, Lifecycle!Next
<1> QED
  BY <1>3, <1>6, <1>7

(* removeTx. *)
LEMMA SerialRemove ==
  ASSUME OneAtATime, IInv, TaskInv, SerialInv, NEW r \in Requests, RemoveTx(r)
  PROVE  SerialInv' /\ LifeStep
<1>0. /\ reqs[r] \in Request /\ Known(reqs[r], txps, removed)
      /\ RequestOK(reqs[r], cast, chain) /\ TaskOK(reqs[r]) /\ TypeOK
  BY DEF IInv, TypeOK, SerialInv, TaskInv
<1>1. PICK t, q : t = reqs[r].txp /\ q = [Idle EXCEPT !.pc = "release"]
  OBVIOUS
<1>2. /\ reqs[r].pc = "delete" /\ txps' = [txps EXCEPT ![t] = NoTxp]
      /\ removed' = removed \cup {t}
      /\ reqs' = [reqs EXCEPT ![r] = q]
      /\ UNCHANGED <<chain, cast, signedTxs>>
  BY <1>1 DEF RemoveTx, Finish
<1>3. t \in Txps \ removed /\ IsPending(txps[t])
  BY <1>0, <1>1, <1>2 DEF Known, RequestOK, TaskOK, LockedOps
<1>4. /\ txps'[t] = NoTxp
      /\ \A u \in Txps : u # t => txps'[u] = txps[u]
  BY <1>0, <1>2, <1>3 DEF TypeOK
<1>5. SerialInv'
  <2>1. \A s \in Requests : Known(reqs'[s], txps', removed')
    <3>1. \A s \in Requests : reqs'[s] = q
      BY <1>0, <1>2 DEF TypeOK, OneAtATime
    <3> QED
      BY <1>1, <3>1, KnownResting
  <2>2. \A u \in removed' : txps'[u] = NoTxp
    BY <1>0, <1>2, <1>4 DEF SerialInv, TypeOK
  <2>3. InputsLockedOnce'
    <3>1. \A u \in Txps : IsPending(txps'[u]) => txps'[u] = txps[u]
      BY <1>4 DEF IsPending, NoTxp
    <3> QED
      BY <3>1 DEF SerialInv, InputsLockedOnce
  <2>4. \A a \in cast' : a.txp \in removed' \/ HasVote(a, txps'[a.txp])
    <3>1. \A a \in cast : a.txp \in Txps
      BY <1>0 DEF TypeOK
    <3> QED
      BY <1>2, <1>4, <3>1 DEF SerialInv
  <2>5. \A tx \in signedTxs' : tx.txp \in removed' \/ Pays(tx, txps'[tx.txp])
    <3>1. \A tx \in signedTxs : tx.txp \in Txps
      BY <1>0 DEF TypeOK, Tx
    <3> QED
      BY <1>2, <1>4, <3>1 DEF SerialInv
  <2>6. \A u \in Txps : txps'[u].status = "accepted" => TxOf(u, txps'[u]) \in signedTxs'
    BY <1>2, <1>4 DEF SerialInv, NoTxp
  <2>7. chain' \subseteq signedTxs'
    BY <1>2 DEF SerialInv
  <2> QED
    BY <2>1, <2>2, <2>3, <2>4, <2>5, <2>6, <2>7 DEF SerialInv
<1>6. Lifecycle!Remove(t)
  <2>1. Stage[t] \in Lifecycle!Live
    BY <1>0, <1>3 DEF Stage, TypeOK, Doc, Status, IsPending, Lifecycle!Live
  <2>2. Stage' = [Stage EXCEPT ![t] = "removed"]
    <3>1. [Stage EXCEPT ![t] = "removed"] =
            [u \in Txps |-> IF u = t \/ u \in removed THEN "removed" ELSE txps[u].status]
      BY DEF Stage
    <3>2. Stage' =
            [u \in Txps |-> IF u \in removed' THEN "removed" ELSE txps'[u].status]
      BY DEF Stage
    <3> QED
      BY <1>2, <1>4, <3>1, <3>2
  <2>3. Reserves' = [Reserves EXCEPT ![t] = {}]
    <3>1. [Reserves EXCEPT ![t] = {}] =
            [u \in Txps |-> IF u = t THEN {} ELSE txps[u].inputs]
      BY DEF Reserves
    <3>2. Reserves' = [u \in Txps |-> txps'[u].inputs]
      BY DEF Reserves
    <3>3. NoTxp.inputs = {}
      BY DEF NoTxp
    <3> QED
      BY <1>4, <3>1, <3>2, <3>3
  <2> QED
    BY <2>1, <2>2, <2>3 DEF Lifecycle!Remove, Lifecycle!Move, Stage, Reserves
<1> QED
  BY <1>3, <1>5, <1>6 DEF LifeStep, Lifecycle!Next

(* An accepted proposal is marked as broadcasted. *)
LEMMA SerialMark ==
  ASSUME OneAtATime, IInv, SerialInv, NEW r \in Requests, NEW q,
         NEW t \in Txps \ removed, txps[t].status = "accepted",
         reqs' = [reqs EXCEPT ![r] = q],
         txps' = [txps EXCEPT ![t] = SetStatus(txps[t], "broadcasted")],
         UNCHANGED <<removed, chain, cast, signedTxs>>,
         Known(q, txps', removed)
  PROVE  SerialInv' /\ LifeStep
<1>1. PICK e, d : e = txps[t] /\ d = SetStatus(e, "broadcasted")
  OBVIOUS
<1>2. TypeOK /\ e \in Doc
  BY <1>1 DEF IInv, TypeOK
<1>3. /\ d \in Doc /\ d.status = "broadcasted"
      /\ d.actions = e.actions /\ d.inputs = e.inputs
  BY <1>1, <1>2, SetStatusType DEF Status
<1>4. TxOf(t, d) = TxOf(t, e)
  BY <1>3, SameVotes DEF TxOf
<1>5. \A a \in cast : a.txp = t => HasVote(a, d)
  <2>1. ASSUME NEW a \in cast, a.txp = t PROVE HasVote(a, e)
    BY <1>1, <2>1 DEF SerialInv
  <2> QED
    BY <1>3, <2>1, SameHasVote
<1>6. \A tx \in signedTxs : tx.txp = t => Pays(tx, d)
  BY <1>1, <1>3, <1>4 DEF SerialInv, Pays
<1>7. ~IsPending(d) /\ d.status # "accepted"
  BY <1>3 DEF IsPending
<1>8. txps' = [txps EXCEPT ![t] = d]
  BY <1>1
<1>9. SerialInv'
  BY <1>2, <1>3, <1>5, <1>6, <1>7, <1>8, SerialWrite
<1>10. Lifecycle!Broadcast(t)
  <2>1. /\ Stage[t] = txps[t].status
        /\ Stage' = [Stage EXCEPT ![t] = d.status]
        /\ d.inputs = txps[t].inputs => Reserves' = Reserves
    BY <1>2, <1>3, <1>8, StageWrite
  <2> QED
    BY <1>1, <1>3, <2>1 DEF Lifecycle!Broadcast, Lifecycle!Move, Stage, Reserves
<1> QED
  BY <1>9, <1>10 DEF LifeStep, Lifecycle!Next

LEMMA SerialMarks ==
  ASSUME OneAtATime, IInv, TaskInv, SerialInv, NEW r \in Requests,
         ProcessBroadcast(r) \/ \E x \in reqs[r].todo : SweepBroadcasted(r, x)
  PROVE  SerialInv' /\ LifeStep
<1>0. /\ reqs[r] \in Request /\ Known(reqs[r], txps, removed)
      /\ RequestOK(reqs[r], cast, chain) /\ TaskOK(reqs[r]) /\ TypeOK
  BY DEF IInv, TypeOK, SerialInv, TaskInv
<1>1. CASE ProcessBroadcast(r)
  <2>1. PICK t : t = reqs[r].txp
    OBVIOUS
  <2>2. reqs[r].pc = "mark" /\ reqs[r].op # "list"
    BY <1>0, <1>1 DEF ProcessBroadcast, RequestOK
  <2>3. t \in Txps \ removed /\ reqs[r].doc = txps[t] /\ txps[t].status = "accepted"
    BY <1>0, <2>1, <2>2 DEF RequestOK, Known, AcceptedCopy
  <2>4. /\ txps' = [txps EXCEPT ![t] = SetStatus(txps[t], "broadcasted")]
        /\ reqs' = [reqs EXCEPT ![r] = Idle]
        /\ UNCHANGED <<removed, chain, cast, signedTxs>>
    BY <1>1, <2>1, <2>3 DEF ProcessBroadcast, Reply
  <2> QED
    BY <2>3, <2>4, KnownResting, SerialMark
<1>2. ASSUME NEW x \in reqs[r].todo, SweepBroadcasted(r, x)
      PROVE  SerialInv' /\ LifeStep
  <2>1. PICK t : t = x.txp
    OBVIOUS
  <2>2. x \in Copy /\ x.doc = txps[t] /\ txps[t].status = "accepted"
    BY <1>0, <2>1 DEF Request, Known, RequestOK, AcceptedCopy
  <2>3. t \in Txps \ removed
    BY <2>1, <2>2 DEF Copy, SerialInv, NoTxp
  <2>4. /\ txps' = [txps EXCEPT ![t] = SetStatus(txps[t], "broadcasted")]
        /\ UNCHANGED <<removed, chain, cast, signedTxs>>
        /\ reqs[r].pc = "sweep"
    BY <1>2, <2>1, <2>2 DEF SweepBroadcasted
  <2> DEFINE q == [reqs[r] EXCEPT !.todo = @ \ {x}]
  <2>5. /\ q.pc = "sweep" /\ q.op = reqs[r].op
        /\ q.held = reqs[r].held
        /\ q.utxos = reqs[r].utxos /\ q.todo = reqs[r].todo \ {x}
        /\ q.txp = reqs[r].txp /\ q.doc = reqs[r].doc
        /\ reqs' = [reqs EXCEPT ![r] = q]
    BY <1>0, <1>2, <2>4 DEF SweepBroadcasted, Request, TypeOK
  <2> HIDE DEF q
  <2>6. /\ \A u \in Txps : u # t => txps'[u] = txps[u]
        /\ ~IsPending(txps'[t])
    <3>1. SetStatus(txps[t], "broadcasted").status = "broadcasted"
      BY <1>0, <2>3, SetStatusType DEF TypeOK, Status
    <3> QED
      BY <1>0, <2>3, <2>4, <3>1 DEF TypeOK, IsPending
  <2>7. ASSUME NEW y \in q.todo PROVE y.doc = txps'[y.txp]
    <3>1. y \in Copy /\ y # x /\ y.doc = txps[y.txp]
      BY <1>0, <2>5 DEF Known, Request
    <3>2. y.txp # t
      BY <2>1, <2>2, <3>1 DEF Copy
    <3> QED
      BY <2>6, <3>1, <3>2 DEF Copy
  <2>8. reqs[r].op \in {"create", "publish"} =>
          reqs[r].txp # t /\ reqs[r].txp \in Txps
    BY <1>0, <2>2, <2>4 DEF Known, NoTxp, RequestOK
  <2>9. ASSUME reqs[r].op \in LockedOps, NEW u \in Txps, IsPending(txps'[u])
        PROVE  Spared(u, q, txps') \/ \E y \in q.todo : y.txp = u
    <3>1. u # t /\ txps'[u] = txps[u]
      BY <2>6, <2>9
    <3>2. Spared(u, reqs[r], txps) \/ \E y \in reqs[r].todo : y.txp = u
      BY <1>0, <2>4, <2>9, <3>1 DEF Known
    <3> QED
      BY <2>1, <2>5, <3>1, <3>2 DEF Spared
  <2>10. Known(q, txps', removed)
    BY <1>0, <2>4, <2>5, <2>6, <2>7, <2>8, <2>9 DEF Known
  <2> QED
    BY <2>2, <2>3, <2>4, <2>5, <2>10, SerialMark
<1> QED
  BY <1>1, <1>2

----------------------------------------------------------------------------
(* Votes, broadcasting, and the theorems. *)

(* AddAction touches the votes and the status only. *)
LEMMA AddActionInputs ==
  ASSUME NEW d \in Doc, NEW c \in Copayers, NEW type \in VoteType
  PROVE  AddAction(d, c, type).inputs = d.inputs
<1>1. PICK voted : voted = [d EXCEPT !.actions = Append(@, [who |-> c, type |-> type])]
  OBVIOUS
<1>2. voted \in Doc
  BY <1>1, VotedType
<1>3. voted.inputs = d.inputs
  BY <1>1 DEF Doc
<1>4. [voted EXCEPT !.status = UpdatedStatus(voted)].inputs = voted.inputs
  BY <1>2 DEF Doc
<1> QED
  BY <1>1, <1>3, <1>4 DEF AddAction

(* It keeps every vote and adds the new one. *)
LEMMA AddActionKeeps ==
  ASSUME NEW d \in Doc, NEW c \in Copayers, NEW type \in VoteType
  PROVE  /\ \A a : HasVote(a, d) => HasVote(a, AddAction(d, c, type))
         /\ \A a : a.who = c /\ a.type = type => HasVote(a, AddAction(d, c, type))
<1>1. PICK v, vote : v = AddAction(d, c, type) /\ vote = [who |-> c, type |-> type]
  OBVIOUS
<1>2. /\ v.actions = Append(d.actions, vote)
      /\ d.actions \in Seq(Vote)
  BY <1>1, AddActionType DEF Doc
<1>3. /\ DOMAIN d.actions = 1 .. Len(d.actions)
      /\ DOMAIN v.actions = 1 .. (Len(d.actions) + 1)
      /\ \A i \in 1 .. Len(d.actions) : v.actions[i] = d.actions[i]
      /\ v.actions[Len(d.actions) + 1] = vote
      /\ Len(d.actions) \in Nat
  BY <1>2
<1>4. ASSUME NEW a, HasVote(a, d) PROVE HasVote(a, v)
  BY <1>3, <1>4 DEF HasVote
<1>5. ASSUME NEW a, a.who = c, a.type = type PROVE HasVote(a, v)
  BY <1>1, <1>3, <1>5 DEF HasVote
<1> QED
  BY <1>1, <1>4, <1>5

LEMMA SerialVoteFetch ==
  ASSUME OneAtATime, IInv, SerialInv, NEW r \in Requests,
         SignTxFetch(r) \/ RejectTxFetch(r)
  PROVE  SerialInv' /\ LifeStep
<1>0. /\ reqs[r] \in Request /\ Known(reqs[r], txps, removed)
      /\ RequestOK(reqs[r], cast, chain) /\ TypeOK
  BY DEF IInv, TypeOK, SerialInv
<1>1. chain' \subseteq signedTxs /\ UNCHANGED <<txps, removed, cast, signedTxs, chain>>
  BY DEF SerialInv, SignTxFetch, RejectTxFetch
<1>2. CASE Reply(r)
  BY <1>1, <1>2, SerialRest
<1>3. PICK e, c, type :
        /\ e = txps[reqs[r].txp] /\ c = reqs[r].who /\ type = OwnVote(reqs[r]).type
  OBVIOUS
<1>4. ASSUME GotoWith(r, "vote", AddAction(e, c, type)), e.status = "pending"
      PROVE  SerialInv' /\ LifeStep
  <2>1. PICK d : d = AddAction(e, c, type)
    OBVIOUS
  <2> DEFINE q == [reqs[r] EXCEPT !.pc = "vote", !.doc = d]
  <2>2. /\ q.pc = "vote" /\ q.op = reqs[r].op /\ q.doc = d /\ q.who = reqs[r].who
        /\ q.txp = reqs[r].txp /\ q.todo = reqs[r].todo
        /\ reqs' = [reqs EXCEPT ![r] = q]
    BY <1>0, <1>4, <2>1 DEF GotoWith, Request, TypeOK
  <2> HIDE DEF q
  <2>3. OwnVote(q).type = type
    BY <1>3, <2>2 DEF OwnVote
  <2>4. Known(q, txps, removed)
    BY <1>0, <1>3, <1>4, <2>1, <2>2, <2>3 DEF Known
  <2> QED
    BY <1>0, <1>1, <2>2, <2>4, SerialQuiet, QuietLife
<1>5. CASE SignTxFetch(r) /\ ~Reply(r)
  <2>1. /\ MaySign(c, e) /\ reqs[r].op = "sign" /\ type = "accept"
        /\ GotoWith(r, "vote", AddAction(e, c, type))
    BY <1>3, <1>5 DEF SignTxFetch, OwnVote
  <2>2. reqs[r].txp \in Txps
    BY <1>0, <2>1 DEF RequestOK
  <2>3. e \in Doc /\ Sound(e)
    BY <1>3, <2>2 DEF IInv, TypeOK, StoredOK
  <2>4. e.status = "pending"
    BY <2>1, <2>3 DEF MaySign, IsPending, Sound, Consistent, Doc, Status
  <2> QED
    BY <1>4, <2>1, <2>4
<1>6. CASE RejectTxFetch(r) /\ ~Reply(r)
  <2>1. /\ MayReject(c, e) /\ reqs[r].op = "reject" /\ type = "reject"
        /\ GotoWith(r, "vote", AddAction(e, c, type))
    BY <1>3, <1>6 DEF RejectTxFetch, OwnVote
  <2> QED
    BY <1>4, <2>1 DEF MayReject
<1> QED
  BY <1>2, <1>5, <1>6

LEMMA SerialStoreVote ==
  ASSUME OneAtATime, IInv, SerialInv, NEW r \in Requests, StoreVote(r)
  PROVE  SerialInv' /\ LifeStep
<1>0. /\ reqs[r] \in Request /\ Known(reqs[r], txps, removed)
      /\ RequestOK(reqs[r], cast, chain) /\ TypeOK
  BY DEF IInv, TypeOK, SerialInv
<1>1. PICK t, c, type, d, e, v, new :
        /\ t = reqs[r].txp /\ c = reqs[r].who /\ type = OwnVote(reqs[r]).type
        /\ d = reqs[r].doc /\ e = txps[t] /\ v = OwnVote(reqs[r])
        /\ new = IF d.status = "accepted" THEN {TxOf(t, d)} ELSE {}
  OBVIOUS
<1>2. /\ reqs[r].pc = "vote" /\ txps' = [txps EXCEPT ![t] = d]
      /\ reqs' = [reqs EXCEPT ![r] = Idle]
      /\ cast' = cast \cup {v} /\ signedTxs' = signedTxs \cup new
      /\ UNCHANGED <<removed, chain>>
  BY <1>1 DEF StoreVote, Reply
<1>3. /\ t \in Txps \ removed /\ d \in Doc /\ c \in Copayers /\ type \in VoteType
      /\ d.status \in {"pending", "accepted", "rejected"}
  BY <1>0, <1>1, <1>2 DEF Known, RequestOK, Request, OwnVote, VoteType
<1>4. e \in Doc /\ e.status = "pending" /\ d = AddAction(e, c, type)
  BY <1>0, <1>1, <1>2, <1>3 DEF Known, TypeOK
<1>5. v.txp = t /\ v.who = c /\ v.type = type
  BY <1>1 DEF OwnVote
<1>6. d.inputs = e.inputs
  BY <1>3, <1>4, AddActionInputs
<1>7. \A a \in cast' : a.txp = t => HasVote(a, d)
  <2>1. ASSUME NEW a \in cast, a.txp = t PROVE HasVote(a, d)
    <3>1. HasVote(a, e)
      BY <1>1, <1>3, <2>1 DEF SerialInv
    <3> QED
      BY <1>3, <1>4, <3>1, AddActionKeeps
  <2>2. HasVote(v, d)
    BY <1>3, <1>4, <1>5, AddActionKeeps
  <2> QED
    BY <1>2, <2>1, <2>2
<1>8. \A tx \in signedTxs : tx.txp # t
  BY <1>1, <1>3, <1>4 DEF SerialInv, Pays
<1>9. \A tx \in new : tx.txp = t /\ Pays(tx, d)
  BY <1>1 DEF Pays, TxOf
<1>10. d.status = "accepted" => TxOf(t, d) \in new
  BY <1>1
<1>11. Apart(t, d.inputs)
  <2>1. IsPending(e)
    BY <1>4 DEF IsPending
  <2> QED
    BY <1>1, <1>3, <1>6, <2>1 DEF Apart, SerialInv, InputsLockedOnce
<1>12. SerialInv'
  <2>1. \A a \in cast' : a \in cast \/ a.txp = t
    BY <1>2, <1>5
  <2>2. \A tx \in signedTxs' : tx.txp = t => Pays(tx, d)
    BY <1>2, <1>8, <1>9
  <2>3. \A tx \in signedTxs' : tx \in signedTxs \/ tx.txp = t
    BY <1>2, <1>9
  <2>4. signedTxs \subseteq signedTxs' /\ (d.status = "accepted" => TxOf(t, d) \in signedTxs')
    BY <1>2, <1>10
  <2>5. Known(Idle, txps', removed)
    BY KnownResting
  <2> QED
    BY <1>0, <1>2, <1>3, <1>7, <1>11, <2>1, <2>2, <2>3, <2>4, <2>5, SerialWrite
<1>13. LifeStep
  <2>1. /\ Stage[t] = "pending" /\ t \in Txps
        /\ Stage' = [Stage EXCEPT ![t] = d.status]
    BY <1>0, <1>1, <1>2, <1>3, <1>4, StageWrite
  <2>2. Reserves' = Reserves
    BY <1>0, <1>1, <1>2, <1>3, <1>6, StageWrite
  <2>3. CASE d.status = "pending"
    <3>1. Stage' = Stage
      BY <2>1, <2>3 DEF Stage
    <3> QED
      BY <2>2, <3>1, QuietLife
  <2>4. CASE d.status \in {"accepted", "rejected"}
    <3>1. Lifecycle!Decide(t)
      BY <2>1, <2>2, <2>4 DEF Lifecycle!Decide, Lifecycle!Move, Stage, Reserves
    <3> QED
      BY <2>1, <3>1 DEF LifeStep, Lifecycle!Next
  <2> QED
    BY <1>3, <2>3, <2>4
<1> QED
  BY <1>12, <1>13

LEMMA SerialBroadcast ==
  ASSUME OneAtATime, IInv, SerialInv, NEW r \in Requests,
         \/ BroadcastTxFetch(r) \/ BroadcastTaken(r) \/ BroadcastFailed(r)
         \/ CheckTxInBlockchain(r)
  PROVE  SerialInv' /\ LifeStep
<1>0. /\ reqs[r] \in Request /\ Known(reqs[r], txps, removed)
      /\ RequestOK(reqs[r], cast, chain) /\ TypeOK
  BY DEF IInv, TypeOK, SerialInv
<1>1. UNCHANGED <<txps, removed, cast, signedTxs>> /\ chain \subseteq signedTxs
  BY DEF SerialInv, BroadcastTxFetch, BroadcastTaken, BroadcastFailed, CheckTxInBlockchain
<1>2. ASSUME Reply(r), chain' = chain PROVE SerialInv' /\ LifeStep
  BY <1>1, <1>2, SerialRest
<1>3. ASSUME NEW pc \in {"mark", "check"}, Goto(r, pc),
             reqs[r].pc \in {"send", "check"}, chain' \subseteq signedTxs
      PROVE  SerialInv' /\ LifeStep
  <2> DEFINE q == [reqs[r] EXCEPT !.pc = pc]
  <2>1. /\ q.pc = pc /\ q.op = reqs[r].op /\ q.doc = reqs[r].doc
        /\ q.txp = reqs[r].txp /\ q.todo = reqs[r].todo
        /\ reqs' = [reqs EXCEPT ![r] = q]
    BY <1>0, <1>3 DEF Goto, Request, TypeOK
  <2> HIDE DEF q
  <2>2. Known(q, txps, removed)
    BY <1>0, <1>3, <2>1 DEF Known
  <2> QED
    BY <1>0, <1>1, <1>3, <2>1, <2>2, SerialQuiet, QuietLife
<1>4. CASE BroadcastTxFetch(r)
  <2>1. PICK d : d = txps[reqs[r].txp]
    OBVIOUS
  <2>2. CASE GotoWith(r, "send", d)
    <3> DEFINE q == [reqs[r] EXCEPT !.pc = "send", !.doc = d]
    <3>1. /\ q.pc = "send" /\ q.op = reqs[r].op /\ q.doc = d
          /\ q.txp = reqs[r].txp /\ q.todo = reqs[r].todo
          /\ reqs' = [reqs EXCEPT ![r] = q]
      BY <1>0, <2>2 DEF GotoWith, Request, TypeOK
    <3> HIDE DEF q
    <3>2. Known(q, txps, removed)
      BY <1>0, <2>1, <3>1 DEF Known
    <3>3. chain' \subseteq signedTxs
      BY <1>1, <1>4 DEF BroadcastTxFetch
    <3> QED
      BY <1>0, <1>1, <3>1, <3>2, <3>3, SerialQuiet, QuietLife
  <2> QED
    BY <1>2, <1>4, <2>1, <2>2 DEF BroadcastTxFetch
<1>5. CASE BroadcastTaken(r)
  <2>1. /\ reqs[r].pc = "send" /\ reqs[r].txp \in Txps
        /\ reqs[r].doc = txps[reqs[r].txp] /\ reqs[r].doc.status = "accepted"
    BY <1>0, <1>5 DEF BroadcastTaken, Known, RequestOK, AcceptedCopy
  <2>2. TxOf(reqs[r].txp, reqs[r].doc) \in signedTxs
    BY <2>1 DEF SerialInv
  <2>3. chain' \subseteq signedTxs
    BY <1>1, <1>5, <2>2 DEF BroadcastTaken
  <2> QED
    BY <1>3, <1>5, <2>1, <2>3 DEF BroadcastTaken
<1>6. CASE BroadcastFailed(r) \/ CheckTxInBlockchain(r)
  BY <1>1, <1>2, <1>3, <1>6 DEF BroadcastFailed, CheckTxInBlockchain
<1> QED
  BY <1>4, <1>5, <1>6

LEMMA SerialNext ==
  ASSUME OneAtATime, IInv, TaskInv, SerialInv, [Next]_vars
  PROVE  SerialInv' /\ LifeStep
<1>1. CASE \/ LeaseLapses \/ UNCHANGED vars
           \/ \E t \in Txps : Age(t)
           \/ \E tx \in signedTxs : ThirdPartyBroadcast(tx)
  BY <1>1, SerialWorld
<1>2. ASSUME NEW r \in Requests, NEW op \in AllOps, NEW c \in Copayers,
             NEW t \in Txps \cup {Nobody}, Start(r, op, c, t)
      PROVE  SerialInv' /\ LifeStep
  BY <1>2, SerialStart
<1>3. ASSUME NEW r \in Requests,
             \/ WalletBusy(r) \/ Release(r) \/ CallFails(r) \/ Crash(r)
             \/ CreateTxExisting(r) \/ (SelectTxInputs(r) /\ Finish(r))
             \/ (PublishTxFetch(r) /\ Finish(r)) \/ (CheckTxUTXOs(r) /\ Finish(r))
             \/ (RemovePendingTxFetch(r) /\ Finish(r))
      PROVE  SerialInv' /\ LifeStep
  <2>1. /\ Reply(r) \/ Finish(r)
        /\ UNCHANGED <<txps, removed, cast, signedTxs, chain>>
    BY <1>3 DEF WalletBusy, Release, CallFails, Crash, CreateTxExisting,
                SelectTxInputs, PublishTxFetch, CheckTxUTXOs, RemovePendingTxFetch
  <2> QED
    BY <2>1, SerialRest
<1>4. ASSUME NEW r \in Requests, Serve(r) PROVE SerialInv' /\ LifeStep
  <2>1. CASE Acquire(r) \/ WalletBusy(r) \/ Release(r)
    BY <1>3, <2>1, SerialMoves
  <2>2. CASE \/ GetUtxos(r) \/ FetchPendingTxs(r) \/ SweepDone(r)
             \/ \E x \in reqs[r].todo : SweepMissing(r, x)
    BY <2>2, SerialLooks
  <2>3. CASE ProcessBroadcast(r) \/ \E x \in reqs[r].todo : SweepBroadcasted(r, x)
    BY <2>3, SerialMarks
  <2>4. CASE \/ CreateTxExisting(r) \/ CreateTxWithInputs(r)
             \/ CreateTxSelecting(r) \/ SelectTxInputs(r)
    <3>1. CASE CreateTxExisting(r) \/ (SelectTxInputs(r) /\ Finish(r))
      BY <1>3, <3>1
    <3>2. CASE CreateTxWithInputs(r) \/ (SelectTxInputs(r) /\ ~Finish(r))
      BY <3>2, SerialPrepares
    <3>3. CASE CreateTxSelecting(r)
      BY <3>3, SerialMoves
    <3> QED
      BY <2>4, <3>1, <3>2, <3>3
  <2>5. CASE \/ PublishTxFetch(r) \/ CheckTxUTXOs(r)
             \/ RemovePendingTxFetch(r)
    BY <1>3, <2>5, SerialMoves, SerialPrepares
  <2>6. CASE StoreTx(r) \/ RemoveTx(r)
    BY <2>6, SerialStore, SerialRemove
  <2>7. CASE SignTxFetch(r) \/ RejectTxFetch(r) \/ StoreVote(r)
    BY <2>7, SerialVoteFetch, SerialStoreVote
  <2>8. CASE \/ BroadcastTxFetch(r) \/ BroadcastTaken(r) \/ BroadcastFailed(r)
             \/ CheckTxInBlockchain(r)
    BY <2>8, SerialBroadcast
  <2> QED
    BY <1>4, <2>1, <2>2, <2>3, <2>4, <2>5, <2>6, <2>7, <2>8 DEF Serve
<1> QED
  BY <1>1, <1>2, <1>3, <1>4 DEF Next

LEMMA SerialInit == Init => SerialInv /\ Lifecycle!Init
<1> SUFFICES ASSUME Init PROVE SerialInv /\ Lifecycle!Init
  OBVIOUS
<1>1. \A t \in Txps : ~IsPending(txps[t]) /\ txps[t].status # "accepted"
  BY DEF Init, NoTxp, IsPending
<1>2. SerialInv
  BY <1>1, KnownResting DEF Init, SerialInv, InputsLockedOnce
<1>3. Stage = [t \in Txps |-> "none"] /\ Reserves = [t \in Txps |-> {}]
  BY DEF Init, NoTxp, Stage, Reserves
<1> QED
  BY <1>2, <1>3 DEF Lifecycle!Init, Stage, Reserves

LEMMA SerialInvariant ==
  ASSUME OneAtATime
  PROVE  Spec => []SerialInv
<1>1. Init => SerialInv
  BY SerialInit
<1>2. IInv /\ TaskInv /\ SerialInv /\ [Next]_vars => SerialInv'
  BY SerialNext
<1> QED
  BY <1>1, <1>2, Invariant, TaskInvariant, PTL DEF Spec

(* Requests served one at a time take every proposal through the life it   *)
(* is meant to have, whatever fails, lapses or lags: TxProposals implements*)
(* ProposalLifecycle.                                                      *)
THEOREM ImplementsLifecycle ==
  ASSUME OneAtATime
  PROVE  Spec => FollowsLifecycle
<1>1. Init => Lifecycle!Init
  BY SerialInit
<1>2. IInv /\ TaskInv /\ SerialInv /\ [Next]_vars => [Lifecycle!Next]_<<Stage, Reserves>>
  BY SerialNext DEF LifeStep
<1> QED
  BY <1>1, <1>2, Invariant, TaskInvariant, SerialInvariant, PTL
     DEF Spec, FollowsLifecycle, Lifecycle!Spec, Stage, Reserves

-----------------------------------------------------------------------------
(***************************************************************************)
(* Served concurrently.  As long as no lock is cleared while its owner     *)
(* works, the overlaps that Undisturbed rules out, of a vote with another  *)
(* vote on the proposal or its removal and of a creation sent again with   *)
(* the removal, are the only way to lose a vote or a payment and to        *)
(* reserve an output twice.                                                *)
(***************************************************************************)

(* A local copy d of an accepted proposal t is what is stored but for the  *)
(* broadcasted mark, unless t was removed, and carries every vote on t.    *)
Settled(t, d, docs, gone, votes) ==
  /\ t \in gone \/ docs[t] = d \/ docs[t] = SetStatus(d, "broadcasted")
  /\ \A a \in votes : a.txp = t => HasVote(a, d)

(* createTx and publishTx between their first look and their store.        *)
Prepares(q) ==
  /\ q.op \in {"create", "publish"}
  /\ q.pc \in {"utxos", "pending", "sweep", "spent", "store"}

(* What a request knows, while others run.                                 *)
Learnt(q, docs, gone, votes) ==
  /\ q.op = "create" => q.txp \notin gone
  /\ q.pc = "store" => q.op \in {"create", "publish"}
  /\ q.op = "create" /\ Prepares(q) => docs[q.txp] = NoTxp
  /\ q.op = "create" /\ q.pc = "store" => q.doc.status = "temporary"
  /\ q.op = "publish" /\ Prepares(q) => docs[q.txp].status = "temporary"
  /\ q.op = "publish" /\ q.pc \in {"utxos", "pending", "sweep", "spent"} =>
       q.doc = docs[q.txp]
  /\ q.op = "publish" /\ q.pc = "store" =>
       /\ q.doc = SetStatus(docs[q.txp], "pending")
       /\ \A u \in Txps \ {q.txp} :
            IsPending(docs[u]) => q.doc.inputs \cap docs[u].inputs = {}
  /\ q.pc = "vote" =>
       /\ docs[q.txp].status = "pending"
       /\ q.doc = AddAction(docs[q.txp], q.who, OwnVote(q).type)
  /\ q.pc \in {"send", "check", "mark"} => Settled(q.txp, q.doc, docs, gone, votes)
  /\ \A x \in q.todo : Settled(x.txp, x.doc, docs, gone, votes)
  /\ Prepares(q) /\ q.pc = "sweep" =>
       \A u \in Txps : IsPending(docs[u]) =>
         Spared(u, q, docs) \/ \E x \in q.todo : x.txp = u
  /\ Prepares(q) /\ q.pc = "spent" =>
       \A u \in Txps : IsPending(docs[u]) => Spared(u, q, docs)

(* The inductive invariant: what the requests know is true, a removed      *)
(* proposal comes back only as broadcasted, and the stored proposals carry *)
(* every vote and every payment.                                           *)
SharedInv ==
  /\ \A r \in Requests : Learnt(reqs[r], txps, removed, cast)
  /\ \A t \in removed : txps[t].status \in {"none", "broadcasted"}
  /\ InputsLockedOnce
  /\ \A a \in cast : \/ a.txp \in removed /\ txps[a.txp] = NoTxp
                     \/ HasVote(a, txps[a.txp])
  /\ \A tx \in chain \cup signedTxs : tx.txp \in removed \/ Pays(tx, txps[tx.txp])

LEMMA LearntResting ==
  ASSUME NEW docs, NEW gone, NEW votes
  PROVE  /\ Learnt(Idle, docs, gone, votes)
         /\ Learnt([Idle EXCEPT !.pc = "release"], docs, gone, votes)
  BY DEF Learnt, Prepares, Idle

(* Steps that store no proposal.                                           *)
LEMMA SharedQuiet ==
  ASSUME TypeOK, SharedInv, NEW r \in Requests, NEW q,
         reqs' = [reqs EXCEPT ![r] = q],
         UNCHANGED <<txps, removed, cast, signedTxs>>,
         \A tx \in chain' :
           tx \in chain \/ tx.txp \in removed \/ Pays(tx, txps[tx.txp]),
         Learnt(q, txps, removed, cast)
  PROVE  SharedInv'
<1>1. /\ reqs'[r] = q
      /\ \A s \in Requests : s # r => reqs'[s] = reqs[s]
  BY DEF TypeOK
<1>2. \A s \in Requests : Learnt(reqs'[s], txps', removed', cast')
  BY <1>1 DEF SharedInv
<1>3. InputsLockedOnce'
  BY DEF SharedInv, InputsLockedOnce
<1> QED
  BY <1>2, <1>3 DEF SharedInv

LEMMA SharedResting ==
  ASSUME TypeOK, SharedInv, NEW r \in Requests,
         Reply(r) \/ Finish(r),
         UNCHANGED <<txps, removed, cast, signedTxs, chain>>
  PROVE  SharedInv'
  BY LearntResting, SharedQuiet DEF Reply, Finish

(* A request that stores nothing loses what it knows only to a write of    *)
(* its own proposal, or to one that makes another proposal pending.        *)
LEMMA LearntKept ==
  ASSUME NEW q, NEW t \in Txps, NEW d, NEW gone, NEW more \in {gone, gone \cup {t}},
         NEW votes, NEW cast2, txps \in [Txps -> Doc],
         Learnt(q, txps, gone, votes),
         q.op # "list" => q.txp \in Txps,
         q.pc \in {"vote", "send", "check", "mark"} => q.op # "list",
         \A x \in q.todo : x.txp \in Txps,
         \A a \in cast2 : a \in votes \/ a.txp = t,
         q.op = "create" => q.txp \notin more,
         Prepares(q) => /\ q.txp # t
                        /\ IsPending(d) => /\ IsPending(txps[t])
                                           /\ d.inputs = txps[t].inputs,
         q.pc = "vote" => q.txp # t,
         q.pc \in {"send", "check", "mark"} /\ q.txp = t =>
           Settled(t, q.doc, [txps EXCEPT ![t] = d], more, cast2),
         \A x \in q.todo : x.txp = t =>
           Settled(t, x.doc, [txps EXCEPT ![t] = d], more, cast2)
  PROVE  Learnt(q, [txps EXCEPT ![t] = d], more, cast2)
<1>1. PICK docs : docs = [txps EXCEPT ![t] = d]
  OBVIOUS
<1>2. /\ docs[t] = d
      /\ \A u \in Txps : u # t => docs[u] = txps[u]
  BY <1>1
<1>3. ASSUME NEW u \in Txps, NEW e, u # t, Settled(u, e, txps, gone, votes)
      PROVE  Settled(u, e, docs, more, cast2)
  BY <1>2, <1>3 DEF Settled
<1>4. ASSUME Prepares(q), NEW u \in Txps, IsPending(docs[u])
      PROVE  IsPending(txps[u]) /\ docs[u].inputs = txps[u].inputs
  BY <1>2, <1>4
<1>5. Prepares(q) => q.txp \in Txps /\ docs[q.txp] = txps[q.txp]
  BY <1>2 DEF Prepares
<1>6. q.op = "publish" /\ q.pc = "store" =>
        /\ q.doc = SetStatus(docs[q.txp], "pending")
        /\ \A u \in Txps \ {q.txp} :
             IsPending(docs[u]) => q.doc.inputs \cap docs[u].inputs = {}
  BY <1>4, <1>5 DEF Learnt, Prepares
<1>7. q.pc = "vote" =>
        /\ docs[q.txp].status = "pending"
        /\ q.doc = AddAction(docs[q.txp], q.who, OwnVote(q).type)
  BY <1>2 DEF Learnt
<1>8. q.pc \in {"send", "check", "mark"} => Settled(q.txp, q.doc, docs, more, cast2)
  BY <1>1, <1>3 DEF Learnt
<1>9. \A x \in q.todo : Settled(x.txp, x.doc, docs, more, cast2)
  BY <1>1, <1>3 DEF Learnt
<1>10. Prepares(q) /\ q.pc = "sweep" =>
         \A u \in Txps : IsPending(docs[u]) =>
           Spared(u, q, docs) \/ \E x \in q.todo : x.txp = u
  BY <1>4 DEF Learnt, Spared
<1>11. Prepares(q) /\ q.pc = "spent" =>
         \A u \in Txps : IsPending(docs[u]) => Spared(u, q, docs)
  BY <1>4 DEF Learnt, Spared
<1>12. /\ q.pc = "store" => q.op \in {"create", "publish"}
       /\ q.op = "create" /\ Prepares(q) => docs[q.txp] = NoTxp
       /\ q.op = "create" /\ q.pc = "store" => q.doc.status = "temporary"
       /\ q.op = "publish" /\ Prepares(q) => docs[q.txp].status = "temporary"
       /\ q.op = "publish" /\ q.pc \in {"utxos", "pending", "sweep", "spent"} =>
            q.doc = docs[q.txp]
  BY <1>5 DEF Learnt, Prepares
<1> QED
  BY <1>1, <1>6, <1>7, <1>8, <1>9, <1>10, <1>11, <1>12 DEF Learnt

(* A document d is stored for t. *)
LEMMA SharedWrite ==
  ASSUME TypeOK, SharedInv, NEW r \in Requests, NEW q, NEW t \in Txps, NEW d,
         reqs' = [reqs EXCEPT ![r] = q],
         txps' = [txps EXCEPT ![t] = d],
         removed' \in {removed, removed \cup {t}},
         chain' = chain,
         Learnt(q, txps', removed', cast'),
         \A s \in Requests \ {r} : Learnt(reqs[s], txps', removed', cast'),
         t \in removed' => d.status \in {"none", "broadcasted"},
         IsPending(d) => Apart(t, d.inputs),
         \A a \in cast' : a.txp = t => (t \in removed' /\ d = NoTxp) \/ HasVote(a, d),
         \A a \in cast' : a \in cast \/ a.txp = t,
         \A tx \in chain \cup signedTxs' : tx.txp = t => t \in removed' \/ Pays(tx, d),
         \A tx \in signedTxs' : tx \in signedTxs \/ tx.txp = t
  PROVE  SharedInv'
<1>1. /\ reqs'[r] = q
      /\ \A s \in Requests : s # r => reqs'[s] = reqs[s]
  BY DEF TypeOK
<1>2. /\ txps'[t] = d
      /\ \A u \in Txps : u # t => txps'[u] = txps[u]
  BY DEF TypeOK
<1>3. \A s \in Requests : Learnt(reqs'[s], txps', removed', cast')
  BY <1>1
<1>4. \A u \in removed' : txps'[u].status \in {"none", "broadcasted"}
  BY <1>2 DEF SharedInv, TypeOK
<1>5. InputsLockedOnce'
  <2> SUFFICES ASSUME NEW u \in Txps, NEW v \in Txps, u # v,
                      IsPending(txps'[u]), IsPending(txps'[v])
               PROVE  txps'[u].inputs \cap txps'[v].inputs = {}
    BY DEF InputsLockedOnce
  <2>1. CASE u = t
    BY <1>2, <2>1 DEF Apart
  <2>2. CASE v = t
    BY <1>2, <2>2 DEF Apart
  <2>3. CASE u # t /\ v # t
    BY <1>2, <2>3 DEF SharedInv, InputsLockedOnce
  <2> QED
    BY <2>1, <2>2, <2>3
<1>6. ASSUME NEW a \in cast'
      PROVE  \/ a.txp \in removed' /\ txps'[a.txp] = NoTxp
             \/ HasVote(a, txps'[a.txp])
  <2>1. CASE a.txp = t
    BY <1>2, <2>1
  <2>2. CASE a.txp # t
    <3>1. a \in cast /\ a.txp \in Txps
      BY <2>2 DEF TypeOK
    <3> QED
      BY <1>2, <2>2, <3>1 DEF SharedInv
  <2> QED
    BY <2>1, <2>2
<1>7. ASSUME NEW tx \in chain' \cup signedTxs'
      PROVE  tx.txp \in removed' \/ Pays(tx, txps'[tx.txp])
  <2>1. CASE tx.txp = t
    BY <1>2, <2>1
  <2>2. CASE tx.txp # t
    <3>1. tx \in chain \cup signedTxs /\ tx.txp \in Txps
      BY <2>2 DEF TypeOK, Tx
    <3> QED
      BY <1>2, <2>2, <3>1 DEF SharedInv
  <2> QED
    BY <2>1, <2>2
<1> QED
  BY <1>3, <1>4, <1>5, <1>6, <1>7 DEF SharedInv

----------------------------------------------------------------------------
(* Steps of the world, of the lock, and the start of a request. *)

LEMMA SharedWorld ==
  ASSUME IInv, SharedInv,
         \/ LeaseLapses \/ UNCHANGED vars
         \/ \E t \in Txps : Age(t)
         \/ \E tx \in signedTxs : ThirdPartyBroadcast(tx)
  PROVE  SharedInv'
<1>1. /\ UNCHANGED <<txps, reqs, removed, cast, signedTxs>>
      /\ chain' \subseteq chain \cup signedTxs
  BY DEF LeaseLapses, Age, ThirdPartyBroadcast, vars
<1> QED
  BY <1>1 DEF SharedInv, InputsLockedOnce

LEMMA SharedStart ==
  ASSUME IInv, SharedInv, NEW r \in Requests, NEW op \in AllOps,
         NEW c \in Copayers, NEW t \in Txps \cup {Nobody}, Start(r, op, c, t)
  PROVE  SharedInv'
<1> DEFINE pc == CASE op \in LockedOps -> "acquire"
                   [] op = "list"      -> "pending"
                   [] OTHER            -> "read"
           who == IF op \in {"list", "publish", "broadcast"} THEN Nobody ELSE c
           q == [Idle EXCEPT !.pc = pc, !.op = op, !.txp = t, !.who = who]
<1>1. /\ reqs' = [reqs EXCEPT ![r] = q] /\ TypeOK
      /\ UNCHANGED <<txps, removed, cast, signedTxs, chain>>
  BY DEF Start, IInv
<1>2. /\ op \in LockedOps => pc = "acquire"
      /\ op = "list" => pc = "pending"
      /\ op \notin LockedOps /\ op # "list" => pc = "read"
  BY DEF LockedOps
<1> HIDE DEF pc, who
<1>3. q.pc = pc /\ q.op = op /\ q.txp = t /\ q.todo = {}
  BY DEF Idle
<1> HIDE DEF q
<1>4. op = "create" => t \notin removed
  BY DEF Start
<1>5. Learnt(q, txps, removed, cast)
  BY <1>2, <1>3, <1>4 DEF Learnt, Prepares, LockedOps
<1> QED
  BY <1>1, <1>5, SharedQuiet

(* A request that moves on. *)
LEMMA SharedMoves ==
  ASSUME IInv, SharedInv, NEW r \in Requests,
         \/ Acquire(r) \/ CreateTxSelecting(r)
         \/ (RemovePendingTxFetch(r) /\ ~Finish(r))
  PROVE  SharedInv'
<1>1. /\ TypeOK /\ Learnt(reqs[r], txps, removed, cast)
      /\ UNCHANGED <<txps, removed, cast, signedTxs, chain>>
  BY DEF IInv, SharedInv, Acquire, CreateTxSelecting, RemovePendingTxFetch
<1>2. PICK pc \in {"read", "utxos", "delete"} :
        /\ Goto(r, pc) /\ reqs[r].pc \in {"acquire", "read"}
        /\ pc = "utxos" => reqs[r].op = "create" /\ txps[reqs[r].txp] = NoTxp
  BY DEF Acquire, CreateTxSelecting, RemovePendingTxFetch
<1> DEFINE q == [reqs[r] EXCEPT !.pc = pc]
<1>3. /\ reqs' = [reqs EXCEPT ![r] = q]
      /\ q.pc = pc /\ q.op = reqs[r].op /\ q.txp = reqs[r].txp
      /\ q.todo = reqs[r].todo
  BY <1>1, <1>2 DEF Goto, TypeOK, Request
<1> HIDE DEF q
<1>4. Learnt(q, txps, removed, cast)
  BY <1>1, <1>2, <1>3 DEF Learnt, Prepares
<1> QED
  BY <1>1, <1>3, <1>4, SharedQuiet

(* getUtxosForCurrentWallet and getPendingTxs. *)
LEMMA SharedLooks ==
  ASSUME IInv, TaskInv, SharedInv, NEW r \in Requests,
         \/ GetUtxos(r) \/ FetchPendingTxs(r) \/ SweepDone(r)
         \/ \E x \in reqs[r].todo : SweepMissing(r, x)
  PROVE  SharedInv'
<1>0. /\ reqs[r] \in Request /\ Learnt(reqs[r], txps, removed, cast)
      /\ TypeOK /\ TaskOK(reqs[r])
  BY DEF IInv, TypeOK, SharedInv, TaskInv
<1>1. UNCHANGED <<txps, removed, cast, signedTxs, chain>>
  BY DEF GetUtxos, FetchPendingTxs, SweepDone, SweepMissing
<1>2. ASSUME NEW q, reqs' = [reqs EXCEPT ![r] = q], Learnt(q, txps, removed, cast)
      PROVE  SharedInv'
  BY <1>0, <1>1, <1>2, SharedQuiet
<1>3. CASE GetUtxos(r)
  <2>1. PICK found \in SUBSET Inputs, pc \in {"spent", "pending"} :
          /\ reqs' = [reqs EXCEPT ![r].pc = pc, ![r].utxos = found]
          /\ pc = "spent" => found = {}
    BY <1>3 DEF GetUtxos
  <2> DEFINE q == [reqs[r] EXCEPT !.pc = pc, !.utxos = found]
  <2>2. /\ q.pc = pc /\ q.op = reqs[r].op /\ q.utxos = found
        /\ q.txp = reqs[r].txp /\ q.doc = reqs[r].doc /\ q.todo = reqs[r].todo
        /\ reqs' = [reqs EXCEPT ![r] = q]
    BY <1>0, <2>1 DEF Request, TypeOK
  <2> HIDE DEF q
  <2>3. reqs[r].pc = "utxos"
    BY <1>3 DEF GetUtxos
  <2>4. pc = "spent" => \A u : Spared(u, q, txps)
    BY <2>1, <2>2 DEF Spared
  <2>5. Learnt(q, txps, removed, cast)
    BY <1>0, <2>2, <2>3, <2>4 DEF Learnt, Prepares
  <2> QED
    BY <1>2, <2>2, <2>5
<1>4. CASE FetchPendingTxs(r)
  <2> DEFINE pend == {t \in Txps : IsPending(txps[t])}
             acc == {t \in pend : txps[t].status = "accepted"}
             todo == {[txp |-> t, doc |-> txps[t]] : t \in acc}
             held == UNION {txps[t].inputs : t \in pend \ acc}
             q == [reqs[r] EXCEPT !.pc = "sweep", !.todo = todo, !.held = held]
  <2>1. \A u \in Txps : IsPending(txps[u]) =>
          txps[u].inputs \subseteq held \/ \E x \in todo : x.txp = u
    <3>1. ASSUME NEW u \in Txps, IsPending(txps[u]), txps[u].status = "accepted"
          PROVE  \E x \in todo : x.txp = u
      <4>1. [txp |-> u, doc |-> txps[u]] \in todo
        BY <3>1
      <4> QED
        BY <4>1
    <3>2. ASSUME NEW u \in Txps, IsPending(txps[u]), txps[u].status # "accepted"
          PROVE  txps[u].inputs \subseteq held
      BY <3>2
    <3> QED
      BY <3>1, <3>2
  <2>2. ASSUME NEW x \in todo PROVE Settled(x.txp, x.doc, txps, removed, cast)
    <3>1. PICK t \in acc : x = [txp |-> t, doc |-> txps[t]]
      BY <2>2
    <3>2. \A a \in cast : a.txp = t => HasVote(a, txps[t])
      BY <3>1, NothingVoted DEF SharedInv, NoTxp
    <3> QED
      BY <3>1, <3>2 DEF Settled
  <2>3. reqs' = [reqs EXCEPT ![r].pc = "sweep", ![r].todo = todo, ![r].held = held]
    BY <1>4 DEF FetchPendingTxs
  <2> HIDE DEF todo, held
  <2>4. /\ q.pc = "sweep" /\ q.op = reqs[r].op /\ q.held = held /\ q.todo = todo
        /\ q.txp = reqs[r].txp /\ q.doc = reqs[r].doc
        /\ reqs' = [reqs EXCEPT ![r] = q]
    BY <1>0, <2>3 DEF Request, TypeOK
  <2> HIDE DEF q
  <2>5. \A u \in Txps : IsPending(txps[u]) =>
          Spared(u, q, txps) \/ \E x \in q.todo : x.txp = u
    BY <2>1, <2>4 DEF Spared
  <2>6. reqs[r].pc = "pending"
    BY <1>4 DEF FetchPendingTxs
  <2>7. Learnt(q, txps, removed, cast)
    BY <1>0, <2>2, <2>4, <2>5, <2>6 DEF Learnt, Prepares
  <2> QED
    BY <1>2, <2>4, <2>7
<1>5. CASE SweepDone(r)
  <2>1. CASE Reply(r)
    BY <1>0, <1>1, <2>1, SharedResting
  <2>2. CASE reqs[r].op # "list" /\ Goto(r, "spent")
    <3> DEFINE q == [reqs[r] EXCEPT !.pc = "spent"]
    <3>1. /\ q.pc = "spent" /\ q.op = reqs[r].op /\ q.held = reqs[r].held
          /\ q.utxos = reqs[r].utxos /\ q.todo = reqs[r].todo
          /\ q.txp = reqs[r].txp /\ q.doc = reqs[r].doc
          /\ reqs' = [reqs EXCEPT ![r] = q]
      BY <1>0, <2>2 DEF Goto, Request, TypeOK
    <3> HIDE DEF q
    <3>2. reqs[r].pc = "sweep" /\ reqs[r].todo = {}
      BY <1>5 DEF SweepDone
    <3>3. Prepares(q) => \A u \in Txps : IsPending(txps[u]) => Spared(u, q, txps)
      BY <1>0, <3>1, <3>2 DEF Learnt, Spared, Prepares
    <3>4. Learnt(q, txps, removed, cast)
      BY <1>0, <3>1, <3>2, <3>3 DEF Learnt, Prepares
    <3> QED
      BY <1>2, <3>1, <3>4
  <2> QED
    BY <1>5, <2>1, <2>2 DEF SweepDone
<1>6. ASSUME NEW x \in reqs[r].todo, SweepMissing(r, x)
      PROVE  SharedInv'
  <2> DEFINE q == [reqs[r] EXCEPT !.todo = @ \ {x}, !.held = @ \cup x.doc.inputs]
  <2>1. /\ q.pc = reqs[r].pc /\ q.op = reqs[r].op
        /\ q.held = reqs[r].held \cup x.doc.inputs
        /\ q.utxos = reqs[r].utxos /\ q.todo = reqs[r].todo \ {x}
        /\ q.txp = reqs[r].txp /\ q.doc = reqs[r].doc
        /\ reqs' = [reqs EXCEPT ![r] = q]
    BY <1>0, <1>6 DEF SweepMissing, Request, TypeOK
  <2> HIDE DEF q
  <2>2. reqs[r].pc = "sweep" /\ Settled(x.txp, x.doc, txps, removed, cast)
    BY <1>0, <1>6 DEF SweepMissing, Learnt
  <2>3. ASSUME Prepares(reqs[r]), NEW u \in Txps, IsPending(txps[u])
        PROVE  Spared(u, q, txps) \/ \E y \in q.todo : y.txp = u
    <3>1. CASE Spared(u, reqs[r], txps)
      BY <2>1, <3>1 DEF Spared
    <3>2. CASE x.txp = u
      <4>1. u \notin removed
        BY <2>3 DEF SharedInv, IsPending
      <4>2. txps[u] = x.doc
        <5>1. SetStatus(x.doc, "broadcasted").status = "broadcasted"
          BY <1>0, SetStatusType DEF Request, Copy, Status
        <5> QED
          BY <2>2, <2>3, <3>2, <4>1, <5>1 DEF Settled, IsPending
      <4> QED
        BY <2>1, <4>2 DEF Spared
    <3>3. CASE \E y \in reqs[r].todo : y.txp = u /\ y # x
      BY <2>1, <3>3
    <3> QED
      BY <1>0, <2>2, <2>3, <3>1, <3>2, <3>3 DEF Learnt
  <2>4. Learnt(q, txps, removed, cast)
    BY <1>0, <2>1, <2>2, <2>3 DEF Learnt, Prepares
  <2> QED
    BY <1>2, <2>1, <2>4
<1> QED
  BY <1>3, <1>4, <1>5, <1>6

(* createTx, publishTx up to the write. *)
LEMMA SharedPrepares ==
  ASSUME IInv, SharedInv, NEW r \in Requests,
         \/ CreateTxWithInputs(r) \/ (SelectTxInputs(r) /\ ~Finish(r))
         \/ (PublishTxFetch(r) /\ ~Finish(r)) \/ (CheckTxUTXOs(r) /\ ~Finish(r))
  PROVE  SharedInv'
<1>0. reqs[r] \in Request /\ Learnt(reqs[r], txps, removed, cast) /\ TypeOK
  BY DEF IInv, TypeOK, SharedInv
<1>1. UNCHANGED <<txps, removed, cast, signedTxs, chain>>
  BY DEF CreateTxWithInputs, SelectTxInputs, PublishTxFetch, CheckTxUTXOs
<1>2. ASSUME NEW q, reqs' = [reqs EXCEPT ![r] = q], Learnt(q, txps, removed, cast)
      PROVE  SharedInv'
  BY <1>0, <1>1, <1>2, SharedQuiet
<1>3. CASE CreateTxWithInputs(r)
  <2>1. PICK ins : GotoWith(r, "store", NewTxp(reqs[r].who, ins))
    BY <1>3 DEF CreateTxWithInputs
  <2>2. PICK d : d = NewTxp(reqs[r].who, ins)
    OBVIOUS
  <2> DEFINE q == [reqs[r] EXCEPT !.pc = "store", !.doc = d]
  <2>3. /\ q.pc = "store" /\ q.op = reqs[r].op /\ q.doc = d
        /\ q.txp = reqs[r].txp /\ q.todo = reqs[r].todo
        /\ reqs' = [reqs EXCEPT ![r] = q]
    BY <1>0, <2>1, <2>2 DEF GotoWith, Request, TypeOK
  <2> HIDE DEF q
  <2>4. reqs[r].op = "create" /\ txps[reqs[r].txp] = NoTxp /\ d.status = "temporary"
    BY <1>3, <2>2 DEF CreateTxWithInputs, NewTxp
  <2>5. Learnt(q, txps, removed, cast)
    BY <1>0, <2>3, <2>4 DEF Learnt, Prepares
  <2> QED
    BY <1>2, <2>3, <2>5
<1>4. CASE SelectTxInputs(r) /\ ~Finish(r)
  <2>1. PICK ins : reqs' = [reqs EXCEPT ![r] = [@ EXCEPT !.pc = "store",
                     !.doc = NewTxp(reqs[r].who, ins), !.utxos = {}, !.held = {}]]
    BY <1>4 DEF SelectTxInputs
  <2>2. PICK d : d = NewTxp(reqs[r].who, ins)
    OBVIOUS
  <2> DEFINE q == [reqs[r] EXCEPT !.pc = "store", !.doc = d, !.utxos = {}, !.held = {}]
  <2>3. /\ q.pc = "store" /\ q.op = reqs[r].op /\ q.doc = d
        /\ q.txp = reqs[r].txp /\ q.todo = reqs[r].todo
        /\ reqs' = [reqs EXCEPT ![r] = q]
    BY <1>0, <2>1, <2>2 DEF Request, TypeOK
  <2> HIDE DEF q
  <2>4. /\ reqs[r].op = "create" /\ reqs[r].pc = "spent"
        /\ d.status = "temporary"
    BY <1>4, <2>2 DEF SelectTxInputs, NewTxp
  <2>5. Learnt(q, txps, removed, cast)
    BY <1>0, <2>3, <2>4 DEF Learnt, Prepares
  <2> QED
    BY <1>2, <2>3, <2>5
<1>5. CASE PublishTxFetch(r) /\ ~Finish(r)
  <2>1. PICK d : d = txps[reqs[r].txp]
    OBVIOUS
  <2>2. d.status = "temporary" /\ GotoWith(r, "utxos", d)
    BY <1>5, <2>1 DEF PublishTxFetch
  <2> DEFINE q == [reqs[r] EXCEPT !.pc = "utxos", !.doc = d]
  <2>3. /\ q.pc = "utxos" /\ q.op = reqs[r].op /\ q.doc = d
        /\ q.txp = reqs[r].txp /\ q.todo = reqs[r].todo
        /\ reqs' = [reqs EXCEPT ![r] = q]
    BY <1>0, <2>2 DEF GotoWith, Request, TypeOK
  <2> HIDE DEF q
  <2>4. reqs[r].op = "publish"
    BY <1>5 DEF PublishTxFetch
  <2>5. Learnt(q, txps, removed, cast)
    BY <1>0, <2>1, <2>2, <2>3, <2>4 DEF Learnt, Prepares
  <2> QED
    BY <1>2, <2>3, <2>5
<1>6. CASE CheckTxUTXOs(r) /\ ~Finish(r)
  <2>1. PICK d : d = SetStatus(reqs[r].doc, "pending")
    OBVIOUS
  <2>2. /\ reqs[r].doc.inputs \subseteq Available(r)
        /\ reqs' = [reqs EXCEPT ![r] = [@ EXCEPT !.pc = "store",
                      !.doc = d, !.utxos = {}, !.held = {}]]
    BY <1>6, <2>1 DEF CheckTxUTXOs
  <2> DEFINE q == [reqs[r] EXCEPT !.pc = "store", !.doc = d, !.utxos = {}, !.held = {}]
  <2>3. /\ q.pc = "store" /\ q.op = reqs[r].op /\ q.doc = d
        /\ q.txp = reqs[r].txp /\ q.todo = reqs[r].todo
        /\ reqs' = [reqs EXCEPT ![r] = q]
    BY <1>0, <2>2 DEF Request, TypeOK
  <2> HIDE DEF q
  <2>4. /\ reqs[r].op = "publish" /\ reqs[r].pc = "spent" /\ Prepares(reqs[r])
        /\ reqs[r].doc = txps[reqs[r].txp] /\ txps[reqs[r].txp].status = "temporary"
    BY <1>0, <1>6 DEF CheckTxUTXOs, Learnt, Prepares
  <2>5. d.inputs = reqs[r].doc.inputs
    BY <1>0, <2>1, SetStatusType DEF Request, Status
  <2>6. \A u \in Txps : IsPending(txps[u]) => d.inputs \cap txps[u].inputs = {}
    BY <1>0, <2>2, <2>4, <2>5 DEF Learnt, Spared, Available
  <2>7. Learnt(q, txps, removed, cast)
    BY <1>0, <2>1, <2>3, <2>4, <2>6 DEF Learnt, Prepares
  <2> QED
    BY <1>2, <2>3, <2>7
<1> QED
  BY <1>3, <1>4, <1>5, <1>6

----------------------------------------------------------------------------
(* Steps that store a proposal. *)

(* What the invariants say of the types of what request s holds.           *)
LEMMA HeldTypes ==
  ASSUME IInv, NEW s \in Requests
  PROVE  /\ reqs[s] \in Request /\ RequestOK(reqs[s], cast, chain)
         /\ reqs[s].op # "list" => reqs[s].txp \in Txps
         /\ reqs[s].pc \in {"vote", "send", "check", "mark"} => reqs[s].op # "list"
         /\ reqs[s].pc \in {"send", "check", "mark"} => reqs[s].doc.status = "accepted"
         /\ \A x \in reqs[s].todo : x \in Copy /\ x.doc.status = "accepted"
<1>1. reqs[s] \in Request /\ RequestOK(reqs[s], cast, chain)
  BY DEF IInv, TypeOK
<1> QED
  BY <1>1 DEF Request, RequestOK, AcceptedCopy

(* While one request is in a task of the lock no other prepares.           *)
LEMMA OnePrepares ==
  ASSUME ~MayLapse, TaskInv, NEW r \in Requests, NEW s \in Requests, r # s,
         Task(reqs[r])
  PROVE  ~Prepares(reqs[s])
<1>1. ~Task(reqs[s])
  BY DEF TaskInv
<1> QED
  BY <1>1 DEF Task, Prepares, LockedOps

(* A copy of an accepted proposal t shows that t was removed or that it is *)
(* accepted or broadcasted.                                                *)
LEMMA SettledStatus ==
  ASSUME NEW t, NEW e \in Doc, NEW docs, NEW gone, NEW votes,
         e.status = "accepted", Settled(t, e, docs, gone, votes)
  PROVE  t \in gone \/ docs[t].status \in {"accepted", "broadcasted"}
  BY SetStatusType DEF Settled, Status

(* Where the stored proposal t is neither, nobody has such a copy.         *)
LEMMA NoCopies ==
  ASSUME IInv, SharedInv, NEW s \in Requests, NEW t \in Txps, t \notin removed,
         txps[t].status \notin {"accepted", "broadcasted"}
  PROVE  /\ reqs[s].pc \in {"send", "check", "mark"} => reqs[s].txp # t
         /\ \A x \in reqs[s].todo : x.txp # t
<1>1. Learnt(reqs[s], txps, removed, cast)
  BY DEF SharedInv
<1> QED
  BY <1>1, HeldTypes, SettledStatus DEF Learnt, Request, Copy

(* storeTx of createTx and publishTx. *)
LEMMA SharedStore ==
  ASSUME ~MayLapse, IInv, TaskInv, SharedInv, NEW r \in Requests, StoreTx(r)
  PROVE  SharedInv'
<1>0. /\ reqs[r] \in Request /\ Learnt(reqs[r], txps, removed, cast)
      /\ RequestOK(reqs[r], cast, chain) /\ TaskOK(reqs[r]) /\ TypeOK
  BY DEF IInv, TypeOK, SharedInv, TaskInv
<1>1. PICK t, d, e, q : /\ t = reqs[r].txp /\ d = reqs[r].doc /\ e = txps[t]
                        /\ q = [Idle EXCEPT !.pc = "release"]
  OBVIOUS
<1>2. /\ reqs[r].pc = "store" /\ txps' = [txps EXCEPT ![t] = d]
      /\ reqs' = [reqs EXCEPT ![r] = q]
      /\ UNCHANGED <<removed, chain, cast, signedTxs>>
  BY <1>1 DEF StoreTx, Finish
<1>3. /\ t \in Txps /\ d \in Doc /\ e \in Doc
      /\ reqs[r].op \in {"create", "publish"} /\ Prepares(reqs[r])
  BY <1>0, <1>1, <1>2 DEF Learnt, RequestOK, Request, Prepares, TypeOK
<1>4. Task(reqs[r])
  BY <1>2, <1>3 DEF Task, LockedOps
<1>5. t \notin removed /\ e.status \in {"none", "temporary"}
  BY <1>0, <1>1, <1>3 DEF Learnt, NoTxp, SharedInv
<1>6. /\ d.status \in {"temporary", "pending"}
      /\ IsPending(d) => Apart(t, d.inputs)
      /\ \A a \in cast : a.txp = t => HasVote(a, d)
  <2>1. CASE reqs[r].op = "create"
    <3>1. e = NoTxp /\ d.status = "temporary"
      BY <1>0, <1>1, <1>2, <1>3, <2>1 DEF Learnt
    <3> QED
      BY <1>1, <1>5, <3>1, NothingVoted DEF IsPending, SharedInv
  <2>2. CASE reqs[r].op = "publish"
    <3>1. /\ d = SetStatus(e, "pending") /\ e.status = "temporary"
          /\ Apart(t, d.inputs)
      BY <1>0, <1>1, <1>2, <1>3, <2>2 DEF Learnt, Apart
    <3>2. d.status = "pending" /\ d.actions = e.actions
      BY <1>3, <3>1, SetStatusType DEF Status
    <3>3. \A a \in cast : a.txp = t => HasVote(a, e)
      BY <1>1, <1>5 DEF SharedInv
    <3> QED
      BY <3>1, <3>2, <3>3, SameHasVote
  <2> QED
    BY <1>3, <2>1, <2>2
<1>7. \A tx \in chain \cup signedTxs : tx.txp # t
  BY <1>1, <1>5 DEF SharedInv, Pays
<1>8. ASSUME NEW s \in Requests \ {r}
      PROVE  Learnt(reqs[s], txps', removed', cast')
  <2>1. ~Prepares(reqs[s])
    BY <1>4, <1>8, OnePrepares
  <2>2. Learnt(reqs[s], txps, removed, cast)
    BY DEF SharedInv
  <2>3. reqs[s].pc = "vote" => reqs[s].txp # t
    BY <1>1, <1>5, <2>2 DEF Learnt
  <2>4. /\ reqs[s].pc \in {"send", "check", "mark"} => reqs[s].txp # t
        /\ \A x \in reqs[s].todo : x.txp # t
    BY <1>1, <1>3, <1>5, NoCopies
  <2>5. reqs[s].op = "create" => reqs[s].txp \notin removed
    BY <2>2 DEF Learnt
  <2>6. \A x \in reqs[s].todo : x.txp \in Txps
    BY HeldTypes DEF Copy
  <2>7. txps \in [Txps -> Doc]
    BY <1>0 DEF TypeOK
  <2>8. Learnt(reqs[s], [txps EXCEPT ![t] = d], removed, cast)
    BY <1>3, <2>1, <2>2, <2>3, <2>4, <2>5, <2>6, <2>7, HeldTypes, LearntKept
  <2> QED
    BY <1>2, <2>8
<1>9. Learnt(q, txps', removed', cast')
  BY <1>1, LearntResting
<1> QED
  BY <1>0, <1>2, <1>3, <1>5, <1>6, <1>7, <1>8, <1>9, SharedWrite

(* removeTx. *)
LEMMA SharedRemove ==
  ASSUME ~MayLapse, Undisturbed, IInv, TaskInv, SharedInv, NEW r \in Requests,
         RemoveTx(r)
  PROVE  SharedInv'
<1>0. /\ reqs[r] \in Request /\ RequestOK(reqs[r], cast, chain)
      /\ TaskOK(reqs[r]) /\ TypeOK
  BY DEF IInv, TypeOK, TaskInv
<1>1. PICK t, q : t = reqs[r].txp /\ q = [Idle EXCEPT !.pc = "release"]
  OBVIOUS
<1>2. /\ reqs[r].pc = "delete" /\ txps' = [txps EXCEPT ![t] = NoTxp]
      /\ removed' = removed \cup {t}
      /\ reqs' = [reqs EXCEPT ![r] = q]
      /\ UNCHANGED <<chain, cast, signedTxs>>
  BY <1>1 DEF RemoveTx, Finish
<1>3. t \in Txps /\ Task(reqs[r])
  BY <1>0, <1>1, <1>2 DEF RequestOK, TaskOK, LockedOps, Task
<1>4. NoTxp.status = "none" /\ ~IsPending(NoTxp)
  BY DEF NoTxp, IsPending
<1>5. ASSUME NEW s \in Requests \ {r}
      PROVE  Learnt(reqs[s], txps', removed', cast')
  <2>1. ~Prepares(reqs[s])
    BY <1>3, <1>5, OnePrepares
  <2>2. Learnt(reqs[s], txps, removed, cast)
    BY DEF SharedInv
  <2>3. reqs[s].op # "list" /\ reqs[s].txp = t =>
          reqs[s].pc # "vote" /\ reqs[s].op # "create"
    BY <1>1, <1>2, <1>5 DEF Undisturbed
  <2>4. /\ reqs[s].pc = "vote" => reqs[s].txp # t
        /\ reqs[s].op = "create" => reqs[s].txp \notin removed \cup {t}
    BY <2>2, <2>3, HeldTypes DEF Learnt
  <2>5. ASSUME NEW e, Settled(t, e, txps, removed, cast)
        PROVE  Settled(t, e, [txps EXCEPT ![t] = NoTxp], removed \cup {t}, cast)
    BY <2>5 DEF Settled
  <2>6. /\ reqs[s].pc \in {"send", "check", "mark"} /\ reqs[s].txp = t =>
             Settled(t, reqs[s].doc, [txps EXCEPT ![t] = NoTxp], removed \cup {t}, cast)
        /\ \A x \in reqs[s].todo : x.txp = t =>
             Settled(t, x.doc, [txps EXCEPT ![t] = NoTxp], removed \cup {t}, cast)
    BY <2>2, <2>5 DEF Learnt
  <2>7. \A x \in reqs[s].todo : x.txp \in Txps
    BY HeldTypes DEF Copy
  <2>8. txps \in [Txps -> Doc]
    BY <1>0 DEF TypeOK
  <2>9. Learnt(reqs[s], [txps EXCEPT ![t] = NoTxp], removed \cup {t}, cast)
    BY <1>3, <2>1, <2>2, <2>4, <2>6, <2>7, <2>8, HeldTypes, LearntKept
  <2> QED
    BY <1>2, <2>9
<1>6. Learnt(q, txps', removed', cast')
  BY <1>1, LearntResting
<1> QED
  BY <1>0, <1>2, <1>3, <1>4, <1>5, <1>6, SharedWrite

(* An accepted proposal is marked as broadcasted, from a copy e of it.     *)
LEMMA SharedMark ==
  ASSUME IInv, SharedInv, NEW r \in Requests, NEW q,
         NEW t \in Txps, NEW e \in Doc, e.status = "accepted",
         Settled(t, e, txps, removed, cast),
         reqs' = [reqs EXCEPT ![r] = q],
         txps' = [txps EXCEPT ![t] = SetStatus(e, "broadcasted")],
         UNCHANGED <<removed, chain, cast, signedTxs>>,
         q = Idle \/ (\E x \in reqs[r].todo :
                        /\ q = [reqs[r] EXCEPT !.todo = @ \ {x}]
                        /\ x.txp = t)
  PROVE  SharedInv'
<1>1. PICK d : d = SetStatus(e, "broadcasted")
  OBVIOUS
<1>2. TypeOK /\ txps \in [Txps -> Doc]
  BY DEF IInv, TypeOK
<1>3. /\ d \in Doc /\ d.status = "broadcasted" /\ ~IsPending(d)
      /\ d.actions = e.actions /\ d.inputs = e.inputs
  BY <1>1, SetStatusType DEF Status, IsPending
<1>4. txps' = [txps EXCEPT ![t] = d] /\ txps'[t] = d
  BY <1>1, <1>2
<1>5. \A a \in cast : a.txp = t => HasVote(a, d)
  BY <1>3, SameHasVote DEF Settled
<1>6. t \in removed \/ txps[t].status \in {"accepted", "broadcasted"}
  BY SettledStatus
<1>7. txps[t].status \in {"none", "accepted", "broadcasted"}
  BY <1>6 DEF SharedInv
<1>8. ASSUME NEW tx \in chain \cup signedTxs, tx.txp = t
      PROVE  t \in removed \/ Pays(tx, d)
  <2>1. SUFFICES ASSUME t \notin removed PROVE Pays(tx, d)
    OBVIOUS
  <2>2. Pays(tx, txps[t]) /\ (txps[t] = e \/ txps[t] = d)
    BY <1>1, <1>8, <2>1 DEF SharedInv, Settled
  <2>3. TxOf(t, d) = TxOf(t, e)
    BY <1>3, SameVotes DEF TxOf
  <2> QED
    BY <1>3, <1>8, <2>2, <2>3 DEF Pays
<1>9. ASSUME NEW f \in Doc, f.status = "accepted", Settled(t, f, txps, removed, cast)
      PROVE  Settled(t, f, txps', removed, cast)
  <2>1. SUFFICES ASSUME t \notin removed
                 PROVE  txps'[t] = f \/ txps'[t] = SetStatus(f, "broadcasted")
    BY <1>9 DEF Settled
  <2>2. SetStatus(f, "broadcasted").status = "broadcasted"
    BY SetStatusType DEF Status
  <2>3. SetStatus(f, "broadcasted") = d
    BY <1>1, <1>3, <1>9, <2>1, <2>2 DEF Settled
  <2> QED
    BY <1>4, <2>3
<1>10. ASSUME NEW s \in Requests PROVE Learnt(reqs[s], txps', removed', cast')
  <2>1. Learnt(reqs[s], txps, removed, cast)
    BY DEF SharedInv
  <2>2. Prepares(reqs[s]) => reqs[s].txp # t
    <3>1. reqs[s].op = "create" /\ Prepares(reqs[s]) /\ reqs[s].txp = t => FALSE
      BY <1>6, <2>1 DEF Learnt, NoTxp
    <3>2. reqs[s].op = "publish" /\ Prepares(reqs[s]) /\ reqs[s].txp = t => FALSE
      BY <1>7, <2>1 DEF Learnt
    <3> QED
      BY <3>1, <3>2 DEF Prepares
  <2>3. reqs[s].pc = "vote" => reqs[s].txp # t
    BY <1>7, <2>1 DEF Learnt
  <2>4. /\ reqs[s].pc \in {"send", "check", "mark"} /\ reqs[s].txp = t =>
             Settled(t, reqs[s].doc, [txps EXCEPT ![t] = d], removed, cast)
        /\ \A x \in reqs[s].todo : x.txp = t =>
             Settled(t, x.doc, [txps EXCEPT ![t] = d], removed, cast)
    <3>1. reqs[s].pc \in {"send", "check", "mark"} /\ reqs[s].txp = t =>
            Settled(t, reqs[s].doc, txps', removed, cast)
      BY <1>9, <2>1, HeldTypes DEF Learnt, Request
    <3>2. \A x \in reqs[s].todo : x.txp = t => Settled(t, x.doc, txps', removed, cast)
      BY <1>9, <2>1, HeldTypes DEF Learnt, Copy
    <3> QED
      BY <1>4, <3>1, <3>2
  <2>5. reqs[s].op = "create" => reqs[s].txp \notin removed
    BY <2>1 DEF Learnt
  <2>6. \A x \in reqs[s].todo : x.txp \in Txps
    BY HeldTypes DEF Copy
  <2>7. Learnt(reqs[s], [txps EXCEPT ![t] = d], removed, cast)
    BY <1>2, <1>3, <2>1, <2>2, <2>3, <2>4, <2>5, <2>6, HeldTypes, LearntKept
  <2> QED
    BY <1>4, <2>7
<1>11. Learnt(q, txps', removed', cast')
  <2>1. CASE q = Idle
    BY <2>1, LearntResting
  <2>2. ASSUME NEW x \in reqs[r].todo, x.txp = t,
               q = [reqs[r] EXCEPT !.todo = @ \ {x}]
        PROVE  Learnt(q, txps', removed', cast')
    <3>1. /\ q.pc = reqs[r].pc /\ q.op = reqs[r].op /\ q.txp = reqs[r].txp
          /\ q.who = reqs[r].who /\ q.doc = reqs[r].doc
          /\ q.held = reqs[r].held /\ q.utxos = reqs[r].utxos
          /\ q.todo = reqs[r].todo \ {x}
      BY <1>2, <2>2 DEF TypeOK, Request
    <3> HIDE <2>2
    <3>2. x.txp = t
      BY <2>2
    <3>3. Learnt(reqs[r], txps', removed', cast')
      BY <1>10
    <3>4. Prepares(q) = Prepares(reqs[r]) /\ OwnVote(q) = OwnVote(reqs[r])
          /\ \A u : Spared(u, q, txps') = Spared(u, reqs[r], txps')
      BY <3>1 DEF Prepares, OwnVote, Spared
    <3>5. ASSUME Prepares(q), q.pc = "sweep", NEW u \in Txps, IsPending(txps'[u])
          PROVE  Spared(u, q, txps') \/ \E y \in q.todo : y.txp = u
      <4>1. u # t
        BY <1>3, <1>4, <3>5
      <4> QED
        BY <3>1, <3>2, <3>3, <3>4, <3>5, <4>1 DEF Learnt
    <3> QED
      BY <3>1, <3>3, <3>4, <3>5 DEF Learnt
  <2> QED
    BY <2>1, <2>2
<1>12. removed' = removed /\ chain' = chain /\ signedTxs' = signedTxs /\ cast' = cast
  OBVIOUS
<1> QED
  BY <1>2, <1>3, <1>4, <1>5, <1>8, <1>10, <1>11, <1>12, SharedWrite

LEMMA SharedMarks ==
  ASSUME IInv, SharedInv, NEW r \in Requests,
         ProcessBroadcast(r) \/ \E x \in reqs[r].todo : SweepBroadcasted(r, x)
  PROVE  SharedInv'
<1>0. reqs[r] \in Request /\ Learnt(reqs[r], txps, removed, cast) /\ TypeOK
  BY DEF IInv, TypeOK, SharedInv
<1>1. CASE ProcessBroadcast(r)
  <2>1. PICK t, e : t = reqs[r].txp /\ e = reqs[r].doc
    OBVIOUS
  <2>2. /\ reqs[r].pc = "mark"
        /\ txps' = [txps EXCEPT ![t] = SetStatus(e, "broadcasted")]
        /\ reqs' = [reqs EXCEPT ![r] = Idle]
        /\ UNCHANGED <<removed, chain, cast, signedTxs>>
    BY <1>1, <2>1 DEF ProcessBroadcast, Reply
  <2>3. /\ t \in Txps /\ e \in Doc /\ e.status = "accepted"
        /\ Settled(t, e, txps, removed, cast)
    BY <1>0, <2>1, <2>2, HeldTypes DEF Learnt, Request
  <2> QED
    BY <2>2, <2>3, SharedMark
<1>2. ASSUME NEW x \in reqs[r].todo, SweepBroadcasted(r, x) PROVE SharedInv'
  <2>1. PICK t, e : t = x.txp /\ e = x.doc
    OBVIOUS
  <2>2. /\ txps' = [txps EXCEPT ![t] = SetStatus(e, "broadcasted")]
        /\ reqs' = [reqs EXCEPT ![r].todo = @ \ {x}]
        /\ UNCHANGED <<removed, chain, cast, signedTxs>>
    BY <1>2, <2>1 DEF SweepBroadcasted
  <2>3. /\ t \in Txps /\ e \in Doc /\ e.status = "accepted"
        /\ Settled(t, e, txps, removed, cast)
    BY <1>0, <2>1, HeldTypes DEF Learnt, Copy
  <2>4. PICK q : q = [reqs[r] EXCEPT !.todo = @ \ {x}]
    OBVIOUS
  <2>5. reqs' = [reqs EXCEPT ![r] = q]
    BY <1>0, <2>2, <2>4 DEF TypeOK
  <2>6. \E y \in reqs[r].todo : q = [reqs[r] EXCEPT !.todo = @ \ {y}] /\ y.txp = t
    BY <2>1, <2>4
  <2> QED
    BY <2>2, <2>3, <2>5, <2>6, SharedMark
<1> QED
  BY <1>1, <1>2

----------------------------------------------------------------------------
(* Votes, broadcasting, and the theorems. *)

LEMMA SharedVoteFetch ==
  ASSUME IInv, SharedInv, NEW r \in Requests,
         SignTxFetch(r) \/ RejectTxFetch(r)
  PROVE  SharedInv'
<1>0. /\ reqs[r] \in Request /\ Learnt(reqs[r], txps, removed, cast)
      /\ RequestOK(reqs[r], cast, chain) /\ TypeOK
  BY DEF IInv, TypeOK, SharedInv
<1>1. UNCHANGED <<txps, removed, cast, signedTxs, chain>>
  BY DEF SignTxFetch, RejectTxFetch
<1>2. CASE Reply(r)
  BY <1>0, <1>1, <1>2, SharedResting
<1>3. PICK e, c, type :
        /\ e = txps[reqs[r].txp] /\ c = reqs[r].who /\ type = OwnVote(reqs[r]).type
  OBVIOUS
<1>4. ASSUME GotoWith(r, "vote", AddAction(e, c, type)), e.status = "pending",
             reqs[r].op \in {"sign", "reject"}
      PROVE  SharedInv'
  <2>1. PICK d : d = AddAction(e, c, type)
    OBVIOUS
  <2> DEFINE q == [reqs[r] EXCEPT !.pc = "vote", !.doc = d]
  <2>2. /\ q.pc = "vote" /\ q.op = reqs[r].op /\ q.doc = d /\ q.who = reqs[r].who
        /\ q.txp = reqs[r].txp /\ q.todo = reqs[r].todo
        /\ reqs' = [reqs EXCEPT ![r] = q]
    BY <1>0, <1>4, <2>1 DEF GotoWith, Request, TypeOK
  <2> HIDE DEF q
  <2>3. OwnVote(q).type = type
    BY <1>3, <2>2 DEF OwnVote
  <2>4. Learnt(q, txps, removed, cast)
    BY <1>0, <1>3, <1>4, <2>1, <2>2, <2>3 DEF Learnt, Prepares
  <2> QED
    BY <1>0, <1>1, <2>2, <2>4, SharedQuiet
<1>5. CASE SignTxFetch(r) /\ ~Reply(r)
  <2>1. /\ MaySign(c, e) /\ reqs[r].op = "sign" /\ type = "accept"
        /\ GotoWith(r, "vote", AddAction(e, c, type))
    BY <1>3, <1>5 DEF SignTxFetch, OwnVote
  <2>2. reqs[r].txp \in Txps
    BY <1>0, <2>1 DEF RequestOK
  <2>3. e \in Doc /\ Sound(e)
    BY <1>3, <2>2 DEF IInv, TypeOK, StoredOK
  <2>4. e.status = "pending"
    BY <2>1, <2>3 DEF MaySign, IsPending, Sound, Consistent, Doc, Status
  <2> QED
    BY <1>4, <2>1, <2>4
<1>6. CASE RejectTxFetch(r) /\ ~Reply(r)
  <2>1. /\ MayReject(c, e) /\ reqs[r].op = "reject" /\ type = "reject"
        /\ GotoWith(r, "vote", AddAction(e, c, type))
    BY <1>3, <1>6 DEF RejectTxFetch, OwnVote
  <2> QED
    BY <1>4, <2>1 DEF MayReject
<1> QED
  BY <1>2, <1>5, <1>6

(* storeTx of signTx and rejectTx: no other vote on the proposal is under  *)
(* way, and nobody removed it.                                             *)
LEMMA SharedStoreVote ==
  ASSUME Undisturbed, IInv, SharedInv, NEW r \in Requests, StoreVote(r)
  PROVE  SharedInv'
<1>0. /\ reqs[r] \in Request /\ Learnt(reqs[r], txps, removed, cast)
      /\ RequestOK(reqs[r], cast, chain) /\ TypeOK
  BY DEF IInv, TypeOK, SharedInv
<1>1. PICK t, c, type, d, e, v, new :
        /\ t = reqs[r].txp /\ c = reqs[r].who /\ type = OwnVote(reqs[r]).type
        /\ d = reqs[r].doc /\ e = txps[t] /\ v = OwnVote(reqs[r])
        /\ new = IF d.status = "accepted" THEN {TxOf(t, d)} ELSE {}
  OBVIOUS
<1>2. /\ reqs[r].pc = "vote" /\ txps' = [txps EXCEPT ![t] = d]
      /\ reqs' = [reqs EXCEPT ![r] = Idle]
      /\ cast' = cast \cup {v} /\ signedTxs' = signedTxs \cup new
      /\ UNCHANGED <<removed, chain>>
  BY <1>1 DEF StoreVote, Reply
<1>3. /\ t \in Txps /\ d \in Doc /\ c \in Copayers /\ type \in VoteType
      /\ d.status \in {"pending", "accepted", "rejected"}
      /\ reqs[r].op # "list"
  BY <1>0, <1>1, <1>2 DEF RequestOK, Request, OwnVote, VoteType
<1>4. e \in Doc /\ e.status = "pending" /\ d = AddAction(e, c, type)
  BY <1>0, <1>1, <1>2, <1>3 DEF Learnt, TypeOK
<1>5. t \notin removed /\ v.txp = t /\ v.who = c /\ v.type = type
  BY <1>1, <1>4 DEF OwnVote, SharedInv
<1>6. d.inputs = e.inputs /\ IsPending(e)
  BY <1>3, <1>4, AddActionInputs DEF IsPending
<1>7. \A a \in cast' : a.txp = t => HasVote(a, d)
  <2>1. ASSUME NEW a \in cast, a.txp = t PROVE HasVote(a, d)
    <3>1. HasVote(a, e)
      BY <1>1, <1>5, <2>1 DEF SharedInv
    <3> QED
      BY <1>3, <1>4, <3>1, AddActionKeeps
  <2>2. HasVote(v, d)
    BY <1>3, <1>4, <1>5, AddActionKeeps
  <2> QED
    BY <1>2, <2>1, <2>2
<1>8. \A tx \in chain \cup signedTxs : tx.txp # t
  BY <1>1, <1>4, <1>5 DEF SharedInv, Pays
<1>9. \A tx \in new : tx.txp = t /\ Pays(tx, d)
  BY <1>1 DEF Pays, TxOf
<1>10. Apart(t, d.inputs)
  BY <1>1, <1>3, <1>6 DEF Apart, SharedInv, InputsLockedOnce
<1>11. ASSUME NEW s \in Requests \ {r}
       PROVE  Learnt(reqs[s], txps', removed', cast')
  <2>1. Learnt(reqs[s], txps, removed, cast)
    BY DEF SharedInv
  <2>2. reqs[s].pc = "vote" => reqs[s].txp # t
    BY <1>1, <1>2, <1>3, <1>11 DEF Undisturbed
  <2>3. Prepares(reqs[s]) => reqs[s].txp # t
    BY <1>1, <1>4, <2>1 DEF Learnt, Prepares, NoTxp
  <2>4. /\ reqs[s].pc \in {"send", "check", "mark"} => reqs[s].txp # t
        /\ \A x \in reqs[s].todo : x.txp # t
    BY <1>1, <1>3, <1>4, <1>5, NoCopies
  <2>5. reqs[s].op = "create" => reqs[s].txp \notin removed
    BY <2>1 DEF Learnt
  <2>6. \A x \in reqs[s].todo : x.txp \in Txps
    BY HeldTypes DEF Copy
  <2>7. txps \in [Txps -> Doc] /\ \A a \in cast' : a \in cast \/ a.txp = t
    BY <1>0, <1>2, <1>5 DEF TypeOK
  <2>8. Learnt(reqs[s], [txps EXCEPT ![t] = d], removed, cast')
    BY <1>1, <1>3, <1>6, <2>1, <2>2, <2>3, <2>4, <2>5, <2>6, <2>7, HeldTypes, LearntKept
  <2> QED
    BY <1>2, <2>8
<1>12. /\ \A a \in cast' : a \in cast \/ a.txp = t
       /\ \A tx \in chain \cup signedTxs' : tx.txp = t => Pays(tx, d)
       /\ \A tx \in signedTxs' : tx \in signedTxs \/ tx.txp = t
  BY <1>2, <1>5, <1>8, <1>9
<1>13. Learnt(Idle, txps', removed', cast')
  BY LearntResting
<1> QED
  BY <1>0, <1>2, <1>3, <1>5, <1>7, <1>10, <1>11, <1>12, <1>13, SharedWrite

LEMMA SharedBroadcast ==
  ASSUME IInv, SharedInv, NEW r \in Requests,
         \/ BroadcastTxFetch(r) \/ BroadcastTaken(r) \/ BroadcastFailed(r)
         \/ CheckTxInBlockchain(r)
  PROVE  SharedInv'
<1>0. reqs[r] \in Request /\ Learnt(reqs[r], txps, removed, cast) /\ TypeOK
  BY DEF IInv, TypeOK, SharedInv
<1>1. UNCHANGED <<txps, removed, cast, signedTxs>>
  BY DEF BroadcastTxFetch, BroadcastTaken, BroadcastFailed, CheckTxInBlockchain
<1>2. ASSUME Reply(r), chain' = chain PROVE SharedInv'
  BY <1>0, <1>1, <1>2, SharedResting
<1>3. ASSUME NEW pc \in {"mark", "check"}, Goto(r, pc),
             reqs[r].pc \in {"send", "check"},
             \A tx \in chain' :
               tx \in chain \/ tx.txp \in removed \/ Pays(tx, txps[tx.txp])
      PROVE  SharedInv'
  <2> DEFINE q == [reqs[r] EXCEPT !.pc = pc]
  <2>1. /\ q.pc = pc /\ q.op = reqs[r].op /\ q.doc = reqs[r].doc
        /\ q.txp = reqs[r].txp /\ q.todo = reqs[r].todo
        /\ reqs' = [reqs EXCEPT ![r] = q]
    BY <1>0, <1>3 DEF Goto, Request, TypeOK
  <2> HIDE DEF q
  <2>2. Learnt(q, txps, removed, cast)
    BY <1>0, <1>3, <2>1 DEF Learnt, Prepares
  <2> QED
    BY <1>0, <1>1, <1>3, <2>1, <2>2, SharedQuiet
<1>4. CASE BroadcastTxFetch(r) /\ ~Reply(r)
  <2>1. PICK t, d : t = reqs[r].txp /\ d = txps[t]
    OBVIOUS
  <2>2. GotoWith(r, "send", d) /\ d.status = "accepted" /\ chain' = chain
    BY <1>4, <2>1 DEF BroadcastTxFetch
  <2> DEFINE q == [reqs[r] EXCEPT !.pc = "send", !.doc = d]
  <2>3. /\ q.pc = "send" /\ q.op = reqs[r].op /\ q.doc = d
        /\ q.txp = t /\ q.todo = reqs[r].todo
        /\ reqs' = [reqs EXCEPT ![r] = q]
    BY <1>0, <2>1, <2>2 DEF GotoWith, Request, TypeOK
  <2> HIDE DEF q
  <2>4. Settled(t, d, txps, removed, cast)
    <3>1. \A a \in cast : a.txp = t => HasVote(a, d)
      BY <2>1, <2>2 DEF SharedInv, NoTxp
    <3> QED
      BY <2>1, <3>1 DEF Settled
  <2>5. Learnt(q, txps, removed, cast)
    BY <1>0, <2>1, <2>3, <2>4 DEF Learnt, Prepares
  <2> QED
    BY <1>0, <1>1, <2>2, <2>3, <2>5, SharedQuiet
<1>5. CASE BroadcastTaken(r)
  <2>1. PICK t, e, tx : t = reqs[r].txp /\ e = reqs[r].doc /\ tx = TxOf(t, e)
    OBVIOUS
  <2>2. reqs[r].pc = "send" /\ chain' = chain \cup {tx}
    BY <1>5, <2>1 DEF BroadcastTaken
  <2>3. e \in Doc /\ e.status = "accepted" /\ Settled(t, e, txps, removed, cast)
    BY <1>0, <2>1, <2>2, HeldTypes DEF Learnt, Request
  <2>4. tx.txp = t
    BY <2>1 DEF TxOf
  <2>5. t \in removed \/ Pays(tx, txps[t])
    <3>1. PICK f : f = SetStatus(e, "broadcasted")
      OBVIOUS
    <3>2. f.status = "broadcasted" /\ f.actions = e.actions /\ f.inputs = e.inputs
      BY <2>3, <3>1, SetStatusType DEF Status
    <3>3. TxOf(t, f) = TxOf(t, e)
      BY <3>2, SameVotes DEF TxOf
    <3>4. Pays(tx, e) /\ Pays(tx, f)
      BY <2>1, <2>3, <2>4, <3>2, <3>3 DEF Pays
    <3> QED
      BY <2>3, <3>1, <3>4 DEF Settled
  <2> QED
    BY <1>3, <1>5, <2>2, <2>4, <2>5 DEF BroadcastTaken
<1>6. CASE BroadcastFailed(r) \/ CheckTxInBlockchain(r)
  BY <1>2, <1>3, <1>6 DEF BroadcastFailed, CheckTxInBlockchain
<1>7. CASE BroadcastTxFetch(r) /\ Reply(r)
  BY <1>2, <1>7 DEF BroadcastTxFetch
<1> QED
  BY <1>4, <1>5, <1>6, <1>7

LEMMA SharedNext ==
  ASSUME ~MayLapse, Undisturbed, IInv, TaskInv, SharedInv, [Next]_vars
  PROVE  SharedInv'
<1>0. TypeOK
  BY DEF IInv
<1>1. CASE \/ LeaseLapses \/ UNCHANGED vars
           \/ \E t \in Txps : Age(t)
           \/ \E tx \in signedTxs : ThirdPartyBroadcast(tx)
  BY <1>1, SharedWorld
<1>2. ASSUME NEW r \in Requests, NEW op \in AllOps, NEW c \in Copayers,
             NEW t \in Txps \cup {Nobody}, Start(r, op, c, t)
      PROVE  SharedInv'
  BY <1>2, SharedStart
<1>3. ASSUME NEW r \in Requests,
             \/ WalletBusy(r) \/ Release(r) \/ CallFails(r) \/ Crash(r)
             \/ CreateTxExisting(r) \/ (SelectTxInputs(r) /\ Finish(r))
             \/ (PublishTxFetch(r) /\ Finish(r)) \/ (CheckTxUTXOs(r) /\ Finish(r))
             \/ (RemovePendingTxFetch(r) /\ Finish(r))
      PROVE  SharedInv'
  <2>1. /\ Reply(r) \/ Finish(r)
        /\ UNCHANGED <<txps, removed, cast, signedTxs, chain>>
    BY <1>3 DEF WalletBusy, Release, CallFails, Crash, CreateTxExisting,
                SelectTxInputs, PublishTxFetch, CheckTxUTXOs, RemovePendingTxFetch
  <2> QED
    BY <1>0, <2>1, SharedResting
<1>4. ASSUME NEW r \in Requests, Serve(r) PROVE SharedInv'
  <2>1. CASE Acquire(r) \/ WalletBusy(r) \/ Release(r)
    BY <1>3, <2>1, SharedMoves
  <2>2. CASE \/ GetUtxos(r) \/ FetchPendingTxs(r) \/ SweepDone(r)
             \/ \E x \in reqs[r].todo : SweepMissing(r, x)
    BY <2>2, SharedLooks
  <2>3. CASE ProcessBroadcast(r) \/ \E x \in reqs[r].todo : SweepBroadcasted(r, x)
    BY <2>3, SharedMarks
  <2>4. CASE \/ CreateTxExisting(r) \/ CreateTxWithInputs(r)
             \/ CreateTxSelecting(r) \/ SelectTxInputs(r)
    BY <1>3, <2>4, SharedPrepares, SharedMoves
  <2>5. CASE \/ PublishTxFetch(r) \/ CheckTxUTXOs(r)
             \/ RemovePendingTxFetch(r)
    BY <1>3, <2>5, SharedMoves, SharedPrepares
  <2>6. CASE StoreTx(r) \/ RemoveTx(r)
    BY <2>6, SharedStore, SharedRemove
  <2>7. CASE SignTxFetch(r) \/ RejectTxFetch(r) \/ StoreVote(r)
    BY <2>7, SharedVoteFetch, SharedStoreVote
  <2>8. CASE \/ BroadcastTxFetch(r) \/ BroadcastTaken(r) \/ BroadcastFailed(r)
             \/ CheckTxInBlockchain(r)
    BY <2>8, SharedBroadcast
  <2> QED
    BY <1>4, <2>1, <2>2, <2>3, <2>4, <2>5, <2>6, <2>7, <2>8 DEF Serve
<1> QED
  BY <1>1, <1>2, <1>3, <1>4 DEF Next

LEMMA SharedInvariant ==
  ASSUME ~MayLapse
  PROVE  UndisturbedSpec => []SharedInv
<1>1. Init => SharedInv /\ Undisturbed
  <2> SUFFICES ASSUME Init PROVE SharedInv /\ Undisturbed
    OBVIOUS
  <2>1. \A t \in Txps : ~IsPending(txps[t])
    BY DEF Init, NoTxp, IsPending
  <2>2. SharedInv
    BY <2>1, LearntResting DEF Init, SharedInv, InputsLockedOnce
  <2>3. Undisturbed
    BY DEF Init, Idle, Undisturbed
  <2> QED
    BY <2>2, <2>3
<1>2. Undisturbed /\ [Next /\ Undisturbed']_vars => Undisturbed'
  BY DEF Undisturbed, vars
<1>3. [Next /\ Undisturbed']_vars => [Next]_vars
  OBVIOUS
<1>4. Undisturbed /\ IInv /\ TaskInv /\ SharedInv /\ [Next]_vars => SharedInv'
  BY SharedNext
<1> QED
  BY <1>1, <1>2, <1>3, <1>4, Invariant, TaskInvariant, PTL DEF Spec, UndisturbedSpec

(* Two pending proposals never spend the same output, however createTx,    *)
(* publishTx, removePendingTx, signTx, rejectTx, broadcastTx and           *)
(* getPendingTxs interleave and fail: the wallet lock makes the check of   *)
(* publishTx good until its store, as long as no vote is stored late.      *)
THEOREM InputsReserved ==
  ASSUME ~MayLapse
  PROVE  UndisturbedSpec => []InputsLockedOnce
<1>1. SharedInv => InputsLockedOnce
  BY DEF SharedInv
<1> QED
  BY <1>1, SharedInvariant, PTL

(* A vote that was answered with success stays in its proposal: no publish,*)
(* removal, broadcast or sweep of getPendingTxs under way overwrites it.   *)
THEOREM VotesKept ==
  ASSUME ~MayLapse
  PROVE  UndisturbedSpec => []RecordedVoteKept
<1>1. SharedInv => RecordedVoteKept
  BY DEF SharedInv, RecordedVoteKept, HasVote
<1> QED
  BY <1>1, SharedInvariant, PTL

(* A payment of an accepted proposal carries the signatures the proposal   *)
(* records, whoever broadcasted it and whatever copies of the proposal are *)
(* still to be stored.                                                     *)
THEOREM PaymentsRecognised ==
  ASSUME ~MayLapse
  PROVE  UndisturbedSpec => []PaymentRecognised
<1>1. SharedInv => PaymentRecognised
  <2> SUFFICES ASSUME SharedInv, NEW tx \in chain,
                      txps[tx.txp].status = "accepted"
               PROVE  TxOf(tx.txp, txps[tx.txp]) \in chain
    BY DEF PaymentRecognised
  <2>1. tx.txp \notin removed
    BY DEF SharedInv
  <2> QED
    BY <2>1 DEF SharedInv, Pays
<1> QED
  BY <1>1, SharedInvariant, PTL
=============================================================================
