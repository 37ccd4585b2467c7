------------------------------- MODULE TssSign -------------------------------
(***************************************************************************)
(* Signing with a threshold key: M of its parties go through the rounds of *)
(* a signing session (lib/tss.ts, TssSignClass; bitcore-wallet-client,     *)
(* lib/tsssign.ts).  Any M parties may be the ones; the participants and   *)
(* the messages of the first round are taken in separate steps, and two    *)
(* parties that start at once may each store a session: the collection has *)
(* no unique index.  Reads find the first document, an update the first    *)
(* one at the version it asks for.                                         *)
(***************************************************************************)
EXTENDS TssWallet

CONSTANT M    \* parties that sign

ASSUME SignAssumption == M \in 2..N

VARIABLES
  sigs,     \* the documents of the session, in the order they were inserted
  signer,   \* party -> what its client does, and its round
  sposts    \* the POSTs of messages that BWS works on

signVars == <<sigs, signer, sposts>>

SignInit ==
  /\ sigs = <<>>
  /\ signer = [p \in Parties |-> [at |-> "out", round |-> 0]]
  /\ sposts = {}
-----------------------------------------------------------------------------
(* The client.                                                             *)

SignerAt(p, step) == [signer EXCEPT ![p].at = step]

SignerIdle(p) == IF signer[p].round = 0 THEN "out" ELSE "wait"

SigPosting(p, signers) ==
  /\ signer' = [signers EXCEPT ![p].at = "post"]
  /\ sposts' = sposts \cup {[party |-> p, round |-> signers[p].round, at |-> "fetch",
                             version |-> 0, view |-> <<>>, awaited |-> TRUE, tag |-> timeouts]}

\* Bound: after a failure everyone has joined before anyone signs.
Settled ==
  losses + timeouts > 0 =>
    posts = {} /\ joins = {} /\ \A p \in Parties : client[p].at = "done"

\* start: authRequest looks for the copayer; no round is processed yet.
SignStart(p) ==
  /\ signer[p].at = "out" /\ client[p].at = "done" /\ Registered(p) /\ Settled
  /\ SigPosting(p, signer)
  /\ UNCHANGED <<keyVars, faultVars, client, walletVars, sigs>>

\* authTssRequest: a participant with a message in the first round.
SignerAuthenticates(p) ==
  /\ sigs # <<>>
  /\ p \in ToSet(sigs[1].participants) /\ p \in Senders(sigs[1].rounds, 0)

\* Fault: the party's own message is counted with those of the others.
OwnCounts(p) == Cardinality(Senders(sigs[1].rounds, signer[p].round - 1)) = M - 1

\* Fault: the party itself is not subtracted.
AllSigned(p) == FromOthers(sigs[1].rounds, signer[p].round - 1, p) = M

\* getMessagesForParty: the messages, and the signature with them, once all
\* others have sent theirs.
OthersSigned(p) == FromOthers(sigs[1].rounds, signer[p].round - 1, p) = M - 1

\* An iteration of subscribe.  A party that is behind takes the signature of the
\* others; the one that has it first stores it.
SignPoll(p) ==
  /\ signer[p].at = "wait" /\ SignerAuthenticates(p)
  /\ \/ /\ signer[p].round < Ready /\ OthersSigned(p) /\ sigs[1].signature
        /\ signer' = [signer EXCEPT ![p].at = "done", ![p].round = @ + 1]
        /\ UNCHANGED sposts
     \/ /\ signer[p].round < Ready - 1 /\ OthersSigned(p) /\ ~ sigs[1].signature
        /\ SigPosting(p, signer)
     \/ /\ signer[p].round = Ready - 1 /\ OthersSigned(p) /\ ~ sigs[1].signature
        /\ signer' = [signer EXCEPT ![p].at = "store", ![p].round = Ready]
        /\ UNCHANGED sposts
     \/ /\ signer[p].round = Ready
        /\ signer' = SignerAt(p, "store")
        /\ UNCHANGED sposts
  /\ UNCHANGED <<keyVars, faultVars, client, walletVars, sigs>>

\* storeSignature
StoreSignature(p) ==
  /\ signer[p].at = "store" /\ SignerAuthenticates(p)
  /\ sigs' = [sigs EXCEPT ![1].signature = TRUE]
  /\ signer' = SignerAt(p, "done")
  /\ UNCHANGED <<keyVars, faultVars, client, walletVars, sposts>>
-----------------------------------------------------------------------------
(* processMessage in BWS.                                                  *)

SigAnswer(post, accepted) ==
  /\ sposts' = sposts \ {post}
  /\ signer' = IF ~ post.awaited THEN signer
               ELSE IF accepted
                    THEN [signer EXCEPT ![post.party].at = "wait",
                                        ![post.party].round = post.round + 1]
                    ELSE SignerAt(post.party, SignerIdle(post.party))

SigMoved(post, step) ==
  sposts' = (sposts \ {post}) \cup
    {[post EXCEPT !.at = step, !.view = sigs[1].rounds, !.version = sigs[1].version]}

RoomFor(session) == Len(session.participants) # M

SigFetch(post) ==
  /\ post.at = "fetch"
  /\ \/ /\ sigs = <<>> /\ post.round = 0
        /\ sposts' = (sposts \ {post}) \cup {[post EXCEPT !.at = "insert"]}
        /\ UNCHANGED signer
     \/ /\ sigs # <<>> /\ post.party \in ToSet(sigs[1].participants)
        /\ SigMoved(post, "push")
        /\ UNCHANGED signer
     \/ /\ sigs # <<>> /\ post.party \notin ToSet(sigs[1].participants)
        /\ IF RoomFor(sigs[1])
           THEN SigMoved(post, "participant") /\ UNCHANGED signer
           ELSE SigAnswer(post, FALSE)
  /\ UNCHANGED <<keyVars, faultVars, client, walletVars, sigs>>

\* _initSession: nothing keeps it from being the second.
SigInsert(post) ==
  /\ post.at = "insert"
  /\ sigs' = Append(sigs, [participants |-> <<post.party>>, rounds |-> << <<post.party>> >>,
                           version |-> 0, signature |-> FALSE])
  /\ SigAnswer(post, TRUE)
  /\ UNCHANGED <<keyVars, faultVars, client, walletVars>>

\* Fault: the document is updated whatever its version.
AnyDocument(post) == {1}

\* The documents an update for the version that was read may match.
Matching(post) == {i \in DOMAIN sigs : sigs[i].version = post.version}

First(documents) == CHOOSE i \in documents : \A j \in documents : i <= j

\* storeTssSigParticipant: it does not increment the version.
SigParticipant(post) ==
  /\ post.at = "participant"
  /\ IF Matching(post) # {}
     THEN /\ sigs' = [sigs EXCEPT ![First(Matching(post))].participants =
                        Sorted(@, post.party)]
          /\ sposts' = (sposts \ {post}) \cup {[post EXCEPT !.at = "push"]}
     ELSE /\ sposts' = (sposts \ {post}) \cup {[post EXCEPT !.at = "fetch"]}
          /\ UNCHANGED sigs
  /\ UNCHANGED <<keyVars, faultVars, client, walletVars, signer>>

\* storeTssSigMessage
SigPushed(session, r, p) ==
  [session EXCEPT !.rounds = Pushed(@, r, p, FALSE), !.version = @ + 1]

SigPush(post) ==
  /\ post.at = "push"
  /\ \/ /\ ~ Accepts(post.view, post.round, post.party, M)
        /\ SigAnswer(post, FALSE)
        /\ UNCHANGED sigs
     \/ /\ Accepts(post.view, post.round, post.party, M) /\ Matching(post) # {}
        /\ sigs' = [sigs EXCEPT ![First(Matching(post))] =
                      SigPushed(@, post.round, post.party)]
        /\ SigAnswer(post, TRUE)
     \/ /\ Accepts(post.view, post.round, post.party, M) /\ Matching(post) = {}
        /\ SigMoved(post, "push")
        /\ UNCHANGED <<sigs, signer>>
  /\ UNCHANGED <<keyVars, faultVars, client, walletVars>>
-----------------------------------------------------------------------------
(* Failures.                                                               *)

SigLosePost(post) ==
  /\ losses + timeouts < MaxFaults
  /\ losses' = losses + 1
  /\ SigAnswer(post, FALSE)
  /\ UNCHANGED <<keyVars, timeouts, broken, client, walletVars, sigs>>

SigGiveUp(post) ==
  /\ post.awaited /\ losses + timeouts < MaxFaults
  /\ timeouts' = timeouts + 1 /\ broken' = TRUE
  /\ sposts' = (sposts \ {post}) \cup {[post EXCEPT !.awaited = FALSE]}
  /\ signer' = SignerAt(post.party, SignerIdle(post.party))
  /\ UNCHANGED <<keyVars, losses, client, walletVars, sigs>>

LoseSignature(p) ==
  /\ signer[p].at = "store" /\ losses + timeouts < MaxFaults
  /\ losses' = losses + 1
  /\ signer' = SignerAt(p, "wait")
  /\ \E stored \in {sigs[1].signature, TRUE} : sigs' = [sigs EXCEPT ![1].signature = stored]
  /\ UNCHANGED <<keyVars, timeouts, broken, client, walletVars, sposts>>

SignServe(p) ==
  \E post \in sposts : post.party = p
    /\ (SigFetch(post) \/ SigInsert(post) \/ SigParticipant(post) \/ SigPush(post))

SignFailure(p) ==
  LoseSignature(p) \/ \E post \in sposts : post.party = p /\ (SigLosePost(post) \/ SigGiveUp(post))

SignStep(p) == SignPoll(p) \/ StoreSignature(p) \/ SignServe(p)
-----------------------------------------------------------------------------
(* Properties.                                                             *)

SignTypeOK ==
  /\ Len(sigs) <= N + MaxFaults
  /\ \A i \in DOMAIN sigs :
       /\ sigs[i].participants \in Seq(Parties) /\ sigs[i].signature \in BOOLEAN
       /\ \A r \in DOMAIN sigs[i].rounds : sigs[i].rounds[r] \in Seq(Parties)
  /\ \A p \in Parties : signer[p].round \in 0..Ready
       /\ signer[p].at \in {"out", "post", "wait", "store", "done"}
  /\ \A post \in sposts :
       /\ post.party \in Parties /\ post.round \in 0..Ready - 2 /\ post.awaited \in BOOLEAN
       /\ post.at \in {"fetch", "insert", "participant", "push"} /\ post.version \in Nat

SigSenders(r) == IF sigs = <<>> THEN {} ELSE Senders(sigs[1].rounds, r)

\* The session that is read is a barrier for M parties, the same ones in every
\* round, although more may become participants and updates may go to another
\* document.
SignRounds == INSTANCE RoundBarrier WITH
  Parties <- Parties, Size <- M, Rounds <- Ready - 1,
  sent <- [r \in 0..Ready - 2 |-> SigSenders(r)]

IsSignBarrier == SignRounds!Spec

\* A signature is stored, and a party has one, only after M parties have sent
\* their messages of all the rounds, as long as there is only one document.
SignedByQuorum ==
  /\ SignTypeOK
  /\ Len(sigs) = 1 =>
       /\ sigs[1].signature => Cardinality(SigSenders(Ready - 2)) = M
       /\ \A p \in Parties : signer[p].at = "done" => sigs[1].signature
=============================================================================
