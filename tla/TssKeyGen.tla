------------------------------ MODULE TssKeyGen ------------------------------
(***************************************************************************)
(* Key generation of a threshold wallet: the session document of BWS       *)
(* (lib/tss.ts, TssKeyGenClass) and the clients of the parties             *)
(* (bitcore-wallet-client, lib/tsskey.ts), which go through the rounds of  *)
(* bitcore-tss together.  Every call to the database is a step of its own; *)
(* a request may fail anywhere on its way, and a client may give up waiting*)
(* for one that BWS still works on.                                        *)
(*                                                                         *)
(* Messages are who sent them in which round.  A poll reads the session    *)
(* twice, for the signature and for the messages; as the session only      *)
(* grows and the first read only refuses, it is one step here.             *)
(***************************************************************************)
EXTENDS TssRounds, Integers

CONSTANTS
  N,             \* parties of the key
  Ready,         \* getRound() of a party that has its key share: 5 in the code
  MaxFaults      \* bound: requests that fail, on their way or in BWS, or that a
                 \* client gives up waiting for

ASSUME KeyGenAssumption ==
  /\ N \in Nat /\ N > 1
  /\ Ready \in Nat /\ Ready > 1
  /\ MaxFaults \in Nat

Parties == 0..N - 1
Creator == 0

VARIABLES
  participants,  \* session.participants: the parties that are filled in
  rounds,        \* session.rounds; empty before there is a session
  version,       \* session.__v: every $push to the rounds increments it
  sharedKey,     \* session.sharedPublicKey is set
  client,        \* party -> what its client does, its round, the wallet it has
  posts,         \* the POSTs of messages that BWS works on
  timeouts, losses,
  broken         \* a request was lost that cannot be repeated

keyVars == <<participants, rounds, version, sharedKey, posts>>
faultVars == <<timeouts, losses, broken>>

KeyInit ==
  /\ participants = {} /\ rounds = <<>> /\ version = 0 /\ sharedKey = FALSE
  /\ client = [p \in Parties |-> [at |-> "out", round |-> 0, wallet |-> 0]]
  /\ posts = {}
  /\ timeouts = 0 /\ losses = 0 /\ broken = FALSE
-----------------------------------------------------------------------------
(* The client.                                                             *)

At(p, step) == [client EXCEPT ![p].at = step]

\* After an error the session is the one before the round, and the next
\* iteration tries again; a join that failed is the user's to try again.
Idle(p) == IF client[p].round = 0 THEN "out" ELSE "wait"

Posting(p) ==
  /\ client' = At(p, "post")
  /\ posts' = posts \cup {[party |-> p, round |-> client[p].round, at |-> "fetch",
                           view |-> <<>>, version |-> 0, awaited |-> TRUE,
                           tag |-> timeouts]}

\* newKey, joinKey: party 0 gives out the codes to join when it has a session.
Join(p) ==
  /\ client[p].at = "out"
  /\ p # Creator => client[Creator].round > 0
  /\ Posting(p)
  /\ UNCHANGED <<participants, rounds, version, sharedKey, faultVars>>

\* authTssRequest: the key to check with is that of the message at the party's
\* position in the first round.
Authenticates(p) == rounds # <<>> /\ Len(rounds[1]) > p /\ rounds[1][p + 1] = p

\* getMessagesForParty gives the messages of the round only when all others
\* have sent theirs.
EveryoneSubmitted(p) == FromOthers(rounds, client[p].round - 1, p) = N - 1

\* Fault: the party's number is not compared as a number.
AlwaysJoins(p) == "secret"

\* The step after the key share is there and its public key is stored.
AfterKey(p) == IF p = Creator THEN "create" ELSE "secret"

\* An iteration of subscribe: the messages of the last round are processed and
\* the party's own are posted.  The last round leaves nothing to post, and the
\* answer for a round that nobody posts does not have the public key.
Poll(p) ==
  /\ client[p].at = "wait" /\ Authenticates(p)
  /\ \/ /\ client[p].round < Ready - 1 /\ EveryoneSubmitted(p)
        /\ Posting(p)
     \/ /\ client[p].round = Ready - 1 /\ EveryoneSubmitted(p)
        /\ client' = [client EXCEPT ![p].round = Ready,
                        ![p].at = IF sharedKey THEN AfterKey(p) ELSE "store"]
        /\ UNCHANGED posts
     \/ /\ client[p].round = Ready
        /\ client' = At(p, "store")
        /\ UNCHANGED posts
  /\ UNCHANGED <<participants, rounds, version, sharedKey, faultVars>>

\* storeKey: the public key of the first party that comes; all have the same.
StoreKey(p) ==
  /\ client[p].at = "store" /\ Authenticates(p)
  /\ sharedKey' = TRUE
  /\ client' = At(p, AfterKey(p))
  /\ UNCHANGED <<participants, rounds, version, posts, faultVars>>
-----------------------------------------------------------------------------
(* processMessage in BWS.                                                  *)

Moved(post, step) ==
  (posts \ {post}) \cup {[post EXCEPT !.at = step, !.view = rounds, !.version = version]}

\* The answer reaches the client that still waits for it.
Answer(post, accepted) ==
  /\ posts' = posts \ {post}
  /\ client' = IF ~ post.awaited THEN client
               ELSE IF accepted
                    THEN [client EXCEPT ![post.party].at = "wait",
                                        ![post.party].round = post.round + 1]
                    ELSE At(post.party, Idle(post.party))

Fetch(post) ==
  /\ post.at = "fetch"
  /\ \/ /\ rounds # <<>>
        /\ posts' = Moved(post, IF post.party \in participants THEN "push" ELSE "participant")
        /\ UNCHANGED client
     \/ /\ rounds = <<>>
        /\ IF post.round = 0 /\ post.party = Creator
           THEN posts' = Moved(post, "insert") /\ UNCHANGED client
           ELSE Answer(post, FALSE)
  /\ UNCHANGED <<participants, rounds, version, sharedKey, faultVars>>

\* _initSession; the id is unique in the collection.
Insert(post) ==
  /\ post.at = "insert"
  /\ IF rounds = <<>>
     THEN /\ rounds' = << <<post.party>> >>
          /\ participants' = {post.party}
          /\ Answer(post, TRUE)
     ELSE Answer(post, FALSE) /\ UNCHANGED <<rounds, participants>>
  /\ UNCHANGED <<version, sharedKey, faultVars>>

\* storeTssKeyGenParticipant; the session in hand stays the one it was.
StoreParticipant(post) ==
  /\ post.at = "participant"
  /\ participants' = participants \cup {post.party}
  /\ posts' = (posts \ {post}) \cup {[post EXCEPT !.at = "push"]}
  /\ UNCHANGED <<rounds, version, sharedKey, client, faultVars>>

\* Fault: the document is updated whatever its version.
AnyVersion(post) == TRUE

\* storeTssKeyGenMessage finds the document at the version it was read with.
UpToDate(post) == post.version = version

\* _pushMessage: refused by the session it has, or pushed when that session is
\* still the stored one, or tried again with the one that is.
Push(post) ==
  /\ post.at = "push"
  /\ \/ /\ ~ Accepts(post.view, post.round, post.party, N)
        /\ Answer(post, FALSE)
        /\ UNCHANGED <<rounds, version>>
     \/ /\ Accepts(post.view, post.round, post.party, N) /\ UpToDate(post)
        /\ rounds' = Pushed(rounds, post.round, post.party, TRUE)
        /\ version' = version + 1
        /\ Answer(post, TRUE)
     \/ /\ Accepts(post.view, post.round, post.party, N) /\ ~ UpToDate(post)
        /\ posts' = Moved(post, "push")
        /\ UNCHANGED <<rounds, version, client>>
  /\ UNCHANGED <<participants, sharedKey, faultVars>>
-----------------------------------------------------------------------------
(* Failures.                                                               *)

\* A request is lost on its way, or a call of BWS to the database fails.
LosePost(post) ==
  /\ losses + timeouts < MaxFaults
  /\ losses' = losses + 1
  /\ Answer(post, FALSE)
  /\ UNCHANGED <<participants, rounds, version, sharedKey, timeouts, broken>>

\* The client does not wait any longer; BWS does not know.
GiveUp(post) ==
  /\ post.awaited /\ losses + timeouts < MaxFaults
  /\ timeouts' = timeouts + 1 /\ broken' = TRUE
  /\ posts' = (posts \ {post}) \cup {[post EXCEPT !.awaited = FALSE]}
  /\ client' = At(post.party, Idle(post.party))
  /\ UNCHANGED <<participants, rounds, version, sharedKey, losses>>

LoseStore(p) ==
  /\ client[p].at = "store" /\ losses + timeouts < MaxFaults
  /\ losses' = losses + 1
  /\ client' = At(p, "wait")
  /\ sharedKey' \in {sharedKey, TRUE}
  /\ UNCHANGED <<participants, rounds, version, posts, timeouts, broken>>

Serve(p) ==
  \E post \in posts : post.party = p
    /\ (Fetch(post) \/ Insert(post) \/ StoreParticipant(post) \/ Push(post))

KeyFailure(p) ==
  LoseStore(p) \/ \E post \in posts : post.party = p /\ (LosePost(post) \/ GiveUp(post))

KeyStep(p) == Join(p) \/ Poll(p) \/ StoreKey(p) \/ Serve(p)
-----------------------------------------------------------------------------
(* Properties.                                                             *)

PostSteps == {"fetch", "insert", "participant", "push"}
ClientSteps == {"out", "wait", "post", "store", "create", "join", "tell", "secret", "done"}

KeyTypeOK ==
  /\ participants \subseteq Parties
  /\ Len(rounds) <= Ready - 1 /\ \A i \in DOMAIN rounds : rounds[i] \in Seq(Parties) /\ Len(rounds[i]) <= N
  /\ sharedKey \in BOOLEAN /\ broken \in BOOLEAN
  /\ \A p \in Parties : client[p].at \in ClientSteps /\ client[p].round \in 0..Ready
  /\ \A post \in posts :
       /\ post.party \in Parties /\ post.round \in 0..Ready - 2
       /\ post.at \in PostSteps /\ post.awaited \in BOOLEAN
  /\ timeouts \in 0..MaxFaults /\ losses \in 0..MaxFaults

\* The stored rounds are those of a barrier: whatever requests are repeated or
\* overtaken, every party has one message in a round before the next one begins.
KeyRounds == INSTANCE RoundBarrier WITH
  Parties <- Parties, Size <- N, Rounds <- Ready - 1,
  sent <- [r \in 0..Ready - 2 |-> Senders(rounds, r)]

IsKeyBarrier == KeyRounds!Spec

\* What the client of a party takes for sent is stored once, however often its
\* request was overtaken, refused or sent again.
SentIsStored ==
  /\ KeyTypeOK
  /\ \A p \in Parties, r \in 0..Ready - 2 : client[p].round > r =>
       Cardinality({i \in DOMAIN rounds[r + 1] : rounds[r + 1][i] = p}) = 1

\* A party whose first message was taken, and whose client signs with the key
\* that it sent in it, passes authTssRequest.
ParticipantsAuthenticate ==
  \A p \in Parties : client[p].round > 0 => Authenticates(p)
=============================================================================
