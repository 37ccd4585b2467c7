------------------------------ MODULE TssWallet ------------------------------
(***************************************************************************)
(* The wallet of a threshold key: its creator makes it, joins it and posts *)
(* the secret to join it in the session of the key; the other parties get  *)
(* the secret there and join (createWallet, joinWallet of lib/server.ts,   *)
(* storeWalletAndUpdateCopayersLookup of lib/storage.ts; createWallet,     *)
(* joinWallet of the clients).  A join holds the wallet lock, which is     *)
(* taken for granted here (WalletLock), and dies or fails at any call.     *)
(*                                                                         *)
(* Wallets are numbered as they are stored, 0 stands for none.             *)
(***************************************************************************)
EXTENDS TssKeyGen

CONSTANT MaxWallets    \* bound: wallets that are created

ASSUME WalletAssumption == MaxWallets \in Nat /\ MaxWallets > MaxFaults

VARIABLES
  wallets,    \* the copayers of each wallet
  lookups,    \* the collection of copayers: <<copayer, wallet>>
  secret,     \* session.bwsJoinSecret: the wallet it is for
  joins       \* the requests to join that BWS works on

walletVars == <<wallets, lookups, secret, joins>>

WalletInit == wallets = <<>> /\ lookups = {} /\ secret = 0 /\ joins = {}
-----------------------------------------------------------------------------
(* The client.                                                             *)

Joining(p, wallet) ==
  /\ client' = At(p, "join")
  /\ joins' = joins \cup {[party |-> p, wallet |-> wallet, at |-> "lock",
                           copayers |-> <<>>, awaited |-> TRUE, tag |-> timeouts]}

\* Every iteration until it succeeds makes another wallet.  The wallet is stored
\* when the public key is; its creator joins it.
CreateWallet(p) ==
  /\ client[p].at = "create" /\ Len(wallets) < MaxWallets
  /\ IF sharedKey
     THEN wallets' = Append(wallets, <<>>) /\ Joining(p, Len(wallets) + 1)
     ELSE client' = At(p, "wait") /\ UNCHANGED <<wallets, joins>>
  /\ UNCHANGED <<keyVars, faultVars, lookups, secret>>

\* storeBwsJoinSecret, by the party at position 0.
PostSecret(p) ==
  /\ client[p].at = "tell" /\ Authenticates(p)
  /\ secret' = client[p].wallet
  /\ client' = At(p, "done")
  /\ UNCHANGED <<keyVars, faultVars, wallets, lookups, joins>>

\* getBwsJoinSecret: until there is one the client comes back.
GetSecret(p) ==
  /\ client[p].at = "secret" /\ Authenticates(p)
  /\ IF secret # 0 THEN Joining(p, secret)
     ELSE client' = At(p, "wait") /\ UNCHANGED joins
  /\ UNCHANGED <<keyVars, faultVars, wallets, lookups, secret>>
-----------------------------------------------------------------------------
(* joinWallet in BWS.                                                      *)

JoinAnswer(join, accepted) ==
  /\ joins' = joins \ {join}
  /\ client' = IF ~ join.awaited THEN client
               ELSE IF accepted
                    THEN [client EXCEPT ![join.party].wallet = join.wallet,
                            ![join.party].at = IF join.party = Creator THEN "tell" ELSE "done"]
                    ELSE At(join.party, "wait")

JoinMoved(join, step) == joins' = (joins \ {join}) \cup {[join EXCEPT !.at = step]}

\* Fault: nobody waits for the lock of the wallet.
NeverLocked(wallet) == FALSE

Locked(wallet) == \E other \in joins : other.wallet = wallet /\ other.at # "lock"

Registered(p) == \E wallet \in DOMAIN wallets : <<p, wallet>> \in lookups

\* COPAYER_IN_WALLET, TSS_NON_PARTICIPANT, COPAYER_REGISTERED.  The first two do
\* not concern the creator, whose request is taken for one of a hardware wallet.
MayJoin(join) ==
  /\ join.party # Creator =>
       join.party \in participants /\ join.party \notin ToSet(wallets[join.wallet])
  /\ ~ Registered(join.party)

\* Under the lock: the wallet is read and its copy gets the copayer.
JoinChecked(join) ==
  /\ join.at = "lock" /\ ~ Locked(join.wallet)
  /\ IF MayJoin(join)
     THEN /\ joins' = (joins \ {join}) \cup
                {[join EXCEPT !.at = "delete",
                              !.copayers = Append(wallets[join.wallet], join.party)]}
          /\ UNCHANGED client
     ELSE JoinAnswer(join, FALSE)
  /\ UNCHANGED <<keyVars, faultVars, wallets, lookups, secret>>

\* storeWalletAndUpdateCopayersLookup
DeleteLookups(join) ==
  /\ join.at = "delete"
  /\ lookups' = {lookup \in lookups : lookup[2] # join.wallet}
  /\ JoinMoved(join, "insert")
  /\ UNCHANGED <<keyVars, faultVars, client, wallets, secret>>

\* Fault: only the copayer that joins is inserted.
OnlyTheNew(join) == {<<join.party, join.wallet>>}

Lookups(join) == {<<p, join.wallet>> : p \in ToSet(join.copayers)}

InsertLookups(join) ==
  /\ join.at = "insert"
  /\ lookups' = lookups \cup Lookups(join)
  /\ JoinMoved(join, "store")
  /\ UNCHANGED <<keyVars, faultVars, client, wallets, secret>>

StoreWallet(join) ==
  /\ join.at = "store"
  /\ wallets' = [wallets EXCEPT ![join.wallet] = join.copayers]
  /\ JoinAnswer(join, TRUE)
  /\ UNCHANGED <<keyVars, faultVars, lookups, secret>>
-----------------------------------------------------------------------------
(* Failures.  A copayer that is inserted, or may be, cannot join again.    *)

LoseJoin(join) ==
  /\ losses + timeouts < MaxFaults
  /\ losses' = losses + 1
  /\ broken' = (broken \/ join.at = "store")
  /\ JoinAnswer(join, FALSE)
  /\ UNCHANGED <<keyVars, timeouts, wallets, lookups, secret>>

GiveUpJoin(join) ==
  /\ join.awaited /\ losses + timeouts < MaxFaults
  /\ timeouts' = timeouts + 1 /\ broken' = TRUE
  /\ joins' = (joins \ {join}) \cup {[join EXCEPT !.awaited = FALSE]}
  /\ client' = At(join.party, "wait")
  /\ UNCHANGED <<keyVars, losses, wallets, lookups, secret>>

\* The wallet may be stored, and no answer comes.
LoseCreate(p) ==
  /\ client[p].at = "create" /\ losses + timeouts < MaxFaults /\ Len(wallets) < MaxWallets
  /\ losses' = losses + 1
  /\ wallets' \in {wallets} \cup (IF sharedKey THEN {Append(wallets, <<>>)} ELSE {})
  /\ client' = At(p, "wait")
  /\ UNCHANGED <<keyVars, timeouts, broken, lookups, secret, joins>>

\* The creator has joined and will be refused in its next wallet.
LoseSecret(p) ==
  /\ client[p].at = "tell" /\ losses + timeouts < MaxFaults
  /\ losses' = losses + 1 /\ broken' = TRUE
  /\ secret' \in {secret, client[p].wallet}
  /\ client' = At(p, "wait")
  /\ UNCHANGED <<keyVars, timeouts, wallets, lookups, joins>>

WalletServe(p) ==
  \E join \in joins : join.party = p
    /\ (JoinChecked(join) \/ DeleteLookups(join) \/ InsertLookups(join) \/ StoreWallet(join))

WalletFailure(p) ==
  \/ LoseCreate(p) \/ LoseSecret(p)
  \/ \E join \in joins : join.party = p /\ (LoseJoin(join) \/ GiveUpJoin(join))

WalletStep(p) == CreateWallet(p) \/ PostSecret(p) \/ GetSecret(p) \/ WalletServe(p)
-----------------------------------------------------------------------------
(* Properties.                                                             *)

Wallets == DOMAIN wallets

WalletTypeOK ==
  /\ Len(wallets) <= MaxWallets /\ \A w \in Wallets : wallets[w] \in Seq(Parties)
  /\ lookups \subseteq Parties \X Wallets
  /\ secret \in {0} \cup Wallets
  /\ \A join \in joins :
       /\ join.party \in Parties /\ join.wallet \in Wallets /\ join.awaited \in BOOLEAN
       /\ join.at \in {"lock", "delete", "insert", "store"} /\ join.copayers \in Seq(Parties)

\* joinWallet does not ask whether a wallet of a threshold key is full, and the
\* creator makes another wallet whenever it has to try again.  Still nobody is in
\* a wallet twice, and whoever was told that it has joined a wallet is in it and
\* stays there, however other joins end; and unless a request was lost that cannot
\* be repeated, it is the one wallet of the secret.
MembersKept ==
  /\ \A w \in Wallets : IsInjective(wallets[w]) /\ ToSet(wallets[w]) \subseteq participants
  /\ \A p \in Parties : client[p].at = "done" =>
       /\ p \in ToSet(wallets[client[p].wallet])
       /\ client[p].wallet = secret \/ broken

\* The copayers that BWS authenticates for a wallet are its members, but while
\* one of them joins and after a join that was broken off.
LookupsMatch ==
  /\ WalletTypeOK
  /\ \A w \in Wallets : ~ Locked(w) /\ losses = 0 =>
       {lookup \in lookups : lookup[2] = w} = {<<p, w>> : p \in ToSet(wallets[w])}
=============================================================================
