--------------------------- MODULE ThresholdWallet ---------------------------
(***************************************************************************)
(* A threshold wallet from its key to its first signature: the parties     *)
(* generate the key (TssKeyGen), make the wallet and join it (TssWallet),  *)
(* and any M of them sign (TssSign).  A party signs as soon as it has      *)
(* joined, while others still join.                                        *)
(***************************************************************************)
EXTENDS TssSign

vars == <<keyVars, client, faultVars, walletVars, signVars>>

Init == KeyInit /\ WalletInit /\ SignInit

KeyNext(p) == (KeyStep(p) \/ KeyFailure(p)) /\ UNCHANGED <<walletVars, signVars>>

WalletNext(p) == (WalletStep(p) \/ WalletFailure(p)) /\ UNCHANGED signVars

SignNext(p) == SignStart(p) \/ SignStep(p) \/ SignFailure(p)

Next == \E p \in Parties : KeyNext(p) \/ WalletNext(p) \/ SignNext(p)

\* What a party's client does, and BWS for it.  Its user tries again to join a
\* session that the client could not join; nobody has to sign.
Progress(p) ==
  \/ KeyStep(p) /\ UNCHANGED <<walletVars, signVars>>
  \/ WalletStep(p) /\ UNCHANGED signVars
  \/ SignStep(p)

Fairness == \A p \in Parties : WF_vars(Progress(p))

Spec == Init /\ [][Next]_vars /\ Fairness
-----------------------------------------------------------------------------
(* Properties.                                                             *)

\* The parties' first messages came in the order of their numbers, the one order
\* in which authTssRequest knows them all.
InOrder == rounds # <<>> => \A i \in DOMAIN rounds[1] : rounds[1][i] = i - 1

\* Whatever fails that may be tried again, every party has the key in the end,
\* is in the wallet, and BWS knows it there.
KeyForEveryone ==
  <>(\/ broken \/ ~ InOrder
     \/ \A p \in Parties : client[p].at = "done" /\ <<p, secret>> \in lookups)

\* Once M parties have sent the first messages of a session that is the only one,
\* they have the signature in the end.
SignersFinish ==
  Cardinality(SigSenders(0)) = M ~>
    (\/ broken \/ Len(sigs) > 1
     \/ \A p \in SigSenders(0) : signer[p].at = "done")
=============================================================================
