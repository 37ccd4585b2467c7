---------------------------- MODULE MCWalletLock ----------------------------
(* Small instances of WalletLock for TLC. *)
EXTENDS WalletLock, TLC

Symmetry == Permutations(Procs)
=============================================================================
