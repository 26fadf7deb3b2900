---------------------------- MODULE MCWalletLock ----------------------------
(* Instance of WalletLock for TLC.                                         *)
EXTENDS WalletLock
=============================================================================
