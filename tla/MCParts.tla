------------------------------- MODULE MCParts ------------------------------
(* Ledger, CoinsView, OrphanTx and AddrMan in one run of TLC.  They share  *)
(* no variable, so each moves while the others are where they began: all   *)
(* behaviours of each are there and none of the products.                  *)
(*                                                                         *)
(* Ledger: see MCLedger.                                                   *)
(* CoinsView: two transactions with two outputs, given by the outputs      *)
(* left, and two blocks.                                                   *)
(* OrphanTx: t2 spends t1, t3 spends t2, t4 spends t1 and t3, t5 (invalid) *)
(* and t6 (big) spend t1.                                                  *)
(* AddrMan: two new buckets that two sources fill, one tried bucket, and   *)
(* four addresses; three of them spread alike.                             *)
EXTENDS MCLedger, CoinsView, OrphanTx, AddrMan

CONSTANTS t1, t2, t3, t4, t5, t6, a1, a2, a3, a4, s1, s2, n1, n2, k1

MCPrev == [t \in Received |-> CASE t = t1 -> {} [] t = t3 -> {t2} [] t = t4 -> {t1, t3} [] OTHER -> {t1}]

MCGetTriedBucket == [a \in Addrs |-> k1]
MCGetNewBucket == [a \in Addrs |-> [s \in Sources |-> IF s = s1 THEN n1 ELSE IF a = a3 THEN n1 ELSE n2]]

PartsInit == Init /\ CVInit /\ OTInit /\ AMInit
PartsNext == \/ CVInit /\ OTInit /\ AMInit /\ Next   /\ UNCHANGED <<cvVars, otVars, am>>
             \/ Init   /\ OTInit /\ AMInit /\ CVNext /\ UNCHANGED <<vars, otVars, am>>
             \/ Init   /\ CVInit /\ AMInit /\ OTNext /\ UNCHANGED <<vars, cvVars, am>>
             \/ Init   /\ CVInit /\ OTInit /\ AMNext /\ UNCHANGED <<vars, cvVars, otVars>>
PartsSpec == PartsInit /\ [][PartsNext]_<<vars, cvVars, otVars, am>>

Sym == Permutations({a1, a2, a4})
=============================================================================
