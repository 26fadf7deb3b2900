----------------------------- MODULE FlatCoins ------------------------------
(***************************************************************************)
(* What the coins views promise to their users: three complete sets of     *)
(* coins, each with the block it belongs to, and no caches.  `disk' is     *)
(* what a crash leaves, `current' what the node works with (pcoinsTip) and *)
(* `pending' what a caller that has opened a view sees, which becomes      *)
(* current as a whole or not at all.                                       *)
(***************************************************************************)
CONSTANTS TxIds, Coins, Pruned, Blocks, NoBlock

VARIABLES disk, diskBest, current, currentBest, pending, pendingBest

vars == <<disk, diskBest, current, currentBest, pending, pendingBest>>

Init == /\ disk = [h \in TxIds |-> Pruned] /\ current = disk /\ pending = disk
        /\ diskBest = NoBlock /\ currentBest = NoBlock /\ pendingBest = NoBlock

Write(h, c) == /\ pending' = [pending EXCEPT ![h] = c]
               /\ UNCHANGED <<disk, diskBest, current, currentBest, pendingBest>>

SetBest(b) == /\ pendingBest' = b
              /\ UNCHANGED <<disk, diskBest, current, currentBest, pending>>

Commit == /\ current' = pending /\ currentBest' = pendingBest
          /\ UNCHANGED <<disk, diskBest, pending, pendingBest>>

Discard == /\ pending' = current /\ pendingBest' = currentBest
           /\ UNCHANGED <<disk, diskBest, current, currentBest>>

Save == /\ disk' = current /\ diskBest' = currentBest
        /\ UNCHANGED <<current, currentBest, pending, pendingBest>>

Crash == /\ current' = disk /\ currentBest' = diskBest
         /\ pending' = disk /\ pendingBest' = diskBest
         /\ UNCHANGED <<disk, diskBest>>

Next == \/ \E h \in TxIds, c \in Coins : Write(h, c)
        \/ \E b \in Blocks : SetBest(b)
        \/ Commit \/ Discard \/ Save \/ Crash

Spec == Init /\ [][Next]_vars
=============================================================================
