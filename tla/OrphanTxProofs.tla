--------------------------- MODULE OrphanTxProofs ---------------------------
(***************************************************************************)
(* The orphan pool, for any set of transactions and any limit.             *)
(*                                                                         *)
(* OrphansRetried speaks of the idle node only.  In the handler the        *)
(* invariant Promised takes its place: an orphan that could be accepted    *)
(* now is about to be erased, or one of its inputs is in the work queue    *)
(* and the orphan has not been visited under it.  That a visit under the   *)
(* head of the queue is not missed needs the exact index.                  *)
(***************************************************************************)
EXTENDS OrphanTx, FiniteSetTheorems, TLAPS

\* An orphan whose inputs all came through the handler.
Acceptable(o) == Prev[o] \subseteq have /\ Prev[o] \cap silent = {}

Kept(o) ==
  Acceptable(o) => \/ o \in vEraseQueue
                   \/ \E i \in 1..Len(vWorkQueue) : vWorkQueue[i] \in Prev[o] /\ (i = 1 => o \notin visited)

Promised == \A o \in mapOrphanTransactions : Kept(o)

IInv == OTTypeOK /\ OrphanIndexExact /\ Promised

\* Types; big transactions are never kept.
LEMMA TypeStep ==
  ASSUME OTTypeOK, [OTNext]_otVars
  PROVE  OTTypeOK'
<1> USE OrphanAssumption
<1>1. ASSUME NEW t \in Received, TxAccepted(t) PROVE OTTypeOK'
  BY <1>1 DEF TxAccepted, OTTypeOK, orphans
<1>2. ASSUME NEW t \in Received, TxMissingInputs(t) PROVE OTTypeOK'
  <2>1. PICK E \in Evictable(mapOrphanTransactions \cup {t}) :
           /\ mapOrphanTransactions' = (mapOrphanTransactions \cup {t}) \ E
           /\ mapOrphanTransactionsByPrev' = ByPrevWith(t, E)
    BY <1>2 DEF TxMissingInputs
  <2>2. DOMAIN mapOrphanTransactionsByPrev' \subseteq Received
    BY <2>1 DEF ByPrevWith, OTTypeOK
  <2> QED BY <1>2, <2>1, <2>2 DEF TxMissingInputs, AddOrphanTx, OTTypeOK, handler
<1>3. ASSUME NEW t \in Received, RetryOrphan(t) PROVE OTTypeOK'
  <2>1. vWorkQueue' \in Seq(Received) /\ vWorkQueue' # <<>>
    BY <1>3 DEF RetryOrphan, Requeued, OTTypeOK
  <2> QED BY <1>3, <2>1 DEF RetryOrphan, OTTypeOK, orphans
<1>4. ASSUME NEW t \in Received, Appear(t) \/ Vanish(t) PROVE OTTypeOK'
  BY <1>4 DEF Appear, Vanish, OTTypeOK, orphans, handler
<1>5. ASSUME NextPrev PROVE OTTypeOK'
  <2>1. Head(vWorkQueue) \in Received /\ Tail(vWorkQueue) \in Seq(Received)
    BY <1>5 DEF NextPrev, OTTypeOK
  <2> QED BY <1>5, <2>1 DEF NextPrev, OTTypeOK
<1>6. ASSUME EraseOrphans PROVE OTTypeOK'
  <2>1. DOMAIN mapOrphanTransactionsByPrev' \subseteq DOMAIN mapOrphanTransactionsByPrev
    BY <1>6 DEF EraseOrphans, ByPrevWithout
  <2>2. visited' = {}
    BY <1>6 DEF EraseOrphans, OTTypeOK
  <2> QED BY <1>6, <2>1, <2>2 DEF EraseOrphans, OTTypeOK
<1>7. ASSUME UNCHANGED otVars PROVE OTTypeOK'
  BY <1>7 DEF otVars, orphans, handler, OTTypeOK
<1> QED BY <1>1, <1>2, <1>3, <1>4, <1>5, <1>6, <1>7 DEF OTNext

-----------------------------------------------------------------------------
\* The index stays exact.
LEMMA IndexStep ==
  ASSUME OTTypeOK, OrphanIndexExact, [OTNext]_otVars
  PROVE  OrphanIndexExact'
<1> USE OrphanAssumption
<1>1. ASSUME NEW t \in Received, TxMissingInputs(t) PROVE OrphanIndexExact'
  <2>1. PICK E \in Evictable(mapOrphanTransactions \cup {t}) :
           /\ mapOrphanTransactions' = (mapOrphanTransactions \cup {t}) \ E
           /\ mapOrphanTransactionsByPrev' = ByPrevWith(t, E)
    BY <1>1 DEF TxMissingInputs
  <2> DEFINE before(h) == Orphans(h) \cup (IF h \in Prev[t] THEN {t} ELSE {})
  <2>2. /\ \A h \in DOMAIN mapOrphanTransactionsByPrev' : mapOrphanTransactionsByPrev'[h] = before(h) \ E
        /\ \A h \in Received : before(h) \ E # {} => h \in DOMAIN mapOrphanTransactionsByPrev'
    BY <2>1 DEF ByPrevWith, Orphans
  <2>3. ASSUME NEW o \in mapOrphanTransactions', NEW h \in Prev[o] PROVE o \in Orphans(h)'
    <3>1. o \in before(h) \ E
      BY <2>1, <2>3 DEF OrphanIndexExact
    <3>2. h \in Received
      BY <2>1, <2>3 DEF OTTypeOK
    <3> QED BY <3>1, <3>2, <2>2 DEF Orphans
  <2>4. ASSUME NEW h \in DOMAIN mapOrphanTransactionsByPrev', NEW o \in mapOrphanTransactionsByPrev'[h]
        PROVE  o \in mapOrphanTransactions' /\ h \in Prev[o]
    <3>1. o \in before(h) /\ o \notin E
      BY <2>2, <2>4
    <3> QED BY <3>1, <2>1 DEF Orphans, OrphanIndexExact
  <2> QED BY <2>3, <2>4 DEF OrphanIndexExact
<1>2. ASSUME NextPrev PROVE OrphanIndexExact'
  <2>1. /\ mapOrphanTransactions' = mapOrphanTransactions
        /\ \A h : Orphans(h)' = Orphans(h)
    BY <1>2 DEF NextPrev, Orphans
  <2>2. \A h \in DOMAIN mapOrphanTransactionsByPrev' : mapOrphanTransactionsByPrev'[h] = Orphans(h)
    BY <1>2 DEF NextPrev
  <2> QED BY <2>1, <2>2 DEF OrphanIndexExact, Orphans
<1>3. ASSUME EraseOrphans PROVE OrphanIndexExact'
  <2> DEFINE S == vEraseQueue \cap mapOrphanTransactions
  <2>1. mapOrphanTransactions' = mapOrphanTransactions \ S /\ mapOrphanTransactionsByPrev' = ByPrevWithout(S)
    BY <1>3 DEF EraseOrphans
  <2> HIDE DEF S
  <2>2. /\ \A h \in DOMAIN mapOrphanTransactionsByPrev' :
              h \in DOMAIN mapOrphanTransactionsByPrev
              /\ mapOrphanTransactionsByPrev'[h] = mapOrphanTransactionsByPrev[h] \ S
        /\ \A h \in DOMAIN mapOrphanTransactionsByPrev :
              mapOrphanTransactionsByPrev[h] \ S # {} => h \in DOMAIN mapOrphanTransactionsByPrev'
    BY <2>1 DEF ByPrevWithout
  <2> QED BY <2>1, <2>2 DEF OrphanIndexExact, Orphans
<1>4. ASSUME UNCHANGED orphans PROVE OrphanIndexExact'
  BY <1>4 DEF orphans, OrphanIndexExact, Orphans
<1>5. ASSUME NEW t \in Received, TxAccepted(t) \/ RetryOrphan(t) \/ Appear(t) \/ Vanish(t) PROVE UNCHANGED orphans
  BY <1>5 DEF TxAccepted, RetryOrphan, Appear, Vanish
<1>6. ASSUME UNCHANGED otVars PROVE UNCHANGED orphans
  BY <1>6 DEF otVars
<1> QED BY <1>1, <1>2, <1>3, <1>4, <1>5, <1>6 DEF OTNext

-----------------------------------------------------------------------------
\* The promise survives every step.
LEMMA PromiseStep ==
  ASSUME IInv, OTTypeOK', [OTNext]_otVars
  PROVE  Promised'
<1> USE OrphanAssumption DEF IInv
<1> SUFFICES ASSUME NEW o \in mapOrphanTransactions', Acceptable(o)'
             PROVE  \/ o \in vEraseQueue'
                    \/ \E i \in 1..Len(vWorkQueue') : vWorkQueue'[i] \in Prev[o] /\ (i = 1 => o \notin visited')
  BY DEF Promised, Kept
<1>0. o \in Received
  BY DEF OTTypeOK
<1>p. o \in mapOrphanTransactions => Kept(o)
  BY DEF Promised
<1>1. ASSUME NEW t \in Received, TxAccepted(t)
      PROVE  \E i \in 1..Len(vWorkQueue') : vWorkQueue'[i] \in Prev[o] /\ (i = 1 => o \notin visited')
  <2>1. vWorkQueue' = <<t>> /\ visited' = {} /\ silent' = silent /\ have' = have \cup {t}
        /\ o \in mapOrphanTransactions /\ vWorkQueue = <<>> /\ vEraseQueue = {}
    BY <1>1 DEF TxAccepted, OTTypeOK, orphans
  <2>2. ~Acceptable(o)
    BY <2>1, <1>p DEF Kept
  <2>3. t \in Prev[o]
    BY <2>1, <2>2 DEF Acceptable
  <2> QED BY <2>1, <2>3
<1>2. ASSUME NEW t \in Received, TxMissingInputs(t) PROVE FALSE
  <2>1. have' = have /\ silent' = silent /\ vWorkQueue = <<>> /\ vEraseQueue = {} /\ ~(Prev[t] \subseteq have)
        /\ o \in mapOrphanTransactions \cup {t}
    BY <1>2 DEF TxMissingInputs, OTTypeOK, Outcome
  <2>2. Acceptable(o) /\ o # t
    BY <2>1 DEF Acceptable
  <2> QED BY <2>1, <2>2, <1>p DEF Kept
<1>3. ASSUME NEW t \in Received, RetryOrphan(t)
      PROVE  \/ o \in vEraseQueue'
             \/ \E i \in 1..Len(vWorkQueue') : vWorkQueue'[i] \in Prev[o] /\ (i = 1 => o \notin visited')
  <2>1. /\ visited' = visited \cup {t} /\ silent' = silent /\ o \in mapOrphanTransactions
        /\ vWorkQueue # <<>> /\ vEraseQueue \subseteq vEraseQueue' /\ have \subseteq have'
        /\ vWorkQueue \in Seq(Received)
    BY <1>3 DEF RetryOrphan, orphans, OTTypeOK
  <2>2. /\ Len(vWorkQueue) \in Nat /\ Len(vWorkQueue) # 0 /\ Len(vWorkQueue') >= Len(vWorkQueue)
        /\ Len(vWorkQueue') \in Nat
        /\ \A i \in 1..Len(vWorkQueue) : vWorkQueue'[i] = vWorkQueue[i]
    BY <1>3, <2>1 DEF RetryOrphan, Requeued
  <2>3. CASE Acceptable(o)
    <3>1. CASE o \in vEraseQueue
      BY <3>1, <2>1
    <3>2. CASE o = t
      BY <3>2, <2>3, <1>3 DEF RetryOrphan, Outcome, Acceptable
    <3>3. CASE o \notin vEraseQueue /\ o # t
      <4>1. PICK i \in 1..Len(vWorkQueue) : vWorkQueue[i] \in Prev[o] /\ (i = 1 => o \notin visited)
        BY <2>1, <2>3, <3>3, <1>p DEF Kept
      <4>2. i \in 1..Len(vWorkQueue') /\ vWorkQueue'[i] \in Prev[o] /\ (i = 1 => o \notin visited')
        BY <4>1, <2>1, <2>2, <3>3
      <4> QED BY <4>2
    <3> QED BY <3>1, <3>2, <3>3
  <2>4. CASE ~Acceptable(o)
    <3>1. ~(Prev[o] \subseteq have) /\ Prev[o] \subseteq have'
      BY <2>1, <2>4 DEF Acceptable
    <3>2. have' = have \cup {t} /\ vWorkQueue' = Append(vWorkQueue, t)
      BY <3>1, <1>3 DEF RetryOrphan, Requeued
    <3>3. t \in Prev[o]
      BY <3>1, <3>2
    <3>4. Len(vWorkQueue') = Len(vWorkQueue) + 1 /\ vWorkQueue'[Len(vWorkQueue) + 1] = t
      BY <3>2, <2>1
    <3> QED BY <3>3, <3>4, <2>2
  <2> QED BY <2>3, <2>4
<1>4. ASSUME NEW t \in Received, Appear(t) \/ Vanish(t) PROVE FALSE
  <2>1. vWorkQueue = <<>> /\ vEraseQueue = {} /\ o \in mapOrphanTransactions
    BY <1>4 DEF Appear, Vanish, OTTypeOK, orphans
  <2>2. Acceptable(o)
    BY <1>4 DEF Appear, Vanish, Acceptable
  <2> QED BY <2>1, <2>2, <1>p DEF Kept
<1>5. ASSUME NextPrev
      PROVE  \/ o \in vEraseQueue'
             \/ \E i \in 1..Len(vWorkQueue') : vWorkQueue'[i] \in Prev[o] /\ (i = 1 => o \notin visited')
  <2>1. /\ vEraseQueue' = vEraseQueue /\ visited' = {} /\ have' = have /\ silent' = silent
        /\ o \in mapOrphanTransactions /\ vWorkQueue \in Seq(Received) /\ vWorkQueue # <<>>
        /\ vWorkQueue' = Tail(vWorkQueue) /\ Orphans(Head(vWorkQueue)) \subseteq visited
    BY <1>5 DEF NextPrev, OTTypeOK
  <2>2. Acceptable(o)
    BY <2>1 DEF Acceptable
  <2>3. CASE o \in vEraseQueue
    BY <2>3, <2>1
  <2>4. CASE o \notin vEraseQueue
    <3>1. PICK i \in 1..Len(vWorkQueue) : vWorkQueue[i] \in Prev[o] /\ (i = 1 => o \notin visited)
      BY <2>1, <2>2, <2>4, <1>p DEF Kept
    <3>2. i # 1
      BY <3>1, <2>1 DEF OrphanIndexExact
    <3>3. /\ i - 1 \in 1..Len(vWorkQueue') /\ vWorkQueue'[i - 1] = vWorkQueue[i]
      BY <3>1, <3>2, <2>1
    <3> QED BY <3>1, <3>3, <2>1
  <2> QED BY <2>3, <2>4
<1>6. ASSUME EraseOrphans PROVE FALSE
  <2>1. /\ vWorkQueue = <<>> /\ have' = have /\ silent' = silent
        /\ o \in mapOrphanTransactions /\ o \notin vEraseQueue
    BY <1>6 DEF EraseOrphans
  <2>2. Acceptable(o)
    BY <2>1 DEF Acceptable
  <2> QED BY <2>1, <2>2, <1>p DEF Kept
<1>7. ASSUME UNCHANGED otVars PROVE Promised'
  BY <1>7 DEF otVars, orphans, handler, Promised, Kept, Acceptable
<1> QED BY <1>1, <1>2, <1>3, <1>4, <1>5, <1>6, <1>7 DEF OTNext, Promised, Kept

\* The three parts together are inductive.
LEMMA Invariant == OTSpec => []IInv
<1>1. OTInit => IInv
  BY OrphanAssumption DEF OTInit, IInv, OTTypeOK, OrphanIndexExact, Orphans, Promised, Kept
<1>2. IInv /\ [OTNext]_otVars => IInv'
  <2> SUFFICES ASSUME IInv, [OTNext]_otVars PROVE IInv'
    OBVIOUS
  <2>1. OTTypeOK'
    BY TypeStep DEF IInv
  <2>2. OrphanIndexExact'
    BY IndexStep DEF IInv
  <2> QED BY <2>1, <2>2, PromiseStep DEF IInv
<1> QED BY <1>1, <1>2, PTL DEF OTSpec

\* mapOrphanTransactions never holds a transaction over 5000 bytes, and while the
\* "tx" handler is not running both of its queues are empty.
THEOREM TypeCorrect == OTSpec => []OTTypeOK
BY Invariant, PTL DEF IInv

\* The index of the orphans is exact in every reachable state: the handler finds
\* every orphan of an arriving transaction and never follows a pointer to a
\* deleted one.
THEOREM IndexExact == OTSpec => []OrphanIndexExact
BY Invariant, PTL DEF IInv

\* The work queue of the "tx" handler misses no orphan.
THEOREM NoneMissed == OTSpec => []OrphansRetried
<1>1. IInv => OrphansRetried
  <2> SUFFICES ASSUME IInv, pc = "idle", NEW o \in mapOrphanTransactions,
                      Prev[o] \subseteq have, Prev[o] \cap silent = {}
               PROVE  FALSE
    BY DEF OrphansRetried
  <2>1. vWorkQueue = <<>> /\ vEraseQueue = {}
    BY DEF IInv, OTTypeOK
  <2> QED BY <2>1 DEF IInv, Promised, Kept, Acceptable
<1> QED BY <1>1, Invariant, PTL

-----------------------------------------------------------------------------
\* The number of orphans never exceeds MAX_ORPHAN_TRANSACTIONS, whatever the
\* random evictions choose.
THEOREM Bounded == OTSpec => []OrphansBounded
<1> DEFINE Inv == IsFiniteSet(mapOrphanTransactions) /\ OrphansBounded
<1> USE OrphanAssumption
<1>1. OTInit => Inv
  BY FS_EmptySet DEF OTInit, OrphansBounded
<1>2. Inv /\ [OTNext]_otVars => Inv'
  <2> SUFFICES ASSUME Inv, [OTNext]_otVars PROVE Inv'
    OBVIOUS
  <2>1. ASSUME NEW t \in Received, TxMissingInputs(t) PROVE Inv'
    <3>1. PICK E \in Evictable(mapOrphanTransactions \cup {t}) :
             mapOrphanTransactions' = (mapOrphanTransactions \cup {t}) \ E
      BY <2>1 DEF TxMissingInputs
    <3>2. IsFiniteSet(mapOrphanTransactions')
      BY <3>1, FS_AddElement, FS_Subset
    <3> QED BY <3>1, <3>2 DEF Evictable, OrphansBounded
  <2>2. ASSUME EraseOrphans PROVE Inv'
    <3>1. mapOrphanTransactions' \subseteq mapOrphanTransactions
      BY <2>2 DEF EraseOrphans
    <3>2. /\ IsFiniteSet(mapOrphanTransactions')
          /\ Cardinality(mapOrphanTransactions') <= Cardinality(mapOrphanTransactions)
      BY <3>1, FS_Subset
    <3>3. Cardinality(mapOrphanTransactions') \in Nat /\ Cardinality(mapOrphanTransactions) \in Nat
      BY <3>2, FS_CardinalityType
    <3> QED BY <3>2, <3>3 DEF OrphansBounded
  <2>3. ASSUME mapOrphanTransactions' = mapOrphanTransactions PROVE Inv'
    BY <2>3 DEF OrphansBounded
  <2>4. ASSUME NEW t \in Received, TxAccepted(t) \/ RetryOrphan(t) \/ Appear(t) \/ Vanish(t)
        PROVE  mapOrphanTransactions' = mapOrphanTransactions
    BY <2>4 DEF TxAccepted, RetryOrphan, Appear, Vanish, orphans
  <2>5. ASSUME NextPrev \/ UNCHANGED otVars PROVE mapOrphanTransactions' = mapOrphanTransactions
    BY <2>5 DEF NextPrev, otVars, orphans
  <2> QED BY <2>1, <2>2, <2>3, <2>4, <2>5 DEF OTNext
<1> QED BY <1>1, <1>2, PTL DEF OTSpec
=============================================================================
