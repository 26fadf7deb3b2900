------------------------------ MODULE OrphanTx ------------------------------
(***************************************************************************)
(* Transactions whose inputs are unknown: AddOrphanTx, EraseOrphanTx,      *)
(* LimitOrphanTxSize and the "tx" handler of ProcessMessage in             *)
(* src/src/main.cpp, which retries the orphans of a transaction when that  *)
(* transaction arrives.                                                    *)
(*                                                                         *)
(* What accept says is reduced to what the handler tells apart.  `have'    *)
(* holds the ids in the pool or in the coins; it also grows and shrinks by *)
(* blocks, RPC calls and reorganisations, which do not look at orphans.    *)
(* The handler runs under cs_main.                                         *)
(***************************************************************************)
EXTENDS Naturals, Sequences, FiniteSets

CONSTANTS Received,     \* ids of the transactions that may arrive
          Prev,         \* [Received -> ids of the transactions they spend from]
          Invalid,      \* refused when the inputs are there: low fee, bad signature ...
          Big,          \* more than 5000 bytes
          MAX_ORPHAN_TRANSACTIONS

ASSUME OrphanAssumption == /\ Prev \in [Received -> SUBSET Received]
                           /\ MAX_ORPHAN_TRANSACTIONS \in Nat

VARIABLES have,
          mapOrphanTransactions,        \* ids
          mapOrphanTransactionsByPrev,  \* [some ids -> set of orphans]
          pc, vWorkQueue, visited, vEraseQueue,  \* of the handler
          silent   \* ids that came without the handler (history variable)

orphans == <<mapOrphanTransactions, mapOrphanTransactionsByPrev>>
handler == <<pc, vWorkQueue, visited, vEraseQueue>>
otVars == <<have, orphans, handler, silent>>

OTInit == /\ have = {} /\ silent = {}
          /\ mapOrphanTransactions = {} /\ mapOrphanTransactionsByPrev = [h \in {} |-> {}]
          /\ pc = "idle" /\ vWorkQueue = <<>> /\ visited = {} /\ vEraseQueue = {}

-----------------------------------------------------------------------------
\* AcceptToMemoryPool: `missing' sets fMissingInputs.
Outcome(t) == IF t \in have THEN "refused"
              ELSE IF ~(Prev[t] \subseteq have) THEN "missing"
              ELSE IF t \in Invalid THEN "refused" ELSE "accepted"

Orphans(h) == IF h \in DOMAIN mapOrphanTransactionsByPrev THEN mapOrphanTransactionsByPrev[h] ELSE {}

\* EraseOrphanTx for the orphans of S: entries that become empty are erased.
Indexed(S) == UNION {Prev[o] : o \in S}
ByPrevWithoutBug(S) == [h \in DOMAIN mapOrphanTransactionsByPrev \ Indexed(S) |-> mapOrphanTransactionsByPrev[h]]
ByPrevWithout(S) ==
  [h \in {k \in DOMAIN mapOrphanTransactionsByPrev :
            k \in Indexed(S) => ~(mapOrphanTransactionsByPrev[k] \subseteq S)}
     |-> mapOrphanTransactionsByPrev[h] \ S]

\* With the orphan t, and without the evicted ones of E.
ByPrevWith(t, E) ==
  [h \in {k \in DOMAIN mapOrphanTransactionsByPrev \cup Prev[t] :
            k \in Indexed(E) => ~((Orphans(k) \cup (IF k \in Prev[t] THEN {t} ELSE {})) \subseteq E)}
     |-> (Orphans(h) \cup (IF h \in Prev[t] THEN {t} ELSE {})) \ E]

\* AddOrphanTx takes no orphan twice and no big one.
AddOrphanTx(t) == t \notin mapOrphanTransactions /\ t \notin Big

\* LimitOrphanTxSize: any set of orphans, as many as there are too many.
Evictable(S) == {E \in SUBSET S : /\ Cardinality(S \ E) <= MAX_ORPHAN_TRANSACTIONS
                                  /\ E # {} => Cardinality(S \ E) = MAX_ORPHAN_TRANSACTIONS}

-----------------------------------------------------------------------------
(* The "tx" handler.                                                       *)

TxAccepted(t) ==
  /\ pc = "idle" /\ Outcome(t) = "accepted"
  /\ have' = have \cup {t}
  /\ pc' = "retry" /\ vWorkQueue' = <<t>> /\ visited' = {} /\ vEraseQueue' = {t}
  /\ UNCHANGED <<orphans, silent>>

TxMissingInputs(t) ==
  /\ pc = "idle" /\ Outcome(t) = "missing"
  /\ AddOrphanTx(t)
  /\ \E E \in Evictable(mapOrphanTransactions \cup {t}) :
        /\ mapOrphanTransactions' = (mapOrphanTransactions \cup {t}) \ E
        /\ mapOrphanTransactionsByPrev' = ByPrevWith(t, E)
  /\ UNCHANGED <<have, handler, silent>>

\* The orphans of the first id of the queue, in the order of their hashes, which
\* is left open.
RequeuedBug(o) == vWorkQueue
Requeued(o) == Append(vWorkQueue, o)

RetryOrphan(o) ==
  /\ pc = "retry" /\ vWorkQueue # <<>> /\ o \in Orphans(Head(vWorkQueue)) \ visited
  /\ visited' = visited \cup {o}
  /\ IF Outcome(o) = "accepted"
     THEN have' = have \cup {o} /\ vWorkQueue' = Requeued(o)
     ELSE UNCHANGED <<have, vWorkQueue>>
  /\ vEraseQueue' = IF Outcome(o) = "missing" THEN vEraseQueue ELSE vEraseQueue \cup {o}
  /\ UNCHANGED <<orphans, pc, silent>>

\* The next id.  Reading mapOrphanTransactionsByPrev[hashPrev] has made an entry
\* for an id without orphans.
NextPrev ==
  /\ pc = "retry" /\ vWorkQueue # <<>> /\ Orphans(Head(vWorkQueue)) \subseteq visited
  /\ mapOrphanTransactionsByPrev' =
        [h \in DOMAIN mapOrphanTransactionsByPrev \cup {Head(vWorkQueue)} |-> Orphans(h)]
  /\ vWorkQueue' = Tail(vWorkQueue) /\ visited' = {}
  /\ UNCHANGED <<have, mapOrphanTransactions, pc, vEraseQueue, silent>>

\* Only now are orphans erased; ids that are not orphans are skipped.
EraseOrphans ==
  /\ pc = "retry" /\ vWorkQueue = <<>>
  /\ LET S == vEraseQueue \cap mapOrphanTransactions
     IN  /\ mapOrphanTransactions' = mapOrphanTransactions \ S
         /\ mapOrphanTransactionsByPrev' = ByPrevWithout(S)
  /\ pc' = "idle" /\ vEraseQueue' = {}
  /\ UNCHANGED <<have, vWorkQueue, visited, silent>>

-----------------------------------------------------------------------------
(* The rest of the node: a transaction becomes known in a block, by RPC or *)
(* through the wallet, or is unknown again: removed from the pool, or all  *)
(* spent and gone from the coins.                                          *)

Appear(t) == /\ pc = "idle" /\ t \notin have
             /\ have' = have \cup {t} /\ silent' = silent \cup {t}
             /\ UNCHANGED <<orphans, handler>>

Vanish(t) == /\ pc = "idle" /\ t \in have
             /\ have' = have \ {t} /\ silent' = silent \ {t}
             /\ UNCHANGED <<orphans, handler>>

OTNext == \/ \E t \in Received : TxAccepted(t) \/ TxMissingInputs(t) \/ RetryOrphan(t) \/ Appear(t) \/ Vanish(t)
          \/ NextPrev \/ EraseOrphans

OTSpec == OTInit /\ [][OTNext]_otVars

-----------------------------------------------------------------------------
(* Properties.                                                             *)

\* Types; orphans are small, and only ids being retried are in the queues.
OTTypeOK == /\ have \in SUBSET Received /\ silent \in SUBSET Received
            /\ mapOrphanTransactions \in SUBSET (Received \ Big)
            /\ DOMAIN mapOrphanTransactionsByPrev \subseteq Received
            /\ pc \in {"idle", "retry"} /\ vWorkQueue \in Seq(Received)
            /\ visited \in SUBSET Received /\ vEraseQueue \in SUBSET Received
            /\ pc = "idle" => vWorkQueue = <<>> /\ vEraseQueue = {}
            /\ vWorkQueue = <<>> => visited = {}

\* mapOrphanTransactionsByPrev finds every orphan under each transaction it
\* spends from, and points to no orphan that has been deleted.
OrphanIndexExact ==
  /\ \A o \in mapOrphanTransactions : \A h \in Prev[o] : o \in Orphans(h)
  /\ \A h \in DOMAIN mapOrphanTransactionsByPrev :
        \A o \in mapOrphanTransactionsByPrev[h] : o \in mapOrphanTransactions /\ h \in Prev[o]

\* "do not allow mapOrphanTransactions to grow unbounded"
OrphansBounded == Cardinality(mapOrphanTransactions) <= MAX_ORPHAN_TRANSACTIONS

\* The handler's worklist misses no orphan: one that is kept although all its
\* inputs are known has an input that came some other way.
OrphansRetried ==
  pc = "idle" => \A o \in mapOrphanTransactions :
                    Prev[o] \subseteq have => Prev[o] \cap silent # {}
=============================================================================
