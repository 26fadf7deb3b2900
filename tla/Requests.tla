------------------------------ MODULE Requests -------------------------------
(***************************************************************************)
(* How a node gets the transactions its peers announce: the "inv" and "tx" *)
(* handlers and AlreadyHave of src/src/main.cpp, the getdata part of       *)
(* SendMessages, CNode::AskFor of src/src/net.h and mapAlreadyAskedFor.    *)
(* What the same handlers do to announce transactions to other peers       *)
(* (setInventoryKnown, vInventoryToSend) is not read here and left out.    *)
(*                                                                         *)
(* Each handler runs under cs_main.  Times are in ticks (minutes) from     *)
(* now: a request is due at 0.  SendMessages only tries to take cs_main,   *)
(* which a rescan or a long reorganisation holds for minutes: what is due  *)
(* may be sent late, and for several peers at once.  Peers may be silent,  *)
(* answer late, send what was not asked for, and disconnect.               *)
(* What accept says is left open, and so is which orphans are evicted or   *)
(* retried (OrphanTx); blocks, the wallet and RPC calls change the pool    *)
(* and the coins too.                                                      *)
(***************************************************************************)
EXTENDS Integers

CONSTANTS TxIds,
          Peers,
          Honest,       \* peers that answer a getdata
          RETRY,        \* ticks between two requests: 2 * 60 seconds
          MaxAhead,     \* bound: no request is scheduled further ahead
          MaxLate       \* bound: ticks that a request may be overdue

ASSUME RequestsAssumption == /\ Honest \subseteq Peers
                             /\ RETRY \in Nat \ {0} /\ MaxAhead \in Nat /\ MaxLate \in Nat

VARIABLES have,                 \* ids in the pool or in the coins
          mapOrphanTransactions,
          vNodes,               \* the peers connected
          mapAskFor,            \* [Peers -> set of <<time, id>>]
          mapAlreadyAskedFor,   \* [some ids -> time of the last request scheduled]
          asking,    \* <<peer, id>>: a getdata that is not answered
          waiting,   \* <<peer, id>> from AskFor until a message settles it (history)
          elapsed,   \* [TxIds -> ticks since the time of the last request that went out,
                     \* at most LongAgo] (history)
          lapsed     \* ids whose entry in mapAlreadyAskedFor went too early (history)

pool == <<have, mapOrphanTransactions>>
schedule == <<mapAskFor, mapAlreadyAskedFor>>
vars == <<pool, vNodes, schedule, asking, waiting, elapsed, lapsed>>

\* A request of that time is RETRY before any that may still go out.
LongAgo == MaxLate + RETRY

Init == /\ have = {} /\ mapOrphanTransactions = {} /\ vNodes = {}
        /\ mapAskFor = [p \in Peers |-> {}] /\ mapAlreadyAskedFor = [t \in {} |-> 0]
        /\ asking = {} /\ waiting = {} /\ lapsed = {} /\ elapsed = [t \in TxIds |-> LongAgo]

AlreadyHave(t) == t \in have \/ t \in mapOrphanTransactions

-----------------------------------------------------------------------------
(* Connections.                                                            *)

Connect(p) == /\ p \notin vNodes /\ vNodes' = vNodes \cup {p}
              /\ UNCHANGED <<pool, schedule, asking, waiting, elapsed, lapsed>>

\* The CNode is deleted with all it holds; mapAlreadyAskedFor stays.
Without(p, S) == {e \in S : e[1] # p}
Disconnect(p) == /\ p \in vNodes /\ vNodes' = vNodes \ {p}
                 /\ mapAskFor' = [mapAskFor EXCEPT ![p] = {}]
                 /\ asking' = Without(p, asking) /\ waiting' = Without(p, waiting)
                 /\ UNCHANGED <<pool, mapAlreadyAskedFor, elapsed, lapsed>>

-----------------------------------------------------------------------------
(* Requests.                                                               *)

\* "Each retry is 2 minutes after the last"; an id without an entry has 0, long ago.
NextRequest(t) == IF t \in DOMAIN mapAlreadyAskedFor /\ mapAlreadyAskedFor[t] + RETRY > 0
                  THEN mapAlreadyAskedFor[t] + RETRY ELSE 0

AskedBug(t) == [x \in DOMAIN mapAlreadyAskedFor \cup {t} |->
                  IF x \in DOMAIN mapAlreadyAskedFor THEN mapAlreadyAskedFor[x] ELSE NextRequest(t)]
Asked(t) == [x \in DOMAIN mapAlreadyAskedFor \cup {t} |->
               IF x = t THEN NextRequest(t) ELSE mapAlreadyAskedFor[x]]

\* The "inv" handler, for a transaction that is not there: CNode::AskFor.
AskForBug(p, t) == /\ p \in vNodes /\ ~AlreadyHave(t) /\ NextRequest(t) <= MaxAhead
                   /\ mapAlreadyAskedFor' = Asked(t)
                   /\ mapAskFor' = IF NextRequest(t) > 0 THEN mapAskFor
                                   ELSE [mapAskFor EXCEPT ![p] = @ \cup {<<NextRequest(t), t>>}]
                   /\ waiting' = waiting \cup {<<p, t>>}
                   /\ UNCHANGED <<pool, vNodes, asking, elapsed, lapsed>>
AskFor(p, t) == /\ p \in vNodes /\ ~AlreadyHave(t) /\ NextRequest(t) <= MaxAhead
                /\ mapAlreadyAskedFor' = Asked(t)
                /\ mapAskFor' = [mapAskFor EXCEPT ![p] = @ \cup {<<NextRequest(t), t>>}]
                /\ waiting' = waiting \cup {<<p, t>>}
                /\ UNCHANGED <<pool, vNodes, asking, elapsed, lapsed>>

\* The getdata part of SendMessages: what is due is asked for unless it is
\* there by now, and taken off the list in both cases.
Due(p) == {e \in mapAskFor[p] : e[1] <= 0}
Needed(p) == {e[2] : e \in {d \in Due(p) : ~AlreadyHave(d[2])}}
Unneeded(p) == {e[2] : e \in {d \in Due(p) : AlreadyHave(d[2])}}

\* The time of the last request for t, if those of S go out.
Latest(S, t) == CHOOSE n \in 0..LongAgo :
                  /\ n = elapsed[t] \/ <<-n, t>> \in S
                  /\ n <= elapsed[t] /\ \A e \in S : e[2] = t => n <= -e[1]

SendGetData(p) == /\ p \in vNodes /\ Due(p) # {}
                  /\ asking' = asking \cup ({p} \X Needed(p))
                  /\ elapsed' = [t \in TxIds |-> IF t \in Needed(p) THEN Latest(Due(p), t) ELSE elapsed[t]]
                  /\ waiting' = waiting \ ({p} \X Unneeded(p))
                  /\ mapAskFor' = [mapAskFor EXCEPT ![p] = @ \ Due(p)]
                  /\ UNCHANGED <<pool, vNodes, mapAlreadyAskedFor, lapsed>>

\* A minute passes.  How much more than RETRY ticks ago something was makes no
\* difference.
Tick == /\ \A p \in vNodes : \A e \in mapAskFor[p] : e[1] > -MaxLate
        /\ mapAskFor' = [p \in Peers |-> {<<e[1] - 1, e[2]>> : e \in mapAskFor[p]}]
        /\ mapAlreadyAskedFor' = [t \in DOMAIN mapAlreadyAskedFor |->
                                    IF mapAlreadyAskedFor[t] = -RETRY THEN -RETRY
                                    ELSE mapAlreadyAskedFor[t] - 1]
        /\ elapsed' = [t \in TxIds |-> IF elapsed[t] = LongAgo THEN LongAgo ELSE elapsed[t] + 1]
        /\ UNCHANGED <<pool, vNodes, asking, waiting, lapsed>>

-----------------------------------------------------------------------------
\* Entries leave mapAlreadyAskedFor; requests that are scheduled, or went out
\* for a time less than RETRY ago, are then not counted any more.
Outstanding(t) == elapsed[t] < RETRY \/ \E p \in Peers : \E e \in mapAskFor[p] : e[2] = t

Forget(t) == /\ mapAlreadyAskedFor' = [x \in DOMAIN mapAlreadyAskedFor \ {t} |-> mapAlreadyAskedFor[x]]
             /\ lapsed' = IF Outstanding(t) THEN lapsed \cup {t} ELSE lapsed

\* limitedmap::insert of some other id, when MAX_INV_SZ ids are there.
Overflow(t) == /\ t \in DOMAIN mapAlreadyAskedFor /\ Forget(t)
               /\ UNCHANGED <<pool, vNodes, mapAskFor, asking, waiting, elapsed>>

-----------------------------------------------------------------------------
(* The "tx" handler.                                                       *)

\* p sends t, asked for or not.
Arrives(p, t) == /\ p \in vNodes
                 /\ asking' = asking \ {<<p, t>>}
                 /\ waiting' = {e \in waiting : e[2] # t}
                 /\ UNCHANGED <<vNodes, mapAskFor, elapsed>>

\* An orphan may be sent again, and be accepted; it is erased in the end.
TxAccepted(p, t) == /\ t \notin have /\ Arrives(p, t)
                    /\ have' = have \cup {t} /\ mapOrphanTransactions' = mapOrphanTransactions \ {t}
                    /\ Forget(t)

\* Inputs are missing: AddOrphanTx, then LimitOrphanTxSize, which may take any.
TxMissingInputs(p, t) == /\ t \notin have /\ Arrives(p, t)
                         /\ mapOrphanTransactions' \in SUBSET (mapOrphanTransactions \cup {t})
                         /\ UNCHANGED <<have, mapAlreadyAskedFor, lapsed>>

TxRefused(p, t) == /\ Arrives(p, t)
                   /\ UNCHANGED <<pool, mapAlreadyAskedFor, lapsed>>

\* A parent of the orphan t was accepted, and now t is.
OrphanAccepted(t) == /\ t \in mapOrphanTransactions \ have
                     /\ have' = have \cup {t} /\ mapOrphanTransactions' = mapOrphanTransactions \ {t}
                     /\ Forget(t)
                     /\ UNCHANGED <<vNodes, mapAskFor, asking, waiting, elapsed>>

\* Another orphan comes and LimitOrphanTxSize takes t, or a parent came and t is
\* invalid.
OrphanErased(t) == /\ t \in mapOrphanTransactions
                   /\ mapOrphanTransactions' = mapOrphanTransactions \ {t}
                   /\ UNCHANGED <<have, vNodes, schedule, asking, waiting, elapsed, lapsed>>

\* The rest of the node: t comes in a block, or leaves the pool or the coins.
Appear(t) == /\ t \notin have /\ have' = have \cup {t}
             /\ UNCHANGED <<mapOrphanTransactions, vNodes, schedule, asking, waiting, elapsed, lapsed>>
Vanish(t) == /\ t \in have /\ have' = have \ {t}
             /\ UNCHANGED <<mapOrphanTransactions, vNodes, schedule, asking, waiting, elapsed, lapsed>>

-----------------------------------------------------------------------------
Next ==
  \/ Tick
  \/ \E p \in Peers : Connect(p) \/ Disconnect(p) \/ SendGetData(p)
  \/ \E p \in Peers, t \in TxIds : \/ AskFor(p, t)
                                   \/ TxAccepted(p, t) \/ TxMissingInputs(p, t) \/ TxRefused(p, t)
  \/ \E t \in TxIds : \/ OrphanAccepted(t) \/ OrphanErased(t) \/ Appear(t) \/ Vanish(t) \/ Overflow(t)

Spec == Init /\ [][Next]_vars

\* ThreadMessageHandler comes to each peer again and again, and no one keeps cs_main
\* for ever; a minute ends; honest peers answer.
Answer(p) == \E t \in TxIds : /\ <<p, t>> \in asking
                              /\ TxAccepted(p, t) \/ TxMissingInputs(p, t) \/ TxRefused(p, t)

Fairness == /\ SF_vars(Tick)
            /\ \A p \in Peers : WF_vars(SendGetData(p))
            /\ \A p \in Honest : WF_vars(Answer(p))

FairSpec == Spec /\ Fairness

-----------------------------------------------------------------------------
(* Properties.                                                             *)

\* Types; only connected peers have requests.
TypeOK == /\ have \subseteq TxIds /\ mapOrphanTransactions \subseteq TxIds /\ vNodes \subseteq Peers
          /\ mapAskFor \in [Peers -> SUBSET ((-MaxLate..MaxAhead) \X TxIds)]
          /\ \A p \in Peers \ vNodes : mapAskFor[p] = {}
          /\ DOMAIN mapAlreadyAskedFor \subseteq TxIds
          /\ mapAlreadyAskedFor \in [DOMAIN mapAlreadyAskedFor -> -RETRY..MaxAhead]
          /\ asking \subseteq vNodes \X TxIds /\ waiting \subseteq vNodes \X TxIds
          /\ elapsed \in [TxIds -> 0..LongAgo] /\ lapsed \subseteq TxIds

Apart(m, n) == m - n >= RETRY \/ n - m >= RETRY

\* "Each retry is 2 minutes after the last": the times at which requests for one
\* transaction are to go out, whichever peers they go to, are RETRY apart from each
\* other and from that of the last one that went out, unless the transaction's entry has
\* left mapAlreadyAskedFor in between.  (When cs_main is held the requests themselves
\* may go out in one pass.)
RequestsSpaced ==
  \A t \in TxIds \ lapsed : \A p \in Peers : \A m \in -MaxLate..MaxAhead :
     <<m, t>> \in mapAskFor[p] =>
       /\ Apart(m, -elapsed[t])
       /\ \A q \in Peers : \A n \in -MaxLate..MaxAhead :
             <<n, t>> \in mapAskFor[q] => <<p, m>> = <<q, n>> \/ Apart(m, n)

\* Whatever silent peers and evictions do, an announcement by a peer that
\* answers and stays is settled: the transaction arrives or is there.
Fetched == \A p \in Honest, t \in TxIds :
             <<p, t>> \in waiting ~> <<p, t>> \notin waiting \/ AlreadyHave(t)
=============================================================================
