------------------------------ MODULE NetProofs ------------------------------
(***************************************************************************)
(* Two results on what a node keeps about the network.                     *)
(*                                                                         *)
(* Requests: the times at which requests for one transaction are to go out *)
(* are RETRY ticks apart, for any number of peers and transactions and any *)
(* retry interval, however late they go out.  RInv is the inductive        *)
(* invariant.                                                              *)
(*                                                                         *)
(* AddrMan: the indexes, counters and buckets of the address manager agree *)
(* in every reachable state, for any addresses, sources, buckets and       *)
(* limits.  Sound is the inductive invariant.  The lemmas first treat the  *)
(* parts of the object as plain functions and sequences, then each         *)
(* operation, then the file.                                               *)
(***************************************************************************)
EXTENDS Requests, AddrMan, FiniteSetTheorems, SequenceTheorems, WellFoundedInduction, TLAPS

\* A request for t is scheduled at peer p in x ticks.
At(p, x, t) == <<x, t>> \in mapAskFor[p]

\* Scheduled requests are RETRY ticks apart, also at different peers.
AllApart(t) == \A p, q \in Peers, x, y \in -MaxLate..MaxAhead :
                 At(p, x, t) /\ At(q, y, t) => (p = q /\ x = y) \/ Apart(x, y)

\* mapAlreadyAskedFor has a time that is not before any of them.
Counted(t) == \A p \in Peers, x \in -MaxLate..MaxAhead :
                At(p, x, t) => t \in DOMAIN mapAlreadyAskedFor /\ x <= mapAlreadyAskedFor[t]

\* Each is RETRY ticks apart from the last that went out, which may be a later one.
Clear(t) == \A p \in Peers, x \in -MaxLate..MaxAhead : At(p, x, t) => Apart(x, -elapsed[t])

\* mapAlreadyAskedFor remembers that one for long enough.
Recent(t) == elapsed[t] < RETRY => t \in DOMAIN mapAlreadyAskedFor /\ mapAlreadyAskedFor[t] >= -elapsed[t]

Spaced == \A t \in TxIds \ lapsed : AllApart(t) /\ Counted(t) /\ Clear(t) /\ Recent(t)

\* The inductive invariant.
RInv == TypeOK /\ Spaced

-----------------------------------------------------------------------------
\* Initially nothing is scheduled.
LEMMA InitHolds == ASSUME Init PROVE RInv
<1>1. TypeOK
  <2>1. mapAskFor \in [Peers -> SUBSET ((-MaxLate..MaxAhead) \X TxIds)] /\ \A p \in Peers : mapAskFor[p] = {}
    BY DEF Init
  <2>2. DOMAIN mapAlreadyAskedFor = {} /\ mapAlreadyAskedFor \in [DOMAIN mapAlreadyAskedFor -> -RETRY..MaxAhead]
    BY DEF Init
  <2>3. elapsed \in [TxIds -> 0..LongAgo]
    BY RequestsAssumption DEF Init, LongAgo
  <2> QED
    BY <2>1, <2>2, <2>3 DEF Init, TypeOK
<1>2. Spaced
  <2>1. \A p \in Peers, x \in -MaxLate..MaxAhead, t \in TxIds : ~At(p, x, t)
    BY DEF Init, At
  <2>2. \A t \in TxIds : elapsed[t] = LongAgo
    BY DEF Init
  <2>3. \A t \in TxIds : AllApart(t) /\ Counted(t) /\ Clear(t)
    BY <2>1 DEF AllApart, Counted, Clear
  <2>4. \A t \in TxIds : Recent(t)
    BY <2>2, RequestsAssumption DEF Recent, LongAgo
  <2> QED
    BY <2>3, <2>4 DEF Spaced
<1> QED
  BY <1>1, <1>2 DEF RInv

\* A step that changes neither schedule nor clock preserves the spacing.
LEMMA QuietStep ==
  ASSUME Spaced, UNCHANGED <<mapAskFor, mapAlreadyAskedFor, elapsed, lapsed>>
  PROVE  Spaced'
  BY DEF Spaced, AllApart, Counted, Clear, Recent, At

\* So does one that only takes requests off the schedule.
LEMMA FewerStep ==
  ASSUME Spaced, UNCHANGED <<mapAlreadyAskedFor, elapsed, lapsed>>,
         \A p \in Peers : mapAskFor'[p] \subseteq mapAskFor[p]
  PROVE  Spaced'
  BY DEF Spaced, AllApart, Counted, Clear, Recent, At

\* An entry that leaves mapAlreadyAskedFor is either not needed any more or its id has lapsed.
LEMMA ForgetStep ==
  ASSUME TypeOK, Spaced, NEW t \in TxIds, Forget(t), UNCHANGED <<mapAskFor, elapsed>>
  PROVE  Spaced'
<1>1. lapsed \subseteq lapsed' /\ lapsed' \subseteq lapsed \cup {t}
  BY DEF Forget
<1>2. \A x \in TxIds \ {t} : /\ x \in DOMAIN mapAlreadyAskedFor' <=> x \in DOMAIN mapAlreadyAskedFor
                             /\ x \in DOMAIN mapAlreadyAskedFor => mapAlreadyAskedFor'[x] = mapAlreadyAskedFor[x]
  BY DEF Forget
<1>3. ASSUME NEW x \in TxIds \ lapsed', x # t PROVE (AllApart(x) /\ Counted(x) /\ Clear(x) /\ Recent(x))'
  BY <1>1, <1>2, <1>3 DEF Spaced, AllApart, Counted, Clear, Recent, At
<1>4. ASSUME t \notin lapsed' PROVE (AllApart(t) /\ Counted(t) /\ Clear(t) /\ Recent(t))'
  <2>1. ~Outstanding(t)
    BY <1>4 DEF Forget
  <2>2. elapsed[t] \in Nat /\ elapsed[t] >= RETRY
    BY <2>1, RequestsAssumption DEF Outstanding, TypeOK, LongAgo
  <2>3. \A p \in Peers, x \in -MaxLate..MaxAhead : ~At(p, x, t)
    BY <2>1 DEF Outstanding, At
  <2> QED
    BY <2>2, <2>3, RequestsAssumption DEF AllApart, Counted, Clear, Recent, At
<1> QED
  BY <1>3, <1>4 DEF Spaced

-----------------------------------------------------------------------------
\* AskFor schedules a request RETRY ticks after all others.
LEMMA AskForStep ==
  ASSUME RInv, NEW p \in Peers, NEW t \in TxIds, AskFor(p, t)
  PROVE  RInv'
<1> DEFINE n == NextRequest(t)
<1>1. n \in 0..MaxAhead /\ n \in -MaxLate..MaxAhead /\ (t \in DOMAIN mapAlreadyAskedFor => n >= mapAlreadyAskedFor[t] + RETRY)
  BY RequestsAssumption DEF AskFor, NextRequest, RInv, TypeOK
<1>2. /\ DOMAIN mapAlreadyAskedFor' = DOMAIN mapAlreadyAskedFor \cup {t}
      /\ mapAlreadyAskedFor'[t] = n
      /\ \A x \in DOMAIN mapAlreadyAskedFor \ {t} : mapAlreadyAskedFor'[x] = mapAlreadyAskedFor[x]
      /\ UNCHANGED <<pool, vNodes, asking, elapsed, lapsed>>
  BY DEF AskFor, Asked
<1>3. mapAskFor' = [mapAskFor EXCEPT ![p] = @ \cup {<<n, t>>}] /\ p \in vNodes
  BY DEF AskFor
<1> HIDE DEF n
<1>4. TypeOK'
  <2>1. mapAskFor' \in [Peers -> SUBSET ((-MaxLate..MaxAhead) \X TxIds)] /\ \A q \in Peers \ vNodes : mapAskFor'[q] = {}
    BY <1>1, <1>3 DEF RInv, TypeOK
  <2>2. mapAlreadyAskedFor' \in [DOMAIN mapAlreadyAskedFor' -> -RETRY..MaxAhead]
    <3>1. \A x \in DOMAIN mapAlreadyAskedFor' : mapAlreadyAskedFor'[x] \in -RETRY..MaxAhead
      BY <1>1, <1>2, RequestsAssumption DEF RInv, TypeOK
    <3>2. mapAlreadyAskedFor' = [x \in DOMAIN mapAlreadyAskedFor' |-> mapAlreadyAskedFor'[x]]
      BY DEF AskFor, Asked
    <3> QED
      BY <3>1, <3>2
  <2>3. waiting' \subseteq vNodes \X TxIds
    BY <1>3 DEF AskFor, RInv, TypeOK
  <2> QED
    BY <1>2, <2>1, <2>2, <2>3 DEF RInv, TypeOK, pool
<1>5. Spaced'
  <2>0. \A q \in Peers, x \in -MaxLate..MaxAhead, u \in TxIds :
          At(q, x, u)' <=> At(q, x, u) \/ (q = p /\ x = n /\ u = t)
    BY <1>1, <1>3 DEF At, RInv, TypeOK
  <2>1. ASSUME NEW u \in TxIds \ lapsed', u # t PROVE (AllApart(u) /\ Counted(u) /\ Clear(u) /\ Recent(u))'
    <3>1. \A q \in Peers, x \in -MaxLate..MaxAhead : At(q, x, u)' <=> At(q, x, u)
      BY <2>0, <2>1
    <3>2. AllApart(u) /\ Counted(u) /\ Clear(u) /\ Recent(u)
      BY <1>2, <2>1 DEF RInv, Spaced
    <3> QED
      BY <1>2, <2>1, <3>1, <3>2 DEF AllApart, Counted, Clear, Recent
  <2>2. ASSUME t \notin lapsed' PROVE (AllApart(t) /\ Counted(t) /\ Clear(t) /\ Recent(t))'
    <3>1. AllApart(t) /\ Counted(t) /\ Clear(t) /\ Recent(t)
      BY <1>2, <2>2 DEF RInv, Spaced
    <3>2. \A q \in Peers, x \in -MaxLate..MaxAhead : At(q, x, t) => n >= x + RETRY
      <4> SUFFICES ASSUME NEW q \in Peers, NEW x \in -MaxLate..MaxAhead, At(q, x, t) PROVE n >= x + RETRY
        OBVIOUS
      <4>1. t \in DOMAIN mapAlreadyAskedFor /\ x <= mapAlreadyAskedFor[t] /\ mapAlreadyAskedFor[t] \in -RETRY..MaxAhead
        BY <3>1 DEF Counted, RInv, TypeOK
      <4> QED
        BY <1>1, <4>1, RequestsAssumption
    <3>3. elapsed[t] \in Nat /\ n >= RETRY - elapsed[t]
      <4>1. CASE elapsed[t] < RETRY
        BY <1>1, <3>1, <4>1, RequestsAssumption DEF Recent, RInv, TypeOK, LongAgo
      <4>2. CASE ~(elapsed[t] < RETRY)
        BY <1>1, <4>2, RequestsAssumption DEF RInv, TypeOK, LongAgo
      <4> QED
        BY <4>1, <4>2
    <3>4. AllApart(t)'
      BY <1>1, <2>0, <3>1, <3>2, RequestsAssumption DEF AllApart, Apart
    <3>5. Counted(t)'
      BY <1>1, <1>2, <2>0, <3>1, <3>2, RequestsAssumption DEF Counted
    <3>6. Clear(t)'
      BY <1>1, <1>2, <2>0, <3>1, <3>3, RequestsAssumption DEF Clear, Apart
    <3>7. Recent(t)'
      BY <1>1, <1>2, <3>3, RequestsAssumption DEF Recent
    <3> QED
      BY <3>4, <3>5, <3>6, <3>7
  <2> QED
    BY <2>1, <2>2 DEF Spaced
<1> QED
  BY <1>4, <1>5 DEF RInv

\* Every non-empty set of natural numbers has a least element.
LEMMA LeastOf ==
  ASSUME NEW T \in SUBSET Nat, T # {}
  PROVE  \E x \in T : \A y \in T : x <= y
<1> DEFINE Less == OpToRel(<, Nat)
<1>1. IsWellFoundedOn(Less, Nat)
  BY NatLessThanWellFounded
<1>2. \A x, y \in Nat : <<y, x>> \in Less <=> y < x
  BY DEF OpToRel
<1> HIDE DEF Less
<1>3. PICK x \in T : \A y \in T : ~(<<y, x>> \in Less)
  BY <1>1, WFMin
<1>4. \A y \in T : ~(y < x)
  BY <1>2, <1>3
<1> QED
  BY <1>3, <1>4

\* What a due request is.
LEMMA DueIs ==
  ASSUME TypeOK, NEW p \in Peers, NEW e \in Due(p)
  PROVE  e \in mapAskFor[p] /\ e[1] \in -MaxLate..0 /\ e[1] \in -MaxLate..MaxAhead /\ e[2] \in TxIds /\ e = <<e[1], e[2]>>
<1>1. e \in (-MaxLate..MaxAhead) \X TxIds /\ e \in mapAskFor[p] /\ e[1] <= 0
  BY DEF Due, TypeOK
<1> QED
  BY <1>1, RequestsAssumption

\* The last request that went out for t is the one before, or one that goes out now.
LEMMA LatestIs ==
  ASSUME TypeOK, NEW p \in Peers, NEW t \in TxIds
  PROVE  /\ Latest(Due(p), t) \in 0..LongAgo
         /\ \/ Latest(Due(p), t) = elapsed[t]
            \/ -Latest(Due(p), t) \in -MaxLate..MaxAhead /\ <<-Latest(Due(p), t), t>> \in Due(p)
<1> DEFINE S == {n \in 0..LongAgo : n = elapsed[t] \/ <<-n, t>> \in Due(p)}
<1>1. S \in SUBSET Nat /\ elapsed[t] \in S
  BY RequestsAssumption DEF LongAgo, TypeOK
<1>2. PICK m \in S : \A n \in S : m <= n
  BY <1>1, LeastOf
<1>3. \A e \in Due(p) : e[2] = t => m <= -e[1]
  <2> SUFFICES ASSUME NEW e \in Due(p), e[2] = t PROVE m <= -e[1]
    OBVIOUS
  <2>1. e[1] \in -MaxLate..0 /\ e = <<e[1], t>>
    BY DueIs
  <2>2. -e[1] \in 0..LongAgo /\ -(-e[1]) = e[1]
    BY <2>1, RequestsAssumption DEF LongAgo
  <2>3. -e[1] \in S
    BY <2>1, <2>2
  <2> QED
    BY <1>2, <2>3
<1>4. m \in 0..LongAgo /\ (m = elapsed[t] \/ <<-m, t>> \in Due(p)) /\ m <= elapsed[t]
  BY <1>1, <1>2
<1> HIDE DEF S
<1>5. /\ Latest(Due(p), t) \in 0..LongAgo
      /\ Latest(Due(p), t) = elapsed[t] \/ <<-Latest(Due(p), t), t>> \in Due(p)
  BY <1>3, <1>4 DEF Latest
<1>6. ASSUME <<-Latest(Due(p), t), t>> \in Due(p) PROVE -Latest(Due(p), t) \in -MaxLate..MaxAhead
  BY <1>6, DueIs
<1> QED
  BY <1>5, <1>6

\* What SendMessages sends and takes off the schedule.
LEMMA SendStep ==
  ASSUME RInv, NEW p \in Peers, SendGetData(p)
  PROVE  RInv'
<1>0. TypeOK
  BY DEF RInv
<1>1. /\ mapAskFor' = [mapAskFor EXCEPT ![p] = @ \ Due(p)]
      /\ UNCHANGED <<pool, vNodes, mapAlreadyAskedFor, lapsed>> /\ p \in vNodes
      /\ \A t \in TxIds : elapsed'[t] = IF t \in Needed(p) THEN Latest(Due(p), t) ELSE elapsed[t]
  BY DEF SendGetData
<1>2. \A q \in Peers, x \in -MaxLate..MaxAhead, t \in TxIds :
        At(q, x, t)' => At(q, x, t) /\ (q = p => <<x, t>> \notin Due(p))
  BY <1>0, <1>1 DEF At, TypeOK
<1>3. TypeOK'
  <2>1. mapAskFor' \in [Peers -> SUBSET ((-MaxLate..MaxAhead) \X TxIds)] /\ \A q \in Peers \ vNodes : mapAskFor'[q] = {}
    BY <1>0, <1>1 DEF TypeOK
  <2>2. Needed(p) \subseteq TxIds /\ Unneeded(p) \subseteq TxIds
    BY <1>0, DueIs DEF Needed, Unneeded
  <2>3. asking' \subseteq vNodes \X TxIds /\ waiting' \subseteq vNodes \X TxIds
    BY <1>0, <1>1, <2>2 DEF SendGetData, TypeOK
  <2>4. elapsed' \in [TxIds -> 0..LongAgo]
    <3>1. \A t \in TxIds : Latest(Due(p), t) \in 0..LongAgo /\ elapsed[t] \in 0..LongAgo
      BY <1>0, LatestIs DEF TypeOK
    <3> QED
      BY <3>1 DEF SendGetData
  <2> QED
    BY <1>0, <1>1, <2>1, <2>3, <2>4 DEF TypeOK, pool
<1>4. Spaced'
  <2> SUFFICES ASSUME NEW t \in TxIds \ lapsed PROVE (AllApart(t) /\ Counted(t) /\ Clear(t) /\ Recent(t))'
    BY <1>1 DEF Spaced
  <2>1. AllApart(t) /\ Counted(t) /\ Clear(t) /\ Recent(t)
    BY DEF RInv, Spaced
  <2>2. AllApart(t)' /\ Counted(t)'
    BY <1>1, <1>2, <2>1 DEF AllApart, Counted
  <2>3. CASE elapsed'[t] = elapsed[t]
    BY <1>1, <1>2, <2>1, <2>2, <2>3 DEF Clear, Recent
  <2>4. CASE elapsed'[t] # elapsed[t]
    <3> DEFINE x == -elapsed'[t]
    <3>1. elapsed'[t] \in 0..LongAgo /\ x \in -MaxLate..MaxAhead /\ <<x, t>> \in Due(p)
      BY <1>0, <1>1, <2>4, LatestIs
    <3>2. At(p, x, t)
      BY <3>1 DEF At, Due
    <3> HIDE DEF x
    <3>3. \A q \in Peers, y \in -MaxLate..MaxAhead : At(q, y, t)' => Apart(y, x)
      BY <1>2, <2>1, <3>1, <3>2 DEF AllApart
    <3>4. t \in DOMAIN mapAlreadyAskedFor /\ x <= mapAlreadyAskedFor[t]
      BY <2>1, <3>1, <3>2 DEF Counted
    <3>5. mapAlreadyAskedFor[t] \in Int
      BY <1>0, <3>4, RequestsAssumption DEF TypeOK
    <3>6. Clear(t)'
      BY <3>3 DEF Clear, x
    <3>7. Recent(t)'
      BY <1>1, <3>1, <3>4, <3>5 DEF Recent, x
    <3> QED
      BY <2>2, <3>6, <3>7
  <2> QED
    BY <2>3, <2>4
<1> QED
  BY <1>3, <1>4 DEF RInv

\* A tick moves everything on; what is overdue stays within MaxLate.
LEMMA TickStep == ASSUME RInv, Tick PROVE RInv'
<1>0. TypeOK /\ UNCHANGED <<pool, vNodes, asking, waiting, lapsed>>
  BY DEF RInv, Tick
<1>1. \A p \in Peers : \A e \in mapAskFor[p] : e[1] > -MaxLate
  BY <1>0 DEF Tick, TypeOK
<1>2. \A p \in Peers : mapAskFor'[p] = {<<e[1] - 1, e[2]>> : e \in mapAskFor[p]}
  BY DEF Tick
<1>3. \A p \in Peers, x \in -MaxLate..MaxAhead, t \in TxIds : At(p, x, t)' => x + 1 \in -MaxLate..MaxAhead /\ At(p, x + 1, t)
  <2> SUFFICES ASSUME NEW p \in Peers, NEW x \in -MaxLate..MaxAhead, NEW t \in TxIds, At(p, x, t)'
               PROVE x + 1 \in -MaxLate..MaxAhead /\ At(p, x + 1, t)
    OBVIOUS
  <2>1. PICK e \in mapAskFor[p] : <<x, t>> = <<e[1] - 1, e[2]>>
    BY <1>2 DEF At
  <2>2. e \in (-MaxLate..MaxAhead) \X TxIds
    BY <1>0 DEF TypeOK
  <2>3. e[1] = x + 1 /\ e[2] = t /\ e = <<x + 1, t>>
    BY <2>1, <2>2
  <2> QED
    BY <2>2, <2>3 DEF At
<1>4. /\ DOMAIN mapAlreadyAskedFor' = DOMAIN mapAlreadyAskedFor
      /\ mapAlreadyAskedFor' \in [DOMAIN mapAlreadyAskedFor -> -RETRY..MaxAhead]
      /\ \A t \in DOMAIN mapAlreadyAskedFor :
           mapAlreadyAskedFor'[t] = IF mapAlreadyAskedFor[t] = -RETRY THEN -RETRY ELSE mapAlreadyAskedFor[t] - 1
  BY <1>0, RequestsAssumption DEF Tick, TypeOK
<1>5. /\ elapsed' \in [TxIds -> 0..LongAgo]
      /\ \A t \in TxIds : elapsed'[t] = IF elapsed[t] = LongAgo THEN LongAgo ELSE elapsed[t] + 1
  BY <1>0, RequestsAssumption DEF Tick, TypeOK, LongAgo
<1>6. TypeOK'
  <2>1. \A p \in Peers : mapAskFor'[p] \subseteq (-MaxLate..MaxAhead) \X TxIds
    <3> SUFFICES ASSUME NEW p \in Peers, NEW e \in mapAskFor[p]
                 PROVE  <<e[1] - 1, e[2]>> \in (-MaxLate..MaxAhead) \X TxIds
      BY <1>2
    <3>1. e \in (-MaxLate..MaxAhead) \X TxIds /\ e[1] > -MaxLate
      BY <1>0, <1>1 DEF TypeOK
    <3> QED
      BY <3>1, RequestsAssumption
  <2>2. mapAskFor' \in [Peers -> SUBSET ((-MaxLate..MaxAhead) \X TxIds)]
    BY <2>1 DEF Tick
  <2>3. \A p \in Peers \ vNodes : mapAskFor'[p] = {}
    BY <1>0, <1>2 DEF TypeOK
  <2> QED
    BY <1>0, <1>4, <1>5, <2>2, <2>3 DEF TypeOK, pool
<1>7. Spaced'
  <2> SUFFICES ASSUME NEW t \in TxIds \ lapsed PROVE (AllApart(t) /\ Counted(t) /\ Clear(t) /\ Recent(t))'
    BY <1>0 DEF Spaced
  <2>1. AllApart(t) /\ Counted(t) /\ Clear(t) /\ Recent(t) /\ elapsed[t] \in 0..LongAgo
    BY <1>0 DEF RInv, Spaced, TypeOK
  <2>2. AllApart(t)'
    <3> SUFFICES ASSUME NEW p \in Peers, NEW q \in Peers, NEW x \in -MaxLate..MaxAhead, NEW y \in -MaxLate..MaxAhead,
                        At(p, x, t)', At(q, y, t)'
                 PROVE (p = q /\ x = y) \/ Apart(x, y)
      BY DEF AllApart
    <3>1. x + 1 \in -MaxLate..MaxAhead /\ At(p, x + 1, t) /\ y + 1 \in -MaxLate..MaxAhead /\ At(q, y + 1, t)
      BY <1>3
    <3>2. (p = q /\ x + 1 = y + 1) \/ Apart(x + 1, y + 1)
      BY <2>1, <3>1 DEF AllApart
    <3> QED
      BY <3>2, RequestsAssumption DEF Apart
  <2>3. Counted(t)'
    <3> SUFFICES ASSUME NEW p \in Peers, NEW x \in -MaxLate..MaxAhead, At(p, x, t)'
                 PROVE t \in DOMAIN mapAlreadyAskedFor' /\ x <= mapAlreadyAskedFor'[t]
      BY DEF Counted
    <3>1. x + 1 \in -MaxLate..MaxAhead /\ t \in DOMAIN mapAlreadyAskedFor /\ x + 1 <= mapAlreadyAskedFor[t]
      BY <1>3, <2>1 DEF Counted
    <3>2. mapAlreadyAskedFor[t] \in -RETRY..MaxAhead
      BY <1>0, <3>1 DEF TypeOK
    <3> QED
      BY <1>4, <3>1, <3>2, RequestsAssumption
  <2>4. Clear(t)'
    <3> SUFFICES ASSUME NEW p \in Peers, NEW x \in -MaxLate..MaxAhead, At(p, x, t)'
                 PROVE Apart(x, -elapsed'[t])
      BY DEF Clear
    <3>1. Apart(x + 1, -elapsed[t])
      BY <1>3, <2>1 DEF Clear
    <3>2. CASE elapsed[t] = LongAgo
      BY <1>5, <3>2, RequestsAssumption DEF Apart, LongAgo
    <3>3. CASE elapsed[t] # LongAgo
      BY <1>5, <2>1, <3>1, <3>3, RequestsAssumption DEF Apart, LongAgo
    <3> QED
      BY <3>2, <3>3
  <2>5. Recent(t)'
    <3> SUFFICES ASSUME elapsed'[t] < RETRY
                 PROVE t \in DOMAIN mapAlreadyAskedFor' /\ mapAlreadyAskedFor'[t] >= -elapsed'[t]
      BY DEF Recent
    <3>1. elapsed[t] < RETRY /\ elapsed'[t] = elapsed[t] + 1
      BY <1>5, <2>1, RequestsAssumption DEF LongAgo
    <3>2. t \in DOMAIN mapAlreadyAskedFor /\ mapAlreadyAskedFor[t] >= -elapsed[t] /\ mapAlreadyAskedFor[t] \in -RETRY..MaxAhead
      BY <1>0, <2>1, <3>1 DEF Recent, TypeOK
    <3> QED
      BY <1>4, <2>1, <3>1, <3>2, RequestsAssumption DEF LongAgo
  <2> QED
    BY <2>2, <2>3, <2>4, <2>5
<1> QED
  BY <1>6, <1>7 DEF RInv

-----------------------------------------------------------------------------
\* What the "tx" handler does in every case.
LEMMA ArrivesTypes ==
  ASSUME TypeOK, NEW p \in Peers, NEW t \in TxIds, Arrives(p, t)
  PROVE  /\ asking' \subseteq vNodes' \X TxIds /\ waiting' \subseteq vNodes' \X TxIds
         /\ UNCHANGED <<vNodes, mapAskFor, elapsed>>
  BY DEF Arrives, TypeOK

\* Forgetting an id keeps the types.
LEMMA ForgetTypes ==
  ASSUME TypeOK, NEW t \in TxIds, Forget(t)
  PROVE  /\ DOMAIN mapAlreadyAskedFor' \subseteq TxIds /\ lapsed' \subseteq TxIds
         /\ mapAlreadyAskedFor' \in [DOMAIN mapAlreadyAskedFor' -> -RETRY..MaxAhead]
  BY DEF Forget, TypeOK

\* The invariant is inductive.
LEMMA StepHolds == ASSUME RInv, [Next]_vars PROVE RInv'
<1>0. TypeOK /\ Spaced
  BY DEF RInv
<1>1. CASE Tick
  BY <1>1, TickStep
<1>2. ASSUME NEW p \in Peers, Connect(p) PROVE RInv'
  <2>1. Spaced'
    BY <1>0, <1>2, QuietStep DEF Connect, schedule
  <2> QED
    BY <1>0, <1>2, <2>1 DEF Connect, RInv, TypeOK, pool, schedule
<1>3. ASSUME NEW p \in Peers, Disconnect(p) PROVE RInv'
  <2>1. \A q \in Peers : mapAskFor'[q] \subseteq mapAskFor[q]
    BY <1>0, <1>3 DEF Disconnect, TypeOK
  <2>2. Spaced'
    BY <1>0, <1>3, <2>1, FewerStep DEF Disconnect
  <2>3. mapAskFor' \in [Peers -> SUBSET ((-MaxLate..MaxAhead) \X TxIds)] /\ \A q \in Peers \ vNodes' : mapAskFor'[q] = {}
    BY <1>0, <1>3 DEF Disconnect, TypeOK
  <2>4. asking' \subseteq vNodes' \X TxIds /\ waiting' \subseteq vNodes' \X TxIds
    BY <1>0, <1>3 DEF Disconnect, Without, TypeOK
  <2> QED
    BY <1>0, <1>3, <2>2, <2>3, <2>4 DEF Disconnect, RInv, TypeOK, pool
<1>4. ASSUME NEW p \in Peers, SendGetData(p) PROVE RInv'
  BY <1>4, SendStep
<1>5. ASSUME NEW p \in Peers, NEW t \in TxIds, AskFor(p, t) PROVE RInv'
  BY <1>5, AskForStep
<1>6. ASSUME NEW p \in Peers, NEW t \in TxIds, TxAccepted(p, t) PROVE RInv'
  <2>1. Forget(t) /\ Arrives(p, t)
    BY <1>6 DEF TxAccepted
  <2>2. Spaced'
    BY <1>0, <2>1, ForgetStep DEF Arrives
  <2> QED
    BY <1>0, <1>6, <2>1, <2>2, ArrivesTypes, ForgetTypes DEF TxAccepted, RInv, TypeOK
<1>7. ASSUME NEW p \in Peers, NEW t \in TxIds, TxMissingInputs(p, t) \/ TxRefused(p, t) PROVE RInv'
  <2>1. Arrives(p, t) /\ UNCHANGED <<have, mapAlreadyAskedFor, lapsed>>
    BY <1>7 DEF TxMissingInputs, TxRefused, pool
  <2>2. Spaced'
    BY <1>0, <2>1, QuietStep DEF Arrives
  <2>3. mapOrphanTransactions' \subseteq TxIds
    BY <1>0, <1>7 DEF TxMissingInputs, TxRefused, pool, TypeOK
  <2> QED
    BY <1>0, <2>1, <2>2, <2>3, ArrivesTypes DEF RInv, TypeOK
<1>8. ASSUME NEW t \in TxIds, OrphanAccepted(t) PROVE RInv'
  <2>1. Spaced'
    BY <1>0, <1>8, ForgetStep DEF OrphanAccepted
  <2> QED
    BY <1>0, <1>8, <2>1, ForgetTypes DEF OrphanAccepted, RInv, TypeOK
<1>9. ASSUME NEW t \in TxIds, Overflow(t) PROVE RInv'
  <2>1. Spaced'
    BY <1>0, <1>9, ForgetStep DEF Overflow
  <2> QED
    BY <1>0, <1>9, <2>1, ForgetTypes DEF Overflow, RInv, TypeOK, pool
<1>10. ASSUME NEW t \in TxIds, OrphanErased(t) \/ Appear(t) \/ Vanish(t) PROVE RInv'
  <2>1. UNCHANGED <<vNodes, schedule, asking, waiting, elapsed, lapsed>>
    BY <1>10 DEF OrphanErased, Appear, Vanish
  <2>2. have' \subseteq TxIds /\ mapOrphanTransactions' \subseteq TxIds
    BY <1>0, <1>10 DEF OrphanErased, Appear, Vanish, TypeOK
  <2>3. Spaced'
    BY <1>0, <2>1, QuietStep DEF schedule
  <2> QED
    BY <1>0, <2>1, <2>2, <2>3 DEF RInv, TypeOK, schedule
<1>11. CASE UNCHANGED vars
  <2>1. Spaced'
    BY <1>0, <1>11, QuietStep DEF vars, schedule
  <2> QED
    BY <1>0, <1>11, <2>1 DEF vars, pool, schedule, RInv, TypeOK
<1> QED
  BY <1>1, <1>2, <1>3, <1>4, <1>5, <1>6, <1>7, <1>8, <1>9, <1>10, <1>11 DEF Next

-----------------------------------------------------------------------------
\* The inductive invariant holds.
THEOREM SpacedInvariant == Spec => []RInv
<1>1. Init => RInv
  BY InitHolds
<1>2. RInv /\ [Next]_vars => RInv'
  BY StepHolds
<1> QED
  BY <1>1, <1>2, PTL DEF Spec

\* The times for which AskFor schedules requests for one transaction, whichever peers
\* they go to, stay RETRY ticks apart from each other and from that of the last request
\* that went out, however long SendMessages fails to take cs_main, as long as the
\* transaction's entry stays in mapAlreadyAskedFor.
THEOREM AreSpaced == Spec => []RequestsSpaced
<1>1. ASSUME RInv PROVE RequestsSpaced
  <2> SUFFICES ASSUME NEW t \in TxIds \ lapsed, NEW p \in Peers, NEW m \in -MaxLate..MaxAhead, <<m, t>> \in mapAskFor[p]
               PROVE /\ Apart(m, -elapsed[t])
                     /\ \A q \in Peers : \A n \in -MaxLate..MaxAhead :
                           <<n, t>> \in mapAskFor[q] => <<p, m>> = <<q, n>> \/ Apart(m, n)
    BY DEF RequestsSpaced
  <2>1. AllApart(t) /\ Clear(t)
    BY <1>1 DEF RInv, Spaced
  <2> QED
    BY <2>1 DEF AllApart, Clear, At
<1>2. RInv => RequestsSpaced
  BY <1>1
<1> QED
  BY <1>2, SpacedInvariant, PTL

-----------------------------------------------------------------------------
(* The parts of the invariant, for entries I, an index A by address, the   *)
(* random order R, tried buckets V and new buckets N.                      *)

Entry == [addr : Addrs, source : Sources, fInTried : BOOLEAN, nRefCount : Int, nRandomPos : Int]
Object(t) == t \in [nIdCount : Nat, mapInfo : [DOMAIN t.mapInfo -> Entry], mapAddr : [DOMAIN t.mapAddr -> Int],
                    vRandom : Seq(Int), nTried : Int, vvTried : [TriedBuckets -> Seq(Int)],
                    nNew : Int, vvNew : [NewBuckets -> SUBSET Int]]
Entries(I) == I \in [DOMAIN I -> Entry] /\ DOMAIN I \subseteq Nat

\* mapAddr finds every entry, and no other.
Found(I, A) == /\ DOMAIN A \subseteq Addrs
               /\ \A a \in DOMAIN A : A[a] \in DOMAIN I /\ I[A[a]].addr = a
               /\ \A i \in DOMAIN I : I[i].addr \in DOMAIN A /\ A[I[i].addr] = i

\* vRandom lists every entry once, at its nRandomPos.
Listed(I, R) == /\ R \in Seq(Int)
                /\ \A i \in DOMAIN I : I[i].nRandomPos \in 1..Len(R) /\ R[I[i].nRandomPos] = i
                /\ \A p \in 1..Len(R) : R[p] \in DOMAIN I /\ I[R[p]].nRandomPos = p

\* The tried buckets hold every tried entry once, in its bucket.
InTried(I, V) ==
  /\ V \in [TriedBuckets -> Seq(Int)]
  /\ \A b \in TriedBuckets : \A p \in 1..Len(V[b]) :
        V[b][p] \in DOMAIN I /\ I[V[b][p]].fInTried /\ GetTriedBucket[I[V[b][p]].addr] = b
  /\ \A b \in TriedBuckets : \A p, q \in 1..Len(V[b]) : V[b][p] = V[b][q] => p = q
  /\ \A i \in DOMAIN I : I[i].fInTried =>
        \E p \in 1..Len(V[GetTriedBucket[I[i].addr]]) : V[GetTriedBucket[I[i].addr]][p] = i

\* The new buckets hold every other entry as often as it counts.
Held(N, i) == {b \in NewBuckets : i \in N[b]}
InNew(I, N) ==
  /\ N \in [NewBuckets -> SUBSET DOMAIN I]
  /\ \A i \in DOMAIN I : IF I[i].fInTried THEN I[i].nRefCount = 0 /\ Held(N, i) = {}
                         ELSE I[i].nRefCount = Cardinality(Held(N, i)) /\ I[i].nRefCount \in 1..NEW_BUCKETS_PER_ADDRESS

\* nTried and nNew count them.
Tried(I) == {i \in DOMAIN I : I[i].fInTried}
New(I) == {i \in DOMAIN I : I[i].nRefCount # 0}
Tallied(I, n, m) == n = Cardinality(Tried(I)) /\ m = Cardinality(New(I))

\* Neither kind of bucket is too large.
Small(V, N) == /\ \A b \in NewBuckets : Cardinality(N[b]) <= NEW_BUCKET_SIZE
               /\ \A b \in TriedBuckets : Len(V[b]) <= TRIED_BUCKET_SIZE

\* All but the sizes of the new buckets.
Exact(I, A, R, n, V, m, N) == /\ Entries(I) /\ IsFiniteSet(DOMAIN I)
                              /\ Found(I, A) /\ Listed(I, R) /\ InTried(I, V) /\ InNew(I, N) /\ Tallied(I, n, m)

\* The same entries in another order.
Alike(I, J) == /\ DOMAIN J = DOMAIN I /\ J \in [DOMAIN J -> Entry]
               /\ \A i \in DOMAIN I : /\ J[i].addr = I[i].addr /\ J[i].source = I[i].source
                                      /\ J[i].fInTried = I[i].fInTried /\ J[i].nRefCount = I[i].nRefCount

\* One element more or less.
LEMMA OneAdded ==
  ASSUME NEW S, IsFiniteSet(S), NEW x, x \notin S, NEW T, T = S \cup {x}
  PROVE  IsFiniteSet(T) /\ Cardinality(T) = Cardinality(S) + 1
BY FS_AddElement
LEMMA OneTaken ==
  ASSUME NEW S, IsFiniteSet(S), NEW x \in S, NEW T, T = S \ {x}
  PROVE  IsFiniteSet(T) /\ Cardinality(T) = Cardinality(S) - 1
BY FS_RemoveElement

\* The tried buckets depend on the addresses and on what is tried.
LEMMA TriedKeeps ==
  ASSUME NEW I, NEW J, DOMAIN J = DOMAIN I,
         \A i \in DOMAIN I : J[i].addr = I[i].addr /\ J[i].fInTried = I[i].fInTried,
         NEW V, InTried(I, V)
  PROVE  InTried(J, V)
<1>1. \A b \in TriedBuckets : \A p \in 1..Len(V[b]) :
        V[b][p] \in DOMAIN J /\ J[V[b][p]].fInTried /\ GetTriedBucket[J[V[b][p]].addr] = b
  BY DEF InTried
<1>2. \A i \in DOMAIN J : J[i].fInTried =>
        \E p \in 1..Len(V[GetTriedBucket[J[i].addr]]) : V[GetTriedBucket[J[i].addr]][p] = i
  BY DEF InTried
<1> QED BY <1>1, <1>2 DEF InTried

\* Only vRandom depends on the order of the entries.
LEMMA AlikeKeeps ==
  ASSUME NEW I, NEW J, Alike(I, J), NEW A, NEW V, NEW N, NEW n, NEW m
  PROVE  /\ Entries(I) => Entries(J)
         /\ Found(I, A) => Found(J, A)
         /\ InTried(I, V) => InTried(J, V)
         /\ InNew(I, N) => InNew(J, N)
         /\ Tallied(I, n, m) => Tallied(J, n, m)
<1>1. Entries(I) => Entries(J)
  BY DEF Alike, Entries
<1>2. Found(I, A) => Found(J, A)
  BY DEF Alike, Found
<1>3. InTried(I, V) => InTried(J, V)
  BY TriedKeeps DEF Alike
<1>4. InNew(I, N) => InNew(J, N)
  <2> SUFFICES ASSUME InNew(I, N) PROVE InNew(J, N)
    OBVIOUS
  <2>1. N \in [NewBuckets -> SUBSET DOMAIN J]
    BY DEF Alike, InNew
  <2>2. ASSUME NEW i \in DOMAIN J
        PROVE IF J[i].fInTried THEN J[i].nRefCount = 0 /\ Held(N, i) = {}
              ELSE J[i].nRefCount = Cardinality(Held(N, i)) /\ J[i].nRefCount \in 1..NEW_BUCKETS_PER_ADDRESS
    <3>1. i \in DOMAIN I /\ J[i].fInTried = I[i].fInTried /\ J[i].nRefCount = I[i].nRefCount
      BY <2>2 DEF Alike
    <3> QED BY <3>1 DEF InNew
  <2> QED BY <2>1, <2>2 DEF InNew
<1>5. Tallied(I, n, m) => Tallied(J, n, m)
  <2>1. Tried(J) = Tried(I) /\ New(J) = New(I)
    BY DEF Alike, Tried, New
  <2> QED BY <2>1 DEF Tallied
<1> QED BY <1>1, <1>2, <1>3, <1>4, <1>5

\* An entry with another position.
LEMMA Moved ==
  ASSUME NEW e \in Entry, NEW p \in Int
  PROVE  LET d == [e EXCEPT !.nRandomPos = p]
         IN  /\ d \in Entry /\ d.addr = e.addr /\ d.source = e.source
             /\ d.fInTried = e.fInTried /\ d.nRefCount = e.nRefCount /\ d.nRandomPos = p
BY DEF Entry

\* What SwapRandom makes of the entries and of vRandom.
SwapI(I, R, p, q) == IF p = q THEN I ELSE [I EXCEPT ![R[p]].nRandomPos = q, ![R[q]].nRandomPos = p]
SwapR(R, p, q) == IF p = q THEN R ELSE [R EXCEPT ![p] = R[q], ![q] = R[p]]

LEMMA SwapPoint ==
  ASSUME NEW I, NEW R, Entries(I), Listed(I, R), NEW p \in 1..Len(R), NEW q \in 1..Len(R), p # q
  PROVE  /\ SwapI(I, R, p, q) \in [DOMAIN I -> Entry]
         /\ DOMAIN SwapI(I, R, p, q) = DOMAIN I
         /\ \A i \in DOMAIN I : LET J == SwapI(I, R, p, q)
                               IN  /\ J[i].addr = I[i].addr /\ J[i].source = I[i].source
                                   /\ J[i].fInTried = I[i].fInTried /\ J[i].nRefCount = I[i].nRefCount
                                   /\ J[i].nRandomPos = IF i = R[p] THEN q ELSE IF i = R[q] THEN p ELSE I[i].nRandomPos
<1>1. R[p] \in DOMAIN I /\ R[q] \in DOMAIN I /\ R[p] # R[q] /\ p \in Int /\ q \in Int
  BY DEF Listed
<1> DEFINE J == SwapI(I, R, p, q)
           d == [I[R[p]] EXCEPT !.nRandomPos = q]
           e == [I[R[q]] EXCEPT !.nRandomPos = p]
<1>2. J = [i \in DOMAIN I |-> IF i = R[p] THEN d ELSE IF i = R[q] THEN e ELSE I[i]]
  BY <1>1 DEF SwapI, Entries
<1>3. I[R[p]] \in Entry /\ I[R[q]] \in Entry
  BY <1>1 DEF Entries
<1>4. /\ d \in Entry /\ d.addr = I[R[p]].addr /\ d.source = I[R[p]].source
      /\ d.fInTried = I[R[p]].fInTried /\ d.nRefCount = I[R[p]].nRefCount /\ d.nRandomPos = q
  BY <1>1, <1>3, Moved
<1>5. /\ e \in Entry /\ e.addr = I[R[q]].addr /\ e.source = I[R[q]].source
      /\ e.fInTried = I[R[q]].fInTried /\ e.nRefCount = I[R[q]].nRefCount /\ e.nRandomPos = p
  BY <1>1, <1>3, Moved
<1> HIDE DEF J, d, e
<1>6. J \in [DOMAIN I -> Entry]
  BY <1>2, <1>4, <1>5 DEF Entries
<1>7. \A i \in DOMAIN I : /\ J[i].addr = I[i].addr /\ J[i].source = I[i].source
                          /\ J[i].fInTried = I[i].fInTried /\ J[i].nRefCount = I[i].nRefCount
                          /\ J[i].nRandomPos = IF i = R[p] THEN q ELSE IF i = R[q] THEN p ELSE I[i].nRandomPos
  BY <1>2, <1>4, <1>5
<1> QED BY <1>6, <1>7 DEF J

LEMMA SwapParts ==
  ASSUME NEW t, Object(t), Entries(t.mapInfo), Listed(t.mapInfo, t.vRandom),
         NEW p \in 1..Len(t.vRandom), NEW q \in 1..Len(t.vRandom)
  PROVE  LET u == SwapRandom(t, p, q)
         IN  /\ Object(u)
             /\ u.mapInfo = SwapI(t.mapInfo, t.vRandom, p, q) /\ u.vRandom = SwapR(t.vRandom, p, q)
             /\ u.nIdCount = t.nIdCount /\ u.mapAddr = t.mapAddr
             /\ u.nTried = t.nTried /\ u.vvTried = t.vvTried /\ u.nNew = t.nNew /\ u.vvNew = t.vvNew
<1>1. CASE p = q
  BY <1>1 DEF SwapRandom, SwapI, SwapR
<1>2. CASE p # q
  <2> DEFINE u == SwapRandom(t, p, q)
  <2>1. /\ u.mapInfo = SwapI(t.mapInfo, t.vRandom, p, q) /\ u.vRandom = SwapR(t.vRandom, p, q)
        /\ u.nIdCount = t.nIdCount /\ u.mapAddr = t.mapAddr
        /\ u.nTried = t.nTried /\ u.vvTried = t.vvTried /\ u.nNew = t.nNew /\ u.vvNew = t.vvNew
    BY <1>2 DEF SwapRandom, SwapI, SwapR, Object
  <2>2. u = [nIdCount |-> u.nIdCount, mapInfo |-> u.mapInfo, mapAddr |-> u.mapAddr, vRandom |-> u.vRandom,
             nTried |-> u.nTried, vvTried |-> u.vvTried, nNew |-> u.nNew, vvNew |-> u.vvNew]
    BY <1>2 DEF SwapRandom, Object
  <2>3. SwapI(t.mapInfo, t.vRandom, p, q) \in [DOMAIN t.mapInfo -> Entry]
    BY <1>2, SwapPoint
  <2>4. SwapR(t.vRandom, p, q) \in Seq(Int)
    BY <1>2 DEF SwapR, Object
  <2> HIDE DEF u
  <2>5. Object(u)
    BY <2>1, <2>2, <2>3, <2>4 DEF Object
  <2> QED BY <2>1, <2>5 DEF u
<1> QED BY <1>1, <1>2

\* A swap keeps vRandom and the positions together.
LEMMA SwapListed ==
  ASSUME NEW I, NEW R, Entries(I), Listed(I, R), NEW p \in 1..Len(R), NEW q \in 1..Len(R)
  PROVE  /\ Alike(I, SwapI(I, R, p, q))
         /\ Listed(SwapI(I, R, p, q), SwapR(R, p, q))
         /\ Len(SwapR(R, p, q)) = Len(R)
<1>1. CASE p = q
  BY <1>1 DEF SwapI, SwapR, Alike, Entries
<1>2. CASE p # q
  <2> DEFINE J == SwapI(I, R, p, q)
             S == SwapR(R, p, q)
  <2>1. R[p] \in DOMAIN I /\ R[q] \in DOMAIN I /\ R[p] # R[q]
    BY <1>2 DEF Listed
  <2>2. Alike(I, J)
    BY <1>2, <2>1, SwapPoint DEF Alike
  <2>3. S \in Seq(Int) /\ Len(S) = Len(R) /\ S[p] = R[q] /\ S[q] = R[p]
        /\ \A k \in 1..Len(R) : k # p /\ k # q => S[k] = R[k]
    BY <1>2 DEF SwapR, Listed
  <2>4. J[R[p]].nRandomPos = q /\ J[R[q]].nRandomPos = p
        /\ \A i \in DOMAIN I : i # R[p] /\ i # R[q] => J[i].nRandomPos = I[i].nRandomPos
    BY <1>2, <2>1, SwapPoint
  <2>5. DOMAIN J = DOMAIN I
    BY <2>2 DEF Alike
  <2> HIDE DEF J, S
  <2>6. Listed(J, S)
    <3>1. ASSUME NEW i \in DOMAIN I PROVE J[i].nRandomPos \in 1..Len(S) /\ S[J[i].nRandomPos] = i
      <4>1. CASE i = R[p] BY <4>1, <2>3, <2>4
      <4>2. CASE i = R[q] BY <4>2, <2>3, <2>4
      <4>3. CASE i # R[p] /\ i # R[q]
        <5>1. J[i].nRandomPos = I[i].nRandomPos /\ I[i].nRandomPos \in 1..Len(R) /\ R[I[i].nRandomPos] = i
          BY <4>3, <2>4 DEF Listed
        <5> QED BY <5>1, <4>3, <2>3
      <4> QED BY <4>1, <4>2, <4>3
    <3>2. ASSUME NEW k \in 1..Len(R) PROVE S[k] \in DOMAIN I /\ J[S[k]].nRandomPos = k
      <4>1. CASE k = p BY <4>1, <2>1, <2>3, <2>4
      <4>2. CASE k = q BY <4>2, <2>1, <2>3, <2>4
      <4>3. CASE k # p /\ k # q
        <5>1. S[k] = R[k] /\ R[k] \in DOMAIN I /\ I[R[k]].nRandomPos = k
          BY <4>3, <2>3 DEF Listed
        <5>2. R[k] # R[p] /\ R[k] # R[q]
          BY <4>3, <5>1 DEF Listed
        <5> QED BY <5>1, <5>2, <2>4
      <4> QED BY <4>1, <4>2, <4>3
    <3> QED BY <3>1, <3>2, <2>3, <2>5 DEF Listed
  <2> QED BY <2>2, <2>3, <2>6 DEF J, S
<1> QED BY <1>1, <1>2

\* The entry at the end of vRandom is forgotten: x is in no bucket any more.
Minus(f, x) == [i \in DOMAIN f \ {x} |-> f[i]]
LEMMA LastGoes ==
  ASSUME NEW I, NEW A, NEW R, Entries(I), Found(I, A), Listed(I, R), Len(R) > 0,
         NEW x, x = R[Len(R)]
  PROVE  /\ Entries(Minus(I, x)) /\ Found(Minus(I, x), Minus(A, I[x].addr))
         /\ Listed(Minus(I, x), SubSeq(R, 1, Len(R) - 1))
<1>1. Len(R) \in Nat \ {0} /\ Len(R) \in 1..Len(R)
  BY DEF Listed
<1>2. x \in DOMAIN I /\ I[x].nRandomPos = Len(R)
  BY <1>1 DEF Listed
<1>3. Entries(Minus(I, x))
  BY DEF Entries, Minus
<1>4. Found(Minus(I, x), Minus(A, I[x].addr))
  BY <1>2 DEF Found, Minus
<1> DEFINE S == SubSeq(R, 1, Len(R) - 1)
<1>5. S \in Seq(Int) /\ Len(S) = Len(R) - 1 /\ \A k \in 1..(Len(R) - 1) : S[k] = R[k]
  <2> DEFINE n == Len(R) - 1
  <2>1. R \in Seq(Int) /\ 1 \in 1..Len(R) + 1 /\ n \in 1 - 1 .. Len(R) /\ n \in Nat
    BY <1>1 DEF Listed
  <2> HIDE DEF n
  <2>2. SubSeq(R, 1, n) \in Seq(Int) /\ Len(SubSeq(R, 1, n)) = n /\ \A k \in 1..n : SubSeq(R, 1, n)[k] = R[k]
    BY <2>1, SubSeqProperties
  <2> QED BY <2>2 DEF n
<1> HIDE DEF S
<1>6. \A i \in DOMAIN I \ {x} : I[i].nRandomPos \in 1..(Len(R) - 1)
  <2> TAKE i \in DOMAIN I \ {x}
  <2>1. I[i].nRandomPos \in 1..Len(R) /\ R[I[i].nRandomPos] = i
    BY DEF Listed
  <2> QED BY <2>1, <1>1
<1>7. \A k \in 1..(Len(R) - 1) : R[k] \in DOMAIN I /\ I[R[k]].nRandomPos = k /\ R[k] # x
  BY <1>1, <1>2 DEF Listed
<1>8. Listed(Minus(I, x), S)
  BY <1>1, <1>5, <1>6, <1>7 DEF Listed, Minus
<1> QED BY <1>3, <1>4, <1>8 DEF S

\* A new entry at the end.
Plus(f, x, v) == [i \in DOMAIN f \cup {x} |-> IF i = x THEN v ELSE f[i]]
LEMMA NewComes ==
  ASSUME NEW I, NEW A, NEW R, Entries(I), Found(I, A), Listed(I, R), NEW x \in Nat, x \notin DOMAIN I,
         NEW e \in Entry, e.addr \notin DOMAIN A, e.nRandomPos = Len(R) + 1
  PROVE  /\ Entries(Plus(I, x, e)) /\ Found(Plus(I, x, e), Plus(A, e.addr, x))
         /\ Listed(Plus(I, x, e), Append(R, x))
<1>1. Len(R) \in Nat
  BY DEF Listed
<1>2. Entries(Plus(I, x, e))
  BY DEF Entries, Plus
<1>3. e.addr \in Addrs
  BY DEF Entry
<1>4. Found(Plus(I, x, e), Plus(A, e.addr, x))
  BY <1>3 DEF Found, Plus
<1> DEFINE S == Append(R, x)
<1>5. S \in Seq(Int) /\ Len(S) = Len(R) + 1 /\ S[Len(R) + 1] = x /\ \A k \in 1..Len(R) : S[k] = R[k]
  BY <1>1 DEF Listed
<1> HIDE DEF S
<1>6. Listed(Plus(I, x, e), S)
  <2>1. ASSUME NEW i \in DOMAIN I \cup {x}
        PROVE  Plus(I, x, e)[i].nRandomPos \in 1..Len(S) /\ S[Plus(I, x, e)[i].nRandomPos] = i
    BY <1>1, <1>5 DEF Listed, Plus
  <2>2. ASSUME NEW k \in 1..Len(S)
        PROVE  S[k] \in DOMAIN I \cup {x} /\ Plus(I, x, e)[S[k]].nRandomPos = k
    <3>1. CASE k = Len(R) + 1
      BY <3>1, <1>5 DEF Plus
    <3>2. CASE k \in 1..Len(R)
      <4>1. S[k] = R[k] /\ R[k] \in DOMAIN I /\ I[R[k]].nRandomPos = k
        BY <3>2, <1>5 DEF Listed
      <4> QED BY <4>1 DEF Plus
    <3> QED BY <3>1, <3>2, <1>1, <1>5
  <2>3. DOMAIN Plus(I, x, e) = DOMAIN I \cup {x}
    BY DEF Plus
  <2> QED BY <1>5, <2>1, <2>2, <2>3 DEF Listed
<1> QED BY <1>2, <1>4, <1>6 DEF S

-----------------------------------------------------------------------------
(* New buckets.                                                            *)

\* J is I but for the reference count of x.
Recount(I, J, x, c) ==
  /\ DOMAIN J = DOMAIN I /\ J \in [DOMAIN I -> Entry]
  /\ \A i \in DOMAIN I : /\ J[i].addr = I[i].addr /\ J[i].source = I[i].source
                         /\ J[i].fInTried = I[i].fInTried /\ J[i].nRandomPos = I[i].nRandomPos
                         /\ J[i].nRefCount = IF i = x THEN c ELSE I[i].nRefCount
LEMMA Recounted ==
  ASSUME NEW I, Entries(I), NEW x \in DOMAIN I, NEW c \in Int
  PROVE  Recount(I, [I EXCEPT ![x].nRefCount = c], x, c)
<1> DEFINE J == [I EXCEPT ![x].nRefCount = c]
           d == [I[x] EXCEPT !.nRefCount = c]
<1>1. I[x] \in Entry
  BY DEF Entries
<1>2. /\ d \in Entry /\ d.addr = I[x].addr /\ d.source = I[x].source
      /\ d.fInTried = I[x].fInTried /\ d.nRandomPos = I[x].nRandomPos /\ d.nRefCount = c
  BY <1>1 DEF Entry
<1>3. J = [i \in DOMAIN I |-> IF i = x THEN d ELSE I[i]]
  BY DEF Entries
<1> HIDE DEF J, d
<1>4. J \in [DOMAIN I -> Entry]
  BY <1>2, <1>3 DEF Entries
<1>5. Recount(I, J, x, c)
  BY <1>2, <1>3, <1>4 DEF Recount
<1> QED BY <1>5 DEF J

\* The indexes and the tried buckets do not depend on the counts.
LEMMA RecountKeeps ==
  ASSUME NEW I, Entries(I), NEW x, NEW c, NEW J, Recount(I, J, x, c), NEW A, NEW R, NEW V
  PROVE  /\ Entries(J)
         /\ Found(I, A) => Found(J, A)
         /\ Listed(I, R) => Listed(J, R)
         /\ InTried(I, V) => InTried(J, V)
<1>1. /\ J \in [DOMAIN I -> Entry] /\ DOMAIN J = DOMAIN I
      /\ \A i \in DOMAIN I : /\ J[i].addr = I[i].addr /\ J[i].source = I[i].source
                             /\ J[i].fInTried = I[i].fInTried /\ J[i].nRandomPos = I[i].nRandomPos
  BY DEF Recount
<1>2. Entries(J)
  BY <1>1 DEF Entries
<1>3. Found(I, A) => Found(J, A)
  BY <1>1 DEF Found
<1>4. Listed(I, R) => Listed(J, R)
  BY <1>1 DEF Listed
<1>5. InTried(I, V) => InTried(J, V)
  BY <1>1, TriedKeeps
<1> QED BY <1>1, <1>2, <1>3, <1>4, <1>5

\* The buckets that hold an entry are finitely many.
LEMMA HeldFinite ==
  ASSUME NEW N, NEW i
  PROVE  /\ IsFiniteSet(Held(N, i)) /\ Cardinality(Held(N, i)) \in Nat
         /\ Cardinality(Held(N, i)) <= Cardinality(NewBuckets)
         /\ Cardinality(Held(N, i)) = 0 <=> Held(N, i) = {}
<1>1. Held(N, i) \in SUBSET NewBuckets /\ IsFiniteSet(NewBuckets)
  BY AddrManAssumption DEF Held
<1>2. IsFiniteSet(Held(N, i)) /\ Cardinality(Held(N, i)) <= Cardinality(NewBuckets)
  BY <1>1, FS_Subset
<1>3. Cardinality(Held(N, i)) = 0 <=> Held(N, i) = {}
  BY <1>2, FS_EmptySet
<1>4. Cardinality(Held(N, i)) \in Nat
  BY <1>2, FS_CardinalityType
<1> QED BY <1>2, <1>3, <1>4

\* One bucket more or less.
Put(N, M, b, x) == M[b] = N[b] \cup {x} /\ \A c \in NewBuckets \ {b} : M[c] = N[c]
Take(N, M, b, x) == M[b] = N[b] \ {x} /\ \A c \in NewBuckets \ {b} : M[c] = N[c]
LEMMA HeldPut ==
  ASSUME NEW N, NEW b \in NewBuckets, NEW x, x \notin N[b], NEW M, Put(N, M, b, x)
  PROVE  /\ \A i : i # x => Held(M, i) = Held(N, i)
         /\ Cardinality(Held(M, x)) = Cardinality(Held(N, x)) + 1
<1>1. \A i : i # x => Held(M, i) = Held(N, i)
  BY DEF Held, Put
<1>2. Held(M, x) = Held(N, x) \cup {b} /\ b \notin Held(N, x)
  BY DEF Held, Put
<1>3. Cardinality(Held(N, x) \cup {b}) = Cardinality(Held(N, x)) + 1
  BY <1>2, HeldFinite, FS_AddElement
<1> QED BY <1>1, <1>2, <1>3
LEMMA HeldTake ==
  ASSUME NEW N, NEW b \in NewBuckets, NEW x, x \in N[b], NEW M, Take(N, M, b, x)
  PROVE  /\ \A i : i # x => Held(M, i) = Held(N, i)
         /\ Cardinality(Held(M, x)) = Cardinality(Held(N, x)) - 1
<1>1. \A i : i # x => Held(M, i) = Held(N, i)
  BY DEF Held, Take
<1>2. Held(M, x) = Held(N, x) \ {b} /\ b \in Held(N, x)
  BY DEF Held, Take
<1>3. Cardinality(Held(N, x) \ {b}) = Cardinality(Held(N, x)) - 1
  BY <1>2, HeldFinite, FS_RemoveElement
<1> QED BY <1>1, <1>2, <1>3

\* A known entry goes into one more bucket.
LEMMA OneMore ==
  ASSUME NEW I, NEW A, NEW R, NEW n, NEW V, NEW m, NEW N, Exact(I, A, R, n, V, m, N),
         NEW x \in DOMAIN I, ~I[x].fInTried, I[x].nRefCount # NEW_BUCKETS_PER_ADDRESS,
         NEW b \in NewBuckets, x \notin N[b],
         NEW J, Recount(I, J, x, I[x].nRefCount + 1), NEW M, M \in [NewBuckets -> SUBSET DOMAIN I], Put(N, M, b, x)
  PROVE  Exact(J, A, R, n, V, m, M)
<1> DEFINE c == I[x].nRefCount + 1
<1>0. c \in Int /\ I[x].nRefCount \in 1..NEW_BUCKETS_PER_ADDRESS /\ NEW_BUCKETS_PER_ADDRESS \in Nat
      /\ I[x].nRefCount = Cardinality(Held(N, x)) /\ N \in [NewBuckets -> SUBSET DOMAIN I]
  BY AddrManAssumption DEF Exact, InNew
<1>1. Recount(I, J, x, c)
  OBVIOUS
<1>2. c \in 1..NEW_BUCKETS_PER_ADDRESS
  BY <1>0
<1> HIDE DEF c
<1>3. /\ Entries(J) /\ DOMAIN J = DOMAIN I /\ Found(J, A) /\ Listed(J, R) /\ InTried(J, V)
  <2>1. Entries(J) /\ Found(J, A) /\ Listed(J, R) /\ InTried(J, V)
    BY <1>1, RecountKeeps DEF Exact
  <2> QED BY <1>1, <2>1 DEF Recount
<1>4. \A i \in DOMAIN I : J[i].fInTried = I[i].fInTried /\ J[i].nRefCount = IF i = x THEN c ELSE I[i].nRefCount
  BY <1>1 DEF Recount
<1>5. /\ \A i : i # x => Held(M, i) = Held(N, i)
      /\ Cardinality(Held(M, x)) = Cardinality(Held(N, x)) + 1
  BY HeldPut
<1>6. Tried(J) = Tried(I) /\ New(J) = New(I)
  BY <1>0, <1>2, <1>3, <1>4 DEF Tried, New
<1>7. Tallied(J, n, m)
  BY <1>6 DEF Exact, Tallied
<1>8. InNew(J, M)
  <2>1. M \in [NewBuckets -> SUBSET DOMAIN J]
    BY <1>3
  <2>2. ASSUME NEW i \in DOMAIN J
        PROVE IF J[i].fInTried THEN J[i].nRefCount = 0 /\ Held(M, i) = {}
              ELSE J[i].nRefCount = Cardinality(Held(M, i)) /\ J[i].nRefCount \in 1..NEW_BUCKETS_PER_ADDRESS
    <3>1. CASE i = x
      BY <3>1, <1>0, <1>2, <1>4, <1>5 DEF c
    <3>2. CASE i # x
      BY <3>2, <1>3, <1>4, <1>5 DEF Exact, InNew
    <3> QED BY <3>1, <3>2
  <2> QED BY <2>1, <2>2 DEF InNew
<1> QED BY <1>3, <1>7, <1>8 DEF Exact

\* An entry leaves one of several buckets.
LEMMA OneLess ==
  ASSUME NEW I, NEW A, NEW R, NEW n, NEW V, NEW m, NEW N, Exact(I, A, R, n, V, m, N),
         NEW b \in NewBuckets, NEW x \in N[b], I[x].nRefCount # 1,
         NEW J, Recount(I, J, x, I[x].nRefCount - 1), NEW M, M \in [NewBuckets -> SUBSET DOMAIN I], Take(N, M, b, x)
  PROVE  Exact(J, A, R, n, V, m, M)
<1> DEFINE c == I[x].nRefCount - 1
<1>a. x \in DOMAIN I /\ Held(N, x) # {}
  BY DEF Exact, InNew, Held
<1>0. c \in Int /\ I[x].nRefCount \in 1..NEW_BUCKETS_PER_ADDRESS /\ NEW_BUCKETS_PER_ADDRESS \in Nat /\ ~I[x].fInTried
      /\ I[x].nRefCount = Cardinality(Held(N, x)) /\ N \in [NewBuckets -> SUBSET DOMAIN I]
  BY <1>a, AddrManAssumption DEF Exact, InNew
<1>1. Recount(I, J, x, c)
  OBVIOUS
<1>2. c \in 1..NEW_BUCKETS_PER_ADDRESS
  BY <1>0
<1> HIDE DEF c
<1>3. /\ Entries(J) /\ DOMAIN J = DOMAIN I /\ Found(J, A) /\ Listed(J, R) /\ InTried(J, V)
  <2>1. Entries(J) /\ Found(J, A) /\ Listed(J, R) /\ InTried(J, V)
    BY <1>1, RecountKeeps DEF Exact
  <2> QED BY <1>1, <2>1 DEF Recount
<1>4. \A i \in DOMAIN I : J[i].fInTried = I[i].fInTried /\ J[i].nRefCount = IF i = x THEN c ELSE I[i].nRefCount
  BY <1>1 DEF Recount
<1>5. /\ \A i : i # x => Held(M, i) = Held(N, i)
      /\ Cardinality(Held(M, x)) = Cardinality(Held(N, x)) - 1
  BY HeldTake
<1>6. Tried(J) = Tried(I) /\ New(J) = New(I)
  BY <1>0, <1>2, <1>3, <1>4 DEF Tried, New
<1>7. Tallied(J, n, m)
  BY <1>6 DEF Exact, Tallied
<1>8. InNew(J, M)
  <2>1. M \in [NewBuckets -> SUBSET DOMAIN J]
    BY <1>3
  <2>2. ASSUME NEW i \in DOMAIN J
        PROVE IF J[i].fInTried THEN J[i].nRefCount = 0 /\ Held(M, i) = {}
              ELSE J[i].nRefCount = Cardinality(Held(M, i)) /\ J[i].nRefCount \in 1..NEW_BUCKETS_PER_ADDRESS
    <3>1. CASE i = x
      BY <3>1, <1>0, <1>2, <1>4, <1>5 DEF c
    <3>2. CASE i # x
      BY <3>2, <1>3, <1>4, <1>5 DEF Exact, InNew
    <3> QED BY <3>1, <3>2
  <2> QED BY <2>1, <2>2 DEF InNew
<1> QED BY <1>3, <1>7, <1>8 DEF Exact

\* A new entry goes into its first bucket.
LEMMA FirstBucket ==
  ASSUME NEW I, NEW A, NEW R, NEW n, NEW V, NEW m, NEW N, Exact(I, A, R, n, V, m, N),
         NEW x \in Nat, x \notin DOMAIN I, NEW e \in Entry, e.addr \notin DOMAIN A, e.nRandomPos = Len(R) + 1,
         ~e.fInTried, e.nRefCount = 1,
         NEW b \in NewBuckets, NEW J, J = Plus(I, x, e),
         NEW M, M \in [NewBuckets -> SUBSET DOMAIN J], Put(N, M, b, x)
  PROVE  Exact(J, Plus(A, e.addr, x), Append(R, x), n, V, m + 1, M)
<1>1. /\ Entries(J) /\ Found(J, Plus(A, e.addr, x)) /\ Listed(J, Append(R, x))
  BY NewComes DEF Exact
<1>2. DOMAIN J = DOMAIN I \cup {x} /\ J[x] = e /\ \A i \in DOMAIN I : J[i] = I[i]
  BY DEF Plus
<1>3. IsFiniteSet(DOMAIN J)
  BY <1>2, FS_AddElement DEF Exact
<1>4. Held(N, x) = {} /\ N \in [NewBuckets -> SUBSET DOMAIN I]
  BY DEF Exact, InNew, Held
<1>5. /\ \A i : i # x => Held(M, i) = Held(N, i)
      /\ Cardinality(Held(M, x)) = Cardinality(Held(N, x)) + 1
  <2>1. x \notin N[b]
    BY <1>4
  <2> QED BY <2>1, HeldPut
<1>6. Cardinality(Held(M, x)) = 1
  BY <1>4, <1>5, FS_EmptySet
<1>7. NEW_BUCKETS_PER_ADDRESS \in Nat \ {0}
  BY AddrManAssumption
<1>8. InNew(J, M)
  <2>1. ASSUME NEW i \in DOMAIN J
        PROVE IF J[i].fInTried THEN J[i].nRefCount = 0 /\ Held(M, i) = {}
              ELSE J[i].nRefCount = Cardinality(Held(M, i)) /\ J[i].nRefCount \in 1..NEW_BUCKETS_PER_ADDRESS
    <3>1. CASE i = x
      BY <3>1, <1>2, <1>6, <1>7
    <3>2. CASE i # x
      <4>1. i \in DOMAIN I /\ J[i] = I[i] /\ Held(M, i) = Held(N, i)
        BY <3>2, <1>2, <1>5
      <4> QED BY <4>1 DEF Exact, InNew
    <3> QED BY <3>1, <3>2
  <2> QED BY <2>1 DEF InNew
<1>9. Tried(J) = Tried(I) /\ New(J) = New(I) \cup {x} /\ x \notin New(I) /\ New(I) \in SUBSET DOMAIN I
  BY <1>2 DEF Tried, New
<1>10. Cardinality(New(J)) = Cardinality(New(I)) + 1
  <2>1. IsFiniteSet(New(I))
    BY <1>9, FS_Subset DEF Exact
  <2> QED BY <2>1, <1>9, OneAdded
<1>11. Tallied(J, n, m + 1)
  BY <1>9, <1>10 DEF Exact, Tallied
<1>12. InTried(J, V)
  <2>1. V \in [TriedBuckets -> Seq(Int)]
        /\ \A c \in TriedBuckets : \A p, q \in 1..Len(V[c]) : V[c][p] = V[c][q] => p = q
    BY DEF Exact, InTried
  <2>2. ASSUME NEW c \in TriedBuckets, NEW p \in 1..Len(V[c])
        PROVE  V[c][p] \in DOMAIN J /\ J[V[c][p]].fInTried /\ GetTriedBucket[J[V[c][p]].addr] = c
    <3>1. V[c][p] \in DOMAIN I /\ I[V[c][p]].fInTried /\ GetTriedBucket[I[V[c][p]].addr] = c
      BY DEF Exact, InTried
    <3> QED BY <3>1, <1>2
  <2>3. ASSUME NEW i \in DOMAIN J, J[i].fInTried
        PROVE  \E p \in 1..Len(V[GetTriedBucket[J[i].addr]]) : V[GetTriedBucket[J[i].addr]][p] = i
    <3>1. i \in DOMAIN I /\ J[i] = I[i]
      BY <2>3, <1>2
    <3> QED BY <3>1, <2>3 DEF Exact, InTried
  <2> QED BY <2>1, <2>2, <2>3 DEF InTried
<1> QED BY <1>1, <1>3, <1>8, <1>11, <1>12 DEF Exact

\* An entry leaves its last bucket and is deleted; it is at the end of vRandom.
LEMMA LastBucket ==
  ASSUME NEW I, NEW A, NEW R, NEW n, NEW V, NEW m, NEW N, Exact(I, A, R, n, V, m, N),
         NEW b \in NewBuckets, NEW x \in N[b], I[x].nRefCount = 1, Len(R) > 0, x = R[Len(R)],
         NEW J, J = Minus(I, x), NEW M, M \in [NewBuckets -> SUBSET DOMAIN I], Take(N, M, b, x)
  PROVE  Exact(J, Minus(A, I[x].addr), SubSeq(R, 1, Len(R) - 1), n, V, m - 1, M)
<1>0. x \in DOMAIN I /\ Held(N, x) # {} /\ N \in [NewBuckets -> SUBSET DOMAIN I]
  BY DEF Exact, InNew, Held
<1>1. /\ Entries(J) /\ Found(J, Minus(A, I[x].addr)) /\ Listed(J, SubSeq(R, 1, Len(R) - 1))
  BY LastGoes DEF Exact
<1>2. DOMAIN J = DOMAIN I \ {x} /\ \A i \in DOMAIN J : J[i] = I[i]
  BY DEF Minus
<1>3. IsFiniteSet(DOMAIN J)
  BY <1>2, FS_RemoveElement DEF Exact
<1>4. ~I[x].fInTried /\ I[x].nRefCount = Cardinality(Held(N, x))
  BY <1>0 DEF Exact, InNew
<1>5. /\ \A i : i # x => Held(M, i) = Held(N, i)
      /\ Cardinality(Held(M, x)) = Cardinality(Held(N, x)) - 1
  BY HeldTake
<1>6. Held(M, x) = {}
  BY <1>4, <1>5, HeldFinite
<1>7. M \in [NewBuckets -> SUBSET DOMAIN J]
  BY <1>2, <1>6 DEF Held
<1>8. InNew(J, M)
  <2>1. ASSUME NEW i \in DOMAIN J
        PROVE IF J[i].fInTried THEN J[i].nRefCount = 0 /\ Held(M, i) = {}
              ELSE J[i].nRefCount = Cardinality(Held(M, i)) /\ J[i].nRefCount \in 1..NEW_BUCKETS_PER_ADDRESS
    <3>1. i \in DOMAIN I /\ J[i] = I[i] /\ Held(M, i) = Held(N, i)
      BY <1>2, <1>5
    <3> QED BY <3>1 DEF Exact, InNew
  <2> QED BY <2>1, <1>7 DEF InNew
<1>9. Tried(J) = Tried(I) /\ New(J) = New(I) \ {x} /\ x \in New(I) /\ New(I) \in SUBSET DOMAIN I
  BY <1>0, <1>2, <1>4 DEF Tried, New
<1>10. Cardinality(New(J)) = Cardinality(New(I)) - 1
  <2>1. IsFiniteSet(New(I))
    BY <1>9, FS_Subset DEF Exact
  <2> QED BY <2>1, <1>9, OneTaken
<1>11. Tallied(J, n, m - 1)
  BY <1>9, <1>10 DEF Exact, Tallied
<1>12. InTried(J, V)
  <2>1. V \in [TriedBuckets -> Seq(Int)]
        /\ \A c \in TriedBuckets : \A p, q \in 1..Len(V[c]) : V[c][p] = V[c][q] => p = q
    BY DEF Exact, InTried
  <2>2. ASSUME NEW c \in TriedBuckets, NEW p \in 1..Len(V[c])
        PROVE  V[c][p] \in DOMAIN J /\ J[V[c][p]].fInTried /\ GetTriedBucket[J[V[c][p]].addr] = c
    <3>1. V[c][p] \in DOMAIN I /\ I[V[c][p]].fInTried /\ GetTriedBucket[I[V[c][p]].addr] = c
      BY DEF Exact, InTried
    <3> QED BY <3>1, <1>2, <1>4
  <2>3. ASSUME NEW i \in DOMAIN J, J[i].fInTried
        PROVE  \E p \in 1..Len(V[GetTriedBucket[J[i].addr]]) : V[GetTriedBucket[J[i].addr]][p] = i
    <3>1. i \in DOMAIN I /\ J[i] = I[i]
      BY <2>3, <1>2
    <3> QED BY <3>1, <2>3 DEF Exact, InTried
  <2> QED BY <2>1, <2>2, <2>3 DEF InTried
<1> QED BY <1>1, <1>3, <1>8, <1>11, <1>12 DEF Exact

-----------------------------------------------------------------------------
(* The object.                                                             *)

\* Everything but the sizes, if the new buckets were N.
ExactWith(t, N) == Exact(t.mapInfo, t.mapAddr, t.vRandom, t.nTried, t.vvTried, t.nNew, N)

\* The inductive invariant.
Sound(t) == /\ Object(t) /\ DOMAIN t.mapInfo \subseteq 0..(t.nIdCount - 1)
            /\ ExactWith(t, t.vvNew) /\ Small(t.vvTried, t.vvNew)

\* EraseInfo, part by part.
LEMMA EraseParts ==
  ASSUME NEW t, Object(t), Entries(t.mapInfo), Listed(t.mapInfo, t.vRandom), NEW x \in DOMAIN t.mapInfo,
         NEW p, p = t.mapInfo[x].nRandomPos, NEW l, l = Len(t.vRandom)
  PROVE  LET r == EraseInfo(t, x)
             J == SwapI(t.mapInfo, t.vRandom, p, l)
             S == SwapR(t.vRandom, p, l)
         IN  /\ Object(r) /\ r.nIdCount = t.nIdCount
             /\ r.mapInfo = Minus(J, x) /\ r.mapAddr = Minus(t.mapAddr, t.mapInfo[x].addr)
             /\ r.vRandom = SubSeq(S, 1, Len(S) - 1)
             /\ r.nTried = t.nTried /\ r.vvTried = t.vvTried /\ r.nNew = t.nNew - 1 /\ r.vvNew = t.vvNew
<1>1. p \in 1..Len(t.vRandom) /\ t.vRandom[p] = x /\ l \in 1..Len(t.vRandom)
  BY DEF Listed
<1> DEFINE u == SwapRandom(t, p, l)
           J == SwapI(t.mapInfo, t.vRandom, p, l)
           S == SwapR(t.vRandom, p, l)
           r == EraseInfo(t, x)
<1>2. /\ Object(u) /\ u.mapInfo = J /\ u.vRandom = S
      /\ u.nIdCount = t.nIdCount /\ u.mapAddr = t.mapAddr
      /\ u.nTried = t.nTried /\ u.vvTried = t.vvTried /\ u.nNew = t.nNew /\ u.vvNew = t.vvNew
  BY <1>1, SwapParts
<1>3. r = [u EXCEPT !.vRandom = Front(@), !.nNew = @ - 1,
               !.mapAddr = Restrict(@, DOMAIN @ \ {t.mapInfo[x].addr}),
               !.mapInfo = Restrict(@, DOMAIN @ \ {x})]
  BY DEF EraseInfo
<1> HIDE DEF u, r
<1>4. r = [nIdCount |-> u.nIdCount, mapInfo |-> Minus(u.mapInfo, x),
           mapAddr |-> Minus(u.mapAddr, t.mapInfo[x].addr), vRandom |-> Front(u.vRandom),
           nTried |-> u.nTried, vvTried |-> u.vvTried, nNew |-> u.nNew - 1, vvNew |-> u.vvNew]
  BY <1>2, <1>3 DEF Object, Restrict, Minus
<1>5. Front(u.vRandom) = SubSeq(S, 1, Len(S) - 1)
  BY <1>2 DEF Front
<1>6. Len(S) = l /\ S \in Seq(Int) /\ l \in Nat \ {0}
  <2>1. Listed(J, S) /\ Len(S) = Len(t.vRandom)
    BY <1>1, SwapListed
  <2> QED BY <1>1, <2>1 DEF Listed
<1>7. SubSeq(S, 1, Len(S) - 1) \in Seq(Int)
  <2> HIDE DEF S
  <2> QED BY <1>6
<1> HIDE DEF J, S
<1>8. Object(r)
  BY <1>2, <1>4, <1>5, <1>7 DEF Object, Minus
<1> QED BY <1>2, <1>4, <1>5, <1>8 DEF r, J, S

\* ShrinkNew takes x out of bucket b, and deletes it if that was its last one.  The
\* buckets are exact but for an entry that is counted already and is not in b yet.
LEMMA Shrinks ==
  ASSUME NEW t, Object(t), NEW N, ExactWith(t, N), NEW b \in NewBuckets, NEW x \in N[b],
         NEW M, M \in [NewBuckets -> SUBSET DOMAIN t.mapInfo], Take(N, M, b, x),
         NEW r, r = ShrinkNew(t, b, x)
  PROVE  /\ Object(r) /\ r.nIdCount = t.nIdCount /\ DOMAIN r.mapInfo \subseteq DOMAIN t.mapInfo
         /\ r.vvTried = t.vvTried /\ r.vvNew = [t.vvNew EXCEPT ![b] = @ \ {x}]
         /\ ExactWith(r, M)
         /\ \A a \in DOMAIN t.mapAddr : a # t.mapInfo[x].addr => a \in DOMAIN r.mapAddr
<1> DEFINE I == t.mapInfo
           u == IF t.mapInfo[x].nRefCount = 1 THEN EraseInfo(t, x)
                ELSE [t EXCEPT !.mapInfo[x].nRefCount = @ - 1]
<1>1. x \in DOMAIN I /\ Entries(I) /\ Listed(I, t.vRandom) /\ Found(I, t.mapAddr) /\ I[x].addr \in DOMAIN t.mapAddr
  BY DEF ExactWith, Exact, InNew, Found
<1>2. /\ Object(u) /\ u.nIdCount = t.nIdCount /\ DOMAIN u.mapInfo \subseteq DOMAIN t.mapInfo
      /\ u.vvTried = t.vvTried /\ u.vvNew = t.vvNew /\ ExactWith(u, M)
      /\ \A a \in DOMAIN t.mapAddr : a # t.mapInfo[x].addr => a \in DOMAIN u.mapAddr
  <2>1. CASE I[x].nRefCount # 1
    <3> DEFINE c == I[x].nRefCount - 1
               J == [I EXCEPT ![x].nRefCount = c]
    <3>1. c \in Int
      BY <1>1 DEF Entries, Entry
    <3>2. Recount(I, J, x, c)
      <4> HIDE DEF c, I
      <4> QED BY <3>1, <1>1, Recounted
    <3>3. u = [nIdCount |-> t.nIdCount, mapInfo |-> J, mapAddr |-> t.mapAddr, vRandom |-> t.vRandom,
               nTried |-> t.nTried, vvTried |-> t.vvTried, nNew |-> t.nNew, vvNew |-> t.vvNew]
      BY <2>1 DEF Object
    <3> HIDE DEF J, u
    <3>4. Exact(J, t.mapAddr, t.vRandom, t.nTried, t.vvTried, t.nNew, M)
      <4> HIDE DEF I
      <4>1. Exact(I, t.mapAddr, t.vRandom, t.nTried, t.vvTried, t.nNew, N)
        BY DEF ExactWith, I
      <4>2. M \in [NewBuckets -> SUBSET DOMAIN I]
        BY DEF I
      <4> QED BY <4>1, <4>2, <3>2, <2>1, OneLess DEF c
    <3>5. DOMAIN J = DOMAIN I /\ J \in [DOMAIN J -> Entry]
      BY <3>2 DEF Recount
    <3>6. Object(u)
      BY <3>3, <3>5 DEF Object
    <3> QED BY <3>3, <3>4, <3>5, <3>6 DEF ExactWith
  <2>2. CASE I[x].nRefCount = 1
    <3> DEFINE p == I[x].nRandomPos
               l == Len(t.vRandom)
               J == SwapI(I, t.vRandom, p, l)
               S == SwapR(t.vRandom, p, l)
    <3>1. p \in 1..l /\ t.vRandom[p] = x /\ l \in 1..l /\ l \in Nat \ {0}
      BY <1>1 DEF Listed
    <3>2. Alike(I, J) /\ Listed(J, S) /\ Len(S) = l
      BY <1>1, <3>1, SwapListed
    <3>3. S[l] = x
      BY <1>1, <3>1 DEF SwapR, Listed
    <3>4. u = EraseInfo(t, x)
      BY <2>2
    <3>5. /\ Object(u) /\ u.nIdCount = t.nIdCount
          /\ u.mapInfo = Minus(J, x) /\ u.mapAddr = Minus(t.mapAddr, I[x].addr)
          /\ u.vRandom = SubSeq(S, 1, Len(S) - 1)
          /\ u.nTried = t.nTried /\ u.vvTried = t.vvTried /\ u.nNew = t.nNew - 1 /\ u.vvNew = t.vvNew
      <4>1. p = t.mapInfo[x].nRandomPos /\ l = Len(t.vRandom)
        OBVIOUS
      <4> HIDE DEF u, p, l
      <4> QED BY <4>1, <1>1, <3>4, EraseParts
    <3> HIDE DEF u, J, S
    <3>6. Exact(J, t.mapAddr, S, t.nTried, t.vvTried, t.nNew, N)
      <4> HIDE DEF I
      <4>1. Exact(I, t.mapAddr, t.vRandom, t.nTried, t.vvTried, t.nNew, N)
        BY DEF ExactWith, I
      <4>2. DOMAIN J = DOMAIN I
        BY <3>2 DEF Alike
      <4> QED BY <4>1, <4>2, <3>2, AlikeKeeps DEF Exact
    <3>7. DOMAIN J = DOMAIN I /\ J[x].addr = I[x].addr /\ J[x].nRefCount = 1
      BY <3>2, <1>1, <2>2 DEF Alike
    <3>8. Exact(Minus(J, x), Minus(t.mapAddr, J[x].addr), SubSeq(S, 1, Len(S) - 1), t.nTried, t.vvTried, t.nNew - 1, M)
      <4>1. M \in [NewBuckets -> SUBSET DOMAIN J]
        BY <3>7
      <4>2. x = S[Len(S)] /\ Len(S) > 0
        BY <3>1, <3>2, <3>3
      <4> QED BY <4>1, <4>2, <3>6, <3>7, LastBucket
    <3>9. DOMAIN u.mapInfo \subseteq DOMAIN t.mapInfo
      BY <3>5, <3>7 DEF Minus
    <3>10. \A a \in DOMAIN t.mapAddr : a # t.mapInfo[x].addr => a \in DOMAIN u.mapAddr
      BY <3>5 DEF Minus
    <3> QED BY <3>5, <3>7, <3>8, <3>9, <3>10 DEF ExactWith
  <2> QED BY <2>1, <2>2
<1>3. r = [u EXCEPT !.vvNew[b] = @ \ {x}]
  BY DEF ShrinkNew
<1> HIDE DEF u, I
<1>4. r = [nIdCount |-> u.nIdCount, mapInfo |-> u.mapInfo, mapAddr |-> u.mapAddr, vRandom |-> u.vRandom,
           nTried |-> u.nTried, vvTried |-> u.vvTried, nNew |-> u.nNew, vvNew |-> [u.vvNew EXCEPT ![b] = @ \ {x}]]
  BY <1>2, <1>3 DEF Object
<1>5. [u.vvNew EXCEPT ![b] = @ \ {x}] \in [NewBuckets -> SUBSET Int]
  BY <1>2 DEF Object
<1>6. Object(r)
  BY <1>2, <1>4, <1>5 DEF Object
<1> QED BY <1>2, <1>4, <1>6 DEF ExactWith

\* The end of Add_, when entry i is counted and goes into bucket b.
Room(u, b) == IF Cardinality(u.vvNew[b]) = NEW_BUCKET_SIZE
              THEN {ShrinkNew(u, b, x) : x \in u.vvNew[b]} ELSE {u}
Inserted(v, b, i) == [v EXCEPT !.vvNew[b] = @ \cup {i}]
LEMMA Insertion ==
  ASSUME NEW u, Object(u), DOMAIN u.mapInfo \subseteq 0..(u.nIdCount - 1), NEW i \in DOMAIN u.mapInfo,
         NEW b \in NewBuckets, i \notin u.vvNew[b],
         NEW M, M \in [NewBuckets -> SUBSET DOMAIN u.mapInfo], Put(u.vvNew, M, b, i), ExactWith(u, M),
         Small(u.vvTried, u.vvNew), NEW v \in Room(u, b), NEW r, r = Inserted(v, b, i)
  PROVE  /\ Sound(r) /\ r.nIdCount = u.nIdCount
         /\ \A a \in DOMAIN u.mapAddr : u.mapInfo[u.mapAddr[a]].fInTried => a \in DOMAIN r.mapAddr
<1>1. /\ M \in [NewBuckets -> SUBSET DOMAIN u.mapInfo] /\ u.vvNew \in [NewBuckets -> SUBSET Int]
      /\ M[b] = u.vvNew[b] \cup {i} /\ \A c \in NewBuckets \ {b} : M[c] = u.vvNew[c]
      /\ Entries(u.mapInfo) /\ IsFiniteSet(DOMAIN u.mapInfo) /\ InTried(u.mapInfo, u.vvTried)
  BY DEF ExactWith, Exact, InNew, Object, Put
<1>2. u.vvNew[b] \subseteq DOMAIN u.mapInfo /\ IsFiniteSet(u.vvNew[b])
  <2>1. u.vvNew[b] \in SUBSET DOMAIN u.mapInfo
    BY <1>1
  <2> QED BY <2>1, <1>1, FS_Subset
<1>3. NEW_BUCKET_SIZE \in Nat /\ Cardinality(u.vvNew[b]) \in Nat /\ Cardinality(u.vvNew[b]) <= NEW_BUCKET_SIZE
  BY <1>2, FS_CardinalityType, AddrManAssumption DEF Small
<1>4. ExactWith(u, M)
  OBVIOUS
<1>5. ASSUME Object(v), v.nIdCount = u.nIdCount, DOMAIN v.mapInfo \subseteq DOMAIN u.mapInfo, v.vvTried = u.vvTried,
             NEW N, ExactWith(v, N), r.vvNew = N, Cardinality(N[b]) <= NEW_BUCKET_SIZE,
             \A c \in NewBuckets \ {b} : N[c] = u.vvNew[c]
      PROVE  Sound(r) /\ r.nIdCount = u.nIdCount /\ r.mapAddr = v.mapAddr
  <2>1. r = [nIdCount |-> v.nIdCount, mapInfo |-> v.mapInfo, mapAddr |-> v.mapAddr, vRandom |-> v.vRandom,
             nTried |-> v.nTried, vvTried |-> v.vvTried, nNew |-> v.nNew, vvNew |-> N]
    <3> DEFINE K == [v.vvNew EXCEPT ![b] = @ \cup {i}]
    <3>1. r = [v EXCEPT !.vvNew = K]
      BY DEF Inserted
    <3> HIDE DEF K
    <3>2. r = [nIdCount |-> v.nIdCount, mapInfo |-> v.mapInfo, mapAddr |-> v.mapAddr, vRandom |-> v.vRandom,
               nTried |-> v.nTried, vvTried |-> v.vvTried, nNew |-> v.nNew, vvNew |-> K]
      BY <3>1, <1>5 DEF Object
    <3>3. r.vvNew = K
      BY <3>2
    <3> QED BY <3>2, <3>3, <1>5
  <2>2. N \in [NewBuckets -> SUBSET Int]
    <3>1. N \in [NewBuckets -> SUBSET DOMAIN v.mapInfo] /\ DOMAIN v.mapInfo \subseteq Nat
      BY <1>5 DEF ExactWith, Exact, InNew, Entries
    <3> QED BY <3>1
  <2>3. Object(r)
    BY <2>1, <2>2, <1>5 DEF Object
  <2>4. ExactWith(r, r.vvNew)
    BY <2>1, <1>5 DEF ExactWith
  <2>5. Small(r.vvTried, r.vvNew)
    BY <2>1, <1>5 DEF Small
  <2> QED BY <2>1, <2>3, <2>4, <2>5, <1>5 DEF Sound
<1>6. CASE Cardinality(u.vvNew[b]) # NEW_BUCKET_SIZE
  <2>1. v = u
    BY <1>6 DEF Room
  <2>2. r.vvNew = M
    <3>1. r.vvNew = [u.vvNew EXCEPT ![b] = @ \cup {i}]
      BY <2>1 DEF Inserted, Object
    <3>2. [u.vvNew EXCEPT ![b] = @ \cup {i}] = [c \in NewBuckets |-> M[c]]
      BY <1>1
    <3>3. M = [c \in NewBuckets |-> M[c]]
      BY <1>1
    <3> QED BY <3>1, <3>2, <3>3, Zenon
  <2>3. Cardinality(M[b]) <= NEW_BUCKET_SIZE
    <3>1. Cardinality(M[b]) = Cardinality(u.vvNew[b]) + 1
      BY <1>1, <1>2, OneAdded
    <3> QED BY <3>1, <1>3, <1>6
  <2>4. Sound(r) /\ r.nIdCount = u.nIdCount /\ r.mapAddr = v.mapAddr
    BY <2>1, <2>2, <2>3, <1>1, <1>4, <1>5
  <2> QED BY <2>1, <2>4
<1>7. CASE Cardinality(u.vvNew[b]) = NEW_BUCKET_SIZE
  <2>1. PICK x \in u.vvNew[b] : v = ShrinkNew(u, b, x)
    BY <1>7 DEF Room
  <2> DEFINE L == [M EXCEPT ![b] = @ \ {x}]
  <2>2. x \in M[b] /\ x # i /\ L \in [NewBuckets -> SUBSET DOMAIN u.mapInfo] /\ Take(M, L, b, x)
    BY <2>1, <1>1 DEF Take
  <2>3. L[b] = (u.vvNew[b] \ {x}) \cup {i} /\ \A c \in NewBuckets \ {b} : L[c] = u.vvNew[c]
    BY <2>2, <1>1
  <2> HIDE DEF L
  <2>4. /\ Object(v) /\ v.nIdCount = u.nIdCount /\ DOMAIN v.mapInfo \subseteq DOMAIN u.mapInfo
        /\ v.vvTried = u.vvTried /\ v.vvNew = [u.vvNew EXCEPT ![b] = @ \ {x}]
        /\ ExactWith(v, L)
        /\ \A a \in DOMAIN u.mapAddr : a # u.mapInfo[x].addr => a \in DOMAIN v.mapAddr
    BY <2>1, <2>2, <1>4, Shrinks
  <2>5. r.vvNew = L
    <3>1. r.vvNew = [v.vvNew EXCEPT ![b] = @ \cup {i}]
      BY <2>4 DEF Object, Inserted
    <3>2. [v.vvNew EXCEPT ![b] = @ \cup {i}] = L
      BY <2>2, <2>3, <2>4, <1>1
    <3> QED BY <3>1, <3>2
  <2>6. Cardinality(L[b]) <= NEW_BUCKET_SIZE
    <3> DEFINE T == u.vvNew[b] \ {x}
    <3>1. IsFiniteSet(T) /\ Cardinality(T) = Cardinality(u.vvNew[b]) - 1
      BY <1>2, <2>1, OneTaken
    <3>2. i \notin T /\ L[b] = T \cup {i}
      BY <2>3
    <3> HIDE DEF T
    <3>3. Cardinality(L[b]) = Cardinality(T) + 1
      BY <3>1, <3>2, OneAdded
    <3> QED BY <3>1, <3>3, <1>3
  <2>7. Sound(r) /\ r.nIdCount = u.nIdCount /\ r.mapAddr = v.mapAddr
    BY <2>3, <2>4, <2>5, <2>6, <1>5
  <2>8. ~u.mapInfo[x].fInTried
    <3>1. x \in DOMAIN u.mapInfo /\ Held(M, x) # {}
      BY <2>2, <1>1, <1>2 DEF Held
    <3> QED BY <3>1, <1>4 DEF ExactWith, Exact, InNew
  <2>9. \A a \in DOMAIN u.mapAddr : u.mapInfo[u.mapAddr[a]].fInTried => a # u.mapInfo[x].addr
    <3>1. x \in DOMAIN u.mapInfo
      BY <2>1, <1>2
    <3>2. u.mapAddr[u.mapInfo[x].addr] = x
      BY <3>1, <1>4 DEF ExactWith, Exact, Found
    <3> QED BY <3>2, <2>8
  <2> QED BY <2>4, <2>7, <2>9
<1> QED BY <1>6, <1>7

\* The tried addresses of t are still known to r.
KeepsTried(t, r) == \A i \in TriedIds(t) : t.mapInfo[i].addr \in DOMAIN r.mapAddr

\* Add_ of a known address.
LEMMA AgainSound ==
  ASSUME NEW t, Sound(t), NEW x \in DOMAIN t.mapInfo, ~t.mapInfo[x].fInTried,
         t.mapInfo[x].nRefCount # NEW_BUCKETS_PER_ADDRESS, NEW b \in NewBuckets,
         NEW r \in Placed(t, x, b)
  PROVE  Sound(r) /\ r.nIdCount = t.nIdCount /\ KeepsTried(t, r)
<1> DEFINE I == t.mapInfo
           A == t.mapAddr
<1>0. Object(t) /\ Entries(I) /\ Found(I, A) /\ t.vvNew \in [NewBuckets -> SUBSET DOMAIN I]
  BY DEF Sound, ExactWith, Exact, InNew
<1>1. \A i \in TriedIds(t) : I[i].addr \in DOMAIN A /\ A[I[i].addr] = i /\ I[i].fInTried
  BY <1>0 DEF Found, TriedIds
<1>2. CASE x \in t.vvNew[b]
  BY <1>1, <1>2 DEF Placed, KeepsTried
<1>3. CASE x \notin t.vvNew[b]
  <2> DEFINE c == I[x].nRefCount + 1
             J == [I EXCEPT ![x].nRefCount = c]
             u == [t EXCEPT !.mapInfo[x].nRefCount = @ + 1]
             M == [t.vvNew EXCEPT ![b] = @ \cup {x}]
  <2>1. c \in Int
    BY <1>0 DEF Entries, Entry
  <2>2. Recount(I, J, x, c)
    <3> HIDE DEF c, I
    <3> QED BY <2>1, <1>0, Recounted DEF I
  <2>3. u = [nIdCount |-> t.nIdCount, mapInfo |-> J, mapAddr |-> A, vRandom |-> t.vRandom,
             nTried |-> t.nTried, vvTried |-> t.vvTried, nNew |-> t.nNew, vvNew |-> t.vvNew]
    <3>1. u = [t EXCEPT !.mapInfo = J]
      OBVIOUS
    <3> HIDE DEF u, J
    <3> QED BY <1>0, <3>1 DEF Object
  <2>4. PICK v \in Room(u, b) : r = Inserted(v, b, x)
    BY <1>3 DEF Placed, Room, Inserted
  <2>5. M \in [NewBuckets -> SUBSET DOMAIN I] /\ Put(t.vvNew, M, b, x)
    BY <1>0 DEF Put
  <2> HIDE DEF u, J, M
  <2>6. Exact(J, A, t.vRandom, t.nTried, t.vvTried, t.nNew, M)
    <3>1. Exact(I, A, t.vRandom, t.nTried, t.vvTried, t.nNew, t.vvNew)
      BY DEF Sound, ExactWith
    <3> HIDE DEF I
    <3>2. x \in DOMAIN I /\ ~I[x].fInTried /\ I[x].nRefCount # NEW_BUCKETS_PER_ADDRESS
      BY DEF I
    <3> QED BY <3>1, <3>2, <1>3, <2>2, <2>5, OneMore DEF c
  <2>7. DOMAIN J = DOMAIN I /\ J \in [DOMAIN J -> Entry] /\ \A i \in DOMAIN I : J[i].fInTried = I[i].fInTried
    BY <2>2 DEF Recount
  <2>8. Object(u)
    BY <2>3, <2>7, <1>0 DEF Object
  <2>9. ExactWith(u, M) /\ M \in [NewBuckets -> SUBSET DOMAIN u.mapInfo] /\ Put(u.vvNew, M, b, x)
    BY <2>3, <2>5, <2>6, <2>7 DEF ExactWith
  <2>10. Small(u.vvTried, u.vvNew) /\ DOMAIN u.mapInfo \subseteq 0..(u.nIdCount - 1) /\ x \in DOMAIN u.mapInfo /\ x \notin u.vvNew[b]
    BY <2>3, <2>7, <1>3 DEF Sound
  <2>11. /\ Sound(r) /\ r.nIdCount = u.nIdCount
         /\ \A a \in DOMAIN u.mapAddr : u.mapInfo[u.mapAddr[a]].fInTried => a \in DOMAIN r.mapAddr
    BY <2>4, <2>8, <2>9, <2>10, Insertion
  <2>12. KeepsTried(t, r)
    <3> SUFFICES ASSUME NEW i \in TriedIds(t) PROVE I[i].addr \in DOMAIN r.mapAddr
      BY DEF KeepsTried
    <3>1. i \in DOMAIN I /\ I[i].addr \in DOMAIN A /\ A[I[i].addr] = i /\ I[i].fInTried
      BY <1>1 DEF TriedIds
    <3> QED BY <3>1, <2>3, <2>7, <2>11
  <2> QED BY <2>3, <2>11, <2>12
<1> QED BY <1>2, <1>3

\* Add_ of a new address.
LEMMA NewSound ==
  ASSUME NEW t, Sound(t), NEW a \in Addrs, a \notin DOMAIN t.mapAddr, NEW s \in Sources, NEW b \in NewBuckets,
         NEW r \in Placed(Create(t, a, s), t.nIdCount, b)
  PROVE  Sound(r) /\ r.nIdCount = t.nIdCount + 1 /\ KeepsTried(t, r)
<1> DEFINE I == t.mapInfo
           A == t.mapAddr
           x == t.nIdCount
           l == Len(t.vRandom) + 1
           no == FALSE
           info == [addr |-> a, source |-> s, fInTried |-> no, nRefCount |-> 0, nRandomPos |-> l]
           e == [addr |-> a, source |-> s, fInTried |-> no, nRefCount |-> 1, nRandomPos |-> l]
           w == Create(t, a, s)
           u == [w EXCEPT !.mapInfo[x].nRefCount = @ + 1]
           M == [t.vvNew EXCEPT ![b] = @ \cup {x}]
<1>0. Object(t) /\ Entries(I) /\ Found(I, A) /\ t.vvNew \in [NewBuckets -> SUBSET DOMAIN I] /\ x \in Nat /\ l \in Int
  BY DEF Sound, ExactWith, Exact, InNew, Object
<1>1. x \notin DOMAIN I
  BY <1>0 DEF Sound
<1>2. \A i \in TriedIds(t) : I[i].addr \in DOMAIN A /\ A[I[i].addr] = i /\ I[i].fInTried
  BY <1>0 DEF Found, TriedIds
<1>3. w = [nIdCount |-> x + 1, mapInfo |-> Plus(I, x, info), mapAddr |-> Plus(A, a, x),
           vRandom |-> Append(t.vRandom, x), nTried |-> t.nTried, vvTried |-> t.vvTried,
           nNew |-> t.nNew + 1, vvNew |-> t.vvNew]
  <2> DEFINE K == Plus(I, x, info)
             B == Plus(A, a, x)
             S == Append(t.vRandom, x)
             y == x + 1
             z == t.nNew + 1
  <2>1. w = [t EXCEPT !.nIdCount = y, !.nNew = z, !.vRandom = S, !.mapInfo = K, !.mapAddr = B]
    BY DEF Create, Plus
  <2> HIDE DEF w, K, B, S, y, z
  <2>2. w = [nIdCount |-> y, mapInfo |-> K, mapAddr |-> B, vRandom |-> S, nTried |-> t.nTried,
             vvTried |-> t.vvTried, nNew |-> z, vvNew |-> t.vvNew]
    BY <2>1, <1>0 DEF Object
  <2> QED BY <2>2 DEF K, B, S, y, z
<1> HIDE DEF w
<1>4. u = [nIdCount |-> x + 1, mapInfo |-> Plus(I, x, e), mapAddr |-> Plus(A, a, x),
           vRandom |-> Append(t.vRandom, x), nTried |-> t.nTried, vvTried |-> t.vvTried,
           nNew |-> t.nNew + 1, vvNew |-> t.vvNew]
  <2>1. [Plus(I, x, info) EXCEPT ![x].nRefCount = @ + 1] = Plus(I, x, e)
    <3>1. [info EXCEPT !.nRefCount = @ + 1] = e
      <4> HIDE DEF l, no
      <4>1. info.nRefCount + 1 = 1
        OBVIOUS
      <4>2. [info EXCEPT !.nRefCount = 1] = e
        OBVIOUS
      <4> QED BY <4>1, <4>2, Zenon
    <3> HIDE DEF info, e
    <3>2. Plus(I, x, info)[x] = info
      BY DEF Plus
    <3> QED BY <3>1, <3>2 DEF Plus
  <2> DEFINE K == Plus(I, x, info)
             B == Plus(A, a, x)
             S == Append(t.vRandom, x)
             y == x + 1
             z == t.nNew + 1
             J == Plus(I, x, e)
  <2>2. /\ w = [nIdCount |-> y, mapInfo |-> K, mapAddr |-> B, vRandom |-> S, nTried |-> t.nTried,
                vvTried |-> t.vvTried, nNew |-> z, vvNew |-> t.vvNew]
        /\ [K EXCEPT ![x].nRefCount = @ + 1] = J
    BY <1>3, <2>1
  <2>3. u = [w EXCEPT !.mapInfo = [w.mapInfo EXCEPT ![x].nRefCount = @ + 1]]
    OBVIOUS
  <2> HIDE DEF u, K, B, S, y, z, J
  <2>4. u = [nIdCount |-> y, mapInfo |-> J, mapAddr |-> B, vRandom |-> S, nTried |-> t.nTried,
             vvTried |-> t.vvTried, nNew |-> z, vvNew |-> t.vvNew]
    <3>1. w.mapInfo = K
      BY <2>2
    <3>2. u = [w EXCEPT !.mapInfo = J]
      BY <2>2, <2>3, <3>1
    <3> QED BY <2>2, <3>2
  <2> QED BY <2>4 DEF J, B, S, y, z
<1>5. x \notin t.vvNew[b] /\ w.vvNew = t.vvNew
  BY <1>0, <1>1, <1>3
<1>6. PICK v \in Room(u, b) : r = Inserted(v, b, x)
  BY <1>5 DEF Placed, Room, Inserted, w
<1> DEFINE J == Plus(I, x, e)
<1>7. e \in Entry /\ e.addr = a /\ ~e.fInTried /\ e.nRefCount = 1 /\ e.nRandomPos = l
  BY <1>0 DEF Entry
<1> HIDE DEF u, e
<1>8. DOMAIN J = DOMAIN I \cup {x} /\ \A i \in DOMAIN I : J[i] = I[i]
  BY <1>1 DEF Plus
<1>9. J \in [DOMAIN J -> Entry]
  BY <1>0, <1>7 DEF Plus, Entries
<1>10. M \in [NewBuckets -> SUBSET DOMAIN J] /\ Put(t.vvNew, M, b, x)
  BY <1>0, <1>8 DEF Put
<1> HIDE DEF M
<1>11. Exact(J, Plus(A, a, x), Append(t.vRandom, x), t.nTried, t.vvTried, t.nNew + 1, M)
  <2>1. Exact(I, A, t.vRandom, t.nTried, t.vvTried, t.nNew, t.vvNew)
    BY DEF Sound, ExactWith
  <2>2. J = Plus(I, x, e)
    OBVIOUS
  <2> HIDE DEF I, J, A, x
  <2>3. a \notin DOMAIN A /\ x \in Nat /\ e.nRandomPos = Len(t.vRandom) + 1
    BY <1>0, <1>7 DEF A
  <2> QED BY <2>1, <2>2, <2>3, <1>1, <1>7, <1>10, FirstBucket
<1> HIDE DEF J
<1>12. Plus(A, a, x) \in [DOMAIN Plus(A, a, x) -> Int] /\ Append(t.vRandom, x) \in Seq(Int)
  BY <1>0 DEF Plus, Object
<1>13. Object(u)
  BY <1>0, <1>4, <1>9, <1>12 DEF Object, J
<1>14. ExactWith(u, M) /\ M \in [NewBuckets -> SUBSET DOMAIN u.mapInfo] /\ Put(u.vvNew, M, b, x)
  BY <1>4, <1>10, <1>11 DEF ExactWith, J
<1>15. /\ Small(u.vvTried, u.vvNew) /\ DOMAIN u.mapInfo \subseteq 0..(u.nIdCount - 1)
       /\ x \in DOMAIN u.mapInfo /\ x \notin u.vvNew[b]
  BY <1>0, <1>4, <1>5, <1>8 DEF Sound, J
<1>16. /\ Sound(r) /\ r.nIdCount = u.nIdCount
       /\ \A c \in DOMAIN u.mapAddr : u.mapInfo[u.mapAddr[c]].fInTried => c \in DOMAIN r.mapAddr
  BY <1>6, <1>13, <1>14, <1>15, Insertion
<1>17. KeepsTried(t, r)
  <2> SUFFICES ASSUME NEW i \in TriedIds(t) PROVE I[i].addr \in DOMAIN r.mapAddr
    BY DEF KeepsTried
  <2>1. i \in DOMAIN I /\ I[i].addr \in DOMAIN A /\ A[I[i].addr] = i /\ I[i].fInTried
    BY <1>2 DEF TriedIds
  <2>2. u.mapInfo = J /\ u.mapAddr = Plus(A, a, x)
    BY <1>4 DEF J
  <2>3. I[i].addr \in DOMAIN u.mapAddr /\ u.mapAddr[I[i].addr] = i
    BY <2>1, <2>2 DEF Plus
  <2>4. u.mapInfo[i].fInTried
    BY <2>1, <2>2, <1>8
  <2> QED BY <2>3, <2>4, <1>16
<1> QED BY <1>4, <1>16, <1>17

-----------------------------------------------------------------------------
(* Shuffling.                                                              *)

\* The swaps of GetAddr_, one after the other.
Reorders(done, t, pick, n) ==
  done = [k \in 0..n |-> IF k = 0 THEN t ELSE SwapRandom(done[k - 1], k, pick[k])]
LEMMA ReorderedDef ==
  ASSUME NEW t, NEW pick, NEW l \in Nat
  PROVE  \E done : Reorders(done, t, pick, l) /\ Reordered(t, pick, l) = done[l]
<1> DEFINE Is(g, n) == g = [k \in 0..n |-> IF k = 0 THEN t ELSE SwapRandom(g[k - 1], k, pick[k])]
           Bad == {n \in Nat : ~\E g : Is(g, n)}
<1>1. Bad = {}
  <2> SUFFICES ASSUME Bad # {} PROVE FALSE
    OBVIOUS
  <2>1. PICK n \in Bad : \A y \in Bad : n <= y
    <3> HIDE DEF Is
    <3> QED BY LeastOf
  <2>2. n # 0
    <3>1. Is([k \in 0..0 |-> t], 0)
      OBVIOUS
    <3> HIDE DEF Is
    <3> QED BY <3>1
  <2>3. PICK g : Is(g, n - 1)
    <3> HIDE DEF Is
    <3> QED BY <2>1, <2>2
  <2>4. Is([k \in 0..n |-> IF k = n THEN SwapRandom(g[n - 1], n, pick[n]) ELSE g[k]], n)
    BY <2>2, <2>3
  <2> HIDE DEF Is
  <2> QED BY <2>4
<1>2. PICK g : Is(g, l)
  <2> HIDE DEF Is
  <2> QED BY <1>1
<1> QED
  BY <1>2 DEF Reordered, Reorders

\* Swapping positions keeps everything else.
LEMMA SwapSound ==
  ASSUME NEW t, Sound(t), NEW p \in 1..Len(t.vRandom), NEW q \in 1..Len(t.vRandom), NEW u, u = SwapRandom(t, p, q)
  PROVE  Sound(u) /\ Len(u.vRandom) = Len(t.vRandom) /\ u.nIdCount = t.nIdCount /\ u.mapAddr = t.mapAddr
<1> DEFINE J == SwapI(t.mapInfo, t.vRandom, p, q)
           S == SwapR(t.vRandom, p, q)
<1>0. Object(t) /\ Entries(t.mapInfo) /\ Listed(t.mapInfo, t.vRandom)
  BY DEF Sound, ExactWith, Exact
<1>1. /\ Object(u) /\ u.mapInfo = J /\ u.vRandom = S
      /\ u.nIdCount = t.nIdCount /\ u.mapAddr = t.mapAddr
      /\ u.nTried = t.nTried /\ u.vvTried = t.vvTried /\ u.nNew = t.nNew /\ u.vvNew = t.vvNew
  BY <1>0, SwapParts
<1>2. Alike(t.mapInfo, J) /\ Listed(J, S) /\ Len(S) = Len(t.vRandom)
  BY <1>0, SwapListed
<1> HIDE DEF J, S
<1>3. DOMAIN J = DOMAIN t.mapInfo
  BY <1>2 DEF Alike
<1>4. Exact(J, t.mapAddr, S, t.nTried, t.vvTried, t.nNew, t.vvNew)
  <2>1. Exact(t.mapInfo, t.mapAddr, t.vRandom, t.nTried, t.vvTried, t.nNew, t.vvNew)
    BY DEF Sound, ExactWith
  <2> QED BY <2>1, <1>2, <1>3, AlikeKeeps DEF Exact
<1> QED BY <1>1, <1>2, <1>3, <1>4 DEF Sound, ExactWith

\* GetAddr_.
LEMMA ReorderSound ==
  ASSUME NEW t, Sound(t), NEW n \in Nat, NEW f \in Picks(t.vRandom, n), n <= Len(t.vRandom)
  PROVE  /\ Sound(Reordered(t, f, n)) /\ Reordered(t, f, n).nIdCount = t.nIdCount
         /\ Reordered(t, f, n).mapAddr = t.mapAddr
<1> DEFINE l == Len(t.vRandom)
<1>0. l \in Nat
  BY DEF Sound, Object
<1>1. PICK done : Reorders(done, t, f, n) /\ Reordered(t, f, n) = done[n]
  BY ReorderedDef
<1>2. done[0] = t /\ \A k \in 1..n : done[k] = SwapRandom(done[k - 1], k, f[k])
  <2>1. \A k \in 0..n : done[k] = IF k = 0 THEN t ELSE SwapRandom(done[k - 1], k, f[k])
    BY <1>1, Zenon DEF Reorders
  <2> QED BY <2>1
<1> DEFINE Fine(k) == Sound(done[k]) /\ Len(done[k].vRandom) = l /\ done[k].nIdCount = t.nIdCount /\ done[k].mapAddr = t.mapAddr
           Bad == {k \in 0..n : ~Fine(k)}
<1>3. Bad = {}
  <2> SUFFICES ASSUME Bad # {} PROVE FALSE
    OBVIOUS
  <2>0. Bad \in SUBSET Nat
    OBVIOUS
  <2>1. PICK k \in Bad : \A y \in Bad : k <= y
    <3> HIDE DEF Bad
    <3> QED BY <2>0, LeastOf
  <2>2. Fine(0)
    BY <1>2
  <2>3. k # 0 /\ k \in 1..n
    BY <2>1, <2>2
  <2>4. k - 1 \in 0..n /\ Fine(k - 1)
    <3>1. k - 1 \in 0..n /\ ~(k <= k - 1)
      BY <2>3
    <3> HIDE DEF Fine
    <3> QED BY <2>1, <3>1
  <2>5. f[k] \in 1..l /\ k \in 1..l
    BY <2>3, <1>0 DEF Picks
  <2> DEFINE a == done[k - 1]
             b == done[k]
             q == f[k]
  <2>6. b = SwapRandom(a, k, q) /\ Sound(a) /\ Len(a.vRandom) = l /\ a.nIdCount = t.nIdCount /\ a.mapAddr = t.mapAddr
    BY <2>3, <2>4, <1>2
  <2> HIDE DEF a, b, q, l
  <2>7. Sound(b) /\ Len(b.vRandom) = l /\ b.nIdCount = t.nIdCount /\ b.mapAddr = t.mapAddr
    <3>1. q \in 1..Len(a.vRandom) /\ k \in 1..Len(a.vRandom)
      BY <2>5, <2>6 DEF q
    <3>2. Sound(b) /\ Len(b.vRandom) = Len(a.vRandom) /\ b.nIdCount = a.nIdCount /\ b.mapAddr = a.mapAddr
      BY <2>6, <3>1, SwapSound
    <3> QED BY <2>6, <3>2
  <2> QED BY <2>1, <2>7 DEF b
<1>4. Fine(n)
  <2>1. n \in 0..n
    OBVIOUS
  <2> HIDE DEF Fine
  <2> QED BY <1>3, <2>1
<1> QED BY <1>1, <1>4

\* The swaps of SelectTried.
Shuffles(order, s, pick, n) ==
  order = [k \in 0..n |-> IF k = 0 THEN s ELSE Swapped(order[k - 1], k, pick[k])]
LEMMA ShuffledDef ==
  ASSUME NEW s, NEW pick, NEW l \in Nat
  PROVE  \E order : Shuffles(order, s, pick, l) /\ Shuffled(s, pick, l) = order[l]
<1> DEFINE Is(g, n) == g = [k \in 0..n |-> IF k = 0 THEN s ELSE Swapped(g[k - 1], k, pick[k])]
           Bad == {n \in Nat : ~\E g : Is(g, n)}
<1>1. Bad = {}
  <2> SUFFICES ASSUME Bad # {} PROVE FALSE
    OBVIOUS
  <2>1. PICK n \in Bad : \A y \in Bad : n <= y
    <3> HIDE DEF Is
    <3> QED BY LeastOf
  <2>2. n # 0
    <3>1. Is([k \in 0..0 |-> s], 0)
      OBVIOUS
    <3> HIDE DEF Is
    <3> QED BY <3>1
  <2>3. PICK g : Is(g, n - 1)
    <3> HIDE DEF Is
    <3> QED BY <2>1, <2>2
  <2>4. Is([k \in 0..n |-> IF k = n THEN Swapped(g[n - 1], n, pick[n]) ELSE g[k]], n)
    BY <2>2, <2>3
  <2> HIDE DEF Is
  <2> QED BY <2>4
<1>2. PICK g : Is(g, l)
  <2> HIDE DEF Is
  <2> QED BY <1>1
<1> QED
  BY <1>2 DEF Shuffled, Shuffles

\* The elements of s in another order.
Distinct(s) == \A p, q \in 1..Len(s) : s[p] = s[q] => p = q
Arranged(s, r) == /\ r \in Seq(Int) /\ Len(r) = Len(s) /\ Distinct(r)
                  /\ \A p \in 1..Len(s) : \E q \in 1..Len(s) : r[p] = s[q]
                  /\ \A p \in 1..Len(s) : \E q \in 1..Len(s) : r[q] = s[p]
LEMMA SwapArranged ==
  ASSUME NEW s \in Seq(Int), NEW r, Arranged(s, r), NEW p \in 1..Len(s), NEW q \in 1..Len(s)
  PROVE  Arranged(s, Swapped(r, p, q))
<1> DEFINE w == Swapped(r, p, q)
           l == Len(s)
<1>0. l \in Nat /\ r \in Seq(Int) /\ Len(r) = l /\ p \in 1..l /\ q \in 1..l
  BY DEF Arranged
<1>1. w \in Seq(Int) /\ Len(w) = l /\ \A k \in 1..l : w[k] = IF k = q THEN r[p] ELSE IF k = p THEN r[q] ELSE r[k]
  BY <1>0 DEF Swapped
<1> HIDE DEF w, l
<1>2. \A j, k \in 1..l : r[j] = r[k] => j = k
  BY <1>0 DEF Arranged, Distinct
<1>3. Distinct(w)
  BY <1>0, <1>1, <1>2 DEF Distinct
<1>4. ASSUME NEW k \in 1..l PROVE \E j \in 1..l : w[k] = r[j]
  <2>1. CASE k = q BY <2>1, <1>0, <1>1
  <2>2. CASE k # q /\ k = p BY <2>2, <1>0, <1>1
  <2>3. CASE k # q /\ k # p BY <2>3, <1>0, <1>1
  <2> QED BY <2>1, <2>2, <2>3
<1>5. ASSUME NEW k \in 1..l PROVE \E j \in 1..l : w[j] = r[k]
  <2>1. CASE k = p
    <3>1. w[q] = r[k] BY <2>1, <1>0, <1>1
    <3> QED BY <3>1, <1>0
  <2>2. CASE k # p /\ k = q
    <3>1. w[p] = r[k] BY <2>2, <1>0, <1>1
    <3> QED BY <3>1, <1>0
  <2>3. CASE k # q /\ k # p
    <3>1. w[k] = r[k] BY <2>3, <1>0, <1>1
    <3> QED BY <3>1
  <2> QED BY <2>1, <2>2, <2>3
<1>6. /\ \A k \in 1..l : \E j \in 1..l : r[k] = s[j]
      /\ \A k \in 1..l : \E j \in 1..l : r[j] = s[k]
  BY DEF Arranged, l
<1>7. ASSUME NEW k \in 1..l PROVE \E j \in 1..l : w[k] = s[j]
  <2>1. PICK j \in 1..l : w[k] = r[j]
    BY <1>4
  <2>2. PICK h \in 1..l : r[j] = s[h]
    BY <1>6
  <2> QED BY <2>1, <2>2
<1>8. ASSUME NEW k \in 1..l PROVE \E j \in 1..l : w[j] = s[k]
  <2>1. PICK j \in 1..l : r[j] = s[k]
    BY <1>6
  <2>2. PICK h \in 1..l : w[h] = r[j]
    BY <1>5
  <2> QED BY <2>1, <2>2
<1> QED BY <1>1, <1>3, <1>7, <1>8 DEF Arranged, w, l

LEMMA ShuffleArranged ==
  ASSUME NEW s \in Seq(Int), Distinct(s), NEW n \in Nat, n <= Len(s), NEW f \in Picks(s, n)
  PROVE  Arranged(s, Shuffled(s, f, n))
<1> DEFINE l == Len(s)
<1>1. PICK order : Shuffles(order, s, f, n) /\ Shuffled(s, f, n) = order[n]
  BY ShuffledDef
<1>2. order[0] = s /\ \A k \in 1..n : order[k] = Swapped(order[k - 1], k, f[k])
  <2>1. \A k \in 0..n : order[k] = IF k = 0 THEN s ELSE Swapped(order[k - 1], k, f[k])
    BY <1>1, Zenon DEF Shuffles
  <2> QED BY <2>1
<1> DEFINE Bad == {k \in 0..n : ~Arranged(s, order[k])}
<1>3. Bad = {}
  <2> SUFFICES ASSUME Bad # {} PROVE FALSE
    OBVIOUS
  <2>0. Bad \in SUBSET Nat
    OBVIOUS
  <2>1. PICK k \in Bad : \A y \in Bad : k <= y
    <3> HIDE DEF Bad
    <3> QED BY <2>0, LeastOf
  <2>2. Arranged(s, order[0])
    BY <1>2 DEF Arranged
  <2>3. k # 0 /\ k \in 1..n
    BY <2>1, <2>2
  <2>4. k - 1 \in 0..n /\ Arranged(s, order[k - 1])
    <3>1. k - 1 \in 0..n /\ ~(k <= k - 1)
      BY <2>3
    <3> QED BY <2>1, <3>1
  <2>5. f[k] \in 1..Len(s) /\ k \in 1..Len(s)
    BY <2>3 DEF Picks
  <2>6. order[k] = Swapped(order[k - 1], k, f[k])
    BY <2>3, <1>2
  <2>7. Arranged(s, order[k])
    BY <2>4, <2>5, <2>6, SwapArranged
  <2> QED BY <2>1, <2>7
<1>4. n \in 0..n
  OBVIOUS
<1> QED BY <1>1, <1>3, <1>4

-----------------------------------------------------------------------------
(* MakeTried.                                                              *)

\* J is I but for what x and y count and where they are.
Alter(I, J, Z) ==
  /\ DOMAIN J = DOMAIN I /\ J \in [DOMAIN I -> Entry]
  /\ \A i \in DOMAIN I : J[i].addr = I[i].addr /\ J[i].source = I[i].source /\ J[i].nRandomPos = I[i].nRandomPos
  /\ \A i \in DOMAIN I \ Z : J[i].fInTried = I[i].fInTried /\ J[i].nRefCount = I[i].nRefCount
IsTried(e) == e.fInTried /\ e.nRefCount = 0
IsNew(e) == ~e.fInTried /\ e.nRefCount = 1

\* The indexes do not depend on that.
LEMMA AlterKeeps ==
  ASSUME NEW I, Entries(I), NEW J, NEW Z, Alter(I, J, Z), NEW A, NEW R
  PROVE  /\ Entries(J) /\ DOMAIN J = DOMAIN I
         /\ Found(I, A) => Found(J, A)
         /\ Listed(I, R) => Listed(J, R)
<1>1. /\ J \in [DOMAIN I -> Entry] /\ DOMAIN J = DOMAIN I
      /\ \A i \in DOMAIN I : J[i].addr = I[i].addr /\ J[i].nRandomPos = I[i].nRandomPos
  BY DEF Alter
<1>2. Entries(J)
  BY <1>1 DEF Entries
<1>3. Found(I, A) => Found(J, A)
  BY <1>1 DEF Found
<1>4. Listed(I, R) => Listed(J, R)
  BY <1>1 DEF Listed
<1> QED BY <1>1, <1>2, <1>3, <1>4

\* A tried bucket b holds s.
Row(I, s, b) ==
  /\ \A p \in 1..Len(s) : s[p] \in DOMAIN I /\ I[s[p]].fInTried /\ GetTriedBucket[I[s[p]].addr] = b
  /\ Distinct(s)
  /\ \A i \in DOMAIN I : I[i].fInTried /\ GetTriedBucket[I[i].addr] = b => \E p \in 1..Len(s) : s[p] = i
LEMMA RowOf ==
  ASSUME NEW I, NEW V, InTried(I, V), NEW b \in TriedBuckets
  PROVE  V[b] \in Seq(Int) /\ Row(I, V[b], b)
<1> DEFINE s == V[b]
<1>1. s \in Seq(Int) /\ \A p \in 1..Len(s) : s[p] \in DOMAIN I /\ I[s[p]].fInTried /\ GetTriedBucket[I[s[p]].addr] = b
  BY DEF InTried
<1>2. Distinct(s)
  BY DEF InTried, Distinct
<1>3. ASSUME NEW i \in DOMAIN I, I[i].fInTried, GetTriedBucket[I[i].addr] = b
      PROVE  \E p \in 1..Len(s) : s[p] = i
  <2>1. \E p \in 1..Len(V[GetTriedBucket[I[i].addr]]) : V[GetTriedBucket[I[i].addr]][p] = i
    BY <1>3 DEF InTried
  <2> QED BY <2>1, <1>3
<1> QED BY <1>1, <1>2, <1>3 DEF Row
LEMMA OfRows ==
  ASSUME NEW I, Entries(I), NEW V \in [TriedBuckets -> Seq(Int)], \A b \in TriedBuckets : Row(I, V[b], b)
  PROVE  InTried(I, V)
<1>1. \A b \in TriedBuckets : \A p \in 1..Len(V[b]) :
        V[b][p] \in DOMAIN I /\ I[V[b][p]].fInTried /\ GetTriedBucket[I[V[b][p]].addr] = b
  BY DEF Row
<1>2. \A b \in TriedBuckets : \A p, q \in 1..Len(V[b]) : V[b][p] = V[b][q] => p = q
  BY DEF Row, Distinct
<1>3. ASSUME NEW i \in DOMAIN I, I[i].fInTried, NEW b, b = GetTriedBucket[I[i].addr]
      PROVE  \E p \in 1..Len(V[b]) : V[b][p] = i
  <2>1. I[i] \in Entry
    BY DEF Entries
  <2>2. I[i].addr \in Addrs
    BY <2>1 DEF Entry
  <2>3. b \in TriedBuckets
    BY <2>2, <1>3, AddrManAssumption
  <2> QED BY <2>3, <1>3 DEF Row
<1> QED BY <1>1, <1>2, <1>3 DEF InTried

\* Another bucket than that of the changed entries is as before.
LEMMA RowKeeps ==
  ASSUME NEW I, NEW J, NEW Z, Alter(I, J, Z), NEW b, NEW s, Row(I, s, b),
         \A z \in Z : z \in DOMAIN I => GetTriedBucket[I[z].addr] # b
  PROVE  Row(J, s, b)
<1>1. /\ DOMAIN J = DOMAIN I /\ \A i \in DOMAIN I : J[i].addr = I[i].addr
      /\ \A i \in DOMAIN I \ Z : J[i].fInTried = I[i].fInTried
  BY DEF Alter
<1>2. ASSUME NEW p \in 1..Len(s)
      PROVE  s[p] \in DOMAIN J /\ J[s[p]].fInTried /\ GetTriedBucket[J[s[p]].addr] = b
  <2>1. s[p] \in DOMAIN I /\ I[s[p]].fInTried /\ GetTriedBucket[I[s[p]].addr] = b
    BY DEF Row
  <2>2. s[p] \notin Z
    BY <2>1
  <2> QED BY <1>1, <2>1, <2>2
<1>3. ASSUME NEW i \in DOMAIN J, J[i].fInTried, GetTriedBucket[J[i].addr] = b
      PROVE  \E p \in 1..Len(s) : s[p] = i
  <2>1. i \in DOMAIN I /\ GetTriedBucket[I[i].addr] = b
    BY <1>1, <1>3
  <2>2. I[i].fInTried
    BY <1>1, <1>3, <2>1
  <2> QED BY <2>1, <2>2 DEF Row
<1>4. Distinct(s)
  BY DEF Row
<1> QED BY <1>2, <1>3, <1>4 DEF Row

\* x comes to the end of its bucket.
LEMMA RowAppend ==
  ASSUME NEW I, NEW J, NEW x \in DOMAIN I, x \in Int, Alter(I, J, {x}), ~I[x].fInTried, J[x].fInTried,
         NEW b, b = GetTriedBucket[I[x].addr], NEW s \in Seq(Int), Row(I, s, b), NEW w, w = Append(s, x)
  PROVE  Row(J, w, b)
<1>1. /\ DOMAIN J = DOMAIN I /\ \A i \in DOMAIN I : J[i].addr = I[i].addr
      /\ \A i \in DOMAIN I : i # x => J[i].fInTried = I[i].fInTried
  BY DEF Alter
<1>2. /\ Len(s) \in Nat /\ Len(w) = Len(s) + 1 /\ w[Len(s) + 1] = x
      /\ \A p \in 1..Len(s) : w[p] = s[p]
  OBVIOUS
<1>3. /\ \A p \in 1..Len(s) : s[p] \in DOMAIN I /\ I[s[p]].fInTried /\ GetTriedBucket[I[s[p]].addr] = b
      /\ \A p, q \in 1..Len(s) : s[p] = s[q] => p = q
      /\ \A i \in DOMAIN I : I[i].fInTried /\ GetTriedBucket[I[i].addr] = b => \E p \in 1..Len(s) : s[p] = i
  BY DEF Row, Distinct
<1>4. \A p \in 1..Len(s) : s[p] # x
  BY <1>3
<1>5. \A p \in 1..Len(w) : p \in 1..Len(s) \/ p = Len(s) + 1
  BY <1>2
<1>6. ASSUME NEW p \in 1..Len(w)
      PROVE  w[p] \in DOMAIN J /\ J[w[p]].fInTried /\ GetTriedBucket[J[w[p]].addr] = b
  <2>1. CASE p \in 1..Len(s)
    <3>1. w[p] = s[p] /\ s[p] # x /\ s[p] \in DOMAIN I /\ I[s[p]].fInTried /\ GetTriedBucket[I[s[p]].addr] = b
      BY <2>1, <1>2, <1>3, <1>4
    <3> QED BY <3>1, <1>1
  <2>2. CASE p = Len(s) + 1
    BY <2>2, <1>1, <1>2
  <2> QED BY <2>1, <2>2, <1>5
<1>7. Distinct(w)
  BY <1>2, <1>3, <1>4, <1>5 DEF Distinct
<1>8. ASSUME NEW i \in DOMAIN J, J[i].fInTried, GetTriedBucket[J[i].addr] = b
      PROVE  \E p \in 1..Len(w) : w[p] = i
  <2>1. CASE i = x
    <3>1. Len(s) + 1 \in 1..Len(w) /\ w[Len(s) + 1] = i
      BY <1>2, <2>1
    <3> QED BY <3>1
  <2>2. CASE i # x
    <3>1. i \in DOMAIN I /\ I[i].fInTried /\ GetTriedBucket[I[i].addr] = b
      BY <1>1, <1>8, <2>2
    <3>2. PICK p \in 1..Len(s) : s[p] = i
      BY <1>3, <3>1
    <3>3. p \in 1..Len(w) /\ w[p] = i
      BY <1>2, <3>2
    <3> QED BY <3>3
  <2> QED BY <2>1, <2>2
<1> QED BY <1>6, <1>7, <1>8 DEF Row

\* The bucket in another order.
LEMMA RowArranged ==
  ASSUME NEW I, NEW b, NEW s \in Seq(Int), Row(I, s, b), NEW r, Arranged(s, r)
  PROVE  r \in Seq(Int) /\ Len(r) = Len(s) /\ Row(I, r, b)
<1>1. /\ r \in Seq(Int) /\ Len(r) = Len(s) /\ Distinct(r)
      /\ \A p \in 1..Len(s) : \E q \in 1..Len(s) : r[p] = s[q]
      /\ \A p \in 1..Len(s) : \E q \in 1..Len(s) : r[q] = s[p]
  BY DEF Arranged
<1>2. ASSUME NEW p \in 1..Len(r)
      PROVE  r[p] \in DOMAIN I /\ I[r[p]].fInTried /\ GetTriedBucket[I[r[p]].addr] = b
  <2>1. PICK q \in 1..Len(s) : r[p] = s[q]
    BY <1>1
  <2> QED BY <2>1 DEF Row
<1>3. ASSUME NEW i \in DOMAIN I, I[i].fInTried, GetTriedBucket[I[i].addr] = b
      PROVE  \E p \in 1..Len(r) : r[p] = i
  <2>1. PICK q \in 1..Len(s) : s[q] = i
    BY <1>3 DEF Row
  <2>2. PICK p \in 1..Len(s) : r[p] = s[q]
    BY <1>1
  <2> QED BY <1>1, <2>1, <2>2
<1> QED BY <1>1, <1>2, <1>3 DEF Row

\* x takes the place of y.
LEMMA RowReplace ==
  ASSUME NEW I, NEW J, NEW x \in DOMAIN I, x \in Int, NEW b, b = GetTriedBucket[I[x].addr],
         NEW s \in Seq(Int), Row(I, s, b), NEW k \in 1..Len(s), NEW y, y = s[k],
         Alter(I, J, {x, y}), ~I[x].fInTried, J[x].fInTried, ~J[y].fInTried,
         NEW w, w = [s EXCEPT ![k] = x]
  PROVE  Row(J, w, b)
<1>1. /\ DOMAIN J = DOMAIN I /\ \A i \in DOMAIN I : J[i].addr = I[i].addr
      /\ \A i \in DOMAIN I : i # x /\ i # y => J[i].fInTried = I[i].fInTried
  BY DEF Alter
<1>2. /\ Len(s) \in Nat /\ Len(w) = Len(s) /\ w[k] = x
      /\ \A p \in 1..Len(s) : p # k => w[p] = s[p]
  OBVIOUS
<1>3. /\ \A p \in 1..Len(s) : s[p] \in DOMAIN I /\ I[s[p]].fInTried /\ GetTriedBucket[I[s[p]].addr] = b
      /\ \A p, q \in 1..Len(s) : s[p] = s[q] => p = q
      /\ \A i \in DOMAIN I : I[i].fInTried /\ GetTriedBucket[I[i].addr] = b => \E p \in 1..Len(s) : s[p] = i
  BY DEF Row, Distinct
<1>4. \A p \in 1..Len(s) : s[p] # x /\ (p # k => s[p] # y)
  BY <1>3
<1>6. ASSUME NEW p \in 1..Len(w)
      PROVE  w[p] \in DOMAIN J /\ J[w[p]].fInTried /\ GetTriedBucket[J[w[p]].addr] = b
  <2>1. CASE p # k
    <3>1. /\ w[p] = s[p] /\ s[p] # x /\ s[p] # y /\ s[p] \in DOMAIN I
          /\ I[s[p]].fInTried /\ GetTriedBucket[I[s[p]].addr] = b
      BY <2>1, <1>2, <1>3, <1>4
    <3> QED BY <3>1, <1>1
  <2>2. CASE p = k
    BY <2>2, <1>1, <1>2
  <2> QED BY <2>1, <2>2
<1>7. Distinct(w)
  BY <1>2, <1>3, <1>4 DEF Distinct
<1>8. ASSUME NEW i \in DOMAIN J, J[i].fInTried, GetTriedBucket[J[i].addr] = b
      PROVE  \E p \in 1..Len(w) : w[p] = i
  <2>1. CASE i = x
    BY <1>2, <2>1
  <2>2. CASE i # x
    <3>1. i \in DOMAIN I /\ I[i].fInTried /\ GetTriedBucket[I[i].addr] = b /\ i # y
      BY <1>1, <1>8, <2>2
    <3>2. PICK p \in 1..Len(s) : s[p] = i
      BY <1>3, <3>1
    <3>3. p \in 1..Len(w) /\ w[p] = i
      BY <1>2, <3>1, <3>2
    <3> QED BY <3>3
  <2> QED BY <2>1, <2>2
<1> QED BY <1>6, <1>7, <1>8 DEF Row

\* x goes to a tried bucket that has room.
Beside(V, W, kb) == \A b \in TriedBuckets \ {kb} : W[b] = V[b]
Removed(N, M, x) == \A b \in NewBuckets : M[b] = N[b] \ {x}
LEMMA MovesIn ==
  ASSUME NEW I, NEW A, NEW R, NEW n, NEW V, NEW m, NEW N, Exact(I, A, R, n, V, m, N),
         NEW x \in DOMAIN I, ~I[x].fInTried, NEW kb \in TriedBuckets, kb = GetTriedBucket[I[x].addr],
         NEW J, Alter(I, J, {x}), IsTried(J[x]),
         NEW M, M \in [NewBuckets -> SUBSET DOMAIN I], Removed(N, M, x),
         NEW W, W \in [TriedBuckets -> Seq(Int)], W[kb] = Append(V[kb], x),
         Beside(V, W, kb)
  PROVE  Exact(J, A, R, n + 1, W, m - 1, M)
<1>1. Entries(J) /\ DOMAIN J = DOMAIN I /\ Found(J, A) /\ Listed(J, R)
  BY AlterKeeps DEF Exact
<1>2. /\ \A i \in DOMAIN I : J[i].addr = I[i].addr
      /\ \A i \in DOMAIN I \ {x} : J[i].fInTried = I[i].fInTried /\ J[i].nRefCount = I[i].nRefCount
      /\ J[x].fInTried /\ J[x].nRefCount = 0
  BY DEF Alter, IsTried
<1>3. I[x].nRefCount # 0
  BY DEF Exact, InNew
<1>4. Held(M, x) = {} /\ \A i : i # x => Held(M, i) = Held(N, i)
  BY DEF Held, Removed
<1>5. InNew(J, M)
  <2>1. ASSUME NEW i \in DOMAIN J
        PROVE IF J[i].fInTried THEN J[i].nRefCount = 0 /\ Held(M, i) = {}
              ELSE J[i].nRefCount = Cardinality(Held(M, i)) /\ J[i].nRefCount \in 1..NEW_BUCKETS_PER_ADDRESS
    <3>1. CASE i = x
      BY <3>1, <1>2, <1>4
    <3>2. CASE i # x
      BY <3>2, <1>1, <1>2, <1>4 DEF Exact, InNew
    <3> QED BY <3>1, <3>2
  <2> QED BY <2>1, <1>1 DEF InNew
<1>6. /\ New(J) = New(I) \ {x} /\ x \in New(I) /\ New(I) \in SUBSET DOMAIN I
      /\ Tried(J) = Tried(I) \cup {x} /\ x \notin Tried(I) /\ Tried(I) \in SUBSET DOMAIN I
  BY <1>1, <1>2, <1>3 DEF New, Tried
<1>7. IsFiniteSet(New(I)) /\ IsFiniteSet(Tried(I))
  BY <1>6, FS_Subset DEF Exact
<1>8. Tallied(J, n + 1, m - 1)
  <2>1. Cardinality(New(J)) = Cardinality(New(I)) - 1
    BY <1>6, <1>7, OneTaken
  <2>2. Cardinality(Tried(J)) = Cardinality(Tried(I)) + 1
    BY <1>6, <1>7, OneAdded
  <2> QED BY <2>1, <2>2 DEF Exact, Tallied
<1>9. InTried(J, W)
  <2>1. InTried(I, V) /\ x \in Int
    BY DEF Exact, Entries
  <2>2. V[kb] \in Seq(Int) /\ Row(I, V[kb], kb)
    BY <2>1, RowOf
  <2> DEFINE s == V[kb]
             w == W[kb]
  <2>3. Row(J, w, kb)
    <3>1. s \in Seq(Int) /\ Row(I, s, kb) /\ w = Append(s, x)
      BY <2>2
    <3> HIDE DEF s, w
    <3> QED BY <3>1, <2>1, <1>2, RowAppend
  <2>4. ASSUME NEW b \in TriedBuckets, b # kb PROVE Row(J, W[b], b)
    <3> DEFINE r == V[b]
    <3>1. Row(I, r, b) /\ W[b] = r
      BY <2>1, <2>4, RowOf DEF Beside
    <3> HIDE DEF r
    <3>2. Row(J, r, b)
      BY <3>1, <2>4, RowKeeps
    <3> QED BY <3>1, <3>2
  <2>5. \A b \in TriedBuckets : Row(J, W[b], b)
    BY <2>3, <2>4
  <2> QED BY <2>5, <1>1, OfRows
<1> QED BY <1>1, <1>5, <1>8, <1>9 DEF Exact

\* x takes the place of y, which goes to new bucket e.
Replaced(s, k, x) == [s EXCEPT ![k] = x]
TakesPlace(V, W, kb, r, k, x, y) == /\ Arranged(V[kb], r) /\ k \in 1..Len(r) /\ y = r[k]
                                    /\ W[kb] = Replaced(r, k, x) /\ Beside(V, W, kb)
Exchanged(N, M, x, y, e) == \A b \in NewBuckets : M[b] = IF b = e THEN (N[b] \ {x}) \cup {y} ELSE N[b] \ {x}
LEMMA MovesOut ==
  ASSUME NEW I, NEW A, NEW R, NEW n, NEW V, NEW m, NEW N, Exact(I, A, R, n, V, m, N),
         NEW x \in DOMAIN I, ~I[x].fInTried, NEW kb \in TriedBuckets, kb = GetTriedBucket[I[x].addr],
         NEW r, NEW k, NEW y, NEW Z, Z = {x, y},
         NEW J, Alter(I, J, Z), IsTried(J[x]), IsNew(J[y]),
         NEW e \in NewBuckets, NEW M, M \in [NewBuckets -> SUBSET DOMAIN I],
         Exchanged(N, M, x, y, e),
         NEW W, W \in [TriedBuckets -> Seq(Int)], TakesPlace(V, W, kb, r, k, x, y)
  PROVE  Exact(J, A, R, n, W, m, M)
<1>p. /\ Arranged(V[kb], r) /\ k \in 1..Len(r) /\ y = r[k]
      /\ W[kb] = Replaced(r, k, x) /\ Beside(V, W, kb) /\ Alter(I, J, {x, y})
  BY DEF TakesPlace
<1>0. InTried(I, V) /\ x \in Int /\ InNew(I, N) /\ IsFiniteSet(DOMAIN I)
  BY DEF Exact, Entries
<1>a. r \in Seq(Int) /\ Row(I, r, kb)
  <2> DEFINE s == V[kb]
  <2>1. s \in Seq(Int) /\ Row(I, s, kb) /\ Arranged(s, r)
    BY <1>0, <1>p, RowOf
  <2> HIDE DEF s
  <2> QED BY <2>1, RowArranged
<1>b. y \in DOMAIN I /\ I[y].fInTried /\ GetTriedBucket[I[y].addr] = kb /\ x # y
  BY <1>a, <1>p DEF Row
<1>1. Entries(J) /\ DOMAIN J = DOMAIN I /\ Found(J, A) /\ Listed(J, R)
  BY <1>p, AlterKeeps DEF Exact
<1>2. /\ \A i \in DOMAIN I : J[i].addr = I[i].addr
      /\ \A i \in DOMAIN I : i # x /\ i # y => J[i].fInTried = I[i].fInTried /\ J[i].nRefCount = I[i].nRefCount
      /\ J[x].fInTried /\ J[x].nRefCount = 0 /\ ~J[y].fInTried /\ J[y].nRefCount = 1
  BY <1>p DEF Alter, IsTried, IsNew
<1>3. I[x].nRefCount # 0 /\ I[y].nRefCount = 0 /\ Held(N, y) = {}
  BY <1>0, <1>b DEF InNew
<1>4. /\ Held(M, x) = {} /\ \A i : i # x /\ i # y => Held(M, i) = Held(N, i)
      /\ Held(M, y) = {e}
  <2>1. Held(M, x) = {}
    BY <1>b DEF Held, Exchanged
  <2>2. ASSUME NEW i, i # x, i # y PROVE Held(M, i) = Held(N, i)
    BY <2>2 DEF Held, Exchanged
  <2>3. Held(M, y) = {e}
    BY <1>3 DEF Held, Exchanged
  <2> QED BY <2>1, <2>2, <2>3
<1>5. InNew(J, M)
  <2>1. ASSUME NEW i \in DOMAIN J
        PROVE IF J[i].fInTried THEN J[i].nRefCount = 0 /\ Held(M, i) = {}
              ELSE J[i].nRefCount = Cardinality(Held(M, i)) /\ J[i].nRefCount \in 1..NEW_BUCKETS_PER_ADDRESS
    <3>1. CASE i = x
      BY <3>1, <1>2, <1>4
    <3>2. CASE i = y
      <4>1. NEW_BUCKETS_PER_ADDRESS \in Nat \ {0} /\ Cardinality({e}) = 1
        BY AddrManAssumption, FS_Singleton
      <4> QED BY <3>2, <4>1, <1>2, <1>4
    <3>3. CASE i # x /\ i # y
      BY <3>3, <1>0, <1>1, <1>2, <1>4 DEF InNew
    <3> QED BY <3>1, <3>2, <3>3
  <2> QED BY <2>1, <1>1 DEF InNew
<1>6. /\ New(J) = (New(I) \ {x}) \cup {y} /\ x \in New(I) /\ y \notin New(I) \ {x} /\ New(I) \in SUBSET DOMAIN I
      /\ Tried(J) = (Tried(I) \ {y}) \cup {x} /\ y \in Tried(I) /\ x \notin Tried(I) \ {y} /\ Tried(I) \in SUBSET DOMAIN I
  BY <1>b, <1>1, <1>2, <1>3 DEF New, Tried
<1>7. IsFiniteSet(New(I)) /\ IsFiniteSet(Tried(I))
  BY <1>0, <1>6, FS_Subset
<1>8. Tallied(J, n, m)
  <2>1. IsFiniteSet(New(I) \ {x}) /\ Cardinality(New(I) \ {x}) = Cardinality(New(I)) - 1
    BY <1>6, <1>7, OneTaken
  <2>2. Cardinality(New(J)) = Cardinality(New(I) \ {x}) + 1
    BY <1>6, <2>1, OneAdded
  <2>3. IsFiniteSet(Tried(I) \ {y}) /\ Cardinality(Tried(I) \ {y}) = Cardinality(Tried(I)) - 1
    BY <1>6, <1>7, OneTaken
  <2>4. Cardinality(Tried(J)) = Cardinality(Tried(I) \ {y}) + 1
    BY <1>6, <2>3, OneAdded
  <2>5. Cardinality(New(I)) \in Nat /\ Cardinality(Tried(I)) \in Nat
    BY <1>7, FS_CardinalityType
  <2> QED BY <2>1, <2>2, <2>3, <2>4, <2>5 DEF Exact, Tallied
<1>9. InTried(J, W)
  <2> DEFINE w == W[kb]
  <2>3. Row(J, w, kb)
    <3>1. w = [r EXCEPT ![k] = x]
      BY <1>p DEF Replaced
    <3> HIDE DEF w
    <3> QED BY <3>1, <1>0, <1>a, <1>p, <1>2, RowReplace
  <2>4. ASSUME NEW b \in TriedBuckets, b # kb PROVE Row(J, W[b], b)
    <3> DEFINE s == V[b]
    <3>1. Row(I, s, b) /\ W[b] = s
      BY <1>0, <2>4, <1>p, RowOf DEF Beside
    <3>2. \A z \in Z : z \in DOMAIN I => GetTriedBucket[I[z].addr] # b
      BY <1>b, <2>4
    <3>3. Alter(I, J, Z)
      OBVIOUS
    <3> HIDE DEF s
    <3>4. Row(J, s, b)
      BY <3>1, <3>2, <3>3, RowKeeps
    <3> QED BY <3>1, <3>4
  <2>5. \A b \in TriedBuckets : Row(J, W[b], b)
    BY <2>3, <2>4
  <2> QED BY <2>5, <1>1, OfRows
<1> QED BY <1>0, <1>1, <1>5, <1>8, <1>9 DEF Exact

\* Entries that change hands.
LEMMA Turned ==
  ASSUME NEW I, Entries(I), NEW x \in DOMAIN I, NEW J, J = [I EXCEPT ![x].nRefCount = 0],
         NEW K, K = [J EXCEPT ![x].fInTried = TRUE]
  PROVE  Alter(I, K, {x}) /\ IsTried(K[x])
<1> DEFINE d == [I[x] EXCEPT !.nRefCount = 0]
           e == [d EXCEPT !.fInTried = TRUE]
<1>1. I[x] \in Entry
  BY DEF Entries
<1>2. /\ d \in Entry /\ d.addr = I[x].addr /\ d.source = I[x].source
      /\ d.nRandomPos = I[x].nRandomPos /\ d.nRefCount = 0
  BY <1>1 DEF Entry
<1>3. J = [i \in DOMAIN I |-> IF i = x THEN d ELSE I[i]]
  BY DEF Entries
<1> HIDE DEF d
<1>4. /\ e \in Entry /\ e.addr = I[x].addr /\ e.source = I[x].source
      /\ e.nRandomPos = I[x].nRandomPos /\ e.nRefCount = 0
  BY <1>2 DEF Entry
<1>5. e.fInTried
  BY <1>2 DEF Entry
<1>6. K = [i \in DOMAIN I |-> IF i = x THEN e ELSE I[i]]
  BY <1>3
<1> HIDE DEF e
<1>7. K \in [DOMAIN I -> Entry]
  BY <1>4, <1>6 DEF Entries
<1>8. Alter(I, K, {x})
  BY <1>4, <1>6, <1>7 DEF Alter
<1> QED BY <1>4, <1>5, <1>6, <1>8 DEF IsTried

Zeroed(I, x) == [I EXCEPT ![x].nRefCount = 0]
Flipped(J, x, y) == [J EXCEPT ![y].fInTried = FALSE, ![y].nRefCount = 1, ![x].fInTried = TRUE]
LEMMA TurnedBack ==
  ASSUME NEW I, Entries(I), NEW x \in DOMAIN I, NEW y \in DOMAIN I, x # y,
         NEW J, J = Zeroed(I, x), NEW K, K = Flipped(J, x, y)
  PROVE  Alter(I, K, {x, y}) /\ IsTried(K[x]) /\ IsNew(K[y])
<1> DEFINE a == [I[x] EXCEPT !.nRefCount = 0]
           b == [I[y] EXCEPT !.fInTried = FALSE]
           c == [b EXCEPT !.nRefCount = 1]
           e == [a EXCEPT !.fInTried = TRUE]
           L == [J EXCEPT ![y].fInTried = FALSE, ![y].nRefCount = 1]
<1>0. J = [I EXCEPT ![x].nRefCount = 0] /\ K = [L EXCEPT ![x].fInTried = TRUE]
  BY DEF Zeroed, Flipped
<1>1. I[x] \in Entry /\ I[y] \in Entry
  BY DEF Entries
<1>2. /\ a \in Entry /\ a.addr = I[x].addr /\ a.source = I[x].source
      /\ a.nRandomPos = I[x].nRandomPos /\ a.nRefCount = 0
  BY <1>1 DEF Entry
<1>3. /\ b \in Entry /\ b.addr = I[y].addr /\ b.source = I[y].source
      /\ b.nRandomPos = I[y].nRandomPos
  BY <1>1 DEF Entry
<1>4. ~b.fInTried
  BY <1>1 DEF Entry
<1>5. J = [i \in DOMAIN I |-> IF i = x THEN a ELSE I[i]]
  BY <1>0 DEF Entries
<1>6. L = [i \in DOMAIN I |-> IF i = y THEN c ELSE J[i]]
  BY <1>5
<1> HIDE DEF a, b, L
<1>7. /\ c \in Entry /\ c.addr = I[y].addr /\ c.source = I[y].source
      /\ c.nRandomPos = I[y].nRandomPos /\ c.nRefCount = 1 /\ c.fInTried = b.fInTried
  BY <1>3 DEF Entry
<1>8. /\ e \in Entry /\ e.addr = I[x].addr /\ e.source = I[x].source
      /\ e.nRandomPos = I[x].nRandomPos /\ e.nRefCount = 0
  BY <1>2 DEF Entry
<1>9. e.fInTried
  BY <1>2 DEF Entry
<1>10. K = [i \in DOMAIN I |-> IF i = x THEN e ELSE IF i = y THEN c ELSE I[i]]
  BY <1>0, <1>5, <1>6
<1> HIDE DEF c, e
<1>11. K \in [DOMAIN I -> Entry]
  BY <1>7, <1>8, <1>10 DEF Entries
<1>12. Alter(I, K, {x, y})
  BY <1>7, <1>8, <1>10, <1>11 DEF Alter
<1>13. K[x] = e /\ K[y] = c
  BY <1>10
<1> QED BY <1>4, <1>7, <1>8, <1>9, <1>12, <1>13 DEF IsTried, IsNew

\* The smaller of two numbers.
LEMMA MinOfTwo ==
  ASSUME NEW a \in Nat, NEW b \in Nat
  PROVE  Min({a, b}) \in {a, b} /\ Min({a, b}) <= a /\ Min({a, b}) <= b
<1>1. CASE a <= b
  <2>1. a \in {a, b} /\ \A y \in {a, b} : a <= y
    BY <1>1
  <2> QED BY <2>1 DEF Min
<1>2. CASE b <= a
  <2>1. b \in {a, b} /\ \A y \in {a, b} : b <= y
    BY <1>2
  <2> QED BY <2>1 DEF Min
<1> QED BY <1>1, <1>2

\* MakeTried first takes entry i out of every new bucket.
Untaken(N, i) == [b \in NewBuckets |-> N[b] \ {i}]
LEMMA TakenParts ==
  ASSUME NEW t, Sound(t), NEW i \in DOMAIN t.mapInfo, ~t.mapInfo[i].fInTried
  PROVE  LeavesNew(t, i) = [nIdCount |-> t.nIdCount, mapInfo |-> [t.mapInfo EXCEPT ![i].nRefCount = 0], mapAddr |-> t.mapAddr,
                        vRandom |-> t.vRandom, nTried |-> t.nTried, vvTried |-> t.vvTried,
                        nNew |-> t.nNew - 1, vvNew |-> Untaken(t.vvNew, i)]
<1> DEFINE I == t.mapInfo
           c == I[i].nRefCount - Cardinality({b \in NewBuckets : i \in t.vvNew[b]})
           J == [I EXCEPT ![i].nRefCount = c]
           M == [b \in NewBuckets |-> t.vvNew[b] \ {i}]
           z == t.nNew - 1
           u == LeavesNew(t, i)
<1>1. c = 0
  <2>1. I[i].nRefCount = Cardinality(Held(t.vvNew, i)) /\ I[i].nRefCount \in Int
    BY DEF Sound, ExactWith, Exact, InNew
  <2> QED BY <2>1 DEF Held
<1>2. u = [t EXCEPT !.vvNew = M, !.mapInfo = J, !.nNew = z]
  BY DEF LeavesNew, Sound, Object
<1>3. Object(t)
  BY DEF Sound
<1>4. J = [I EXCEPT ![i].nRefCount = 0]
  BY <1>1
<1>5. M = Untaken(t.vvNew, i)
  BY DEF Untaken
<1> HIDE DEF J, M, z, u
<1>6. u = [nIdCount |-> t.nIdCount, mapInfo |-> J, mapAddr |-> t.mapAddr,
           vRandom |-> t.vRandom, nTried |-> t.nTried, vvTried |-> t.vvTried, nNew |-> z, vvNew |-> M]
  BY <1>2, <1>3 DEF Object
<1> QED BY <1>4, <1>5, <1>6 DEF z, u

\* The new buckets without i are smaller, and where i was there is room.
LEMMA UntakenSmall ==
  ASSUME NEW t, Sound(t), NEW i, NEW b \in NewBuckets
  PROVE  /\ IsFiniteSet(Untaken(t.vvNew, i)[b]) /\ Cardinality(Untaken(t.vvNew, i)[b]) \in Nat
         /\ Cardinality(Untaken(t.vvNew, i)[b]) <= NEW_BUCKET_SIZE
         /\ i \in t.vvNew[b] => Cardinality(Untaken(t.vvNew, i)[b]) < NEW_BUCKET_SIZE
<1> DEFINE S == t.vvNew[b]
           T == Untaken(t.vvNew, i)[b]
<1>1. S \in SUBSET DOMAIN t.mapInfo /\ IsFiniteSet(DOMAIN t.mapInfo) /\ Cardinality(S) <= NEW_BUCKET_SIZE
  BY DEF Sound, ExactWith, Exact, InNew, Small
<1>2. IsFiniteSet(S)
  BY <1>1, FS_Subset
<1>3. T = S \ {i}
  BY DEF Untaken
<1>4. NEW_BUCKET_SIZE \in Nat
  BY AddrManAssumption
<1> HIDE DEF S, T
<1>5. Cardinality(S) \in Nat
  BY <1>2, FS_CardinalityType
<1>6. CASE i \in S
  <2>1. IsFiniteSet(T) /\ Cardinality(T) = Cardinality(S) - 1
    BY <1>2, <1>3, <1>6, OneTaken
  <2>2. Cardinality(T) \in Nat
    BY <2>1, FS_CardinalityType
  <2> QED BY <1>1, <1>4, <1>5, <2>1, <2>2 DEF S, T
<1>7. CASE i \notin S
  <2>1. T = S
    BY <1>3, <1>7
  <2> QED BY <1>1, <1>2, <1>5, <1>7, <2>1 DEF S, T
<1> QED BY <1>6, <1>7

\* There is room in the tried bucket.
LEMMA RoomSound ==
  ASSUME NEW t, Sound(t), NEW i \in DOMAIN t.mapInfo, ~t.mapInfo[i].fInTried,
         NEW kb, kb = GetTriedBucket[t.mapInfo[i].addr], Len(t.vvTried[kb]) < TRIED_BUCKET_SIZE,
         NEW r, r = JoinsTried(LeavesNew(t, i), i, kb)
  PROVE  Sound(r) /\ r.nIdCount = t.nIdCount /\ r.mapAddr = t.mapAddr
<1> DEFINE I == t.mapInfo
           J == [I EXCEPT ![i].nRefCount = 0]
           K == [J EXCEPT ![i].fInTried = TRUE]
           M == Untaken(t.vvNew, i)
           V == t.vvTried
           W == [V EXCEPT ![kb] = Append(V[kb], i)]
           u == LeavesNew(t, i)
           z == t.nNew - 1
           y == t.nTried + 1
<1>0. /\ Object(t) /\ Entries(I) /\ i \in Int
      /\ Exact(I, t.mapAddr, t.vRandom, t.nTried, V, t.nNew, t.vvNew)
      /\ DOMAIN I \subseteq 0..(t.nIdCount - 1) /\ Small(V, t.vvNew)
  BY DEF Sound, ExactWith, Exact, Entries
<1>1. kb \in TriedBuckets
  <2>1. I[i] \in Entry
    BY <1>0 DEF Entries
  <2>2. I[i].addr \in Addrs
    BY <2>1 DEF Entry
  <2> QED BY <2>2, AddrManAssumption
<1>2. u = [nIdCount |-> t.nIdCount, mapInfo |-> J, mapAddr |-> t.mapAddr,
           vRandom |-> t.vRandom, nTried |-> t.nTried, vvTried |-> V, nNew |-> z, vvNew |-> M]
  BY TakenParts
<1>3. r = [u EXCEPT !.vvTried = [u.vvTried EXCEPT ![kb] = Append(@, i)], !.nTried = u.nTried + 1,
                    !.mapInfo = [u.mapInfo EXCEPT ![i].fInTried = TRUE]]
  <2> HIDE DEF u
  <2>1. r = [u EXCEPT !.vvTried[kb] = Append(@, i), !.nTried = @ + 1, !.mapInfo[i].fInTried = TRUE]
    BY DEF u, JoinsTried
  <2> QED BY <2>1, <1>2
<1>4. Alter(I, K, {i}) /\ IsTried(K[i])
  <2> HIDE DEF J, K, I
  <2> QED BY <1>0, Turned DEF J, K, I
<1>5. /\ V \in [TriedBuckets -> Seq(Int)] /\ t.vvNew \in [NewBuckets -> SUBSET DOMAIN I]
      /\ t.mapAddr \in [DOMAIN t.mapAddr -> Int] /\ t.nIdCount \in Nat /\ t.vRandom \in Seq(Int)
      /\ y \in Int /\ z \in Int /\ DOMAIN I \subseteq Int
  BY <1>0 DEF Object, Exact, InNew, Entries
<1>6. /\ W \in [TriedBuckets -> Seq(Int)] /\ W[kb] = Append(V[kb], i)
      /\ Beside(V, W, kb)
  <2> HIDE DEF V
  <2>1. Append(V[kb], i) \in Seq(Int)
    BY <1>0, <1>1, <1>5
  <2> DEFINE w == Append(V[kb], i)
  <2> HIDE DEF w
  <2>2. W = [V EXCEPT ![kb] = w] /\ w \in Seq(Int)
    BY <2>1 DEF w
  <2> HIDE DEF W
  <2>3. W \in [TriedBuckets -> Seq(Int)] /\ W[kb] = w /\ Beside(V, W, kb)
    BY <1>1, <1>5, <2>2 DEF Beside
  <2> QED BY <2>3 DEF w
<1>7. M \in [NewBuckets -> SUBSET DOMAIN I] /\ Removed(t.vvNew, M, i)
  BY <1>5 DEF Untaken, Removed
<1>8. r = [nIdCount |-> t.nIdCount, mapInfo |-> K, mapAddr |-> t.mapAddr,
           vRandom |-> t.vRandom, nTried |-> y, vvTried |-> W, nNew |-> z, vvNew |-> M]
  <2>1. W = [V EXCEPT ![kb] = Append(@, i)]
    OBVIOUS
  <2> HIDE DEF u, J, W, z, M, V
  <2>2. u.vvTried = V /\ u.nTried = t.nTried /\ u.mapInfo = J
    BY <1>2
  <2>3. r = [u EXCEPT !.vvTried = W, !.nTried = y, !.mapInfo = K]
    BY <1>3, <2>1, <2>2
  <2> HIDE DEF K, y
  <2> QED BY <1>2, <2>3
<1> HIDE DEF I, J, K, M, V, W, u, y, z
<1>9. Exact(K, t.mapAddr, t.vRandom, y, W, z, M)
  <2>1. Exact(K, t.mapAddr, t.vRandom, t.nTried + 1, W, t.nNew - 1, M)
    <3> DEFINE N == t.vvNew
               A == t.mapAddr
               R == t.vRandom
               n == t.nTried
               m == t.nNew
    <3>1. Exact(I, A, R, n, V, m, N) /\ Removed(N, M, i)
      BY <1>0, <1>7
    <3>2. i \in DOMAIN I /\ ~I[i].fInTried /\ kb = GetTriedBucket[I[i].addr]
      BY DEF I
    <3> HIDE DEF N, A, R, n, m
    <3>3. Exact(K, A, R, n + 1, W, m - 1, M)
      BY <3>1, <3>2, <1>1, <1>4, <1>6, <1>7, MovesIn
    <3> QED BY <3>3 DEF A, R, n, m
  <2> QED BY <2>1 DEF y, z
<1>10. K \in [DOMAIN I -> Entry] /\ DOMAIN K = DOMAIN I
  BY <1>4 DEF Alter
<1>11. Object(r)
  BY <1>5, <1>6, <1>7, <1>8, <1>10 DEF Object
<1>12. Small(W, M)
  <2>1. ASSUME NEW b \in TriedBuckets PROVE Len(W[b]) <= TRIED_BUCKET_SIZE
    <3>1. CASE b = kb
      <4> DEFINE s == V[kb]
      <4>1. s \in Seq(Int) /\ W[b] = Append(s, i) /\ Len(s) < TRIED_BUCKET_SIZE /\ TRIED_BUCKET_SIZE \in Nat
        BY <3>1, <1>1, <1>5, <1>6, AddrManAssumption DEF V
      <4> HIDE DEF s
      <4>2. Len(Append(s, i)) = Len(s) + 1 /\ Len(s) \in Nat
        BY <4>1
      <4> QED BY <4>1, <4>2
    <3>2. CASE b # kb
      BY <3>2, <1>0, <1>6 DEF Small, Beside
    <3> QED BY <3>1, <3>2
  <2>2. \A b \in NewBuckets : Cardinality(M[b]) <= NEW_BUCKET_SIZE
    BY UntakenSmall DEF M
  <2> QED BY <2>1, <2>2 DEF Small
<1>13. ExactWith(r, M)
  BY <1>8, <1>9 DEF ExactWith
<1> QED BY <1>0, <1>8, <1>10, <1>11, <1>12, <1>13 DEF Sound, I

\* The tried bucket is full.
LEMMA EvictSound ==
  ASSUME NEW t, Sound(t), NEW i \in DOMAIN t.mapInfo, ~t.mapInfo[i].fInTried,
         NEW o \in NewBuckets, i \in t.vvNew[o],
         NEW kb, kb = GetTriedBucket[t.mapInfo[i].addr],
         NEW s, Arranged(t.vvTried[kb], s), NEW p \in 1..Len(s),
         NEW r, r = Evict(LeavesNew(t, i), i, kb, s, p, o)
  PROVE  Sound(r) /\ r.nIdCount = t.nIdCount /\ r.mapAddr = t.mapAddr
<1> DEFINE I == t.mapInfo
           x == s[p]
           J == [I EXCEPT ![i].nRefCount = 0]
           K == Flipped(J, i, x)
           P == Untaken(t.vvNew, i)
           V == t.vvTried
           w == [s EXCEPT ![p] = i]
           W == [V EXCEPT ![kb] = w]
           u == LeavesNew(t, i)
           e == EvictedTo(u, x, o)
           M == [P EXCEPT ![e] = P[e] \cup {x}]
           z == t.nNew - 1
<1>0. /\ Object(t) /\ Entries(I) /\ i \in Int
      /\ Exact(I, t.mapAddr, t.vRandom, t.nTried, V, t.nNew, t.vvNew)
      /\ DOMAIN I \subseteq 0..(t.nIdCount - 1) /\ Small(V, t.vvNew) /\ InTried(I, V)
  BY DEF Sound, ExactWith, Exact, Entries
<1>1. kb \in TriedBuckets
  <2>1. I[i] \in Entry
    BY <1>0 DEF Entries
  <2>2. I[i].addr \in Addrs
    BY <2>1 DEF Entry
  <2> QED BY <2>2, AddrManAssumption
<1>2. u = [nIdCount |-> t.nIdCount, mapInfo |-> J, mapAddr |-> t.mapAddr,
           vRandom |-> t.vRandom, nTried |-> t.nTried, vvTried |-> V, nNew |-> z, vvNew |-> P]
  BY TakenParts
<1>3. s \in Seq(Int) /\ Len(s) = Len(V[kb]) /\ Row(I, s, kb)
  <2> DEFINE q == V[kb]
  <2>1. q \in Seq(Int) /\ Row(I, q, kb) /\ Arranged(q, s)
    BY <1>0, <1>1, RowOf
  <2> HIDE DEF q
  <2>2. s \in Seq(Int) /\ Len(s) = Len(q) /\ Row(I, s, kb)
    BY <2>1, RowArranged
  <2> QED BY <2>2 DEF q
<1>4. x \in DOMAIN I /\ I[x].fInTried /\ x # i
  BY <1>3 DEF Row
<1>5. /\ V \in [TriedBuckets -> Seq(Int)] /\ t.vvNew \in [NewBuckets -> SUBSET DOMAIN I]
      /\ t.mapAddr \in [DOMAIN t.mapAddr -> Int] /\ t.nIdCount \in Nat /\ t.vRandom \in Seq(Int)
      /\ t.nTried \in Int /\ t.nNew \in Int /\ DOMAIN I \subseteq Int
  BY <1>0 DEF Object, Exact, InNew, Entries
<1>6. e \in NewBuckets /\ Cardinality(P[e]) < NEW_BUCKET_SIZE
  <2>1. u.mapInfo = J /\ u.vvNew = P
    BY <1>2
  <2> HIDE DEF u, P
  <2>2. Recount(I, J, i, 0)
    BY <1>0, Recounted
  <2>3. J[x] \in Entry
    BY <1>4, <2>2 DEF Recount
  <2> HIDE DEF J
  <2> DEFINE b == GetNewBucket[J[x].addr][J[x].source]
  <2>4. b \in NewBuckets
    <3>1. J[x].addr \in Addrs /\ J[x].source \in Sources
      BY <2>3 DEF Entry
    <3> QED BY <3>1, AddrManAssumption
  <2>5. e = IF Cardinality(P[b]) < NEW_BUCKET_SIZE THEN b ELSE o
    BY <2>1 DEF EvictedTo
  <2>6. Cardinality(P[o]) < NEW_BUCKET_SIZE
    BY UntakenSmall DEF P
  <2> HIDE DEF b, e
  <2> QED BY <2>4, <2>5, <2>6
<1>7. Alter(I, K, {i, x}) /\ IsTried(K[i]) /\ IsNew(K[x])
  <2>1. J = Zeroed(I, i) /\ K = Flipped(J, i, x)
    BY DEF Zeroed
  <2>2. i \in DOMAIN I /\ i # x
    BY <1>4
  <2> HIDE DEF J, K, I, x
  <2> QED BY <1>0, <1>4, <2>1, <2>2, TurnedBack
<1>8. w \in Seq(Int) /\ Len(w) = Len(V[kb])
  BY <1>0, <1>3
<1>9. W \in [TriedBuckets -> Seq(Int)] /\ W[kb] = w /\ Beside(V, W, kb)
  <2> HIDE DEF w, V
  <2> QED BY <1>1, <1>5, <1>8 DEF Beside
<1>10. P \in [NewBuckets -> SUBSET DOMAIN I] /\ \A b \in NewBuckets : P[b] = t.vvNew[b] \ {i}
  BY <1>5 DEF Untaken
<1>11. /\ M \in [NewBuckets -> SUBSET DOMAIN I] /\ Exchanged(t.vvNew, M, i, x, e)
       /\ M[e] = P[e] \cup {x} /\ \A b \in NewBuckets : b # e => M[b] = P[b]
  <2> HIDE DEF P, e, x
  <2> QED BY <1>4, <1>6, <1>10 DEF Exchanged
<1>13. r = [nIdCount |-> t.nIdCount, mapInfo |-> K, mapAddr |-> t.mapAddr,
            vRandom |-> t.vRandom, nTried |-> t.nTried, vvTried |-> W, nNew |-> t.nNew, vvNew |-> M]
  <2>1. r = [u EXCEPT !.mapInfo = Flipped(u.mapInfo, i, x), !.vvNew = [u.vvNew EXCEPT ![e] = @ \cup {x}],
                      !.nNew = u.nNew + 1, !.vvTried = [u.vvTried EXCEPT ![kb] = w]]
    <3>1. r = [u EXCEPT !.mapInfo = Flipped(@, i, x), !.vvNew[e] = @ \cup {x}, !.nNew = @ + 1, !.vvTried[kb] = w]
      BY DEF Evict, Flipped
    <3> HIDE DEF u, e, w, x, V
    <3> QED BY <3>1, <1>2
  <2>2. z + 1 = t.nNew
    BY <1>5
  <2> HIDE DEF u, e, w, x, J, P, V, z
  <2>3. u.vvTried = V /\ u.mapInfo = J /\ u.nNew = z /\ u.vvNew = P
    BY <1>2
  <2> DEFINE v == t.nNew
  <2>4. r = [u EXCEPT !.mapInfo = K, !.vvNew = M, !.nNew = v, !.vvTried = W]
    BY <2>1, <2>2, <2>3
  <2> HIDE DEF K, M, W, v
  <2>5. r = [nIdCount |-> t.nIdCount, mapInfo |-> K, mapAddr |-> t.mapAddr,
             vRandom |-> t.vRandom, nTried |-> t.nTried, vvTried |-> W, nNew |-> v, vvNew |-> M]
    BY <1>2, <2>4
  <2> QED BY <2>5 DEF v
<1> HIDE DEF I, J, K, M, P, V, W, u, w, x, z, e
<1>14. Exact(K, t.mapAddr, t.vRandom, t.nTried, W, t.nNew, M)
  <2> DEFINE N == t.vvNew
             A == t.mapAddr
             R == t.vRandom
             n == t.nTried
             m == t.nNew
  <2>1. Exact(I, A, R, n, V, m, N) /\ Exchanged(N, M, i, x, e)
    BY <1>0, <1>11
  <2>2. i \in DOMAIN I /\ ~I[i].fInTried /\ kb = GetTriedBucket[I[i].addr] /\ Arranged(V[kb], s)
    BY DEF I, V
  <2>3. TakesPlace(V, W, kb, s, p, i, x)
    BY <1>9, <2>2 DEF x, w, Replaced, TakesPlace
  <2> DEFINE Z == {i, x}
  <2>4. Alter(I, K, Z) /\ IsTried(K[i]) /\ IsNew(K[x]) /\ Z = {i, x}
    BY <1>7
  <2>5. e \in NewBuckets /\ M \in [NewBuckets -> SUBSET DOMAIN I] /\ W \in [TriedBuckets -> Seq(Int)]
    BY <1>6, <1>9, <1>11
  <2> HIDE DEF N, A, R, n, m, Z
  <2>6. Exact(K, A, R, n, W, m, M)
    BY <2>1, <2>2, <2>3, <2>4, <2>5, <1>1, MovesOut
  <2> QED BY <2>6 DEF A, R, n, m
<1>15. K \in [DOMAIN I -> Entry] /\ DOMAIN K = DOMAIN I
  BY <1>7 DEF Alter
<1>16. Object(r)
  BY <1>5, <1>9, <1>11, <1>13, <1>15 DEF Object
<1>17. Small(W, M)
  <2>1. ASSUME NEW b \in TriedBuckets PROVE Len(W[b]) <= TRIED_BUCKET_SIZE
    <3>1. CASE b = kb
      BY <3>1, <1>0, <1>1, <1>8, <1>9 DEF Small
    <3>2. CASE b # kb
      BY <3>2, <1>0, <1>9 DEF Small, Beside
    <3> QED BY <3>1, <3>2
  <2>2. ASSUME NEW b \in NewBuckets PROVE Cardinality(M[b]) <= NEW_BUCKET_SIZE
    <3>1. IsFiniteSet(P[b]) /\ Cardinality(P[b]) \in Nat /\ Cardinality(P[b]) <= NEW_BUCKET_SIZE
      BY UntakenSmall DEF P
    <3>2. CASE b # e
      BY <3>1, <3>2, <1>11
    <3>3. CASE b = e
      <4> DEFINE S == P[e]
                 T == M[e]
      <4>0. T = M[b]
        BY <3>3
      <4>1. T = S \cup {x} /\ IsFiniteSet(S) /\ Cardinality(S) \in Nat /\ Cardinality(S) < NEW_BUCKET_SIZE /\ NEW_BUCKET_SIZE \in Nat
        BY <3>1, <3>3, <1>6, <1>11, AddrManAssumption
      <4> HIDE DEF S, T
      <4>2. CASE x \in S
        <5>0. T = S
          BY <4>1, <4>2
        <5>1. Cardinality(T) = Cardinality(S)
          BY <5>0, Zenon
        <5>2. Cardinality(T) <= NEW_BUCKET_SIZE
          BY <4>1, <5>1
        <5> QED BY <4>0, <5>2
      <4>3. CASE x \notin S
        <5>1. Cardinality(T) = Cardinality(S) + 1
          BY <4>1, <4>3, OneAdded
        <5>2. Cardinality(T) <= NEW_BUCKET_SIZE
          BY <4>1, <5>1
        <5> QED BY <4>0, <5>2
      <4> QED BY <4>2, <4>3
    <3> QED BY <3>2, <3>3
  <2> QED BY <2>1, <2>2 DEF Small
<1>18. ExactWith(r, M)
  BY <1>13, <1>14 DEF ExactWith
<1> QED BY <1>0, <1>13, <1>15, <1>16, <1>17, <1>18 DEF Sound, I

\* Good_.
LEMMA GoodSound ==
  ASSUME NEW t, Sound(t), NEW i \in DOMAIN t.mapInfo, ~t.mapInfo[i].fInTried,
         NEW o \in NewBuckets, i \in t.vvNew[o], NEW r \in MakeTried(t, i, o)
  PROVE  Sound(r) /\ r.nIdCount = t.nIdCount /\ r.mapAddr = t.mapAddr
<1> DEFINE kb == GetTriedBucket[t.mapInfo[i].addr]
           s == t.vvTried[kb]
           n == Inspected(s)
<1>1. CASE Len(s) < TRIED_BUCKET_SIZE
  <2>1. r = JoinsTried(LeavesNew(t, i), i, kb)
    BY <1>1 DEF MakeTried
  <2> HIDE DEF kb
  <2>2. kb = GetTriedBucket[t.mapInfo[i].addr] /\ Len(t.vvTried[kb]) < TRIED_BUCKET_SIZE
    BY <1>1 DEF kb
  <2> QED BY <2>1, <2>2, RoomSound
<1>2. CASE ~(Len(s) < TRIED_BUCKET_SIZE)
  <2>1. PICK f \in Picks(s, n), k \in 1..n : r = Evict(LeavesNew(t, i), i, kb, Shuffled(s, f, n), f[k], o)
    <3> DEFINE u == LeavesNew(t, i)
    <3>1. MakeTried(t, i, o) =
            IF Len(s) < TRIED_BUCKET_SIZE THEN {JoinsTried(u, i, kb)}
            ELSE {Evict(u, i, kb, Shuffled(s, f, n), f[k], o) : f \in Picks(s, n), k \in 1..n}
      BY DEF MakeTried
    <3> HIDE DEF u, kb, s, n
    <3>2. r \in {Evict(u, i, kb, Shuffled(s, f, n), f[k], o) : f \in Picks(s, n), k \in 1..n}
      BY <3>1, <1>2
    <3> QED BY <3>2 DEF u
  <2>2. kb \in TriedBuckets
    <3>1. t.mapInfo[i] \in Entry
      BY DEF Sound, ExactWith, Exact, Entries
    <3>2. t.mapInfo[i].addr \in Addrs
      BY <3>1 DEF Entry
    <3> QED BY <3>2, AddrManAssumption
  <2>3. s \in Seq(Int) /\ Row(t.mapInfo, s, kb)
    <3>1. InTried(t.mapInfo, t.vvTried)
      BY DEF Sound, ExactWith, Exact
    <3> HIDE DEF kb
    <3> QED BY <3>1, <2>2, RowOf
  <2>4. n \in Nat /\ n <= Len(s)
    <3> HIDE DEF s
    <3>1. TRIED_ENTRIES_INSPECT_ON_EVICT \in Nat
      BY AddrManAssumption
    <3>2. Len(s) \in Nat
      BY <2>3
    <3> QED BY <3>1, <3>2, MinOfTwo DEF Inspected
  <2> DEFINE w == Shuffled(s, f, n)
             p == f[k]
  <2>5. kb = GetTriedBucket[t.mapInfo[i].addr] /\ s = t.vvTried[kb] /\ r = Evict(LeavesNew(t, i), i, kb, w, p, o)
    BY <2>1
  <2> HIDE DEF kb, s, n
  <2>6. Arranged(s, w)
    BY <2>1, <2>3, <2>4, ShuffleArranged DEF Row
  <2>7. p \in 1..Len(w)
    <3>1. p \in 1..Len(s)
      BY <2>1 DEF Picks
    <3> QED BY <3>1, <2>6 DEF Arranged
  <2> HIDE DEF w, p
  <2>8. Arranged(t.vvTried[kb], w)
    BY <2>5, <2>6
  <2> QED BY <2>5, <2>7, <2>8, EvictSound
<1> QED BY <1>1, <1>2

-----------------------------------------------------------------------------
(* Reading peers.dat.                                                      *)

\* How many elements of S are below i.
Rank(S, i) == Cardinality({j \in S : j < i})
LEMMA RankOf ==
  ASSUME NEW S \in SUBSET Nat, IsFiniteSet(S), NEW i \in S
  PROVE  Rank(S, i) \in 0..(Cardinality(S) - 1)
<1> DEFINE B == {j \in S : j < i}
           C == S \ {i}
<1>1. B \in SUBSET C /\ IsFiniteSet(C) /\ Cardinality(C) = Cardinality(S) - 1
  <2>1. B \in SUBSET C
    OBVIOUS
  <2>2. IsFiniteSet(C) /\ Cardinality(C) = Cardinality(S) - 1
    BY OneTaken
  <2> QED BY <2>1, <2>2
<1> HIDE DEF B, C
<1>2. Cardinality(B) <= Cardinality(C) /\ IsFiniteSet(B)
  BY <1>1, FS_Subset
<1>3. Cardinality(B) \in Nat /\ Cardinality(S) \in Nat
  BY <1>2, FS_CardinalityType
<1> QED BY <1>1, <1>2, <1>3 DEF Rank, B
LEMMA RankGrows ==
  ASSUME NEW S \in SUBSET Nat, IsFiniteSet(S), NEW i \in S, NEW k \in S, i < k
  PROVE  Rank(S, i) < Rank(S, k)
<1> DEFINE B == {j \in S : j < i}
           C == {j \in S : j < k}
           D == B \cup {i}
<1>1. B \in SUBSET S /\ i \notin B /\ D \in SUBSET C /\ C \in SUBSET S
  <2>1. B \in SUBSET S /\ i \notin B /\ C \in SUBSET S
    OBVIOUS
  <2>2. ASSUME NEW j \in D PROVE j \in C
    <3>1. CASE j = i
      BY <3>1
    <3>2. CASE j \in B
      <4>1. j \in S /\ j < i /\ j \in Nat /\ i \in Nat /\ k \in Nat
        BY <3>2
      <4> QED BY <4>1
    <3> QED BY <2>2, <3>1, <3>2
  <2> QED BY <2>1, <2>2
<1>2. D = B \cup {i}
  OBVIOUS
<1> HIDE DEF B, C, D
<1>3. IsFiniteSet(B) /\ IsFiniteSet(C)
  BY <1>1, FS_Subset
<1>4. Cardinality(D) = Cardinality(B) + 1
  BY <1>1, <1>2, <1>3, OneAdded
<1>5. Cardinality(D) <= Cardinality(C)
  BY <1>1, <1>3, FS_Subset
<1>6. Cardinality(B) \in Nat /\ Cardinality(C) \in Nat
  BY <1>3, FS_CardinalityType
<1> QED BY <1>4, <1>5, <1>6 DEF Rank, B, C
LEMMA RankOnce ==
  ASSUME NEW S \in SUBSET Nat, IsFiniteSet(S), NEW i \in S, NEW k \in S, Rank(S, i) = Rank(S, k)
  PROVE  i = k
<1>1. Rank(S, i) \in Int /\ Rank(S, k) \in Int
  BY RankOf
<1>2. CASE i < k
  BY <1>1, <1>2, RankGrows
<1>3. CASE k < i
  BY <1>1, <1>3, RankGrows
<1> QED BY <1>2, <1>3
LEMMA RankAll ==
  ASSUME NEW S \in SUBSET Nat, IsFiniteSet(S), NEW p \in 0..(Cardinality(S) - 1)
  PROVE  \E i \in S : Rank(S, i) = p
<1> DEFINE n == Cardinality(S)
           T == 0..(n - 1)
           f == [i \in S |-> Rank(S, i)]
<1>1. f \in [S -> T] /\ \A i, k \in S : f[i] = f[k] => i = k
  BY RankOf, RankOnce
<1>2. n \in Nat
  BY FS_CardinalityType
<1>3. IsFiniteSet(T) /\ Cardinality(T) = n
  <2> HIDE DEF n
  <2>1. n - 1 \in Int
    BY <1>2
  <2>2. IsFiniteSet(T) /\ Cardinality(T) = IF 0 > n - 1 THEN 0 ELSE n - 1 - 0 + 1
    BY <2>1, FS_Interval
  <2> QED BY <1>2, <2>2
<1> HIDE DEF T, f
<1>4. f \in Injection(S, T)
  BY <1>1 DEF Injection, IsInjective
<1>5. f \in Surjection(S, T)
  BY <1>3, <1>4, FS_Injection
<1>6. PICK i \in S : f[i] = p
  BY <1>5 DEF Surjection, T
<1> QED BY <1>6 DEF f

\* Ascending lists S once.
Lists(a, S) == /\ a \in Seq(S) /\ Len(a) = Cardinality(S)
               /\ \A p \in 1..Len(a) : Rank(S, a[p]) = p - 1
               /\ \A i \in S : Rank(S, i) + 1 \in 1..Len(a) /\ a[Rank(S, i) + 1] = i
LEMMA AscendingLists ==
  ASSUME NEW S \in SUBSET Nat, IsFiniteSet(S)
  PROVE  Lists(Ascending(S), S)
<1> DEFINE n == Cardinality(S)
           a == Ascending(S)
<1>1. n \in Nat
  BY FS_CardinalityType
<1>2. a = [p \in 1..n |-> CHOOSE i \in S : Rank(S, i) = p - 1]
  BY DEF Ascending, Rank
<1>3. \A p \in 1..n : a[p] \in S /\ Rank(S, a[p]) = p - 1
  <2> HIDE DEF n, a
  <2> TAKE p \in 1..n
  <2>1. p - 1 \in 0..(n - 1)
    BY <1>1
  <2>2. \E i \in S : Rank(S, i) = p - 1
    BY <2>1, RankAll DEF n
  <2>3. a[p] = CHOOSE i \in S : Rank(S, i) = p - 1
    BY <1>2
  <2> QED BY <2>2, <2>3
<1> HIDE DEF n, a
<1>4. a \in Seq(S) /\ Len(a) = n
  <2>1. a \in [1..n -> S]
    BY <1>2, <1>3
  <2> QED BY <1>1, <2>1
<1>5. ASSUME NEW i \in S PROVE Rank(S, i) + 1 \in 1..n /\ a[Rank(S, i) + 1] = i
  <2> DEFINE q == Rank(S, i)
  <2>1. q \in 0..(n - 1)
    BY RankOf DEF n
  <2> HIDE DEF q
  <2>2. q + 1 \in 1..n /\ (q + 1) - 1 = q
    BY <1>1, <2>1
  <2>3. a[q + 1] \in S /\ Rank(S, a[q + 1]) = q
    BY <1>3, <2>2
  <2> DEFINE x == a[q + 1]
  <2>4. x \in S /\ Rank(S, x) = Rank(S, i)
    BY <2>3 DEF q
  <2> HIDE DEF x
  <2>5. x = i
    BY <2>4, RankOnce
  <2> QED BY <2>2, <2>5 DEF q, x
<1> QED BY <1>3, <1>4, <1>5 DEF Lists, n, a

\* The numbers that the entries get.
Order(t) == Ascending(NewIds(t)) \o Ascending(TriedIds(t))
Reading(t) == [i \in 0..(Len(Order(t)) - 1) |-> Order(t)[i + 1]]
Place(t) == [j \in DOMAIN t.mapInfo |-> IF t.mapInfo[j].fInTried THEN t.nNew + Rank(TriedIds(t), j)
                                        ELSE Rank(NewIds(t), j)]
Numbers(I, h, g, l, n) ==
  /\ l \in Nat /\ n \in 0..l /\ h \in [0..(l - 1) -> DOMAIN I] /\ g \in [DOMAIN I -> 0..(l - 1)]
  /\ \A i \in 0..(l - 1) : g[h[i]] = i /\ (I[h[i]].fInTried <=> i >= n)
  /\ \A j \in DOMAIN I : h[g[j]] = j
LEMMA SeqWider ==
  ASSUME NEW S, NEW T, S \in SUBSET T, NEW a \in Seq(S)
  PROVE  a \in Seq(T)
<1>1. Len(a) \in Nat /\ a \in [1..Len(a) -> S]
  OBVIOUS
<1>2. a \in [1..Len(a) -> T]
  BY <1>1
<1> DEFINE k == Len(a)
<1> HIDE DEF k
<1>3. k \in Nat /\ a \in [1..k -> T]
  BY <1>1, <1>2 DEF k
<1> QED BY <1>3
LEMMA Numbered ==
  ASSUME NEW t, Sound(t), NEW h, h = Reading(t)
  PROVE  /\ Numbers(t.mapInfo, h, Place(t), t.nNew + t.nTried, t.nNew)
         /\ Len(Order(t)) = t.nNew + t.nTried /\ t.nTried \in Nat
         /\ \A j \in NewIds(t) : Place(t)[j] = mapUnkIds(t)[j]
<1> DEFINE I == t.mapInfo
           S == NewIds(t)
           T == TriedIds(t)
           n == t.nNew
           m == t.nTried
           g == Place(t)
           a == Ascending(S)
           c == Ascending(T)
           l == n + m
<1>1. /\ IsFiniteSet(DOMAIN I) /\ DOMAIN I \in SUBSET Nat /\ Tallied(I, m, n)
      /\ \A j \in DOMAIN I : IF I[j].fInTried THEN I[j].nRefCount = 0 ELSE I[j].nRefCount # 0
  <2>1. IsFiniteSet(DOMAIN I) /\ DOMAIN I \in SUBSET Nat /\ Tallied(I, m, n) /\ InNew(I, t.vvNew)
    BY DEF Sound, ExactWith, Exact, Entries
  <2> QED BY <2>1 DEF InNew
<1>2. /\ S \in SUBSET DOMAIN I /\ T \in SUBSET DOMAIN I
      /\ \A j \in DOMAIN I : (j \in T <=> I[j].fInTried) /\ (j \in S <=> ~I[j].fInTried)
  BY <1>1 DEF NewIds, TriedIds
<1>3. n = Cardinality(S) /\ m = Cardinality(T)
  BY <1>1 DEF Tallied, Tried, New, NewIds, TriedIds
<1>4. g = [j \in DOMAIN I |-> IF I[j].fInTried THEN n + Rank(T, j) ELSE Rank(S, j)]
  BY DEF Place
<1>5. \A j \in S : mapUnkIds(t)[j] = Rank(S, j)
  BY <1>2 DEF mapUnkIds, Rank
<1> HIDE DEF I, S, T, n, m, g, a, c
<1>6. S \in SUBSET Nat /\ T \in SUBSET Nat /\ IsFiniteSet(S) /\ IsFiniteSet(T)
  BY <1>1, <1>2, FS_Subset
<1>7. n \in Nat /\ m \in Nat
  BY <1>3, <1>6, FS_CardinalityType
<1>8. Lists(a, S) /\ Lists(c, T)
  BY <1>6, AscendingLists DEF a, c
<1>9. /\ a \in Seq(S) /\ Len(a) = n /\ c \in Seq(T) /\ Len(c) = m
      /\ \A p \in 1..n : a[p] \in S /\ Rank(S, a[p]) = p - 1
      /\ \A p \in 1..m : c[p] \in T /\ Rank(T, c[p]) = p - 1
      /\ \A i \in S : Rank(S, i) + 1 \in 1..n /\ a[Rank(S, i) + 1] = i
      /\ \A i \in T : Rank(T, i) + 1 \in 1..m /\ c[Rank(T, i) + 1] = i
  BY <1>3, <1>8 DEF Lists
<1> DEFINE o == a \o c
<1>10. Len(o) = l /\ \A p \in 1..l : o[p] = IF p <= n THEN a[p] ELSE c[p - n]
  <2>1. a \in Seq(Nat) /\ c \in Seq(Nat)
    BY <1>6, <1>9, SeqWider
  <2>2. Len(o) = Len(a) + Len(c) /\ \A p \in 1..(Len(a) + Len(c)) : o[p] = IF p <= Len(a) THEN a[p] ELSE c[p - Len(a)]
    BY <2>1, ConcatProperties
  <2> HIDE DEF o
  <2> QED BY <1>9, <2>2
<1>11. o = Order(t)
  BY DEF Order, S, T, a, c
<1>12. h = [i \in 0..(l - 1) |-> o[i + 1]]
  <2> HIDE DEF o, l
  <2>1. h = [i \in 0..(Len(o) - 1) |-> o[i + 1]]
    BY <1>11, Zenon DEF Reading
  <2> QED BY <1>10, <2>1
<1> HIDE DEF o, l
<1>13. l \in Nat /\ l = n + m
  BY <1>7 DEF l
<1>14. ASSUME NEW i \in 0..(l - 1) PROVE h[i] \in DOMAIN I /\ g[h[i]] = i /\ (I[h[i]].fInTried <=> i >= n)
  <2>1. h[i] = o[i + 1] /\ i + 1 \in 1..l
    BY <1>12, <1>13
  <2>2. CASE i < n
    <3>1. h[i] = a[i + 1] /\ i + 1 \in 1..n /\ (i + 1) - 1 = i
      BY <1>7, <1>10, <1>13, <2>1, <2>2
    <3>2. h[i] \in S /\ Rank(S, h[i]) = i
      BY <1>9, <3>1
    <3>3. h[i] \in DOMAIN I /\ ~I[h[i]].fInTried
      BY <1>2, <3>2
    <3> QED BY <1>4, <1>7, <2>2, <3>2, <3>3
  <2>3. CASE ~(i < n)
    <3> DEFINE k == i + 1 - n
    <3>1. h[i] = c[k] /\ k \in 1..m /\ n + (k - 1) = i
      BY <1>7, <1>10, <1>13, <2>1, <2>3
    <3> HIDE DEF k
    <3>2. h[i] \in T /\ n + Rank(T, h[i]) = i
      BY <1>9, <3>1
    <3>3. h[i] \in DOMAIN I /\ I[h[i]].fInTried
      BY <1>2, <3>2
    <3> QED BY <1>4, <1>7, <2>3, <3>2, <3>3
  <2> QED BY <2>2, <2>3
<1>15. ASSUME NEW j \in DOMAIN I PROVE g[j] \in 0..(l - 1) /\ h[g[j]] = j
  <2>1. CASE j \in S
    <3> DEFINE q == Rank(S, j)
    <3>1. g[j] = q
      BY <1>2, <1>4, <2>1
    <3>2. q + 1 \in 1..n /\ a[q + 1] = j
      BY <1>9, <2>1
    <3>a. q \in 0..(Cardinality(S) - 1)
      BY <1>6, <2>1, RankOf
    <3> HIDE DEF q
    <3>3. q \in Nat
      BY <3>a
    <3>4. q \in 0..(l - 1) /\ q + 1 \in 1..l /\ q + 1 <= n
      BY <1>7, <1>13, <3>2, <3>3
    <3>5. h[q] = o[q + 1] /\ o[q + 1] = a[q + 1]
      BY <1>10, <1>12, <1>13, <3>4 DEF l
    <3> QED BY <3>1, <3>2, <3>4, <3>5
  <2>2. CASE j \in T
    <3> DEFINE q == Rank(T, j)
               k == n + q
    <3>1. g[j] = k
      BY <1>2, <1>4, <2>2
    <3>2. q + 1 \in 1..m /\ c[q + 1] = j
      BY <1>9, <2>2
    <3>a. q \in 0..(Cardinality(T) - 1)
      BY <1>6, <2>2, RankOf
    <3> HIDE DEF q
    <3>3. q \in Nat
      BY <3>a
    <3>4. k \in 0..(l - 1) /\ k + 1 \in 1..l /\ ~(k + 1 <= n) /\ (k + 1) - n = q + 1
      BY <1>7, <1>13, <3>2, <3>3
    <3> HIDE DEF k
    <3>5. h[k] = o[k + 1]
      BY <1>12, <3>4
    <3>6. o[k + 1] = c[(k + 1) - n]
      <4>1. \A p \in 1..l : o[p] = IF p <= n THEN a[p] ELSE c[p - n]
        BY <1>10
      <4> DEFINE z == k + 1
      <4>2. z \in 1..l /\ ~(z <= n)
        BY <3>4
      <4> HIDE DEF z
      <4>3. o[z] = c[z - n]
        BY <4>1, <4>2
      <4> QED BY <4>3 DEF z
    <3>7. c[(k + 1) - n] = j
      BY <3>2, <3>4
    <3> QED BY <3>1, <3>4, <3>5, <3>6, <3>7
  <2> QED BY <1>2, <2>1, <2>2
<1>16. Numbers(I, h, g, l, n)
  <2>1. h \in [0..(l - 1) -> DOMAIN I]
    BY <1>12, <1>14
  <2>2. g \in [DOMAIN I -> 0..(l - 1)]
    BY <1>4, <1>15
  <2>3. n \in 0..l
    BY <1>7, <1>13
  <2> QED BY <1>13, <1>14, <1>15, <2>1, <2>2, <2>3 DEF Numbers
<1>17. \A j \in S : g[j] = mapUnkIds(t)[j]
  BY <1>2, <1>4, <1>5
<1> QED BY <1>7, <1>10, <1>11, <1>16, <1>17 DEF I, S, g, l, n, m

\* The entries under their new numbers, and the new buckets.
Renewed(I, h, l, n, M) ==
  [i \in 0..(l - 1) |-> [addr |-> I[h[i]].addr, source |-> I[h[i]].source, nRandomPos |-> i + 1,
                         fInTried |-> i >= n, nRefCount |-> Cardinality(Held(M, i))]]
Renewal(I, K, h, l, n, M) ==
  /\ DOMAIN K = 0..(l - 1) /\ K \in [0..(l - 1) -> Entry]
  /\ \A i \in 0..(l - 1) : /\ K[i].addr = I[h[i]].addr /\ K[i].nRandomPos = i + 1
                           /\ K[i].nRefCount = Cardinality(Held(M, i)) /\ (K[i].fInTried <=> i >= n)
LEMMA RenewedIs ==
  ASSUME NEW I, Entries(I), NEW h, NEW g, NEW l, NEW n, Numbers(I, h, g, l, n), NEW M,
         NEW K, K = Renewed(I, h, l, n, M)
  PROVE  Renewal(I, K, h, l, n, M)
<1>1. DOMAIN K = 0..(l - 1)
  BY DEF Renewed
<1>2. ASSUME NEW i \in 0..(l - 1)
      PROVE  /\ K[i] \in Entry /\ K[i].addr = I[h[i]].addr /\ K[i].nRandomPos = i + 1
             /\ K[i].nRefCount = Cardinality(Held(M, i)) /\ (K[i].fInTried <=> i >= n)
  <2> DEFINE x == I[h[i]].addr
             y == I[h[i]].source
             z == i + 1
             c == Cardinality(Held(M, i))
             d == i >= n
  <2>1. K[i] = [addr |-> x, source |-> y, nRandomPos |-> z, fInTried |-> d, nRefCount |-> c]
    BY Zenon DEF Renewed
  <2>2. x \in Addrs /\ y \in Sources /\ z \in Int /\ c \in Int
    <3>1. h[i] \in DOMAIN I
      BY DEF Numbers
    <3>2. I[h[i]] \in Entry
      BY <3>1 DEF Entries
    <3>3. x \in Addrs /\ y \in Sources
      BY <3>2 DEF Entry
    <3>4. c \in Int
      BY HeldFinite
    <3> QED BY <3>3, <3>4
  <2>3. d \in BOOLEAN
    OBVIOUS
  <2> HIDE DEF x, y, z, c, d
  <2>4. K[i] \in Entry
    BY <2>1, <2>2, <2>3 DEF Entry
  <2>5. K[i].addr = x /\ K[i].nRandomPos = z /\ K[i].nRefCount = c
    BY <2>1
  <2>6. K[i].fInTried = d
    BY <2>1
  <2>7. K[i].fInTried <=> d
    BY <2>6
  <2> QED BY <2>4, <2>5, <2>7 DEF x, z, c, d
<1>3. K \in [0..(l - 1) -> Entry]
  <2>1. K = [i \in 0..(l - 1) |-> K[i]]
    BY DEF Renewed
  <2> QED BY <2>1, <1>2
<1> QED BY <1>1, <1>2, <1>3 DEF Renewal

\* The same buckets under the new numbers.
Carried(N, g) == [b \in NewBuckets |-> {g[j] : j \in N[b]}]
LEMMA CarriedIs ==
  ASSUME NEW I, NEW h, NEW g, NEW l, NEW n, Numbers(I, h, g, l, n),
         NEW N \in [NewBuckets -> SUBSET DOMAIN I], NEW M, M = Carried(N, g)
  PROVE  /\ M \in [NewBuckets -> SUBSET (0..(l - 1))]
         /\ \A b \in NewBuckets : \A i \in 0..(l - 1) : i \in M[b] <=> h[i] \in N[b]
         /\ \A i \in 0..(l - 1) : Held(M, i) = Held(N, h[i])
<1>1. /\ g \in [DOMAIN I -> 0..(l - 1)] /\ h \in [0..(l - 1) -> DOMAIN I]
      /\ \A i \in 0..(l - 1) : g[h[i]] = i
      /\ \A j \in DOMAIN I : h[g[j]] = j
  BY DEF Numbers
<1>2. \A b \in NewBuckets : M[b] = {g[j] : j \in N[b]} /\ N[b] \subseteq DOMAIN I
  BY DEF Carried
<1>3. M \in [NewBuckets -> SUBSET (0..(l - 1))]
  <2> DEFINE Z == 0..(l - 1)
  <2>1. \A b \in NewBuckets : M[b] \in SUBSET Z
    <3> HIDE DEF Z
    <3> QED BY <1>1, <1>2 DEF Z
  <2>2. M = [b \in NewBuckets |-> M[b]]
    BY DEF Carried
  <2> HIDE DEF Z
  <2>3. M \in [NewBuckets -> SUBSET Z]
    BY <2>1, <2>2
  <2> QED BY <2>3 DEF Z
<1>4. ASSUME NEW b \in NewBuckets, NEW i \in 0..(l - 1) PROVE i \in M[b] <=> h[i] \in N[b]
  <2>1. ASSUME i \in M[b] PROVE h[i] \in N[b]
    <3>1. PICK j \in N[b] : i = g[j]
      BY <1>2, <2>1
    <3> QED BY <1>1, <1>2, <3>1
  <2>2. ASSUME h[i] \in N[b] PROVE i \in M[b]
    <3>1. g[h[i]] = i
      BY <1>1
    <3> QED BY <1>2, <2>2, <3>1
  <2> QED BY <2>1, <2>2
<1>5. ASSUME NEW i \in 0..(l - 1) PROVE Held(M, i) = Held(N, h[i])
  BY <1>4 DEF Held
<1> QED BY <1>3, <1>4, <1>5

\* The index by address.
Indexed(I, h, l) == [a \in {I[h[i]].addr : i \in 0..(l - 1)} |-> CHOOSE i \in 0..(l - 1) : I[h[i]].addr = a]
LEMMA IndexedIs ==
  ASSUME NEW I, NEW A, Found(I, A), Entries(I), NEW h, NEW g, NEW l, NEW n, Numbers(I, h, g, l, n),
         NEW M, NEW K, Renewal(I, K, h, l, n, M), NEW B, B = Indexed(I, h, l)
  PROVE  Found(K, B) /\ B \in [DOMAIN B -> Int] /\ \A j \in DOMAIN I : I[j].addr \in DOMAIN B
<1> DEFINE Z == 0..(l - 1)
<1>1. /\ h \in [Z -> DOMAIN I] /\ g \in [DOMAIN I -> Z] /\ DOMAIN K = Z /\ Z \subseteq Int
      /\ \A i \in Z : g[h[i]] = i /\ K[i].addr = I[h[i]].addr
      /\ \A j \in DOMAIN I : h[g[j]] = j
  BY DEF Numbers, Renewal
<1>2. B = [a \in {I[h[i]].addr : i \in Z} |-> CHOOSE i \in Z : I[h[i]].addr = a]
  BY DEF Indexed
<1> HIDE DEF Z
<1>3. \A j \in DOMAIN I : I[j].addr \in Addrs /\ A[I[j].addr] = j
  BY DEF Found
<1>4. \A i, k \in Z : I[h[i]].addr = I[h[k]].addr => i = k
  <2> TAKE i, k \in Z
  <2> HAVE I[h[i]].addr = I[h[k]].addr
  <2>1. h[i] \in DOMAIN I /\ h[k] \in DOMAIN I
    BY <1>1
  <2>2. h[i] = h[k]
    BY <1>3, <2>1
  <2> QED BY <1>1, <2>2
<1>5. DOMAIN B = {I[h[i]].addr : i \in Z}
  BY <1>2
<1>6. ASSUME NEW a \in DOMAIN B PROVE B[a] \in Z /\ I[h[B[a]]].addr = a
  <2>1. \E i \in Z : I[h[i]].addr = a
    BY <1>5
  <2>2. B[a] = CHOOSE i \in Z : I[h[i]].addr = a
    BY <1>2, <1>5
  <2> QED BY <2>1, <2>2
<1>7. DOMAIN B \subseteq Addrs
  <2> SUFFICES ASSUME NEW a \in DOMAIN B PROVE a \in Addrs
    OBVIOUS
  <2>1. PICK i \in Z : a = I[h[i]].addr
    BY <1>5
  <2>2. h[i] \in DOMAIN I
    BY <1>1
  <2> QED BY <1>3, <2>1, <2>2
<1>8. \A a \in DOMAIN B : B[a] \in DOMAIN K /\ K[B[a]].addr = a
  BY <1>1, <1>6
<1>9. ASSUME NEW i \in DOMAIN K PROVE K[i].addr \in DOMAIN B /\ B[K[i].addr] = i
  <2> DEFINE a == I[h[i]].addr
  <2>1. i \in Z /\ K[i].addr = a
    BY <1>1
  <2>2. a \in DOMAIN B
    BY <1>5, <2>1
  <2>3. B[a] \in Z /\ I[h[B[a]]].addr = a
    BY <1>6, <2>2
  <2>4. B[a] = i
    BY <1>4, <2>1, <2>3
  <2> QED BY <2>1, <2>2, <2>4
<1>10. Found(K, B)
  BY <1>7, <1>8, <1>9 DEF Found
<1>11. B \in [DOMAIN B -> Int]
  <2>1. B = [a \in DOMAIN B |-> B[a]]
    BY <1>2
  <2> QED BY <1>1, <1>6, <2>1
<1>12. ASSUME NEW j \in DOMAIN I PROVE I[j].addr \in DOMAIN B
  <2>1. g[j] \in Z /\ h[g[j]] = j
    BY <1>1
  <2> QED BY <1>5, <2>1
<1> QED BY <1>10, <1>11, <1>12

\* vRandom.
LEMMA CountingListed ==
  ASSUME NEW I, NEW h, NEW g, NEW l, NEW n, Numbers(I, h, g, l, n), NEW M, NEW K, Renewal(I, K, h, l, n, M),
         NEW R, R = [p \in 1..l |-> p - 1]
  PROVE  Listed(K, R)
<1>1. l \in Nat /\ DOMAIN K = 0..(l - 1) /\ \A i \in 0..(l - 1) : K[i].nRandomPos = i + 1
  BY DEF Numbers, Renewal
<1>2. R \in Seq(Int) /\ Len(R) = l /\ \A p \in 1..l : R[p] = p - 1
  <2>1. R \in [1..l -> Int]
    BY <1>1
  <2>2. R \in Seq(Int) /\ Len(R) = l
    BY <1>1, <2>1
  <2> QED BY <2>2
<1>3. ASSUME NEW i \in DOMAIN K PROVE K[i].nRandomPos \in 1..Len(R) /\ R[K[i].nRandomPos] = i
  <2>1. K[i].nRandomPos = i + 1 /\ i + 1 \in 1..l /\ (i + 1) - 1 = i
    BY <1>1
  <2> DEFINE q == i + 1
  <2> HIDE DEF q
  <2>2. K[i].nRandomPos = q /\ q \in 1..l /\ q - 1 = i
    BY <2>1 DEF q
  <2> QED BY <1>2, <2>2
<1>4. ASSUME NEW p \in 1..Len(R) PROVE R[p] \in DOMAIN K /\ K[R[p]].nRandomPos = p
  <2>1. R[p] = p - 1 /\ p - 1 \in 0..(l - 1) /\ (p - 1) + 1 = p
    BY <1>1, <1>2
  <2> DEFINE q == p - 1
  <2> HIDE DEF q
  <2>2. R[p] = q /\ q \in 0..(l - 1) /\ q + 1 = p
    BY <2>1 DEF q
  <2> QED BY <1>1, <2>2
<1> QED BY <1>2, <1>3, <1>4 DEF Listed

\* The tried buckets.
Seats(I, h, l, n, b) == {i \in 0..(l - 1) : i >= n /\ GetTriedBucket[I[h[i]].addr] = b}
LEMMA SeatsFew ==
  ASSUME NEW I, NEW h, NEW g, NEW l, NEW n, Numbers(I, h, g, l, n), NEW b, NEW s \in Seq(Int), Row(I, s, b),
         NEW T, T = Seats(I, h, l, n, b)
  PROVE  T \in SUBSET Nat /\ T \in SUBSET (0..(l - 1)) /\ IsFiniteSet(T) /\ Cardinality(T) <= Len(s)
<1>1. T \in SUBSET Nat /\ T \in SUBSET (0..(l - 1))
  BY DEF Numbers, Seats
<1> DEFINE m == Len(s)
           S == 1..m
           F == {g[s[p]] : p \in S}
           f == [p \in S |-> g[s[p]]]
<1>2. m \in Nat /\ IsFiniteSet(S) /\ Cardinality(S) = m
  <2>1. m \in Nat
    OBVIOUS
  <2> HIDE DEF m
  <2>2. IsFiniteSet(1..m) /\ Cardinality(1..m) = IF 1 > m THEN 0 ELSE m - 1 + 1
    BY <2>1, FS_Interval
  <2> QED BY <2>1, <2>2
<1>3. T \in SUBSET F
  <2> SUFFICES ASSUME NEW i \in T PROVE \E p \in S : i = g[s[p]]
    OBVIOUS
  <2>1. i \in 0..(l - 1) /\ i >= n /\ GetTriedBucket[I[h[i]].addr] = b
    BY DEF Seats
  <2>2. h[i] \in DOMAIN I /\ I[h[i]].fInTried /\ g[h[i]] = i
    BY <2>1 DEF Numbers
  <2>3. PICK p \in 1..Len(s) : s[p] = h[i]
    BY <2>1, <2>2 DEF Row
  <2> QED BY <2>2, <2>3
<1>4. IsFiniteSet(F) /\ Cardinality(F) <= m
  <2>1. f \in Surjection(S, F)
    BY DEF Surjection
  <2> HIDE DEF S, F, f, m
  <2>2. IsFiniteSet(F) /\ Cardinality(F) <= Cardinality(S)
    BY <1>2, <2>1, FS_Surjection
  <2> QED BY <1>2, <2>2
<1> HIDE DEF F, m
<1>5. IsFiniteSet(T) /\ Cardinality(T) <= Cardinality(F)
  BY <1>3, <1>4, FS_Subset
<1>6. Cardinality(T) \in Nat /\ Cardinality(F) \in Nat
  BY <1>4, <1>5, FS_CardinalityType
<1>7. Cardinality(T) <= m
  BY <1>2, <1>4, <1>5, <1>6
<1> QED BY <1>1, <1>5, <1>7 DEF m

LEMMA SeatsRow ==
  ASSUME NEW I, NEW h, NEW g, NEW l, NEW n, Numbers(I, h, g, l, n), NEW M, NEW K, Renewal(I, K, h, l, n, M),
         NEW b, NEW s \in Seq(Int), Row(I, s, b), NEW w, w = Ascending(Seats(I, h, l, n, b))
  PROVE  w \in Seq(Int) /\ Len(w) <= Len(s) /\ Row(K, w, b)
<1> DEFINE T == Seats(I, h, l, n, b)
<1>1. T \in SUBSET Nat /\ T \in SUBSET (0..(l - 1)) /\ IsFiniteSet(T) /\ Cardinality(T) <= Len(s)
  BY SeatsFew
<1>2. Lists(w, T)
  BY <1>1, AscendingLists
<1>3. /\ DOMAIN K = 0..(l - 1)
      /\ \A i \in 0..(l - 1) : K[i].addr = I[h[i]].addr /\ (K[i].fInTried <=> i >= n)
  BY DEF Renewal
<1>4. /\ \A i \in T : i \in DOMAIN K /\ K[i].fInTried /\ GetTriedBucket[K[i].addr] = b
      /\ \A i \in DOMAIN K : K[i].fInTried /\ GetTriedBucket[K[i].addr] = b => i \in T
  BY <1>3 DEF Seats
<1> HIDE DEF T
<1>5. /\ w \in Seq(T) /\ Len(w) = Cardinality(T)
      /\ \A p \in 1..Len(w) : Rank(T, w[p]) = p - 1
      /\ \A i \in T : Rank(T, i) + 1 \in 1..Len(w) /\ w[Rank(T, i) + 1] = i
  BY <1>2 DEF Lists
<1>6. w \in Seq(Int) /\ \A p \in 1..Len(w) : w[p] \in T
  <2>1. T \in SUBSET Int
    BY <1>1
  <2>2. w \in Seq(Int)
    BY <1>5, <2>1, SeqWider
  <2>3. \A p \in 1..Len(w) : w[p] \in T
    BY <1>5
  <2> QED BY <2>2, <2>3
<1>7. Distinct(w)
  <2> SUFFICES ASSUME NEW p \in 1..Len(w), NEW q \in 1..Len(w), w[p] = w[q] PROVE p = q
    BY DEF Distinct
  <2>1. Rank(T, w[p]) = p - 1 /\ Rank(T, w[q]) = q - 1
    BY <1>5
  <2>2. p - 1 = q - 1
    BY <2>1
  <2> QED BY <2>2
<1>8. ASSUME NEW i \in DOMAIN K, K[i].fInTried, GetTriedBucket[K[i].addr] = b
      PROVE  \E p \in 1..Len(w) : w[p] = i
  <2>1. i \in T
    BY <1>4, <1>8
  <2> DEFINE p == Rank(T, i) + 1
  <2>2. p \in 1..Len(w) /\ w[p] = i
    BY <1>5, <2>1
  <2> HIDE DEF p
  <2> QED BY <2>2
<1>9. Row(K, w, b)
  <2>1. \A p \in 1..Len(w) : w[p] \in DOMAIN K /\ K[w[p]].fInTried /\ GetTriedBucket[K[w[p]].addr] = b
    BY <1>4, <1>6
  <2> QED BY <2>1, <1>7, <1>8 DEF Row
<1> QED BY <1>1, <1>5, <1>6, <1>9

\* The tables under the new numbers are exact.
Seated(I, h, l, n) == [b \in TriedBuckets |-> Ascending(Seats(I, h, l, n, b))]
LEMMA RenewedExact ==
  ASSUME NEW I, NEW A, NEW R, NEW k, NEW V, NEW n, NEW N, Exact(I, A, R, k, V, n, N),
         NEW h, NEW g, NEW l, l = n + k, k \in Nat, Numbers(I, h, g, l, n),
         NEW M, M = Carried(N, g), NEW K, K = Renewed(I, h, l, n, M), NEW B, B = Indexed(I, h, l),
         NEW Q, Q = [p \in 1..l |-> p - 1], NEW W, W = Seated(I, h, l, n)
  PROVE  /\ Exact(K, B, Q, k, W, n, M) /\ Renewal(I, K, h, l, n, M)
         /\ B \in [DOMAIN B -> Int] /\ \A j \in DOMAIN I : I[j].addr \in DOMAIN B
         /\ \A b \in TriedBuckets : Len(W[b]) <= Len(V[b])
<1> DEFINE Z == 0..(l - 1)
<1>1. /\ Entries(I) /\ Found(I, A) /\ InTried(I, V) /\ InNew(I, N)
      /\ N \in [NewBuckets -> SUBSET DOMAIN I] /\ n \in Nat /\ l \in Nat
  BY DEF Exact, InNew, Numbers
<1>2. Renewal(I, K, h, l, n, M)
  BY <1>1, RenewedIs
<1>3. /\ M \in [NewBuckets -> SUBSET Z] /\ \A i \in Z : Held(M, i) = Held(N, h[i])
  BY <1>1, CarriedIs
<1>4. /\ DOMAIN K = Z /\ K \in [Z -> Entry] /\ Z \subseteq Nat
      /\ \A i \in Z : /\ K[i].nRefCount = Cardinality(Held(M, i)) /\ (K[i].fInTried <=> i >= n)
                      /\ h[i] \in DOMAIN I /\ (I[h[i]].fInTried <=> i >= n)
  <2>1. /\ DOMAIN K = Z /\ K \in [Z -> Entry] /\ Z \subseteq Nat
        /\ \A i \in Z : K[i].nRefCount = Cardinality(Held(M, i)) /\ (K[i].fInTried <=> i >= n)
    BY <1>2 DEF Renewal
  <2>2. h \in [Z -> DOMAIN I] /\ \A i \in Z : I[h[i]].fInTried <=> i >= n
    BY DEF Numbers
  <2> HIDE DEF Z
  <2> QED BY <2>1, <2>2
<1>5. Entries(K)
  BY <1>4 DEF Entries
<1>6. Found(K, B) /\ B \in [DOMAIN B -> Int] /\ \A j \in DOMAIN I : I[j].addr \in DOMAIN B
  BY <1>1, <1>2, IndexedIs
<1>7. Listed(K, Q)
  BY <1>2, CountingListed
<1>8. ASSUME NEW b \in TriedBuckets PROVE W[b] \in Seq(Int) /\ Len(W[b]) <= Len(V[b]) /\ Row(K, W[b], b)
  <2> DEFINE s == V[b]
             w == W[b]
  <2>1. s \in Seq(Int) /\ Row(I, s, b)
    BY <1>1, RowOf
  <2>2. w = Ascending(Seats(I, h, l, n, b))
    BY DEF Seated
  <2> HIDE DEF s, w
  <2>3. w \in Seq(Int) /\ Len(w) <= Len(s) /\ Row(K, w, b)
    BY <1>2, <2>1, <2>2, SeatsRow
  <2> QED BY <2>3 DEF s, w
<1>9. InTried(K, W)
  <2>1. W \in [TriedBuckets -> Seq(Int)]
    <3>1. W = [b \in TriedBuckets |-> W[b]]
      BY DEF Seated
    <3> QED BY <1>8, <3>1
  <2> QED BY <1>5, <1>8, <2>1, OfRows
<1> HIDE DEF Z
<1>10. ASSUME NEW i \in Z
       PROVE IF K[i].fInTried THEN K[i].nRefCount = 0 /\ Held(M, i) = {}
             ELSE K[i].nRefCount = Cardinality(Held(M, i)) /\ K[i].nRefCount \in 1..NEW_BUCKETS_PER_ADDRESS
  <2> DEFINE j == h[i]
  <2>1. j \in DOMAIN I /\ (I[j].fInTried <=> K[i].fInTried) /\ K[i].nRefCount = Cardinality(Held(N, j)) /\ Held(M, i) = Held(N, j)
    BY <1>3, <1>4
  <2> HIDE DEF j
  <2>2. IF I[j].fInTried THEN Held(N, j) = {}
        ELSE I[j].nRefCount = Cardinality(Held(N, j)) /\ I[j].nRefCount \in 1..NEW_BUCKETS_PER_ADDRESS
    BY <1>1, <2>1 DEF InNew
  <2>3. CASE K[i].fInTried
    <3>1. Held(N, j) = {}
      BY <2>1, <2>2, <2>3
    <3>2. Cardinality(Held(N, j)) = 0
      BY <3>1, FS_EmptySet
    <3> QED BY <2>1, <2>3, <3>1, <3>2
  <2>4. CASE ~K[i].fInTried
    BY <2>1, <2>2, <2>4
  <2> QED BY <2>3, <2>4
<1>11. InNew(K, M)
  BY <1>3, <1>4, <1>10 DEF InNew
<1>12. Tried(K) = n..(l - 1) /\ New(K) = 0..(n - 1) /\ IsFiniteSet(DOMAIN K)
  <2>1. \A i \in Z : K[i].nRefCount # 0 <=> ~(i >= n)
    <3> TAKE i \in Z
    <3>1. CASE i >= n
      BY <1>4, <1>10, <3>1
    <3>2. CASE ~(i >= n)
      BY <1>4, <1>10, <3>2, AddrManAssumption
    <3> QED BY <3>1, <3>2
  <2>2. Tried(K) = {i \in Z : i >= n} /\ New(K) = {i \in Z : ~(i >= n)}
    BY <1>4, <2>1 DEF Tried, New
  <2>3. IsFiniteSet(Z)
    <3>1. l - 1 \in Int /\ 0 \in Int
      BY <1>1
    <3> QED BY <3>1, FS_Interval DEF Z
  <2>4. {i \in Z : i >= n} = n..(l - 1) /\ {i \in Z : ~(i >= n)} = 0..(n - 1)
    BY <1>1 DEF Z
  <2> QED BY <1>4, <2>2, <2>3, <2>4
<1>13. Tallied(K, k, n)
  <2>1. l - 1 \in Int /\ n - 1 \in Int /\ n \in Int /\ 0 \in Int
    BY <1>1
  <2>2. Cardinality(n..(l - 1)) = IF n > l - 1 THEN 0 ELSE (l - 1) - n + 1
    BY <2>1, FS_Interval
  <2>3. Cardinality(0..(n - 1)) = IF 0 > n - 1 THEN 0 ELSE (n - 1) - 0 + 1
    BY <2>1, FS_Interval
  <2>4. Cardinality(n..(l - 1)) = k /\ Cardinality(0..(n - 1)) = n
    BY <1>1, <2>2, <2>3
  <2> QED BY <1>12, <2>4 DEF Tallied
<1> QED BY <1>2, <1>5, <1>6, <1>7, <1>8, <1>9, <1>11, <1>12, <1>13 DEF Exact

\* Reloaded in these terms.
LEMMA ReloadedParts ==
  ASSUME NEW t
  PROVE  LET I == t.mapInfo
             h == Reading(t)
             l == Len(Order(t))
             n == t.nNew
             M == Carried(t.vvNew, mapUnkIds(t))
         IN  Reloaded(t) = [nIdCount |-> l, vRandom |-> [p \in 1..l |-> p - 1], mapInfo |-> Renewed(I, h, l, n, M),
                            mapAddr |-> Indexed(I, h, l), nNew |-> n, nTried |-> t.nTried, vvNew |-> M,
                            vvTried |-> Seated(I, h, l, n)]
BY Zenon DEF Reloaded, Renewed, Indexed, Seated, Seats, Carried, Held, Reading, Order

\* AMRestart.
LEMMA ReloadSound ==
  ASSUME NEW t, Sound(t), NEW r, r = Reloaded(t)
  PROVE  /\ Sound(r) /\ r.nIdCount <= t.nIdCount /\ KeepsTried(t, r) /\ Table(r) = Table(t)
<1> DEFINE I == t.mapInfo
           A == t.mapAddr
           R == t.vRandom
           N == t.vvNew
           V == t.vvTried
           h == Reading(t)
           l == Len(Order(t))
           n == t.nNew
           k == t.nTried
           g == Place(t)
           M == Carried(N, mapUnkIds(t))
           K == Renewed(I, h, l, n, M)
           B == Indexed(I, h, l)
           Q == [p \in 1..l |-> p - 1]
           W == Seated(I, h, l, n)
<1>1. r = [nIdCount |-> l, vRandom |-> Q, mapInfo |-> K, mapAddr |-> B, nNew |-> n, nTried |-> k,
           vvNew |-> M, vvTried |-> W]
  BY ReloadedParts
<1>2. /\ Numbers(I, h, g, l, n) /\ l = n + k /\ k \in Nat
      /\ \A j \in NewIds(t) : g[j] = mapUnkIds(t)[j]
  BY Numbered
<1>3. /\ Object(t) /\ Exact(I, A, R, k, V, n, N) /\ Small(V, N) /\ DOMAIN I \subseteq 0..(t.nIdCount - 1)
  BY DEF Sound, ExactWith
<1>4. N \in [NewBuckets -> SUBSET DOMAIN I] /\ \A b \in NewBuckets : N[b] \subseteq NewIds(t)
  <2>1. InNew(I, N)
    BY <1>3 DEF Exact
  <2>2. ASSUME NEW b \in NewBuckets, NEW j \in N[b] PROVE j \in NewIds(t)
    <3>1. j \in DOMAIN I /\ Held(N, j) # {}
      BY <2>1 DEF InNew, Held
    <3>2. I[j].nRefCount # 0
      BY <2>1, <3>1 DEF InNew
    <3> QED BY <3>1, <3>2 DEF NewIds
  <2> QED BY <2>1, <2>2 DEF InNew
<1>5. M = Carried(N, g)
  <2>1. \A b \in NewBuckets : {mapUnkIds(t)[j] : j \in N[b]} = {g[j] : j \in N[b]}
    BY <1>2, <1>4
  <2> QED BY <2>1 DEF Carried
<1>6. /\ K = Renewed(I, h, l, n, M) /\ B = Indexed(I, h, l) /\ Q = [p \in 1..l |-> p - 1] /\ W = Seated(I, h, l, n)
  OBVIOUS
<1> HIDE DEF I, A, R, N, V, h, l, n, k, g, M, K, B, Q, W
<1>7. /\ Exact(K, B, Q, k, W, n, M) /\ Renewal(I, K, h, l, n, M)
      /\ B \in [DOMAIN B -> Int] /\ \A j \in DOMAIN I : I[j].addr \in DOMAIN B
      /\ \A b \in TriedBuckets : Len(W[b]) <= Len(V[b])
  BY <1>2, <1>3, <1>5, <1>6, RenewedExact
<1>8. /\ M \in [NewBuckets -> SUBSET (0..(l - 1))]
      /\ \A b \in NewBuckets : \A i \in 0..(l - 1) : i \in M[b] <=> h[i] \in N[b]
  BY <1>2, <1>4, <1>5, CarriedIs
<1>9. /\ h \in [0..(l - 1) -> DOMAIN I] /\ g \in [DOMAIN I -> 0..(l - 1)] /\ l \in Nat /\ n \in Nat
      /\ \A i \in 0..(l - 1) : g[h[i]] = i /\ (I[h[i]].fInTried <=> i >= n)
      /\ \A j \in DOMAIN I : h[g[j]] = j
  BY <1>2 DEF Numbers
<1>10. /\ DOMAIN K = 0..(l - 1) /\ K \in [0..(l - 1) -> Entry]
       /\ \A i \in 0..(l - 1) : K[i].addr = I[h[i]].addr /\ (K[i].fInTried <=> i >= n)
  BY <1>7 DEF Renewal
<1>11. Object(r)
  <2>1. Q \in Seq(Int) /\ W \in [TriedBuckets -> Seq(Int)]
    BY <1>7 DEF Exact, Listed, InTried
  <2>2. M \in [NewBuckets -> SUBSET Int]
    <3> DEFINE Z == 0..(l - 1)
    <3>1. Z \in SUBSET Int /\ M \in [NewBuckets -> SUBSET Z]
      BY <1>8
    <3> HIDE DEF Z
    <3> QED BY <3>1
  <2>3. K \in [DOMAIN K -> Entry]
    BY <1>10
  <2>4. n \in Int /\ k \in Int /\ l \in Nat /\ B \in [DOMAIN B -> Int]
    BY <1>2, <1>7, <1>9
  <2> QED BY <1>1, <2>1, <2>2, <2>3, <2>4 DEF Object
<1>12. Small(W, M)
  <2>1. ASSUME NEW b \in NewBuckets PROVE Cardinality(M[b]) <= NEW_BUCKET_SIZE
    <3> DEFINE S == N[b]
               T == M[b]
               f == [j \in S |-> g[j]]
    <3>1. IsFiniteSet(S) /\ Cardinality(S) <= NEW_BUCKET_SIZE
      <4>1. S \in SUBSET DOMAIN I /\ IsFiniteSet(DOMAIN I)
        BY <1>3, <1>4 DEF Exact
      <4> QED BY <1>3, <4>1, FS_Subset DEF Small
    <3>2. T = {g[j] : j \in S}
      BY <1>5 DEF Carried
    <3>3. f \in Surjection(S, T)
      <4> HIDE DEF S, T
      <4> QED BY <3>2 DEF Surjection
    <3> HIDE DEF S, T, f
    <3>4. IsFiniteSet(T) /\ Cardinality(T) <= Cardinality(S)
      BY <3>1, <3>3, FS_Surjection
    <3>5. Cardinality(T) \in Nat /\ Cardinality(S) \in Nat /\ NEW_BUCKET_SIZE \in Nat
      BY <3>1, <3>4, FS_CardinalityType, AddrManAssumption
    <3>6. Cardinality(T) <= NEW_BUCKET_SIZE
      BY <3>1, <3>4, <3>5
    <3> QED BY <3>6 DEF T
  <2>2. ASSUME NEW b \in TriedBuckets PROVE Len(W[b]) <= TRIED_BUCKET_SIZE
    <3> DEFINE x == Len(W[b])
               y == Len(V[b])
    <3>1. x \in Nat /\ y \in Nat
      <4>1. V[b] \in Seq(Int) /\ W[b] \in Seq(Int)
        BY <1>3, <1>7 DEF Exact, InTried
      <4> QED BY <4>1
    <3>2. x <= y /\ y <= TRIED_BUCKET_SIZE
      BY <1>3, <1>7 DEF Small
    <3>3. TRIED_BUCKET_SIZE \in Nat
      BY AddrManAssumption
    <3> HIDE DEF x, y
    <3>4. x <= TRIED_BUCKET_SIZE
      BY <3>1, <3>2, <3>3
    <3> QED BY <3>4 DEF x
  <2> QED BY <2>1, <2>2 DEF Small
<1>13. ExactWith(r, M)
  BY <1>1, <1>7 DEF ExactWith
<1>14. Sound(r)
  BY <1>1, <1>10, <1>11, <1>12, <1>13 DEF Sound
<1>15. l <= t.nIdCount
  <2> DEFINE Z == 0..(l - 1)
             Y == 0..(t.nIdCount - 1)
             c == t.nIdCount
  <2>1. c \in Nat
    BY <1>3 DEF Object
  <2>2. h \in Injection(Z, Y)
    <3>1. h \in [Z -> DOMAIN I] /\ DOMAIN I \subseteq Y /\ \A i \in Z : g[h[i]] = i
      BY <1>3, <1>9
    <3> HIDE DEF Z, Y
    <3>2. h \in [Z -> Y] /\ \A i, j \in Z : h[i] = h[j] => i = j
      BY <3>1
    <3> QED BY <3>2 DEF Injection, IsInjective
  <2>3. l - 1 \in Int /\ c - 1 \in Int /\ 0 \in Int
    BY <1>9, <2>1
  <2>4. IsFiniteSet(Y) /\ Cardinality(Y) = IF 0 > c - 1 THEN 0 ELSE (c - 1) - 0 + 1
    BY <2>3, FS_Interval
  <2>5. Cardinality(Z) = IF 0 > l - 1 THEN 0 ELSE (l - 1) - 0 + 1
    BY <2>3, FS_Interval
  <2>6. Cardinality(Z) <= Cardinality(Y)
    <3> HIDE DEF Z, Y
    <3> QED BY <2>2, <2>4, FS_Injection
  <2> HIDE DEF Z, Y
  <2> QED BY <1>9, <2>1, <2>4, <2>5, <2>6
<1>16. KeepsTried(t, r)
  BY <1>1, <1>7 DEF KeepsTried, TriedIds, I
<1>17. Table(r) = Table(t)
  <2>1. ASSUME NEW b \in NewBuckets PROVE {K[i].addr : i \in M[b]} = {I[j].addr : j \in N[b]}
    <3>1. ASSUME NEW i \in M[b] PROVE \E j \in N[b] : K[i].addr = I[j].addr
      <4>1. i \in 0..(l - 1)
        BY <1>8
      <4>2. h[i] \in N[b] /\ K[i].addr = I[h[i]].addr
        BY <1>8, <1>10, <4>1
      <4> QED BY <4>2
    <3>2. ASSUME NEW j \in N[b] PROVE \E i \in M[b] : I[j].addr = K[i].addr
      <4> DEFINE i == g[j]
      <4>1. i \in 0..(l - 1) /\ h[i] = j
        BY <1>4, <1>9
      <4> HIDE DEF i
      <4>2. i \in M[b] /\ K[i].addr = I[j].addr
        BY <1>8, <1>10, <4>1
      <4> QED BY <4>2
    <3> QED BY <3>1, <3>2
  <2>2. {K[i].addr : i \in Tried(K)} = {I[j].addr : j \in Tried(I)}
    <3>1. ASSUME NEW i \in Tried(K) PROVE \E j \in Tried(I) : K[i].addr = I[j].addr
      <4>1. i \in 0..(l - 1) /\ K[i].fInTried
        BY <1>10 DEF Tried
      <4>2. h[i] \in DOMAIN I /\ I[h[i]].fInTried /\ K[i].addr = I[h[i]].addr
        BY <1>9, <1>10, <4>1
      <4> QED BY <4>2 DEF Tried
    <3>2. ASSUME NEW j \in Tried(I) PROVE \E i \in Tried(K) : I[j].addr = K[i].addr
      <4> DEFINE i == g[j]
      <4>1. i \in 0..(l - 1) /\ h[i] = j /\ I[j].fInTried
        BY <1>9 DEF Tried
      <4> HIDE DEF i
      <4>2. i \in DOMAIN K /\ K[i].fInTried /\ K[i].addr = I[j].addr
        BY <1>9, <1>10, <4>1
      <4> QED BY <4>2 DEF Tried
    <3> QED BY <3>1, <3>2
  <2>3. Table(t) = [new |-> [b \in NewBuckets |-> {I[j].addr : j \in N[b]}], tried |-> {I[j].addr : j \in Tried(I)}]
    BY DEF Table, TriedIds, Tried, I, N
  <2>4. r.mapInfo = K /\ r.vvNew = M
    BY <1>1
  <2>5. Table(r) = [new |-> [b \in NewBuckets |-> {K[i].addr : i \in M[b]}], tried |-> {K[i].addr : i \in Tried(K)}]
    BY <2>4 DEF Table, TriedIds, Tried
  <2>6. [b \in NewBuckets |-> {K[i].addr : i \in M[b]}] = [b \in NewBuckets |-> {I[j].addr : j \in N[b]}]
    BY <2>1
  <2> QED BY <2>2, <2>3, <2>5, <2>6
<1>18. r.nIdCount = l
  BY <1>1
<1> QED BY <1>14, <1>15, <1>16, <1>17, <1>18

-----------------------------------------------------------------------------
(* The invariant of the specification.                                     *)

AMInv == Sound(am) /\ am.nIdCount <= MaxIds

LEMMA AMInitSound == AMInit => AMInv
<1> SUFFICES ASSUME AMInit PROVE AMInv
  OBVIOUS
<1> DEFINE I == [i \in {} |-> 0]
           A == [a \in {} |-> 0]
           V == [b \in TriedBuckets |-> <<>>]
           N == [b \in NewBuckets |-> {}]
           R == <<>>
<1>1. am = [nIdCount |-> 0, mapInfo |-> I, mapAddr |-> A, vRandom |-> R,
            nTried |-> 0, vvTried |-> V, nNew |-> 0, vvNew |-> N]
  BY DEF AMInit
<1>2. DOMAIN I = {} /\ DOMAIN A = {} /\ I \in [DOMAIN I -> Entry] /\ A \in [DOMAIN A -> Int]
  OBVIOUS
<1>3. R \in Seq(Int) /\ Len(R) = 0
  OBVIOUS
<1>4. V \in [TriedBuckets -> Seq(Int)] /\ \A b \in TriedBuckets : V[b] \in Seq(Int) /\ Len(V[b]) = 0
  OBVIOUS
<1>5. N \in [NewBuckets -> SUBSET Int] /\ N \in [NewBuckets -> SUBSET DOMAIN I] /\ \A b \in NewBuckets : N[b] = {}
  OBVIOUS
<1> HIDE DEF I, A, V, N, R
<1>6. Object(am)
  BY <1>1, <1>2, <1>3, <1>4, <1>5 DEF Object
<1>7. IsFiniteSet(DOMAIN I) /\ Cardinality({}) = 0
  BY <1>2, FS_EmptySet
<1>8. Tallied(I, 0, 0)
  <2>1. Tried(I) = {} /\ New(I) = {}
    BY <1>2 DEF Tried, New
  <2> QED BY <1>7, <2>1 DEF Tallied
<1>9. Entries(I) /\ Found(I, A) /\ Listed(I, R)
  BY <1>2, <1>3 DEF Entries, Found, Listed
<1>10. InTried(I, V)
  BY <1>2, <1>4 DEF InTried
<1>11. InNew(I, N)
  BY <1>2, <1>5 DEF InNew
<1>12. Small(V, N)
  <2>1. NEW_BUCKET_SIZE \in Nat /\ TRIED_BUCKET_SIZE \in Nat
    BY AddrManAssumption
  <2>2. ASSUME NEW b \in NewBuckets PROVE Cardinality(N[b]) = 0
    BY <1>5, <1>7, Zenon
  <2> QED BY <1>4, <2>1, <2>2 DEF Small
<1>13. Exact(I, A, R, 0, V, 0, N)
  BY <1>7, <1>8, <1>9, <1>10, <1>11 DEF Exact
<1>14. ExactWith(am, N) /\ am.vvNew = N /\ am.vvTried = V /\ am.mapInfo = I /\ am.nIdCount = 0
  BY <1>1, <1>13 DEF ExactWith
<1>15. MaxIds \in Nat
  BY AddrManAssumption
<1> QED BY <1>2, <1>6, <1>12, <1>14, <1>15 DEF AMInv, Sound

\* What GetAddr_ shuffles is a part of vRandom.
LEMMA PartOf ==
  ASSUME NEW l \in Nat
  PROVE  LET n == Min({(GETADDR_MAX_PCT * l) \div 100, GETADDR_MAX}) IN n \in Nat /\ n <= l
<1> DEFINE c == GETADDR_MAX_PCT
           q == (c * l) \div 100
<1>1. c \in 0..100 /\ GETADDR_MAX \in Nat
  BY AddrManAssumption
<1> HIDE DEF c
<1>2. q \in Nat /\ q <= l
  <2> DEFINE d == c * l
  <2>1. d \in Nat /\ d <= 100 * l
    BY <1>1, SMT
  <2> HIDE DEF d
  <2>2. d \div 100 \in Nat /\ d \div 100 <= l
    BY <2>1, SMT
  <2> QED BY <2>2 DEF d
<1> HIDE DEF q
<1>3. Min({q, GETADDR_MAX}) \in {q, GETADDR_MAX} /\ Min({q, GETADDR_MAX}) <= q
  BY <1>1, <1>2, MinOfTwo
<1> DEFINE x == Min({q, GETADDR_MAX})
<1> HIDE DEF x
<1>4. x \in Nat /\ x <= l
  BY <1>1, <1>2, <1>3 DEF x
<1> QED BY <1>4 DEF x, q, c

\* Every operation keeps it, and the tried addresses.
LEMMA AMStep ==
  ASSUME AMInv, AMNext
  PROVE  AMInv' /\ KeepsTried(am, am')
<1> DEFINE t == am
           r == am'
<1>1. Sound(t) /\ t.nIdCount <= MaxIds /\ MaxIds \in Nat /\ t.nIdCount \in Nat
  BY AddrManAssumption DEF AMInv, Sound, Object
<1>2. Found(t.mapInfo, t.mapAddr) /\ t.vRandom \in Seq(Int)
  BY <1>1 DEF Sound, ExactWith, Exact, Listed
<1>3. ASSUME r.mapAddr = t.mapAddr PROVE KeepsTried(t, r)
  BY <1>2, <1>3 DEF KeepsTried, Found, TriedIds
<1>4. \A a \in Addrs, s \in Sources : GetNewBucket[a][s] \in NewBuckets
  BY AddrManAssumption
<1>5. ASSUME NEW a \in Addrs, NEW s \in Sources, AddNew(a, s) PROVE AMInv' /\ KeepsTried(t, r)
  <2> DEFINE b == GetNewBucket[a][s]
  <2>1. a \notin DOMAIN t.mapAddr /\ t.nIdCount < MaxIds /\ r \in Placed(Create(t, a, s), t.nIdCount, b) /\ b \in NewBuckets
    BY <1>4, <1>5 DEF AddNew, Known
  <2> HIDE DEF b, t, r
  <2>2. Sound(r) /\ r.nIdCount = t.nIdCount + 1 /\ KeepsTried(t, r)
    BY <1>1, <2>1, NewSound
  <2>3. r.nIdCount <= MaxIds
    BY <1>1, <2>1, <2>2
  <2> QED BY <2>2, <2>3 DEF AMInv, r
<1>6. ASSUME NEW a \in Addrs, NEW s \in Sources, AddAgain(a, s) PROVE AMInv' /\ KeepsTried(t, r)
  <2> DEFINE b == GetNewBucket[a][s]
             x == t.mapAddr[a]
  <2>1. /\ x \in DOMAIN t.mapInfo /\ ~t.mapInfo[x].fInTried /\ t.mapInfo[x].nRefCount # NEW_BUCKETS_PER_ADDRESS
        /\ r \in Placed(t, x, b) /\ b \in NewBuckets
    BY <1>2, <1>4, <1>6 DEF AddAgain, Known, Found
  <2> HIDE DEF b, x, t, r
  <2>2. Sound(r) /\ r.nIdCount = t.nIdCount /\ KeepsTried(t, r)
    BY <1>1, <2>1, AgainSound
  <2>3. r.nIdCount <= MaxIds
    BY <1>1, <2>2
  <2> QED BY <2>2, <2>3 DEF AMInv, r
<1>7. ASSUME NEW a \in Addrs, Good(a) PROVE AMInv' /\ KeepsTried(t, r)
  <2> DEFINE x == t.mapAddr[a]
  <2>1. PICK b \in NewBuckets : x \in t.vvNew[b] /\ r \in MakeTried(t, x, b)
    BY <1>7 DEF Good
  <2>2. x \in DOMAIN t.mapInfo /\ ~t.mapInfo[x].fInTried
    BY <1>2, <1>7 DEF Good, Known, Found
  <2> HIDE DEF x, t, r
  <2>3. Sound(r) /\ r.nIdCount = t.nIdCount /\ r.mapAddr = t.mapAddr
    BY <1>1, <2>1, <2>2, GoodSound
  <2>4. r.nIdCount <= MaxIds
    BY <1>1, <2>3
  <2> QED BY <1>3, <2>3, <2>4 DEF AMInv, r
<1>8. ASSUME GetAddr PROVE AMInv' /\ KeepsTried(t, r)
  <2> DEFINE l == Len(t.vRandom)
             n == Min({(GETADDR_MAX_PCT * l) \div 100, GETADDR_MAX})
  <2>1. PICK f \in Picks(t.vRandom, n) : r = Reordered(t, f, n)
    BY <1>8 DEF GetAddr
  <2>2. l \in Nat
    BY <1>2
  <2>3. n \in Nat /\ n <= Len(t.vRandom)
    <3> HIDE DEF l
    <3>1. n \in Nat /\ n <= l
      BY <2>2, PartOf
    <3> QED BY <3>1 DEF l
  <2> HIDE DEF l, n, t, r
  <2>4. Sound(r) /\ r.nIdCount = t.nIdCount /\ r.mapAddr = t.mapAddr
    BY <1>1, <2>1, <2>3, ReorderSound
  <2>5. r.nIdCount <= MaxIds
    BY <1>1, <2>4
  <2> QED BY <1>3, <2>4, <2>5 DEF AMInv, r
<1>9. ASSUME AMRestart PROVE AMInv' /\ KeepsTried(t, r)
  <2>1. r = Reloaded(t)
    BY <1>9 DEF AMRestart
  <2> HIDE DEF t, r
  <2>2. Sound(r) /\ r.nIdCount <= t.nIdCount /\ KeepsTried(t, r)
    BY <1>1, <2>1, ReloadSound
  <2>3. r.nIdCount \in Nat
    BY <2>2 DEF Sound, Object
  <2>4. r.nIdCount <= MaxIds
    BY <1>1, <2>2, <2>3
  <2> QED BY <2>2, <2>4 DEF AMInv, r
<1> QED BY <1>5, <1>6, <1>7, <1>8, <1>9 DEF AMNext

\* The invariant gives the properties.
LEMMA AMParts ==
  ASSUME AMInv
  PROVE  IndexesExact /\ TablesExact /\ BucketsBounded /\ ReloadFaithful
<1> DEFINE I == am.mapInfo
           A == am.mapAddr
           R == am.vRandom
           V == am.vvTried
           N == am.vvNew
<1>1. /\ Sound(am) /\ Object(am) /\ Entries(I) /\ Found(I, A) /\ Listed(I, R) /\ InTried(I, V) /\ InNew(I, N)
      /\ Tallied(I, am.nTried, am.nNew) /\ IsFiniteSet(DOMAIN I) /\ DOMAIN I \subseteq 0..(am.nIdCount - 1)
      /\ Small(V, N) /\ am.nIdCount <= MaxIds
  BY DEF AMInv, Sound, ExactWith, Exact
<1>2. IsFiniteSet(Tried(I)) /\ IsFiniteSet(New(I))
  <2>1. Tried(I) \in SUBSET DOMAIN I /\ New(I) \in SUBSET DOMAIN I
    BY DEF Tried, New
  <2> QED BY <1>1, <2>1, FS_Subset
<1>3. am.nTried \in Nat /\ am.nNew \in Nat
  BY <1>1, <1>2, FS_CardinalityType DEF Tallied
<1>4. am.nIdCount \in 0..MaxIds
  <2>1. am.nIdCount \in Nat /\ MaxIds \in Nat
    BY <1>1, AddrManAssumption DEF Object
  <2> QED BY <1>1, <2>1
<1>5. I \in [DOMAIN I -> Info(Len(R))]
  <2>1. ASSUME NEW i \in DOMAIN I PROVE I[i] \in Info(Len(R))
    <3> DEFINE e == I[i]
    <3>1. e \in Entry /\ e.nRandomPos \in 1..Len(R)
      BY <1>1 DEF Entries, Listed
    <3>2. e.nRefCount \in 0..Cardinality(NewBuckets)
      <4> DEFINE c == Cardinality(NewBuckets)
      <4>1. e.nRefCount = 0 \/ e.nRefCount = Cardinality(Held(N, i))
        BY <1>1 DEF InNew
      <4>2. c \in Nat
        BY AddrManAssumption, FS_CardinalityType
      <4>3. Cardinality(Held(N, i)) \in Nat /\ Cardinality(Held(N, i)) <= c
        BY HeldFinite
      <4> HIDE DEF c
      <4>4. e.nRefCount \in 0..c
        BY <4>1, <4>2, <4>3
      <4> QED BY <4>4 DEF c
    <3> HIDE DEF e
    <3>3. e \in Info(Len(R))
      BY <3>1, <3>2 DEF Entry, Info
    <3> QED BY <3>3 DEF e
  <2> QED BY <1>1, <2>1 DEF Entries
<1>6. R \in Seq(DOMAIN I)
  <2> DEFINE l == Len(R)
  <2>1. l \in Nat /\ R = [p \in 1..l |-> R[p]] /\ \A p \in 1..l : R[p] \in DOMAIN I
    BY <1>1 DEF Listed
  <2> HIDE DEF l
  <2>2. R \in [1..l -> DOMAIN I]
    BY <2>1
  <2> QED BY <2>1, <2>2
<1>7. V \in [TriedBuckets -> Seq(DOMAIN I)]
  <2>1. ASSUME NEW b \in TriedBuckets PROVE V[b] \in Seq(DOMAIN I)
    <3> DEFINE s == V[b]
               l == Len(s)
    <3>1. s \in Seq(Int) /\ \A p \in 1..l : s[p] \in DOMAIN I
      BY <1>1 DEF InTried
    <3> HIDE DEF s
    <3>2. l \in Nat /\ s = [p \in 1..l |-> s[p]]
      BY <3>1
    <3> HIDE DEF l
    <3>3. s \in [1..l -> DOMAIN I]
      BY <3>1, <3>2
    <3>4. s \in Seq(DOMAIN I)
      BY <3>2, <3>3
    <3> QED BY <3>4 DEF s
  <2>2. V \in [TriedBuckets -> Seq(Int)]
    BY <1>1 DEF InTried
  <2> QED BY <2>1, <2>2
<1>8. A \in [DOMAIN A -> DOMAIN I] /\ DOMAIN A \subseteq Addrs
  <2>1. A \in [DOMAIN A -> Int]
    BY <1>1 DEF Object
  <2> QED BY <1>1, <2>1 DEF Found
<1>9. N \in [NewBuckets -> SUBSET DOMAIN I]
  BY <1>1 DEF InNew
<1>10. am = [nIdCount |-> am.nIdCount, mapInfo |-> I, mapAddr |-> A, vRandom |-> R,
             nTried |-> am.nTried, vvTried |-> V, nNew |-> am.nNew, vvNew |-> N]
  BY <1>1 DEF Object
<1> DEFINE Typed == [nIdCount : 0..MaxIds, mapInfo : [DOMAIN I -> Info(Len(R))],
                     mapAddr : [DOMAIN A -> DOMAIN I], vRandom : Seq(DOMAIN I),
                     nTried : Nat, vvTried : [TriedBuckets -> Seq(DOMAIN I)],
                     nNew : Nat, vvNew : [NewBuckets -> SUBSET DOMAIN I]]
<1>11. am \in Typed
  <2> HIDE DEF I, A, R, V, N
  <2> QED BY <1>3, <1>4, <1>5, <1>6, <1>7, <1>8, <1>9, <1>10
<1>12. AMTypeOK
  BY <1>1, <1>8, <1>11 DEF AMTypeOK, Ids
<1>13. Len(R) = Cardinality(DOMAIN I)
  <2> DEFINE l == Len(R)
             S == 1..l
             D == DOMAIN I
  <2>1. /\ l \in Nat /\ R \in [S -> D]
        /\ \A p \in S : I[R[p]].nRandomPos = p
        /\ \A i \in D : I[i].nRandomPos \in S /\ R[I[i].nRandomPos] = i
    BY <1>1, <1>6 DEF Listed
  <2> HIDE DEF S, D
  <2>2. R \in Injection(S, D)
    <3>1. \A p, q \in S : R[p] = R[q] => p = q
      BY <2>1
    <3> QED BY <2>1, <3>1 DEF Injection, IsInjective
  <2>3. R \in Surjection(S, D)
    BY <2>1 DEF Surjection
  <2>4. Cardinality(S) = Cardinality(D)
    BY <1>1, <2>2, <2>3, FS_Injection DEF D
  <2>0. l \in Nat
    BY <2>1
  <2> HIDE DEF l
  <2>5. Cardinality(1..l) = IF 1 > l THEN 0 ELSE l - 1 + 1
    BY <2>0, FS_Interval
  <2>6. Cardinality(S) = l
    BY <2>1, <2>5 DEF S
  <2> QED BY <2>4, <2>6 DEF l, D
<1>14. IndexesExact
  <2>1. \A a \in DOMAIN A : I[A[a]].addr = a
    BY <1>1 DEF Found
  <2>2. \A i \in DOMAIN I : /\ I[i].addr \in DOMAIN A /\ A[I[i].addr] = i
                            /\ I[i].nRandomPos \in DOMAIN R /\ R[I[i].nRandomPos] = i
    BY <1>1 DEF Found, Listed
  <2> QED BY <1>12, <1>13, <2>1, <2>2 DEF IndexesExact, Ids
<1>15. TablesExact
  <2>1. \A i \in DOMAIN I :
          IF I[i].fInTried THEN I[i].nRefCount = 0 /\ Held(N, i) = {}
          ELSE I[i].nRefCount = Cardinality(Held(N, i)) /\ I[i].nRefCount \in 1..NEW_BUCKETS_PER_ADDRESS
    BY <1>1 DEF InNew
  <2>2. ASSUME NEW b \in TriedBuckets
        PROVE  /\ ToSet(V[b]) = {i \in Tried(I) : GetTriedBucket[I[i].addr] = b}
               /\ IsInjective(V[b])
    <3> DEFINE s == V[b]
    <3>1. s \in Seq(Int) /\ Row(I, s, b)
      BY <1>1, RowOf
    <3> HIDE DEF s
    <3>2. DOMAIN s = 1..Len(s)
      BY <3>1
    <3>3. ToSet(s) = {i \in Tried(I) : GetTriedBucket[I[i].addr] = b}
      <4>1. ASSUME NEW i \in ToSet(s) PROVE i \in Tried(I) /\ GetTriedBucket[I[i].addr] = b
        <5>1. PICK p \in 1..Len(s) : s[p] = i
          BY <3>2 DEF ToSet
        <5> QED BY <3>1, <5>1 DEF Row, Tried
      <4>2. ASSUME NEW i \in Tried(I), GetTriedBucket[I[i].addr] = b PROVE i \in ToSet(s)
        <5>1. PICK p \in 1..Len(s) : s[p] = i
          BY <3>1, <4>2 DEF Row, Tried
        <5> QED BY <3>2, <5>1 DEF ToSet
      <4> QED BY <4>1, <4>2
    <3>4. IsInjective(s)
      BY <3>1, <3>2 DEF Row, Distinct, IsInjective
    <3> QED BY <3>3, <3>4 DEF s
  <2>3. TriedIds(am) = Tried(I) /\ NewIds(am) = New(I)
    BY DEF TriedIds, NewIds, Tried, New
  <2>4. \A i \in DOMAIN I : Holding(i) = Held(N, i)
    BY DEF Holding, Held
  <2>5. am.nTried = Cardinality(TriedIds(am)) /\ am.nNew = Cardinality(NewIds(am))
    BY <1>1, <2>3 DEF Tallied
  <2>6. \A i \in Ids :
          IF am.mapInfo[i].fInTried
          THEN am.mapInfo[i].nRefCount = 0 /\ Holding(i) = {}
          ELSE am.mapInfo[i].nRefCount = Cardinality(Holding(i)) /\ am.mapInfo[i].nRefCount \in 1..NEW_BUCKETS_PER_ADDRESS
    BY <2>1, <2>4 DEF Ids
  <2>7. \A b \in TriedBuckets : ToSet(V[b]) = {i \in TriedIds(am) : GetTriedBucket[I[i].addr] = b}
    BY <2>2, <2>3
  <2> QED BY <2>2, <2>5, <2>6, <2>7 DEF TablesExact
<1>16. BucketsBounded
  BY <1>1 DEF Small, BucketsBounded
<1>17. ReloadFaithful
  BY <1>1, ReloadSound DEF ReloadFaithful
<1> QED BY <1>14, <1>15, <1>16, <1>17

\* The inductive invariant holds in every reachable state of the address manager.
LEMMA AMInvariant == AMSpec => []AMInv
<1>1. AMInv /\ UNCHANGED am => AMInv'
  BY DEF AMInv
<1>2. AMInv /\ [AMNext]_am => AMInv'
  BY <1>1, AMStep
<1> QED BY <1>2, AMInitSound, PTL DEF AMSpec

-----------------------------------------------------------------------------
\* The three indexes of CAddrMan agree, whatever sequence of Add, Good,
\* GetAddr and restarts led here: mapAddr finds every entry of mapInfo and
\* nothing else, and vRandom lists each of them once, at its nRandomPos.
THEOREM IndexesStayExact == AMSpec => []IndexesExact
<1>1. AMInv => IndexesExact
  BY AMParts
<1> QED BY <1>1, AMInvariant, PTL

\* nTried, nNew and every nRefCount are what the tables say: a tried entry is
\* in its tried bucket once and in no new bucket, any other is in at least one
\* and at most NEW_BUCKETS_PER_ADDRESS new buckets. MakeTried and Add_ keep
\* this also when they evict.
THEOREM TablesStayExact == AMSpec => []TablesExact
<1>1. AMInv => TablesExact
  BY AMParts
<1> QED BY <1>1, AMInvariant, PTL

\* ShrinkNew and the eviction of MakeTried keep every bucket within its size,
\* so flooding with addresses cannot grow the tables.
THEOREM BucketsStayBounded == AMSpec => []BucketsBounded
<1>1. AMInv => BucketsBounded
  BY AMParts
<1> QED BY <1>1, AMInvariant, PTL

\* Writing the tables to peers.dat and reading them back (IMPLEMENT_SERIALIZE)
\* gives the same addresses in every bucket.
THEOREM ReloadsStayFaithful == AMSpec => []ReloadFaithful
<1>1. AMInv => ReloadFaithful
  BY AMParts
<1> QED BY <1>1, AMInvariant, PTL

\* No step forgets an address that is in the tried table: MakeTried moves the
\* one it evicts to a new bucket, and a restart keeps it.
THEOREM TriedStayKnown == AMSpec => TriedNeverDeleted
<1>1. AMInv /\ [AMNext]_am => [\A i \in TriedIds(am) : am.mapInfo[i].addr \in DOMAIN am'.mapAddr]_am
  BY AMStep DEF KeepsTried
<1> QED BY <1>1, AMInvariant, PTL DEF AMSpec, TriedNeverDeleted
=============================================================================
