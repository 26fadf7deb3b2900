---------------------------- MODULE WalletProofs ----------------------------
(***************************************************************************)
(* Proofs about the key pool, for any number of objects that reserve keys, *)
(* any pool size and any number of keys; and about the threads and the     *)
(* commands that lock and unlock the wallet: whatever they do, the pool    *)
(* sees steps it allows, and while the wallet is unlocked a thread that    *)
(* will lock it is under way.                                              *)
(***************************************************************************)
EXTENDS WalletLock, FiniteSetTheorems, TLAPS

\* A record whose index is not free belongs to an object that holds its key.
Backed == \A i \in DOMAIN pool \ setKeyPool :
             \E h \in Holders : reserved[h].nIndex = i /\ reserved[h].key = pool[i]

\* An object with a key has its index.
Holding == \A h \in Holders : reserved[h].key # 0 => reserved[h].nIndex # 0

\* The parts of the invariant that a top-up touches, for free indices S, records P,
\* N keys and the mark R.
Good(S, P, N, R) ==
  /\ N \in 0..MaxKeys /\ R \in BOOLEAN /\ S \subseteq 1..N
  /\ P \in [DOMAIN P -> 1..N] /\ DOMAIN P \subseteq 1..N
  /\ ~R => /\ DOMAIN P = S \cup HeldIndices
           /\ S \cap HeldIndices = {}
           /\ \A h \in Holders : reserved[h].nIndex # 0 => P[reserved[h].nIndex] = reserved[h].key
           /\ \A g, h \in Holders : g # h /\ reserved[g].nIndex # 0 => reserved[g].nIndex # reserved[h].nIndex
           /\ \A i \in DOMAIN P : P[i] \notin used
           /\ \A i, j \in DOMAIN P : P[i] = P[j] => i = j
  /\ \A i \in DOMAIN P \ S : \E h \in Holders : reserved[h].nIndex = i /\ reserved[h].key = P[i]

\* The inductive invariant.
IInv == TypeOK /\ RecordsExact /\ KeyUsedOnce /\ Backed /\ Holding

-----------------------------------------------------------------------------
\* A top-up wants a natural number of keys.
LEMMA MissingNat == ASSUME TypeOK PROVE Missing \in Nat /\ Wanted \in Nat
<1>0. nKeys \in Int /\ 1 \in Int
  BY DEF TypeOK
<1>1. IsFiniteSet(1..nKeys)
  BY <1>0, FS_Interval
<1>2. IsFiniteSet(setKeyPool)
  BY <1>1, FS_Subset DEF TypeOK
<1>3. Cardinality(setKeyPool) \in Nat
  BY <1>2, FS_CardinalityType
<1> QED
  BY <1>3, KeyPoolAssumption DEF Missing, Wanted

\* New indices are above the free ones and within the number of keys.
LEMMA NewIndices ==
  ASSUME TypeOK, NEW n \in 1..(MaxKeys + 1), NEW k \in Nat, IsEnd(n), nKeys + k <= MaxKeys
  PROVE  /\ New(n, k) \subseteq 1..(nKeys + k)
         /\ New(n, k) \cap setKeyPool = {}
         /\ n - 1 <= nKeys
<1>1. n - 1 <= nKeys
  BY KeyPoolAssumption DEF IsEnd, TypeOK
<1>2. \A i \in setKeyPool : i < n
  BY DEF IsEnd
<1> QED
  BY <1>1, <1>2, KeyPoolAssumption DEF New, TypeOK

\* What TopUpKeyPool makes of the records: old keys keep their place, the new ones
\* are fresh and different from each other.
LEMMA WrittenKeys ==
  ASSUME TypeOK, NEW P, P \in [DOMAIN P -> 1..nKeys], DOMAIN P \subseteq 1..nKeys,
         NEW n \in 1..(nKeys + 1), NEW k \in Nat
  PROVE  /\ DOMAIN Written(n, k, P) = DOMAIN P \cup New(n, k)
         /\ Written(n, k, P) \in [DOMAIN P \cup New(n, k) -> 1..(nKeys + k)]
         /\ \A i \in DOMAIN P \ New(n, k) : Written(n, k, P)[i] = P[i]
         /\ \A i \in New(n, k) : Written(n, k, P)[i] > nKeys
         /\ \A i, j \in New(n, k) : Written(n, k, P)[i] = Written(n, k, P)[j] => i = j
<1> DEFINE W == Written(n, k, P)
<1>1. DOMAIN W = DOMAIN P \cup New(n, k)
  BY DEF Written
<1>2. \A i \in New(n, k) : W[i] = nKeys + 1 + i - n
  BY DEF Written
<1>3. \A i \in DOMAIN P \ New(n, k) : W[i] = P[i]
  BY DEF Written
<1>4. W = [i \in DOMAIN P \cup New(n, k) |-> W[i]]
  BY DEF Written
<1>5. ASSUME NEW i \in New(n, k) PROVE i \in Int /\ n <= i /\ i <= n + k - 1
  BY DEF New
<1>6. \A i \in New(n, k) : W[i] > nKeys /\ W[i] \in 1..(nKeys + k)
  BY <1>2, <1>5 DEF TypeOK
<1>7. \A i \in DOMAIN P \ New(n, k) : W[i] \in 1..(nKeys + k)
  BY <1>3 DEF TypeOK
<1>8. \A i, j \in New(n, k) : W[i] = W[j] => i = j
  BY <1>2, <1>5 DEF TypeOK
<1> QED
  BY <1>1, <1>3, <1>4, <1>6, <1>7, <1>8

LEMMA GoodNow == ASSUME IInv PROVE Good(setKeyPool, pool, nKeys, reissued)
BY DEF IInv, TypeOK, RecordsExact, KeyUsedOnce, Backed, Good

\* A top-up keeps the invariant's parts: the new indices are not free ones, and
\* when they are not held either, nothing is overwritten.
LEMMA TopUpGood ==
  ASSUME IInv, NEW n \in 1..(MaxKeys + 1), NEW k \in Nat, IsEnd(n), Generate(n, k)
  PROVE  Good(setKeyPool \cup New(n, k), Written(n, k, pool), nKeys', reissued')
<1> DEFINE P == Written(n, k, pool)
           S == setKeyPool \cup New(n, k)
<1>1. /\ TypeOK /\ nKeys' = nKeys + k /\ nKeys' \in 0..MaxKeys
      /\ nKeys \in Nat
  BY KeyPoolAssumption DEF IInv, Generate, TypeOK
<1>2. /\ New(n, k) \subseteq 1..nKeys' /\ New(n, k) \cap setKeyPool = {} /\ n \in 1..(nKeys + 1)
  <2>1. nKeys + k <= MaxKeys
    BY DEF Generate
  <2> QED
    BY <1>1, <2>1, NewIndices
<1>3. /\ DOMAIN P = DOMAIN pool \cup New(n, k)
      /\ P \in [DOMAIN P -> 1..nKeys']
      /\ \A i \in DOMAIN pool \ New(n, k) : P[i] = pool[i]
      /\ \A i \in New(n, k) : P[i] > nKeys
      /\ \A i, j \in New(n, k) : P[i] = P[j] => i = j
  <2>1. pool \in [DOMAIN pool -> 1..nKeys] /\ DOMAIN pool \subseteq 1..nKeys
    BY <1>1 DEF TypeOK
  <2>2. /\ DOMAIN P = DOMAIN pool \cup New(n, k)
        /\ P \in [DOMAIN pool \cup New(n, k) -> 1..(nKeys + k)]
        /\ \A i \in DOMAIN pool \ New(n, k) : P[i] = pool[i]
        /\ \A i \in New(n, k) : P[i] > nKeys
        /\ \A i, j \in New(n, k) : P[i] = P[j] => i = j
    BY <1>1, <1>2, <2>1, WrittenKeys
  <2> QED
    BY <1>1, <2>2
<1> HIDE DEF P
<1>4. S \subseteq 1..nKeys' /\ DOMAIN P \subseteq 1..nKeys' /\ reissued' \in BOOLEAN
  BY <1>1, <1>2, <1>3 DEF TypeOK, Generate
<1>6. \A i \in DOMAIN P \ S : \E h \in Holders : reserved[h].nIndex = i /\ reserved[h].key = P[i]
  <2> SUFFICES ASSUME NEW i \in DOMAIN P, i \notin S
               PROVE \E h \in Holders : reserved[h].nIndex = i /\ reserved[h].key = P[i]
    OBVIOUS
  <2>1. i \in DOMAIN pool \ setKeyPool /\ P[i] = pool[i]
    BY <1>3
  <2> QED
    BY <2>1 DEF IInv, Backed
<1>7. ASSUME ~reissued'
      PROVE /\ DOMAIN P = S \cup HeldIndices
            /\ S \cap HeldIndices = {}
            /\ \A h \in Holders : reserved[h].nIndex # 0 => P[reserved[h].nIndex] = reserved[h].key
            /\ \A g, h \in Holders : g # h /\ reserved[g].nIndex # 0 => reserved[g].nIndex # reserved[h].nIndex
            /\ \A i \in DOMAIN P : P[i] \notin used
            /\ \A i, j \in DOMAIN P : P[i] = P[j] => i = j
  <2>1. ~reissued /\ New(n, k) \cap HeldIndices = {}
    BY <1>7 DEF Generate
  <2>2. /\ DOMAIN pool = setKeyPool \cup HeldIndices
        /\ setKeyPool \cap HeldIndices = {}
        /\ \A h \in Holders : reserved[h].nIndex # 0 => pool[reserved[h].nIndex] = reserved[h].key
        /\ \A g, h \in Holders : g # h /\ reserved[g].nIndex # 0 => reserved[g].nIndex # reserved[h].nIndex
    BY <2>1 DEF IInv, RecordsExact
  <2>3. /\ \A i \in DOMAIN pool : pool[i] \notin used
        /\ \A i, j \in DOMAIN pool : pool[i] = pool[j] => i = j
    BY <2>1 DEF IInv, KeyUsedOnce
  <2>4. DOMAIN P = S \cup HeldIndices /\ S \cap HeldIndices = {}
    BY <1>3, <2>1, <2>2
  <2>5. \A h \in Holders : reserved[h].nIndex # 0 => P[reserved[h].nIndex] = reserved[h].key
    <3> SUFFICES ASSUME NEW h \in Holders, reserved[h].nIndex # 0
                 PROVE P[reserved[h].nIndex] = reserved[h].key
      OBVIOUS
    <3>1. reserved[h].nIndex \in HeldIndices
      BY DEF HeldIndices
    <3>2. reserved[h].nIndex \in DOMAIN pool \ New(n, k)
      BY <2>1, <2>2, <3>1
    <3> QED
      BY <1>3, <2>2, <3>2
  <2>6. \A i \in DOMAIN pool : pool[i] \in Nat /\ pool[i] <= nKeys
    BY <1>1 DEF TypeOK
  <2>7. \A i \in DOMAIN P : P[i] \notin used
    <3> SUFFICES ASSUME NEW i \in DOMAIN P PROVE P[i] \notin used
      OBVIOUS
    <3>1. CASE i \in New(n, k)
      <4>1. P[i] > nKeys
        BY <1>3, <3>1
      <4> QED
        BY <1>1, <1>3, <1>4, <4>1 DEF TypeOK
    <3>2. CASE i \notin New(n, k)
      BY <1>3, <2>3, <3>2
    <3> QED
      BY <3>1, <3>2
  <2>8. \A i, j \in DOMAIN P : P[i] = P[j] => i = j
    <3> SUFFICES ASSUME NEW i \in DOMAIN P, NEW j \in DOMAIN P, P[i] = P[j] PROVE i = j
      OBVIOUS
    <3>1. CASE i \in New(n, k) /\ j \in New(n, k)
      BY <1>3, <3>1
    <3>2. CASE i \notin New(n, k) /\ j \notin New(n, k)
      <4>1. P[i] = pool[i] /\ P[j] = pool[j] /\ i \in DOMAIN pool /\ j \in DOMAIN pool
        BY <1>3, <3>2
      <4> QED
        BY <2>3, <4>1
    <3>3. CASE i \in New(n, k) /\ j \notin New(n, k)
      <4>1. P[i] > nKeys /\ P[j] = pool[j] /\ j \in DOMAIN pool
        BY <1>3, <3>3
      <4> QED
        BY <1>1, <2>6, <4>1
    <3>4. CASE i \notin New(n, k) /\ j \in New(n, k)
      <4>1. P[j] > nKeys /\ P[i] = pool[i] /\ i \in DOMAIN pool
        BY <1>3, <3>4
      <4> QED
        BY <1>1, <2>6, <4>1
    <3> QED
      BY <3>1, <3>2, <3>3, <3>4
  <2> QED
    BY <2>2, <2>4, <2>5, <2>7, <2>8
<1> QED
  <2>1. Good(S, P, nKeys', reissued')
    BY <1>1, <1>3, <1>4, <1>6, <1>7 DEF Good
  <2> QED
    BY <2>1 DEF P

\* The types that no top-up touches.
Rest == /\ reserved \in [Holders -> [nIndex : 0..nKeys, key : 0..nKeys]]
        /\ fCrypted \in BOOLEAN /\ fLocked \in BOOLEAN /\ (fLocked => fCrypted)
        /\ used \subseteq 1..nKeys
        /\ Holding

\* The invariant from its parts.
LEMMA FromGood == ASSUME Good(setKeyPool, pool, nKeys, reissued), Rest PROVE IInv
BY DEF IInv, TypeOK, RecordsExact, KeyUsedOnce, Backed, Good, Rest

\* Growth of the number of keys keeps the other types.
LEMMA RestGrows ==
  ASSUME TypeOK, Holding, nKeys' \in Int, nKeys <= nKeys', UNCHANGED reserved, UNCHANGED used,
         fCrypted' \in BOOLEAN, fLocked' \in BOOLEAN, fLocked' => fCrypted'
  PROVE  Rest'
<1>1. nKeys \in Int
  BY DEF TypeOK
<1>2. \A x \in 0..nKeys : x \in 0..nKeys'
  BY <1>1
<1>3. reserved \in [Holders -> [nIndex : 0..nKeys', key : 0..nKeys']]
  BY <1>2 DEF TypeOK
<1>4. used \subseteq 1..nKeys'
  BY <1>1 DEF TypeOK
<1> QED
  BY <1>3, <1>4 DEF Rest, Holding

\* Good only depends on the unprimed objects and histories.
LEMMA GoodPrimed ==
  ASSUME Good(setKeyPool', pool', nKeys', reissued'), UNCHANGED <<reserved, used>>
  PROVE  Good(setKeyPool, pool, nKeys, reissued)'
BY DEF Good, HeldIndices

LEMMA TopUpStep == ASSUME IInv, TopUpKeyPool PROVE IInv'
<1>1. TypeOK /\ Missing \in Nat /\ Holding
  BY MissingNat DEF IInv
<1>2. PICK n \in 1..(MaxKeys + 1) :
        /\ IsEnd(n) /\ Generate(n, Missing)
        /\ pool' = Written(n, Missing, pool)
        /\ setKeyPool' = setKeyPool \cup New(n, Missing)
  BY DEF TopUpKeyPool
<1>3. Good(setKeyPool', pool', nKeys', reissued')
  BY <1>1, <1>2, TopUpGood
<1>4. Good(setKeyPool, pool, nKeys, reissued)'
  BY <1>3, GoodPrimed DEF TopUpKeyPool
<1>5. Rest'
  BY <1>1, <1>2, RestGrows DEF TopUpKeyPool, crypt, Generate, TypeOK
<1> QED
  BY <1>4, <1>5, FromGood, PTL

LEMMA InterruptedStep == ASSUME IInv, TopUpInterrupted PROVE IInv'
<1>1. TypeOK /\ Missing \in Nat /\ Holding
  BY MissingNat DEF IInv
<1>2. PICK k \in 0..(Missing - 1), n \in 1..(MaxKeys + 1) :
        /\ IsEnd(n) /\ Generate(n, k)
        /\ pool' = Written(n, k, pool)
        /\ setKeyPool' = setKeyPool \cup New(n, k)
  BY DEF TopUpInterrupted
<1>3. k \in Nat
  BY <1>1
<1>4. Good(setKeyPool', pool', nKeys', reissued')
  BY <1>1, <1>2, <1>3, TopUpGood
<1>5. Good(setKeyPool, pool, nKeys, reissued)'
  BY <1>4, GoodPrimed DEF TopUpInterrupted
<1>6. Rest'
  BY <1>1, <1>2, <1>3, RestGrows DEF TopUpInterrupted, Generate, TypeOK
<1> QED
  BY <1>5, <1>6, FromGood, PTL

LEMMA ReserveStep == ASSUME IInv, NEW h \in Holders, GetReservedKey(h) PROVE IInv'
<1>1. TypeOK /\ Wanted \in Nat /\ reserved[h].nIndex = 0
  BY MissingNat DEF IInv, GetReservedKey
<1>2. PICK n \in 1..(MaxKeys + 1) :
        /\ IsEnd(n) /\ Generate(n, Wanted) /\ pool' = Written(n, Wanted, pool)
        /\ \E i \in setKeyPool \cup New(n, Wanted) :
             /\ IsOldest(i, setKeyPool \cup New(n, Wanted))
             /\ setKeyPool' = ReserveKeyFromKeyPool(i, setKeyPool \cup New(n, Wanted))
             /\ reserved' = [reserved EXCEPT ![h] =
                   [nIndex |-> i, key |-> IF i \in DOMAIN Written(n, Wanted, pool)
                                          THEN Written(n, Wanted, pool)[i] ELSE 0]]
  BY DEF GetReservedKey
<1> DEFINE P == Written(n, Wanted, pool)
           S == setKeyPool \cup New(n, Wanted)
<1>3. Good(S, P, nKeys', reissued')
  BY <1>1, <1>2, TopUpGood
<1>4. PICK i \in S : /\ setKeyPool' = S \ {i}
                     /\ reserved' = [reserved EXCEPT ![h] =
                           [nIndex |-> i, key |-> IF i \in DOMAIN P THEN P[i] ELSE 0]]
  BY <1>2 DEF ReserveKeyFromKeyPool
<1>5. pool' = P /\ UNCHANGED <<fCrypted, fLocked, used>>
  BY <1>2 DEF GetReservedKey, crypt
<1> HIDE DEF P, S
<1>6. nKeys' \in Int /\ nKeys <= nKeys' /\ i \in 1..nKeys' /\ nKeys \in Int
  BY <1>1, <1>2, <1>3 DEF Generate, Good, TypeOK
<1>7. /\ reserved'[h].nIndex = i /\ reserved'[h].key = (IF i \in DOMAIN P THEN P[i] ELSE 0)
      /\ \A g \in Holders \ {h} : reserved'[g] = reserved[g]
  BY <1>1, <1>4 DEF TypeOK
<1>8. \A g \in Holders : reserved[g].nIndex \in Int /\ reserved[g].key \in Int
  BY <1>1 DEF TypeOK
<1>9. HeldIndices' = HeldIndices \cup {i} /\ i # 0
  BY <1>1, <1>6, <1>7 DEF HeldIndices
<1>10. reissued' \/ i \in DOMAIN P
  BY <1>3 DEF Good
<1>11. Rest'
  <2>1. \A x \in 0..nKeys : x \in 0..nKeys'
    BY <1>6
  <2>2. (IF i \in DOMAIN P THEN P[i] ELSE 0) \in 0..nKeys'
    BY <1>3, <1>6 DEF Good
  <2>3. reserved \in [Holders -> [nIndex : 0..nKeys', key : 0..nKeys']]
    BY <1>1, <2>1 DEF TypeOK
  <2>4. reserved' \in [Holders -> [nIndex : 0..nKeys', key : 0..nKeys']]
    BY <1>4, <1>6, <2>2, <2>3
  <2>5. used \subseteq 1..nKeys'
    BY <1>1, <1>6 DEF TypeOK
  <2>6. Holding'
    BY <1>7, <1>9 DEF IInv, Holding
  <2> QED
    BY <1>1, <1>5, <2>4, <2>5, <2>6 DEF Rest, TypeOK
<1>12. ASSUME ~reissued'
       PROVE /\ DOMAIN P = (S \ {i}) \cup HeldIndices'
             /\ (S \ {i}) \cap HeldIndices' = {}
             /\ \A g \in Holders : reserved'[g].nIndex # 0 => P[reserved'[g].nIndex] = reserved'[g].key
             /\ \A f, g \in Holders : f # g /\ reserved'[f].nIndex # 0 => reserved'[f].nIndex # reserved'[g].nIndex
  <2>1. /\ DOMAIN P = S \cup HeldIndices
        /\ S \cap HeldIndices = {}
        /\ \A g \in Holders : reserved[g].nIndex # 0 => P[reserved[g].nIndex] = reserved[g].key
        /\ \A f, g \in Holders : f # g /\ reserved[f].nIndex # 0 => reserved[f].nIndex # reserved[g].nIndex
    BY <1>3, <1>12 DEF Good
  <2>2. \A g \in Holders : reserved[g].nIndex # i
    <3>1. i \notin HeldIndices
      BY <2>1
    <3> QED
      BY <1>9, <3>1 DEF HeldIndices
  <2> QED
    BY <1>7, <1>9, <1>10, <1>12, <2>1, <2>2
<1>13. \A j \in DOMAIN P \ (S \ {i}) : \E g \in Holders : reserved'[g].nIndex = j /\ reserved'[g].key = P[j]
  <2> SUFFICES ASSUME NEW j \in DOMAIN P, j \notin S \ {i}
               PROVE \E g \in Holders : reserved'[g].nIndex = j /\ reserved'[g].key = P[j]
    OBVIOUS
  <2>1. CASE j = i
    BY <1>7, <2>1
  <2>2. CASE j # i
    <3>1. PICK g \in Holders : reserved[g].nIndex = j /\ reserved[g].key = P[j]
      BY <1>3, <2>2 DEF Good
    <3>2. j # 0
      BY <1>3 DEF Good
    <3> QED
      BY <1>1, <1>7, <3>1, <3>2
  <2> QED
    BY <2>1, <2>2
<1>14. Good(setKeyPool, pool, nKeys, reissued)'
  <2>1. /\ nKeys' \in 0..MaxKeys /\ reissued' \in BOOLEAN /\ S \ {i} \subseteq 1..nKeys'
        /\ P \in [DOMAIN P -> 1..nKeys'] /\ DOMAIN P \subseteq 1..nKeys'
        /\ ~reissued' => /\ \A j \in DOMAIN P : P[j] \notin used
                         /\ \A j, k \in DOMAIN P : P[j] = P[k] => j = k
    BY <1>3 DEF Good
  <2> QED
    BY <1>4, <1>5, <1>12, <1>13, <2>1 DEF Good
<1> QED
  BY <1>11, <1>14, FromGood, PTL

LEMMA KeepStep == ASSUME IInv, NEW h \in Holders, KeepKey(h) PROVE IInv'
<1> DEFINE i == reserved[h].nIndex
           Q == DOMAIN pool \ {i}
<1>1. /\ TypeOK /\ pool' = [j \in Q |-> pool[j]]
      /\ used' = used \cup {reserved[h].key} /\ reserved[h].key # 0
      /\ reserved' = [reserved EXCEPT ![h] = NoKey]
      /\ UNCHANGED <<setKeyPool, nKeys, fCrypted, fLocked, reissued>>
  BY DEF IInv, KeepKey, Restrict, crypt
<1>2. DOMAIN pool' = Q /\ \A j \in Q : pool'[j] = pool[j]
  BY <1>1
<1>3. /\ reserved'[h].nIndex = 0 /\ reserved'[h].key = 0
      /\ \A g \in Holders \ {h} : reserved'[g] = reserved[g]
  BY <1>1 DEF TypeOK, NoKey
<1>4. \A g \in Holders : reserved[g] \in [nIndex : 0..nKeys, key : 0..nKeys]
  BY <1>1 DEF TypeOK
<1>5. TypeOK'
  <2>1. reserved' \in [Holders -> [nIndex : 0..nKeys, key : 0..nKeys]]
    BY <1>1 DEF TypeOK, NoKey
  <2>2. used' \subseteq 1..nKeys
    BY <1>1, <1>4 DEF TypeOK
  <2>3. pool' \in [DOMAIN pool' -> 1..nKeys] /\ DOMAIN pool' \subseteq 1..nKeys
    BY <1>1, <1>2 DEF TypeOK
  <2> QED
    BY <1>1, <2>1, <2>2, <2>3 DEF TypeOK
<1>6. Backed'
  <2> SUFFICES ASSUME NEW j \in Q, j \notin setKeyPool
               PROVE \E g \in Holders : reserved'[g].nIndex = j /\ reserved'[g].key = pool'[j]
    BY <1>1, <1>2 DEF Backed
  <2>1. PICK g \in Holders : reserved[g].nIndex = j /\ reserved[g].key = pool[j]
    BY DEF IInv, Backed
  <2> QED
    BY <1>2, <1>3, <2>1
<1>8. Holding' /\ i # 0
  BY <1>1, <1>3 DEF IInv, Holding
<1>9. HeldIndices' = HeldIndices \ {i} \/ \E g \in Holders \ {h} : reserved[g].nIndex = i
  BY <1>3, <1>8 DEF HeldIndices
<1>10. ASSUME ~reissued
       PROVE /\ i \in DOMAIN pool /\ pool[i] = reserved[h].key /\ i \notin setKeyPool
             /\ \A g \in Holders \ {h} : reserved[g].nIndex # i
             /\ HeldIndices' = HeldIndices \ {i}
             /\ DOMAIN pool = setKeyPool \cup HeldIndices
             /\ setKeyPool \cap HeldIndices = {}
  <2>1. i \in HeldIndices
    BY <1>8 DEF HeldIndices
  <2> QED
    BY <1>8, <1>9, <1>10, <2>1 DEF IInv, RecordsExact
<1>11. KeyUsedOnce'
  BY <1>1, <1>2, <1>10 DEF IInv, KeyUsedOnce
<1>12. RecordsExact'
  <2> SUFFICES ASSUME ~reissued
               PROVE /\ Q = setKeyPool \cup HeldIndices' /\ setKeyPool \cap HeldIndices' = {}
                     /\ \A g \in Holders : reserved'[g].nIndex # 0 => pool'[reserved'[g].nIndex] = reserved'[g].key
                     /\ \A f, g \in Holders : f # g /\ reserved'[f].nIndex # 0
                                                => reserved'[f].nIndex # reserved'[g].nIndex
    BY <1>1, <1>2 DEF RecordsExact
  <2>1. \A g \in Holders \ {h} : reserved[g].nIndex # 0 => reserved[g].nIndex \in Q
    BY <1>10 DEF HeldIndices
  <2>2. \A g \in Holders : reserved[g].nIndex # 0 => pool[reserved[g].nIndex] = reserved[g].key
    BY DEF IInv, RecordsExact
  <2>3. \A f, g \in Holders : f # g /\ reserved[f].nIndex # 0 => reserved[f].nIndex # reserved[g].nIndex
    BY DEF IInv, RecordsExact
  <2>4. \A g \in Holders : reserved'[g].nIndex # 0 => pool'[reserved'[g].nIndex] = reserved'[g].key
    BY <1>2, <1>3, <2>1, <2>2
  <2>5. \A f, g \in Holders : f # g /\ reserved'[f].nIndex # 0 => reserved'[f].nIndex # reserved'[g].nIndex
    BY <1>3, <2>3
  <2> QED
    BY <1>10, <2>4, <2>5
<1> QED
  BY <1>5, <1>6, <1>8, <1>11, <1>12 DEF IInv

LEMMA ReturnStep == ASSUME IInv, NEW h \in Holders, ReturnKey(h) PROVE IInv'
<1> DEFINE i == reserved[h].nIndex
<1>1. /\ TypeOK /\ i # 0 /\ setKeyPool' = setKeyPool \cup {i}
      /\ reserved' = [reserved EXCEPT ![h] = NoKey]
      /\ UNCHANGED <<pool, nKeys, fCrypted, fLocked, used, reissued>>
  BY DEF IInv, ReturnKey, crypt, history
<1>2. /\ reserved'[h].nIndex = 0 /\ reserved'[h].key = 0
      /\ \A g \in Holders \ {h} : reserved'[g] = reserved[g]
  BY <1>1 DEF TypeOK, NoKey
<1>3. i \in 1..nKeys
  BY <1>1 DEF TypeOK
<1>4. TypeOK'
  BY <1>1, <1>3 DEF TypeOK, NoKey
<1>5. Backed'
  BY <1>1, <1>2 DEF IInv, Backed
<1>6. KeyUsedOnce' /\ Holding'
  BY <1>1, <1>2 DEF IInv, KeyUsedOnce, Holding
<1>7. ASSUME ~reissued PROVE HeldIndices' = HeldIndices \ {i} /\ i \in HeldIndices
  <2>1. \A g \in Holders \ {h} : reserved[g].nIndex # i
    BY <1>1, <1>7 DEF IInv, RecordsExact
  <2> QED
    BY <1>1, <1>2, <2>1 DEF HeldIndices
<1>8. RecordsExact'
  BY <1>1, <1>2, <1>7 DEF IInv, RecordsExact
<1> QED
  BY <1>4, <1>5, <1>6, <1>8 DEF IInv

LEMMA GetKeyStep == ASSUME IInv, GetKeyFromPool PROVE IInv'
<1>1. TypeOK /\ Wanted \in Nat /\ Holding
  BY MissingNat DEF IInv
<1>2. PICK n \in 1..(MaxKeys + 1) :
        LET P == Written(n, Wanted, pool)
            S == setKeyPool \cup New(n, Wanted)
        IN /\ IsEnd(n) /\ Generate(n, Wanted)
           /\ \E i \in S :
                /\ IsOldest(i, S)
                /\ setKeyPool' = S \ {i}
                /\ pool' = Restrict(P, DOMAIN P \ {i})
                /\ used' = used \cup {P[j] : j \in DOMAIN P \cap {i}}
  BY DEF GetKeyFromPool
<1> DEFINE P == Written(n, Wanted, pool)
           S == setKeyPool \cup New(n, Wanted)
<1>3. Good(S, P, nKeys', reissued')
  BY <1>1, <1>2, TopUpGood
<1>4. PICK i \in S : /\ setKeyPool' = S \ {i} /\ pool' = Restrict(P, DOMAIN P \ {i})
                     /\ used' = used \cup {P[j] : j \in DOMAIN P \cap {i}}
  BY <1>2
<1>5. nKeys \in Int /\ nKeys' \in Int /\ nKeys <= nKeys'
  BY <1>1, <1>2 DEF Generate, TypeOK
<1>6. UNCHANGED <<reserved, fCrypted, fLocked>>
  BY DEF GetKeyFromPool, crypt
<1> HIDE DEF P, S
<1>7. DOMAIN pool' = DOMAIN P \ {i} /\ \A j \in DOMAIN P \ {i} : pool'[j] = P[j]
  BY <1>4 DEF Restrict
<1>8. pool' \in [DOMAIN pool' -> 1..nKeys'] /\ DOMAIN pool' \subseteq 1..nKeys'
  BY <1>3, <1>4, <1>7 DEF Good, Restrict
<1>9. Rest'
  <2>1. reserved \in [Holders -> [nIndex : 0..nKeys', key : 0..nKeys']]
    <3>1. \A x \in 0..nKeys : x \in 0..nKeys'
      BY <1>5
    <3> QED
      BY <1>1, <3>1 DEF TypeOK
  <2>2. used \subseteq 1..nKeys'
    BY <1>1, <1>5 DEF TypeOK
  <2>3. used' \subseteq 1..nKeys'
    BY <1>3, <1>4, <2>2 DEF Good
  <2> QED
    BY <1>1, <1>6, <2>1, <2>2, <2>3 DEF Rest, TypeOK, Holding
<1>10. ASSUME ~reissued'
       PROVE /\ DOMAIN pool' = setKeyPool' \cup HeldIndices
             /\ setKeyPool' \cap HeldIndices = {}
             /\ \A h \in Holders : reserved[h].nIndex # 0 => pool'[reserved[h].nIndex] = reserved[h].key
             /\ \A g, h \in Holders : g # h /\ reserved[g].nIndex # 0 => reserved[g].nIndex # reserved[h].nIndex
             /\ \A j \in DOMAIN pool' : pool'[j] \notin used'
             /\ \A j, k \in DOMAIN pool' : pool'[j] = pool'[k] => j = k
  <2>1. /\ DOMAIN P = S \cup HeldIndices
        /\ S \cap HeldIndices = {}
        /\ \A h \in Holders : reserved[h].nIndex # 0 => P[reserved[h].nIndex] = reserved[h].key
        /\ \A g, h \in Holders : g # h /\ reserved[g].nIndex # 0 => reserved[g].nIndex # reserved[h].nIndex
        /\ \A j \in DOMAIN P : P[j] \notin used
        /\ \A j, k \in DOMAIN P : P[j] = P[k] => j = k
    BY <1>3, <1>10 DEF Good
  <2>2. \A h \in Holders : reserved[h].nIndex # 0 => reserved[h].nIndex \in HeldIndices
    BY DEF HeldIndices
  <2>3. \A h \in Holders : reserved[h].nIndex # 0 => reserved[h].nIndex \in DOMAIN P \ {i}
    BY <2>1, <2>2
  <2>4. DOMAIN pool' = setKeyPool' \cup HeldIndices /\ setKeyPool' \cap HeldIndices = {}
    <3>1. setKeyPool' = S \ {i} /\ i \in S /\ DOMAIN pool' = DOMAIN P \ {i}
      BY <1>4, <1>7
    <3> QED
      BY <2>1, <3>1
  <2>5. \A h \in Holders : reserved[h].nIndex # 0 => pool'[reserved[h].nIndex] = reserved[h].key
    BY <1>7, <2>1, <2>3
  <2>6. \A j \in DOMAIN pool' : pool'[j] \notin used'
    <3> SUFFICES ASSUME NEW j \in DOMAIN P, j # i PROVE P[j] \notin used'
      BY <1>7
    <3>1. P[j] \notin used /\ (i \in DOMAIN P => P[j] # P[i])
      BY <2>1
    <3> QED
      BY <1>4, <3>1
  <2>7. \A j, k \in DOMAIN pool' : pool'[j] = pool'[k] => j = k
    BY <1>7, <2>1
  <2> QED
    BY <2>1, <2>4, <2>5, <2>6, <2>7
<1>12. \A j \in DOMAIN pool' \ setKeyPool' : \E h \in Holders : reserved[h].nIndex = j /\ reserved[h].key = pool'[j]
  <2> SUFFICES ASSUME NEW j \in DOMAIN P, j # i, j \notin S \ {i}
               PROVE \E h \in Holders : reserved[h].nIndex = j /\ reserved[h].key = P[j]
    BY <1>4, <1>7
  <2> QED
    BY <1>3 DEF Good
<1>13. Good(setKeyPool, pool, nKeys, reissued)'
  <2>1. nKeys' \in 0..MaxKeys /\ reissued' \in BOOLEAN /\ setKeyPool' \subseteq 1..nKeys'
    BY <1>3, <1>4 DEF Good
  <2>2. HeldIndices' = HeldIndices
    BY <1>6 DEF HeldIndices
  <2> QED
    BY <1>6, <1>8, <1>10, <1>12, <2>1, <2>2 DEF Good
<1> QED
  BY <1>9, <1>13, FromGood, PTL

LEMMA OldestStep == ASSUME IInv, GetOldestKeyPoolTime PROVE IInv'
<1>1. TypeOK /\ Wanted \in Nat /\ Holding
  BY MissingNat DEF IInv
<1>2. PICK n \in 1..(MaxKeys + 1) :
        LET P == Written(n, Wanted, pool)
            S == setKeyPool \cup New(n, Wanted)
        IN /\ IsEnd(n) /\ Generate(n, Wanted) /\ pool' = P
           /\ setKeyPool' = S \ {i \in S : IsOldest(i, S) /\ i \notin DOMAIN P}
  BY DEF GetOldestKeyPoolTime
<1> DEFINE S == setKeyPool \cup New(n, Wanted)
<1>3. Good(S, pool', nKeys', reissued')
  BY <1>1, <1>2, TopUpGood
<1>4. setKeyPool' \subseteq S /\ \A i \in S \ setKeyPool' : i \notin DOMAIN pool'
  BY <1>2
<1>5. UNCHANGED <<reserved, fCrypted, fLocked, used>>
  BY DEF GetOldestKeyPoolTime, crypt
<1> HIDE DEF S
<1>6. Good(setKeyPool', pool', nKeys', reissued')
  <2>1. ~reissued' => setKeyPool' = S
    BY <1>3, <1>4 DEF Good
  <2>2. \A i \in DOMAIN pool' \ setKeyPool' : i \in DOMAIN pool' \ S
    BY <1>4
  <2> QED
    BY <1>3, <1>4, <2>1, <2>2 DEF Good
<1>7. Good(setKeyPool, pool, nKeys, reissued)'
  BY <1>5, <1>6, GoodPrimed
<1>8. Rest'
  BY <1>1, <1>2, <1>5, RestGrows DEF Generate, TypeOK
<1> QED
  BY <1>7, <1>8, FromGood, PTL

LEMMA EncryptStep == ASSUME IInv, EncryptWallet PROVE IInv'
<1> DEFINE O == Restrict(pool, DOMAIN pool \ setKeyPool)
           P == Written(1, PoolSize, O)
<1>1. /\ TypeOK /\ Holding /\ Generate(1, PoolSize) /\ pool' = P /\ setKeyPool' = 1..PoolSize
      /\ fCrypted' = TRUE /\ fLocked' = TRUE
      /\ UNCHANGED <<reserved, used>>
  BY DEF IInv, EncryptWallet, NewKeyPool
<1>2. /\ nKeys \in Int /\ 0 <= nKeys /\ nKeys' = nKeys + PoolSize /\ nKeys' \in 0..MaxKeys /\ PoolSize \in Nat
      /\ New(1, PoolSize) = 1..PoolSize
  BY <1>1, KeyPoolAssumption DEF Generate, TypeOK, New
<1>3. /\ DOMAIN O = DOMAIN pool \ setKeyPool
      /\ \A i \in DOMAIN O : O[i] = pool[i]
      /\ O \in [DOMAIN O -> 1..nKeys] /\ DOMAIN O \subseteq 1..nKeys
  BY <1>1 DEF Restrict, TypeOK
<1> HIDE DEF O
<1>4. /\ DOMAIN P = DOMAIN O \cup 1..PoolSize
      /\ P \in [DOMAIN O \cup 1..PoolSize -> 1..nKeys']
      /\ \A i \in DOMAIN O \ (1..PoolSize) : P[i] = O[i]
      /\ \A i \in 1..PoolSize : P[i] > nKeys
      /\ \A i, j \in 1..PoolSize : P[i] = P[j] => i = j
  <2>1. 1 \in 1..(nKeys + 1)
    BY <1>2
  <2>2. /\ DOMAIN P = DOMAIN O \cup New(1, PoolSize)
        /\ P \in [DOMAIN O \cup New(1, PoolSize) -> 1..(nKeys + PoolSize)]
        /\ \A i \in DOMAIN O \ New(1, PoolSize) : P[i] = O[i]
        /\ \A i \in New(1, PoolSize) : P[i] > nKeys
        /\ \A i, j \in New(1, PoolSize) : P[i] = P[j] => i = j
    BY <1>1, <1>2, <1>3, <2>1, WrittenKeys
  <2> HIDE DEF P
  <2> QED
    BY <1>2, <2>2
<1> HIDE DEF P
<1>5. \A i \in DOMAIN P \ (1..PoolSize) :
         /\ i \in DOMAIN pool \ setKeyPool /\ P[i] = pool[i]
         /\ \E h \in Holders : reserved[h].nIndex = i /\ reserved[h].key = P[i]
  BY <1>3, <1>4 DEF IInv, Backed
<1>6. Backed'
  BY <1>1, <1>5 DEF Backed
<1>8. TypeOK'
  <2>1. \A x \in 0..nKeys : x \in 0..nKeys'
    BY <1>2
  <2>2. reserved \in [Holders -> [nIndex : 0..nKeys', key : 0..nKeys']]
    BY <1>1, <2>1 DEF TypeOK
  <2>3. used \subseteq 1..nKeys'
    BY <1>1, <1>2 DEF TypeOK
  <2>4. P \in [DOMAIN P -> 1..nKeys'] /\ DOMAIN P \subseteq 1..nKeys' /\ 1..PoolSize \subseteq 1..nKeys'
    BY <1>2, <1>3, <1>4
  <2>5. reissued' \in BOOLEAN
    BY <1>1 DEF Generate
  <2> QED
    BY <1>1, <1>2, <2>2, <2>3, <2>4, <2>5 DEF TypeOK
<1>10. Holding'
  BY <1>1 DEF Holding
<1>11. ASSUME ~reissued'
       PROVE ~reissued /\ 1..PoolSize \cap HeldIndices = {}
  BY <1>1, <1>2, <1>11 DEF Generate
<1>12. RecordsExact'
  <2> SUFFICES ASSUME ~reissued'
               PROVE /\ DOMAIN P = 1..PoolSize \cup HeldIndices /\ 1..PoolSize \cap HeldIndices = {}
                     /\ \A g \in Holders : reserved[g].nIndex # 0 => P[reserved[g].nIndex] = reserved[g].key
                     /\ \A f, g \in Holders : f # g /\ reserved[f].nIndex # 0
                                                => reserved[f].nIndex # reserved[g].nIndex
    BY <1>1 DEF RecordsExact, HeldIndices
  <2>1. /\ DOMAIN pool = setKeyPool \cup HeldIndices /\ setKeyPool \cap HeldIndices = {}
        /\ \A g \in Holders : reserved[g].nIndex # 0 => pool[reserved[g].nIndex] = reserved[g].key
        /\ \A f, g \in Holders : f # g /\ reserved[f].nIndex # 0 => reserved[f].nIndex # reserved[g].nIndex
    BY <1>11 DEF IInv, RecordsExact
  <2>2. DOMAIN O = HeldIndices
    BY <1>3, <2>1
  <2>3. \A g \in Holders : reserved[g].nIndex # 0 => reserved[g].nIndex \in HeldIndices
    BY DEF HeldIndices
  <2>4. \A g \in Holders : reserved[g].nIndex # 0 => P[reserved[g].nIndex] = pool[reserved[g].nIndex]
    BY <1>3, <1>4, <1>11, <2>2, <2>3
  <2> QED
    BY <1>4, <1>11, <2>1, <2>2, <2>4
<1>13. KeyUsedOnce'
  <2> SUFFICES ASSUME ~reissued'
               PROVE /\ \A i \in DOMAIN P : P[i] \notin used
                     /\ \A i, j \in DOMAIN P : P[i] = P[j] => i = j
    BY <1>1 DEF KeyUsedOnce
  <2>1. /\ \A i \in DOMAIN pool : pool[i] \notin used
        /\ \A i, j \in DOMAIN pool : pool[i] = pool[j] => i = j
    BY <1>11 DEF IInv, KeyUsedOnce
  <2>2. \A i \in DOMAIN pool : pool[i] <= nKeys /\ pool[i] \in Int
    BY <1>1, <1>2 DEF TypeOK
  <2>3. \A i \in DOMAIN P : P[i] \in Int
    BY <1>4
  <2>4. \A x \in used : x <= nKeys
    BY <1>1, <1>2 DEF TypeOK
  <2>5. ASSUME NEW i \in DOMAIN P PROVE P[i] \notin used
    <3>1. CASE i \in 1..PoolSize
      BY <1>2, <1>4, <2>3, <2>4, <3>1
    <3>2. CASE i \notin 1..PoolSize
      BY <1>5, <2>1, <3>2
    <3> QED
      BY <3>1, <3>2
  <2>6. ASSUME NEW i \in DOMAIN P, NEW j \in DOMAIN P, P[i] = P[j] PROVE i = j
    <3>1. CASE i \in 1..PoolSize /\ j \in 1..PoolSize
      BY <1>4, <2>6, <3>1
    <3>2. CASE i \notin 1..PoolSize /\ j \notin 1..PoolSize
      BY <1>5, <2>1, <2>6, <3>2
    <3>3. CASE i \in 1..PoolSize /\ j \notin 1..PoolSize
      BY <1>2, <1>4, <1>5, <2>2, <2>3, <2>6, <3>3
    <3>4. CASE i \notin 1..PoolSize /\ j \in 1..PoolSize
      BY <1>2, <1>4, <1>5, <2>2, <2>3, <2>6, <3>4
    <3> QED
      BY <3>1, <3>2, <3>3, <3>4
  <2> QED
    BY <2>5, <2>6
<1> QED
  BY <1>6, <1>8, <1>10, <1>12, <1>13 DEF IInv

LEMMA RestartStep == ASSUME IInv, Restart \/ EncryptCut PROVE IInv'
<1>1. /\ TypeOK /\ setKeyPool' = DOMAIN pool /\ reserved' = [h \in Holders |-> NoKey]
      /\ UNCHANGED <<pool, nKeys, used, reissued>>
      /\ fCrypted' \in BOOLEAN /\ fLocked' = fCrypted'
  BY DEF IInv, Restart, EncryptCut, history, TypeOK
<1>2. HeldIndices' = {}
  BY <1>1 DEF HeldIndices, NoKey
<1>3. TypeOK'
  BY <1>1 DEF TypeOK, NoKey
<1>4. RecordsExact' /\ Backed' /\ Holding'
  BY <1>1, <1>2 DEF RecordsExact, Backed, Holding, NoKey
<1>5. KeyUsedOnce'
  BY <1>1 DEF IInv, KeyUsedOnce
<1> QED
  BY <1>3, <1>4, <1>5 DEF IInv

\* Locking, unlocking and stuttering leave the pool alone.
LEMMA QuietStep ==
  ASSUME IInv, UNCHANGED <<setKeyPool, pool, nKeys, reserved, fCrypted, used, reissued>>,
         fLocked' \in BOOLEAN, fLocked' => fCrypted
  PROVE  IInv'
<1>1. TypeOK'
  BY DEF IInv, TypeOK
<1>2. RecordsExact' /\ KeyUsedOnce' /\ Backed' /\ Holding'
  BY DEF IInv, RecordsExact, KeyUsedOnce, Backed, Holding, HeldIndices
<1> QED
  BY <1>1, <1>2 DEF IInv

-----------------------------------------------------------------------------
LEMMA InitHolds == ASSUME Init PROVE IInv
<1>1. nKeys = 0 /\ DOMAIN pool = {} /\ setKeyPool = {} /\ pool \in [DOMAIN pool -> 1..nKeys]
  BY DEF Init
<1>2. TypeOK
  <2>1. reserved \in [Holders -> [nIndex : 0..nKeys, key : 0..nKeys]]
    BY <1>1 DEF Init, NoKey
  <2>2. fCrypted \in BOOLEAN /\ fLocked \in BOOLEAN /\ (fLocked => fCrypted)
        /\ reissued \in BOOLEAN
    BY Zenon DEF Init
  <2>3. nKeys \in 0..MaxKeys /\ used = {}
    BY <1>1, KeyPoolAssumption DEF Init
  <2>4. setKeyPool \subseteq 1..nKeys /\ DOMAIN pool \subseteq 1..nKeys
        /\ used \subseteq 1..nKeys
    BY <1>1, <2>3
  <2> QED
    BY <1>1, <2>1, <2>2, <2>3, <2>4, Zenon DEF TypeOK
<1>3. HeldIndices = {}
  BY DEF Init, HeldIndices, NoKey
<1> QED
  BY <1>1, <1>2, <1>3 DEF Init, IInv, RecordsExact, KeyUsedOnce, Backed, Holding, NoKey

LEMMA StepHolds == ASSUME IInv, [Next]_vars PROVE IInv'
<1>0. TypeOK
  BY DEF IInv
<1>1. CASE Lock
  BY <1>0, <1>1, QuietStep DEF Lock, records, history, TypeOK
<1>2. CASE Unlock
  BY <1>0, <1>2, QuietStep DEF Unlock, records, history, TypeOK
<1>3. CASE UNCHANGED vars
  BY <1>0, <1>3, QuietStep DEF vars, records, crypt, history, TypeOK
<1> QED
  BY <1>1, <1>2, <1>3, TopUpStep, InterruptedStep, ReserveStep, KeepStep, ReturnStep,
     GetKeyStep, OldestStep, EncryptStep, RestartStep DEF Next

\* The inductive invariant holds of the key pool.
THEOREM PoolInvariant == Spec => []IInv
<1>1. Init => IInv
  BY InitHolds
<1>2. IInv /\ [Next]_vars => IInv'
  BY StepHolds
<1> QED
  BY <1>1, <1>2, PTL DEF Spec

\* The types of the pool, of the objects and of the histories.
THEOREM TypeCorrect == Spec => []TypeOK
<1>1. IInv => TypeOK
  BY DEF IInv
<1> QED
  BY <1>1, PoolInvariant, PTL

\* Until an index is given out again while it is held, the records are exactly
\* the free and the reserved keys: ReserveKeyFromKeyPool never fails to read one,
\* and a crash puts back every key that was not used.
THEOREM RecordsAreExact == Spec => []RecordsExact
<1>1. IInv => RecordsExact
  BY DEF IInv
<1> QED
  BY <1>1, PoolInvariant, PTL

\* Until then, no key that was kept is ever offered again.
THEOREM KeysUsedOnce == Spec => []KeyUsedOnce
<1>1. IInv => KeyUsedOnce
  BY DEF IInv
<1> QED
  BY <1>1, PoolInvariant, PTL

\* A top-up overwrites no record unless it gives a held index out again.
LEMMA TopUpKeeps ==
  ASSUME IInv, NEW n \in 1..(MaxKeys + 1), NEW k \in Nat, IsEnd(n), Generate(n, k), ~reissued',
         NEW i \in DOMAIN pool
  PROVE  i \in DOMAIN Written(n, k, pool) /\ Written(n, k, pool)[i] = pool[i]
<1>1. TypeOK /\ ~reissued /\ New(n, k) \cap HeldIndices = {} /\ nKeys + k <= MaxKeys
  BY DEF IInv, Generate
<1>2. New(n, k) \cap setKeyPool = {}
  BY <1>1, NewIndices
<1>3. i \notin New(n, k)
  BY <1>1, <1>2 DEF IInv, RecordsExact
<1> QED
  BY <1>3 DEF Written

\* No step loses a key that was not used.
THEOREM KeysNotLost == Spec => KeyNotLost
<1>1. ASSUME IInv, [Next]_vars, NEW i \in DOMAIN pool
      PROVE pool[i] \in used' \/ (fCrypted' /\ ~fCrypted) \/ reissued' \/ pool[i] \in Range(pool')
  <2> SUFFICES ASSUME ~(fCrypted' /\ ~fCrypted), ~reissued'
               PROVE pool[i] \in used' \/ \E j \in DOMAIN pool' : pool'[j] = pool[i]
    BY DEF Range
  <2>1. TypeOK /\ Missing \in Nat /\ Wanted \in Nat
    BY <1>1, MissingNat DEF IInv
  <2>2. CASE TopUpKeyPool
    BY <1>1, <2>1, <2>2, TopUpKeeps DEF TopUpKeyPool
  <2>3. CASE TopUpInterrupted
    <3>1. PICK k \in 0..(Missing - 1), n \in 1..(MaxKeys + 1) :
            IsEnd(n) /\ Generate(n, k) /\ pool' = Written(n, k, pool)
      BY <2>3 DEF TopUpInterrupted
    <3> QED
      BY <1>1, <2>1, <3>1, TopUpKeeps
  <2>4. ASSUME NEW h \in Holders, GetReservedKey(h)
        PROVE \E j \in DOMAIN pool' : pool'[j] = pool[i]
    <3>1. PICK n \in 1..(MaxKeys + 1) : IsEnd(n) /\ Generate(n, Wanted) /\ pool' = Written(n, Wanted, pool)
      BY <2>4 DEF GetReservedKey
    <3> QED
      BY <1>1, <2>1, <3>1, TopUpKeeps
  <2>5. CASE GetOldestKeyPoolTime
    <3>1. PICK n \in 1..(MaxKeys + 1) : IsEnd(n) /\ Generate(n, Wanted) /\ pool' = Written(n, Wanted, pool)
      BY <2>5 DEF GetOldestKeyPoolTime
    <3> QED
      BY <1>1, <2>1, <3>1, TopUpKeeps
  <2>6. CASE GetKeyFromPool
    <3>1. PICK n \in 1..(MaxKeys + 1) :
            /\ IsEnd(n) /\ Generate(n, Wanted)
            /\ \E j : /\ pool' = Restrict(Written(n, Wanted, pool), DOMAIN Written(n, Wanted, pool) \ {j})
                      /\ used' = used \cup {Written(n, Wanted, pool)[l] : l \in DOMAIN Written(n, Wanted, pool) \cap {j}}
      BY <2>6 DEF GetKeyFromPool
    <3> DEFINE P == Written(n, Wanted, pool)
    <3>2. i \in DOMAIN P /\ P[i] = pool[i]
      BY <1>1, <2>1, <3>1, TopUpKeeps
    <3>3. PICK j : /\ pool' = Restrict(P, DOMAIN P \ {j})
                   /\ used' = used \cup {P[l] : l \in DOMAIN P \cap {j}}
      BY <3>1
    <3> HIDE DEF P
    <3>4. CASE i = j
      BY <3>2, <3>3, <3>4
    <3>5. CASE i # j
      BY <3>2, <3>3, <3>5 DEF Restrict
    <3> QED
      BY <3>4, <3>5
  <2>7. ASSUME NEW h \in Holders, KeepKey(h)
        PROVE pool[i] \in used' \/ \E j \in DOMAIN pool' : pool'[j] = pool[i]
    <3>1. CASE i = reserved[h].nIndex
      <4>1. i # 0 /\ ~reissued
        BY <2>1, <2>7 DEF TypeOK, KeepKey
      <4> QED
        BY <1>1, <2>7, <3>1, <4>1 DEF KeepKey, IInv, RecordsExact
    <3>2. CASE i # reserved[h].nIndex
      BY <2>7, <3>2 DEF KeepKey, Restrict
    <3> QED
      BY <3>1, <3>2
  <2>8. CASE EncryptWallet
    BY <2>8 DEF EncryptWallet
  <2>9. CASE pool' = pool
    BY <2>9
  <2> QED
    BY <1>1, <2>2, <2>3, <2>4, <2>5, <2>6, <2>7, <2>8, <2>9
    DEF Next, ReturnKey, Lock, Unlock, Restart, EncryptCut, vars, records
<1>2. IInv /\ [Next]_vars => [\A i \in DOMAIN pool :
        pool[i] \in used' \/ (fCrypted' /\ ~fCrypted) \/ reissued' \/ pool[i] \in Range(pool')]_vars
  BY <1>1
<1> QED
  BY <1>2, PoolInvariant, PTL DEF Spec, KeyNotLost

-----------------------------------------------------------------------------
(* The threads and commands that lock the wallet.                          *)

ThreadsOK == /\ fArmed \in BOOLEAN /\ fWasLocked \in BOOLEAN /\ escaped \in BOOLEAN
             /\ timer \in [Timers -> {"off", "start", "sleep"}]
             /\ topper \in {"off", "run", "threw"}
             /\ rpc \in {"idle", "started", "change", "changed"}

\* A set unlock time has a thread that waits for it.
Armed == fArmed => \E t \in Timers : timer[t] = "sleep"

\* RelockPending, also inside a passphrase change that will not lock the wallet.
Covered == ~escaped /\ (rpc \in {"idle", "change"} \/ (rpc = "changed" /\ ~fWasLocked))
Pending == fCrypted /\ ~fLocked /\ Covered
             => \E t \in Timers : timer[t] = "start" \/ (timer[t] = "sleep" /\ fArmed)

LockInv == ThreadsOK /\ Armed /\ Pending

-----------------------------------------------------------------------------
\* Every step of the threads and commands is a step of the key pool, or none.
LEMMA PoolSimulated == ASSUME TypeOK, [LockNext]_allVars PROVE [Next]_vars
<1>1. CASE walletpassphrase
  BY <1>1 DEF walletpassphrase, Next
<1>2. CASE StartThreads
  BY <1>2 DEF StartThreads
<1>3. CASE walletlock
  BY <1>3 DEF walletlock, Next
<1>4. CASE ChangeBegins
  BY <1>4 DEF ChangeBegins
<1>5. CASE ChangeFails
  BY <1>5 DEF ChangeFails, Next
<1>6. CASE ChangeUnlocks
  <2>1. CASE fLocked
    <3>1. Unlock
      BY <1>6, <2>1 DEF ChangeUnlocks, Unlock, TypeOK
    <3> QED
      BY <3>1 DEF Next
  <2>2. CASE ~fLocked
    BY <1>6, <2>2 DEF ChangeUnlocks, vars, crypt, TypeOK
  <2> QED
    BY <2>1, <2>2
<1>7. CASE ChangeEnds
  BY <1>7 DEF ChangeEnds, Next
<1>8. ASSUME NEW t \in Timers, CleanBegins(t) \/ CleanEnds(t) \/ Interrupt(t) PROVE [Next]_vars
  BY <1>8 DEF CleanBegins, CleanEnds, Interrupt, Next
<1>9. CASE ThreadTopUpKeyPool
  BY <1>9 DEF ThreadTopUpKeyPool, Next
<1>10. CASE PoolStep
  BY <1>10 DEF PoolStep, Next
<1>11. CASE ProcessEnds
  BY <1>11 DEF ProcessEnds, Next
<1>12. CASE UNCHANGED allVars
  BY <1>12 DEF allVars
<1> QED
  BY <1>1, <1>2, <1>3, <1>4, <1>5, <1>6, <1>7, <1>8, <1>9, <1>10, <1>11, <1>12 DEF LockNext

\* The threads and the commands implement the key pool: what is proved of the pool
\* holds under any schedule of theirs.
THEOREM ImplementsPool == LockSpec => Spec
<1>1. LockInit => Init
  BY DEF LockInit
<1>2. Init => IInv
  BY InitHolds
<1>3. IInv /\ [LockNext]_allVars => [Next]_vars
  BY PoolSimulated DEF IInv
<1>4. IInv /\ [Next]_vars => IInv'
  BY StepHolds
<1> QED
  BY <1>1, <1>2, <1>3, <1>4, PTL DEF LockSpec, Spec

-----------------------------------------------------------------------------
\* Pool steps leave the lock alone, except that encryption ends locked.
LEMMA PoolStepLock == ASSUME PoolStep PROVE (fCrypted' = fCrypted /\ fLocked' = fLocked) \/ fLocked' = TRUE
  BY DEF PoolStep, TopUpKeyPool, GetKeyFromPool, GetOldestKeyPoolTime, EncryptWallet,
         GetReservedKey, ReturnKey, KeepKey, crypt

\* The initial states satisfy the invariant.
LEMMA LockInitHolds == ASSUME LockInit PROVE LockInv
<1>1. fArmed = FALSE /\ fLocked = fCrypted /\ fCrypted \in BOOLEAN
  BY DEF LockInit, Init
<1>2. ThreadsOK
  BY DEF LockInit, ThreadsOK
<1> QED
  BY <1>1, <1>2 DEF LockInv, Armed, Pending

\* Each step preserves it.
LEMMA LockStepHolds == ASSUME TypeOK, TypeOK', LockInv, [LockNext]_allVars PROVE LockInv'
<1> USE DEF LockInv, ThreadsOK, Armed, Pending, Covered
<1>0. fCrypted \in BOOLEAN /\ fLocked \in BOOLEAN /\ fCrypted' \in BOOLEAN /\ fLocked' \in BOOLEAN
  BY DEF TypeOK
<1>1. CASE walletpassphrase
  BY <1>0, <1>1 DEF walletpassphrase
<1>2. CASE StartThreads
  <2>1. PICK t \in Timers : timer[t] = "off" /\ timer' = [timer EXCEPT ![t] = "start"]
    BY <1>2 DEF StartThreads
  <2>2. timer'[t] = "start" /\ \A u \in Timers : timer[u] = "sleep" => timer'[u] = "sleep"
    BY <2>1
  <2>3. fArmed' = fArmed /\ fWasLocked' = fWasLocked /\ escaped' = escaped /\ topper' = "run" /\ rpc' = "idle"
    BY <1>2 DEF StartThreads
  <2> QED
    BY <2>1, <2>2, <2>3
<1>3. CASE walletlock
  BY <1>0, <1>3 DEF walletlock, Lock
<1>4. CASE ChangeBegins
  BY <1>0, <1>4 DEF ChangeBegins, Free, vars, crypt
<1>5. CASE ChangeFails
  BY <1>0, <1>5 DEF ChangeFails, Lock
<1>6. CASE ChangeUnlocks
  <2>1. /\ fCrypted' = fCrypted /\ rpc = "change" /\ rpc' = "changed"
        /\ timer' = timer /\ fArmed' = fArmed /\ fWasLocked' = fWasLocked /\ topper' = topper
        /\ escaped' = (~fWasLocked /\ (fLocked \/ escaped))
    BY <1>6 DEF ChangeUnlocks
  <2>2. ~fWasLocked /\ ~escaped' => ~fLocked /\ ~escaped
    BY <2>1
  <2>3. escaped' \in BOOLEAN
    BY <2>1
  <2> QED
    BY <1>0, <2>1, <2>2, <2>3
<1>7. CASE ChangeEnds
  <2>1. CASE fWasLocked
    BY <1>0, <1>7, <2>1 DEF ChangeEnds, Lock
  <2>2. CASE ~fWasLocked
    BY <1>0, <1>7, <2>2 DEF ChangeEnds, vars, crypt
  <2> QED
    BY <2>1, <2>2
<1>8. ASSUME NEW t \in Timers, CleanBegins(t) PROVE LockInv'
  <2>1. /\ timer[t] = "start" /\ timer' = [timer EXCEPT ![t] = IF fArmed THEN "off" ELSE "sleep"]
        /\ fArmed' = TRUE /\ fCrypted' = fCrypted /\ fLocked' = fLocked
        /\ UNCHANGED <<topper, rpc, fWasLocked, escaped>>
    BY <1>8 DEF CleanBegins, vars, crypt
  <2>2. \E u \in Timers : timer'[u] = "sleep"
    BY <2>1
  <2> QED
    BY <2>1, <2>2
<1>9. ASSUME NEW t \in Timers, CleanEnds(t) PROVE LockInv'
  <2>1. /\ timer[t] = "sleep" /\ timer' = [timer EXCEPT ![t] = "off"]
        /\ fArmed' = FALSE /\ UNCHANGED <<topper, rpc, fWasLocked>>
    BY <1>9 DEF CleanEnds
  <2>2. CASE fArmed
    BY <1>0, <1>9, <2>1, <2>2 DEF CleanEnds, Lock
  <2>3. CASE ~fArmed
    <3>1. fCrypted' = fCrypted /\ fLocked' = fLocked /\ escaped' = escaped
      BY <1>9, <2>3 DEF CleanEnds, vars, crypt
    <3>2. \A u \in Timers : timer[u] = "start" => timer'[u] = "start"
      BY <2>1
    <3> QED
      BY <2>1, <2>3, <3>1, <3>2
  <2> QED
    BY <2>2, <2>3
<1>10. ASSUME NEW t \in Timers, Interrupt(t) PROVE LockInv'
  <2>1. fLocked' = TRUE /\ fArmed' = FALSE /\ escaped' = FALSE /\ UNCHANGED <<rpc, fWasLocked>>
    BY <1>10 DEF Interrupt, TopUpInterrupted
  <2>2. timer' \in [Timers -> {"off", "start", "sleep"}] /\ topper' \in {"off", "run", "threw"}
    BY <1>10 DEF Interrupt
  <2> QED
    BY <2>1, <2>2
<1>11. CASE ThreadTopUpKeyPool
  <2>1. fCrypted' = fCrypted /\ fLocked' = fLocked
    BY <1>11 DEF ThreadTopUpKeyPool, TopUpKeyPool, vars, crypt
  <2> QED
    BY <1>11, <2>1 DEF ThreadTopUpKeyPool
<1>12. CASE PoolStep
  <2>1. UNCHANGED threads
    BY <1>12 DEF PoolStep
  <2> QED
    BY <1>0, <1>12, <2>1, PoolStepLock DEF threads
<1>13. CASE ProcessEnds
  <2>1. fLocked' = fCrypted'
    BY <1>0, <1>13 DEF ProcessEnds, Restart, EncryptCut
  <2> QED
    BY <1>0, <1>13, <2>1 DEF ProcessEnds
<1>14. CASE UNCHANGED allVars
  BY <1>14 DEF allVars, threads, vars, crypt
<1> QED
  BY <1>1, <1>2, <1>3, <1>4, <1>5, <1>6, <1>7, <1>8, <1>9, <1>10, <1>11, <1>12, <1>13, <1>14 DEF LockNext

\* While the wallet is unlocked a thread is under way that will lock it, unless a
\* passphrase change unlocked it after that thread was done.
THEOREM RelockUnderWay == LockSpec => []RelockPending
<1>1. LockInit => LockInv
  BY LockInitHolds
<1>2. TypeOK /\ TypeOK' /\ LockInv /\ [LockNext]_allVars => LockInv'
  BY LockStepHolds
<1>3. LockInv => RelockPending
  BY DEF LockInv, Pending, Covered, RelockPending
<1> QED
  BY <1>1, <1>2, <1>3, ImplementsPool, TypeCorrect, PTL DEF LockSpec

\* No schedule of the threads makes the pool offer a key that was used.
THEOREM KeysSafe == LockSpec => [](RecordsExact /\ KeyUsedOnce)
  BY ImplementsPool, RecordsAreExact, KeysUsedOnce, PTL
=============================================================================
