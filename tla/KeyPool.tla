------------------------------- MODULE KeyPool -------------------------------
(***************************************************************************)
(* The key pool of the wallet: NewKeyPool, TopUpKeyPool,                   *)
(* ReserveKeyFromKeyPool, KeepKey, ReturnKey, GetKeyFromPool and           *)
(* GetOldestKeyPoolTime of src/src/wallet.cpp and the CReserveKey objects  *)
(* of the miners, the RPC server and the threads that send.                *)
(*                                                                         *)
(* Keys are numbered in the order GenerateNewKey makes them; 0 is the      *)
(* default key or no key.  A pool index is positive, 0 is the code's -1.   *)
(* The operations hold cs_wallet throughout, so each is one step; locking  *)
(* the wallet takes only cs_KeyStore and may fall into a top-up, whose     *)
(* next GenerateNewKey then throws.  KeepKey takes no lock: it is a step   *)
(* of its own, one write to the database.                                  *)
(***************************************************************************)
EXTENDS Integers, FiniteSets, Functions

CONSTANTS Holders,      \* the CReserveKey objects
          PoolSize,     \* -keypool
          MaxKeys       \* bound on the keys that are generated

ASSUME KeyPoolAssumption == PoolSize \in Nat /\ MaxKeys \in Nat

VARIABLES setKeyPool,   \* indices that may be reserved
          pool,         \* the "pool" records of wallet.dat: [indices -> keys]
          reserved,     \* [Holders -> index and key of the object]
          nKeys,        \* keys generated so far
          fCrypted, fLocked,
          used,         \* history: keys that were kept
          reissued      \* history: an index got a new key while an object held it

records == <<setKeyPool, pool, nKeys>>
crypt == <<fCrypted, fLocked>>
history == <<used, reissued>>
vars == <<records, reserved, crypt, history>>

NoKey == [nIndex |-> 0, key |-> 0]

Init == /\ setKeyPool = {} /\ pool = [i \in {} |-> 0]
        /\ reserved = [h \in Holders |-> NoKey]
        /\ nKeys = 0 /\ fCrypted \in BOOLEAN /\ fLocked = fCrypted
        /\ used = {} /\ reissued = FALSE

-----------------------------------------------------------------------------
HeldIndices == {reserved[h].nIndex : h \in Holders} \ {0}

\* nEnd of TopUpKeyPool: one after the last index that is not reserved.
IsEndBug(n) == IF setKeyPool = {} THEN n = 1
               ELSE n \in setKeyPool /\ \A i \in setKeyPool : i <= n
IsEnd(n) == IF setKeyPool = {} THEN n = 1
            ELSE n - 1 \in setKeyPool /\ \A i \in setKeyPool : i < n

Missing == IF Cardinality(setKeyPool) < PoolSize + 1
           THEN PoolSize + 1 - Cardinality(setKeyPool) ELSE 0

\* What the caller of TopUpKeyPool wants: nothing while the wallet is locked.
Wanted == IF fLocked THEN 0 ELSE Missing

\* TopUpKeyPool for the indices n..n+k-1: GenerateNewKey and WritePool.
New(n, k) == n..(n + k - 1)
Written(n, k, P) == [i \in DOMAIN P \cup New(n, k) |->
                       IF i \in New(n, k) THEN nKeys + 1 + i - n ELSE P[i]]
Generate(n, k) == /\ nKeys + k <= MaxKeys
                  /\ nKeys' = nKeys + k
                  /\ reissued' = (reissued \/ New(n, k) \cap HeldIndices # {})

IsOldest(i, S) == i \in S /\ \A j \in S : i <= j

-----------------------------------------------------------------------------
\* TopUpKeyPool by itself: keypoolrefill, getnewaddress, ThreadTopUpKeyPool.
TopUpKeyPool == /\ ~fLocked
                /\ \E n \in 1..(MaxKeys + 1) :
                      /\ IsEnd(n) /\ Generate(n, Missing)
                      /\ pool' = Written(n, Missing, pool)
                      /\ setKeyPool' = setKeyPool \cup New(n, Missing)
                /\ UNCHANGED <<reserved, crypt, used>>

\* The wallet is locked while TopUpKeyPool runs: GenerateNewKey throws and the
\* operation that called it fails; the k keys written so far stay.
TopUpInterrupted == /\ fCrypted /\ ~fLocked /\ fLocked' = TRUE
                    /\ \E k \in 0..(Missing - 1), n \in 1..(MaxKeys + 1) :
                          /\ IsEnd(n) /\ Generate(n, k)
                          /\ pool' = Written(n, k, pool)
                          /\ setKeyPool' = setKeyPool \cup New(n, k)
                    /\ UNCHANGED <<reserved, fCrypted, used>>

\* CReserveKey::GetReservedKey of an object without a key.  A record that cannot
\* be read makes the reservation throw when nIndex is already set.  With an
\* empty pool the object takes the default key and stays without an index.
ReserveKeyFromKeyPool(i, S) == S \ {i}
GetReservedKey(h) ==
  /\ reserved[h].nIndex = 0
  /\ \E n \in 1..(MaxKeys + 1) :
        LET P == Written(n, Wanted, pool)
            S == setKeyPool \cup New(n, Wanted)
        IN /\ IsEnd(n) /\ Generate(n, Wanted) /\ pool' = P
           /\ \E i \in S :
                /\ IsOldest(i, S)
                /\ setKeyPool' = ReserveKeyFromKeyPool(i, S)
                /\ reserved' = [reserved EXCEPT ![h] =
                                  [nIndex |-> i, key |-> IF i \in DOMAIN P THEN P[i] ELSE 0]]
  /\ UNCHANGED <<crypt, used>>

\* CReserveKey::KeepKey: CommitTransaction and CheckWork, before they do anything else.
KeepKeyBug(h) == /\ reserved[h].key # 0
                 /\ used' = used \cup {reserved[h].key}
                 /\ reserved' = [reserved EXCEPT ![h] = NoKey]
                 /\ UNCHANGED <<records, crypt, reissued>>
KeepKey(h) == /\ reserved[h].key # 0
              /\ pool' = Restrict(pool, DOMAIN pool \ {reserved[h].nIndex})
              /\ used' = used \cup {reserved[h].key}
              /\ reserved' = [reserved EXCEPT ![h] = NoKey]
              /\ UNCHANGED <<setKeyPool, nKeys, crypt, reissued>>

\* CReserveKey::ReturnKey, called by the destructor and when no change is needed.
ReturnKeyBug(h) == /\ reserved[h].nIndex # 0
                   /\ reserved' = [reserved EXCEPT ![h] = NoKey]
                   /\ UNCHANGED <<records, crypt, history>>
ReturnKey(h) == /\ reserved[h].nIndex # 0
                /\ setKeyPool' = setKeyPool \cup {reserved[h].nIndex}
                /\ reserved' = [reserved EXCEPT ![h] = NoKey]
                /\ UNCHANGED <<pool, nKeys, crypt, history>>

\* GetKeyFromPool: reserve and keep under one lock.  With an empty pool the
\* caller gets the default key or nothing.
GetKeyFromPool ==
  /\ \E n \in 1..(MaxKeys + 1) :
        LET P == Written(n, Wanted, pool)
            S == setKeyPool \cup New(n, Wanted)
        IN /\ IsEnd(n) /\ Generate(n, Wanted)
           /\ \E i \in S :
                /\ IsOldest(i, S)
                /\ setKeyPool' = S \ {i}
                /\ pool' = Restrict(P, DOMAIN P \ {i})
                /\ used' = used \cup {P[j] : j \in DOMAIN P \cap {i}}
  /\ UNCHANGED <<reserved, crypt>>

\* GetOldestKeyPoolTime: reserve and return; an index that cannot be read is lost.
GetOldestKeyPoolTime ==
  /\ \E n \in 1..(MaxKeys + 1) :
        LET P == Written(n, Wanted, pool)
            S == setKeyPool \cup New(n, Wanted)
        IN /\ IsEnd(n) /\ Generate(n, Wanted) /\ pool' = P
           /\ setKeyPool' = S \ {i \in S : IsOldest(i, S) /\ i \notin DOMAIN P}
  /\ UNCHANGED <<reserved, crypt, used>>

\* EncryptWallet: NewKeyPool erases the records of the indices that are not
\* reserved and starts again at 1; the wallet ends locked.
NewKeyPool(P) == Written(1, PoolSize, Restrict(P, DOMAIN P \ setKeyPool))
EncryptWallet == /\ ~fCrypted
                 /\ Generate(1, PoolSize)
                 /\ pool' = NewKeyPool(pool)
                 /\ setKeyPool' = 1..PoolSize
                 /\ fCrypted' = TRUE /\ fLocked' = TRUE
                 /\ UNCHANGED <<reserved, used>>

\* CCryptoKeyStore::Lock and Unlock of an encrypted wallet.
Lock == fCrypted /\ fLocked' = TRUE /\ UNCHANGED <<records, reserved, fCrypted, history>>
Unlock == fCrypted /\ fLocked /\ fLocked' = FALSE /\ UNCHANGED <<records, reserved, fCrypted, history>>

\* The process ends, with or without destructors, and LoadWallet reads the
\* pool records again.
Restart == /\ setKeyPool' = DOMAIN pool
           /\ reserved' = [h \in Holders |-> NoKey]
           /\ fLocked' = fCrypted
           /\ UNCHANGED <<pool, nKeys, fCrypted, history>>

\* The process ends between the commit of EncryptWallet's transaction and NewKeyPool:
\* the keys are encrypted, and the pool that is offered from then on is the old one.
EncryptCut == /\ ~fCrypted
              /\ setKeyPool' = DOMAIN pool
              /\ reserved' = [h \in Holders |-> NoKey]
              /\ fCrypted' = TRUE /\ fLocked' = TRUE
              /\ UNCHANGED <<pool, nKeys, history>>

Next == \/ TopUpKeyPool \/ TopUpInterrupted
        \/ \E h \in Holders : GetReservedKey(h) \/ KeepKey(h) \/ ReturnKey(h)
        \/ GetKeyFromPool \/ GetOldestKeyPoolTime
        \/ EncryptWallet \/ EncryptCut \/ Lock \/ Unlock \/ Restart

Spec == Init /\ [][Next]_vars

-----------------------------------------------------------------------------
\* Types; only an encrypted wallet is locked, and no record names a key that was not made.
TypeOK == /\ setKeyPool \subseteq 1..nKeys
          /\ pool \in [DOMAIN pool -> 1..nKeys] /\ DOMAIN pool \subseteq 1..nKeys
          /\ reserved \in [Holders -> [nIndex : 0..nKeys, key : 0..nKeys]]
          /\ nKeys \in 0..MaxKeys
          /\ fCrypted \in BOOLEAN /\ fLocked \in BOOLEAN /\ (fLocked => fCrypted)
          /\ used \subseteq 1..nKeys /\ reissued \in BOOLEAN

\* Every record of wallet.dat is either ready to be reserved or reserved by exactly
\* one object, which remembers its key; so no reservation throws and no key
\* is lost when the process dies.  Holds until an index is given out again.
RecordsExact ==
  ~reissued => /\ DOMAIN pool = setKeyPool \cup HeldIndices
               /\ setKeyPool \cap HeldIndices = {}
               /\ \A h \in Holders : reserved[h].nIndex # 0 => pool[reserved[h].nIndex] = reserved[h].key
               /\ \A g, h \in Holders : g # h /\ reserved[g].nIndex # 0 => reserved[g].nIndex # reserved[h].nIndex

\* A key that was kept for a transaction, a block or an address is never
\* in the pool again, and no two records name one key.
KeyUsedOnce ==
  ~reissued => /\ \A i \in DOMAIN pool : pool[i] \notin used
               /\ \A i, j \in DOMAIN pool : pool[i] = pool[j] => i = j

\* A key leaves the records only to be used, or when encryption flushes the pool.
KeyNotLost ==
  [][\A i \in DOMAIN pool :
        pool[i] \in used' \/ (fCrypted' /\ ~fCrypted) \/ reissued' \/ pool[i] \in Range(pool')]_vars
=============================================================================
