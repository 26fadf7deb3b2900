------------------------------- MODULE AddrMan -------------------------------
(***************************************************************************)
(* CAddrMan of src/src/addrman.h and addrman.cpp: the addresses of other   *)
(* nodes in "new" and "tried" buckets, with the indexes that point into    *)
(* each other.                                                             *)
(*                                                                         *)
(* Every operation runs under the object's lock and is one step.  An       *)
(* address stands for an IP; its port, times, attempt counts and services  *)
(* only decide which entry a choice falls on, so the choices (what is      *)
(* terrible, which of four is the oldest, what a random number is) are     *)
(* arbitrary.  The bucket hashes are constant functions: the key never     *)
(* changes.  Positions count from 1.                                       *)
(***************************************************************************)
EXTENDS Integers, FiniteSets, SequencesExt

CONSTANTS Addrs, Sources,
          TriedBuckets, NewBuckets,
          GetTriedBucket,       \* [Addrs -> TriedBuckets]
          GetNewBucket,         \* [Addrs -> [Sources -> NewBuckets]]
          TRIED_BUCKET_SIZE, NEW_BUCKET_SIZE, NEW_BUCKETS_PER_ADDRESS,
          TRIED_ENTRIES_INSPECT_ON_EVICT, GETADDR_MAX_PCT, GETADDR_MAX,
          MaxIds                \* bound on nIdCount

ASSUME AddrManAssumption ==
  /\ GetTriedBucket \in [Addrs -> TriedBuckets]
  /\ GetNewBucket \in [Addrs -> [Sources -> NewBuckets]]
  /\ \A n \in {TRIED_BUCKET_SIZE, NEW_BUCKET_SIZE, NEW_BUCKETS_PER_ADDRESS,
               TRIED_ENTRIES_INSPECT_ON_EVICT} : n \in Nat \ {0}
  /\ IsFiniteSet(NewBuckets) /\ MaxIds \in Nat
  /\ GETADDR_MAX_PCT \in 0..100 /\ GETADDR_MAX \in Nat

VARIABLE am             \* the object

AMInit == am = [nIdCount |-> 0,
                mapInfo |-> [i \in {} |-> 0], mapAddr |-> [a \in {} |-> 0], vRandom |-> <<>>,
                nTried |-> 0, vvTried |-> [b \in TriedBuckets |-> <<>>],
                nNew |-> 0, vvNew |-> [b \in NewBuckets |-> {}]]

-----------------------------------------------------------------------------
\* SwapRandom.
SwapRandomBug(t, p, q) == [t EXCEPT !.vRandom[p] = t.vRandom[q], !.vRandom[q] = t.vRandom[p]]
SwapRandom(t, p, q) ==
  LET i == t.vRandom[p]
      j == t.vRandom[q]
  IN IF p = q THEN t
     ELSE [t EXCEPT !.mapInfo[i].nRandomPos = q, !.mapInfo[j].nRandomPos = p,
                    !.vRandom[p] = j, !.vRandom[q] = i]

\* Create, for an address a heard of from s.
Create(t, a, s) ==
  LET i == t.nIdCount
      info == [addr |-> a, source |-> s, fInTried |-> FALSE, nRefCount |-> 0,
               nRandomPos |-> Len(t.vRandom) + 1]
  IN [t EXCEPT !.nIdCount = i + 1, !.nNew = @ + 1, !.vRandom = Append(@, i),
               !.mapInfo = [j \in DOMAIN @ \cup {i} |-> IF j = i THEN info ELSE @[j]],
               !.mapAddr = [c \in DOMAIN @ \cup {a} |-> IF c = a THEN i ELSE @[c]]]

\* The deletion of an entry that is in no bucket any more.
EraseInfo(t, i) ==
  LET u == SwapRandom(t, t.mapInfo[i].nRandomPos, Len(t.vRandom))
  IN [u EXCEPT !.vRandom = Front(@), !.nNew = @ - 1,
               !.mapAddr = Restrict(@, DOMAIN @ \ {t.mapInfo[i].addr}),
               !.mapInfo = Restrict(@, DOMAIN @ \ {i})]

\* ShrinkNew when its choice falls on entry i of bucket b.
ShrinkNew(t, b, i) ==
  LET u == IF t.mapInfo[i].nRefCount = 1 THEN EraseInfo(t, i)
           ELSE [t EXCEPT !.mapInfo[i].nRefCount = @ - 1]
  IN [u EXCEPT !.vvNew[b] = @ \ {i}]

\* The end of Add_: entry i goes into bucket b, unless it is there.
PlacedBug(t, i, b) ==
  LET u == [t EXCEPT !.mapInfo[i].nRefCount = @ + 1]
  IN {[v EXCEPT !.vvNew[b] = @ \cup {i}] :
        v \in IF Cardinality(u.vvNew[b]) = NEW_BUCKET_SIZE /\ i \notin u.vvNew[b]
              THEN {ShrinkNew(u, b, x) : x \in u.vvNew[b]} ELSE {u}}
Placed(t, i, b) ==
  IF i \in t.vvNew[b] THEN {t}
  ELSE LET u == [t EXCEPT !.mapInfo[i].nRefCount = @ + 1]
       IN {[v EXCEPT !.vvNew[b] = @ \cup {i}] :
             v \in IF Cardinality(u.vvNew[b]) = NEW_BUCKET_SIZE
                   THEN {ShrinkNew(u, b, x) : x \in u.vvNew[b]} ELSE {u}}

\* SelectTried: the order it leaves a bucket in when the random positions are
\* pick[1], pick[2] ..., each moved to the front.
Swapped(s, p, q) == [s EXCEPT ![p] = s[q], ![q] = s[p]]
Inspected(s) == Min({TRIED_ENTRIES_INSPECT_ON_EVICT, Len(s)})
Picks(s, n) == {f \in [1..n -> 1..Len(s)] : \A k \in 1..n : f[k] >= k}
Shuffled(s, pick, n) ==
  LET order[k \in 0..n] == IF k = 0 THEN s ELSE Swapped(order[k - 1], k, pick[k])
  IN  order[n]

\* MakeTried in a full bucket: entry i, in no new bucket any more, takes the place of
\* the entry at position p, which goes back to a new bucket.
EvictedTo(t, x, origin) ==
  LET b == GetNewBucket[t.mapInfo[x].addr][t.mapInfo[x].source]
  IN IF Cardinality(t.vvNew[b]) < NEW_BUCKET_SIZE THEN b ELSE origin
EvictBug(t, i, kb, s, p, origin) ==
  LET x == s[p]
      b == GetNewBucket[t.mapInfo[x].addr][t.mapInfo[x].source]
  IN [t EXCEPT !.mapInfo = [@ EXCEPT ![x].fInTried = FALSE, ![x].nRefCount = 1, ![i].fInTried = TRUE],
               !.vvNew[b] = @ \cup {x}, !.nNew = @ + 1,
               !.vvTried[kb] = [s EXCEPT ![p] = i]]
Evict(t, i, kb, s, p, origin) ==
  LET x == s[p]
  IN [t EXCEPT !.mapInfo = [@ EXCEPT ![x].fInTried = FALSE, ![x].nRefCount = 1, ![i].fInTried = TRUE],
               !.vvNew[EvictedTo(t, x, origin)] = @ \cup {x}, !.nNew = @ + 1,
               !.vvTried[kb] = [s EXCEPT ![p] = i]]

\* MakeTried: entry i leaves every new bucket, and goes to its tried bucket.
LeavesNew(t, i) ==
  [t EXCEPT !.vvNew = [b \in NewBuckets |-> @[b] \ {i}],
            !.mapInfo[i].nRefCount = @ - Cardinality({b \in NewBuckets : i \in t.vvNew[b]}),
            !.nNew = @ - 1]
JoinsTried(t, i, kb) == [t EXCEPT !.vvTried[kb] = Append(@, i), !.nTried = @ + 1, !.mapInfo[i].fInTried = TRUE]
MakeTriedBug(t, i, origin) ==
  LET u == [t EXCEPT !.vvNew[origin] = @ \ {i}, !.mapInfo[i].nRefCount = @ - 1, !.nNew = @ - 1]
      kb == GetTriedBucket[t.mapInfo[i].addr]
      s == t.vvTried[kb]
  IN IF Len(s) < TRIED_BUCKET_SIZE THEN {JoinsTried(u, i, kb)}
     ELSE LET n == Inspected(s)
          IN  {Evict(u, i, kb, Shuffled(s, f, n), f[k], origin) : f \in Picks(s, n), k \in 1..n}
MakeTried(t, i, origin) ==
  LET u == LeavesNew(t, i)
      kb == GetTriedBucket[t.mapInfo[i].addr]
      s == t.vvTried[kb]
  IN IF Len(s) < TRIED_BUCKET_SIZE THEN {JoinsTried(u, i, kb)}
     ELSE LET n == Inspected(s)
          IN  {Evict(u, i, kb, Shuffled(s, f, n), f[k], origin) : f \in Picks(s, n), k \in 1..n}

-----------------------------------------------------------------------------
Known(a) == a \in DOMAIN am.mapAddr

\* Add_ of a new address, and of a known one that is not tried and, by chance, is
\* to be found in one more bucket.
AddNew(a, s) == /\ ~Known(a) /\ am.nIdCount < MaxIds
                /\ am' \in Placed(Create(am, a, s), am.nIdCount, GetNewBucket[a][s])
AddAgain(a, s) == /\ Known(a)
                  /\ ~am.mapInfo[am.mapAddr[a]].fInTried
                  /\ am.mapInfo[am.mapAddr[a]].nRefCount # NEW_BUCKETS_PER_ADDRESS
                  /\ am' \in Placed(am, am.mapAddr[a], GetNewBucket[a][s])

\* Good_.
Good(a) == /\ Known(a)
           /\ LET i == am.mapAddr[a]
              IN /\ ~am.mapInfo[i].fInTried
                 /\ \E b \in NewBuckets : i \in am.vvNew[b] /\ am' \in MakeTried(am, i, b)

\* GetAddr_ shuffles the front of vRandom.
Reordered(t, pick, n) ==
  LET done[k \in 0..n] == IF k = 0 THEN t ELSE SwapRandom(done[k - 1], k, pick[k])
  IN  done[n]
GetAddr == LET n == Min({(GETADDR_MAX_PCT * Len(am.vRandom)) \div 100, GETADDR_MAX})
           IN \E f \in Picks(am.vRandom, n) : am' = Reordered(am, f, n)

-----------------------------------------------------------------------------
\* peers.dat: entries are written in the order of their ids, first the new ones,
\* then the tried ones, and numbered afresh when they are read.
Ascending(S) == [p \in 1..Cardinality(S) |-> CHOOSE i \in S : Cardinality({j \in S : j < i}) = p - 1]
NewIds(t) == {i \in DOMAIN t.mapInfo : t.mapInfo[i].nRefCount # 0}
TriedIds(t) == {i \in DOMAIN t.mapInfo : t.mapInfo[i].fInTried}
mapUnkIdsBug(t) == [i \in DOMAIN t.mapInfo |-> Cardinality({j \in DOMAIN t.mapInfo : j < i})]
mapUnkIds(t) == [i \in DOMAIN t.mapInfo |-> Cardinality({j \in NewIds(t) : j < i})]

\* The bucket sizes and the number of references are within the limits when they
\* are written (BucketsBounded, TablesExact), so reading drops nothing.
Reloaded(t) ==
  LET order == Ascending(NewIds(t)) \o Ascending(TriedIds(t))
      ids == 0..(Len(order) - 1)
      was == [i \in ids |-> order[i + 1]]
      old(i) == t.mapInfo[was[i]]
      buckets == [b \in NewBuckets |-> {mapUnkIds(t)[i] : i \in t.vvNew[b]}]
  IN [nIdCount |-> Len(order),
      vRandom |-> [p \in 1..Len(order) |-> p - 1],
      mapInfo |-> [i \in ids |-> [addr |-> old(i).addr, source |-> old(i).source, nRandomPos |-> i + 1,
                                  fInTried |-> i >= t.nNew,
                                  nRefCount |-> Cardinality({b \in NewBuckets : i \in buckets[b]})]],
      mapAddr |-> [a \in {old(i).addr : i \in ids} |-> CHOOSE i \in ids : old(i).addr = a],
      nNew |-> t.nNew, nTried |-> t.nTried, vvNew |-> buckets,
      vvTried |-> [b \in TriedBuckets |->
                     Ascending({i \in ids : i >= t.nNew /\ GetTriedBucket[old(i).addr] = b})]]

\* DumpAddresses, and CAddrDB::Read at the next start.
AMRestart == am' = Reloaded(am)

AMNext == \/ \E a \in Addrs, s \in Sources : AddNew(a, s) \/ AddAgain(a, s)
          \/ \E a \in Addrs : Good(a)
          \/ GetAddr \/ AMRestart

AMSpec == AMInit /\ [][AMNext]_am

-----------------------------------------------------------------------------
Ids == DOMAIN am.mapInfo
Info(n) == [addr : Addrs, source : Sources, fInTried : BOOLEAN,
            nRefCount : 0..Cardinality(NewBuckets), nRandomPos : 1..n]
Holding(i) == {b \in NewBuckets : i \in am.vvNew[b]}

\* Types; every id in a table, an index or a bucket is that of an entry.
AMTypeOK ==
  /\ am \in [nIdCount : 0..MaxIds, mapInfo : [Ids -> Info(Len(am.vRandom))],
             mapAddr : [DOMAIN am.mapAddr -> Ids], vRandom : Seq(Ids),
             nTried : Nat, vvTried : [TriedBuckets -> Seq(Ids)],
             nNew : Nat, vvNew : [NewBuckets -> SUBSET Ids]]
  /\ Ids \subseteq 0..(am.nIdCount - 1) /\ DOMAIN am.mapAddr \subseteq Addrs

\* The indexes invert each other: mapAddr finds the entry of every address and
\* nRandomPos its place in vRandom, which lists every entry once (Check_).
IndexesExact ==
  /\ AMTypeOK
  /\ \A a \in DOMAIN am.mapAddr : am.mapInfo[am.mapAddr[a]].addr = a
  /\ \A i \in Ids : LET info == am.mapInfo[i]
                    IN /\ info.addr \in DOMAIN am.mapAddr /\ am.mapAddr[info.addr] = i
                       /\ info.nRandomPos \in DOMAIN am.vRandom /\ am.vRandom[info.nRandomPos] = i
  /\ Len(am.vRandom) = Cardinality(Ids)

\* An entry is either tried, and in its one bucket once, or new, and in as many
\* buckets as it counts, at least one and not too many; nNew and nTried count both
\* kinds (Check_).
TablesExact ==
  /\ \A i \in Ids :
        IF am.mapInfo[i].fInTried
        THEN am.mapInfo[i].nRefCount = 0 /\ Holding(i) = {}
        ELSE am.mapInfo[i].nRefCount = Cardinality(Holding(i)) /\ am.mapInfo[i].nRefCount \in 1..NEW_BUCKETS_PER_ADDRESS
  /\ \A b \in TriedBuckets : ToSet(am.vvTried[b]) = {i \in TriedIds(am) : GetTriedBucket[am.mapInfo[i].addr] = b}
  /\ \A b \in TriedBuckets : IsInjective(am.vvTried[b])
  /\ am.nTried = Cardinality(TriedIds(am)) /\ am.nNew = Cardinality(NewIds(am))

\* No bucket is ever larger than its limit: "there is certainly place there".
BucketsBounded == /\ \A b \in NewBuckets : Cardinality(am.vvNew[b]) <= NEW_BUCKET_SIZE
                  /\ \A b \in TriedBuckets : Len(am.vvTried[b]) <= TRIED_BUCKET_SIZE

\* What is read back from peers.dat is the same table under other ids.
Table(t) == [new |-> [b \in NewBuckets |-> {t.mapInfo[i].addr : i \in t.vvNew[b]}],
             tried |-> {t.mapInfo[i].addr : i \in TriedIds(t)}]
ReloadFaithful == Table(Reloaded(am)) = Table(am)

\* "They are never deleted while in the tried table, only possibly evicted back to
\* the new table."
TriedNeverDeleted ==
  [][\A i \in TriedIds(am) : am.mapInfo[i].addr \in DOMAIN am'.mapAddr]_am
=============================================================================
