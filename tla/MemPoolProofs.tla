--------------------------- MODULE MemPoolProofs ----------------------------
(***************************************************************************)
(* mapTx and mapNextTx never drift apart; the pool holds nothing that the  *)
(* chain has made impossible, the wallet's transactions and what hangs on  *)
(* them apart; nothing leaves it without a cause; and every block template *)
(* made from it connects: for any set of transactions, any tree of blocks  *)
(* and any wallet.                                                         *)
(***************************************************************************)
EXTENDS MemPool, TLAPS, WellFoundedInduction, SequenceTheorems, FiniteSetTheorems

-----------------------------------------------------------------------------
(* Induction and sequences.                                                *)

\* Every non-empty set of natural numbers has a least element.
LEMMA Least ==
  ASSUME NEW T \in SUBSET Nat, T # {}
  PROVE  \E x \in T : \A y \in T : x <= y
<1> DEFINE R == OpToRel(<, Nat)
<1>1. IsWellFoundedOn(R, Nat)
  BY NatLessThanWellFounded
<1>2. \A x, y \in Nat : <<y, x>> \in R <=> y < x
  BY DEF OpToRel
<1> HIDE DEF R
<1>3. PICK x \in T : \A y \in T : ~(<<y, x>> \in R)
  BY <1>1, WFMin
<1>4. \A y \in T : ~(y < x)
  BY <1>2, <1>3
<1> QED
  BY <1>3, <1>4

\* A sequence that is not empty has a first element and a rest.
LEMMA HeadAndTail ==
  ASSUME NEW S, NEW s \in Seq(S), s # <<>>
  PROVE  /\ Len(s) \in Nat \ {0} /\ DOMAIN s = 1..Len(s) /\ Head(s) \in S
         /\ Tail(s) \in Seq(S) /\ Range(s) = {Head(s)} \cup Range(Tail(s))
         /\ Len(s) # 1 <=> Tail(s) # <<>>
<1>1. Len(s) \in Nat \ {0} /\ DOMAIN s = 1..Len(s)
  BY EmptySeq, LenProperties
<1>2. /\ Head(s) = s[1] /\ Tail(s) \in Seq(S) /\ Len(Tail(s)) = Len(s) - 1
      /\ \A i \in 1..Len(s) - 1 : Tail(s)[i] = s[i + 1]
  BY <1>1, HeadTailProperties
<1>3. DOMAIN Tail(s) = 1..Len(s) - 1
  BY <1>2, LenProperties
<1>4. ASSUME NEW x \in Range(s) PROVE x \in {Head(s)} \cup Range(Tail(s))
  <2>1. PICK i \in 1..Len(s) : x = s[i]
    BY <1>1 DEF Range
  <2>2. CASE i = 1
    BY <2>1, <2>2, <1>2
  <2>3. CASE i # 1
    <3>1. i - 1 \in DOMAIN Tail(s) /\ Tail(s)[i - 1] = x
      BY <2>1, <2>3, <1>1, <1>2, <1>3
    <3> QED BY <3>1 DEF Range
  <2> QED BY <2>2, <2>3
<1>5. ASSUME NEW x \in {Head(s)} \cup Range(Tail(s)) PROVE x \in Range(s)
  <2>1. CASE x = Head(s)
    BY <2>1, <1>1, <1>2 DEF Range
  <2>2. CASE x \in Range(Tail(s))
    <3>1. PICK i \in 1..Len(s) - 1 : x = Tail(s)[i]
      BY <2>2, <1>3 DEF Range
    <3>2. i + 1 \in DOMAIN s /\ s[i + 1] = x
      BY <3>1, <1>1, <1>2
    <3> QED BY <3>2 DEF Range
  <2> QED BY <1>5, <2>1, <2>2
<1>6. Head(s) \in S
  BY <1>1, <1>2
<1>7. Len(s) # 1 <=> Tail(s) # <<>>
  <2> DEFINE r == Tail(s)
  <2>1. r \in Seq(S) /\ Len(r) = Len(s) - 1
    BY <1>2
  <2> HIDE DEF r
  <2>2. Len(r) # 0 <=> r # <<>>
    BY <2>1, EmptySeq
  <2> QED BY <2>1, <2>2, <1>1 DEF r
<1> QED BY <1>1, <1>2, <1>4, <1>5, <1>6, <1>7

\* The elements of a sequence are its members.
LEMMA RangeType ==
  ASSUME NEW S, NEW s \in Seq(S)
  PROVE  Range(s) \subseteq S
BY LenProperties DEF Range

\* The elements of a concatenation.
LEMMA RangeConcat ==
  ASSUME NEW S, NEW s \in Seq(S), NEW t \in Seq(S)
  PROVE  s \o t \in Seq(S) /\ Range(s \o t) = Range(s) \cup Range(t)
<1> DEFINE m == Len(s)
           n == Len(t)
<1>1. m \in Nat /\ n \in Nat /\ DOMAIN s = 1..m /\ DOMAIN t = 1..n
  BY LenProperties
<1>2. /\ s \o t \in Seq(S) /\ Len(s \o t) = m + n
      /\ \A i \in 1..m + n : (s \o t)[i] = IF i <= m THEN s[i] ELSE t[i - m]
  BY ConcatProperties
<1>3. DOMAIN (s \o t) = 1..m + n
  BY <1>2, LenProperties
<1> HIDE DEF m, n
<1>4. ASSUME NEW x \in Range(s \o t) PROVE x \in Range(s) \cup Range(t)
  <2>1. PICK i \in 1..m + n : x = (s \o t)[i]
    BY <1>3 DEF Range
  <2>2. CASE i <= m
    BY <2>1, <2>2, <1>1, <1>2 DEF Range
  <2>3. CASE ~(i <= m)
    <3>1. i - m \in 1..n /\ x = t[i - m]
      BY <2>1, <2>3, <1>1, <1>2
    <3> QED BY <3>1, <1>1 DEF Range
  <2> QED BY <2>2, <2>3
<1>5. ASSUME NEW x \in Range(s) PROVE x \in Range(s \o t)
  <2>1. PICK i \in 1..m : x = s[i]
    BY <1>1 DEF Range
  <2>2. i \in 1..m + n /\ (s \o t)[i] = x
    BY <2>1, <1>1, <1>2
  <2> QED BY <2>2, <1>3 DEF Range
<1>6. ASSUME NEW x \in Range(t) PROVE x \in Range(s \o t)
  <2>1. PICK i \in 1..n : x = t[i]
    BY <1>1 DEF Range
  <2>2. m + i \in 1..m + n /\ (s \o t)[m + i] = x
    BY <2>1, <1>1, <1>2
  <2> QED BY <2>2, <1>3 DEF Range
<1> QED BY <1>2, <1>4, <1>5, <1>6

\* FlattenSeq appends one sequence after the other.
Flattens(f, seqs, n) == f = [i \in 1..n |-> IF i = 1 THEN seqs[i] ELSE f[i - 1] \o seqs[i]]
LEMMA FlattenDef ==
  ASSUME NEW seqs, Len(seqs) \in Nat \ {0}
  PROVE  \E f : Flattens(f, seqs, Len(seqs)) /\ FlattenSeq(seqs) = f[Len(seqs)]
<1> DEFINE Bad == {n \in Nat : ~\E f : Flattens(f, seqs, n)}
<1>1. Bad = {}
  <2> SUFFICES ASSUME Bad # {} PROVE FALSE
    OBVIOUS
  <2>1. PICK n \in Bad : \A y \in Bad : n <= y
    BY Least
  <2>2. n # 0
    <3>1. Flattens([i \in 1..0 |-> 0], seqs, 0)
      BY DEF Flattens
    <3> QED BY <3>1
  <2>3. PICK f : Flattens(f, seqs, n - 1)
    BY <2>1, <2>2
  <2>4. Flattens([i \in 1..n |-> IF i = n THEN IF n = 1 THEN seqs[n] ELSE f[n - 1] \o seqs[n] ELSE f[i]],
                 seqs, n)
    <3> DEFINE Cat(x, y) == x \o y
               g == [i \in 1..n |-> IF i = n THEN IF n = 1 THEN seqs[n] ELSE Cat(f[n - 1], seqs[n]) ELSE f[i]]
    <3>1. f = [i \in 1..n - 1 |-> IF i = 1 THEN seqs[i] ELSE Cat(f[i - 1], seqs[i])]
      BY <2>3 DEF Flattens
    <3>2. g = [i \in 1..n |-> IF i = 1 THEN seqs[i] ELSE Cat(g[i - 1], seqs[i])]
      <4> HIDE DEF Cat
      <4> QED BY <2>2, <3>1
    <3> QED BY <3>2 DEF Flattens
  <2> QED BY <2>4
<1>2. \E f : Flattens(f, seqs, Len(seqs))
  BY <1>1
<1> QED
  BY <1>2 DEF FlattenSeq, Flattens

\* The elements of FlattenSeq are those of the sequences it takes.
LEMMA FlattenRange ==
  ASSUME NEW S, NEW seqs \in Seq(Seq(S))
  PROVE  FlattenSeq(seqs) \in Seq(S) /\ Range(FlattenSeq(seqs)) = UNION {Range(seqs[i]) : i \in DOMAIN seqs}
<1>0. Len(seqs) \in Nat /\ DOMAIN seqs = 1..Len(seqs)
  BY LenProperties
<1>1. CASE Len(seqs) = 0
  <2>1. FlattenSeq(seqs) = <<>> /\ seqs = <<>>
    BY <1>1, EmptySeq DEF FlattenSeq
  <2> QED BY <2>1 DEF Range
<1>2. CASE Len(seqs) # 0
  <2>1. PICK f : Flattens(f, seqs, Len(seqs)) /\ FlattenSeq(seqs) = f[Len(seqs)]
    BY <1>0, <1>2, FlattenDef
  <2> DEFINE Good(n) == f[n] \in Seq(S) /\ Range(f[n]) = UNION {Range(seqs[i]) : i \in 1..n}
             Bad == {n \in 1..Len(seqs) : ~Good(n)}
  <2>2. ASSUME NEW n \in 1..Len(seqs)
        PROVE  f[n] = IF n = 1 THEN seqs[n] ELSE f[n - 1] \o seqs[n]
    BY <2>1 DEF Flattens
  <2>3. Bad = {}
    <3> SUFFICES ASSUME Bad # {} PROVE FALSE
      OBVIOUS
    <3> HIDE DEF Good
    <3>0. Bad \in SUBSET Nat
      OBVIOUS
    <3>1. PICK n \in Bad : \A y \in Bad : n <= y
      BY <3>0, Least
    <3>2. CASE n = 1
      <4>1. f[n] = seqs[1] /\ seqs[1] \in Seq(S)
        BY <3>2, <2>2, <1>0
      <4>2. 1..n = {1}
        BY <3>2
      <4> QED BY <4>1, <4>2 DEF Good
    <3>3. CASE n # 1
      <4>1. n - 1 \in 1..Len(seqs) /\ Good(n - 1)
        BY <3>1, <3>3, <1>0
      <4>2. f[n] = f[n - 1] \o seqs[n] /\ seqs[n] \in Seq(S)
        <5>1. n \in 1..Len(seqs) /\ seqs[n] \in Seq(S)
          BY <1>0
        <5> QED BY <5>1, <3>3, <2>2, Zenon
      <4>3. f[n] \in Seq(S) /\ Range(f[n]) = Range(f[n - 1]) \cup Range(seqs[n])
        BY <4>1, <4>2, RangeConcat DEF Good
      <4>4. 1..n = (1..n - 1) \cup {n}
        BY <1>0
      <4>5. Range(f[n]) = UNION {Range(seqs[i]) : i \in 1..n}
        <5> DEFINE A(i) == Range(seqs[i])
        <5>1. Range(f[n]) = (UNION {A(i) : i \in 1..n - 1}) \cup A(n)
          BY <4>1, <4>3 DEF Good
        <5> HIDE DEF A
        <5>2. Range(f[n]) = UNION {A(i) : i \in 1..n}
          BY <5>1, <4>4
        <5> QED BY <5>2 DEF A
      <4> QED BY <4>3, <4>5 DEF Good
    <3> QED BY <3>2, <3>3
  <2>4. Good(Len(seqs))
    <3> HIDE DEF Good
    <3> QED BY <2>3, <1>0, <1>2
  <2> QED BY <2>1, <2>4, <1>0
<1> QED BY <1>1, <1>2

-----------------------------------------------------------------------------
(* The pool's index.  The one fact about accept that the proof needs is    *)
(* its conflict test, that no input of the new transaction is in mapNextTx *)
(* yet.                                                                    *)


\* addUnchecked after accept's conflict test keeps the index exact.
LEMMA AddKeepsIndex ==
  ASSUME NextTxExact, NEW t, AcceptsUnchecked(t), addUnchecked(t)
  PROVE  NextTxExact'
<1>1. mapTx' = mapTx \cup {t}
  BY DEF addUnchecked
<1>2. DOMAIN mapNextTx' = DOMAIN mapNextTx \cup Inputs(t)
  BY DEF addUnchecked
<1>3. \A o \in DOMAIN mapNextTx' : mapNextTx'[o] = IF o \in Inputs(t) THEN t ELSE mapNextTx[o]
  BY DEF addUnchecked
<1>4. Inputs(t) \cap DOMAIN mapNextTx = {}
  BY DEF AcceptsUnchecked
<1>5. ASSUME NEW u \in mapTx', NEW in \in Inputs(u)
      PROVE  in \in DOMAIN mapNextTx' /\ mapNextTx'[in] = u
  <2>1. CASE u = t
    BY <2>1, <1>2, <1>3, <1>5
  <2>2. CASE u \in mapTx
    <3>1. in \in DOMAIN mapNextTx /\ mapNextTx[in] = u
      BY <2>2, <1>5 DEF NextTxExact
    <3>2. in \notin Inputs(t)
      BY <3>1, <1>4
    <3> QED BY <3>1, <3>2, <1>2, <1>3
  <2> QED BY <2>1, <2>2, <1>1
<1>6. ASSUME NEW o \in DOMAIN mapNextTx'
      PROVE  mapNextTx'[o] \in mapTx' /\ o \in Inputs(mapNextTx'[o])
  <2>1. CASE o \in Inputs(t)
    BY <2>1, <1>1, <1>3, <1>6
  <2>2. CASE o \notin Inputs(t)
    <3>1. o \in DOMAIN mapNextTx /\ mapNextTx'[o] = mapNextTx[o]
      BY <2>2, <1>2, <1>3, <1>6
    <3> QED BY <3>1, <1>1 DEF NextTxExact
  <2> QED BY <2>1, <2>2
<1> QED BY <1>5, <1>6 DEF NextTxExact, Inputs

\* Taking a set of pool transactions out, and their inputs with them, does too.
LEMMA RemoveKeepsIndex ==
  ASSUME NextTxExact, NEW S, S \subseteq mapTx, mapTx' = mapTx \ S, mapNextTx' = Unindex(S)
  PROVE  NextTxExact'
<1>1. DOMAIN mapNextTx' = DOMAIN mapNextTx \ UNION {Inputs(t) : t \in S}
  BY DEF Unindex
<1>2. \A o \in DOMAIN mapNextTx' : mapNextTx'[o] = mapNextTx[o]
  BY DEF Unindex
<1>3. ASSUME NEW u \in mapTx', NEW in \in Inputs(u)
      PROVE  in \in DOMAIN mapNextTx' /\ mapNextTx'[in] = u
  <2>1. in \in DOMAIN mapNextTx /\ mapNextTx[in] = u
    BY <1>3 DEF NextTxExact
  <2>2. ASSUME NEW t \in S, in \in Inputs(t) PROVE FALSE
    BY <2>1, <2>2, <1>3 DEF NextTxExact
  <2> QED BY <2>1, <2>2, <1>1, <1>2
<1>4. ASSUME NEW o \in DOMAIN mapNextTx'
      PROVE  mapNextTx'[o] \in mapTx' /\ o \in Inputs(mapNextTx'[o])
  <2>1. /\ o \in DOMAIN mapNextTx /\ mapNextTx'[o] = mapNextTx[o]
        /\ \A t \in S : o \notin Inputs(t)
    BY <1>4, <1>1, <1>2
  <2>2. mapNextTx[o] \in mapTx /\ o \in Inputs(mapNextTx[o])
    BY <2>1 DEF NextTxExact
  <2> QED BY <2>1, <2>2
<1> QED BY <1>3, <1>4 DEF NextTxExact, Inputs

\* One transaction of a loop: taken, or the pool stays as it is.
LEMMA AcceptNextKeepsIndex ==
  ASSUME NextTxExact, NEW fTaken, AcceptNext(fTaken), fTaken => AcceptsUnchecked(Head(vAccept))
  PROVE  NextTxExact'
<1>1. CASE fTaken
  BY <1>1, AddKeepsIndex DEF AcceptNext
<1>2. CASE ~fTaken
  BY <1>2 DEF AcceptNext, NextTxExact, Inputs
<1> QED BY <1>1, <1>2

\* The pool's index of spent outpoints, mapNextTx, is exact in every reachable
\* state, so that accept's test for a conflict with the pool misses none and
\* removeConflicts finds every pool transaction a block replaces.
THEOREM IndexExact == Spec => []NextTxExact
<1>1. Init => NextTxExact
  BY DEF Init, NextTxExact
<1>2. NextTxExact /\ [Next]_vars => NextTxExact'
  <2> SUFFICES ASSUME NextTxExact, [Next]_vars PROVE NextTxExact'
    OBVIOUS
  <2>1. ASSUME NEW t \in TxIds, AcceptToMemoryPool(t) PROVE NextTxExact'
    BY <2>1, AddKeepsIndex DEF AcceptToMemoryPool, Accepts
  <2>2. ASSUME NEW b \in Blocks, NEW fFlush \in BOOLEAN, SetBestChain(b, fFlush) PROVE NextTxExact'
    BY <2>2 DEF SetBestChain, NextTxExact, Inputs
  <2>3. ASSUME Resurrect PROVE NextTxExact'
    BY <2>3, AcceptNextKeepsIndex DEF Resurrect, Accepts
  <2>4. ASSUME Delete PROVE NextTxExact'
    <3> DEFINE S == Removed(Head(vDelete)) \cup Conflicts(Head(vDelete))
    <3>1. S \subseteq mapTx
      BY DEF Removed, Conflicts, WithDescendants
    <3>2. mapTx' = mapTx \ S /\ mapNextTx' = Unindex(S)
      BY <2>4 DEF Delete
    <3> HIDE DEF S
    <3> QED BY <3>1, <3>2, RemoveKeepsIndex
  <2>5. ASSUME NEW w \in WalletTxs, Reaccept(w) PROVE NextTxExact'
    BY <2>5 DEF Reaccept, NextTxExact, Inputs
  <2>6. ASSUME ReacceptNext PROVE NextTxExact'
    <3> DEFINE t == Head(vAccept)
               tried == Len(vAccept) = 1 \/ (~Tx[t].coinbase /\ t \notin mapTx /\ HaveCoins(t))
               fTaken == tried /\ AcceptsUnchecked(t)
    <3>1. AcceptNext(fTaken)
      BY <2>6 DEF ReacceptNext
    <3>2. fTaken => AcceptsUnchecked(Head(vAccept))
      OBVIOUS
    <3> HIDE DEF fTaken
    <3> QED BY <3>1, <3>2, AcceptNextKeepsIndex
  <2>7. ASSUME Restart PROVE NextTxExact'
    BY <2>7 DEF Restart, NextTxExact
  <2>8. ASSUME UNCHANGED vars PROVE NextTxExact'
    BY <2>8 DEF vars, NextTxExact, Inputs
  <2> QED BY <2>1, <2>2, <2>3, <2>4, <2>5, <2>6, <2>7, <2>8 DEF Next
<1> QED BY <1>1, <1>2, PTL DEF Spec


-----------------------------------------------------------------------------
(* The tree of blocks.                                                     *)

\* A chain is a sequence of blocks from the genesis block to its tip.
LEMMA PathType ==
  ASSUME NEW b \in Blocks
  PROVE  /\ Path[b] \in Seq(Blocks) /\ Len(Path[b]) \in Nat \ {0} /\ DOMAIN Path[b] = 1..Len(Path[b])
         /\ \A i \in DOMAIN Path[b] : Path[b][i] \in Blocks
         /\ b \in Range(Path[b]) /\ Path[b][1] = Genesis /\ Path[b][Len(Path[b])] = b
<1>1. Path[b] \in Seq(Blocks) /\ Path[b] # <<>>
  BY PathAssumption
<1>2. Len(Path[b]) \in Nat \ {0} /\ DOMAIN Path[b] = 1..Len(Path[b])
  BY <1>1, HeadAndTail
<1>3. Path[b][1] = Genesis /\ Path[b][Len(Path[b])] = b
  BY PathAssumption
<1>4. \A i \in DOMAIN Path[b] : Path[b][i] \in Blocks
  BY <1>1, <1>2
<1>5. b \in Range(Path[b])
  BY <1>2, <1>3 DEF Range
<1> QED BY <1>1, <1>2, <1>3, <1>4, <1>5

\* Two chains that share a block share everything below it.
LEMMA SharedBelow ==
  ASSUME NEW b \in Blocks, NEW c \in Blocks, NEW i \in DOMAIN Path[b], Path[b][i] \in Range(Path[c]),
         NEW k \in 1..i
  PROVE  k \in DOMAIN Path[c] /\ Path[c][k] = Path[b][k]
<1>1. PICK j \in DOMAIN Path[c] : Path[c][j] = Path[b][i]
  BY DEF Range
<1> DEFINE p == SubSeq(Path[b], 1, i)
           q == SubSeq(Path[c], 1, j)
<1>2. p = q
  <2>1. Path[Path[b][i]] = p
    BY PathAssumption
  <2>2. Path[Path[c][j]] = q
    BY PathAssumption
  <2> QED BY <1>1, <2>1, <2>2
<1>3. i \in 1..Len(Path[b]) /\ j \in 1..Len(Path[c]) /\ Len(Path[b]) \in Nat /\ Len(Path[c]) \in Nat
  BY PathType
<1>4. Len(p) = i /\ p[k] = Path[b][k]
  BY <1>3, PathType, SubSeqProperties
<1>5. Len(q) = j
  BY <1>3, PathType, SubSeqProperties
<1> HIDE DEF p, q
<1>6. i = j
  BY <1>2, <1>4, <1>5
<1>7. q[k] = Path[c][k]
  BY <1>3, <1>6, PathType, SubSeqProperties DEF q
<1> QED BY <1>2, <1>3, <1>4, <1>6, <1>7, PathType

\* The last block that two chains share.
LEMMA ForkIs ==
  ASSUME NEW b \in Blocks, NEW c \in Blocks
  PROVE  /\ Fork(b, c) \in DOMAIN Path[b] /\ Path[b][Fork(b, c)] \in Range(Path[c])
         /\ \A m \in DOMAIN Path[b] : m > Fork(b, c) => Path[b][m] \notin Range(Path[c])
<1> DEFINE Both == {n \in DOMAIN Path[b] : Path[b][n] \in Range(Path[c])}
           L == Len(Path[b])
           Back == {d \in Nat : L - d \in Both}
<1>1. L \in Nat \ {0} /\ DOMAIN Path[b] = 1..L
  BY PathType
<1>2. 1 \in Both
  <2>1. Genesis \in Range(Path[c])
    BY PathType DEF Range
  <2> QED BY <2>1, <1>1, PathType
<1>3. \A n \in Both : n \in 1..L /\ Path[b][n] \in Range(Path[c])
  BY <1>1
<1>4. \A n \in DOMAIN Path[b] : Path[b][n] \in Range(Path[c]) => n \in Both
  OBVIOUS
<1> HIDE DEF Both, L
<1>5. L - 1 \in Back
  <2>1. L - 1 \in Nat /\ L - (L - 1) = 1
    BY <1>1
  <2> QED BY <2>1, <1>2
<1>6. PICK d \in Back : \A e \in Back : d <= e
  BY <1>5, Least
<1> DEFINE n == L - d
<1>7. n \in Both
  BY <1>6
<1>8. ASSUME NEW m \in DOMAIN Path[b], m > n PROVE Path[b][m] \notin Range(Path[c])
  <2> SUFFICES ASSUME m \in Both PROVE FALSE
    BY <1>4, <1>8
  <2>1. m \in 1..L /\ L - (L - m) = m /\ L - m \in Nat
    BY <1>1
  <2>2. L - m \in Back
    BY <2>1
  <2> QED BY <2>1, <2>2, <1>1, <1>6, <1>8
<1> HIDE DEF n
<1>9. n \in DOMAIN Path[b] /\ Path[b][n] \in Range(Path[c])
  BY <1>1, <1>3, <1>7
<1>10. \E x \in DOMAIN Path[b] : /\ Path[b][x] \in Range(Path[c])
                                 /\ \A m \in DOMAIN Path[b] : m > x => Path[b][m] \notin Range(Path[c])
  BY <1>8, <1>9
<1> QED BY <1>10 DEF Fork

\* The blocks above it.
LEMMA AboveIs ==
  ASSUME NEW b \in Blocks, NEW c \in Blocks
  PROVE  /\ Above(b, c) \in Seq(Blocks)
         /\ Range(Above(b, c)) = {Path[b][m] : m \in Fork(b, c) + 1..Len(Path[b])}
<1> DEFINE n == Fork(b, c)
           L == Len(Path[b])
<1>1. L \in Nat /\ n \in 1..L /\ Path[b] \in Seq(Blocks)
  BY PathType, ForkIs
<1> HIDE DEF n
<1>2. /\ SubSeq(Path[b], n + 1, L) \in Seq(Blocks)
      /\ Len(SubSeq(Path[b], n + 1, L)) = L - n
      /\ \A i \in 1..L - n : SubSeq(Path[b], n + 1, L)[i] = Path[b][n + i]
  <2>1. n + 1 \in Nat /\ n + 1 \in 1..L + 1
    BY <1>1
  <2> QED BY <1>1, <2>1, SubSeqProperties
<1> DEFINE r == SubSeq(Path[b], n + 1, L)
<1>3. DOMAIN r = 1..L - n
  BY <1>2, LenProperties
<1>4. \A i \in 1..L - n : r[i] = Path[b][n + i]
  BY <1>2
<1> HIDE DEF r, L
<1>5. ASSUME NEW m \in n + 1..L PROVE Path[b][m] \in Range(r)
  <2>1. m - n \in 1..L - n /\ n + (m - n) = m
    BY <1>1
  <2> QED BY <2>1, <1>3, <1>4 DEF Range
<1>6. ASSUME NEW x \in Range(r) PROVE \E m \in n + 1..L : x = Path[b][m]
  <2>1. PICK i \in 1..L - n : x = r[i]
    BY <1>3 DEF Range
  <2>2. n + i \in n + 1..L
    BY <1>1
  <2> QED BY <2>1, <2>2, <1>4
<1>7. Range(r) = {Path[b][m] : m \in n + 1..L}
  BY <1>5, <1>6
<1> QED BY <1>2, <1>7 DEF r, n, L, Above

-----------------------------------------------------------------------------
(* The loops of SetBestChain.                                              *)

\* The transactions of the blocks above the fork.
TxsAbove(b, c) == UNION {Range(Block[x]) : x \in Range(Above(b, c))}

\* vDelete is those of the new branch, and not empty.
LEMMA DeleteList ==
  ASSUME NEW b \in Blocks, NEW c \in Blocks
  PROVE  LET new == Above(b, c)
             del == FlattenSeq([i \in DOMAIN new |-> Block[new[i]]])
         IN  /\ del \in Seq(TxIds) /\ Range(del) = TxsAbove(b, c)
             /\ b \notin Range(Path[c]) => del # <<>>
<1> DEFINE new == Above(b, c)
           seqs == [i \in DOMAIN new |-> Block[new[i]]]
           del == FlattenSeq(seqs)
<1>1. new \in Seq(Blocks)
  BY AboveIs
<1>2. Len(new) \in Nat /\ DOMAIN new = 1..Len(new)
  BY <1>1, LenProperties
<1> HIDE DEF new
<1>3. \A i \in DOMAIN new : new[i] \in Blocks /\ seqs[i] = Block[new[i]] /\ Block[new[i]] \in Seq(TxIds)
  BY <1>1, <1>2, PoolAssumption
<1>4. seqs \in Seq(Seq(TxIds)) /\ DOMAIN seqs = DOMAIN new
  BY <1>2, <1>3, IsASeq
<1> HIDE DEF seqs
<1>5. del \in Seq(TxIds) /\ Range(del) = UNION {Range(seqs[i]) : i \in DOMAIN seqs}
  BY <1>4, FlattenRange
<1> HIDE DEF del
<1>6. Range(del) = UNION {Range(Block[x]) : x \in Range(new)}
  <2> DEFINE A(x) == Range(Block[x])
  <2>1. Range(del) = UNION {A(new[i]) : i \in DOMAIN new}
    <3>1. \A i \in DOMAIN new : Range(seqs[i]) = A(new[i])
      BY <1>3
    <3> QED BY <3>1, <1>4, <1>5
  <2>2. Range(new) = {new[i] : i \in DOMAIN new}
    BY DEF Range
  <2> HIDE DEF A
  <2>3. Range(del) = UNION {A(x) : x \in Range(new)}
    BY <2>1, <2>2
  <2> QED BY <2>3 DEF A
<1>7. ASSUME b \notin Range(Path[c]) PROVE del # <<>>
  <2>1. Fork(b, c) \in 1..Len(Path[b]) /\ Len(Path[b]) \in Nat /\ Path[b][Len(Path[b])] = b
    BY PathType, ForkIs
  <2>2. Fork(b, c) # Len(Path[b])
    BY <1>7, <2>1, ForkIs
  <2>3. Len(Path[b]) \in Fork(b, c) + 1..Len(Path[b])
    BY <2>1, <2>2
  <2>4. b \in Range(new)
    BY <2>1, <2>3, AboveIs DEF new
  <2>5. Block[b] \in Seq(TxIds) /\ Block[b] # <<>>
    BY PoolAssumption
  <2>6. Head(Block[b]) \in Range(Block[b])
    BY <2>5, HeadAndTail
  <2>7. Head(Block[b]) \in Range(del)
    BY <2>4, <2>6, <1>6
  <2>8. Range(<<>>) = {}
    BY DEF Range
  <2> QED BY <2>7, <2>8
<1> QED BY <1>5, <1>6, <1>7 DEF del, seqs, new, TxsAbove

\* vResurrect is a sequence of transactions.
LEMMA ResurrectList ==
  ASSUME NEW b \in Blocks, tip \in Blocks
  PROVE  vResurrect(b) \in Seq(TxIds)
<1> DEFINE old == Reverse(Above(tip, b))
           kept(x, t) == IF ~Tx[t].coinbase /\ Height[x] > nTotalBlocksEstimate THEN <<t>> ELSE <<>>
           inner(i) == [j \in DOMAIN Block[old[i]] |-> kept(old[i], Block[old[i]][j])]
           outer == [i \in DOMAIN old |-> FlattenSeq(inner(i))]
<1>1. Above(tip, b) \in Seq(Blocks)
  BY AboveIs
<1>2. old \in Seq(Blocks)
  <2> DEFINE s == Above(tip, b)
  <2>1. s \in Seq(Blocks) /\ Len(s) \in Nat /\ DOMAIN s = 1..Len(s)
    BY <1>1, LenProperties
  <2> HIDE DEF s
  <2>2. [i \in 1..Len(s) |-> s[(Len(s) - i) + 1]] \in Seq(Blocks)
    <3>1. \A i \in 1..Len(s) : s[(Len(s) - i) + 1] \in Blocks
      BY <2>1
    <3> QED BY <2>1, <3>1, IsASeq
  <2> QED BY <2>2 DEF s, Reverse
<1>3. Len(old) \in Nat /\ DOMAIN old = 1..Len(old)
  BY <1>2, LenProperties
<1> HIDE DEF old
<1>4. ASSUME NEW i \in DOMAIN old PROVE FlattenSeq(inner(i)) \in Seq(TxIds)
  <2> DEFINE s == Block[old[i]]
  <2>1. s \in Seq(TxIds)
    BY <1>2, <1>3, PoolAssumption
  <2>2. Len(s) \in Nat /\ DOMAIN s = 1..Len(s) /\ \A j \in DOMAIN s : s[j] \in TxIds
    BY <2>1, LenProperties
  <2> HIDE DEF s
  <2>3. \A j \in DOMAIN s : kept(old[i], s[j]) \in Seq(TxIds)
    <3>1. \A t \in TxIds : <<t>> \in Seq(TxIds)
      OBVIOUS
    <3>2. <<>> \in Seq(TxIds)
      BY EmptySeq
    <3> QED BY <2>2, <3>1, <3>2
  <2> HIDE DEF kept
  <2>4. [j \in DOMAIN s |-> kept(old[i], s[j])] \in Seq(Seq(TxIds))
    BY <2>2, <2>3, IsASeq
  <2>5. FlattenSeq([j \in DOMAIN s |-> kept(old[i], s[j])]) \in Seq(TxIds)
    BY <2>4, FlattenRange
  <2> QED BY <2>5 DEF s
<1> HIDE DEF inner
<1>5. outer \in Seq(Seq(TxIds))
  BY <1>3, <1>4, IsASeq
<1> HIDE DEF outer
<1>6. FlattenSeq(outer) \in Seq(TxIds)
  BY <1>5, FlattenRange
<1> QED BY <1>6 DEF vResurrect, outer, inner, old


\* Where a transaction of the chain is.
LEMMA InChainAt ==
  ASSUME NEW b, NEW t
  PROVE  t \in InChain(b) <=> \E i \in DOMAIN Path[b] : \E j \in DOMAIN Block[Path[b][i]] :
                                 t = Block[Path[b][i]][j]
BY DEF InChain, Range

\* It is there only once.
LEMMA InChainOnce ==
  ASSUME NEW b \in Blocks, NEW i \in DOMAIN Path[b], NEW k \in DOMAIN Path[b],
         NEW j \in DOMAIN Block[Path[b][i]], NEW l \in DOMAIN Block[Path[b][k]],
         Block[Path[b][i]][j] = Block[Path[b][k]][l]
  PROVE  i = k /\ j = l
<1>1. \A x, y \in DOMAIN Path[b] : \A z \in DOMAIN Block[Path[b][x]] : \A w \in DOMAIN Block[Path[b][y]] :
        Block[Path[b][x]][z] = Block[Path[b][y]][w] => x = y /\ z = w
  BY ChainAssumption
<1> QED BY <1>1

\* A new branch is part of the new chain; the rest of that chain is in the old one.
LEMMA BranchInChain ==
  ASSUME NEW b \in Blocks, NEW c \in Blocks
  PROVE  TxsAbove(b, c) \subseteq InChain(b) /\ InChain(b) \ TxsAbove(b, c) \subseteq InChain(c)
<1> DEFINE n == Fork(b, c)
           L == Len(Path[b])
<1>1. L \in Nat /\ n \in 1..L /\ DOMAIN Path[b] = 1..L
  BY PathType, ForkIs
<1>2. Range(Above(b, c)) = {Path[b][m] : m \in n + 1..L}
  BY AboveIs
<1>3. Path[b][n] \in Range(Path[c])
  BY ForkIs
<1> HIDE DEF n, L
<1>4. \A m \in n + 1..L : m \in DOMAIN Path[b]
  BY <1>1
<1>5. Range(Above(b, c)) \subseteq Range(Path[b])
  BY <1>2, <1>4 DEF Range
<1>6. ASSUME NEW i \in DOMAIN Path[b], Path[b][i] \notin Range(Above(b, c)) PROVE Path[b][i] \in Range(Path[c])
  <2>1. i \in 1..n
    BY <1>1, <1>2, <1>6
  <2>2. i \in DOMAIN Path[c] /\ Path[c][i] = Path[b][i]
    BY <2>1, <1>1, <1>3, SharedBelow
  <2> QED BY <2>2 DEF Range
<1>7. \A x \in Range(Path[b]) : x \notin Range(Above(b, c)) => x \in Range(Path[c])
  BY <1>6 DEF Range
<1> QED BY <1>5, <1>7 DEF TxsAbove, InChain

\* What the part below the fork spends is below the fork.
LEMMA BelowSettled ==
  ASSUME NEW b \in Blocks, NEW c \in Blocks, NEW u \in InChain(b) \ TxsAbove(b, c), NEW o \in Inputs(u)
  PROVE  o.hash \notin TxsAbove(b, c)
<1> DEFINE n == Fork(b, c)
           L == Len(Path[b])
<1>1. L \in Nat /\ n \in 1..L /\ DOMAIN Path[b] = 1..L
  BY PathType, ForkIs
<1>2. Range(Above(b, c)) = {Path[b][m] : m \in n + 1..L}
  BY AboveIs
<1> HIDE DEF n, L
<1>3. PICK i \in DOMAIN Path[b] : \E j \in DOMAIN Block[Path[b][i]] : u = Block[Path[b][i]][j]
  BY InChainAt
<1>4. PICK j \in DOMAIN Block[Path[b][i]] : u = Block[Path[b][i]][j]
  BY <1>3
<1>5. i \in 1..n
  <2>1. Path[b][i] \notin Range(Above(b, c))
    BY <1>4 DEF TxsAbove, Range
  <2> QED BY <2>1, <1>1, <1>2
<1>6. PICK k \in 1..i : \E l \in DOMAIN Block[Path[b][k]] : Block[Path[b][k]][l] = o.hash
  BY <1>4, ChainAssumption
<1>7. PICK l \in DOMAIN Block[Path[b][k]] : Block[Path[b][k]][l] = o.hash
  BY <1>6
<1>8. k \in DOMAIN Path[b]
  BY <1>1, <1>5
<1> SUFFICES ASSUME o.hash \in TxsAbove(b, c) PROVE FALSE
  OBVIOUS
<1>9. PICK x \in Range(Above(b, c)) : o.hash \in Range(Block[x])
  BY DEF TxsAbove
<1>10. PICK m \in n + 1..L : x = Path[b][m]
  BY <1>2, <1>9
<1>11. PICK r \in DOMAIN Block[Path[b][m]] : Block[Path[b][m]][r] = o.hash
  BY <1>9, <1>10 DEF Range
<1>12. m \in DOMAIN Path[b]
  BY <1>1
<1>13. k = m
  <2>1. Block[Path[b][k]][l] = Block[Path[b][m]][r]
    BY <1>7, <1>11
  <2> QED BY <2>1, <1>7, <1>8, <1>11, <1>12, InChainOnce
<1> QED BY <1>13, <1>1, <1>5

-----------------------------------------------------------------------------
(* The descendants that a recursive removal takes along.                   *)

\* They are closed under spending, and every closed set has them.
LEMMA DescendantsClosed ==
  ASSUME NEW S
  PROVE  /\ WithDescendants(S) \subseteq mapTx /\ S \cap mapTx \subseteq WithDescendants(S)
         /\ Spenders(WithDescendants(S)) \subseteq WithDescendants(S)
<1>1. WithDescendants(S) \subseteq mapTx /\ S \cap mapTx \subseteq WithDescendants(S)
  BY DEF WithDescendants
<1>2. ASSUME NEW t \in Spenders(WithDescendants(S)) PROVE t \in WithDescendants(S)
  <2>1. PICK in \in Inputs(t) : t \in mapTx /\ in.hash \in WithDescendants(S)
    BY <1>2 DEF Spenders
  <2>2. ASSUME NEW T \in SUBSET mapTx, S \cap mapTx \subseteq T /\ Spenders(T) \subseteq T PROVE t \in T
    <3>1. in.hash \in T
      BY <2>1, <2>2 DEF WithDescendants
    <3>2. t \in Spenders(T)
      BY <2>1, <3>1 DEF Spenders
    <3> QED BY <2>2, <3>2
  <2> QED BY <2>1, <2>2 DEF WithDescendants
<1> QED BY <1>1, <1>2

LEMMA DescendantsLeast ==
  ASSUME NEW S, NEW T \in SUBSET mapTx, S \cap mapTx \subseteq T, Spenders(T) \subseteq T
  PROVE  WithDescendants(S) \subseteq T
BY DEF WithDescendants

\* A descendant of a set is a descendant of one of its members.
LEMMA DescendantsOfOne ==
  ASSUME NEW S, NEW t \in WithDescendants(S)
  PROVE  \E c \in S \cap mapTx : t \in WithDescendants({c})
<1> DEFINE T == UNION {WithDescendants({c}) : c \in S \cap mapTx}
<1>1. T \in SUBSET mapTx
  BY DescendantsClosed
<1>2. S \cap mapTx \subseteq T
  <2>1. \A c \in S \cap mapTx : c \in WithDescendants({c})
    BY DescendantsClosed
  <2> QED BY <2>1
<1>3. ASSUME NEW x \in Spenders(T) PROVE x \in T
  <2>1. PICK in \in Inputs(x) : x \in mapTx /\ in.hash \in T
    BY <1>3 DEF Spenders
  <2>2. PICK c \in S \cap mapTx : in.hash \in WithDescendants({c})
    BY <2>1
  <2>3. x \in Spenders(WithDescendants({c}))
    BY <2>1, <2>2 DEF Spenders
  <2>4. x \in WithDescendants({c})
    BY <2>3, DescendantsClosed
  <2> QED BY <2>2, <2>4
<1> HIDE DEF T
<1>4. t \in T
  BY <1>1, <1>2, <1>3, DescendantsLeast
<1> QED BY <1>4 DEF T


-----------------------------------------------------------------------------
(* The inductive invariant.                                                *)

\* While vDelete is still whole, the chain below it spends nothing from it.
Settled == \A u \in InChain(tip) \ Range(vDelete) : \A o \in Inputs(u) : o.hash \notin Range(vDelete)

\* What the loops have left to do.
Loops == /\ pc \in {"idle", "reaccept"} => vDelete = <<>>
         /\ pc = "resurrect" => vDelete # <<>> /\ (vAccept # <<>> => Settled)
         /\ pc = "reaccept" => vAccept # <<>> /\ Range(vAccept) \subseteq Unchecked
         /\ Range(vDelete) \subseteq InChain(tip)

\* A transaction whose inputs were checked conflicts with the part of the chain that
\* is dealt with only where it spends from a transaction of the pool that stays.
Checked == \A t \in mapTx \ Unchecked : \A u \in InChain(tip) \ Range(vDelete) :
              \A o \in Inputs(t) \cap Inputs(u) : o.hash \in mapTx \ Range(vDelete)

\* Every transaction of the pool spends something.
SpendSomething == \A t \in mapTx : Inputs(t) # {}

PoolInv == TypeOK /\ Loops /\ Checked /\ SpendSomething

\* The part of it that is about the pool alone.
PoolType == /\ mapTx \in SUBSET TxIds /\ mapNextTx = [o \in DOMAIN mapNextTx |-> mapNextTx[o]]
            /\ \A t \in mapTx : ~Tx[t].coinbase
            /\ SpendSomething

\* Inputs name transactions.
LEMMA InputsType ==
  ASSUME NEW t \in TxIds, NEW o \in Inputs(t)
  PROVE  o.hash \in TxIds
<1>1. Tx[t] \in Transaction
  BY PoolAssumption
<1>2. Tx[t].vin \in Seq([hash : TxIds, n : Nat])
  BY <1>1 DEF Transaction
<1>3. o \in Range(Tx[t].vin)
  BY DEF Inputs
<1>4. o \in [hash : TxIds, n : Nat]
  BY <1>2, <1>3, RangeType
<1> QED BY <1>4

\* The pool's view has an output that the chain has spent only from the pool.
LEMMA AcceptedFromPool ==
  ASSUME tip \in Blocks, NEW t \in TxIds, Accepts(t), NEW u \in InChain(tip), NEW o \in Inputs(t) \cap Inputs(u)
  PROVE  o.hash \in mapTx
<1>1. ~Tx[t].coinbase
  BY DEF Accepts, AcceptsUnchecked, Loose
<1>2. HaveInputs(ViewMemPool, Tx[t])
  BY <1>1 DEF Accepts, CheckInputs
<1>3. Tx[t] \in Transaction
  BY PoolAssumption
<1>4. PICK i \in DOMAIN Tx[t].vin : o = Tx[t].vin[i]
  BY <1>1 DEF Inputs, Range
<1>5. o.hash \in TxIds
  BY InputsType
<1>6. IsAvailable(ViewMemPool[o.hash], o.n)
  BY <1>1, <1>2, <1>4 DEF HaveInputs
<1>7. ~IsAvailable(CoinsAt[tip][o.hash], o.n)
  <2>1. o \in SpentInChain(tip)
    BY DEF SpentInChain
  <2> QED BY <2>1, ChainAssumption
<1> QED BY <1>5, <1>6, <1>7 DEF ViewMemPool, coins

\* addUnchecked, of a transaction of the wallet or one that was checked.
LEMMA AddKeepsPool ==
  ASSUME PoolType, Checked, NEW t \in TxIds, AcceptsUnchecked(t), addUnchecked(t),
         tip' = tip, vDelete' = vDelete,
         t \in Unchecked \/ \A u \in InChain(tip) \ Range(vDelete) :
                               \A o \in Inputs(t) \cap Inputs(u) : o.hash \in mapTx \ Range(vDelete)
  PROVE  PoolType' /\ Checked'
<1>1. mapTx' = mapTx \cup {t}
  BY DEF addUnchecked
<1>2. ~Tx[t].coinbase /\ Tx[t].vin # <<>>
  BY DEF AcceptsUnchecked, Loose, CheckTransaction
<1>3. Inputs(t) # {}
  <2>1. Tx[t].vin \in Seq([hash : TxIds, n : Nat])
    BY PoolAssumption DEF Transaction
  <2>2. Head(Tx[t].vin) \in Range(Tx[t].vin)
    BY <2>1, <1>2, HeadAndTail
  <2> QED BY <2>2, <1>2 DEF Inputs
<1>4. mapNextTx' = [o \in DOMAIN mapNextTx' |-> mapNextTx'[o]]
  BY DEF addUnchecked
<1>5. PoolType'
  BY <1>1, <1>2, <1>3, <1>4 DEF PoolType, SpendSomething, Inputs
<1>6. Checked'
  BY <1>1 DEF Checked, Unchecked, InChain, Inputs
<1> QED BY <1>5, <1>6

LEMMA InitPool == Init => PoolInv
<1> SUFFICES ASSUME Init PROVE PoolInv
  OBVIOUS
<1>1. Range(<<>>) = {}
  BY DEF Range
<1>2. TypeOK
  BY PoolAssumption, EmptySeq DEF Init, TypeOK
<1>3. Loops
  BY <1>1 DEF Init, Loops
<1> QED BY <1>2, <1>3 DEF Init, PoolInv, Checked, SpendSomething

LEMMA AcceptKeepsPool ==
  ASSUME PoolInv, NEW t \in TxIds, AcceptToMemoryPool(t)
  PROVE  PoolInv'
<1>1. PoolType /\ tip \in Blocks
  BY DEF PoolInv, TypeOK, PoolType
<1>2. Range(vDelete) = {}
  BY DEF AcceptToMemoryPool, PoolInv, Loops, Range
<1>3. AcceptsUnchecked(t) /\ addUnchecked(t) /\ tip' = tip /\ vDelete' = vDelete /\ Accepts(t)
  BY DEF AcceptToMemoryPool, Accepts
<1>4. \A u \in InChain(tip) \ Range(vDelete) :
         \A o \in Inputs(t) \cap Inputs(u) : o.hash \in mapTx \ Range(vDelete)
  BY <1>1, <1>2, <1>3, AcceptedFromPool
<1>5. PoolType' /\ Checked'
  BY <1>1, <1>3, <1>4, AddKeepsPool DEF PoolInv
<1>6. TypeOK'
  BY <1>5 DEF AcceptToMemoryPool, PoolInv, TypeOK, PoolType
<1>7. Loops'
  BY DEF AcceptToMemoryPool, PoolInv, Loops, Settled, Unchecked, InChain, Inputs
<1> QED BY <1>5, <1>6, <1>7 DEF PoolInv, PoolType

\* The entries the temporary view touches are transactions.
LEMMA TouchedType ==
  ASSUME tip \in Blocks, NEW b \in Blocks
  PROVE  Touched(b) \subseteq TxIds
<1>1. ASSUME NEW x \in Blocks PROVE Range(Block[x]) \subseteq TxIds
  BY PoolAssumption, RangeType
<1>2. Range(Above(tip, b)) \subseteq Blocks /\ Range(Above(b, tip)) \subseteq Blocks
  BY AboveIs, RangeType
<1>3. \A x \in Range(Above(tip, b)) : Range(Block[x]) \subseteq TxIds
  BY <1>1, <1>2
<1>4. \A x \in Range(Above(b, tip)) : \A t \in Range(Block[x]) : \A o \in Inputs(t) : o.hash \in TxIds
  BY <1>1, <1>2, InputsType
<1>5. \A x \in Range(Above(b, tip)) :
        {in.hash : in \in UNION {Inputs(t) : t \in Range(Block[x])}} \subseteq TxIds
  BY <1>4
<1> QED BY <1>3, <1>5 DEF Touched

LEMMA SetBestChainKeepsPool ==
  ASSUME PoolInv, NEW b \in Blocks, NEW fFlush \in BOOLEAN, SetBestChain(b, fFlush)
  PROVE  PoolInv'
<1>0. tip \in Blocks /\ vDelete = <<>> /\ Range(vDelete) = {}
  BY DEF SetBestChain, PoolInv, TypeOK, Loops, Range
<1>1. /\ tip' = b /\ mapTx' = mapTx /\ mapNextTx' = mapNextTx /\ pc' = "resurrect"
      /\ vAccept' = vResurrect(b)
  BY DEF SetBestChain
<1>2. b \notin Range(Path[tip])
  <2>1. nChainWork[b] > nChainWork[tip]
    BY PathType DEF SetBestChain
  <2>2. \A x \in Range(Path[tip]) : nChainWork[x] <= nChainWork[tip]
    BY <1>0, PathAssumption DEF Range
  <2>3. nChainWork[b] \in Nat /\ nChainWork[tip] \in Nat
    BY <1>0, PoolAssumption
  <2> QED BY <2>1, <2>2, <2>3
<1>3. vDelete' \in Seq(TxIds) /\ Range(vDelete') = TxsAbove(b, tip) /\ vDelete' # <<>>
  BY <1>0, <1>2, DeleteList DEF SetBestChain
<1>4. spentCache' \in SUBSET TxIds
  <2>1. Touched(b) \subseteq TxIds
    BY <1>0, TouchedType
  <2>2. spentCache \subseteq TxIds
    BY DEF PoolInv, TypeOK
  <2> QED BY <2>1, <2>2 DEF SetBestChain
<1>5. TypeOK'
  BY <1>0, <1>1, <1>3, <1>4, ResurrectList DEF PoolInv, TypeOK
<1>6. Settled'
  BY <1>0, <1>1, <1>3, BelowSettled DEF Settled, Inputs, InChain
<1>7. Loops'
  BY <1>0, <1>1, <1>3, <1>6, BranchInChain DEF Loops, InChain
<1>8. Checked'
  <2> SUFFICES ASSUME NEW t \in mapTx \ Unchecked, NEW u \in InChain(b) \ TxsAbove(b, tip),
                      NEW o \in Inputs(t) \cap Inputs(u)
               PROVE  o.hash \in mapTx \ TxsAbove(b, tip)
    BY <1>1, <1>3 DEF Checked, Inputs, InChain, Unchecked
  <2>1. u \in InChain(tip)
    BY <1>0, BranchInChain
  <2>2. o.hash \in mapTx
    BY <1>0, <2>1 DEF PoolInv, Checked
  <2>3. o.hash \notin TxsAbove(b, tip)
    BY <1>0, BelowSettled
  <2> QED BY <2>2, <2>3
<1>9. SpendSomething'
  BY <1>1 DEF PoolInv, SpendSomething, Inputs
<1> QED BY <1>5, <1>7, <1>8, <1>9 DEF PoolInv

LEMMA ResurrectKeepsPool ==
  ASSUME PoolInv, Resurrect
  PROVE  PoolInv'
<1> DEFINE t == Head(vAccept)
<1>1. PoolType /\ tip \in Blocks
  BY DEF PoolInv, TypeOK, PoolType
<1>2. t \in TxIds /\ Tail(vAccept) \in Seq(TxIds)
  BY HeadAndTail DEF Resurrect, PoolInv, TypeOK
<1>3. /\ tip' = tip /\ vDelete' = vDelete /\ pc' = "resurrect" /\ pc = "resurrect" /\ vAccept # <<>>
      /\ vAccept' = Tail(vAccept) /\ spentCache' = spentCache
      /\ (Accepts(t) /\ addUnchecked(t)) \/ UNCHANGED <<mapTx, mapNextTx>>
  BY DEF Resurrect, AcceptNext
<1> HIDE DEF t
<1>4. Settled
  BY <1>3 DEF PoolInv, Loops
<1>5. PoolType' /\ Checked'
  <2>1. CASE Accepts(t) /\ addUnchecked(t)
    <3>1. AcceptsUnchecked(t)
      BY <2>1 DEF Accepts
    <3>2. \A u \in InChain(tip) \ Range(vDelete) :
             \A o \in Inputs(t) \cap Inputs(u) : o.hash \in mapTx \ Range(vDelete)
      BY <2>1, <1>1, <1>2, <1>4, AcceptedFromPool DEF Settled
    <3> QED BY <2>1, <3>1, <3>2, <1>1, <1>2, <1>3, AddKeepsPool DEF PoolInv
  <2>2. CASE UNCHANGED <<mapTx, mapNextTx>>
    BY <2>2, <1>1, <1>3 DEF PoolInv, PoolType, Checked, SpendSomething, Unchecked, InChain, Inputs
  <2> QED BY <1>3, <2>1, <2>2
<1>6. TypeOK'
  BY <1>2, <1>3, <1>5 DEF PoolInv, TypeOK, PoolType
<1>7. Loops'
  BY <1>3, <1>4 DEF PoolInv, Loops, Settled, InChain, Inputs
<1> QED BY <1>5, <1>6, <1>7 DEF PoolInv, PoolType

LEMMA ReacceptKeepsPool ==
  ASSUME PoolInv, NEW w \in WalletTxs, Reaccept(w)
  PROVE  PoolInv'
<1>1. vtxPrev[w] \in Seq(TxIds) /\ w \in TxIds
  BY PoolAssumption
<1> DEFINE s == Append(vtxPrev[w], w)
<1>2. /\ s \in Seq(TxIds) /\ Len(s) = Len(vtxPrev[w]) + 1 /\ Len(vtxPrev[w]) \in Nat
      /\ \A i \in 1..Len(vtxPrev[w]) : s[i] = vtxPrev[w][i]
      /\ s[Len(vtxPrev[w]) + 1] = w
  BY <1>1, AppendProperties, LenProperties
<1>3. vAccept' = s
  BY DEF Reaccept
<1> HIDE DEF s
<1>4. s # <<>> /\ DOMAIN s = 1..Len(vtxPrev[w]) + 1 /\ DOMAIN vtxPrev[w] = 1..Len(vtxPrev[w])
  BY <1>1, <1>2, LenProperties, EmptySeq
<1>5. Range(s) \subseteq Unchecked
  <2> SUFFICES ASSUME NEW i \in 1..Len(vtxPrev[w]) + 1 PROVE s[i] \in Unchecked
    BY <1>4 DEF Range
  <2>1. CASE i = Len(vtxPrev[w]) + 1
    BY <2>1, <1>2 DEF Unchecked
  <2>2. CASE i # Len(vtxPrev[w]) + 1
    <3>1. i \in DOMAIN vtxPrev[w] /\ s[i] = vtxPrev[w][i]
      BY <2>2, <1>2, <1>4
    <3>2. s[i] \in Range(vtxPrev[w])
      BY <3>1 DEF Range
    <3> QED BY <3>2 DEF Unchecked
  <2> QED BY <2>1, <2>2
<1>6. TypeOK'
  BY <1>2, <1>3 DEF Reaccept, PoolInv, TypeOK
<1>7. Loops'
  BY <1>4, <1>3, <1>5 DEF Reaccept, PoolInv, Loops, Unchecked, InChain
<1> QED BY <1>6, <1>7 DEF Reaccept, PoolInv, Checked, SpendSomething, Unchecked, InChain, Inputs

LEMMA ReacceptNextKeepsPool ==
  ASSUME PoolInv, ReacceptNext
  PROVE  PoolInv'
<1> DEFINE t == Head(vAccept)
<1>1. PoolType
  BY DEF PoolInv, TypeOK, PoolType
<1>2. /\ vAccept # <<>> /\ vAccept \in Seq(TxIds) /\ Range(vAccept) \subseteq Unchecked /\ pc = "reaccept"
  BY DEF ReacceptNext, PoolInv, TypeOK, Loops
<1>3. /\ t \in TxIds /\ Tail(vAccept) \in Seq(TxIds) /\ t \in Unchecked
      /\ Range(Tail(vAccept)) \subseteq Unchecked
      /\ Len(vAccept) # 1 => Tail(vAccept) # <<>>
  BY <1>2, HeadAndTail
<1>4. /\ tip' = tip /\ vDelete' = vDelete /\ spentCache' = spentCache /\ vAccept' = Tail(vAccept)
      /\ pc' = IF Len(vAccept) = 1 THEN "idle" ELSE "reaccept"
      /\ (AcceptsUnchecked(t) /\ addUnchecked(t)) \/ UNCHANGED <<mapTx, mapNextTx>>
  BY DEF ReacceptNext, AcceptNext
<1> HIDE DEF t
<1>5. PoolType' /\ Checked'
  <2>1. CASE AcceptsUnchecked(t) /\ addUnchecked(t)
    BY <2>1, <1>1, <1>3, <1>4, AddKeepsPool DEF PoolInv
  <2>2. CASE UNCHANGED <<mapTx, mapNextTx>>
    BY <2>2, <1>1, <1>4 DEF PoolInv, PoolType, Checked, SpendSomething, Unchecked, InChain, Inputs
  <2> QED BY <1>4, <2>1, <2>2
<1>6. TypeOK'
  BY <1>3, <1>4, <1>5 DEF PoolInv, TypeOK, PoolType
<1>7. Loops'
  <2>1. Unchecked' = Unchecked
    BY DEF Unchecked
  <2>2. vDelete = <<>> /\ InChain(tip)' = InChain(tip) /\ Range(vDelete) \subseteq InChain(tip)
    BY <1>2, <1>4 DEF PoolInv, Loops, InChain
  <2> QED BY <2>1, <2>2, <1>3, <1>4 DEF Loops
<1> QED BY <1>5, <1>6, <1>7 DEF PoolInv, PoolType

LEMMA RestartKeepsPool ==
  ASSUME PoolInv, Restart
  PROVE  PoolInv'
<1>1. TypeOK'
  BY DEF Restart, PoolInv, TypeOK
<1>2. Loops'
  BY DEF Restart, PoolInv, Loops, InChain
<1> QED BY <1>1, <1>2 DEF Restart, PoolInv, Checked, SpendSomething


\* A transaction of the new branch leaves the pool, and what conflicts with it with
\* all its descendants: what remains does not spend from what has left.
LEMMA DeleteKeepsPool ==
  ASSUME PoolInv, NextTxExact, Delete
  PROVE  PoolInv'
<1> DEFINE d == Head(vDelete)
           S == Removed(d) \cup Conflicts(d)
<1>1. /\ tip' = tip /\ spentCache' = spentCache /\ vAccept' = vAccept /\ vAccept = <<>> /\ pc = "resurrect"
      /\ mapTx' = mapTx \ S /\ mapNextTx' = Unindex(S) /\ vDelete' = Tail(vDelete)
      /\ pc' = IF Len(vDelete) = 1 THEN "idle" ELSE "resurrect"
  BY DEF Delete
<1>2. vDelete # <<>> /\ vDelete \in Seq(TxIds)
  BY <1>1 DEF PoolInv, TypeOK, Loops
<1>3. /\ Tail(vDelete) \in Seq(TxIds) /\ Range(vDelete) = {d} \cup Range(Tail(vDelete))
      /\ Len(vDelete) # 1 <=> Tail(vDelete) # <<>>
  BY <1>2, HeadAndTail
<1> HIDE DEF d, S
<1>4. TypeOK'
  <2>1. mapNextTx' = [o \in DOMAIN mapNextTx' |-> mapNextTx'[o]]
    BY <1>1 DEF Unindex
  <2>2. pc' \in {"idle", "resurrect", "reaccept"}
    BY <1>1
  <2> QED BY <2>1, <2>2, <1>1, <1>3 DEF PoolInv, TypeOK
<1>5. Loops'
  <2>1. InChain(tip)' = InChain(tip) /\ Range(vDelete) \subseteq InChain(tip)
    BY <1>1 DEF PoolInv, Loops, InChain
  <2>2. Range(vDelete') \subseteq InChain(tip)'
    BY <2>1, <1>1, <1>3
  <2> QED BY <2>2, <1>1, <1>3 DEF Loops
<1>6. Checked'
  <2> SUFFICES ASSUME NEW t \in mapTx' \ Unchecked, NEW u \in InChain(tip) \ Range(vDelete'),
                      NEW o \in Inputs(t) \cap Inputs(u)
               PROVE  o.hash \in mapTx' \ Range(vDelete')
    BY <1>1 DEF Checked, Inputs, InChain, Unchecked
  <2>1. t \in mapTx /\ t # d /\ t \notin Conflicts(d)
    BY <1>1 DEF S, Removed
  <2>2. CASE u = d
    <3>1. o \in DOMAIN mapNextTx /\ mapNextTx[o] = t
      BY <2>1 DEF NextTxExact
    <3>2. t \in {mapNextTx[x] : x \in Inputs(d) \cap DOMAIN mapNextTx} \ {d}
      BY <2>1, <2>2, <3>1
    <3>3. t \in Conflicts(d)
      BY <3>2, <2>1, DescendantsClosed DEF Conflicts
    <3> QED BY <3>3, <2>1
  <2>3. CASE u # d
    <3>1. o.hash \in mapTx \ Range(vDelete)
      BY <2>1, <2>3, <1>1, <1>3 DEF PoolInv, Checked
    <3>2. o.hash \notin Conflicts(d)
      <4> SUFFICES ASSUME o.hash \in Conflicts(d) PROVE FALSE
        OBVIOUS
      <4>1. t \in Spenders(Conflicts(d))
        BY <2>1 DEF Spenders
      <4>2. t \in Conflicts(d)
        BY <4>1, DescendantsClosed DEF Conflicts
      <4> QED BY <4>2, <2>1
    <3>3. o.hash # d /\ o.hash \notin Range(vDelete')
      BY <3>1, <1>1, <1>3
    <3> QED BY <3>1, <3>2, <3>3, <1>1 DEF S, Removed
  <2> QED BY <2>2, <2>3
<1>7. SpendSomething'
  BY <1>1 DEF PoolInv, SpendSomething, Inputs
<1> QED BY <1>4, <1>5, <1>6, <1>7 DEF PoolInv

\* The invariant is inductive.
THEOREM PoolInductive == Spec => []PoolInv
<1>1. PoolInv /\ NextTxExact /\ [Next]_vars => PoolInv'
  <2> SUFFICES ASSUME PoolInv, NextTxExact, [Next]_vars PROVE PoolInv'
    OBVIOUS
  <2>1. ASSUME NEW t \in TxIds, AcceptToMemoryPool(t) PROVE PoolInv'
    BY <2>1, AcceptKeepsPool
  <2>2. ASSUME NEW b \in Blocks, NEW fFlush \in BOOLEAN, SetBestChain(b, fFlush) PROVE PoolInv'
    BY <2>2, SetBestChainKeepsPool
  <2>3. ASSUME Resurrect PROVE PoolInv'
    BY <2>3, ResurrectKeepsPool
  <2>4. ASSUME Delete PROVE PoolInv'
    BY <2>4, DeleteKeepsPool
  <2>5. ASSUME NEW w \in WalletTxs, Reaccept(w) PROVE PoolInv'
    BY <2>5, ReacceptKeepsPool
  <2>6. ASSUME ReacceptNext PROVE PoolInv'
    BY <2>6, ReacceptNextKeepsPool
  <2>7. ASSUME Restart PROVE PoolInv'
    BY <2>7, RestartKeepsPool
  <2>8. ASSUME UNCHANGED vars PROVE PoolInv'
    BY <2>8 DEF vars, PoolInv, TypeOK, Loops, Settled, Checked, SpendSomething, Unchecked, InChain, Inputs
  <2> QED BY <2>1, <2>2, <2>3, <2>4, <2>5, <2>6, <2>7, <2>8 DEF Next
<1> QED BY <1>1, InitPool, IndexExact, PTL DEF Spec

\* Types; no coinbase is ever in the pool.
THEOREM PoolTyped == Spec => []TypeOK
<1>1. PoolInv => TypeOK
  BY DEF PoolInv
<1> QED BY <1>1, PoolInductive, PTL

-----------------------------------------------------------------------------
(* What the pool promises.                                                 *)

\* Every transaction of the chain is after the ones it spends from.
LEMMA SpendsEarlier ==
  ASSUME NEW b \in Blocks, NEW i \in DOMAIN Path[b], NEW j \in DOMAIN Block[Path[b][i]],
         NEW o \in Inputs(Block[Path[b][i]][j])
  PROVE  \E k \in 1..i : \E l \in DOMAIN Block[Path[b][k]] :
            Block[Path[b][k]][l] = o.hash /\ (k < i \/ l < j)
BY ChainAssumption

LEMMA SpendsFromChain ==
  ASSUME NEW b \in Blocks, NEW u \in InChain(b), NEW o \in Inputs(u)
  PROVE  o.hash \in InChain(b)
<1>1. PICK i \in DOMAIN Path[b] : \E j \in DOMAIN Block[Path[b][i]] : u = Block[Path[b][i]][j]
  BY InChainAt
<1>2. PICK j \in DOMAIN Block[Path[b][i]] : u = Block[Path[b][i]][j]
  BY <1>1
<1>3. PICK k \in 1..i : \E l \in DOMAIN Block[Path[b][k]] : Block[Path[b][k]][l] = o.hash /\ (k < i \/ l < j)
  BY <1>2, SpendsEarlier
<1>4. k \in DOMAIN Path[b]
  BY PathType
<1> QED BY <1>3, <1>4, InChainAt

\* A pool transaction that is in the chain hangs on one of the wallet's: the first one
\* in the order of the chain that does not would spend from an earlier one.
LEMMA StaleHangs ==
  ASSUME PoolInv, pc = "idle", NEW t \in mapTx \cap InChain(tip)
  PROVE  t \in WithDescendants(Unchecked)
<1> DEFINE W == WithDescendants(Unchecked)
           Z == (mapTx \cap InChain(tip)) \ W
           At(i, j) == Block[Path[tip][i]][j]
           Is == {i \in DOMAIN Path[tip] : \E j \in DOMAIN Block[Path[tip][i]] : At(i, j) \in Z}
<1> SUFFICES ASSUME t \in Z PROVE FALSE
  OBVIOUS
<1>0. tip \in Blocks /\ Range(vDelete) = {}
  BY DEF PoolInv, TypeOK, Loops, Range
<1>1. DOMAIN Path[tip] = 1..Len(Path[tip]) /\ Len(Path[tip]) \in Nat
  BY <1>0, PathType
<1>2. Unchecked \cap mapTx \subseteq W /\ Spenders(W) \subseteq W
  BY DescendantsClosed
<1>3. \E i \in DOMAIN Path[tip] : \E j \in DOMAIN Block[Path[tip][i]] : t = Block[Path[tip][i]][j]
  BY InChainAt
<1>4. Is # {}
  BY <1>3
<1> HIDE DEF Z, W
<1>5. Is \in SUBSET Nat
  BY <1>1
<1>6. PICK i \in Is : \A y \in Is : i <= y
  BY <1>4, <1>5, Least
<1> DEFINE Js == {j \in DOMAIN Block[Path[tip][i]] : At(i, j) \in Z}
<1>7. Js # {}
  BY <1>6
<1>8. Js \in SUBSET Nat
  <2>1. Path[tip][i] \in Blocks
    BY <1>0, <1>6, PathType
  <2>2. Block[Path[tip][i]] \in Seq(TxIds)
    BY <2>1, PoolAssumption
  <2> QED BY <2>2, LenProperties
<1>9. PICK j \in Js : \A y \in Js : j <= y
  BY <1>7, <1>8, Least
<1>10. At(i, j) \in Z /\ i \in DOMAIN Path[tip] /\ j \in DOMAIN Block[Path[tip][i]]
  BY <1>6, <1>9
<1>11. PICK o \in Inputs(At(i, j)) : TRUE
  BY <1>10 DEF PoolInv, SpendSomething, Z
<1>12. PICK k \in 1..i : \E l \in DOMAIN Block[Path[tip][k]] : At(k, l) = o.hash /\ (k < i \/ l < j)
  BY <1>0, <1>10, <1>11, SpendsEarlier
<1>13. PICK l \in DOMAIN Block[Path[tip][k]] : At(k, l) = o.hash /\ (k < i \/ l < j)
  BY <1>12
<1>14. At(i, j) \in mapTx \ Unchecked /\ At(i, j) \in InChain(tip) \ Range(vDelete) /\ At(i, j) \notin W
  BY <1>10, <1>0, <1>2 DEF Z
<1>15. o.hash \in mapTx
  <2>1. \A z \in mapTx \ Unchecked : \A u \in InChain(tip) \ Range(vDelete) :
           \A p \in Inputs(z) \cap Inputs(u) : p.hash \in mapTx
    BY DEF PoolInv, Checked
  <2> HIDE DEF At
  <2> QED BY <2>1, <1>11, <1>14
<1>16. k \in DOMAIN Path[tip]
  BY <1>1, <1>10
<1>17. o.hash \in InChain(tip)
  BY <1>13, <1>16, InChainAt
<1>18. o.hash \notin W
  <2> SUFFICES ASSUME o.hash \in W PROVE FALSE
    OBVIOUS
  <2>1. At(i, j) \in Spenders(W)
    BY <1>11, <1>14 DEF Spenders
  <2> QED BY <2>1, <1>2, <1>14
<1>19. At(k, l) \in Z
  BY <1>13, <1>15, <1>17, <1>18 DEF Z
<1>20. k \in Is
  BY <1>13, <1>16, <1>19
<1>21. k = i
  <2>1. i <= k /\ k \in 1..i /\ i \in Nat
    <3> HIDE DEF Is
    <3> QED BY <1>1, <1>6, <1>10, <1>12, <1>20
  <2> QED BY <2>1
<1>22. l \in Js /\ l < j
  BY <1>13, <1>19, <1>21, <1>1, <1>10
<1> QED BY <1>22, <1>8, <1>9

\* Once a reorganisation is done, a pool transaction that does not hang on one that the
\* wallet put there unchecked is not in the chain and spends nothing that the chain has
\* spent, whatever blocks, transactions and restarts came before.
THEOREM PoolFitsChain == Spec => []NoChainConflict
<1>1. PoolInv => NoChainConflict
  <2> SUFFICES ASSUME PoolInv, pc = "idle", NEW t \in mapTx \ WithDescendants(Unchecked)
               PROVE  t \notin InChain(tip) /\ Inputs(t) \cap SpentInChain(tip) = {}
    BY DEF NoChainConflict
  <2>0. tip \in Blocks /\ Range(vDelete) = {}
    BY DEF PoolInv, TypeOK, Loops, Range
  <2>1. t \notin InChain(tip)
    BY StaleHangs
  <2>2. ASSUME NEW o \in Inputs(t) \cap SpentInChain(tip) PROVE FALSE
    <3>1. PICK u \in InChain(tip) : o \in Inputs(u)
      BY <2>2 DEF SpentInChain
    <3>2. t \notin Unchecked
      BY DescendantsClosed
    <3>3. o.hash \in mapTx
      BY <2>0, <2>2, <3>1, <3>2 DEF PoolInv, Checked
    <3>4. o.hash \in InChain(tip)
      BY <2>0, <3>1, SpendsFromChain
    <3>5. o.hash \in WithDescendants(Unchecked)
      BY <3>3, <3>4, StaleHangs
    <3>6. t \in Spenders(WithDescendants(Unchecked))
      BY <2>2, <3>5 DEF Spenders
    <3> QED BY <3>6, DescendantsClosed
  <2> QED BY <2>1, <2>2
<1> QED BY <1>1, PoolInductive, PTL

\* A reorganisation takes a transaction out of the pool only if it is in the new chain,
\* or it or a pool ancestor of it, not in the chain itself, spends what the chain has spent.
THEOREM NothingLeavesInVain == Spec => LeavesForCause
<1> DEFINE Cause(t) == \/ t \in InChain(tip)
                       \/ \E c \in mapTx \ InChain(tip) :
                             Inputs(c) \cap SpentInChain(tip) # {} /\ t \in WithDescendants({c})
<1>1. PoolInv /\ NextTxExact /\ [Next]_vars
        => [pc = "resurrect" => \A t \in mapTx \ mapTx' : Cause(t)]_vars
  <2> SUFFICES ASSUME PoolInv, NextTxExact, Next, pc = "resurrect", NEW t \in mapTx \ mapTx'
               PROVE  Cause(t)
    OBVIOUS
  <2>1. CASE Resurrect
    BY <2>1 DEF Resurrect, AcceptNext, addUnchecked
  <2>2. CASE Delete
    <3> DEFINE d == Head(vDelete)
               roots == {mapNextTx[o] : o \in Inputs(d) \cap DOMAIN mapNextTx} \ {d}
    <3>1. t \in Removed(d) \cup Conflicts(d)
      BY <2>2 DEF Delete
    <3>2. d \in InChain(tip)
      <4>1. vDelete # <<>> /\ vDelete \in Seq(TxIds) /\ Range(vDelete) \subseteq InChain(tip)
        BY <2>2 DEF Delete, PoolInv, TypeOK, Loops
      <4> QED BY <4>1, HeadAndTail
    <3> HIDE DEF d
    <3>3. CASE t \in Removed(d)
      BY <3>2, <3>3 DEF Removed
    <3>4. CASE t \in Conflicts(d)
      <4>1. PICK c \in roots \cap mapTx : t \in WithDescendants({c})
        BY <3>4, DescendantsOfOne DEF Conflicts
      <4>2. PICK o \in Inputs(d) \cap DOMAIN mapNextTx : c = mapNextTx[o]
        BY <4>1
      <4>3. o \in Inputs(c) /\ c # d
        BY <4>1, <4>2 DEF NextTxExact
      <4>4. tip \in Blocks
        BY DEF PoolInv, TypeOK
      <4>5. c \notin InChain(tip)
        BY <3>2, <4>2, <4>3, <4>4, ChainAssumption
      <4>6. o \in SpentInChain(tip)
        BY <3>2, <4>2 DEF SpentInChain
      <4> QED BY <4>1, <4>3, <4>5, <4>6
    <3> QED BY <3>1, <3>3, <3>4
  <2> QED BY <2>1, <2>2 DEF Next, AcceptToMemoryPool, SetBestChain, Reaccept, ReacceptNext, Restart
<1> QED BY <1>1, PoolInductive, IndexExact, PTL DEF Spec, LeavesForCause

-----------------------------------------------------------------------------
(* Coins views, and the same views with a place for a new coinbase.        *)

IsView(V) == V = [h \in TxIds |-> V[h]] /\ \A h \in TxIds : IsCoins(V[h])
Wider(V, W) == W = [h \in TxIds \cup {"coinbase"} |-> W[h]] /\ \A h \in TxIds : W[h] = V[h]
Agree(V, W) == IsView(V) /\ Wider(V, W)

\* U has no output of h that V does not have.
NoMore(V, U, h) == \A n : IsAvailable(U[h], n) => IsAvailable(V[h], n)

\* No coins are coins.
LEMMA NoCoinsTyped == IsCoins(NoCoins)
<1>1. NoCoins.vout = <<>> /\ <<>> \in [DOMAIN <<>> -> Nat]
  BY DEF NoCoins
<1> QED BY <1>1 DEF NoCoins, IsCoins

\* CCoins::Spend.
LEMMA SpendTyped ==
  ASSUME NEW c, IsCoins(c), NEW n
  PROVE  IsCoins(Spend(c, n)) /\ \A m : IsAvailable(Spend(c, n), m) => IsAvailable(c, m)
<1>1. CASE DOMAIN c.vout = {n}
  <2>1. Spend(c, n) = NoCoins /\ DOMAIN NoCoins.vout = {}
    BY <1>1 DEF Spend, NoCoins
  <2>2. \A m : ~IsAvailable(NoCoins, m)
    BY <2>1 DEF IsAvailable
  <2> QED BY <2>1, <2>2, NoCoinsTyped
<1>2. CASE DOMAIN c.vout # {n}
  <2> DEFINE v == [m \in DOMAIN c.vout \ {n} |-> c.vout[m]]
             d == [c EXCEPT !.vout = v]
  <2>1. c.vout \in [DOMAIN c.vout -> Nat] /\ c.fCoinBase \in BOOLEAN /\ c.nHeight \in Nat
    BY DEF IsCoins
  <2>2. v \in [DOMAIN v -> Nat] /\ DOMAIN v \subseteq DOMAIN c.vout
    BY <2>1
  <2> HIDE DEF v
  <2>3. d = [fCoinBase |-> c.fCoinBase, nHeight |-> c.nHeight, vout |-> v]
    BY DEF IsCoins
  <2>4. d.vout = v /\ IsCoins(d)
    BY <2>1, <2>2, <2>3 DEF IsCoins
  <2>5. Spend(c, n) = d
    BY <1>2 DEF Spend, v
  <2> HIDE DEF d
  <2> QED BY <2>2, <2>4, <2>5 DEF IsAvailable
<1> QED BY <1>1, <1>2

\* An entry is replaced in both.
LEMMA AgreePut ==
  ASSUME NEW V, NEW W, Agree(V, W), NEW h \in TxIds, NEW c, IsCoins(c)
  PROVE  /\ Agree([V EXCEPT ![h] = c], [W EXCEPT ![h] = c])
         /\ [V EXCEPT ![h] = c][h] = c /\ \A k \in TxIds \ {h} : [V EXCEPT ![h] = c][k] = V[k]
BY DEF Agree, IsView, Wider

\* A coinbase is added in the wider one only.
LEMMA AgreeNew ==
  ASSUME NEW V, NEW W, Agree(V, W), NEW c
  PROVE  Agree(V, [W EXCEPT !["coinbase"] = c])
BY CoinsAssumption DEF Agree, IsView, Wider
\* The inputs that UpdateCoins spends, one after the other, and then the outputs.
Spends(spent, view, tx) ==
  spent = [i \in 0..Len(tx.vin) |-> IF i = 0 \/ tx.coinbase THEN [view |-> view, undo |-> <<>>]
                                    ELSE SpendOne(spent[i - 1], tx.vin[i])]
WithOutputs(acc, tx, nHeight) == [acc EXCEPT !.view = [acc.view EXCEPT ![tx.hash] = CCoins(tx, nHeight)]]
LEMMA UpdateCoinsDef ==
  ASSUME NEW view, NEW tx, Len(tx.vin) \in Nat, NEW nHeight
  PROVE  \E spent : /\ Spends(spent, view, tx)
                    /\ UpdateCoins(view, tx, nHeight) = WithOutputs(spent[Len(tx.vin)], tx, nHeight)
<1> DEFINE Is(g, n) == g = [i \in 0..n |-> IF i = 0 \/ tx.coinbase THEN [view |-> view, undo |-> <<>>]
                                           ELSE SpendOne(g[i - 1], tx.vin[i])]
           Bad == {n \in Nat : ~\E g : Is(g, n)}
<1>1. Bad = {}
  <2> SUFFICES ASSUME Bad # {} PROVE FALSE
    OBVIOUS
  <2>1. PICK n \in Bad : \A y \in Bad : n <= y
    <3> HIDE DEF Is
    <3> QED BY Least
  <2>2. n # 0
    <3>1. Is([i \in 0..0 |-> [view |-> view, undo |-> <<>>]], 0)
      OBVIOUS
    <3> HIDE DEF Is
    <3> QED BY <3>1
  <2>3. PICK g : Is(g, n - 1)
    <3> HIDE DEF Is
    <3> QED BY <2>1, <2>2
  <2>4. Is([i \in 0..n |-> IF i = n THEN IF tx.coinbase THEN [view |-> view, undo |-> <<>>]
                                         ELSE SpendOne(g[n - 1], tx.vin[n])
                           ELSE g[i]], n)
    BY <2>2, <2>3
  <2> HIDE DEF Is
  <2> QED BY <2>4
<1>2. \E g : Is(g, Len(tx.vin))
  <2> HIDE DEF Is
  <2> QED BY <1>1
<1> QED
  BY <1>2 DEF UpdateCoins, Spends, WithOutputs

\* The transactions that ConnectBlock connects.
Connects(done, view, vtx, nHeight) ==
  done = [i \in 0..Len(vtx) |-> IF i = 0 THEN [ok |-> TRUE, view |-> view, fees |-> 0, undo |-> <<>>]
                                ELSE ConnectTx(done[i - 1], vtx[i], nHeight)]
Limited(acc, vtx, nHeight) == [acc EXCEPT !.ok = @ /\ CoinbaseLimit(vtx, nHeight, acc.fees)]
LEMMA ConnectBlockDef ==
  ASSUME NEW view, NEW vtx, Len(vtx) \in Nat, NEW nHeight
  PROVE  \E done : /\ Connects(done, view, vtx, nHeight)
                   /\ ConnectBlock(view, vtx, nHeight) = Limited(done[Len(vtx)], vtx, nHeight)
<1> DEFINE start == [ok |-> TRUE, view |-> view, fees |-> 0, undo |-> <<>>]
           Is(g, n) == g = [i \in 0..n |-> IF i = 0 THEN start ELSE ConnectTx(g[i - 1], vtx[i], nHeight)]
           Bad == {n \in Nat : ~\E g : Is(g, n)}
<1> HIDE DEF start
<1>1. Bad = {}
  <2> SUFFICES ASSUME Bad # {} PROVE FALSE
    OBVIOUS
  <2>1. PICK n \in Bad : \A y \in Bad : n <= y
    <3> HIDE DEF Is
    <3> QED BY Least
  <2>2. n # 0
    <3>1. Is([i \in 0..0 |-> start], 0)
      OBVIOUS
    <3> HIDE DEF Is
    <3> QED BY <3>1
  <2>3. PICK g : Is(g, n - 1)
    <3> HIDE DEF Is
    <3> QED BY <2>1, <2>2
  <2>4. Is([i \in 0..n |-> IF i = n THEN ConnectTx(g[n - 1], vtx[n], nHeight) ELSE g[i]], n)
    BY <2>2, <2>3
  <2> HIDE DEF Is
  <2> QED BY <2>4
<1>2. PICK g : Is(g, Len(vtx))
  <2> HIDE DEF Is
  <2> QED BY <1>1
<1> QED
  BY <1>2 DEF ConnectBlock, Connects, Limited, start


\* One input, in both views.
LEMMA SpendOneAgree ==
  ASSUME NEW a, NEW b, Agree(a.view, b.view), NEW in, in.hash \in TxIds
  PROVE  /\ Agree(SpendOne(a, in).view, SpendOne(b, in).view)
         /\ \A h \in TxIds : NoMore(a.view, SpendOne(a, in).view, h)
<1> DEFINE V == a.view
           W == b.view
           h == in.hash
           c == Spend(V[h], in.n)
<1>1. W[h] = V[h] /\ IsCoins(V[h])
  BY DEF Agree, IsView, Wider
<1>2. IsCoins(c) /\ \A m : IsAvailable(c, m) => IsAvailable(V[h], m)
  BY <1>1, SpendTyped
<1>3. SpendOne(a, in).view = [V EXCEPT ![h] = c]
  BY DEF SpendOne
<1>4. SpendOne(b, in).view = [W EXCEPT ![h] = c]
  BY <1>1 DEF SpendOne
<1> HIDE DEF c
<1>5. /\ Agree([V EXCEPT ![h] = c], [W EXCEPT ![h] = c])
      /\ [V EXCEPT ![h] = c][h] = c /\ \A k \in TxIds \ {h} : [V EXCEPT ![h] = c][k] = V[k]
  BY <1>2, AgreePut
<1> DEFINE U == [V EXCEPT ![h] = c]
<1>6. U[h] = c /\ \A k \in TxIds \ {h} : U[k] = V[k]
  BY <1>5
<1> HIDE DEF U, V, h
<1>7. \A k \in TxIds : NoMore(V, U, k)
  BY <1>2, <1>6 DEF NoMore
<1> QED BY <1>3, <1>4, <1>5, <1>7 DEF U, V, h

\* What UpdateCoins has spent after n inputs; a coinbase spends nothing.
Unspent(view) == [view |-> view, undo |-> <<>>]
LEMMA SpendsTable ==
  ASSUME NEW s, NEW view, NEW tx, Len(tx.vin) \in Nat, Spends(s, view, tx)
  PROVE  /\ s[0] = Unspent(view)
         /\ tx.coinbase => \A n \in 1..Len(tx.vin) : s[n] = Unspent(view)
         /\ ~tx.coinbase => \A n \in 1..Len(tx.vin) : s[n] = SpendOne(s[n - 1], tx.vin[n])
<1>1. /\ 0 \in 0..Len(tx.vin)
      /\ \A n \in 1..Len(tx.vin) : n \in 0..Len(tx.vin) /\ n # 0
  OBVIOUS
<1>2. \A n \in 0..Len(tx.vin) : s[n] = IF n = 0 \/ tx.coinbase THEN Unspent(view) ELSE SpendOne(s[n - 1], tx.vin[n])
  BY DEF Spends, Unspent
<1> QED BY <1>1, <1>2

\* The fields of a transaction.
LEMMA TxParts ==
  ASSUME NEW tx \in Transaction
  PROVE  /\ tx.hash \in TxIds /\ tx.coinbase \in BOOLEAN /\ tx.vout \in Seq(Nat)
         /\ tx.vin \in Seq([hash : TxIds, n : Nat])
         /\ Len(tx.vin) \in Nat /\ DOMAIN tx.vin = 1..Len(tx.vin)
         /\ \A i \in 1..Len(tx.vin) : tx.vin[i].hash \in TxIds
<1> DEFINE S == [hash : TxIds, n : Nat]
           s == tx.vin
<1>1. tx.hash \in TxIds /\ tx.coinbase \in BOOLEAN /\ tx.vout \in Seq(Nat) /\ s \in Seq(S)
  BY DEF Transaction
<1>2. \A e \in S : e.hash \in TxIds
  OBVIOUS
<1> HIDE DEF s, S
<1>3. Len(s) \in Nat /\ DOMAIN s = 1..Len(s) /\ \A i \in 1..Len(s) : s[i] \in S
  BY <1>1
<1> QED BY <1>1, <1>2, <1>3 DEF s, S

\* All the inputs, in both views.
LEMMA SpendsAgree ==
  ASSUME NEW V, NEW W, Agree(V, W), NEW tx \in Transaction, NEW s, NEW z,
         Spends(s, V, tx), Spends(z, W, tx)
  PROVE  LET L == Len(tx.vin)
         IN  /\ Agree(s[L].view, z[L].view) /\ \A h \in TxIds : NoMore(V, s[L].view, h)
             /\ s[L] = [view |-> s[L].view, undo |-> s[L].undo]
             /\ z[L] = [view |-> z[L].view, undo |-> z[L].undo]
<1> DEFINE L == Len(tx.vin)
           Same(n) == /\ Agree(s[n].view, z[n].view) /\ \A h \in TxIds : NoMore(V, s[n].view, h)
                      /\ s[n] = [view |-> s[n].view, undo |-> s[n].undo]
                      /\ z[n] = [view |-> z[n].view, undo |-> z[n].undo]
           Bad == {n \in 0..L : ~Same(n)}
<1>1. L \in Nat /\ \A n \in 1..L : tx.vin[n].hash \in TxIds
  BY TxParts
<1>2. /\ s[0] = Unspent(V)
      /\ tx.coinbase => \A n \in 1..L : s[n] = Unspent(V)
      /\ ~tx.coinbase => \A n \in 1..L : s[n] = SpendOne(s[n - 1], tx.vin[n])
  BY <1>1, SpendsTable
<1>20. /\ z[0] = Unspent(W)
       /\ tx.coinbase => \A n \in 1..L : z[n] = Unspent(W)
       /\ ~tx.coinbase => \A n \in 1..L : z[n] = SpendOne(z[n - 1], tx.vin[n])
  BY <1>1, SpendsTable
<1>3. \A h \in TxIds : NoMore(V, V, h)
  BY DEF NoMore
<1>4. ASSUME NEW n \in 0..L, s[n] = Unspent(V), z[n] = Unspent(W)
      PROVE  Same(n)
  BY <1>3, <1>4 DEF Unspent
<1>5. Same(0)
  <2>1. 0 \in 0..L
    BY <1>1
  <2> HIDE DEF Same
  <2> QED BY <2>1, <1>2, <1>20, <1>4
<1>6. ASSUME NEW n \in 1..L, Same(n - 1) PROVE Same(n)
  <2>1. CASE tx.coinbase
    <3>1. n \in 0..L
      BY <1>1
    <3>2. s[n] = Unspent(V) /\ z[n] = Unspent(W)
      BY <1>2, <1>20, <2>1
    <3> HIDE DEF Same
    <3> QED BY <3>1, <3>2, <1>4
  <2>2. CASE ~tx.coinbase
    <3> DEFINE a == s[n - 1]
               b == z[n - 1]
               in == tx.vin[n]
    <3>1. s[n] = SpendOne(a, in) /\ z[n] = SpendOne(b, in) /\ in.hash \in TxIds
      BY <1>1, <1>2, <1>20, <2>2
    <3>2. Agree(a.view, b.view) /\ \A h \in TxIds : NoMore(V, a.view, h)
      BY <1>6
    <3> HIDE DEF a, b, in
    <3>3. Agree(s[n].view, z[n].view) /\ \A h \in TxIds : NoMore(a.view, s[n].view, h)
      BY <3>1, <3>2, SpendOneAgree
    <3>4. \A h \in TxIds : NoMore(V, s[n].view, h)
      BY <3>2, <3>3 DEF NoMore
    <3>5. s[n] = [view |-> s[n].view, undo |-> s[n].undo] /\ z[n] = [view |-> z[n].view, undo |-> z[n].undo]
      BY <3>1 DEF SpendOne
    <3> QED BY <3>3, <3>4, <3>5
  <2> QED BY <2>1, <2>2
<1> HIDE DEF Same
<1>7. Bad = {}
  <2> SUFFICES ASSUME Bad # {} PROVE FALSE
    OBVIOUS
  <2>1. Bad \in SUBSET Nat
    BY <1>1
  <2>2. PICK n \in Bad : \A y \in Bad : n <= y
    BY <2>1, Least
  <2>3. n \in 1..L /\ n - 1 \in 0..L /\ ~(n <= n - 1)
    BY <1>1, <1>5
  <2>4. Same(n - 1)
    BY <2>2, <2>3
  <2> QED BY <1>6, <2>3, <2>4
<1>8. Same(L)
  BY <1>1, <1>7
<1> QED BY <1>8 DEF Same

\* The outputs of a transaction.
LEMMA CCoinsTyped ==
  ASSUME NEW tx \in Transaction, NEW H \in Nat
  PROVE  IsCoins(CCoins(tx, H))
<1> DEFINE v == [n \in DOMAIN tx.vout |-> tx.vout[n]]
<1>1. v \in [DOMAIN v -> Nat] /\ tx.coinbase \in BOOLEAN
  BY DEF Transaction
<1> HIDE DEF v
<1> QED BY <1>1 DEF IsCoins, CCoins, v

\* UpdateCoins, in both views.
LEMMA UpdateAgree ==
  ASSUME NEW V, NEW W, Agree(V, W), NEW tx \in Transaction, NEW H \in Nat
  PROVE  /\ Agree(UpdateCoins(V, tx, H).view, UpdateCoins(W, tx, H).view)
         /\ \A h \in TxIds \ {tx.hash} : NoMore(V, UpdateCoins(V, tx, H).view, h)
<1> DEFINE L == Len(tx.vin)
           c == CCoins(tx, H)
<1>1. L \in Nat /\ tx.hash \in TxIds
  BY TxParts
<1>2. PICK s : Spends(s, V, tx) /\ UpdateCoins(V, tx, H) = WithOutputs(s[L], tx, H)
  BY <1>1, UpdateCoinsDef
<1>3. PICK z : Spends(z, W, tx) /\ UpdateCoins(W, tx, H) = WithOutputs(z[L], tx, H)
  BY <1>1, UpdateCoinsDef
<1>4. /\ Agree(s[L].view, z[L].view) /\ \A h \in TxIds : NoMore(V, s[L].view, h)
      /\ s[L] = [view |-> s[L].view, undo |-> s[L].undo]
      /\ z[L] = [view |-> z[L].view, undo |-> z[L].undo]
  BY <1>2, <1>3, SpendsAgree
<1>5. IsCoins(c)
  BY CCoinsTyped
<1> DEFINE A == s[L].view
           B == z[L].view
           k == tx.hash
<1> HIDE DEF L
<1>6. UpdateCoins(V, tx, H).view = [A EXCEPT ![k] = c] /\ UpdateCoins(W, tx, H).view = [B EXCEPT ![k] = c]
  BY <1>2, <1>3, <1>4 DEF WithOutputs
<1> HIDE DEF c
<1>7. Agree(A, B) /\ k \in TxIds /\ \A h \in TxIds : NoMore(V, A, h)
  BY <1>1, <1>4
<1> HIDE DEF A, B, k
<1>8. /\ Agree([A EXCEPT ![k] = c], [B EXCEPT ![k] = c])
      /\ \A h \in TxIds \ {k} : [A EXCEPT ![k] = c][h] = A[h]
  BY <1>5, <1>7, AgreePut
<1>9. \A h \in TxIds \ {k} : NoMore(V, [A EXCEPT ![k] = c], h)
  BY <1>7, <1>8 DEF NoMore
<1> QED BY <1>6, <1>8, <1>9 DEF k

\* GetValueOut and GetValueIn are natural numbers.
LEMMA ValueNat ==
  ASSUME NEW q \in Seq(Nat)
  PROVE  ValueOf(q) \in Nat
<1> DEFINE L == Len(q)
           Is(g, n) == g = [i \in 0..n |-> IF i = 0 THEN 0 ELSE g[i - 1] + q[i]]
           None == {n \in 0..L : ~\E g : Is(g, n)}
<1>1. L \in Nat /\ \A k \in 1..L : q[k] \in Nat
  OBVIOUS
<1> HIDE DEF L
<1>2. None = {}
  <2> SUFFICES ASSUME None # {} PROVE FALSE
    OBVIOUS
  <2>1. PICK n \in None : \A y \in None : n <= y
    <3> HIDE DEF Is
    <3>1. None \in SUBSET Nat
      BY <1>1
    <3> QED BY <3>1, Least
  <2>2. n # 0
    <3>1. Is([i \in 0..0 |-> 0], 0)
      OBVIOUS
    <3> HIDE DEF Is
    <3> QED BY <3>1
  <2>3. n \in 1..L /\ n - 1 \in 0..L /\ ~(n <= n - 1)
    <3> HIDE DEF Is
    <3> QED BY <2>2, <1>1
  <2>4. PICK g : Is(g, n - 1)
    <3> HIDE DEF Is
    <3> QED BY <2>1, <2>3
  <2>5. Is([i \in 0..n |-> IF i = n THEN g[n - 1] + q[n] ELSE g[i]], n)
    BY <2>2, <2>3, <2>4, <1>1
  <2> HIDE DEF Is
  <2> QED BY <2>5
<1>3. PICK g : g = (CHOOSE f : Is(f, L))
  OBVIOUS
<1>4. Is(g, L)
  <2> HIDE DEF Is
  <2>1. L \in 0..L
    BY <1>1
  <2>2. \E f : Is(f, L)
    BY <1>2, <2>1
  <2> QED BY <1>3, <2>2
<1>5. ValueOf(q) = g[L]
  BY <1>3 DEF ValueOf, L
<1>6. \A i \in 0..L : g[i] = IF i = 0 THEN 0 ELSE g[i - 1] + q[i]
  BY <1>4
<1> DEFINE Bad == {n \in 0..L : g[n] \notin Nat}
<1>7. Bad = {}
  <2> SUFFICES ASSUME Bad # {} PROVE FALSE
    OBVIOUS
  <2>1. Bad \in SUBSET Nat
    BY <1>1
  <2>2. PICK n \in Bad : \A y \in Bad : n <= y
    BY <2>1, Least
  <2>3. n \in 1..L /\ n - 1 \in 0..L /\ ~(n <= n - 1)
    BY <1>1, <1>6
  <2>4. g[n - 1] \in Nat /\ q[n] \in Nat
    BY <1>1, <2>2, <2>3
  <2>5. g[n] = g[n - 1] + q[n]
    BY <1>1, <1>6, <2>3
  <2> QED BY <2>4, <2>5
<1> QED BY <1>1, <1>5, <1>7

\* The value of one output.
LEMMA ValueOfOne ==
  ASSUME NEW v \in Nat
  PROVE  ValueOf(<<v>>) = v
<1> DEFINE q == <<v>>
           Is(g) == g = [i \in 0..Len(q) |-> IF i = 0 THEN 0 ELSE g[i - 1] + q[i]]
           h == [i \in 0..1 |-> IF i = 0 THEN 0 ELSE v]
<1>1. Len(q) = 1 /\ q[1] = v
  OBVIOUS
<1> HIDE DEF q
<1>2. Is(h)
  <2>1. \A i \in 0..1 : i # 0 => i = 1
    OBVIOUS
  <2>2. h[0] = 0 /\ h[1] = v /\ 1 - 1 = 0 /\ 0 + v = v
    OBVIOUS
  <2>3. \A i \in 0..1 : h[i] = IF i = 0 THEN 0 ELSE h[i - 1] + q[i]
    BY <1>1, <2>1, <2>2
  <2>4. h = [i \in 0..1 |-> h[i]]
    OBVIOUS
  <2> HIDE DEF h
  <2> QED BY <1>1, <2>3, <2>4
<1>3. PICK g : g = (CHOOSE f : Is(f))
  OBVIOUS
<1>4. Is(g)
  <2> HIDE DEF Is
  <2> QED BY <1>2, <1>3
<1>5. g[0] = 0 /\ g[1] = g[0] + v
  BY <1>1, <1>4
<1>6. ValueOf(q) = g[Len(q)]
  BY <1>3 DEF ValueOf
<1> QED BY <1>1, <1>5, <1>6 DEF q

\* The checks have the same result on both views.
LEMMA CheckAgree ==
  ASSUME NEW V, NEW W, Agree(V, W), NEW tx \in Transaction, NEW H \in Nat
  PROVE  /\ GetValueIn(W, tx) = GetValueIn(V, tx)
         /\ CheckInputs(V, tx, H) => CheckInputs(W, tx, H)
<1>1. \A i \in DOMAIN tx.vin : W[tx.vin[i].hash] = V[tx.vin[i].hash]
  BY TxParts DEF Agree, Wider
<1> DEFINE f(U) == [i \in DOMAIN tx.vin |-> U[tx.vin[i].hash].vout[tx.vin[i].n]]
<1>2. f(W) = f(V)
  BY <1>1
<1>3. GetValueIn(W, tx) = GetValueIn(V, tx)
  <2>1. GetValueIn(W, tx) = ValueOf(f(W)) /\ GetValueIn(V, tx) = ValueOf(f(V))
    BY DEF GetValueIn
  <2> HIDE DEF f
  <2> QED BY <1>2, <2>1
<1>4. HaveInputs(V, tx) => HaveInputs(W, tx)
  BY <1>1 DEF HaveInputs
<1>5. MatureInputs(V, tx, H) => MatureInputs(W, tx, H)
  BY <1>1 DEF MatureInputs
<1>6. ValuesOK(V, tx) => ValuesOK(W, tx)
  BY <1>3 DEF ValuesOK
<1> QED BY <1>3, <1>4, <1>5, <1>6 DEF CheckInputs

\* A transaction that passes them pays no negative fee.
LEMMA FeeNat ==
  ASSUME NEW V, IsView(V), NEW tx \in Transaction, ~tx.coinbase, NEW H, CheckInputs(V, tx, H)
  PROVE  GetValueIn(V, tx) - GetValueOut(tx) \in Nat
<1> DEFINE q == [i \in DOMAIN tx.vin |-> V[tx.vin[i].hash].vout[tx.vin[i].n]]
<1>1. HaveInputs(V, tx) /\ GetValueIn(V, tx) >= GetValueOut(tx)
  BY DEF CheckInputs, ValuesOK
<1>2. \A i \in DOMAIN tx.vin : q[i] \in Nat
  <2> SUFFICES ASSUME NEW i \in DOMAIN tx.vin PROVE q[i] \in Nat
    OBVIOUS
  <2> DEFINE c == V[tx.vin[i].hash]
  <2>1. IsCoins(c) /\ tx.vin[i].n \in DOMAIN c.vout
    BY <1>1, TxParts DEF IsView, HaveInputs, IsAvailable
  <2> HIDE DEF c
  <2>2. c.vout[tx.vin[i].n] \in Nat
    BY <2>1 DEF IsCoins
  <2> QED BY <2>2 DEF c
<1>3. DOMAIN tx.vin = 1..Len(tx.vin) /\ Len(tx.vin) \in Nat
  BY TxParts
<1>4. q \in Seq(Nat)
  <2>1. q = [i \in 1..Len(tx.vin) |-> q[i]]
    BY <1>3
  <2> HIDE DEF q
  <2>2. q \in [1..Len(tx.vin) -> Nat]
    BY <1>2, <1>3, <2>1
  <2> QED BY <1>3, <2>2
<1>5. GetValueIn(V, tx) = ValueOf(q)
  BY DEF GetValueIn
<1> HIDE DEF q
<1>6. GetValueIn(V, tx) \in Nat /\ GetValueOut(tx) \in Nat
  BY <1>4, <1>5, ValueNat, TxParts DEF GetValueOut
<1> QED BY <1>1, <1>6

-----------------------------------------------------------------------------
(* Connecting a template.                                                  *)

\* ConnectBlock on viewNew has connected the coinbase cb and vtx, and left fees f and a
\* view that agrees with V.
Passed(done, n, V, f) == \E W, u : done[n] = [ok |-> TRUE, view |-> W, fees |-> f, undo |-> u] /\ Agree(V, W)
Joined(cb, vtx, V, f) ==
  \E done : Connects(done, viewNew, <<cb>> \o vtx, Height[tip] + 1) /\ Passed(done, Len(vtx) + 1, V, f)

IsCoinbase(cb) == cb.coinbase /\ cb.hash = "coinbase" /\ Len(cb.vin) \in Nat

\* The coinbase is connected first.
LEMMA JoinedFirst ==
  ASSUME tip \in Blocks, NEW cb, IsCoinbase(cb)
  PROVE  Joined(cb, <<>>, coins, 0)
<1> DEFINE H == Height[tip] + 1
           start == [ok |-> TRUE, view |-> viewNew, fees |-> 0, undo |-> <<>>]
           vtx == <<cb>> \o <<>>
           done == [i \in 0..1 |-> IF i = 0 THEN start ELSE ConnectTx(start, cb, H)]
<1>1. Len(vtx) = 1 /\ vtx[1] = cb /\ Len(<<>>) + 1 = 1
  OBVIOUS
<1>2. Agree(coins, viewNew)
  <2>1. coins = [h \in TxIds |-> coins[h]] /\ \A h \in TxIds : IsCoins(coins[h])
    BY CoinsAssumption DEF coins
  <2>2. Wider(coins, viewNew)
    BY DEF viewNew, Wider
  <2> QED BY <2>1, <2>2 DEF Agree, IsView
<1>3. PICK s : Spends(s, viewNew, cb) /\ UpdateCoins(viewNew, cb, H) = WithOutputs(s[Len(cb.vin)], cb, H)
  BY UpdateCoinsDef DEF IsCoinbase
<1>4. s[Len(cb.vin)] = Unspent(viewNew)
  <2>1. /\ s[0] = Unspent(viewNew)
        /\ cb.coinbase => \A n \in 1..Len(cb.vin) : s[n] = Unspent(viewNew)
    BY <1>3, SpendsTable DEF IsCoinbase
  <2>2. Len(cb.vin) = 0 \/ Len(cb.vin) \in 1..Len(cb.vin)
    BY DEF IsCoinbase
  <2> QED BY <2>1, <2>2 DEF IsCoinbase
<1> DEFINE W == [viewNew EXCEPT !["coinbase"] = CCoins(cb, H)]
<1>5. UpdateCoins(viewNew, cb, H).view = W
  <2>1. WithOutputs(Unspent(viewNew), cb, H).view = [viewNew EXCEPT ![cb.hash] = CCoins(cb, H)]
    BY DEF WithOutputs, Unspent
  <2>2. UpdateCoins(viewNew, cb, H).view = WithOutputs(Unspent(viewNew), cb, H).view
    BY <1>3, <1>4
  <2> QED BY <2>1, <2>2 DEF IsCoinbase
<1>6. Agree(coins, W)
  BY <1>2, AgreeNew
<1>7. ConnectTx(start, cb, H) = [ok |-> TRUE, view |-> W, fees |-> 0, undo |-> <<>>]
  BY <1>5 DEF ConnectTx, CheckInputs, IsCoinbase
<1>8. Connects(done, viewNew, vtx, H)
  <2>1. \A i \in 0..1 : done[i] = IF i = 0 THEN start ELSE ConnectTx(done[i - 1], vtx[i], H)
    BY <1>1
  <2>2. done = [i \in 0..1 |-> done[i]]
    OBVIOUS
  <2> HIDE DEF done
  <2> QED BY <1>1, <2>1, <2>2 DEF Connects
<1>9. Passed(done, 1, coins, 0)
  <2>1. done[1] = [ok |-> TRUE, view |-> W, fees |-> 0, undo |-> <<>>]
    BY <1>7
  <2> HIDE DEF done, W
  <2> QED BY <2>1, <1>6 DEF Passed
<1> HIDE DEF done, vtx
<1> QED BY <1>1, <1>8, <1>9 DEF Joined, vtx

\* One transaction more.
LEMMA JoinedNext ==
  ASSUME tip \in Blocks, NEW cb, NEW vtx \in Seq(Transaction), NEW V, NEW f \in Nat, Joined(cb, vtx, V, f),
         NEW tx \in Transaction, ~tx.coinbase, CheckInputs(V, tx, Height[tip] + 1)
  PROVE  Joined(cb, Append(vtx, tx), UpdateCoins(V, tx, Height[tip] + 1).view,
                f + (GetValueIn(V, tx) - GetValueOut(tx)))
<1> DEFINE H == Height[tip] + 1
           old == <<cb>> \o vtx
           new == <<cb>> \o Append(vtx, tx)
           n == Len(vtx) + 1
           g == f + (GetValueIn(V, tx) - GetValueOut(tx))
<1>1. H \in Nat
  BY PoolAssumption
<1>2. /\ Len(vtx) \in Nat /\ n \in Nat /\ Len(old) = n /\ Len(new) = n + 1 /\ Len(Append(vtx, tx)) + 1 = n + 1
      /\ new[n + 1] = tx /\ \A i \in 1..n : new[i] = old[i]
  OBVIOUS
<1> HIDE DEF old, new, n, H
<1>3. PICK done : Connects(done, viewNew, old, H) /\ Passed(done, n, V, f)
  BY DEF Joined, old, n, H
<1>4. PICK W, u : done[n] = [ok |-> TRUE, view |-> W, fees |-> f, undo |-> u] /\ Agree(V, W)
  BY <1>3 DEF Passed
<1>5. GetValueIn(W, tx) = GetValueIn(V, tx) /\ CheckInputs(W, tx, H)
  BY <1>1, <1>4, CheckAgree DEF H
<1> DEFINE X == UpdateCoins(W, tx, H).view
           U == UpdateCoins(V, tx, H).view
           last == ConnectTx(done[n], tx, H)
           then == [i \in 0..n + 1 |-> IF i = n + 1 THEN last ELSE done[i]]
<1>6. Agree(U, X)
  BY <1>1, <1>4, UpdateAgree
<1>7. last = [ok |-> TRUE, view |-> X, fees |-> g, undo |-> Append(u, UpdateCoins(W, tx, H).undo)]
  BY <1>4, <1>5 DEF ConnectTx
<1> HIDE DEF last
<1>8. Connects(then, viewNew, new, H)
  <2> DEFINE start == [ok |-> TRUE, view |-> viewNew, fees |-> 0, undo |-> <<>>]
  <2>1. \A i \in 0..n : done[i] = IF i = 0 THEN start ELSE ConnectTx(done[i - 1], old[i], H)
    BY <1>2, <1>3 DEF Connects
  <2> HIDE DEF start
  <2>2. \A i \in 0..n : then[i] = IF i = 0 THEN start ELSE ConnectTx(then[i - 1], new[i], H)
    <3>1. \A i \in 0..n : then[i] = done[i] /\ (i # 0 => i \in 1..n /\ i - 1 \in 0..n /\ then[i - 1] = done[i - 1])
      BY <1>2
    <3> HIDE DEF then
    <3> QED BY <1>2, <2>1, <3>1
  <2>3. then[n + 1] = ConnectTx(then[(n + 1) - 1], new[n + 1], H)
    <3>1. then[n + 1] = last /\ then[n] = done[n] /\ (n + 1) - 1 = n
      BY <1>2
    <3> HIDE DEF then
    <3> QED BY <1>2, <3>1 DEF last
  <2>4. \A i \in 0..n + 1 : i \in 0..n \/ (i = n + 1 /\ i # 0)
    BY <1>2
  <2>5. then = [i \in 0..n + 1 |-> then[i]]
    OBVIOUS
  <2> HIDE DEF then
  <2>6. \A i \in 0..n + 1 : then[i] = IF i = 0 THEN start ELSE ConnectTx(then[i - 1], new[i], H)
    BY <2>2, <2>3, <2>4
  <2> QED BY <1>2, <2>5, <2>6 DEF Connects, start
<1>9. Passed(then, n + 1, U, g)
  <2>1. then[n + 1] = last
    BY <1>2
  <2> HIDE DEF then, g, U, X
  <2> QED BY <2>1, <1>6, <1>7 DEF Passed
<1> HIDE DEF then, U, g
<1>10. Joined(cb, Append(vtx, tx), U, g)
  BY <1>2, <1>8, <1>9 DEF Joined, new, H
<1> QED BY <1>10 DEF U, g, H

\* ConnectBlock has one result.
LEMMA ConnectsOnce ==
  ASSUME NEW view, NEW vtx, Len(vtx) \in Nat, NEW H, NEW d, NEW e,
         Connects(d, view, vtx, H), Connects(e, view, vtx, H)
  PROVE  d[Len(vtx)] = e[Len(vtx)]
<1> DEFINE L == Len(vtx)
           start == [ok |-> TRUE, view |-> view, fees |-> 0, undo |-> <<>>]
           Bad == {n \in 0..L : d[n] # e[n]}
<1>1. /\ \A i \in 0..L : d[i] = IF i = 0 THEN start ELSE ConnectTx(d[i - 1], vtx[i], H)
      /\ \A i \in 0..L : e[i] = IF i = 0 THEN start ELSE ConnectTx(e[i - 1], vtx[i], H)
  BY DEF Connects
<1>2. L \in Nat
  OBVIOUS
<1> HIDE DEF L, start
<1>3. Bad = {}
  <2> SUFFICES ASSUME Bad # {} PROVE FALSE
    OBVIOUS
  <2>1. Bad \in SUBSET Nat
    BY <1>2
  <2>2. PICK n \in Bad : \A y \in Bad : n <= y
    BY <2>1, Least
  <2>3. n \in 0..L /\ n # 0
    BY <1>1
  <2>4. n - 1 \in 0..L /\ ~(n <= n - 1)
    BY <1>2, <2>3
  <2>5. d[n - 1] = e[n - 1]
    BY <2>2, <2>4
  <2> QED BY <1>1, <2>2, <2>3, <2>5
<1>4. L \in 0..L
  BY <1>2
<1> QED BY <1>3, <1>4 DEF L

\* ConnectBlock accepts the block if the coinbase takes no more than it may.
LEMMA JoinedConnects ==
  ASSUME NEW cb, NEW vtx \in Seq(Transaction), NEW V, NEW f, Joined(cb, vtx, V, f),
         GetValueOut(cb) <= GetBlockValue(Height[tip] + 1, f)
  PROVE  ConnectBlock(viewNew, <<cb>> \o vtx, Height[tip] + 1).ok
<1> DEFINE H == Height[tip] + 1
           all == <<cb>> \o vtx
           n == Len(all)
<1>1. n = Len(vtx) + 1 /\ n \in Nat /\ all[1] = cb
  OBVIOUS
<1> HIDE DEF n, all, H
<1>2. PICK d : Connects(d, viewNew, all, H) /\ Passed(d, n, V, f)
  BY <1>1 DEF Joined, all, H
<1>3. PICK W, u : d[n] = [ok |-> TRUE, view |-> W, fees |-> f, undo |-> u]
  BY <1>2 DEF Passed
<1>4. PICK e : Connects(e, viewNew, all, H) /\ ConnectBlock(viewNew, all, H) = Limited(e[n], all, H)
  BY <1>1, ConnectBlockDef DEF n
<1>5. e[n] = d[n]
  BY <1>1, <1>2, <1>4, ConnectsOnce DEF n
<1>6. CoinbaseLimit(all, H, f)
  BY <1>1 DEF CoinbaseLimit, H
<1>7. ConnectBlock(viewNew, all, H).ok = (TRUE /\ CoinbaseLimit(all, H, f))
  BY <1>3, <1>4, <1>5 DEF Limited
<1> QED BY <1>6, <1>7 DEF all, H

-----------------------------------------------------------------------------
(* Collecting a template.                                                  *)

\* The queue's first transaction is one of the queue.
LEMMA FirstOf ==
  ASSUME mapTx \in SUBSET TxIds, NEW order \in SetToSeqs(mapTx), NEW Q \in SUBSET mapTx, Q # {}
  PROVE  First(order, Q) \in Q
<1> DEFINE n == Cardinality(mapTx)
           D == 1..n
<1>1. IsFiniteSet(mapTx) /\ n \in Nat
  <2>1. IsFiniteSet(mapTx)
    BY CoinsAssumption, FS_Subset
  <2> QED BY <2>1, FS_CardinalityType
<1>2. order \in [D -> mapTx] /\ \A i, j \in D : order[i] = order[j] => i = j
  BY DEF SetToSeqs
<1>3. Cardinality(D) = n
  <2> HIDE DEF n
  <2>1. Cardinality(1..n) = IF 1 > n THEN 0 ELSE n - 1 + 1
    BY <1>1, FS_Interval
  <2> QED BY <1>1, <2>1
<1> HIDE DEF D
<1>4. order \in Injection(D, mapTx)
  BY <1>2 DEF Injection, IsInjective
<1>5. order \in Surjection(D, mapTx)
  BY <1>1, <1>3, <1>4, FS_Injection DEF n
<1>6. \A t \in mapTx : \E i \in D : order[i] = t
  BY <1>5 DEF Surjection
<1> HIDE DEF n
<1> DEFINE Z == {i \in D : order[i] \in Q}
<1>7. Z # {} /\ Z \in SUBSET Nat
  <2>1. Z # {}
    BY <1>6
  <2>2. D \subseteq Nat
    BY <1>1 DEF D
  <2> QED BY <2>1, <2>2
<1>8. PICK i \in Z : \A y \in Z : i <= y
  BY <1>7, Least
<1>9. i \in DOMAIN order /\ order[i] \in Q /\ \A j \in 1..i - 1 : order[j] \notin Q
  <2>1. \A j \in 1..i - 1 : j \in D /\ ~(i <= j)
    <3>1. i \in 1..n
      BY <1>8 DEF D
    <3> QED BY <1>1, <3>1 DEF D
  <2> QED BY <1>2, <1>8, <2>1
<1> QED BY <1>9 DEF First

\* What is not in the view of the template: an output the chain has spent.
Spent(view) == \A o \in SpentInChain(tip) : ~IsAvailable(view[o.hash], o.n)
Fresh(vtx) == \A i \in DOMAIN vtx : vtx[i].hash \in TxIds \ InChain(tip)
Record(m) == m = [view |-> m.view, vtx |-> m.vtx, nFees |-> m.nFees, done |-> m.done, queue |-> m.queue]

\* The invariant of the loop.
Sane(cb, m) == /\ Record(m) /\ m.queue \in SUBSET mapTx /\ m.nFees \in Nat /\ m.vtx \in Seq(Transaction)
               /\ IsView(m.view) /\ Spent(m.view) /\ Fresh(m.vtx) /\ Joined(cb, m.vtx, m.view, m.nFees)

\* A transaction that the template takes is not in the chain: all its inputs would be
\* spent, and the view has no output that the chain has spent.
LEMMA TakenFresh ==
  ASSUME PoolInv, NEW view, Spent(view), NEW t \in mapTx, HaveInputs(view, Tx[t])
  PROVE  t \notin InChain(tip)
<1> SUFFICES ASSUME t \in InChain(tip) PROVE FALSE
  OBVIOUS
<1>1. PICK o \in Inputs(t) : TRUE
  BY DEF PoolInv, SpendSomething
<1>2. o \in SpentInChain(tip)
  BY <1>1 DEF SpentInChain
<1>3. ~Tx[t].coinbase
  BY DEF PoolInv, TypeOK
<1>4. PICK i \in DOMAIN Tx[t].vin : o = Tx[t].vin[i]
  BY <1>1, <1>3 DEF Inputs, Range
<1>5. IsAvailable(view[o.hash], o.n)
  BY <1>3, <1>4 DEF HaveInputs
<1> QED BY <1>2, <1>5 DEF Spent

\* The transactions of a chain.
LEMMA ChainIds ==
  ASSUME NEW b \in Blocks
  PROVE  InChain(b) \subseteq TxIds
<1> SUFFICES ASSUME NEW t \in InChain(b) PROVE t \in TxIds
  OBVIOUS
<1>1. PICK i \in DOMAIN Path[b] : \E j \in DOMAIN Block[Path[b][i]] : t = Block[Path[b][i]][j]
  BY InChainAt
<1>2. Block[Path[b][i]] \in Seq(TxIds)
  <2>1. Path[b][i] \in Blocks
    BY PathType
  <2> QED BY <2>1, PoolAssumption
<1> DEFINE q == Block[Path[b][i]]
<1>3. q \in Seq(TxIds) /\ \E j \in DOMAIN q : t = q[j]
  BY <1>1, <1>2
<1> HIDE DEF q
<1> QED BY <1>3

\* Taking it revives no spent output.
LEMMA StillSpent ==
  ASSUME tip \in Blocks, NEW V, NEW U, Spent(V), NEW t \in TxIds \ InChain(tip),
         \A h \in TxIds \ {t} : NoMore(V, U, h)
  PROVE  Spent(U)
<1> SUFFICES ASSUME NEW o \in SpentInChain(tip), IsAvailable(U[o.hash], o.n) PROVE FALSE
  BY DEF Spent
<1>1. PICK u \in InChain(tip) : o \in Inputs(u)
  BY DEF SpentInChain
<1>2. o.hash \in InChain(tip)
  BY <1>1, SpendsFromChain
<1>3. o.hash \in TxIds
  BY <1>2, ChainIds
<1>4. NoMore(V, U, o.hash)
  BY <1>2, <1>3
<1>5. IsAvailable(V[o.hash], o.n)
  BY <1>4 DEF NoMore
<1> QED BY <1>5 DEF Spent

\* The start of the loop.
Start == [view |-> coins, vtx |-> <<>>, nFees |-> 0, done |-> {}, queue |-> {t \in mapTx : DependsOn(t) = {}}]

\* The invariant holds there.
LEMMA StartSane ==
  ASSUME PoolInv, NEW cb, IsCoinbase(cb)
  PROVE  Sane(cb, Start)
<1>1. tip \in Blocks
  BY DEF PoolInv, TypeOK
<1>2. Joined(cb, <<>>, coins, 0)
  BY <1>1, JoinedFirst
<1>3. IsView(coins)
  BY <1>1, CoinsAssumption DEF IsView, coins
<1>4. Spent(coins)
  BY <1>1, ChainAssumption DEF Spent, coins
<1>5. Start.queue \in SUBSET mapTx /\ Record(Start)
  BY DEF Start, Record
<1>6. Start.view = coins /\ Start.vtx = <<>> /\ Start.nFees = 0
  BY DEF Start
<1>7. Fresh(<<>>) /\ <<>> \in Seq(Transaction) /\ 0 \in Nat
  BY DEF Fresh
<1> QED BY <1>2, <1>3, <1>4, <1>5, <1>6, <1>7 DEF Sane

\* One turn keeps it.
LEMMA CollectSane ==
  ASSUME PoolInv, NEW cb, NEW m, Sane(cb, m), NEW order \in SetToSeqs(mapTx), NEW fit, NEW stray
  PROVE  Sane(cb, Collect(m, order, fit, stray))
<1> DEFINE t == First(order, m.queue)
           rest == m.queue \ {t}
           done == m.done \cup {t}
           H == Height[tip] + 1
           r == Collect(m, order, fit, stray)
<1>1. /\ tip \in Blocks /\ mapTx \in SUBSET TxIds /\ \A u \in mapTx : ~Tx[u].coinbase
  BY DEF PoolInv, TypeOK
<1>2. CASE m.queue = {}
  BY <1>2 DEF Collect
<1>3. CASE m.queue # {} /\ ~(t \in fit /\ Takes(m.view, t))
  <2>1. r = [m EXCEPT !.queue = rest]
    BY <1>3 DEF Collect
  <2>2. rest \in SUBSET mapTx
    BY DEF Sane
  <2> HIDE DEF rest, r
  <2>3. r = [view |-> m.view, vtx |-> m.vtx, nFees |-> m.nFees, done |-> m.done, queue |-> rest]
    BY <2>1 DEF Sane, Record
  <2>4. /\ r.view = m.view /\ r.vtx = m.vtx /\ r.nFees = m.nFees /\ r.queue = rest /\ Record(r)
    BY <2>3 DEF Record
  <2>5. Sane(cb, r)
    BY <2>2, <2>4 DEF Sane
  <2> QED BY <2>5 DEF r
<1>4. CASE m.queue # {} /\ t \in fit /\ Takes(m.view, t)
  <2> DEFINE tx == Tx[t]
             V == m.view
             U == UpdateCoins(V, tx, H).view
             f == m.nFees + (GetValueIn(V, tx) - GetValueOut(tx))
             q == rest \cup Woken(t, done, stray)
             vtx == Append(m.vtx, tx)
  <2>1. r = [view |-> U, vtx |-> vtx, nFees |-> f, done |-> done, queue |-> q]
    BY <1>4 DEF Collect
  <2>2. t \in mapTx
    <3>1. m.queue \in SUBSET mapTx
      BY DEF Sane
    <3> QED BY <1>1, <1>4, <3>1, FirstOf
  <2>3. /\ HaveInputs(V, tx) /\ CheckInputs(V, tx, H)
    BY <1>4 DEF Takes
  <2>4. q \in SUBSET mapTx
    BY DEF Sane, Woken
  <2>5. Record(r) /\ r.view = U /\ r.vtx = vtx /\ r.nFees = f /\ r.queue = q
    BY <2>1 DEF Record
  <2>6. tx \in Transaction /\ tx.hash = t /\ ~tx.coinbase /\ t \in TxIds
    BY <1>1, <2>2, PoolAssumption, CoinsAssumption
  <2>7. H \in Nat
    BY <1>1, PoolAssumption
  <2>8. t \notin InChain(tip)
    BY <2>2, <2>3, TakenFresh DEF Sane
  <2> HIDE DEF t, q, r, H, tx
  <2>9. m.nFees \in Nat /\ m.vtx \in Seq(Transaction) /\ IsView(V) /\ Spent(V) /\ Fresh(m.vtx) /\ Joined(cb, m.vtx, V, m.nFees)
    BY DEF Sane
  <2>10. f \in Nat
    <3>1. GetValueIn(V, tx) - GetValueOut(tx) \in Nat
      BY <2>3, <2>6, <2>9, FeeNat
    <3> QED BY <2>9, <3>1
  <2>11. PICK W : Agree(V, W)
    BY <2>9 DEF Joined, Passed
  <2>12. Agree(U, UpdateCoins(W, tx, H).view) /\ \A h \in TxIds \ {t} : NoMore(V, U, h)
    <3>1. \A h \in TxIds \ {tx.hash} : NoMore(V, U, h)
      BY <2>6, <2>7, <2>11, UpdateAgree
    <3>2. Agree(U, UpdateCoins(W, tx, H).view)
      BY <2>6, <2>7, <2>11, UpdateAgree
    <3> QED BY <3>1, <3>2, <2>6
  <2>13. Joined(cb, vtx, U, f)
    BY <1>1, <2>3, <2>6, <2>9, JoinedNext DEF H
  <2> HIDE DEF V, U, f
  <2>14. IsView(U)
    BY <2>12 DEF Agree
  <2>15. Spent(U)
    BY <1>1, <2>6, <2>8, <2>9, <2>12, StillSpent
  <2>16. vtx \in Seq(Transaction) /\ Fresh(vtx)
    <3>1. /\ vtx \in Seq(Transaction) /\ DOMAIN vtx = 1..Len(m.vtx) + 1
          /\ \A i \in DOMAIN vtx : vtx[i] = tx \/ (i \in DOMAIN m.vtx /\ vtx[i] = m.vtx[i])
      BY <2>6, <2>9
    <3> HIDE DEF vtx
    <3> QED BY <2>6, <2>8, <2>9, <3>1 DEF Fresh
  <2> HIDE DEF vtx
  <2>17. Sane(cb, r)
    BY <2>4, <2>5, <2>10, <2>13, <2>14, <2>15, <2>16 DEF Sane
  <2> QED BY <2>17 DEF r
<1> QED BY <1>2, <1>3, <1>4

\* The loop runs from Start.
Collects(made, order, fit, stray) ==
  made = [n \in 0..Cardinality(mapTx) |-> IF n = 0 THEN Start ELSE Collect(made[n - 1], order, fit, stray)]
LEMMA TemplateDef ==
  ASSUME mapTx \in SUBSET TxIds, NEW order, NEW fit, NEW stray
  PROVE  /\ Cardinality(mapTx) \in Nat
         /\ \E made : Collects(made, order, fit, stray) /\ Template(order, fit, stray) = made[Cardinality(mapTx)]
<1> DEFINE L == Cardinality(mapTx)
           Is(g, n) == g = [i \in 0..n |-> IF i = 0 THEN Start ELSE Collect(g[i - 1], order, fit, stray)]
           Bad == {n \in Nat : ~\E g : Is(g, n)}
<1>0. L \in Nat
  <2>1. IsFiniteSet(mapTx)
    BY CoinsAssumption, FS_Subset
  <2> QED BY <2>1, FS_CardinalityType
<1>1. Bad = {}
  <2> SUFFICES ASSUME Bad # {} PROVE FALSE
    OBVIOUS
  <2>1. PICK n \in Bad : \A y \in Bad : n <= y
    <3> HIDE DEF Is
    <3> QED BY Least
  <2>2. n # 0
    <3>1. Is([i \in 0..0 |-> Start], 0)
      OBVIOUS
    <3> HIDE DEF Is
    <3> QED BY <3>1
  <2>3. PICK g : Is(g, n - 1)
    <3> HIDE DEF Is
    <3> QED BY <2>1, <2>2
  <2>4. Is([i \in 0..n |-> IF i = n THEN Collect(g[n - 1], order, fit, stray) ELSE g[i]], n)
    BY <2>2, <2>3
  <2> HIDE DEF Is
  <2> QED BY <2>4
<1>2. PICK g : g = (CHOOSE f : Is(f, L))
  OBVIOUS
<1>3. Is(g, L)
  <2> HIDE DEF Is, L
  <2>1. \E f : Is(f, L)
    BY <1>0, <1>1
  <2> QED BY <1>2, <2>1
<1>4. Template(order, fit, stray) = g[L]
  BY <1>2 DEF Template, Start
<1> QED BY <1>0, <1>3, <1>4 DEF Collects

\* So it holds of the finished template.
LEMMA TemplateSane ==
  ASSUME PoolInv, NEW cb, IsCoinbase(cb), NEW order \in SetToSeqs(mapTx), NEW fit, NEW stray
  PROVE  Sane(cb, Template(order, fit, stray))
<1> DEFINE L == Cardinality(mapTx)
<1>1. mapTx \in SUBSET TxIds
  BY DEF PoolInv, TypeOK
<1>2. L \in Nat /\ \E made : Collects(made, order, fit, stray) /\ Template(order, fit, stray) = made[L]
  BY <1>1, TemplateDef
<1>3. PICK made : Collects(made, order, fit, stray) /\ Template(order, fit, stray) = made[L]
  BY <1>2
<1>4. \A n \in 0..L : made[n] = IF n = 0 THEN Start ELSE Collect(made[n - 1], order, fit, stray)
  BY <1>3 DEF Collects
<1> HIDE DEF L
<1> DEFINE Bad == {n \in 0..L : ~Sane(cb, made[n])}
<1>5. Bad = {}
  <2> SUFFICES ASSUME Bad # {} PROVE FALSE
    OBVIOUS
  <2>1. Bad \in SUBSET Nat
    BY <1>2
  <2>2. PICK n \in Bad : \A y \in Bad : n <= y
    BY <2>1, Least
  <2>3. n \in 0..L /\ n # 0
    BY <1>4, StartSane
  <2>4. n - 1 \in 0..L /\ ~(n <= n - 1)
    BY <1>2, <2>3
  <2>5. Sane(cb, made[n - 1])
    BY <2>2, <2>4
  <2>6. made[n] = Collect(made[n - 1], order, fit, stray)
    BY <1>4, <2>3
  <2>7. Sane(cb, made[n])
    BY <2>5, <2>6, CollectSane
  <2> QED BY <2>2, <2>7
<1>6. L \in 0..L
  BY <1>2
<1> QED BY <1>3, <1>5, <1>6

\* The reward of every block after the genesis block is a number; RewardPlusFees of
\* LedgerProofs says more.
RewardIsNat == \A nHeight \in Nat \ {0}, nFees \in Nat : GetBlockValue(nHeight, nFees) \in Nat

\* CreateNewBlock never throws `ConnectBlock failed': in every reachable state, whatever
\* transactions the pool holds, in whatever order and number they are taken, and whatever
\* the COrphans read as that it has removed for a missing input, the block connects on top
\* of the tip with a coinbase that takes the whole reward, and none of its transactions
\* overwrites one that has unspent outputs (BIP 30).
THEOREM TemplatesConnect ==
  ASSUME RewardIsNat
  PROVE  Spec => []TemplateConnects
<1>1. PoolInv => TemplateConnects
  <2> SUFFICES ASSUME PoolInv, NEW order \in SetToSeqs(mapTx), NEW fit \in SUBSET mapTx, NEW stray \in SUBSET Dangling
               PROVE  LET made == Template(order, fit, stray)
                      IN  /\ ConnectBlock(viewNew, <<Coinbase(made.nFees)>> \o made.vtx, Height[tip] + 1).ok
                          /\ \A i \in DOMAIN made.vtx : coins[made.vtx[i].hash] = NoCoins
    BY DEF TemplateConnects
  <2> DEFINE made == Template(order, fit, stray)
             f == made.nFees
             cb == Coinbase(f)
             H == Height[tip] + 1
  <2>1. tip \in Blocks /\ H \in Nat \ {0}
    BY PoolAssumption DEF PoolInv, TypeOK
  <2>2. IsCoinbase(cb)
    BY DEF IsCoinbase, Coinbase
  <2>3. Sane(cb, made)
    <3> HIDE DEF cb, made
    <3> QED BY <2>2, TemplateSane DEF made
  <2> HIDE DEF made
  <2>4. f \in Nat /\ made.vtx \in Seq(Transaction) /\ Fresh(made.vtx) /\ Joined(cb, made.vtx, made.view, f)
    BY <2>3 DEF Sane
  <2>5. GetValueOut(cb) <= GetBlockValue(H, f)
    <3> DEFINE v == GetBlockValue(H, f)
    <3>1. v \in Nat
      BY <2>1, <2>4 DEF RewardIsNat
    <3>2. cb.vout = <<v>>
      BY DEF Coinbase
    <3> HIDE DEF v, cb
    <3>3. GetValueOut(cb) = v
      BY <3>1, <3>2, ValueOfOne DEF GetValueOut
    <3> QED BY <3>1, <3>3 DEF v
  <2>6. ConnectBlock(viewNew, <<cb>> \o made.vtx, H).ok
    <3> HIDE DEF cb, f
    <3> QED BY <2>4, <2>5, JoinedConnects
  <2>7. ASSUME NEW i \in DOMAIN made.vtx PROVE coins[made.vtx[i].hash] = NoCoins
    <3>1. made.vtx[i].hash \in TxIds \ InChain(tip)
      BY <2>4 DEF Fresh
    <3> DEFINE h == made.vtx[i].hash
    <3> HIDE DEF h
    <3>2. \A k \in TxIds : CoinsAt[tip][k] # NoCoins => k \in InChain(tip)
      BY <2>1, CoinsAssumption
    <3>3. h \in TxIds \ InChain(tip)
      BY <3>1 DEF h
    <3>4. CoinsAt[tip][h] = NoCoins
      BY <3>2, <3>3
    <3> QED BY <3>4 DEF h, coins
  <2> QED BY <2>6, <2>7 DEF made
<1> QED BY <1>1, PoolInductive, PTL
=============================================================================
