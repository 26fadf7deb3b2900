---------------------------- MODULE LedgerProofs ----------------------------
(***************************************************************************)
(* The coins view is exactly what the chain created and did not spend, no  *)
(* output is spent twice or too early, DisconnectBlock inverts             *)
(* ConnectBlock, and the outputs are worth no more than the subsidies, for *)
(* any transactions, blocks and heights.                                   *)
(*                                                                         *)
(* The ledger operators are recursive functions over the transactions of a *)
(* block and the inputs of a transaction.  What they compute is proved by  *)
(* induction in the form of the least-number principle: the least index    *)
(* for which a claim fails is not 0, and the claim holds for the index     *)
(* before it.                                                              *)
(***************************************************************************)
EXTENDS Ledger, TLAPS, WellFoundedInduction, SequenceTheorems, FiniteSetTheorems

-----------------------------------------------------------------------------
(* Induction and recursive functions.                                      *)

\* Every non-empty set of natural numbers has a least element.
LEMMA Least ==
  ASSUME NEW T \in SUBSET Nat, T # {}
  PROVE  \E x \in T : \A y \in T : x <= y
<1> DEFINE R == OpToRel(<, Nat)
<1>1. IsWellFoundedOn(R, Nat)
  BY NatLessThanWellFounded
<1>2. \A x, y \in Nat : <<y, x>> \in R <=> y < x
  BY DEF OpToRel
<1> HIDE DEF R
<1>3. PICK x \in T : \A y \in T : ~(<<y, x>> \in R)
  BY <1>1, WFMin
<1>4. \A y \in T : ~(y < x)
  BY <1>2, <1>3
<1> QED
  BY <1>3, <1>4

\* A sequence that is not empty has a first element.
LEMMA NonEmpty ==
  ASSUME NEW S, NEW s \in Seq(S), s # <<>>
  PROVE  Len(s) \in Nat \ {0} /\ DOMAIN s = 1..Len(s) /\ 1 \in DOMAIN s
<1>1. Len(s) \in Nat \ {0} /\ DOMAIN s = 1..Len(s)
  BY EmptySeq, LenProperties
<1> QED BY <1>1

\* The inputs that UpdateCoins spends, one after the other.
Spends(spent, view, tx) ==
  spent = [i \in 0..Len(tx.vin) |-> IF i = 0 \/ tx.coinbase THEN [view |-> view, undo |-> <<>>]
                                    ELSE SpendOne(spent[i - 1], tx.vin[i])]
LEMMA UpdateCoinsDef ==
  ASSUME NEW view, NEW tx, Len(tx.vin) \in Nat, NEW nHeight
  PROVE  \E spent : /\ Spends(spent, view, tx)
                    /\ UpdateCoins(view, tx, nHeight) =
                         [spent[Len(tx.vin)] EXCEPT
                            !.view = [spent[Len(tx.vin)].view EXCEPT ![tx.hash] = CCoins(tx, nHeight)]]
<1> DEFINE Is(g, n) == g = [i \in 0..n |-> IF i = 0 \/ tx.coinbase THEN [view |-> view, undo |-> <<>>]
                                           ELSE SpendOne(g[i - 1], tx.vin[i])]
           Bad == {n \in Nat : ~\E g : Is(g, n)}
<1>1. Bad = {}
  <2> SUFFICES ASSUME Bad # {} PROVE FALSE
    OBVIOUS
  <2>1. PICK n \in Bad : \A y \in Bad : n <= y
    <3> HIDE DEF Is
    <3> QED BY Least
  <2>2. n # 0
    <3>1. Is([i \in 0..0 |-> [view |-> view, undo |-> <<>>]], 0)
      OBVIOUS
    <3> HIDE DEF Is
    <3> QED BY <3>1
  <2>3. PICK g : Is(g, n - 1)
    <3> HIDE DEF Is
    <3> QED BY <2>1, <2>2
  <2>4. Is([i \in 0..n |-> IF i = n THEN IF tx.coinbase THEN [view |-> view, undo |-> <<>>]
                                         ELSE SpendOne(g[n - 1], tx.vin[n])
                           ELSE g[i]], n)
    BY <2>2, <2>3
  <2> HIDE DEF Is
  <2> QED BY <2>4
<1>2. \E g : Is(g, Len(tx.vin))
  <2> HIDE DEF Is
  <2> QED BY <1>1
<1> QED
  BY <1>2 DEF UpdateCoins, Spends

\* The transactions that ConnectBlock connects.
Connects(done, view, vtx, nHeight) ==
  done = [i \in 0..Len(vtx) |-> IF i = 0 THEN [ok |-> TRUE, view |-> view, fees |-> 0, undo |-> <<>>]
                                ELSE ConnectTx(done[i - 1], vtx[i], nHeight)]
LEMMA ConnectBlockDef ==
  ASSUME NEW view, NEW vtx, Len(vtx) \in Nat, NEW nHeight
  PROVE  \E done : /\ Connects(done, view, vtx, nHeight)
                   /\ ConnectBlock(view, vtx, nHeight) =
                        [done[Len(vtx)] EXCEPT !.ok = @ /\ CoinbaseLimit(vtx, nHeight, done[Len(vtx)].fees)]
<1> DEFINE start == [ok |-> TRUE, view |-> view, fees |-> 0, undo |-> <<>>]
           Is(g, n) == g = [i \in 0..n |-> IF i = 0 THEN start ELSE ConnectTx(g[i - 1], vtx[i], nHeight)]
           Bad == {n \in Nat : ~\E g : Is(g, n)}
<1> HIDE DEF start
<1>1. Bad = {}
  <2> SUFFICES ASSUME Bad # {} PROVE FALSE
    OBVIOUS
  <2>1. PICK n \in Bad : \A y \in Bad : n <= y
    <3> HIDE DEF Is
    <3> QED BY Least
  <2>2. n # 0
    <3>1. Is([i \in 0..0 |-> start], 0)
      OBVIOUS
    <3> HIDE DEF Is
    <3> QED BY <3>1
  <2>3. PICK g : Is(g, n - 1)
    <3> HIDE DEF Is
    <3> QED BY <2>1, <2>2
  <2>4. Is([i \in 0..n |-> IF i = n THEN ConnectTx(g[n - 1], vtx[n], nHeight) ELSE g[i]], n)
    BY <2>2, <2>3
  <2> HIDE DEF Is
  <2> QED BY <2>4
<1>2. PICK g : Is(g, Len(vtx))
  <2> HIDE DEF Is
  <2> QED BY <1>1
<1> QED
  BY <1>2 DEF ConnectBlock, Connects, start

\* The inputs that DisconnectBlock restores, from the last to the first.
Restores(restored, acc, tx, undo) ==
  restored = [j \in 1..Len(tx.vin) + 1 |->
                IF j > Len(tx.vin) THEN acc ELSE RestoreOne(restored[j + 1], tx.vin[j], undo[j])]
LEMMA RestoreInputsDef ==
  ASSUME NEW acc, NEW tx, Len(tx.vin) \in Nat, NEW undo
  PROVE  \E restored : Restores(restored, acc, tx, undo) /\ RestoreInputs(acc, tx, undo) = restored[1]
<1> DEFINE L == Len(tx.vin)
           Is(g, k) == g = [j \in k..L + 1 |->
                              IF j > L THEN acc ELSE RestoreOne(g[j + 1], tx.vin[j], undo[j])]
           Bad == {n \in 0..L : ~\E g : Is(g, L + 1 - n)}
<1> HIDE DEF L
<1>0. L \in Nat /\ L = Len(tx.vin)
  BY DEF L
<1>1. Bad = {}
  <2> SUFFICES ASSUME Bad # {} PROVE FALSE
    OBVIOUS
  <2>1. PICK n \in Bad : \A y \in Bad : n <= y
    <3> HIDE DEF Is
    <3>1. Bad \in SUBSET Nat
      BY <1>0
    <3> QED BY <3>1, Least
  <2>2. n # 0
    <3>1. Is([j \in L + 1..L + 1 |-> acc], L + 1)
      BY <1>0
    <3> HIDE DEF Is
    <3> QED BY <3>1, <1>0
  <2> DEFINE k == L + 1 - n
  <2>3. k \in 1..L /\ L + 1 - n = k /\ n - 1 \in 0..L /\ L + 1 - (n - 1) = k + 1
    <3> HIDE DEF Is
    <3> QED BY <2>2, <1>0
  <2>4. PICK g : Is(g, k + 1)
    <3>1. n - 1 \notin Bad
      <4>1. n \in Nat
        BY <1>0
      <4> HIDE DEF Bad
      <4> QED BY <2>1, <4>1
    <3> HIDE DEF Is, k
    <3> QED BY <2>3, <3>1
  <2> HIDE DEF k
  <2> DEFINE h == [j \in k..L + 1 |-> IF j = k THEN RestoreOne(g[k + 1], tx.vin[k], undo[k]) ELSE g[j]]
  <2>5. ASSUME NEW j \in k..L + 1
        PROVE  h[j] = IF j > L THEN acc ELSE RestoreOne(h[j + 1], tx.vin[j], undo[j])
    <3>1. CASE j = k
      <4>1. k + 1 \in k..L + 1 /\ k + 1 # k /\ ~(k > L)
        BY <2>3, <1>0
      <4>2. h[k] = RestoreOne(g[k + 1], tx.vin[k], undo[k]) /\ h[k + 1] = g[k + 1]
        BY <4>1, <2>3, <1>0
      <4> HIDE DEF h
      <4> QED BY <4>1, <4>2, <3>1
    <3>2. CASE j # k
      <4>1. j \in k + 1..L + 1 /\ (j > L \/ (j + 1 \in k + 1..L + 1 /\ j + 1 # k /\ j + 1 \in k..L + 1))
        BY <3>2, <2>3, <1>0
      <4>2. g[j] = IF j > L THEN acc ELSE RestoreOne(g[j + 1], tx.vin[j], undo[j])
        BY <4>1, <2>4
      <4>3. h[j] = g[j] /\ (j > L \/ h[j + 1] = g[j + 1])
        BY <4>1, <3>2, <2>5
      <4> HIDE DEF h
      <4> QED BY <4>2, <4>3
    <3> QED BY <3>1, <3>2
  <2>6. Is(h, k)
    <3>1. h = [j \in k..L + 1 |-> h[j]]
      OBVIOUS
    <3> HIDE DEF h
    <3> QED BY <2>5, <3>1
  <2> HIDE DEF Is, h
  <2> QED BY <2>6, <2>3, <2>1
<1>2. PICK g : Is(g, 1)
  <2> HIDE DEF Is
  <2>1. 0..L # {} /\ L \in 0..L /\ L + 1 - L = 1
    BY <1>0
  <2> QED BY <2>1, <1>1
<1>3. g = [j \in 1..L + 1 |-> IF j > L THEN acc ELSE RestoreOne(g[j + 1], tx.vin[j], undo[j])]
  BY <1>2, <1>0
<1> QED
  BY <1>3, <1>0 DEF RestoreInputs, Restores

\* The transactions that DisconnectBlock takes back, from the last to the first.
Undoes(undone, view, vtx, undo, nHeight) ==
  undone = [i \in 1..Len(vtx) + 1 |-> IF i > Len(vtx) THEN [clean |-> TRUE, view |-> view]
                                      ELSE DisconnectTx(undone[i + 1], vtx, i, undo, nHeight)]
LEMMA DisconnectBlockDef ==
  ASSUME NEW view, NEW vtx, Len(vtx) \in Nat, NEW undo, NEW nHeight
  PROVE  \E undone : /\ Undoes(undone, view, vtx, undo, nHeight)
                     /\ DisconnectBlock(view, vtx, undo, nHeight) = undone[1]
<1> DEFINE L == Len(vtx)
           start == [clean |-> TRUE, view |-> view]
           Is(g, k) == g = [i \in k..L + 1 |->
                              IF i > L THEN start
                              ELSE DisconnectTx(g[i + 1], vtx, i, undo, nHeight)]
           Bad == {n \in 0..L : ~\E g : Is(g, L + 1 - n)}
<1> HIDE DEF L, start
<1>0. L \in Nat /\ L = Len(vtx)
  BY DEF L
<1>1. Bad = {}
  <2> SUFFICES ASSUME Bad # {} PROVE FALSE
    OBVIOUS
  <2>1. PICK n \in Bad : \A y \in Bad : n <= y
    <3> HIDE DEF Is
    <3>1. Bad \in SUBSET Nat
      BY <1>0
    <3> QED BY <3>1, Least
  <2>2. n # 0
    <3>1. Is([i \in L + 1..L + 1 |-> start], L + 1)
      BY <1>0
    <3> HIDE DEF Is
    <3> QED BY <3>1, <1>0
  <2> DEFINE k == L + 1 - n
  <2>3. k \in 1..L /\ L + 1 - n = k /\ n - 1 \in 0..L /\ L + 1 - (n - 1) = k + 1
    <3> HIDE DEF Is
    <3> QED BY <2>2, <1>0
  <2>4. PICK g : Is(g, k + 1)
    <3>1. n - 1 \notin Bad
      <4>1. n \in Nat
        BY <1>0
      <4> HIDE DEF Bad
      <4> QED BY <2>1, <4>1
    <3> HIDE DEF Is, k
    <3> QED BY <2>3, <3>1
  <2> HIDE DEF k
  <2> DEFINE h == [i \in k..L + 1 |-> IF i = k THEN DisconnectTx(g[k + 1], vtx, k, undo, nHeight) ELSE g[i]]
  <2>5. ASSUME NEW i \in k..L + 1
        PROVE  h[i] = IF i > L THEN start ELSE DisconnectTx(h[i + 1], vtx, i, undo, nHeight)
    <3>1. CASE i = k
      <4>1. k + 1 \in k..L + 1 /\ k + 1 # k /\ ~(k > L)
        BY <2>3, <1>0
      <4>2. h[k] = DisconnectTx(g[k + 1], vtx, k, undo, nHeight) /\ h[k + 1] = g[k + 1]
        BY <4>1, <2>3, <1>0
      <4> HIDE DEF h
      <4> QED BY <4>1, <4>2, <3>1
    <3>2. CASE i # k
      <4>1. i \in k + 1..L + 1 /\ (i > L \/ (i + 1 \in k + 1..L + 1 /\ i + 1 # k /\ i + 1 \in k..L + 1))
        BY <3>2, <2>3, <1>0
      <4>2. g[i] = IF i > L THEN start ELSE DisconnectTx(g[i + 1], vtx, i, undo, nHeight)
        BY <4>1, <2>4
      <4>3. h[i] = g[i] /\ (i > L \/ h[i + 1] = g[i + 1])
        BY <4>1, <3>2, <2>5
      <4> HIDE DEF h
      <4> QED BY <4>2, <4>3
    <3> QED BY <3>1, <3>2
  <2>6. Is(h, k)
    <3>1. h = [i \in k..L + 1 |-> h[i]]
      OBVIOUS
    <3> HIDE DEF h
    <3> QED BY <2>5, <3>1
  <2> HIDE DEF Is, h
  <2> QED BY <2>6, <2>3, <2>1
<1>2. PICK g : Is(g, 1)
  <2> HIDE DEF Is
  <2>1. 0..L # {} /\ L \in 0..L /\ L + 1 - L = 1
    BY <1>0
  <2> QED BY <2>1, <1>1
<1>3. g = [i \in 1..L + 1 |-> IF i > L THEN start
                              ELSE DisconnectTx(g[i + 1], vtx, i, undo, nHeight)]
  BY <1>2, <1>0
<1> QED
  BY <1>3, <1>0 DEF DisconnectBlock, Undoes, start

-----------------------------------------------------------------------------
(* Sums.                                                                   *)

\* The sum of f over S; FoldFunctionOnSet takes the elements of S as CHOOSE gives them.
Total(f, S) == FoldFunctionOnSet(+, 0, f, S)
One(s) == CHOOSE x \in s : TRUE
Folds(g, f, S) == g = [s \in SUBSET S |-> IF s = {} THEN 0 ELSE f[One(s)] + g[s \ {One(s)}]]

\* The sum is the value of such a function.
LEMMA SumDef ==
  ASSUME NEW f, NEW S
  PROVE  Total(f, S) = (CHOOSE g : Folds(g, f, S))[S]
BY DEF Total, FoldFunctionOnSet, MapThenFoldSet, Folds, One

\* The least-number principle for the size of a set.
LEMMA Smallest ==
  ASSUME NEW K, NEW S, IsFiniteSet(S), K \subseteq SUBSET S, K # {}
  PROVE  \E s \in K : /\ IsFiniteSet(s) /\ Cardinality(s) \in Nat
                      /\ \A t \in K : Cardinality(s) <= Cardinality(t)
<1>1. \A s \in SUBSET S : IsFiniteSet(s) /\ Cardinality(s) \in Nat
  BY FS_Subset, FS_CardinalityType
<1> DEFINE C == {Cardinality(s) : s \in K}
<1>2. C \in SUBSET Nat /\ C # {}
  BY <1>1
<1>3. PICK n \in C : \A m \in C : n <= m
  <2> HIDE DEF C
  <2> QED BY <1>2, Least
<1> QED BY <1>1, <1>3

\* A set with one element less.
LEMMA Smaller ==
  ASSUME NEW S, IsFiniteSet(S), NEW x \in S
  PROVE  /\ IsFiniteSet(S \ {x}) /\ Cardinality(S) \in Nat /\ Cardinality(S \ {x}) \in Nat
         /\ Cardinality(S \ {x}) < Cardinality(S)
BY FS_RemoveElement, FS_CardinalityType

\* There is such a function on the subsets of a finite set.
LEMMA FoldsExist ==
  ASSUME NEW f, NEW S, IsFiniteSet(S)
  PROVE  \E g : Folds(g, f, S)
<1> DEFINE Small(n) == {s \in SUBSET S : Cardinality(s) <= n}
           Is(g, n) == g = [s \in Small(n) |-> IF s = {} THEN 0 ELSE f[One(s)] + g[s \ {One(s)}]]
           Bad == {n \in Nat : ~\E g : Is(g, n)}
<1>0. \A s \in SUBSET S : IsFiniteSet(s) /\ Cardinality(s) \in Nat /\ Cardinality(s) <= Cardinality(S)
  BY FS_Subset, FS_CardinalityType
<1>1. Bad = {}
  <2> SUFFICES ASSUME Bad # {} PROVE FALSE
    OBVIOUS
  <2>1. PICK n \in Bad : \A y \in Bad : n <= y
    <3> HIDE DEF Is
    <3> QED BY Least
  <2>2. n # 0
    <3>1. Small(0) = {{}}
      BY <1>0, FS_EmptySet
    <3>2. Is([s \in Small(0) |-> 0], 0)
      BY <3>1
    <3> HIDE DEF Is
    <3> QED BY <3>2
  <2>3. PICK g : Is(g, n - 1)
    <3> HIDE DEF Is
    <3> QED BY <2>1, <2>2
  <2> DEFINE Val(s) == IF s = {} THEN 0 ELSE f[One(s)] + g[s \ {One(s)}]
             h == [s \in Small(n) |-> Val(s)]
  <2>4. ASSUME NEW s \in Small(n), s # {} PROVE s \ {One(s)} \in Small(n - 1)
    <3>1. One(s) \in s
      BY <2>4 DEF One
    <3> QED BY <1>0, <3>1, Smaller
  <2>5. Small(n - 1) \subseteq Small(n)
    BY <1>0
  <2>6. \A s \in Small(n - 1) : g[s] = Val(s)
    BY <2>3
  <2>7. \A s \in Small(n) : h[s] = Val(s)
    OBVIOUS
  <2>8. \A s \in Small(n) : s # {} => h[s \ {One(s)}] = g[s \ {One(s)}]
    <3> HIDE DEF Small, h, Val
    <3> QED BY <2>4, <2>5, <2>6, <2>7
  <2>9. Is(h, n)
    <3>1. \A s \in Small(n) : Val(s) = IF s = {} THEN 0 ELSE f[One(s)] + h[s \ {One(s)}]
      <4> HIDE DEF Small, h
      <4> QED BY <2>8
    <3> DEFINE e == [s \in Small(n) |-> IF s = {} THEN 0 ELSE f[One(s)] + h[s \ {One(s)}]]
    <3>2. h = e
      <4> HIDE DEF Small, Val
      <4> QED BY <3>1
    <3> QED BY <3>2
  <2> HIDE DEF Is
  <2> QED BY <2>9
<1>2. Cardinality(S) \in Nat /\ Small(Cardinality(S)) = SUBSET S
  BY <1>0, FS_CardinalityType
<1>3. PICK g : Is(g, Cardinality(S))
  <2> HIDE DEF Is
  <2> QED BY <1>1, <1>2
<1>4. Folds(g, f, S)
  BY <1>2, <1>3 DEF Folds
<1> QED BY <1>4

\* What it gives for a set depends on the values in that set only.
LEMMA FoldsAgree ==
  ASSUME NEW f, NEW e, NEW S, NEW T, IsFiniteSet(T), T \subseteq S,
         \A x \in T : f[x] = e[x],
         NEW g, NEW h, Folds(g, f, S), Folds(h, e, T)
  PROVE  \A s \in SUBSET T : g[s] = h[s]
<1> DEFINE K == {s \in SUBSET T : g[s] # h[s]}
<1> SUFFICES ASSUME K # {} PROVE FALSE
  OBVIOUS
<1>1. PICK s \in K : /\ IsFiniteSet(s) /\ Cardinality(s) \in Nat
                     /\ \A t \in K : Cardinality(s) <= Cardinality(t)
  <2>1. K \subseteq SUBSET T
    OBVIOUS
  <2> HIDE DEF K
  <2> QED BY <2>1, Smallest
<1>2. g[s] = IF s = {} THEN 0 ELSE f[One(s)] + g[s \ {One(s)}]
  BY DEF Folds
<1>3. h[s] = IF s = {} THEN 0 ELSE e[One(s)] + h[s \ {One(s)}]
  BY DEF Folds
<1>4. s # {}
  BY <1>2, <1>3
<1>5. One(s) \in s
  BY <1>4 DEF One
<1>6. Cardinality(s \ {One(s)}) < Cardinality(s) /\ Cardinality(s \ {One(s)}) \in Nat
  BY <1>1, <1>5, Smaller
<1>7. s \ {One(s)} \in SUBSET T /\ s \ {One(s)} \notin K
  BY <1>1, <1>6
<1> QED BY <1>2, <1>3, <1>4, <1>5, <1>7

\* Functions that agree have the same sum.
LEMMA SumAgree ==
  ASSUME NEW f, NEW e, NEW S, IsFiniteSet(S), \A x \in S : f[x] = e[x]
  PROVE  Total(f, S) = Total(e, S)
<1> DEFINE g == CHOOSE g : Folds(g, f, S)
           h == CHOOSE h : Folds(h, e, S)
<1>1. Folds(g, f, S) /\ Folds(h, e, S)
  BY FoldsExist
<1>2. Total(f, S) = g[S] /\ Total(e, S) = h[S]
  BY SumDef
<1>3. S \subseteq S /\ S \in SUBSET S
  OBVIOUS
<1> HIDE DEF g, h
<1>4. \A s \in SUBSET S : g[s] = h[s]
  BY <1>1, <1>3, FoldsAgree
<1> QED BY <1>2, <1>3, <1>4

\* The sum over nothing.
LEMMA SumEmpty ==
  ASSUME NEW f
  PROVE  Total(f, {}) = 0
<1>1. Folds(CHOOSE g : Folds(g, f, {}), f, {})
  BY FS_EmptySet, FoldsExist
<1> QED BY <1>1, SumDef DEF Folds

\* The sum over a set is one value and the sum over the others ...
LEMMA SumStep ==
  ASSUME NEW f, NEW S, IsFiniteSet(S), S # {}
  PROVE  One(S) \in S /\ Total(f, S) = f[One(S)] + Total(f, S \ {One(S)})
<1>1. One(S) \in S
  BY DEF One
<1> DEFINE T == S \ {One(S)}
           g == CHOOSE g : Folds(g, f, S)
           h == CHOOSE h : Folds(h, f, T)
<1>2. IsFiniteSet(T)
  BY <1>1, Smaller
<1>3. Folds(g, f, S) /\ Folds(h, f, T)
  BY <1>2, FoldsExist
<1>4. Total(f, S) = g[S] /\ Total(f, T) = h[T]
  BY SumDef
<1>5. g[S] = f[One(S)] + g[T]
  <2> HIDE DEF g
  <2> QED BY <1>3 DEF Folds
<1>6. g[T] = h[T]
  <2>1. T \subseteq S /\ T \in SUBSET T
    OBVIOUS
  <2> HIDE DEF g, h, T
  <2> QED BY <1>2, <1>3, <2>1, FoldsAgree
<1> QED BY <1>1, <1>4, <1>5, <1>6

\* Sums of natural numbers are natural numbers.
LEMMA SumNat ==
  ASSUME NEW f, NEW S, IsFiniteSet(S), \A x \in S : f[x] \in Nat
  PROVE  Total(f, S) \in Nat
<1> DEFINE K == {s \in SUBSET S : Total(f, s) \notin Nat}
<1> SUFFICES ASSUME K # {} PROVE FALSE
  OBVIOUS
<1>1. PICK s \in K : /\ IsFiniteSet(s) /\ Cardinality(s) \in Nat
                     /\ \A t \in K : Cardinality(s) <= Cardinality(t)
  <2>1. K \subseteq SUBSET S
    OBVIOUS
  <2> HIDE DEF K
  <2> QED BY <2>1, Smallest
<1>2. s # {}
  BY SumEmpty
<1>3. One(s) \in s /\ Total(f, s) = f[One(s)] + Total(f, s \ {One(s)})
  BY <1>1, <1>2, SumStep
<1>4. Cardinality(s \ {One(s)}) < Cardinality(s) /\ Cardinality(s \ {One(s)}) \in Nat
  BY <1>1, <1>3, Smaller
<1>5. s \ {One(s)} \in SUBSET S /\ s \ {One(s)} \notin K
  BY <1>1, <1>4
<1> QED BY <1>3, <1>5

\* ... and it does not matter which value that is.
LEMMA SumPick ==
  ASSUME NEW f, NEW S, IsFiniteSet(S), \A x \in S : f[x] \in Nat, NEW y \in S
  PROVE  Total(f, S) = f[y] + Total(f, S \ {y})
<1> DEFINE K == {s \in SUBSET S : \E x \in s : Total(f, s) # f[x] + Total(f, s \ {x})}
<1> SUFFICES ASSUME K # {} PROVE FALSE
  OBVIOUS
<1>1. PICK s \in K : /\ IsFiniteSet(s) /\ Cardinality(s) \in Nat
                     /\ \A t \in K : Cardinality(s) <= Cardinality(t)
  <2>1. K \subseteq SUBSET S
    OBVIOUS
  <2> HIDE DEF K
  <2> QED BY <2>1, Smallest
<1>2. PICK x \in s : Total(f, s) # f[x] + Total(f, s \ {x})
  OBVIOUS
<1> DEFINE z == One(s)
           r == (s \ {z}) \ {x}
<1>3. z \in s /\ Total(f, s) = f[z] + Total(f, s \ {z})
  BY <1>1, <1>2, SumStep
<1> HIDE DEF z
<1>4. x # z /\ x \in s \ {z} /\ z \in s \ {x}
  BY <1>2, <1>3
<1>5. Cardinality(s \ {z}) < Cardinality(s) /\ Cardinality(s \ {z}) \in Nat
  BY <1>1, <1>3, Smaller
<1>6. Cardinality(s \ {x}) < Cardinality(s) /\ Cardinality(s \ {x}) \in Nat
  BY <1>1, Smaller
<1>7. s \ {z} \notin K /\ s \ {x} \notin K
  BY <1>1, <1>5, <1>6
<1>8. Total(f, s \ {z}) = f[x] + Total(f, r)
  BY <1>4, <1>7
<1>9. Total(f, s \ {x}) = f[z] + Total(f, r)
  <2>1. (s \ {x}) \ {z} = r
    OBVIOUS
  <2>2. Total(f, s \ {x}) = f[z] + Total(f, (s \ {x}) \ {z})
    BY <1>4, <1>7
  <2> HIDE DEF r
  <2> QED BY <2>1, <2>2
<1>10. IsFiniteSet(r) /\ \A u \in r : f[u] \in Nat
  BY <1>1, FS_Subset
<1>11. Total(f, r) \in Nat /\ f[x] \in Nat /\ f[z] \in Nat
  <2> HIDE DEF r
  <2> QED BY <1>3, <1>10, SumNat
<1> QED BY <1>2, <1>3, <1>8, <1>9, <1>11
-----------------------------------------------------------------------------
(* What a view must be when the transactions of P are in the chain and the *)
(* outputs of S are spent.                                                 *)

Outpoint == [hash : TxIds, n : Nat]
Placing == [height : Nat \ {0}, tx : Transaction]

\* Transactions with their heights; hashes are not repeated.
Distinct(P) == P \subseteq Placing /\ \A p, q \in P : p.tx.hash = q.tx.hash => p = q

\* The outputs that are left of a transaction, and the coins it has then.
Left(S, tx) == {n \in DOMAIN tx.vout : [hash |-> tx.hash, n |-> n] \notin S}
CoinsLeft(S, p) == IF Left(S, p.tx) = {} THEN NoCoins
                   ELSE [fCoinBase |-> p.tx.coinbase, nHeight |-> p.height,
                         vout |-> [n \in Left(S, p.tx) |-> p.tx.vout[n]]]

Exact(view, P, S) == /\ view = [h \in TxIds |-> view[h]]
                     /\ \A p \in P : view[p.tx.hash] = CoinsLeft(S, p)
                     /\ \A h \in TxIds : (\A p \in P : p.tx.hash # h) => view[h] = NoCoins

\* There is one such view.
LEMMA ExactUnique ==
  ASSUME NEW v, NEW w, NEW P, NEW S, Exact(v, P, S), Exact(w, P, S)
  PROVE  v = w
<1>1. ASSUME NEW h \in TxIds PROVE v[h] = w[h]
  <2>1. CASE \E p \in P : p.tx.hash = h
    <3>1. PICK p \in P : p.tx.hash = h
      BY <2>1
    <3>2. v[p.tx.hash] = CoinsLeft(S, p) /\ w[p.tx.hash] = CoinsLeft(S, p)
      BY DEF Exact
    <3> QED BY <3>1, <3>2
  <2>2. CASE \A p \in P : p.tx.hash # h
    BY <2>2 DEF Exact
  <2> QED BY <2>1, <2>2
<1> QED BY <1>1 DEF Exact

\* An available output was created by one transaction of P and is not spent.
LEMMA AvailableExact ==
  ASSUME NEW v, NEW P, NEW S, Exact(v, P, S), Distinct(P), NEW o \in Outpoint
  PROVE  IsAvailable(v[o.hash], o.n) <=> \E p \in P : p.tx.hash = o.hash /\ o.n \in Left(S, p.tx)
<1>0. DOMAIN NoCoins.vout = {}
  BY DEF NoCoins
<1>1. ASSUME NEW p \in P, p.tx.hash = o.hash
      PROVE  IsAvailable(v[o.hash], o.n) <=> o.n \in Left(S, p.tx)
  <2>1. v[o.hash] = CoinsLeft(S, p)
    BY <1>1 DEF Exact
  <2> HIDE DEF NoCoins
  <2> QED BY <2>1, <1>0 DEF CoinsLeft, IsAvailable
<1>2. (\A p \in P : p.tx.hash # o.hash) => v[o.hash] = NoCoins
  BY DEF Exact, Outpoint
<1> HIDE DEF NoCoins
<1> QED BY <1>0, <1>1, <1>2 DEF IsAvailable

\* CCoins::Spend of an available output.
LEMMA SpendExact ==
  ASSUME NEW v, NEW P, NEW S, Exact(v, P, S), Distinct(P), NEW o \in Outpoint,
         IsAvailable(v[o.hash], o.n)
  PROVE  Exact([v EXCEPT ![o.hash] = Spend(@, o.n)], P, S \cup {o})
<1> DEFINE w == [v EXCEPT ![o.hash] = Spend(@, o.n)]
           T == S \cup {o}
<1>1. PICK p \in P : p.tx.hash = o.hash /\ o.n \in Left(S, p.tx)
  BY AvailableExact
<1>2. o = [hash |-> o.hash, n |-> o.n]
  BY DEF Outpoint
<1>3. Left(T, p.tx) = Left(S, p.tx) \ {o.n}
  BY <1>1, <1>2 DEF Left
<1>4. \A q \in P : q # p => Left(T, q.tx) = Left(S, q.tx) /\ q.tx.hash # o.hash
  <2> SUFFICES ASSUME NEW q \in P, q # p PROVE Left(T, q.tx) = Left(S, q.tx) /\ q.tx.hash # o.hash
    OBVIOUS
  <2>1. q.tx.hash # o.hash
    BY <1>1 DEF Distinct
  <2>2. \A n : [hash |-> q.tx.hash, n |-> n] # o
    BY <2>1
  <2> QED BY <2>1, <2>2 DEF Left
<1>5. v[o.hash] = [fCoinBase |-> p.tx.coinbase, nHeight |-> p.height,
                   vout |-> [n \in Left(S, p.tx) |-> p.tx.vout[n]]]
  BY <1>1 DEF Exact, CoinsLeft
<1>6. Spend(v[o.hash], o.n) = CoinsLeft(T, p)
  <2>1. CASE Left(S, p.tx) = {o.n}
    <3>1. Left(T, p.tx) = {}
      BY <2>1, <1>3
    <3> QED BY <2>1, <3>1, <1>5 DEF Spend, CoinsLeft
  <2>2. CASE Left(S, p.tx) # {o.n}
    <3>1. Left(T, p.tx) # {}
      BY <2>2, <1>1, <1>3
    <3>2. DOMAIN v[o.hash].vout = Left(S, p.tx) /\ \A n \in Left(S, p.tx) : v[o.hash].vout[n] = p.tx.vout[n]
      BY <1>5
    <3>3. [n \in DOMAIN v[o.hash].vout \ {o.n} |-> v[o.hash].vout[n]] = [n \in Left(T, p.tx) |-> p.tx.vout[n]]
      BY <3>2, <1>3
    <3>4. Spend(v[o.hash], o.n) = [v[o.hash] EXCEPT !.vout = [n \in Left(T, p.tx) |-> p.tx.vout[n]]]
      BY <2>2, <3>2, <3>3 DEF Spend
    <3> QED BY <3>1, <3>4, <1>5 DEF CoinsLeft
  <2> QED BY <2>1, <2>2
<1>7. o.hash \in TxIds
  BY DEF Outpoint
<1>8. w = [h \in TxIds |-> IF h = o.hash THEN CoinsLeft(T, p) ELSE v[h]]
  BY <1>6, <1>7 DEF Exact
<1> HIDE DEF w
<1>9. ASSUME NEW q \in P PROVE w[q.tx.hash] = CoinsLeft(T, q)
  <2>1. q.tx.hash \in TxIds
    BY DEF Distinct, Placing, Transaction
  <2>2. CASE q = p
    BY <2>1, <2>2, <1>1, <1>8
  <2>3. CASE q # p
    BY <2>1, <2>3, <1>4, <1>8 DEF Exact, CoinsLeft
  <2> QED BY <2>2, <2>3
<1>10. ASSUME NEW h \in TxIds, \A q \in P : q.tx.hash # h PROVE w[h] = NoCoins
  BY <1>1, <1>8, <1>10 DEF Exact
<1>11. w = [h \in TxIds |-> w[h]]
  BY <1>8
<1>12. Exact(w, P, T)
  BY <1>9, <1>10, <1>11 DEF Exact
<1> QED BY <1>12 DEF w

\* The undo entry of a spent output brings it back: RestoreOne after Spend gives
\* the view before, and finds nothing amiss.
LEMMA RestoreExact ==
  ASSUME NEW w, NEW P, NEW S, Exact(w, P, S), Distinct(P), NEW o \in Outpoint,
         IsAvailable(w[o.hash], o.n), NEW acc, acc.clean = TRUE,
         acc.view = [w EXCEPT ![o.hash] = Spend(@, o.n)]
  PROVE  RestoreOne(acc, o, SpendUndo(w[o.hash], o.n)) = [clean |-> TRUE, view |-> w]
<1> DEFINE v == [w EXCEPT ![o.hash] = Spend(@, o.n)]
           undo == SpendUndo(w[o.hash], o.n)
<1>1. PICK p \in P : p.tx.hash = o.hash /\ o.n \in Left(S, p.tx)
  BY AvailableExact
<1> DEFINE A == Left(S, p.tx)
           c == [fCoinBase |-> p.tx.coinbase, nHeight |-> p.height, vout |-> [n \in A |-> p.tx.vout[n]]]
<1>2. w[o.hash] = c /\ o.n \in A
  BY <1>1 DEF Exact, CoinsLeft
<1>3. o.hash \in TxIds /\ p.height \in Nat \ {0} /\ p.tx.coinbase \in BOOLEAN
  BY DEF Outpoint, Distinct, Placing, Transaction
<1>4. v = [h \in TxIds |-> IF h = o.hash THEN Spend(c, o.n) ELSE w[h]]
  BY <1>2, <1>3 DEF Exact
<1> DEFINE base == IF undo.nHeight # 0
                   THEN [fCoinBase |-> undo.fCoinBase, nHeight |-> undo.nHeight, vout |-> <<>>]
                   ELSE v[o.hash]
<1>5. DOMAIN c.vout = A /\ \A n \in A : c.vout[n] = p.tx.vout[n]
  OBVIOUS
<1>6. undo.txout = p.tx.vout[o.n]
  BY <1>2, <1>5 DEF SpendUndo
<1>7. /\ (undo.nHeight # 0) <=> (v[o.hash] = NoCoins)
      /\ DOMAIN base.vout = A \ {o.n} /\ \A n \in A \ {o.n} : base.vout[n] = p.tx.vout[n]
      /\ [base EXCEPT !.vout = c.vout] = c
  <2>1. CASE A = {o.n}
    <3>1. undo.nHeight = p.height /\ undo.fCoinBase = p.tx.coinbase
      BY <2>1, <1>2, <1>3, <1>5 DEF SpendUndo
    <3>2. v[o.hash] = NoCoins
      BY <2>1, <1>3, <1>4, <1>5 DEF Spend
    <3>3. base = [fCoinBase |-> p.tx.coinbase, nHeight |-> p.height, vout |-> <<>>]
      BY <3>1, <1>3
    <3>4. DOMAIN base.vout = {} /\ [base EXCEPT !.vout = c.vout] = c
      <4> HIDE DEF base
      <4> QED BY <3>3
    <3> HIDE DEF base, v, undo
    <3> QED BY <3>1, <3>2, <3>4, <2>1, <1>3
  <2>2. CASE A # {o.n}
    <3>1. undo.nHeight = 0
      BY <2>2, <1>2, <1>5 DEF SpendUndo
    <3>2. [n \in DOMAIN c.vout \ {o.n} |-> c.vout[n]] = [n \in A \ {o.n} |-> p.tx.vout[n]]
      BY <1>5
    <3>3. v[o.hash] = [c EXCEPT !.vout = [n \in A \ {o.n} |-> p.tx.vout[n]]]
      BY <2>2, <3>2, <1>3, <1>4, <1>5 DEF Spend
    <3>4. v[o.hash] = [fCoinBase |-> p.tx.coinbase, nHeight |-> p.height, vout |-> [n \in A \ {o.n} |-> p.tx.vout[n]]]
      BY <3>3
    <3>5. v[o.hash] # NoCoins
      BY <3>4, <1>3 DEF NoCoins
    <3>6. base = v[o.hash]
      BY <3>1
    <3> QED BY <3>1, <3>4, <3>5, <3>6
  <2> QED BY <2>1, <2>2
<1> HIDE DEF undo, v
<1>8. [m \in DOMAIN base.vout \cup {o.n} |-> IF m = o.n THEN undo.txout ELSE base.vout[m]] = c.vout
  <2> HIDE DEF base
  <2> QED BY <1>2, <1>5, <1>6, <1>7
<1>9. ~IsAvailable(base, o.n)
  <2> HIDE DEF base
  <2> QED BY <1>7 DEF IsAvailable
<1>10. acc.view = v
  BY DEF v
<1> DEFINE restored == [base EXCEPT !.vout = [m \in DOMAIN base.vout \cup {o.n} |->
                                                IF m = o.n THEN undo.txout ELSE base.vout[m]]]
           clean == (undo.nHeight # 0 <=> v[o.hash] = NoCoins) /\ ~IsAvailable(base, o.n)
<1>11. RestoreOne(acc, o, undo) = [clean |-> acc.clean /\ clean, view |-> [v EXCEPT ![o.hash] = restored]]
  BY <1>10, Zenon DEF RestoreOne
<1>12. restored = c
  BY <1>7, <1>8
<1>13. clean
  BY <1>7, <1>9
<1> HIDE DEF clean, restored, c
<1>14. [v EXCEPT ![o.hash] = c] = w
  BY <1>2, <1>3, <1>4 DEF Exact
<1>15. (acc.clean /\ clean) = TRUE
  BY <1>13
<1>16. RestoreOne(acc, o, undo) = [clean |-> TRUE, view |-> w]
  BY <1>11, <1>12, <1>14, <1>15, Zenon
<1> QED BY <1>16 DEF undo

-----------------------------------------------------------------------------
(* One transaction.                                                        *)

UpTo(s, i) == {s[k] : k \in 1..i}
UndoOf(spent, tx, k) == SpendUndo(spent[k - 1].view[tx.vin[k].hash], tx.vin[k].n)

\* After i inputs of a transaction whose inputs are there.
SpentTo(spent, P, S, tx, i) ==
  /\ Exact(spent[i].view, P, S \cup UpTo(tx.vin, i))
  /\ spent[i].undo \in Seq({UndoOf(spent, tx, k) : k \in 1..Len(tx.vin)})
  /\ Len(spent[i].undo) = i
  /\ \A k \in 1..i : spent[i].undo[k] = UndoOf(spent, tx, k)
  /\ \A k \in i + 1..Len(tx.vin) : IsAvailable(spent[i].view[tx.vin[k].hash], tx.vin[k].n)

\* What is known of a transaction that ConnectBlock comes to.
Checked(v, tx) == /\ tx \in Transaction /\ ~tx.coinbase /\ IsInjective(tx.vin)
                  /\ HaveInputs(v, tx)

\* The view UpdateCoins starts from.
LEMMA SpendsFirst ==
  ASSUME NEW spent, NEW v, NEW tx, Spends(spent, v, tx), Len(tx.vin) \in Nat
  PROVE  spent[0] = [view |-> v, undo |-> <<>>]
<1>1. 0 \in 0..Len(tx.vin)
  OBVIOUS
<1> QED BY <1>1 DEF Spends

\* One input of UpdateCoins after another.
LEMMA SpendsNext ==
  ASSUME NEW spent, NEW v, NEW tx, Spends(spent, v, tx), Len(tx.vin) \in Nat, ~tx.coinbase,
         NEW k \in 1..Len(tx.vin)
  PROVE  spent[k] = SpendOne(spent[k - 1], tx.vin[k])
<1>1. k \in 0..Len(tx.vin) /\ k # 0
  OBVIOUS
<1>2. \A m \in 0..Len(tx.vin) : spent[m] = IF m = 0 \/ tx.coinbase THEN [view |-> v, undo |-> <<>>]
                                           ELSE SpendOne(spent[m - 1], tx.vin[m])
  BY Zenon DEF Spends
<1> QED BY <1>1, <1>2

\* No input is missing when its turn comes: the inputs are different outputs.
LEMMA SpentStep ==
  ASSUME NEW v, NEW P, NEW S, Distinct(P), NEW tx, Checked(v, tx), NEW spent, Spends(spent, v, tx),
         NEW i \in 0..Len(tx.vin) - 1, SpentTo(spent, P, S, tx, i)
  PROVE  SpentTo(spent, P, S, tx, i + 1)
<1> DEFINE L == Len(tx.vin)
           o == tx.vin[i + 1]
           w == spent[i].view
           x == spent[i + 1]
           U == {UndoOf(spent, tx, k) : k \in 1..L}
<1>1. tx.vin \in Seq(Outpoint) /\ L \in Nat /\ ~tx.coinbase
  BY DEF Checked, Transaction, Outpoint
<1>2. i + 1 \in 1..L /\ o \in Outpoint /\ i \in Nat /\ i + 1 # 0 /\ i + 1 - 1 = i /\ i + 1 \in 0..L
  BY <1>1
<1>3. x = SpendOne(spent[i], o)
  <2>1. spent[i + 1] = SpendOne(spent[i + 1 - 1], tx.vin[i + 1])
    BY <1>1, <1>2, SpendsNext
  <2> QED BY <2>1, <1>2
<1>4. x.view = [w EXCEPT ![o.hash] = Spend(@, o.n)] /\ x.undo = Append(spent[i].undo, SpendUndo(w[o.hash], o.n))
  BY <1>3 DEF SpendOne
<1>5. Exact(w, P, S \cup UpTo(tx.vin, i)) /\ IsAvailable(w[o.hash], o.n)
  BY <1>2 DEF SpentTo
<1>6. (S \cup UpTo(tx.vin, i)) \cup {o} = S \cup UpTo(tx.vin, i + 1)
  BY <1>2 DEF UpTo
<1>7. Exact(x.view, P, S \cup UpTo(tx.vin, i + 1))
  <2> HIDE DEF o, w, x
  <2>1. Exact([w EXCEPT ![o.hash] = Spend(@, o.n)], P, (S \cup UpTo(tx.vin, i)) \cup {o})
    BY <1>2, <1>5, SpendExact
  <2> QED BY <2>1, <1>4, <1>6
<1>8. UndoOf(spent, tx, i + 1) = SpendUndo(w[o.hash], o.n)
  BY <1>2 DEF UndoOf
<1>9. /\ x.undo \in Seq(U) /\ Len(x.undo) = i + 1
      /\ \A k \in 1..i + 1 : x.undo[k] = UndoOf(spent, tx, k)
  <2>1. spent[i].undo \in Seq(U) /\ Len(spent[i].undo) = i /\ \A k \in 1..i : spent[i].undo[k] = UndoOf(spent, tx, k)
    BY DEF SpentTo
  <2>2. UndoOf(spent, tx, i + 1) \in U
    BY <1>2
  <2>3. x.undo = Append(spent[i].undo, UndoOf(spent, tx, i + 1))
    BY <1>4, <1>8
  <2> HIDE DEF U, x
  <2> QED BY <2>1, <2>2, <2>3, <1>2
<1>10. ASSUME NEW k \in i + 2..L PROVE IsAvailable(x.view[tx.vin[k].hash], tx.vin[k].n)
  <2> DEFINE q == tx.vin[k]
  <2>1. q \in Outpoint /\ k \in i + 1..L /\ k \in DOMAIN tx.vin /\ i + 1 \in DOMAIN tx.vin /\ k # i + 1
    BY <1>1, <1>2
  <2>2. q # o
    BY <2>1 DEF Checked, IsInjective
  <2>3. IsAvailable(w[q.hash], q.n)
    BY <2>1 DEF SpentTo
  <2>4. PICK p \in P : p.tx.hash = q.hash /\ q.n \in Left(S \cup UpTo(tx.vin, i), p.tx)
    BY <2>1, <2>3, <1>5, AvailableExact
  <2>5. [hash |-> p.tx.hash, n |-> q.n] = q
    BY <2>1, <2>4 DEF Outpoint
  <2>6. q.n \in Left(S \cup UpTo(tx.vin, i + 1), p.tx)
    BY <2>2, <2>4, <2>5, <1>6 DEF Left
  <2> QED BY <2>1, <2>4, <2>6, <1>7, AvailableExact
<1>11. \A k \in (i + 1) + 1..L : k \in i + 2..L
  BY <1>2
<1> HIDE DEF x, o, w, L, U
<1>12. \A k \in (i + 1) + 1..L : IsAvailable(x.view[tx.vin[k].hash], tx.vin[k].n)
  BY <1>10, <1>11
<1> QED BY <1>7, <1>9, <1>12 DEF SpentTo, x, L, U

\* Every input of a checked transaction is spent in its turn.
LEMMA SpentAll ==
  ASSUME NEW v, NEW P, NEW S, Exact(v, P, S), Distinct(P), NEW tx, Checked(v, tx),
         NEW spent, Spends(spent, v, tx)
  PROVE  \A i \in 0..Len(tx.vin) : SpentTo(spent, P, S, tx, i)
<1> DEFINE L == Len(tx.vin)
           Bad == {i \in 0..L : ~SpentTo(spent, P, S, tx, i)}
<1>1. tx.vin \in Seq(Outpoint) /\ L \in Nat /\ ~tx.coinbase
  BY DEF Checked, Transaction, Outpoint
<1>2. SpentTo(spent, P, S, tx, 0)
  <2>1. spent[0] = [view |-> v, undo |-> <<>>]
    BY <1>1, SpendsFirst
  <2>2. spent[0].view = v /\ spent[0].undo = <<>>
    BY <2>1
  <2>3. UpTo(tx.vin, 0) = {} /\ S \cup {} = S
    BY DEF UpTo
  <2>4. \A k \in 0 + 1..L : IsAvailable(v[tx.vin[k].hash], tx.vin[k].n)
    BY <1>1 DEF Checked, HaveInputs
  <2>5. <<>> \in Seq({UndoOf(spent, tx, k) : k \in 1..L}) /\ Len(<<>>) = 0 /\ 1..0 = {}
    OBVIOUS
  <2> QED BY <2>2, <2>3, <2>4, <2>5 DEF SpentTo
<1> SUFFICES ASSUME Bad # {} PROVE FALSE
  OBVIOUS
<1>3. Bad \in SUBSET Nat
  BY <1>1
<1>4. PICK n \in Bad : \A y \in Bad : n <= y
  BY <1>3, Least
<1>5. n # 0 /\ n \in 0..L
  BY <1>2
<1>6. n - 1 \in 0..L - 1 /\ n - 1 \in 0..L /\ n - 1 + 1 = n /\ ~(n <= n - 1)
  BY <1>1, <1>5
<1>7. SpentTo(spent, P, S, tx, n - 1)
  BY <1>4, <1>6
<1>8. SpentTo(spent, P, S, tx, n - 1 + 1)
  BY <1>6, <1>7, SpentStep
<1> QED BY <1>6, <1>8

\* The transactions P and the spent outputs S of a chain: what is spent was
\* created, and what a transaction spends is spent.
SpentOf(tx) == IF tx.coinbase THEN {} ELSE Range(tx.vin)
World(P, S) == /\ Distinct(P) /\ S \subseteq Outpoint
               /\ \A o \in S : \E p \in P : p.tx.hash = o.hash /\ o.n \in DOMAIN p.tx.vout
               /\ \A p \in P : SpentOf(p.tx) \subseteq S /\ p.tx.vin # <<>>

\* CTransaction::UpdateCoins adds the outputs.
LEMMA AddExact ==
  ASSUME NEW v, NEW P, NEW S, Exact(v, P, S), Distinct(P), NEW tx \in Transaction,
         NEW nHeight \in Nat \ {0}, \A p \in P : p.tx.hash # tx.hash,
         \A o \in S : o.hash # tx.hash, tx.vout # <<>>,
         NEW w, w = [v EXCEPT ![tx.hash] = CCoins(tx, nHeight)]
  PROVE  /\ Exact(w, P \cup {[height |-> nHeight, tx |-> tx]}, S)
         /\ Distinct(P \cup {[height |-> nHeight, tx |-> tx]})
<1> DEFINE n == [height |-> nHeight, tx |-> tx]
<1>0. n \in Placing /\ n.tx = tx /\ n.height = nHeight
  BY DEF Placing
<1>1. tx.hash \in TxIds
  BY DEF Transaction
<1>2. Left(S, tx) = DOMAIN tx.vout /\ DOMAIN tx.vout # {}
  <2>1. tx.vout \in Seq(Nat) /\ tx.vout # <<>>
    BY DEF Transaction
  <2>2. DOMAIN tx.vout # {}
    BY <2>1, NonEmpty
  <2>3. \A m : [hash |-> tx.hash, n |-> m] \notin S
    OBVIOUS
  <2> QED BY <2>2, <2>3 DEF Left
<1>3. CoinsLeft(S, n) = CCoins(tx, nHeight)
  <2> HIDE DEF n
  <2> QED BY <1>0, <1>2 DEF CoinsLeft, CCoins
<1>4. w = [h \in TxIds |-> IF h = tx.hash THEN CCoins(tx, nHeight) ELSE v[h]]
  BY <1>1 DEF Exact
<1> HIDE DEF n
<1>6. \A p \in P : p.tx.hash \in TxIds
  BY DEF Distinct, Placing, Transaction
<1>7. Distinct(P \cup {n})
  BY <1>0 DEF Distinct
<1>8. ASSUME NEW p \in P \cup {n} PROVE w[p.tx.hash] = CoinsLeft(S, p)
  <2>1. CASE p = n
    <3>1. w[tx.hash] = CoinsLeft(S, n)
      BY <1>1, <1>3, <1>4
    <3> QED BY <2>1, <3>1, <1>0
  <2>2. CASE p \in P
    BY <2>2, <1>4, <1>6 DEF Exact
  <2> QED BY <2>1, <2>2
<1>9. ASSUME NEW h \in TxIds, \A p \in P \cup {n} : p.tx.hash # h PROVE w[h] = NoCoins
  BY <1>0, <1>4, <1>9 DEF Exact
<1>10. Exact(w, P \cup {n}, S)
  BY <1>4, <1>8, <1>9 DEF Exact
<1> QED BY <1>7, <1>10 DEF n

\* RestoreInputs with the undo data of UpdateCoins leads back to the view before
\* and finds nothing amiss.
LEMMA RestoresAll ==
  ASSUME NEW v, NEW P, NEW S, Exact(v, P, S), Distinct(P), NEW tx, Checked(v, tx),
         NEW spent, Spends(spent, v, tx),
         NEW acc, acc.clean = TRUE, acc.view = spent[Len(tx.vin)].view
  PROVE  /\ RestoreInputs(acc, tx, spent[Len(tx.vin)].undo).clean = TRUE
         /\ RestoreInputs(acc, tx, spent[Len(tx.vin)].undo).view = v
<1> DEFINE L == Len(tx.vin)
           undo == spent[L].undo
<1>1. tx.vin \in Seq(Outpoint) /\ L \in Nat /\ ~tx.coinbase
  BY DEF Checked, Transaction, Outpoint
<1>2. PICK restored : Restores(restored, acc, tx, undo) /\ RestoreInputs(acc, tx, undo) = restored[1]
  BY <1>1, RestoreInputsDef
<1> DEFINE Back(n) == restored[L + 1 - n].clean = TRUE /\ restored[L + 1 - n].view = spent[L - n].view
           Bad == {n \in 0..L : ~Back(n)}
<1>11. \A k \in 1..L + 1 : restored[k] = IF k > L THEN acc ELSE RestoreOne(restored[k + 1], tx.vin[k], undo[k])
  <2> HIDE DEF undo
  <2> QED BY <1>2, Zenon DEF Restores
<1>3. restored[L + 1] = acc
  <2>1. L + 1 \in 1..L + 1 /\ L + 1 > L
    BY <1>1
  <2> QED BY <2>1, <1>2 DEF Restores
<1>4. Back(0)
  <2>1. L + 1 - 0 = L + 1 /\ L - 0 = L
    BY <1>1
  <2> QED BY <2>1, <1>3
<1>5. \A i \in 0..L : SpentTo(spent, P, S, tx, i)
  BY SpentAll
<1>6. ASSUME NEW n \in 0..L, n # 0, Back(n - 1) PROVE Back(n)
  <2> DEFINE j == L + 1 - n
             o == tx.vin[j]
             w == spent[j - 1].view
  <2>1. /\ j \in 1..L /\ L + 1 - (n - 1) = j + 1 /\ L - (n - 1) = j /\ L - n = j - 1
        /\ j - 1 \in 0..L /\ L \in 0..L
    BY <1>1, <1>6
  <2> HIDE DEF j
  <2>2. restored[j + 1].clean = TRUE /\ restored[j + 1].view = spent[j].view
    BY <2>1, <1>6
  <2>3. undo[j] = SpendUndo(w[o.hash], o.n)
    <3>1. SpentTo(spent, P, S, tx, L)
      BY <2>1, <1>5
    <3> QED BY <3>1, <2>1 DEF SpentTo, UndoOf
  <2>4. Exact(w, P, S \cup UpTo(tx.vin, j - 1)) /\ IsAvailable(w[o.hash], o.n)
    <3>1. SpentTo(spent, P, S, tx, j - 1)
      BY <2>1, <1>5
    <3>2. j \in (j - 1) + 1..L
      BY <2>1, <1>1
    <3> QED BY <3>1, <3>2 DEF SpentTo
  <2>5. o \in Outpoint
    BY <2>1, <1>1
  <2>6. spent[j].view = [w EXCEPT ![o.hash] = Spend(@, o.n)]
    <3>1. spent[j] = SpendOne(spent[j - 1], o)
      BY <2>1, <1>1, SpendsNext
    <3> QED BY <3>1 DEF SpendOne
  <2>7. restored[j] = RestoreOne(restored[j + 1], o, undo[j])
    <3>1. j \in 1..L + 1 /\ ~(j > L)
      BY <2>1, <1>1
    <3> QED BY <3>1, <1>11
  <2> DEFINE a == restored[j + 1]
             T == S \cup UpTo(tx.vin, j - 1)
  <2> HIDE DEF o, w, undo
  <2>10. a.clean = TRUE /\ a.view = [w EXCEPT ![o.hash] = Spend(@, o.n)]
    BY <2>2, <2>6
  <2>11. Exact(w, P, T)
    BY <2>4
  <2>8. RestoreOne(a, o, SpendUndo(w[o.hash], o.n)) = [clean |-> TRUE, view |-> w]
    <3> HIDE DEF a, T
    <3> QED BY <2>4, <2>5, <2>10, <2>11, RestoreExact, Zenon
  <2>9. restored[j].clean = TRUE /\ restored[j].view = w
    BY <2>3, <2>7, <2>8
  <2> QED BY <2>1, <2>9 DEF j, w
<1>7. Bad = {}
  <2> SUFFICES ASSUME Bad # {} PROVE FALSE
    OBVIOUS
  <2> HIDE DEF Back
  <2>0. Bad \in SUBSET Nat
    BY <1>1
  <2>1. 0 \notin Bad
    <3> HIDE DEF undo, L
    <3> QED BY <1>4, Zenon
  <2>2. PICK n \in Bad : \A y \in Bad : n <= y
    BY <2>0, Least
  <2>3. n \in 0..L /\ n # 0 /\ ~Back(n)
    BY <2>1, <2>2, Zenon
  <2>4. n - 1 \in 0..L /\ ~(n <= n - 1)
    BY <2>3, <1>1
  <2>5. Back(n - 1)
    BY <2>2, <2>4
  <2> QED BY <2>3, <2>5, <1>6
<1>8. L \in 0..L /\ L + 1 - L = 1 /\ L - L = 0
  BY <1>1
<1>9. Back(L)
  <2> HIDE DEF Back
  <2> QED BY <1>7, <1>8
<1>10. spent[0].view = v
  <2>1. spent[0] = [view |-> v, undo |-> <<>>]
    BY <1>1, SpendsFirst
  <2> QED BY <2>1
<1> QED BY <1>2, <1>8, <1>9, <1>10

\* The state in which ConnectBlock checks the inputs of a transaction: the view is
\* exact, and a transaction of the chain with the same hash is the same, spending one.
Ready(v, P, S, tx, nHeight) ==
  /\ Exact(v, P, S) /\ World(P, S) /\ tx \in Transaction /\ CheckTransaction(tx)
  /\ nHeight \in Nat \ {0} /\ CheckInputs(v, tx, nHeight)
  /\ \A p \in P : p.tx.hash = tx.hash => p.tx = tx /\ ~tx.coinbase

\* The inputs are outputs of transactions of the chain, unspent and mature.
LEMMA InputsThere ==
  ASSUME NEW v, NEW P, NEW S, NEW tx, NEW nHeight, Ready(v, P, S, tx, nHeight), NEW o \in SpentOf(tx)
  PROVE  /\ o \in Outpoint /\ o \notin S
         /\ \E p \in P : p.tx.hash = o.hash /\ o.n \in DOMAIN p.tx.vout
         /\ \A p \in P : p.tx.hash = o.hash /\ p.tx.coinbase => nHeight - p.height >= COINBASE_MATURITY
<1>1. ~tx.coinbase
  BY DEF SpentOf
<1>2. PICK i \in DOMAIN tx.vin : o = tx.vin[i]
  BY <1>1 DEF SpentOf, Range
<1>3. o \in Outpoint
  <2>1. tx.vin \in Seq(Outpoint)
    BY DEF Ready, Transaction, Outpoint
  <2> QED BY <2>1, <1>2
<1>4. IsAvailable(v[o.hash], o.n)
  BY <1>1, <1>2 DEF Ready, CheckInputs, HaveInputs
<1>5. Exact(v, P, S) /\ Distinct(P)
  BY DEF Ready, World
<1>6. PICK q \in P : q.tx.hash = o.hash /\ o.n \in Left(S, q.tx)
  BY <1>3, <1>4, <1>5, AvailableExact
<1>7. [hash |-> q.tx.hash, n |-> o.n] = o
  BY <1>3, <1>6 DEF Outpoint
<1>8. o \notin S /\ o.n \in DOMAIN q.tx.vout
  BY <1>6, <1>7 DEF Left
<1>9. v[o.hash].fCoinBase = q.tx.coinbase /\ v[o.hash].nHeight = q.height
  <2>1. v[o.hash] = CoinsLeft(S, q)
    BY <1>5, <1>6 DEF Exact
  <2> QED BY <2>1, <1>6 DEF CoinsLeft
<1>10. v[o.hash].fCoinBase => nHeight - v[o.hash].nHeight >= COINBASE_MATURITY
  BY <1>1, <1>2 DEF Ready, CheckInputs, MatureInputs
<1>11. \A p \in P : p.tx.hash = o.hash => p = q
  BY <1>5, <1>6 DEF Distinct
<1> QED BY <1>3, <1>6, <1>8, <1>9, <1>10, <1>11

\* So the transaction is new: what it spends would be spent already.
LEMMA NewHash ==
  ASSUME NEW v, NEW P, NEW S, NEW tx, NEW nHeight, Ready(v, P, S, tx, nHeight)
  PROVE  /\ \A p \in P : p.tx.hash # tx.hash
         /\ \A o \in S \cup SpentOf(tx) : o.hash # tx.hash
<1>1. ASSUME NEW p \in P, p.tx.hash = tx.hash PROVE FALSE
  <2>1. p.tx = tx /\ ~tx.coinbase /\ SpentOf(tx) \subseteq S
    BY <1>1 DEF Ready, World
  <2>2. tx.vin \in Seq(Outpoint) /\ tx.vin # <<>>
    BY DEF Ready, Transaction, Outpoint, CheckTransaction
  <2>3. 1 \in DOMAIN tx.vin
    BY <2>2, NonEmpty
  <2>4. tx.vin[1] \in SpentOf(tx)
    BY <2>1, <2>3 DEF SpentOf, Range
  <2>5. tx.vin[1] \notin S
    BY <2>4, InputsThere
  <2> QED BY <2>1, <2>4, <2>5
<1>2. ASSUME NEW o \in S PROVE o.hash # tx.hash
  BY <1>1 DEF Ready, World
<1>3. ASSUME NEW o \in SpentOf(tx) PROVE o.hash # tx.hash
  <2>1. \E p \in P : p.tx.hash = o.hash
    BY InputsThere
  <2> QED BY <2>1, <1>1
<1> QED BY <1>1, <1>2, <1>3

\* The chain with the transaction is one again.
LEMMA NewWorld ==
  ASSUME NEW v, NEW P, NEW S, NEW tx, NEW nHeight, Ready(v, P, S, tx, nHeight)
  PROVE  World(P \cup {[height |-> nHeight, tx |-> tx]}, S \cup SpentOf(tx))
<1> DEFINE n == [height |-> nHeight, tx |-> tx]
           T == S \cup SpentOf(tx)
<1>1. n \in Placing /\ n.tx = tx
  BY DEF Ready, Placing
<1> HIDE DEF n
<1>2. Distinct(P \cup {n})
  <2>1. \A p \in P : p.tx.hash # tx.hash
    BY NewHash
  <2> QED BY <2>1, <1>1 DEF Ready, World, Distinct
<1>3. T \subseteq Outpoint
  BY InputsThere DEF Ready, World
<1>4. \A o \in T : \E p \in P : p.tx.hash = o.hash /\ o.n \in DOMAIN p.tx.vout
  BY InputsThere DEF Ready, World
<1>5. \A p \in P \cup {n} : SpentOf(p.tx) \subseteq T /\ p.tx.vin # <<>>
  BY <1>1 DEF Ready, World, CheckTransaction
<1> HIDE DEF T
<1>6. World(P \cup {n}, T)
  BY <1>2, <1>3, <1>4, <1>5 DEF World
<1> QED BY <1>6 DEF n, T

\* CTransaction::UpdateCoins: the inputs, then the outputs.
Updated(spent, v, P, S, tx, nHeight) ==
  /\ Spends(spent, v, tx)
  /\ Exact(spent[Len(tx.vin)].view, P, S \cup SpentOf(tx))
  /\ tx.coinbase => spent[Len(tx.vin)].view = v
  /\ UpdateCoins(v, tx, nHeight) =
       [view |-> [spent[Len(tx.vin)].view EXCEPT ![tx.hash] = CCoins(tx, nHeight)],
        undo |-> spent[Len(tx.vin)].undo]
LEMMA UpdateParts ==
  ASSUME NEW v, NEW P, NEW S, NEW tx, NEW nHeight, Ready(v, P, S, tx, nHeight)
  PROVE  \E spent : Updated(spent, v, P, S, tx, nHeight)
<1> DEFINE L == Len(tx.vin)
<1>1. /\ tx.vin \in Seq(Outpoint) /\ tx.vin # <<>> /\ tx.coinbase \in BOOLEAN
      /\ Exact(v, P, S) /\ Distinct(P)
  BY DEF Ready, Transaction, Outpoint, CheckTransaction, World
<1>2. L \in Nat \ {0} /\ DOMAIN tx.vin = 1..L
  BY <1>1, NonEmpty
<1>3. PICK spent : /\ Spends(spent, v, tx)
                   /\ UpdateCoins(v, tx, nHeight) =
                        [spent[L] EXCEPT !.view = [spent[L].view EXCEPT ![tx.hash] = CCoins(tx, nHeight)]]
  BY <1>2, UpdateCoinsDef
<1> DEFINE all == spent[L]
           w == [all.view EXCEPT ![tx.hash] = CCoins(tx, nHeight)]
<1>4. CASE tx.coinbase
  <2>1. L \in 0..L
    BY <1>2
  <2>2. all = [view |-> v, undo |-> <<>>]
    BY <2>1, <1>3, <1>4 DEF Spends
  <2>3. all.view = v /\ SpentOf(tx) = {} /\ S \cup {} = S
    BY <2>2, <1>4 DEF SpentOf
  <2>4. all = [view |-> all.view, undo |-> all.undo]
    BY <2>2
  <2> HIDE DEF w, all
  <2>5. [all EXCEPT !.view = w] = [view |-> w, undo |-> all.undo]
    BY <2>4
  <2> QED BY <2>3, <2>5, <1>1, <1>3 DEF w, all, Updated
<1>5. CASE ~tx.coinbase
  <2>1. Checked(v, tx)
    BY <1>5 DEF Checked, Ready, CheckTransaction, CheckInputs
  <2>2. L \in 0..L /\ L \in 1..L
    BY <1>2
  <2>3. SpentTo(spent, P, S, tx, L)
    BY <2>1, <2>2, <1>1, <1>3, SpentAll
  <2>4. UpTo(tx.vin, L) = SpentOf(tx)
    BY <1>2, <1>5 DEF UpTo, SpentOf, Range
  <2>5. Exact(all.view, P, S \cup SpentOf(tx))
    BY <2>3, <2>4 DEF SpentTo
  <2>6. all = SpendOne(spent[L - 1], tx.vin[L])
    BY <2>2, <1>2, <1>3, <1>5, SpendsNext
  <2>7. all = [view |-> all.view, undo |-> all.undo]
    BY <2>6 DEF SpendOne
  <2> HIDE DEF w, all
  <2>8. [all EXCEPT !.view = w] = [view |-> w, undo |-> all.undo]
    BY <2>7
  <2> QED BY <2>5, <2>8, <1>3, <1>5 DEF w, all, Updated
<1> QED BY <1>1, <1>4, <1>5

\* The view after the transaction is the exact one of the chain with it.
LEMMA TxExact ==
  ASSUME NEW v, NEW P, NEW S, NEW tx, NEW nHeight, Ready(v, P, S, tx, nHeight)
  PROVE  Exact(UpdateCoins(v, tx, nHeight).view, P \cup {[height |-> nHeight, tx |-> tx]}, S \cup SpentOf(tx))
<1>1. PICK spent : Updated(spent, v, P, S, tx, nHeight)
  BY UpdateParts
<1> DEFINE u == spent[Len(tx.vin)].view
           T == S \cup SpentOf(tx)
           w == [u EXCEPT ![tx.hash] = CCoins(tx, nHeight)]
<1>2. UpdateCoins(v, tx, nHeight).view = w
  BY <1>1 DEF Updated
<1>3. tx \in Transaction /\ nHeight \in Nat \ {0} /\ tx.vout # <<>> /\ Distinct(P)
  BY DEF Ready, CheckTransaction, World
<1>4. (\A p \in P : p.tx.hash # tx.hash) /\ \A o \in T : o.hash # tx.hash
  BY NewHash
<1> HIDE DEF u, T
<1>5. Exact(w, P \cup {[height |-> nHeight, tx |-> tx]}, T)
  BY <1>1, <1>3, <1>4, AddExact DEF u, T, Updated
<1> QED BY <1>2, <1>5 DEF T

\* Taking the transaction back gives the view before it, and finds nothing amiss.
TakenBack(acc, tx, undo, nHeight) ==
  IF tx.coinbase THEN RemoveOutputs(acc, tx, nHeight)
  ELSE RestoreInputs(RemoveOutputs(acc, tx, nHeight), tx, undo)
CleanAt(acc, view) == acc.clean = TRUE /\ acc.view = view
LEMMA TxUndone ==
  ASSUME NEW v, NEW P, NEW S, NEW tx, NEW nHeight, Ready(v, P, S, tx, nHeight), NEW acc,
         CleanAt(acc, UpdateCoins(v, tx, nHeight).view)
  PROVE  CleanAt(TakenBack(acc, tx, UpdateCoins(v, tx, nHeight).undo, nHeight), v)
<1> DEFINE L == Len(tx.vin)
           rest == RemoveOutputs(acc, tx, nHeight)
<1>1. PICK spent : Updated(spent, v, P, S, tx, nHeight)
  BY UpdateParts
<1> DEFINE u == spent[L].view
           T == S \cup SpentOf(tx)
           w == [u EXCEPT ![tx.hash] = CCoins(tx, nHeight)]
<1>2. UpdateCoins(v, tx, nHeight).view = w /\ UpdateCoins(v, tx, nHeight).undo = spent[L].undo
  BY <1>1 DEF Updated
<1>3. tx \in Transaction /\ nHeight \in Nat \ {0} /\ tx.vout # <<>> /\ Distinct(P) /\ Exact(v, P, S)
  BY DEF Ready, CheckTransaction, World
<1>4. (\A p \in P : p.tx.hash # tx.hash) /\ \A o \in T : o.hash # tx.hash
  BY NewHash
<1>5. w[tx.hash] = CCoins(tx, nHeight) /\ [w EXCEPT ![tx.hash] = NoCoins] = u
  <2>1. Exact(u, P, T)
    BY <1>1 DEF Updated
  <2>2. tx.hash \in TxIds
    BY <1>3 DEF Transaction
  <2>3. u = [h \in TxIds |-> u[h]] /\ u[tx.hash] = NoCoins
    BY <2>1, <2>2, <1>4 DEF Exact
  <2> HIDE DEF u
  <2> QED BY <2>2, <2>3
<1>6. acc.view = w /\ acc.clean = TRUE
  BY <1>2 DEF CleanAt
<1> HIDE DEF w, u
<1>7. rest = [clean |-> acc.clean /\ w[tx.hash] = CCoins(tx, nHeight), view |-> [w EXCEPT ![tx.hash] = NoCoins]]
  BY <1>6, Zenon DEF RemoveOutputs
<1>8. (acc.clean /\ w[tx.hash] = CCoins(tx, nHeight)) = TRUE
  BY <1>5, <1>6
<1>9. rest = [clean |-> TRUE, view |-> u]
  BY <1>5, <1>7, <1>8, Zenon
<1>10. rest.clean = TRUE /\ rest.view = u
  <2> HIDE DEF rest
  <2> QED BY <1>9
<1> HIDE DEF rest
<1>11. CASE tx.coinbase
  BY <1>1, <1>10, <1>11 DEF u, rest, Updated, TakenBack, CleanAt
<1>12. CASE ~tx.coinbase
  <2>1. Checked(v, tx)
    BY <1>12 DEF Checked, Ready, CheckTransaction, CheckInputs
  <2>2. RestoreInputs(rest, tx, spent[L].undo).clean = TRUE /\ RestoreInputs(rest, tx, spent[L].undo).view = v
    BY <2>1, <1>1, <1>3, <1>10, RestoresAll DEF u, Updated
  <2> QED BY <2>2, <1>2, <1>12 DEF rest, TakenBack, CleanAt
<1> QED BY <1>11, <1>12

-----------------------------------------------------------------------------
(* One block.                                                              *)

PlacedIn(P, vtx, nHeight, i) == P \cup {[height |-> nHeight, tx |-> vtx[k]] : k \in 1..i}
SpentIn(S, vtx, i) == S \cup UNION {SpentOf(vtx[k]) : k \in 1..i}

\* A checked block for an exact view; it repeats no coinbase.
BlockReady(v, P, S, vtx, nHeight) ==
  /\ Exact(v, P, S) /\ World(P, S) /\ vtx \in Seq(Transaction) /\ CheckBlock(vtx)
  /\ nHeight \in Nat \ {0}
  /\ \A p \in P : \A i \in DOMAIN vtx : p.tx.hash = vtx[i].hash => p.tx = vtx[i] /\ i # 1

\* The view ConnectBlock starts from.
LEMMA ConnectsFirst ==
  ASSUME NEW done, NEW v, NEW vtx, Len(vtx) \in Nat, NEW nHeight, Connects(done, v, vtx, nHeight)
  PROVE  done[0] = [ok |-> TRUE, view |-> v, fees |-> 0, undo |-> <<>>]
<1>1. 0 \in 0..Len(vtx)
  OBVIOUS
<1> QED BY <1>1 DEF Connects

\* One transaction of ConnectBlock after another.
LEMMA ConnectsNext ==
  ASSUME NEW done, NEW v, NEW vtx, Len(vtx) \in Nat, NEW nHeight, Connects(done, v, vtx, nHeight),
         NEW i \in 1..Len(vtx)
  PROVE  done[i] = ConnectTx(done[i - 1], vtx[i], nHeight)
<1>1. \A k \in 0..Len(vtx) : done[k] = IF k = 0 THEN [ok |-> TRUE, view |-> v, fees |-> 0, undo |-> <<>>]
                                       ELSE ConnectTx(done[k - 1], vtx[k], nHeight)
  BY Zenon DEF Connects
<1>2. i \in 0..Len(vtx) /\ i # 0
  OBVIOUS
<1> QED BY <1>1, <1>2

\* What ConnectTx returns has the fields of ConnectBlock's result.
Fields(acc) == acc = [ok |-> acc.ok, view |-> acc.view, fees |-> acc.fees, undo |-> acc.undo]
LEMMA ConnectTxFields ==
  ASSUME NEW acc, Fields(acc), NEW tx, NEW nHeight
  PROVE  /\ Fields(ConnectTx(acc, tx, nHeight))
         /\ ConnectTx(acc, tx, nHeight).ok =>
              /\ acc.ok /\ CheckInputs(acc.view, tx, nHeight)
              /\ ConnectTx(acc, tx, nHeight).view = UpdateCoins(acc.view, tx, nHeight).view
              /\ ConnectTx(acc, tx, nHeight).undo =
                   IF tx.coinbase THEN acc.undo ELSE Append(acc.undo, UpdateCoins(acc.view, tx, nHeight).undo)
              /\ ConnectTx(acc, tx, nHeight).fees =
                   IF tx.coinbase THEN acc.fees ELSE acc.fees + GetValueIn(acc.view, tx) - GetValueOut(tx)
<1> DEFINE res == ConnectTx(acc, tx, nHeight)
           upd == UpdateCoins(acc.view, tx, nHeight)
<1>1. CASE ~acc.ok \/ ~CheckInputs(acc.view, tx, nHeight)
  <2>1. res = [acc EXCEPT !.ok = FALSE]
    BY <1>1 DEF ConnectTx
  <2>2. res = [ok |-> FALSE, view |-> acc.view, fees |-> acc.fees, undo |-> acc.undo]
    <3> HIDE DEF res
    <3> QED BY <2>1 DEF Fields
  <2> HIDE DEF res
  <2>3. res.ok = FALSE /\ Fields(res)
    BY <2>2 DEF Fields
  <2> QED BY <2>3 DEF res
<1>2. CASE acc.ok /\ CheckInputs(acc.view, tx, nHeight)
  <2> DEFINE fees == IF tx.coinbase THEN acc.fees
                     ELSE acc.fees + GetValueIn(acc.view, tx) - GetValueOut(tx)
             undo == IF tx.coinbase THEN acc.undo ELSE Append(acc.undo, upd.undo)
  <2>1. res = [ok |-> TRUE, view |-> upd.view, fees |-> fees, undo |-> undo]
    BY <1>2, Zenon DEF ConnectTx
  <2> HIDE DEF res, fees, undo, upd
  <2>2. Fields(res) /\ res.view = upd.view /\ res.undo = undo /\ res.fees = fees
    BY <2>1 DEF Fields
  <2> QED BY <2>2, <1>2 DEF res, fees, undo, upd
<1> QED BY <1>1, <1>2

\* Every intermediate result of ConnectBlock has these fields.
LEMMA DoneFields ==
  ASSUME NEW done, NEW v, NEW vtx, Len(vtx) \in Nat, NEW nHeight, Connects(done, v, vtx, nHeight),
         NEW i \in 0..Len(vtx)
  PROVE  Fields(done[i])
<1> DEFINE L == Len(vtx)
           Shapeless == {k \in 0..L : ~Fields(done[k])}
<1>1. done[0] = [ok |-> TRUE, view |-> v, fees |-> 0, undo |-> <<>>]
  BY ConnectsFirst
<1>2. ASSUME NEW k \in 1..L PROVE done[k] = ConnectTx(done[k - 1], vtx[k], nHeight)
  BY ConnectsNext
<1>3. Fields(done[0])
  BY <1>1 DEF Fields
<1>4. Shapeless = {}
  <2> SUFFICES ASSUME Shapeless # {} PROVE FALSE
    OBVIOUS
  <2>0. Shapeless \in SUBSET Nat
    OBVIOUS
  <2>1. PICK n \in Shapeless : \A y \in Shapeless : n <= y
    BY <2>0, Least
  <2>2. n # 0 /\ n \in 0..L
    BY <1>3
  <2>3. n \in 1..L /\ n - 1 \in 0..L /\ ~(n <= n - 1)
    BY <2>2
  <2>4. Fields(done[n - 1])
    BY <2>1, <2>3
  <2>5. Fields(done[n])
    BY <2>3, <2>4, <1>2, ConnectTxFields
  <2> QED BY <2>5
<1> QED BY <1>4

\* A block is accepted only if every transaction is.
LEMMA AllConnected ==
  ASSUME NEW done, NEW v, NEW vtx, Len(vtx) \in Nat, NEW nHeight, Connects(done, v, vtx, nHeight),
         done[Len(vtx)].ok
  PROVE  \A i \in 1..Len(vtx) :
           /\ done[i - 1].ok /\ CheckInputs(done[i - 1].view, vtx[i], nHeight)
           /\ done[i].view = UpdateCoins(done[i - 1].view, vtx[i], nHeight).view
           /\ done[i].undo = IF vtx[i].coinbase THEN done[i - 1].undo
                             ELSE Append(done[i - 1].undo, UpdateCoins(done[i - 1].view, vtx[i], nHeight).undo)
           /\ done[i].fees = IF vtx[i].coinbase THEN done[i - 1].fees
                             ELSE done[i - 1].fees + GetValueIn(done[i - 1].view, vtx[i]) - GetValueOut(vtx[i])
<1> DEFINE L == Len(vtx)
           Bad == {n \in 0..L : ~done[L - n].ok}
<1>2. ASSUME NEW i \in 1..L PROVE done[i] = ConnectTx(done[i - 1], vtx[i], nHeight)
  BY ConnectsNext
<1>5. ASSUME NEW i \in 1..L, done[i].ok
      PROVE  /\ done[i - 1].ok /\ CheckInputs(done[i - 1].view, vtx[i], nHeight)
             /\ done[i].view = UpdateCoins(done[i - 1].view, vtx[i], nHeight).view
             /\ done[i].undo = IF vtx[i].coinbase THEN done[i - 1].undo
                               ELSE Append(done[i - 1].undo, UpdateCoins(done[i - 1].view, vtx[i], nHeight).undo)
             /\ done[i].fees = IF vtx[i].coinbase THEN done[i - 1].fees
                               ELSE done[i - 1].fees + GetValueIn(done[i - 1].view, vtx[i]) - GetValueOut(vtx[i])
  <2>1. i - 1 \in 0..L
    OBVIOUS
  <2>2. Fields(done[i - 1])
    BY <2>1, DoneFields
  <2> QED BY <2>2, <1>2, <1>5, ConnectTxFields
<1>6. Bad = {}
  <2> SUFFICES ASSUME Bad # {} PROVE FALSE
    OBVIOUS
  <2>0. Bad \in SUBSET Nat
    OBVIOUS
  <2>1. PICK n \in Bad : \A y \in Bad : n <= y
    BY <2>0, Least
  <2>2. n # 0 /\ n \in 0..L
    <3>1. L - 0 = L
      OBVIOUS
    <3> QED BY <3>1
  <2>3. n - 1 \in 0..L /\ ~(n <= n - 1) /\ L - (n - 1) \in 1..L /\ L - (n - 1) - 1 = L - n
    BY <2>2
  <2>4. done[L - (n - 1)].ok
    BY <2>1, <2>3
  <2>5. done[L - (n - 1) - 1].ok
    BY <2>3, <2>4, <1>5
  <2> QED BY <2>3, <2>5
<1>7. ASSUME NEW i \in 1..L PROVE done[i].ok
  <2>1. L - i \in 0..L /\ L - (L - i) = i
    OBVIOUS
  <2> QED BY <2>1, <1>6
<1> QED BY <1>5, <1>7

Accepted(done, v, vtx, nHeight) == Connects(done, v, vtx, nHeight) /\ done[Len(vtx)].ok
BlockUndo(done, vtx, nHeight, k) == UpdateCoins(done[k - 1].view, vtx[k], nHeight).undo

\* After i transactions of a block.
ConnectedTo(done, P, S, vtx, nHeight, i) ==
  /\ Exact(done[i].view, PlacedIn(P, vtx, nHeight, i), SpentIn(S, vtx, i))
  /\ World(PlacedIn(P, vtx, nHeight, i), SpentIn(S, vtx, i))
  /\ done[i].undo \in Seq({BlockUndo(done, vtx, nHeight, k) : k \in 2..Len(vtx)})
  /\ Len(done[i].undo) = IF i = 0 THEN 0 ELSE i - 1
  /\ \A k \in 2..i : done[i].undo[k - 1] = BlockUndo(done, vtx, nHeight, k)

\* The next transaction meets the conditions of the lemmas on transactions.
LEMMA NextReady ==
  ASSUME NEW v, NEW P, NEW S, NEW vtx, NEW nHeight, BlockReady(v, P, S, vtx, nHeight),
         NEW done, Accepted(done, v, vtx, nHeight), NEW i \in 1..Len(vtx),
         ConnectedTo(done, P, S, vtx, nHeight, i - 1)
  PROVE  Ready(done[i - 1].view, PlacedIn(P, vtx, nHeight, i - 1), SpentIn(S, vtx, i - 1), vtx[i], nHeight)
<1>1. vtx \in Seq(Transaction) /\ CheckBlock(vtx) /\ nHeight \in Nat \ {0}
  BY DEF BlockReady
<1>2. Len(vtx) \in Nat /\ DOMAIN vtx = 1..Len(vtx) /\ vtx[i] \in Transaction /\ i \in DOMAIN vtx
  BY <1>1
<1>3. CheckTransaction(vtx[i]) /\ (vtx[i].coinbase <=> i = 1)
  BY <1>1, <1>2 DEF CheckBlock
<1>4. CheckInputs(done[i - 1].view, vtx[i], nHeight)
  BY <1>2, AllConnected DEF Accepted
<1>5. ASSUME NEW p \in PlacedIn(P, vtx, nHeight, i - 1), p.tx.hash = vtx[i].hash
      PROVE  p.tx = vtx[i] /\ ~vtx[i].coinbase
  <2>1. CASE p \in P
    BY <2>1, <1>2, <1>3, <1>5 DEF BlockReady
  <2>2. CASE p \notin P
    <3>1. PICK k \in 1..i - 1 : p = [height |-> nHeight, tx |-> vtx[k]]
      BY <2>2 DEF PlacedIn
    <3>2. p.tx = vtx[k] /\ k \in DOMAIN vtx /\ k # i
      BY <3>1, <1>2
    <3>3. \A a, b \in DOMAIN vtx : vtx[a].hash = vtx[b].hash => a = b
      <4> DEFINE hashes == [a \in DOMAIN vtx |-> vtx[a].hash]
      <4>1. IsInjective(hashes)
        BY <1>1 DEF CheckBlock
      <4>2. DOMAIN hashes = DOMAIN vtx /\ \A a \in DOMAIN vtx : hashes[a] = vtx[a].hash
        OBVIOUS
      <4> HIDE DEF hashes
      <4> QED BY <4>1, <4>2 DEF IsInjective
    <3> QED BY <3>2, <3>3, <1>2, <1>5
  <2> QED BY <2>1, <2>2
<1> QED BY <1>1, <1>2, <1>3, <1>4, <1>5 DEF Ready, ConnectedTo

\* One transaction more.
LEMMA BlockStep ==
  ASSUME NEW v, NEW P, NEW S, NEW vtx, NEW nHeight, BlockReady(v, P, S, vtx, nHeight),
         NEW done, Accepted(done, v, vtx, nHeight), NEW i \in 1..Len(vtx),
         ConnectedTo(done, P, S, vtx, nHeight, i - 1)
  PROVE  ConnectedTo(done, P, S, vtx, nHeight, i)
<1> DEFINE Q == PlacedIn(P, vtx, nHeight, i - 1)
           T == SpentIn(S, vtx, i - 1)
           w == done[i - 1].view
           U == {BlockUndo(done, vtx, nHeight, k) : k \in 2..Len(vtx)}
<1>1. Ready(w, Q, T, vtx[i], nHeight)
  BY NextReady
<1>2. vtx \in Seq(Transaction) /\ Len(vtx) \in Nat /\ i \in DOMAIN vtx /\ CheckBlock(vtx)
  BY DEF BlockReady
<1>3. vtx[i].coinbase <=> i = 1
  BY <1>2 DEF CheckBlock
<1>4. PlacedIn(P, vtx, nHeight, i) = Q \cup {[height |-> nHeight, tx |-> vtx[i]]}
  <2>1. 1..i = (1..i - 1) \cup {i}
    BY <1>2
  <2> QED BY <2>1 DEF PlacedIn
<1>5. SpentIn(S, vtx, i) = T \cup SpentOf(vtx[i])
  <2>1. 1..i = (1..i - 1) \cup {i}
    BY <1>2
  <2> QED BY <2>1 DEF SpentIn
<1>6. done[i].view = UpdateCoins(w, vtx[i], nHeight).view
  BY <1>2, AllConnected DEF Accepted
<1>7. done[i].undo = IF vtx[i].coinbase THEN done[i - 1].undo ELSE Append(done[i - 1].undo, BlockUndo(done, vtx, nHeight, i))
  <2>1. done[i].undo = IF vtx[i].coinbase THEN done[i - 1].undo
                       ELSE Append(done[i - 1].undo, UpdateCoins(done[i - 1].view, vtx[i], nHeight).undo)
    BY <1>2, AllConnected DEF Accepted
  <2> QED BY <2>1 DEF BlockUndo
<1> HIDE DEF Q, T, w
<1>8. Exact(done[i].view, PlacedIn(P, vtx, nHeight, i), SpentIn(S, vtx, i))
  <2>1. Exact(UpdateCoins(w, vtx[i], nHeight).view, Q \cup {[height |-> nHeight, tx |-> vtx[i]]},
              T \cup SpentOf(vtx[i]))
    BY <1>1, TxExact
  <2> QED BY <2>1, <1>4, <1>5, <1>6
<1>9. World(PlacedIn(P, vtx, nHeight, i), SpentIn(S, vtx, i))
  BY <1>1, <1>4, <1>5, NewWorld
<1>10. /\ done[i - 1].undo \in Seq(U) /\ Len(done[i - 1].undo) = IF i - 1 = 0 THEN 0 ELSE i - 1 - 1
       /\ \A k \in 2..i - 1 : done[i - 1].undo[k - 1] = BlockUndo(done, vtx, nHeight, k)
  BY DEF ConnectedTo
<1>11. /\ done[i].undo \in Seq(U) /\ Len(done[i].undo) = IF i = 0 THEN 0 ELSE i - 1
       /\ \A k \in 2..i : done[i].undo[k - 1] = BlockUndo(done, vtx, nHeight, k)
  <2>1. CASE i = 1
    BY <2>1, <1>3, <1>7, <1>10
  <2>2. CASE i # 1
    <3>1. i \in 2..Len(vtx) /\ i - 1 # 0 /\ i - 1 - 1 = i - 2 /\ i - 2 \in Nat /\ i - 2 + 1 = i - 1 /\ i # 0
      BY <2>2, <1>2
    <3>2. BlockUndo(done, vtx, nHeight, i) \in U
      BY <3>1
    <3> DEFINE s == done[i - 1].undo
               e == BlockUndo(done, vtx, nHeight, i)
    <3>3. done[i].undo = Append(s, e) /\ s \in Seq(U) /\ Len(s) = i - 2 /\ e \in U
      BY <3>1, <3>2, <2>2, <1>3, <1>7, <1>10
    <3> HIDE DEF s, e, U
    <3>4. done[i].undo \in Seq(U) /\ Len(done[i].undo) = i - 1
      BY <3>1, <3>3
    <3>5. ASSUME NEW k \in 2..i PROVE done[i].undo[k - 1] = BlockUndo(done, vtx, nHeight, k)
      <4>1. CASE k = i
        <5>1. Append(s, e)[i - 1] = e
          BY <3>1, <3>3
        <5> QED BY <5>1, <4>1, <3>3 DEF e
      <4>2. CASE k # i
        <5>1. k \in 2..i - 1 /\ k - 1 \in 1..i - 2
          BY <4>2, <3>1
        <5>2. Append(s, e)[k - 1] = s[k - 1]
          BY <5>1, <3>3
        <5> QED BY <5>1, <5>2, <3>3, <1>10 DEF s
      <4> QED BY <4>1, <4>2
    <3> QED BY <3>1, <3>4, <3>5
  <2> QED BY <2>1, <2>2
<1> QED BY <1>8, <1>9, <1>11 DEF ConnectedTo

\* Every transaction of an accepted block in its turn.
LEMMA BlockAll ==
  ASSUME NEW v, NEW P, NEW S, NEW vtx, NEW nHeight, BlockReady(v, P, S, vtx, nHeight),
         NEW done, Accepted(done, v, vtx, nHeight), NEW i \in 0..Len(vtx)
  PROVE  ConnectedTo(done, P, S, vtx, nHeight, i)
<1> DEFINE L == Len(vtx)
           Bad == {k \in 0..L : ~ConnectedTo(done, P, S, vtx, nHeight, k)}
<1>1. L \in Nat
  BY DEF BlockReady
<1>2. ConnectedTo(done, P, S, vtx, nHeight, 0)
  <2>1. done[0] = [ok |-> TRUE, view |-> v, fees |-> 0, undo |-> <<>>]
    BY <1>1, ConnectsFirst DEF Accepted
  <2>2. done[0].view = v /\ done[0].undo = <<>>
    BY <2>1
  <2>3. 1..0 = {} /\ 2..0 = {}
    OBVIOUS
  <2>4. PlacedIn(P, vtx, nHeight, 0) = P /\ SpentIn(S, vtx, 0) = S
    BY <2>3 DEF PlacedIn, SpentIn
  <2>5. <<>> \in Seq({BlockUndo(done, vtx, nHeight, k) : k \in 2..L}) /\ Len(<<>>) = 0
    OBVIOUS
  <2> QED BY <2>2, <2>3, <2>4, <2>5 DEF ConnectedTo, BlockReady
<1>3. Bad = {}
  <2> SUFFICES ASSUME Bad # {} PROVE FALSE
    OBVIOUS
  <2>1. Bad \in SUBSET Nat
    BY <1>1
  <2>2. PICK n \in Bad : \A y \in Bad : n <= y
    BY <2>1, Least
  <2>3. n # 0 /\ n \in 0..L
    BY <1>2
  <2>4. n \in 1..L /\ n - 1 \in 0..L /\ ~(n <= n - 1)
    BY <2>3, <1>1
  <2>5. ConnectedTo(done, P, S, vtx, nHeight, n - 1)
    BY <2>2, <2>4
  <2>6. ConnectedTo(done, P, S, vtx, nHeight, n)
    BY <2>4, <2>5, BlockStep
  <2> QED BY <2>6
<1> QED BY <1>3

\* One transaction of DisconnectBlock.
LEMMA UndoesStep ==
  ASSUME NEW v, NEW P, NEW S, NEW vtx, NEW nHeight, BlockReady(v, P, S, vtx, nHeight),
         NEW done, Accepted(done, v, vtx, nHeight), NEW i \in 1..Len(vtx),
         NEW acc, CleanAt(acc, done[i].view)
  PROVE  CleanAt(DisconnectTx(acc, vtx, i, done[Len(vtx)].undo, nHeight), done[i - 1].view)
<1> DEFINE L == Len(vtx)
           w == done[i - 1].view
           tx == vtx[i]
           undo == UpdateCoins(w, tx, nHeight).undo
           back == TakenBack(acc, tx, undo, nHeight)
           Q == PlacedIn(P, vtx, nHeight, i - 1)
           T == SpentIn(S, vtx, i - 1)
<1>1. vtx \in Seq(Transaction) /\ L \in Nat /\ i \in DOMAIN vtx /\ CheckBlock(vtx)
  BY DEF BlockReady
<1>2. i - 1 \in 0..L /\ L \in 0..L
  BY <1>1
<1>3. ConnectedTo(done, P, S, vtx, nHeight, i - 1) /\ ConnectedTo(done, P, S, vtx, nHeight, L)
  BY <1>2, BlockAll
<1>4. Ready(w, Q, T, tx, nHeight)
  BY <1>3, NextReady
<1>5. CleanAt(acc, UpdateCoins(w, tx, nHeight).view)
  <2>1. done[i].view = UpdateCoins(w, tx, nHeight).view
    BY <1>1, AllConnected DEF Accepted
  <2> QED BY <2>1
<1>6. CleanAt(back, w)
  <2> HIDE DEF w, tx, Q, T
  <2> QED BY <1>4, <1>5, TxUndone
<1>7. tx.coinbase <=> i = 1
  BY <1>1 DEF CheckBlock
<1>8. i # 1 => done[L].undo[i - 1] = undo
  <2>1. i # 1 => i \in 2..L
    BY <1>1
  <2>2. \A k \in 2..L : done[L].undo[k - 1] = UpdateCoins(done[k - 1].view, vtx[k], nHeight).undo
    BY <1>3, Zenon DEF ConnectedTo, BlockUndo
  <2> QED BY <2>1, <2>2
<1> HIDE DEF undo, w
<1>9. DisconnectTx(acc, vtx, i, done[L].undo, nHeight) = back
  BY <1>7, <1>8, Zenon DEF DisconnectTx, TakenBack
<1> HIDE DEF back
<1> QED BY <1>6, <1>9 DEF w

\* CBlock::DisconnectBlock takes back what ConnectBlock did.
LEMMA BlockUndone ==
  ASSUME NEW v, NEW P, NEW S, NEW vtx, NEW nHeight, BlockReady(v, P, S, vtx, nHeight),
         NEW done, Accepted(done, v, vtx, nHeight)
  PROVE  LET res == DisconnectBlock(done[Len(vtx)].view, vtx, done[Len(vtx)].undo, nHeight)
         IN  CleanAt(res, v)
<1> DEFINE L == Len(vtx)
           view == done[L].view
           undo == done[L].undo
<1>1. L \in Nat
  BY DEF BlockReady
<1>2. PICK undone : /\ Undoes(undone, view, vtx, undo, nHeight)
                    /\ DisconnectBlock(view, vtx, undo, nHeight) = undone[1]
  <2> HIDE DEF view, undo
  <2> QED BY <1>1, DisconnectBlockDef
<1>3. \A k \in 1..L + 1 : undone[k] = IF k > L THEN [clean |-> TRUE, view |-> view]
                                      ELSE DisconnectTx(undone[k + 1], vtx, k, undo, nHeight)
  <2> HIDE DEF view, undo
  <2> QED BY <1>2, Zenon DEF Undoes
<1> DEFINE Back(n) == CleanAt(undone[L + 1 - n], done[L - n].view)
           Bad == {n \in 0..L : ~Back(n)}
<1>4. Back(0)
  <2>1. L + 1 - 0 = L + 1 /\ L - 0 = L /\ L + 1 \in 1..L + 1 /\ L + 1 > L
    BY <1>1
  <2>2. undone[L + 1] = [clean |-> TRUE, view |-> view]
    BY <2>1, <1>3
  <2> QED BY <2>1, <2>2 DEF CleanAt
<1>5. ASSUME NEW n \in 0..L, n # 0, Back(n - 1) PROVE Back(n)
  <2> DEFINE j == L + 1 - n
  <2>1. /\ j \in 1..L /\ L + 1 - (n - 1) = j + 1 /\ L - (n - 1) = j /\ L - n = j - 1
        /\ j \in 1..L + 1 /\ ~(j > L) /\ L + 1 - n = j
    BY <1>1, <1>5
  <2> HIDE DEF j
  <2> DEFINE acc == undone[j + 1]
  <2>2. CleanAt(acc, done[j].view)
    BY <2>1, <1>5
  <2>3. undone[j] = DisconnectTx(acc, vtx, j, undo, nHeight)
    BY <2>1, <1>3
  <2> HIDE DEF acc
  <2>4. CleanAt(DisconnectTx(acc, vtx, j, undo, nHeight), done[j - 1].view)
    <3> HIDE DEF undo
    <3>1. undo = done[Len(vtx)].undo /\ j \in 1..Len(vtx)
      BY <2>1 DEF undo
    <3> QED BY <3>1, <2>2, UndoesStep
  <2> QED BY <2>1, <2>3, <2>4
<1>6. Bad = {}
  <2> SUFFICES ASSUME Bad # {} PROVE FALSE
    OBVIOUS
  <2> HIDE DEF Back
  <2>0. Bad \in SUBSET Nat
    BY <1>1
  <2>1. 0 \notin Bad
    BY <1>4, Zenon
  <2>2. PICK n \in Bad : \A y \in Bad : n <= y
    BY <2>0, Least
  <2>3. n \in 0..L /\ n # 0 /\ ~Back(n)
    BY <2>1, <2>2, Zenon
  <2>4. n - 1 \in 0..L /\ ~(n <= n - 1)
    BY <2>3, <1>1
  <2>5. Back(n - 1)
    BY <2>2, <2>4
  <2> QED BY <2>3, <2>5, <1>5
<1>7. L \in 0..L /\ L + 1 - L = 1 /\ L - L = 0
  BY <1>1
<1>8. Back(L)
  <2> HIDE DEF Back
  <2> QED BY <1>6, <1>7
<1>9. done[0].view = v
  <2>1. done[0] = [ok |-> TRUE, view |-> v, fees |-> 0, undo |-> <<>>]
    BY <1>1, ConnectsFirst DEF Accepted
  <2> QED BY <2>1
<1> QED BY <1>2, <1>7, <1>8, <1>9

\* ConnectBlock accepts a block only if its transactions are accepted in order.
LEMMA BlockConnected ==
  ASSUME NEW v, NEW vtx, Len(vtx) \in Nat, NEW nHeight, ConnectBlock(v, vtx, nHeight).ok
  PROVE  \E done : /\ Accepted(done, v, vtx, nHeight)
                   /\ ConnectBlock(v, vtx, nHeight).view = done[Len(vtx)].view
                   /\ ConnectBlock(v, vtx, nHeight).undo = done[Len(vtx)].undo
                   /\ CoinbaseLimit(vtx, nHeight, done[Len(vtx)].fees)
<1> DEFINE L == Len(vtx)
           res == ConnectBlock(v, vtx, nHeight)
<1>1. PICK done : /\ Connects(done, v, vtx, nHeight)
                  /\ res = [done[L] EXCEPT !.ok = @ /\ CoinbaseLimit(vtx, nHeight, done[L].fees)]
  BY ConnectBlockDef
<1> DEFINE all == done[L]
           limit == CoinbaseLimit(vtx, nHeight, all.fees)
<1>2. L \in 0..L
  OBVIOUS
<1>3. Fields(all)
  BY <1>1, <1>2, DoneFields
<1>4. res.ok /\ res = [all EXCEPT !.ok = @ /\ limit]
  BY <1>1
<1> HIDE DEF all, res, limit
<1>5. res = [ok |-> all.ok /\ limit, view |-> all.view, fees |-> all.fees, undo |-> all.undo]
  BY <1>3, <1>4 DEF Fields
<1>6. res.view = all.view /\ res.undo = all.undo
  BY <1>5
<1>7. res.ok = (all.ok /\ limit)
  BY <1>5, Zenon
<1>8. all.ok /\ limit
  BY <1>4, <1>7, Zenon
<1> QED BY <1>1, <1>6, <1>8 DEF Accepted, all, res, limit

\* What a block spends was created before and not spent, and is mature; what it
\* creates is new.
LEMMA BlockInputs ==
  ASSUME NEW v, NEW P, NEW S, NEW vtx, NEW nHeight, BlockReady(v, P, S, vtx, nHeight),
         NEW done, Accepted(done, v, vtx, nHeight), NEW i \in 1..Len(vtx)
  PROVE  /\ \A p \in PlacedIn(P, vtx, nHeight, i - 1) : p.tx.hash # vtx[i].hash
         /\ \A o \in SpentOf(vtx[i]) :
              /\ o \notin SpentIn(S, vtx, i - 1)
              /\ \E p \in PlacedIn(P, vtx, nHeight, i - 1) : p.tx.hash = o.hash /\ o.n \in DOMAIN p.tx.vout
              /\ \A p \in PlacedIn(P, vtx, nHeight, Len(vtx)) :
                   p.tx.hash = o.hash /\ p.tx.coinbase => nHeight - p.height >= COINBASE_MATURITY
<1> DEFINE L == Len(vtx)
           Q == PlacedIn(P, vtx, nHeight, i - 1)
           T == SpentIn(S, vtx, i - 1)
<1>1. L \in Nat /\ i - 1 \in 0..L /\ L \in 0..L
  BY DEF BlockReady
<1>2. ConnectedTo(done, P, S, vtx, nHeight, i - 1) /\ ConnectedTo(done, P, S, vtx, nHeight, L)
  BY <1>1, BlockAll
<1>3. Ready(done[i - 1].view, Q, T, vtx[i], nHeight)
  BY <1>2, NextReady
<1>4. \A p \in Q : p.tx.hash # vtx[i].hash
  BY <1>3, NewHash
<1>5. Distinct(PlacedIn(P, vtx, nHeight, L)) /\ Q \subseteq PlacedIn(P, vtx, nHeight, L)
  <2>1. 1..i - 1 \subseteq 1..L
    BY <1>1
  <2>2. Q \subseteq PlacedIn(P, vtx, nHeight, L)
    BY <2>1 DEF PlacedIn
  <2> QED BY <2>2, <1>2 DEF ConnectedTo, World
<1>6. ASSUME NEW o \in SpentOf(vtx[i])
      PROVE  /\ o \notin T
             /\ \E p \in Q : p.tx.hash = o.hash /\ o.n \in DOMAIN p.tx.vout
             /\ \A p \in PlacedIn(P, vtx, nHeight, L) :
                  p.tx.hash = o.hash /\ p.tx.coinbase => nHeight - p.height >= COINBASE_MATURITY
  <2> DEFINE tx == vtx[i]
             w == done[i - 1].view
  <2> HIDE DEF Q, T, tx, w
  <2>0. Ready(w, Q, T, tx, nHeight) /\ o \in SpentOf(tx)
    BY <1>3 DEF w, tx
  <2>1. o \notin T /\ \E p \in Q : p.tx.hash = o.hash /\ o.n \in DOMAIN p.tx.vout
    BY <2>0, InputsThere
  <2>2. \A p \in Q : p.tx.hash = o.hash /\ p.tx.coinbase => nHeight - p.height >= COINBASE_MATURITY
    BY <2>0, InputsThere
  <2>3. \A p \in PlacedIn(P, vtx, nHeight, L) : p.tx.hash = o.hash => p \in Q
    BY <2>1, <1>5 DEF Distinct
  <2> QED BY <2>1, <2>2, <2>3
<1> QED BY <1>4, <1>6

-----------------------------------------------------------------------------
(* The chain.  c is a chain as a function on 1..n.                         *)

PosOf(c) == UNION {{<<h, i>> : i \in DOMAIN c[h].vtx} : h \in DOMAIN c}
TxOf(c, p) == c[p[1]].vtx[p[2]]
Chained(c) == {[height |-> p[1], tx |-> TxOf(c, p)] : p \in PosOf(c)}
SpentAlong(c) == UNION {SpentOf(TxOf(c, p)) : p \in PosOf(c)}

\* The view w is exact, no two transactions have the same hash, what is spent was
\* created before, once, and is mature.
Blocks(c) == \A h \in DOMAIN c : /\ c[h].vtx \in Candidates /\ CheckBlock(c[h].vtx)
                                 /\ Len(c[h].undo) = Len(c[h].vtx) - 1
Hashes(c) == \A p, q \in PosOf(c) : p # q => TxOf(c, p).hash # TxOf(c, q).hash
SpentOnce(c) == \A p, q \in PosOf(c) : p # q => SpentOf(TxOf(c, p)) \cap SpentOf(TxOf(c, q)) = {}
Created(c) == \A p \in PosOf(c) : \A o \in SpentOf(TxOf(c, p)) :
                \E q \in PosOf(c) : Before(q, p) /\ TxOf(c, q).hash = o.hash /\ o.n \in DOMAIN TxOf(c, q).vout
Mature(c) == \A p, q \in PosOf(c) :
               TxOf(c, q).coinbase /\ (\E o \in SpentOf(TxOf(c, p)) : o.hash = TxOf(c, q).hash)
                 => p[1] - q[1] >= COINBASE_MATURITY
Good(c, w) == /\ Blocks(c) /\ Hashes(c) /\ SpentOnce(c) /\ Created(c) /\ Mature(c)
              /\ World(Chained(c), SpentAlong(c)) /\ Exact(w, Chained(c), SpentAlong(c))

\* A position is a height and an index.
LEMMA Position ==
  ASSUME NEW c, NEW p
  PROVE  p \in PosOf(c) <=> \E h \in DOMAIN c : \E i \in DOMAIN c[h].vtx : p = <<h, i>>
BY DEF PosOf

\* c with the block b on top.
OneMore(c, d, n, b) == /\ n \in Nat /\ DOMAIN c = 1..n /\ DOMAIN d = 1..n + 1
                       /\ d[n + 1] = b /\ \A h \in 1..n : d[h] = c[h]

\* The positions of the longer chain.
LEMMA MorePositions ==
  ASSUME NEW c, NEW d, NEW n, NEW b, OneMore(c, d, n, b)
  PROVE  /\ PosOf(d) = PosOf(c) \cup {<<n + 1, i>> : i \in DOMAIN b.vtx}
         /\ \A p \in PosOf(c) : TxOf(d, p) = TxOf(c, p) /\ p[1] \in 1..n /\ p = <<p[1], p[2]>>
         /\ \A i \in DOMAIN b.vtx : TxOf(d, <<n + 1, i>>) = b.vtx[i]
         /\ \A i \in DOMAIN b.vtx : <<n + 1, i>> \notin PosOf(c)
<1>0. n \in Nat /\ DOMAIN c = 1..n /\ DOMAIN d = 1..n + 1 /\ d[n + 1] = b /\ \A h \in 1..n : d[h] = c[h]
  BY DEF OneMore
<1>1. ASSUME NEW p \in PosOf(c) PROVE TxOf(d, p) = TxOf(c, p) /\ p[1] \in 1..n /\ p = <<p[1], p[2]>> /\ p \in PosOf(d)
  <2>0. PICK h \in 1..n : \E i \in DOMAIN c[h].vtx : p = <<h, i>>
    BY <1>0, Position
  <2>1. PICK i \in DOMAIN c[h].vtx : p = <<h, i>>
    BY <2>0
  <2>2. p[1] = h /\ p[2] = i /\ d[h] = c[h] /\ h \in 1..n + 1
    BY <2>1, <1>0
  <2>3. p \in PosOf(d)
    BY <2>1, <2>2, <1>0, Position
  <2> QED BY <2>1, <2>2, <2>3 DEF TxOf
<1>2. ASSUME NEW i \in DOMAIN b.vtx
      PROVE  <<n + 1, i>> \in PosOf(d) /\ TxOf(d, <<n + 1, i>>) = b.vtx[i] /\ <<n + 1, i>> \notin PosOf(c)
  <2> DEFINE p == <<n + 1, i>>
  <2>1. p[1] = n + 1 /\ p[2] = i /\ n + 1 \in 1..n + 1 /\ n + 1 \notin 1..n
    BY <1>0
  <2>2. p \in PosOf(d)
    BY <2>1, <1>0, Position
  <2> HIDE DEF p
  <2>3. p \notin PosOf(c)
    BY <2>1, <1>1
  <2>4. TxOf(d, p) = b.vtx[i]
    BY <2>1, <1>0 DEF TxOf
  <2> QED BY <2>2, <2>3, <2>4 DEF p
<1>3. ASSUME NEW p \in PosOf(d), p \notin PosOf(c) PROVE p \in {<<n + 1, i>> : i \in DOMAIN b.vtx}
  <2>0. PICK h \in 1..n + 1 : \E i \in DOMAIN d[h].vtx : p = <<h, i>>
    BY <1>0, Position
  <2>1. PICK i \in DOMAIN d[h].vtx : p = <<h, i>>
    BY <2>0
  <2>2. h \notin 1..n
    BY <2>1, <1>0, <1>3, Position
  <2>3. h = n + 1
    BY <2>2, <1>0
  <2> QED BY <2>1, <2>3, <1>0
<1> QED BY <1>1, <1>2, <1>3

\* The transactions of the longer chain and what they spend.
LEMMA MoreChained ==
  ASSUME NEW c, NEW d, NEW n, NEW b, OneMore(c, d, n, b), b.vtx \in Seq(Transaction)
  PROVE  /\ Chained(d) = PlacedIn(Chained(c), b.vtx, n + 1, Len(b.vtx))
         /\ SpentAlong(d) = SpentIn(SpentAlong(c), b.vtx, Len(b.vtx))
<1> DEFINE L == Len(b.vtx)
           new == {<<n + 1, i>> : i \in 1..L}
<1>1. DOMAIN b.vtx = 1..L
  OBVIOUS
<1>2. /\ PosOf(d) = PosOf(c) \cup new
      /\ \A p \in PosOf(c) : TxOf(d, p) = TxOf(c, p)
      /\ \A i \in 1..L : TxOf(d, <<n + 1, i>>) = b.vtx[i]
  BY <1>1, MorePositions
<1>5. Chained(d) = Chained(c) \cup {[height |-> n + 1, tx |-> b.vtx[i]] : i \in 1..L}
  <2>1. ASSUME NEW o \in Chained(d) PROVE o \in Chained(c) \cup {[height |-> n + 1, tx |-> b.vtx[i]] : i \in 1..L}
    <3>1. PICK p \in PosOf(d) : o = [height |-> p[1], tx |-> TxOf(d, p)]
      BY DEF Chained
    <3>2. CASE p \in PosOf(c)
      BY <3>1, <3>2, <1>2 DEF Chained
    <3>3. CASE p \in new
      <4>1. PICK i \in 1..L : p = <<n + 1, i>>
        BY <3>3
      <4>2. p[1] = n + 1 /\ TxOf(d, p) = b.vtx[i]
        BY <4>1, <1>2
      <4> QED BY <4>2, <3>1
    <3> QED BY <3>2, <3>3, <1>2
  <2>2. Chained(c) \subseteq Chained(d)
    BY <1>2 DEF Chained
  <2>3. ASSUME NEW i \in 1..L PROVE [height |-> n + 1, tx |-> b.vtx[i]] \in Chained(d)
    <3> DEFINE p == <<n + 1, i>>
    <3>1. p \in PosOf(d) /\ TxOf(d, p) = b.vtx[i] /\ p[1] = n + 1
      BY <1>2
    <3> HIDE DEF p
    <3>2. [height |-> p[1], tx |-> TxOf(d, p)] \in Chained(d)
      BY <3>1 DEF Chained
    <3> QED BY <3>1, <3>2
  <2> QED BY <2>1, <2>2, <2>3
<1>6. SpentAlong(d) = SpentAlong(c) \cup UNION {SpentOf(b.vtx[i]) : i \in 1..L}
  <2>1. ASSUME NEW o \in SpentAlong(d) PROVE o \in SpentAlong(c) \cup UNION {SpentOf(b.vtx[i]) : i \in 1..L}
    <3>1. PICK p \in PosOf(d) : o \in SpentOf(TxOf(d, p))
      BY DEF SpentAlong
    <3>2. CASE p \in PosOf(c)
      BY <3>1, <3>2, <1>2 DEF SpentAlong
    <3>3. CASE p \in new
      BY <3>1, <3>3, <1>2
    <3> QED BY <3>2, <3>3, <1>2
  <2>2. SpentAlong(c) \subseteq SpentAlong(d)
    BY <1>2 DEF SpentAlong
  <2>3. ASSUME NEW i \in 1..L PROVE SpentOf(b.vtx[i]) \subseteq SpentAlong(d)
    <3>1. <<n + 1, i>> \in PosOf(d) /\ TxOf(d, <<n + 1, i>>) = b.vtx[i]
      BY <1>2
    <3> QED BY <3>1 DEF SpentAlong
  <2> QED BY <2>1, <2>2, <2>3
<1> QED BY <1>5, <1>6 DEF PlacedIn, SpentIn

\* A block is connected on top of a chain.
Grown(c, d, n, b, v, done) ==
  /\ OneMore(c, d, n, b) /\ Good(c, v)
  /\ BlockReady(v, Chained(c), SpentAlong(c), b.vtx, n + 1)
  /\ Accepted(done, v, b.vtx, n + 1)

\* A position of the longer chain is one of the shorter or one of the new block.
Old(c, d, p) == /\ p \in PosOf(c) /\ TxOf(d, p) = TxOf(c, p)
                /\ [height |-> p[1], tx |-> TxOf(d, p)] \in Chained(c) /\ SpentOf(TxOf(d, p)) \subseteq SpentAlong(c)
New(d, n, b, p, i) == p = <<n + 1, i>> /\ TxOf(d, p) = b.vtx[i]
LEMMA OldOrNew ==
  ASSUME NEW c, NEW d, NEW n, NEW b, NEW v, NEW done, Grown(c, d, n, b, v, done), NEW p \in PosOf(d)
  PROVE  Old(c, d, p) \/ \E i \in 1..Len(b.vtx) : New(d, n, b, p, i)
<1>1. OneMore(c, d, n, b) /\ b.vtx \in Seq(Transaction)
  BY DEF Grown, BlockReady
<1>2. DOMAIN b.vtx = 1..Len(b.vtx)
  BY <1>1
<1>3. CASE p \in PosOf(c)
  <2>1. TxOf(d, p) = TxOf(c, p) /\ p[1] \in 1..n
    BY <1>1, <1>3, MorePositions
  <2> QED BY <2>1, <1>3 DEF Chained, SpentAlong, Old
<1>4. CASE p \notin PosOf(c)
  <2>1. p \in {<<n + 1, i>> : i \in DOMAIN b.vtx}
    BY <1>1, <1>4, MorePositions
  <2>2. PICK i \in 1..Len(b.vtx) : p = <<n + 1, i>>
    BY <2>1, <1>2
  <2>3. TxOf(d, p) = b.vtx[i]
    BY <2>2, <1>1, <1>2, MorePositions
  <2> QED BY <2>2, <2>3 DEF New
<1> QED BY <1>3, <1>4

\* The transactions of the new block: BlockInputs in terms of the longer chain.
NewInput(c, d, n, b, i, o) ==
  /\ o \notin SpentAlong(c) /\ \A k \in 1..i - 1 : o \notin SpentOf(b.vtx[k])
  /\ \E q \in PosOf(d) : /\ Before(q, <<n + 1, i>>) /\ TxOf(d, q).hash = o.hash
                         /\ o.n \in DOMAIN TxOf(d, q).vout
  /\ \A q \in PosOf(d) : TxOf(d, q).hash = o.hash /\ TxOf(d, q).coinbase
                            => (n + 1) - q[1] >= COINBASE_MATURITY
LEMMA NewFacts ==
  ASSUME NEW c, NEW d, NEW n, NEW b, NEW v, NEW done, Grown(c, d, n, b, v, done), NEW i \in 1..Len(b.vtx)
  PROVE  /\ \A q \in Chained(c) : q.tx.hash # b.vtx[i].hash
         /\ \A k \in 1..i - 1 : b.vtx[k].hash # b.vtx[i].hash
         /\ \A o \in SpentOf(b.vtx[i]) : NewInput(c, d, n, b, i, o)
<1> DEFINE P == Chained(c)
           S == SpentAlong(c)
           vtx == b.vtx
           L == Len(vtx)
<1>0. OneMore(c, d, n, b) /\ vtx \in Seq(Transaction) /\ L \in Nat /\ n \in Nat /\ DOMAIN vtx = 1..L
  BY DEF Grown, BlockReady, OneMore
<1>1. /\ \A p \in PlacedIn(P, vtx, n + 1, i - 1) : p.tx.hash # vtx[i].hash
      /\ \A o \in SpentOf(vtx[i]) :
           /\ o \notin SpentIn(S, vtx, i - 1)
           /\ \E p \in PlacedIn(P, vtx, n + 1, i - 1) : p.tx.hash = o.hash /\ o.n \in DOMAIN p.tx.vout
           /\ \A p \in PlacedIn(P, vtx, n + 1, L) :
                p.tx.hash = o.hash /\ p.tx.coinbase => (n + 1) - p.height >= COINBASE_MATURITY
  <2> HIDE DEF P, S, vtx
  <2>1. BlockReady(v, P, S, vtx, n + 1) /\ Accepted(done, v, vtx, n + 1) /\ i \in 1..Len(vtx)
    BY DEF Grown, P, S, vtx
  <2> DEFINE H == n + 1
  <2> HIDE DEF H
  <2>2. BlockReady(v, P, S, vtx, H) /\ Accepted(done, v, vtx, H)
    BY <2>1 DEF H
  <2>3. \A p \in PlacedIn(P, vtx, H, i - 1) : p.tx.hash # vtx[i].hash
    BY <2>1, <2>2, BlockInputs
  <2>4. ASSUME NEW o \in SpentOf(vtx[i])
        PROVE  /\ o \notin SpentIn(S, vtx, i - 1)
               /\ \E p \in PlacedIn(P, vtx, H, i - 1) : p.tx.hash = o.hash /\ o.n \in DOMAIN p.tx.vout
               /\ \A p \in PlacedIn(P, vtx, H, L) :
                    p.tx.hash = o.hash /\ p.tx.coinbase => H - p.height >= COINBASE_MATURITY
    BY <2>1, <2>2, BlockInputs
  <2>5. \A o \in SpentOf(vtx[i]) :
           /\ o \notin SpentIn(S, vtx, i - 1)
           /\ \E p \in PlacedIn(P, vtx, H, i - 1) : p.tx.hash = o.hash /\ o.n \in DOMAIN p.tx.vout
           /\ \A p \in PlacedIn(P, vtx, H, L) :
                p.tx.hash = o.hash /\ p.tx.coinbase => H - p.height >= COINBASE_MATURITY
    BY <2>4
  <2> QED BY <2>3, <2>5, Zenon DEF H
<1>2. \A k \in 1..i - 1 : [height |-> n + 1, tx |-> vtx[k]] \in PlacedIn(P, vtx, n + 1, i - 1)
  BY DEF PlacedIn
<1>3. P \subseteq PlacedIn(P, vtx, n + 1, i - 1)
  BY DEF PlacedIn
<1>4. \A k \in 1..i - 1 : vtx[k].hash # vtx[i].hash
  BY <1>1, <1>2
<1>5. S \subseteq SpentIn(S, vtx, i - 1) /\ \A k \in 1..i - 1 : SpentOf(vtx[k]) \subseteq SpentIn(S, vtx, i - 1)
  BY DEF SpentIn
<1>6. ASSUME NEW o \in SpentOf(vtx[i])
      PROVE  \E q \in PosOf(d) : /\ Before(q, <<n + 1, i>>) /\ TxOf(d, q).hash = o.hash
                                 /\ o.n \in DOMAIN TxOf(d, q).vout
  <2>1. PICK p \in PlacedIn(P, vtx, n + 1, i - 1) : p.tx.hash = o.hash /\ o.n \in DOMAIN p.tx.vout
    BY <1>1
  <2>2. CASE p \in P
    <3>1. PICK q \in PosOf(c) : p = [height |-> q[1], tx |-> TxOf(c, q)]
      BY <2>2 DEF Chained
    <3>2. q \in PosOf(d) /\ TxOf(d, q) = TxOf(c, q) /\ q[1] \in 1..n
      BY <1>0, MorePositions
    <3>3. Before(q, <<n + 1, i>>)
      BY <3>2, <1>0 DEF Before
    <3>4. p.tx = TxOf(d, q)
      BY <3>1, <3>2
    <3> QED BY <3>2, <3>3, <3>4, <2>1
  <2>3. CASE p \notin P
    <3>1. PICK k \in 1..i - 1 : p = [height |-> n + 1, tx |-> vtx[k]]
      BY <2>3 DEF PlacedIn
    <3> DEFINE q == <<n + 1, k>>
    <3>2. k \in DOMAIN vtx
      BY <1>0
    <3>3. q \in PosOf(d) /\ TxOf(d, q) = vtx[k]
      BY <3>2, <1>0, MorePositions
    <3>4. Before(q, <<n + 1, i>>)
      BY <1>0 DEF Before
    <3>5. p.tx = vtx[k]
      BY <3>1
    <3> HIDE DEF q
    <3> QED BY <3>3, <3>4, <3>5, <2>1
  <2> QED BY <2>2, <2>3
<1>7. ASSUME NEW o \in SpentOf(vtx[i]), NEW q \in PosOf(d), TxOf(d, q).hash = o.hash, TxOf(d, q).coinbase
      PROVE  (n + 1) - q[1] >= COINBASE_MATURITY
  <2> DEFINE p == [height |-> q[1], tx |-> TxOf(d, q)]
  <2>1. p \in Chained(d)
    BY DEF Chained
  <2>2. Chained(d) = PlacedIn(P, vtx, n + 1, L)
    BY <1>0, MoreChained
  <2>3. p.tx.hash = o.hash /\ p.tx.coinbase /\ p.height = q[1]
    BY <1>7
  <2> HIDE DEF p
  <2> QED BY <2>1, <2>2, <2>3, <1>1
<1> QED BY <1>1, <1>3, <1>4, <1>5, <1>6, <1>7 DEF NewInput

\* The same, one at a time.
LEMMA NewHashes ==
  ASSUME NEW c, NEW d, NEW n, NEW b, NEW v, NEW done, Grown(c, d, n, b, v, done), NEW i \in 1..Len(b.vtx)
  PROVE  /\ \A q \in Chained(c) : q.tx.hash # b.vtx[i].hash
         /\ \A k \in 1..i - 1 : b.vtx[k].hash # b.vtx[i].hash
BY NewFacts, Zenon

\* The same for an output that the new block spends.
LEMMA NewInputs ==
  ASSUME NEW c, NEW d, NEW n, NEW b, NEW v, NEW done, Grown(c, d, n, b, v, done), NEW i \in 1..Len(b.vtx),
         NEW o \in SpentOf(b.vtx[i])
  PROVE  /\ o \notin SpentAlong(c) /\ \A k \in 1..i - 1 : o \notin SpentOf(b.vtx[k])
         /\ \E q \in PosOf(d) : /\ Before(q, <<n + 1, i>>) /\ TxOf(d, q).hash = o.hash
                                /\ o.n \in DOMAIN TxOf(d, q).vout
         /\ \A q \in PosOf(d) : TxOf(d, q).hash = o.hash /\ TxOf(d, q).coinbase
                                   => (n + 1) - q[1] >= COINBASE_MATURITY
<1>1. NewInput(c, d, n, b, i, o)
  BY NewFacts
<1> QED BY <1>1 DEF NewInput

\* No hash is used twice.
LEMMA GrownHashes ==
  ASSUME NEW c, NEW d, NEW n, NEW b, NEW v, NEW done, Grown(c, d, n, b, v, done)
  PROVE  Hashes(d)
<1>1. Len(b.vtx) \in Nat /\ n \in Nat
  BY DEF Grown, BlockReady, OneMore
<1>2. ASSUME NEW p \in PosOf(d), NEW i \in 1..Len(b.vtx), p # <<n + 1, i>>, TxOf(d, p).hash = b.vtx[i].hash
      PROVE  FALSE
  <2>1. CASE Old(c, d, p)
    <3> DEFINE q == [height |-> p[1], tx |-> TxOf(d, p)]
    <3>1. q \in Chained(c) /\ q.tx = TxOf(d, p)
      BY <2>1 DEF Old
    <3>2. q.tx.hash # b.vtx[i].hash
      BY <3>1, NewHashes
    <3> QED BY <3>1, <3>2, <1>2
  <2>2. CASE \E k \in 1..Len(b.vtx) : New(d, n, b, p, k)
    <3>1. PICK k \in 1..Len(b.vtx) : p = <<n + 1, k>> /\ TxOf(d, p) = b.vtx[k]
      BY <2>2 DEF New
    <3>2. k # i
      BY <3>1, <1>2
    <3>3. k \in 1..i - 1 \/ i \in 1..k - 1
      BY <3>2, <1>1
    <3>4. b.vtx[k].hash # b.vtx[i].hash
      BY <3>3, NewHashes
    <3> QED BY <3>1, <3>4, <1>2
  <2> QED BY <2>1, <2>2, OldOrNew
<1>3. ASSUME NEW p \in PosOf(d), NEW q \in PosOf(d), p # q PROVE TxOf(d, p).hash # TxOf(d, q).hash
  <2>1. CASE \E i \in 1..Len(b.vtx) : New(d, n, b, q, i)
    BY <2>1, <1>2, <1>3 DEF New
  <2>2. CASE \E i \in 1..Len(b.vtx) : New(d, n, b, p, i)
    BY <2>2, <1>2, <1>3 DEF New
  <2>3. CASE Old(c, d, p) /\ Old(c, d, q)
    BY <2>3, <1>3 DEF Old, Grown, Good, Hashes
  <2> QED BY <2>1, <2>2, <2>3, OldOrNew
<1> QED BY <1>3 DEF Hashes

\* No output is spent twice.
LEMMA GrownSpentOnce ==
  ASSUME NEW c, NEW d, NEW n, NEW b, NEW v, NEW done, Grown(c, d, n, b, v, done)
  PROVE  SpentOnce(d)
<1>1. Len(b.vtx) \in Nat /\ n \in Nat
  BY DEF Grown, BlockReady, OneMore
<1>2. ASSUME NEW p \in PosOf(d), NEW i \in 1..Len(b.vtx), p # <<n + 1, i>>,
             NEW o \in SpentOf(TxOf(d, p)), o \in SpentOf(b.vtx[i])
      PROVE  FALSE
  <2>1. CASE Old(c, d, p)
    <3>1. o \notin SpentAlong(c)
      BY <1>2, NewInputs
    <3> QED BY <3>1, <2>1 DEF Old
  <2>2. CASE \E k \in 1..Len(b.vtx) : New(d, n, b, p, k)
    <3>1. PICK k \in 1..Len(b.vtx) : p = <<n + 1, k>> /\ TxOf(d, p) = b.vtx[k]
      BY <2>2 DEF New
    <3>2. k # i
      BY <3>1, <1>2
    <3>3. CASE k \in 1..i - 1
      <4>1. o \notin SpentOf(b.vtx[k])
        BY <3>3, <1>2, NewInputs
      <4> QED BY <4>1, <3>1
    <3>4. CASE i \in 1..k - 1
      <4>1. o \in SpentOf(b.vtx[k])
        BY <3>1
      <4>2. o \notin SpentOf(b.vtx[i])
        BY <4>1, <3>4, NewInputs
      <4> QED BY <4>2, <1>2
    <3> QED BY <3>2, <3>3, <3>4, <1>1
  <2> QED BY <2>1, <2>2, OldOrNew
<1>3. ASSUME NEW p \in PosOf(d), NEW q \in PosOf(d), p # q PROVE SpentOf(TxOf(d, p)) \cap SpentOf(TxOf(d, q)) = {}
  <2>1. CASE \E i \in 1..Len(b.vtx) : New(d, n, b, q, i)
    BY <2>1, <1>2, <1>3 DEF New
  <2>2. CASE \E i \in 1..Len(b.vtx) : New(d, n, b, p, i)
    BY <2>2, <1>2, <1>3 DEF New
  <2>3. CASE Old(c, d, p) /\ Old(c, d, q)
    BY <2>3, <1>3 DEF Old, Grown, Good, SpentOnce
  <2> QED BY <2>1, <2>2, <2>3, OldOrNew
<1> QED BY <1>3 DEF SpentOnce

\* What is spent was created before.
LEMMA GrownCreated ==
  ASSUME NEW c, NEW d, NEW n, NEW b, NEW v, NEW done, Grown(c, d, n, b, v, done)
  PROVE  Created(d)
<1>1. ASSUME NEW p \in PosOf(d), NEW o \in SpentOf(TxOf(d, p))
      PROVE  \E q \in PosOf(d) : Before(q, p) /\ TxOf(d, q).hash = o.hash /\ o.n \in DOMAIN TxOf(d, q).vout
  <2>1. CASE Old(c, d, p)
    <3>1. PICK q \in PosOf(c) : Before(q, p) /\ TxOf(c, q).hash = o.hash /\ o.n \in DOMAIN TxOf(c, q).vout
      BY <2>1, <1>1 DEF Old, Grown, Good, Created
    <3>2. q \in PosOf(d) /\ TxOf(d, q) = TxOf(c, q)
      BY MorePositions DEF Grown
    <3> QED BY <3>1, <3>2
  <2>2. CASE \E i \in 1..Len(b.vtx) : New(d, n, b, p, i)
    <3>1. PICK i \in 1..Len(b.vtx) : p = <<n + 1, i>> /\ TxOf(d, p) = b.vtx[i]
      BY <2>2 DEF New
    <3> QED BY <3>1, <1>1, NewInputs
  <2> QED BY <2>1, <2>2, OldOrNew
<1> QED BY <1>1 DEF Created

\* A coinbase is spent late enough.
LEMMA GrownMature ==
  ASSUME NEW c, NEW d, NEW n, NEW b, NEW v, NEW done, Grown(c, d, n, b, v, done)
  PROVE  Mature(d)
<1>1. ASSUME NEW p \in PosOf(d), NEW q \in PosOf(d), TxOf(d, q).coinbase,
             NEW o \in SpentOf(TxOf(d, p)), o.hash = TxOf(d, q).hash
      PROVE  p[1] - q[1] >= COINBASE_MATURITY
  <2>1. CASE Old(c, d, p)
    <3>1. PICK r \in PosOf(c) : TxOf(c, r).hash = o.hash
      BY <2>1, <1>1 DEF Old, Grown, Good, Created
    <3>2. r \in PosOf(d) /\ TxOf(d, r) = TxOf(c, r)
      BY MorePositions DEF Grown
    <3>3. r = q
      BY <3>1, <3>2, <1>1, GrownHashes DEF Hashes
    <3> QED BY <3>1, <3>2, <3>3, <2>1, <1>1 DEF Old, Grown, Good, Mature
  <2>2. CASE \E i \in 1..Len(b.vtx) : New(d, n, b, p, i)
    <3>1. PICK i \in 1..Len(b.vtx) : p[1] = n + 1 /\ TxOf(d, p) = b.vtx[i]
      BY <2>2 DEF New
    <3>2. o \in SpentOf(b.vtx[i])
      BY <3>1
    <3>3. (n + 1) - q[1] >= COINBASE_MATURITY
      BY <3>2, <1>1, NewInputs
    <3> QED BY <3>1, <3>3
  <2> QED BY <2>1, <2>2, OldOrNew
<1> QED BY <1>1 DEF Mature

\* A block that ConnectBlock accepts leads from one good chain to another, and
\* DisconnectBlock leads back.
LEMMA GrownGood ==
  ASSUME NEW c, NEW d, NEW n, NEW b, NEW v, NEW done, Grown(c, d, n, b, v, done),
         b.vtx \in Candidates, b.undo = done[Len(b.vtx)].undo
  PROVE  /\ Good(d, done[Len(b.vtx)].view)
         /\ CleanAt(DisconnectBlock(done[Len(b.vtx)].view, b.vtx, b.undo, n + 1), v)
<1> DEFINE P == Chained(c)
           S == SpentAlong(c)
           vtx == b.vtx
           H == n + 1
           L == Len(vtx)
<1>1. BlockReady(v, P, S, vtx, H) /\ Accepted(done, v, vtx, H) /\ OneMore(c, d, n, b)
  BY DEF Grown
<1>2. vtx \in Seq(Transaction) /\ CheckBlock(vtx) /\ L \in Nat /\ L \in 0..L /\ L # 0
  <2>1. vtx \in Seq(Transaction) /\ CheckBlock(vtx)
    BY <1>1 DEF BlockReady
  <2>2. L \in Nat \ {0}
    BY <2>1, NonEmpty DEF CheckBlock
  <2> QED BY <2>1, <2>2
<1>3. ConnectedTo(done, P, S, vtx, H, L)
  <2> HIDE DEF P, S, vtx, H
  <2> QED BY <1>1, <1>2, BlockAll
<1>4. Chained(d) = PlacedIn(P, vtx, H, L) /\ SpentAlong(d) = SpentIn(S, vtx, L)
  BY <1>1, <1>2, MoreChained
<1>5. World(Chained(d), SpentAlong(d)) /\ Exact(done[L].view, Chained(d), SpentAlong(d))
  BY <1>3, <1>4 DEF ConnectedTo
<1>6. Len(b.undo) = L - 1
  BY <1>2, <1>3 DEF ConnectedTo
<1>7. Blocks(d)
  <2> SUFFICES ASSUME NEW h \in DOMAIN d
               PROVE  d[h].vtx \in Candidates /\ CheckBlock(d[h].vtx) /\ Len(d[h].undo) = Len(d[h].vtx) - 1
    BY DEF Blocks
  <2>1. CASE h \in 1..n
    BY <2>1, <1>1 DEF OneMore, Grown, Good, Blocks
  <2>2. CASE h = n + 1
    BY <2>2, <1>1, <1>2, <1>6 DEF OneMore
  <2>3. h \in 1..n \/ h = n + 1
    BY <1>1 DEF OneMore
  <2> QED BY <2>1, <2>2, <2>3
<1>8. Good(d, done[L].view)
  BY <1>5, <1>7, GrownHashes, GrownSpentOnce, GrownCreated, GrownMature DEF Good
<1>9. CleanAt(DisconnectBlock(done[L].view, vtx, done[L].undo, H), v)
  <2> HIDE DEF P, S, vtx, H
  <2> QED BY <1>1, BlockUndone
<1> QED BY <1>8, <1>9

\* A block that extends a good chain and repeats no coinbase of it.
LEMMA ReadyToGrow ==
  ASSUME NEW c, NEW v, Good(c, v), NEW vtx \in Candidates, CheckBlock(vtx), NEW nHeight \in Nat \ {0},
         \A h \in DOMAIN c : c[h].vtx[1].hash # vtx[1].hash
  PROVE  BlockReady(v, Chained(c), SpentAlong(c), vtx, nHeight)
<1>1. vtx \in Seq(Transaction)
  BY LedgerAssumption
<1>2. ASSUME NEW p \in Chained(c), NEW i \in DOMAIN vtx, p.tx.hash = vtx[i].hash
      PROVE  p.tx = vtx[i] /\ i # 1
  <2>1. PICK q \in PosOf(c) : p = [height |-> q[1], tx |-> TxOf(c, q)]
    BY DEF Chained
  <2>2. PICK h \in DOMAIN c : \E j \in DOMAIN c[h].vtx : q = <<h, j>>
    BY <2>1, Position
  <2>3. PICK j \in DOMAIN c[h].vtx : q = <<h, j>>
    BY <2>2
  <2>4. p.tx = c[h].vtx[j]
    BY <2>1, <2>3 DEF TxOf
  <2>5. c[h].vtx \in Candidates /\ CheckBlock(c[h].vtx)
    BY DEF Good, Blocks
  <2>6. c[h].vtx[j] = vtx[i]
    BY <2>4, <2>5, <1>2, LedgerAssumption
  <2>7. ASSUME i = 1 PROVE FALSE
    <3>1. vtx[1].coinbase
      BY <2>7 DEF CheckBlock
    <3>2. c[h].vtx[j].coinbase
      BY <3>1, <2>6, <2>7
    <3>3. j = 1
      BY <3>2, <2>5 DEF CheckBlock
    <3> QED BY <3>3, <2>6, <2>7
  <2> QED BY <2>4, <2>6, <2>7
<1> QED BY <1>1, <1>2 DEF BlockReady, Good

-----------------------------------------------------------------------------
(* The inductive invariant: every view on the way was exact, and every     *)
(* block can be taken off again.                                           *)

Prefix(c, n) == [h \in 1..n |-> c[h]]
ViewAt(c, w, n) == IF n = Len(c) THEN w ELSE c[n + 1].before
Undoable(c, w, n) == CleanAt(DisconnectBlock(ViewAt(c, w, n), c[n].vtx, c[n].undo, n), c[n].before)
LInv == /\ chain \in Seq({chain[h] : h \in DOMAIN chain})
        /\ \A n \in 0..Len(chain) : Good(Prefix(chain, n), ViewAt(chain, coins, n))
        /\ \A n \in 1..Len(chain) : Undoable(chain, coins, n)

\* The empty chain.
LEMMA LedgerInit == Init => LInv
<1> SUFFICES ASSUME Init PROVE LInv
  OBVIOUS
<1>1. chain = <<>> /\ coins = EmptyView /\ Len(chain) = 0 /\ DOMAIN chain = {}
  BY DEF Init
<1> DEFINE c == Prefix(chain, 0)
<1>2. DOMAIN c = {}
  BY DEF Prefix
<1> HIDE DEF c
<1>3. PosOf(c) = {}
  BY <1>2 DEF PosOf
<1>4. Chained(c) = {} /\ SpentAlong(c) = {}
  BY <1>3 DEF Chained, SpentAlong
<1>5. Exact(coins, {}, {}) /\ World({}, {})
  <2>1. coins = [h \in TxIds |-> coins[h]] /\ \A h \in TxIds : coins[h] = NoCoins
    BY <1>1 DEF EmptyView
  <2> QED BY <2>1 DEF Exact, World, Distinct
<1>6. Good(c, coins)
  BY <1>2, <1>3, <1>4, <1>5 DEF Good, Blocks, Hashes, SpentOnce, Created, Mature
<1>7. \A n \in 0..Len(chain) : Good(Prefix(chain, n), ViewAt(chain, coins, n))
  <2>1. 0..Len(chain) = {0} /\ ViewAt(chain, coins, 0) = coins
    BY <1>1 DEF ViewAt
  <2> QED BY <2>1, <1>6 DEF c
<1>8. chain \in Seq({chain[h] : h \in DOMAIN chain}) /\ 1..Len(chain) = {}
  BY <1>1
<1> QED BY <1>7, <1>8 DEF LInv

\* A block is connected.
LEMMA LedgerConnect ==
  ASSUME UniqueCoinbases, LInv, NEW vtx \in Candidates, Connect(vtx)
  PROVE  LInv'
<1> DEFINE n == Len(chain)
           res == ConnectBlock(coins, vtx, n + 1)
           b == [vtx |-> vtx, undo |-> res.undo, before |-> coins]
           R == {chain[h] : h \in DOMAIN chain}
           c == Prefix(chain, n)
           d == Prefix(chain', n + 1)
<1>1. /\ Fresh(vtx) /\ CheckBlock(vtx) /\ res.ok /\ coins' = res.view
      /\ chain' = Append(chain, b)
  BY DEF Connect
<1> HIDE DEF res
<1>2. b.vtx = vtx /\ b.undo = res.undo /\ b.before = coins
  OBVIOUS
<1> HIDE DEF b
<1>3. chain \in Seq(R) /\ n \in Nat /\ DOMAIN chain = 1..n
  BY DEF LInv
<1>4. Good(c, coins)
  <2>1. n \in 0..n /\ ViewAt(chain, coins, n) = coins
    BY <1>3 DEF ViewAt
  <2> QED BY <2>1 DEF LInv
<1>5. /\ chain' \in Seq(R \cup {b}) /\ Len(chain') = n + 1 /\ chain'[n + 1] = b
      /\ DOMAIN chain' = 1..n + 1 /\ \A h \in 1..n : chain'[h] = chain[h]
  <2> HIDE DEF R
  <2>1. chain \in Seq(R \cup {b})
    BY <1>3, SeqMonotonic
  <2> QED BY <2>1, <1>1, <1>3
<1>6. OneMore(c, d, n, b)
  BY <1>3, <1>5 DEF OneMore, Prefix
<1>7. BlockReady(coins, Chained(c), SpentAlong(c), vtx, n + 1)
  <2>1. n + 1 \in Nat \ {0}
    BY <1>3
  <2>2. \A h \in DOMAIN c : c[h].vtx[1].hash # vtx[1].hash
    BY <1>1, <1>3 DEF Fresh, Prefix
  <2> HIDE DEF c, n
  <2> QED BY <2>1, <2>2, <1>1, <1>4, ReadyToGrow
<1>8. PICK done : Accepted(done, coins, vtx, n + 1) /\ res.view = done[Len(vtx)].view /\ res.undo = done[Len(vtx)].undo
  <2>1. Len(vtx) \in Nat
    BY <1>7 DEF BlockReady
  <2> QED BY <2>1, <1>1, BlockConnected DEF res
<1>9. Grown(c, d, n, b, coins, done)
  BY <1>2, <1>4, <1>6, <1>7, <1>8 DEF Grown
<1>10. Good(d, coins') /\ CleanAt(DisconnectBlock(coins', vtx, res.undo, n + 1), coins)
  <2> HIDE DEF c, d, n
  <2>1. b.undo = done[Len(b.vtx)].undo
    BY <1>2, <1>8
  <2>2. /\ Good(d, done[Len(b.vtx)].view)
        /\ CleanAt(DisconnectBlock(done[Len(b.vtx)].view, b.vtx, b.undo, n + 1), coins)
    BY <2>1, <1>2, <1>9, GrownGood
  <2> QED BY <2>2, <1>1, <1>2, <1>8
<1>11. chain' \in Seq({chain'[h] : h \in DOMAIN chain'})
  <2>1. \A h \in 1..Len(chain') : chain'[h] \in {chain'[k] : k \in DOMAIN chain'}
    BY <1>5
  <2> HIDE DEF R
  <2> QED BY <2>1, <1>5
<1>12. ASSUME NEW m \in 0..n
       PROVE  ViewAt(chain', coins', m) = ViewAt(chain, coins, m) /\ Prefix(chain', m) = Prefix(chain, m)
  <2>1. Prefix(chain', m) = Prefix(chain, m)
    BY <1>3, <1>5 DEF Prefix
  <2>2. CASE m = n
    <3>1. m # Len(chain') /\ chain'[m + 1].before = coins
      BY <2>2, <1>2, <1>3, <1>5
    <3> QED BY <2>1, <2>2, <3>1 DEF ViewAt
  <2>3. CASE m # n
    <3>1. m # Len(chain') /\ chain'[m + 1] = chain[m + 1]
      BY <2>3, <1>3, <1>5
    <3> QED BY <2>1, <2>3, <3>1 DEF ViewAt
  <2> QED BY <2>2, <2>3
<1>13. ViewAt(chain', coins', n + 1) = coins'
  BY <1>5 DEF ViewAt
<1>14. ASSUME NEW m \in 0..n + 1 PROVE Good(Prefix(chain', m), ViewAt(chain', coins', m))
  <2>1. CASE m \in 0..n
    BY <2>1, <1>12 DEF LInv
  <2>2. CASE m = n + 1
    BY <2>2, <1>10, <1>13
  <2>3. m \in 0..n \/ m = n + 1
    BY <1>3
  <2> QED BY <2>1, <2>2, <2>3
<1>15. ASSUME NEW m \in 1..n + 1 PROVE Undoable(chain', coins', m)
  <2>1. CASE m \in 1..n
    <3>1. m \in 0..n /\ chain'[m] = chain[m] /\ Undoable(chain, coins, m)
      BY <2>1, <1>3, <1>5 DEF LInv
    <3>2. ViewAt(chain', coins', m) = ViewAt(chain, coins, m)
      BY <3>1, <1>12
    <3> QED BY <3>1, <3>2 DEF Undoable
  <2>2. CASE m = n + 1
    BY <2>2, <1>2, <1>5, <1>10, <1>13 DEF Undoable
  <2>3. m \in 1..n \/ m = n + 1
    BY <1>3
  <2> QED BY <2>1, <2>2, <2>3
<1> QED BY <1>5, <1>11, <1>14, <1>15 DEF LInv

\* The tip is disconnected.
LEMMA LedgerDisconnect ==
  ASSUME LInv, Disconnect
  PROVE  LInv'
<1> DEFINE n == Len(chain)
           R == {chain[h] : h \in DOMAIN chain}
           res == DisconnectBlock(coins, Last(chain).vtx, Last(chain).undo, n)
<1>1. chain # <<>> /\ coins' = res.view /\ chain' = Front(chain)
  BY DEF Disconnect
<1>2. chain \in Seq(R) /\ n \in Nat \ {0} /\ DOMAIN chain = 1..n
  <2>1. chain \in Seq(R)
    BY DEF LInv
  <2> HIDE DEF R
  <2> QED BY <2>1, <1>1, NonEmpty
<1>3. Last(chain) = chain[n]
  BY DEF Last
<1>4. CleanAt(res, chain[n].before)
  <2>1. n \in 1..n /\ ViewAt(chain, coins, n) = coins
    BY <1>2 DEF ViewAt
  <2>2. Undoable(chain, coins, n)
    BY <2>1 DEF LInv
  <2> QED BY <2>1, <2>2, <1>3 DEF Undoable
<1>5. coins' = chain[n].before
  <2> HIDE DEF res
  <2> QED BY <1>1, <1>4 DEF CleanAt
<1>6. /\ chain' \in Seq(R) /\ Len(chain') = n - 1 /\ DOMAIN chain' = 1..n - 1
      /\ \A h \in 1..n - 1 : chain'[h] = chain[h]
  <2> HIDE DEF R
  <2>1. chain' = SubSeq(chain, 1, n - 1)
    BY <1>1 DEF Front
  <2> QED BY <2>1, <1>2
<1>7. chain' \in Seq({chain'[h] : h \in DOMAIN chain'})
  <2>1. \A h \in 1..Len(chain') : chain'[h] \in {chain'[k] : k \in DOMAIN chain'}
    BY <1>6
  <2> HIDE DEF R
  <2> QED BY <2>1, <1>6
<1>8. ASSUME NEW m \in 0..n - 1
      PROVE  ViewAt(chain', coins', m) = ViewAt(chain, coins, m) /\ Prefix(chain', m) = Prefix(chain, m)
  <2>1. Prefix(chain', m) = Prefix(chain, m)
    BY <1>2, <1>6 DEF Prefix
  <2>2. CASE m = n - 1
    <3>1. m = Len(chain') /\ m # n /\ m + 1 = n
      BY <2>2, <1>2, <1>6
    <3> QED BY <2>1, <3>1, <1>5 DEF ViewAt
  <2>3. CASE m # n - 1
    <3>1. m + 1 \in 1..n - 1 /\ m # n
      <4>1. n \in Nat /\ m \in 0..n - 1 /\ m # n - 1
        BY <2>3, <1>2
      <4> HIDE DEF n
      <4> QED BY <4>1
    <3>2. m # Len(chain') /\ chain'[m + 1] = chain[m + 1]
      BY <3>1, <2>3, <1>6
    <3> QED BY <2>1, <3>1, <3>2 DEF ViewAt
  <2> QED BY <2>2, <2>3
<1>9. ASSUME NEW m \in 0..n - 1 PROVE Good(Prefix(chain', m), ViewAt(chain', coins', m))
  <2>1. m \in 0..n
    BY <1>2
  <2> QED BY <2>1, <1>8 DEF LInv
<1>10. ASSUME NEW m \in 1..n - 1 PROVE Undoable(chain', coins', m)
  <2>1. m \in 0..n - 1 /\ m \in 1..n /\ chain'[m] = chain[m]
    BY <1>2, <1>6
  <2>2. Undoable(chain, coins, m)
    BY <2>1 DEF LInv
  <2> QED BY <2>1, <2>2, <1>8 DEF Undoable
<1> QED BY <1>6, <1>7, <1>9, <1>10 DEF LInv

\* Every reachable view is exact and every block can be taken off again.
THEOREM LedgerInductive ==
  ASSUME UniqueCoinbases
  PROVE  Spec => []LInv
<1>1. LInv /\ [Next]_vars => LInv'
  <2> SUFFICES ASSUME LInv, [Next]_vars PROVE LInv'
    OBVIOUS
  <2>1. CASE \E vtx \in Candidates : Connect(vtx)
    BY <2>1, LedgerConnect
  <2>2. CASE Disconnect
    BY <2>2, LedgerDisconnect
  <2>3. CASE UNCHANGED vars
    BY <2>3 DEF vars, LInv, ViewAt, Undoable
  <2> QED BY <2>1, <2>2, <2>3 DEF Next
<1> QED BY LedgerInit, <1>1, PTL DEF Spec

-----------------------------------------------------------------------------
(* What the invariant says of the state.                                   *)

\* The definitions on chains, applied to the state.
LEMMA WholeChain ==
  ASSUME LInv
  PROVE  /\ Good(chain, coins) /\ Len(chain) \in Nat /\ DOMAIN chain = 1..Len(chain)
         /\ PosOf(chain) = Positions
         /\ \A p \in Positions : TxOf(chain, p) = TxAt(p) /\ SpentOf(TxAt(p)) = SpentBy(p)
<1> DEFINE n == Len(chain)
           R == {chain[h] : h \in DOMAIN chain}
<1>1. chain \in Seq(R)
  BY DEF LInv
<1>2. n \in Nat /\ DOMAIN chain = 1..n /\ chain = [h \in 1..n |-> chain[h]]
  <2> HIDE DEF R
  <2> QED BY <1>1
<1>3. Prefix(chain, n) = chain
  BY <1>2 DEF Prefix
<1>4. n \in 0..n /\ ViewAt(chain, coins, n) = coins
  BY <1>2 DEF ViewAt
<1>5. Good(chain, coins)
  BY <1>3, <1>4 DEF LInv
<1> QED BY <1>2, <1>5 DEF PosOf, Positions, TxOf, TxAt, SpentOf, SpentBy

\* What the view holds of one transaction of the chain.
LEMMA ViewOf ==
  ASSUME LInv, NEW p \in Positions
  PROVE  LET q == [height |-> p[1], tx |-> TxAt(p)]
         IN  q \in Chained(chain) /\ q.tx = TxAt(p) /\ q.height = p[1]
               /\ coins[TxAt(p).hash] = CoinsLeft(SpentAlong(chain), q) /\ TxAt(p).hash \in TxIds
<1> DEFINE q == [height |-> p[1], tx |-> TxAt(p)]
<1>1. q \in Chained(chain) /\ q.tx = TxAt(p) /\ q.height = p[1]
  BY WholeChain DEF Chained
<1> HIDE DEF q
<1>2. q \in Placing
  BY <1>1, WholeChain DEF Good, World, Distinct
<1>3. q.tx.hash \in TxIds
  BY <1>2 DEF Placing, Transaction
<1>4. coins[q.tx.hash] = CoinsLeft(SpentAlong(chain), q)
  BY <1>1, WholeChain DEF Good, Exact
<1> QED BY <1>1, <1>3, <1>4 DEF q

\* An entry of the view belongs to a transaction of the chain.
LEMMA EntryOf ==
  ASSUME LInv, NEW h \in TxIds, coins[h] # NoCoins
  PROVE  \E p \in Positions : TxAt(p).hash = h
<1>1. PICK q \in Chained(chain) : q.tx.hash = h
  BY WholeChain DEF Good, Exact
<1>2. PICK p \in PosOf(chain) : q = [height |-> p[1], tx |-> TxOf(chain, p)]
  BY <1>1 DEF Chained
<1> QED BY <1>1, <1>2, WholeChain

\* The entries of the view: none is empty, and heights are those of the chain.
LEMMA LedgerTypes ==
  ASSUME LInv
  PROVE  TypeOK
<1>1. DOMAIN coins = TxIds
  BY WholeChain DEF Good, Exact
<1>2. ASSUME NEW h \in TxIds, coins[h] # NoCoins
      PROVE  DOMAIN coins[h].vout # {} /\ coins[h].nHeight \in 1..Len(chain)
  <2>1. PICK p \in Positions : TxAt(p).hash = h
    BY <1>2, EntryOf
  <2> DEFINE q == [height |-> p[1], tx |-> TxAt(p)]
             S == SpentAlong(chain)
  <2>2. coins[h] = CoinsLeft(S, q) /\ q.height = p[1]
    BY <2>1, ViewOf
  <2>3. p[1] \in 1..Len(chain)
    <3>1. PICK k \in DOMAIN chain : \E i \in DOMAIN chain[k].vtx : p = <<k, i>>
      BY WholeChain, Position
    <3> QED BY <3>1, WholeChain
  <2> HIDE DEF q, S
  <2>4. Left(S, q.tx) # {}
    BY <2>2, <1>2 DEF CoinsLeft
  <2>5. coins[h] = [fCoinBase |-> q.tx.coinbase, nHeight |-> q.height, vout |-> [n \in Left(S, q.tx) |-> q.tx.vout[n]]]
    BY <2>2, <2>4 DEF CoinsLeft
  <2>6. DOMAIN coins[h].vout = Left(S, q.tx) /\ coins[h].nHeight = q.height
    BY <2>5
  <2> QED BY <2>2, <2>3, <2>4, <2>6
<1>3. \A h \in DOMAIN chain : Len(chain[h].undo) = Len(chain[h].vtx) - 1
  BY WholeChain DEF Good, Blocks
<1> QED BY <1>1, <1>2, <1>3 DEF TypeOK

\* The outputs in the view are the unspent ones of the chain.
LEMMA OutputsExact ==
  ASSUME LInv
  PROVE  ViewOutputs = {o \in ChainOutputs : \A p \in Positions : [hash |-> o.hash, n |-> o.n] \notin SpentBy(p)}
<1> DEFINE S == SpentAlong(chain)
           Placed(p) == [height |-> p[1], tx |-> TxAt(p)]
           Unspent(o) == \A p \in Positions : [hash |-> o.hash, n |-> o.n] \notin SpentBy(p)
           Made(p, n) == Output(TxAt(p).hash, n, TxAt(p).vout[n], p[1], TxAt(p).coinbase)
           Seen(h, n) == Output(h, n, coins[h].vout[n], coins[h].nHeight, coins[h].fCoinBase)
<1>1. \A x : x \in S <=> \E p \in Positions : x \in SpentBy(p)
  BY WholeChain DEF SpentAlong
<1>2. ASSUME NEW p \in Positions, NEW n \in Left(S, TxAt(p))
      PROVE  /\ n \in DOMAIN coins[TxAt(p).hash].vout /\ Seen(TxAt(p).hash, n) = Made(p, n)
             /\ Unspent(Made(p, n)) /\ n \in DOMAIN TxAt(p).vout
  <2> DEFINE q == Placed(p)
             e == coins[TxAt(p).hash]
  <2>1. e = CoinsLeft(S, q) /\ q.tx = TxAt(p) /\ q.height = p[1]
    BY ViewOf
  <2> HIDE DEF S, q, e
  <2>2. e = [fCoinBase |-> q.tx.coinbase, nHeight |-> q.height, vout |-> [m \in Left(S, q.tx) |-> q.tx.vout[m]]]
    BY <2>1, <1>2 DEF CoinsLeft
  <2>3. /\ n \in DOMAIN e.vout /\ e.vout[n] = TxAt(p).vout[n] /\ e.nHeight = p[1]
        /\ e.fCoinBase = TxAt(p).coinbase
    BY <2>1, <2>2
  <2>4. Made(p, n).hash = TxAt(p).hash /\ Made(p, n).n = n
    BY DEF Output
  <2>5. [hash |-> TxAt(p).hash, n |-> n] \notin S /\ n \in DOMAIN TxAt(p).vout
    BY DEF Left
  <2>6. Unspent(Made(p, n))
    BY <2>4, <2>5, <1>1
  <2>7. Seen(TxAt(p).hash, n) = Made(p, n)
    BY <2>3 DEF e
  <2> QED BY <2>3, <2>5, <2>6, <2>7 DEF e
<1>3. ASSUME NEW o \in ViewOutputs PROVE o \in ChainOutputs /\ Unspent(o)
  <2>1. PICK h \in TxIds : \E n \in DOMAIN coins[h].vout : o = Seen(h, n)
    BY DEF ViewOutputs
  <2>2. PICK n \in DOMAIN coins[h].vout : o = Seen(h, n)
    BY <2>1
  <2>3. coins[h] # NoCoins
    BY <2>2 DEF NoCoins
  <2>4. PICK p \in Positions : TxAt(p).hash = h
    BY <2>3, EntryOf
  <2> DEFINE q == Placed(p)
  <2>5. coins[h] = CoinsLeft(S, q) /\ q.tx = TxAt(p)
    BY <2>4, ViewOf
  <2>6. n \in Left(S, TxAt(p))
    <3> HIDE DEF S, q
    <3>1. Left(S, q.tx) # {}
      BY <2>3, <2>5 DEF CoinsLeft
    <3>2. coins[h].vout = [m \in Left(S, q.tx) |-> q.tx.vout[m]]
      BY <3>1, <2>5 DEF CoinsLeft
    <3> QED BY <3>2, <2>5
  <2>7. Seen(h, n) = Made(p, n) /\ Unspent(Made(p, n)) /\ n \in DOMAIN TxAt(p).vout
    BY <2>4, <2>6, <1>2
  <2> HIDE DEF Seen, Unspent
  <2>8. Made(p, n) \in ChainOutputs
    BY <2>7 DEF ChainOutputs
  <2> HIDE DEF Made
  <2> QED BY <2>2, <2>7, <2>8
<1>4. ASSUME NEW o \in ChainOutputs, Unspent(o) PROVE o \in ViewOutputs
  <2>1. PICK p \in Positions : \E n \in DOMAIN TxAt(p).vout : o = Made(p, n)
    BY DEF ChainOutputs
  <2>2. PICK n \in DOMAIN TxAt(p).vout : o = Made(p, n)
    BY <2>1
  <2>3. o.hash = TxAt(p).hash /\ o.n = n
    BY <2>2 DEF Output
  <2>4. n \in Left(S, TxAt(p))
    <3>1. [hash |-> TxAt(p).hash, n |-> n] \notin S
      BY <2>3, <1>1, <1>4
    <3> QED BY <3>1 DEF Left
  <2>5. n \in DOMAIN coins[TxAt(p).hash].vout /\ Seen(TxAt(p).hash, n) = Made(p, n)
    BY <2>4, <1>2
  <2>6. TxAt(p).hash \in TxIds
    BY ViewOf
  <2>7. Seen(TxAt(p).hash, n) \in ViewOutputs
    BY <2>5, <2>6 DEF ViewOutputs
  <2> HIDE DEF Seen, Made
  <2> QED BY <2>2, <2>5, <2>7
<1> QED BY <1>3, <1>4

\* The coins view is exactly the set of outputs that the chain created and did not
\* spend, whatever blocks were connected and disconnected (ConnectBlock,
\* DisconnectBlock and the operations of CCoins under them).
THEOREM UtxoIsExact ==
  ASSUME UniqueCoinbases
  PROVE  Spec => []UtxoExact
<1>1. LInv => UtxoExact
  BY LedgerTypes, OutputsExact DEF UtxoExact
<1> QED BY <1>1, LedgerInductive, PTL

\* CheckInputs and UpdateCoins let no output be spent twice along a chain, nor
\* before it is created.
THEOREM NothingSpentTwice ==
  ASSUME UniqueCoinbases
  PROVE  Spec => []NoDoubleSpend
<1>1. LInv => NoDoubleSpend
  <2> SUFFICES ASSUME LInv PROVE NoDoubleSpend
    OBVIOUS
  <2>1. \A p, q \in Positions : p # q => SpentBy(p) \cap SpentBy(q) = {}
    BY WholeChain DEF Good, SpentOnce
  <2>2. ASSUME NEW p \in Positions, NEW in \in SpentBy(p)
        PROVE  \E q \in Positions : Before(q, p) /\ TxAt(q).hash = in.hash /\ in.n \in DOMAIN TxAt(q).vout
    BY WholeChain DEF Good, Created
  <2> QED BY <2>1, <2>2 DEF NoDoubleSpend
<1> QED BY <1>1, LedgerInductive, PTL

\* The maturity rule of CheckInputs holds between the heights of the chain.
THEOREM CoinbasesMature ==
  ASSUME UniqueCoinbases
  PROVE  Spec => []CoinbaseMatures
<1>1. LInv => CoinbaseMatures
  BY WholeChain DEF Good, Mature, CoinbaseMatures
<1> QED BY <1>1, LedgerInductive, PTL

\* DisconnectBlock with the undo data of ConnectBlock gives the view before the
\* block and reports no inconsistency, in every reachable state.
THEOREM DisconnectInverts ==
  ASSUME UniqueCoinbases
  PROVE  Spec => []UndoRestores
<1>1. LInv => UndoRestores
  <2> SUFFICES ASSUME LInv, chain # <<>>
               PROVE  LET res == DisconnectBlock(coins, Last(chain).vtx, Last(chain).undo, Len(chain))
                      IN  res.clean /\ res.view = Last(chain).before
    BY DEF UndoRestores
  <2> DEFINE n == Len(chain)
             R == {chain[h] : h \in DOMAIN chain}
             res == DisconnectBlock(coins, chain[n].vtx, chain[n].undo, n)
  <2>1. n \in Nat \ {0}
    <3>1. chain \in Seq(R)
      BY DEF LInv
    <3> HIDE DEF R
    <3> QED BY <3>1, NonEmpty
  <2>2. n \in 1..n /\ ViewAt(chain, coins, n) = coins
    BY <2>1 DEF ViewAt
  <2>3. CleanAt(res, chain[n].before)
    BY <2>2 DEF LInv, Undoable
  <2>4. res.clean = TRUE /\ res.view = chain[n].before
    <3> HIDE DEF res
    <3> QED BY <2>3 DEF CleanAt
  <2> QED BY <2>4 DEF Last
<1> QED BY <1>1, LedgerInductive, PTL

\* As long as no coinbase is repeated, a connected block overwrites no coins: what
\* the test for overwritten transactions is there for needs no test then.
THEOREM UniqueCoinbasesNeverOverwrite ==
  ASSUME UniqueCoinbases
  PROVE  Spec => NoOverwrite
<1>1. ASSUME LInv, NEW vtx \in Candidates, Connect(vtx), NEW i \in DOMAIN vtx
      PROVE  coins[vtx[i].hash] = NoCoins
  <2> DEFINE n == Len(chain)
             P == Chained(chain)
             S == SpentAlong(chain)
  <2>1. Good(chain, coins) /\ n \in Nat
    BY <1>1, WholeChain
  <2>2. BlockReady(coins, P, S, vtx, n + 1)
    <3>1. CheckBlock(vtx) /\ n + 1 \in Nat \ {0} /\ \A h \in DOMAIN chain : chain[h].vtx[1].hash # vtx[1].hash
      BY <2>1, <1>1 DEF Connect, Fresh
    <3> HIDE DEF n
    <3> QED BY <3>1, <2>1, ReadyToGrow
  <2>3. vtx \in Seq(Transaction) /\ Len(vtx) \in Nat /\ i \in 1..Len(vtx) /\ vtx[i] \in Transaction
    BY <2>2 DEF BlockReady
  <2>4. PICK done : Accepted(done, coins, vtx, n + 1)
    <3>1. ConnectBlock(coins, vtx, n + 1).ok
      BY <1>1 DEF Connect
    <3> HIDE DEF n
    <3> QED BY <3>1, <2>3, BlockConnected
  <2>5. \A p \in PlacedIn(P, vtx, n + 1, i - 1) : p.tx.hash # vtx[i].hash
    <3> DEFINE H == n + 1
    <3> HIDE DEF H, P, S
    <3>1. BlockReady(coins, P, S, vtx, H) /\ Accepted(done, coins, vtx, H)
      BY <2>2, <2>4 DEF H
    <3>2. \A p \in PlacedIn(P, vtx, H, i - 1) : p.tx.hash # vtx[i].hash
      BY <3>1, <2>3, BlockInputs
    <3> QED BY <3>2 DEF H
  <2>6. \A p \in P : p.tx.hash # vtx[i].hash
    BY <2>5 DEF PlacedIn
  <2> QED BY <2>1, <2>3, <2>6 DEF Good, Exact, Transaction
<1>2. LInv /\ [Next]_vars => [\A vtx \in Candidates : Connect(vtx) =>
                                \A i \in DOMAIN vtx : coins[vtx[i].hash] = NoCoins]_vars
  BY <1>1
<1> QED BY <1>2, LedgerInductive, PTL DEF Spec, NoOverwrite

-----------------------------------------------------------------------------
(* What a view is worth.                                                   *)

\* The value of the outputs of one transaction that are left, and of all.
Worth(c) == Total(c.vout, DOMAIN c.vout)
Worths(view) == [h \in TxIds |-> Worth(view[h])]
ValueIn(view) == Total(Worths(view), TxIds)

\* Finitely many outputs, worth natural numbers.
Sound(c) == /\ "vout" \in DOMAIN c /\ IsFiniteSet(DOMAIN c.vout)
            /\ \A n \in DOMAIN c.vout : c.vout[n] \in Nat

\* Adding up a sequence from the left.
LEMMA TotalNext ==
  ASSUME NEW f, NEW n \in Nat \ {0}, \A k \in 1..n : f[k] \in Nat
  PROVE  /\ Total(f, 1..n) = Total(f, 1..n - 1) + f[n]
         /\ Total(f, 1..n - 1) \in Nat /\ f[n] \in Nat
<1> DEFINE D == 1..n
           E == 1..n - 1
<1>1. IsFiniteSet(D) /\ IsFiniteSet(E) /\ n \in D /\ D \ {n} = E /\ \A k \in D : f[k] \in Nat
  BY FS_Interval
<1> HIDE DEF D, E
<1>2. Total(f, D) = f[n] + Total(f, E)
  <2>1. Total(f, D) = f[n] + Total(f, D \ {n})
    BY <1>1, SumPick
  <2> QED BY <2>1, <1>1
<1>3. Total(f, E) \in Nat /\ f[n] \in Nat
  BY <1>1, SumNat
<1>4. Total(f, D) = Total(f, E) + f[n]
  BY <1>2, <1>3
<1> QED BY <1>3, <1>4 DEF D, E

\* GetValueOut and GetValueIn are sums.
LEMMA ValueOfIs ==
  ASSUME NEW seq \in Seq(Nat)
  PROVE  ValueOf(seq) = Total(seq, 1..Len(seq)) /\ ValueOf(seq) \in Nat
<1> DEFINE L == Len(seq)
           Is(g) == g = [i \in 0..L |-> IF i = 0 THEN 0 ELSE g[i - 1] + seq[i]]
           T == [i \in 0..L |-> Total(seq, 1..i)]
<1>0. L \in Nat /\ \A k \in 1..L : seq[k] \in Nat
  OBVIOUS
<1>1. Total(seq, 1..0) = 0
  <2>1. 1..0 = {}
    OBVIOUS
  <2> QED BY <2>1, SumEmpty
<1>2. ASSUME NEW i \in 1..L PROVE Total(seq, 1..i) = Total(seq, 1..i - 1) + seq[i]
  <2>1. i \in Nat \ {0} /\ \A k \in 1..i : seq[k] \in Nat
    BY <1>0
  <2> QED BY <2>1, TotalNext
<1>3. Is(T)
  <2>1. \A i \in 0..L : i # 0 => i - 1 \in 0..L /\ T[i - 1] = Total(seq, 1..i - 1) /\ i \in 1..L
    OBVIOUS
  <2>2. \A i \in 0..L : T[i] = IF i = 0 THEN 0 ELSE T[i - 1] + seq[i]
    BY <2>1, <1>1, <1>2
  <2>3. T = [i \in 0..L |-> T[i]]
    OBVIOUS
  <2> HIDE DEF T
  <2> QED BY <2>2, <2>3
<1>4. ASSUME NEW g, Is(g) PROVE g[L] = Total(seq, 1..L)
  <2> DEFINE Bad == {i \in 0..L : g[i] # Total(seq, 1..i)}
  <2>0. \A i \in 0..L : g[i] = IF i = 0 THEN 0 ELSE g[i - 1] + seq[i]
    BY <1>4
  <2>1. Bad = {}
    <3> SUFFICES ASSUME Bad # {} PROVE FALSE
      OBVIOUS
    <3>1. Bad \in SUBSET Nat
      OBVIOUS
    <3>2. PICK n \in Bad : \A y \in Bad : n <= y
      BY <3>1, Least
    <3>3. n # 0 /\ n \in 0..L
      BY <2>0, <1>1
    <3>4. n \in 1..L /\ n - 1 \in 0..L /\ ~(n <= n - 1)
      BY <3>3
    <3>5. g[n - 1] = Total(seq, 1..n - 1)
      BY <3>2, <3>4
    <3> QED BY <2>0, <3>3, <3>4, <3>5, <1>2
  <2>2. L \in 0..L
    OBVIOUS
  <2> QED BY <2>1, <2>2
<1>5. ValueOf(seq) = (CHOOSE g : Is(g))[L]
  BY DEF ValueOf
<1>6. Is(CHOOSE g : Is(g))
  <2> HIDE DEF Is
  <2> QED BY <1>3
<1>7. (CHOOSE g : Is(g))[L] = Total(seq, 1..L)
  <2> HIDE DEF Is
  <2> QED BY <1>4, <1>6
<1>8. Total(seq, 1..L) \in Nat
  <2>1. IsFiniteSet(1..L)
    BY <1>0, FS_Interval
  <2> QED BY <2>1, <1>0, SumNat
<1> QED BY <1>5, <1>7, <1>8

\* Nothing is worth nothing.
LEMMA WorthNothing == Sound(NoCoins) /\ Worth(NoCoins) = 0
<1>1. DOMAIN NoCoins.vout = {} /\ "vout" \in DOMAIN NoCoins
  BY DEF NoCoins
<1> HIDE DEF NoCoins
<1> QED BY <1>1, SumEmpty, FS_EmptySet DEF Sound, Worth

\* What is left of a transaction is worth a natural number.
LEMMA WorthNat ==
  ASSUME NEW c, Sound(c)
  PROVE  Worth(c) \in Nat
BY SumNat DEF Sound, Worth

\* CCoins::Spend takes the value of the output.
LEMMA WorthSpent ==
  ASSUME NEW c, Sound(c), NEW n \in DOMAIN c.vout
  PROVE  Worth(c) = Worth(Spend(c, n)) + c.vout[n] /\ Sound(Spend(c, n))
<1> DEFINE D == DOMAIN c.vout
           r == [m \in D \ {n} |-> c.vout[m]]
<1>0. IsFiniteSet(D) /\ (\A m \in D : c.vout[m] \in Nat) /\ IsFiniteSet(D \ {n})
  BY FS_RemoveElement DEF Sound
<1>1. Worth(c) = c.vout[n] + Total(c.vout, D \ {n})
  BY <1>0, SumPick DEF Worth
<1>2. Total(c.vout, D \ {n}) = Total(r, D \ {n}) /\ Total(r, D \ {n}) \in Nat
  <2>1. \A m \in D \ {n} : c.vout[m] = r[m] /\ r[m] \in Nat
    BY <1>0
  <2> HIDE DEF r, D
  <2> QED BY <1>0, <2>1, SumAgree, SumNat
<1>3. CASE D = {n}
  <2>1. Spend(c, n) = NoCoins /\ D \ {n} = {}
    BY <1>3 DEF Spend
  <2>2. Total(r, D \ {n}) = 0
    <3> HIDE DEF r
    <3> QED BY <2>1, SumEmpty
  <2> QED BY <2>1, <2>2, <1>0, <1>1, <1>2, WorthNothing
<1>4. CASE D # {n}
  <2>1. Spend(c, n) = [c EXCEPT !.vout = r]
    BY <1>4 DEF Spend
  <2>3. Spend(c, n).vout = r /\ "vout" \in DOMAIN Spend(c, n)
    BY <2>1 DEF Sound
  <2>4. DOMAIN r = D \ {n} /\ \A m \in D \ {n} : r[m] \in Nat
    BY <1>0
  <2> HIDE DEF r, D
  <2>5. Sound(Spend(c, n)) /\ Worth(Spend(c, n)) = Total(r, D \ {n})
    BY <2>3, <2>4, <1>0 DEF Sound, Worth
  <2> QED BY <2>5, <1>0, <1>1, <1>2 DEF D
<1> QED BY <1>3, <1>4

\* One entry of a view is replaced.
LEMMA ValueChanged ==
  ASSUME NEW v, NEW h \in TxIds, NEW w,
         \A k \in TxIds : Sound(v[k]) /\ Sound(w[k]) /\ (k # h => w[k] = v[k])
  PROVE  /\ ValueIn(w) + Worth(v[h]) = ValueIn(v) + Worth(w[h])
         /\ ValueIn(w) \in Nat /\ ValueIn(v) \in Nat
<1> DEFINE a == Worths(v)
           b == Worths(w)
<1>0. IsFiniteSet(TxIds) /\ IsFiniteSet(TxIds \ {h})
  BY LedgerAssumption, FS_RemoveElement
<1>1. \A k \in TxIds : a[k] = Worth(v[k]) /\ b[k] = Worth(w[k])
  BY DEF Worths
<1>2. \A k \in TxIds : a[k] \in Nat /\ b[k] \in Nat /\ (k # h => a[k] = b[k])
  BY <1>1, WorthNat
<1> HIDE DEF a, b
<1>3. Total(a, TxIds) = a[h] + Total(a, TxIds \ {h}) /\ Total(b, TxIds) = b[h] + Total(b, TxIds \ {h})
  BY <1>0, <1>2, SumPick
<1>4. Total(a, TxIds \ {h}) = Total(b, TxIds \ {h})
  BY <1>0, <1>2, SumAgree
<1>5. Total(a, TxIds \ {h}) \in Nat
  BY <1>0, <1>2, SumNat
<1>6. a[h] \in Nat /\ b[h] \in Nat /\ a[h] = Worth(v[h]) /\ b[h] = Worth(w[h])
  BY <1>1, <1>2
<1>7. ValueIn(v) = Total(a, TxIds) /\ ValueIn(w) = Total(b, TxIds)
  BY DEF ValueIn, a, b
<1> QED BY <1>3, <1>4, <1>5, <1>6, <1>7

\* The entries of an exact view are finite and worth natural numbers.
LEMMA ExactSound ==
  ASSUME NEW v, NEW P, NEW S, Exact(v, P, S), Distinct(P), NEW h \in TxIds
  PROVE  Sound(v[h])
<1>1. CASE \A p \in P : p.tx.hash # h
  BY <1>1, WorthNothing DEF Exact
<1>2. CASE \E p \in P : p.tx.hash = h
  <2>1. PICK p \in P : p.tx.hash = h
    BY <1>2
  <2> DEFINE A == Left(S, p.tx)
             r == [n \in A |-> p.tx.vout[n]]
  <2>2. p.tx.vout \in Seq(Nat)
    BY DEF Distinct, Placing, Transaction
  <2>3. IsFiniteSet(A) /\ \A n \in A : p.tx.vout[n] \in Nat
    <3>1. A \in SUBSET (1..Len(p.tx.vout)) /\ Len(p.tx.vout) \in Nat
      BY <2>2 DEF Left
    <3>2. IsFiniteSet(1..Len(p.tx.vout))
      BY <3>1, FS_Interval
    <3> QED BY <3>1, <3>2, <2>2, FS_Subset
  <2>4. CASE A = {}
    BY <2>1, <2>4, WorthNothing DEF Exact, CoinsLeft
  <2>5. CASE A # {}
    <3>1. v[h] = [fCoinBase |-> p.tx.coinbase, nHeight |-> p.height, vout |-> r]
      BY <2>1, <2>5 DEF Exact, CoinsLeft
    <3>2. DOMAIN r = A /\ \A n \in A : r[n] \in Nat
      BY <2>3
    <3> HIDE DEF r, A
    <3>3. "vout" \in DOMAIN v[h] /\ v[h].vout = r
      BY <3>1
    <3> QED BY <3>2, <3>3, <2>3 DEF Sound
  <2> QED BY <2>4, <2>5
<1> QED BY <1>1, <1>2

\* The value of an output does not depend on what else is spent.
LEMMA SameValue ==
  ASSUME NEW v, NEW w, NEW P, NEW S, NEW T, Exact(v, P, S), Exact(w, P, T), Distinct(P),
         NEW o \in Outpoint, IsAvailable(v[o.hash], o.n), IsAvailable(w[o.hash], o.n)
  PROVE  v[o.hash].vout[o.n] = w[o.hash].vout[o.n]
<1>1. PICK p \in P : p.tx.hash = o.hash /\ o.n \in Left(S, p.tx)
  BY AvailableExact
<1>2. o.n \in Left(T, p.tx)
  <2>1. PICK q \in P : q.tx.hash = o.hash /\ o.n \in Left(T, q.tx)
    BY AvailableExact
  <2> QED BY <1>1, <2>1 DEF Distinct
<1>3. v[o.hash] = CoinsLeft(S, p) /\ w[o.hash] = CoinsLeft(T, p)
  BY <1>1 DEF Exact
<1>4. v[o.hash].vout[o.n] = p.tx.vout[o.n] /\ w[o.hash].vout[o.n] = p.tx.vout[o.n]
  BY <1>1, <1>2, <1>3 DEF CoinsLeft
<1> QED BY <1>4

\* What the inputs of a checked transaction are worth.
InValues(view, tx) == [i \in DOMAIN tx.vin |-> view[tx.vin[i].hash].vout[tx.vin[i].n]]
LEMMA InValuesNat ==
  ASSUME NEW v, NEW P, NEW S, Exact(v, P, S), Distinct(P), NEW tx, Checked(v, tx)
  PROVE  /\ InValues(v, tx) \in Seq(Nat) /\ Len(InValues(v, tx)) = Len(tx.vin)
         /\ \A i \in 1..Len(tx.vin) : InValues(v, tx)[i] = v[tx.vin[i].hash].vout[tx.vin[i].n]
<1>1. tx.vin \in Seq(Outpoint) /\ ~tx.coinbase
  BY DEF Checked, Transaction, Outpoint
<1>2. Len(tx.vin) \in Nat /\ DOMAIN tx.vin = 1..Len(tx.vin)
  BY <1>1
<1>3. ASSUME NEW i \in DOMAIN tx.vin PROVE v[tx.vin[i].hash].vout[tx.vin[i].n] \in Nat
  <2>1. tx.vin[i] \in Outpoint
    BY <1>1
  <2>2. Sound(v[tx.vin[i].hash])
    BY <2>1, ExactSound DEF Outpoint
  <2>3. tx.vin[i].n \in DOMAIN v[tx.vin[i].hash].vout
    BY <1>1 DEF Checked, HaveInputs, IsAvailable
  <2> QED BY <2>2, <2>3 DEF Sound
<1> QED BY <1>2, <1>3 DEF InValues

\* The inputs take their value out of the view.
LEMMA SpentValueNext ==
  ASSUME NEW v, NEW P, NEW S, Exact(v, P, S), Distinct(P), NEW tx, Checked(v, tx),
         NEW spent, Spends(spent, v, tx), NEW i \in 1..Len(tx.vin)
  PROVE  /\ ValueIn(spent[i].view) + InValues(v, tx)[i] = ValueIn(spent[i - 1].view)
         /\ ValueIn(spent[i].view) \in Nat
<1> DEFINE L == Len(tx.vin)
           o == tx.vin[i]
           u == spent[i - 1].view
           w == spent[i].view
<1>1. tx.vin \in Seq(Outpoint) /\ L \in Nat /\ ~tx.coinbase
  BY DEF Checked, Transaction, Outpoint
<1>2. o \in Outpoint /\ o.hash \in TxIds /\ i - 1 \in 0..L /\ i \in 0..L /\ i \in i - 1 + 1..L /\ i \in DOMAIN tx.vin
  <2>1. o \in Outpoint /\ i \in DOMAIN tx.vin
    BY <1>1
  <2>2. o.hash \in TxIds
    BY <2>1 DEF Outpoint
  <2>3. i - 1 \in 0..L /\ i \in 0..L /\ i \in i - 1 + 1..L
    BY <1>1
  <2> QED BY <2>1, <2>2, <2>3
<1>3. SpentTo(spent, P, S, tx, i - 1) /\ SpentTo(spent, P, S, tx, i)
  BY <1>2, SpentAll
<1>4. IsAvailable(u[o.hash], o.n) /\ IsAvailable(v[o.hash], o.n)
  <2>1. IsAvailable(u[o.hash], o.n)
    BY <1>2, <1>3 DEF SpentTo
  <2> QED BY <2>1, <1>1, <1>2 DEF Checked, HaveInputs
<1> DEFINE T == S \cup UpTo(tx.vin, i - 1)
           U == S \cup UpTo(tx.vin, i)
<1>5. Exact(u, P, T) /\ Exact(w, P, U)
  BY <1>3 DEF SpentTo
<1>6. w = [u EXCEPT ![o.hash] = Spend(@, o.n)]
  <2>1. spent[i] = SpendOne(spent[i - 1], tx.vin[i])
    BY <1>1, SpendsNext
  <2> QED BY <2>1 DEF SpendOne
<1> HIDE DEF u, w, T, U, o
<1>7. u = [h \in TxIds |-> u[h]]
  BY <1>5 DEF Exact
<1>8. w[o.hash] = Spend(u[o.hash], o.n) /\ \A h \in TxIds : h # o.hash => w[h] = u[h]
  BY <1>2, <1>6, <1>7
<1>9. \A h \in TxIds : Sound(u[h]) /\ Sound(w[h])
  BY <1>5, ExactSound
<1>10. /\ ValueIn(w) + Worth(u[o.hash]) = ValueIn(u) + Worth(w[o.hash])
       /\ ValueIn(w) \in Nat /\ ValueIn(u) \in Nat
  BY <1>2, <1>8, <1>9, ValueChanged
<1>11. /\ Worth(u[o.hash]) = Worth(w[o.hash]) + u[o.hash].vout[o.n]
       /\ u[o.hash].vout[o.n] \in Nat /\ Worth(w[o.hash]) \in Nat
  <2>1. o.n \in DOMAIN u[o.hash].vout
    BY <1>4 DEF IsAvailable
  <2>2. Sound(u[o.hash])
    BY <1>2, <1>9
  <2>3. Worth(u[o.hash]) = Worth(Spend(u[o.hash], o.n)) + u[o.hash].vout[o.n]
    BY <2>1, <2>2, WorthSpent
  <2>4. Worth(w[o.hash]) \in Nat
    BY <1>2, <1>9, WorthNat
  <2>5. u[o.hash].vout[o.n] \in Nat
    BY <2>1, <2>2 DEF Sound
  <2> QED BY <2>3, <2>4, <2>5, <1>8
<1>12. InValues(v, tx)[i] = u[o.hash].vout[o.n]
  <2>1. InValues(v, tx)[i] = v[o.hash].vout[o.n]
    BY <1>2 DEF InValues, o
  <2>2. v[o.hash].vout[o.n] = u[o.hash].vout[o.n]
    BY <1>2, <1>4, <1>5, SameValue
  <2> QED BY <2>1, <2>2
<1>13. ValueIn(w) + u[o.hash].vout[o.n] = ValueIn(u)
  BY <1>10, <1>11
<1> QED BY <1>10, <1>12, <1>13 DEF u, w

\* After all inputs, what they are worth is out of the view.
LEMMA SpentValue ==
  ASSUME NEW v, NEW P, NEW S, Exact(v, P, S), Distinct(P), NEW tx, Checked(v, tx),
         NEW spent, Spends(spent, v, tx), tx.vin # <<>>
  PROVE  /\ ValueIn(spent[Len(tx.vin)].view) + GetValueIn(v, tx) = ValueIn(v)
         /\ ValueIn(spent[Len(tx.vin)].view) \in Nat /\ GetValueIn(v, tx) \in Nat
<1> DEFINE L == Len(tx.vin)
           f == InValues(v, tx)
           Rest(i) == ValueIn(spent[i].view)
           Bad == {i \in 0..L : Rest(i) + Total(f, 1..i) # ValueIn(v)}
<1>1. tx.vin \in Seq(Outpoint) /\ L \in Nat \ {0} /\ ~tx.coinbase
  <2>1. tx.vin \in Seq(Outpoint) /\ ~tx.coinbase
    BY DEF Checked, Transaction, Outpoint
  <2> QED BY <2>1, NonEmpty
<1>2. f \in Seq(Nat) /\ Len(f) = L /\ \A k \in 1..L : f[k] \in Nat
  <2>1. f \in Seq(Nat) /\ Len(f) = L
    BY InValuesNat
  <2> HIDE DEF f
  <2> QED BY <2>1
<1>3. ASSUME NEW i \in 1..L PROVE Rest(i) + f[i] = Rest(i - 1) /\ Rest(i) \in Nat
  BY SpentValueNext
<1>4. spent[0].view = v
  <2>1. spent[0] = [view |-> v, undo |-> <<>>]
    BY <1>1, SpendsFirst
  <2> QED BY <2>1
<1>5. Rest(0) = ValueIn(v) /\ ValueIn(v) \in Nat
  <2>1. 1 \in 1..L /\ 1 - 1 = 0
    BY <1>1
  <2>2. Rest(1) + f[1] = Rest(0) /\ Rest(1) \in Nat /\ f[1] \in Nat
    BY <2>1, <1>2, <1>3
  <2> QED BY <2>2, <1>4
<1> HIDE DEF f, Rest
<1>6. ASSUME NEW i \in 1..L
      PROVE  Total(f, 1..i) = Total(f, 1..i - 1) + f[i] /\ Total(f, 1..i - 1) \in Nat /\ f[i] \in Nat
  <2>1. i \in Nat \ {0} /\ \A k \in 1..i : f[k] \in Nat
    BY <1>1, <1>2
  <2> QED BY <2>1, TotalNext
<1>7. Bad = {}
  <2> SUFFICES ASSUME Bad # {} PROVE FALSE
    OBVIOUS
  <2>1. Bad \in SUBSET Nat
    BY <1>1
  <2>2. PICK n \in Bad : \A y \in Bad : n <= y
    BY <2>1, Least
  <2>3. n # 0 /\ n \in 0..L
    <3>1. 1..0 = {}
      OBVIOUS
    <3>2. Total(f, 1..0) = 0
      BY <3>1, SumEmpty
    <3> QED BY <3>2, <1>5
  <2>4. n \in 1..L /\ n - 1 \in 0..L /\ ~(n <= n - 1)
    BY <2>3, <1>1
  <2>5. Rest(n - 1) + Total(f, 1..n - 1) = ValueIn(v)
    BY <2>2, <2>4
  <2>6. Rest(n) + f[n] = Rest(n - 1) /\ Rest(n) \in Nat
    BY <2>4, <1>3
  <2>7. Total(f, 1..n) = Total(f, 1..n - 1) + f[n] /\ Total(f, 1..n - 1) \in Nat /\ f[n] \in Nat
    BY <2>4, <1>6
  <2>8. Rest(n) + Total(f, 1..n) = ValueIn(v)
    BY <2>5, <2>6, <2>7
  <2> QED BY <2>8
<1>8. GetValueIn(v, tx) = Total(f, 1..L) /\ GetValueIn(v, tx) \in Nat
  <2>1. GetValueIn(v, tx) = ValueOf(f)
    BY DEF GetValueIn, f, InValues
  <2> QED BY <2>1, <1>2, ValueOfIs
<1>9. L \in 0..L /\ L \in 1..L
  BY <1>1
<1>10. Rest(L) + Total(f, 1..L) = ValueIn(v) /\ Rest(L) \in Nat
  BY <1>3, <1>7, <1>9
<1> QED BY <1>8, <1>10 DEF Rest

\* UpdateCoins moves value: it takes what the inputs are worth and adds the outputs.
LEMMA TxValue ==
  ASSUME NEW v, NEW P, NEW S, NEW tx, NEW nHeight, Ready(v, P, S, tx, nHeight)
  PROVE  LET w == UpdateCoins(v, tx, nHeight).view
         IN  /\ ValueIn(v) \in Nat /\ ValueIn(w) \in Nat /\ GetValueOut(tx) \in Nat
             /\ tx.coinbase => ValueIn(w) = ValueIn(v) + GetValueOut(tx)
             /\ ~tx.coinbase => /\ GetValueIn(v, tx) \in Nat /\ GetValueOut(tx) <= GetValueIn(v, tx)
                                /\ ValueIn(w) + GetValueIn(v, tx) = ValueIn(v) + GetValueOut(tx)
<1>1. PICK spent : Updated(spent, v, P, S, tx, nHeight)
  BY UpdateParts
<1> DEFINE u == spent[Len(tx.vin)].view
           T == S \cup SpentOf(tx)
           n == [height |-> nHeight, tx |-> tx]
           w == UpdateCoins(v, tx, nHeight).view
           e == CCoins(tx, nHeight)
<1>2. w = [u EXCEPT ![tx.hash] = e]
  BY <1>1 DEF Updated
<1>3. /\ tx \in Transaction /\ nHeight \in Nat \ {0} /\ tx.vout # <<>> /\ tx.vin # <<>> /\ Distinct(P)
      /\ Exact(v, P, S) /\ tx.hash \in TxIds /\ tx.vout \in Seq(Nat) /\ tx.coinbase \in BOOLEAN
  BY DEF Ready, CheckTransaction, World, Transaction
<1>4. \A p \in P : p.tx.hash # tx.hash
  BY NewHash
<1>5. Exact(u, P, T)
  BY <1>1 DEF Updated
<1>6. Exact(w, P \cup {n}, T) /\ Distinct(P \cup {n})
  <2>1. Exact(w, P \cup {n}, T)
    BY TxExact
  <2>2. World(P \cup {n}, T)
    BY NewWorld
  <2> QED BY <2>1, <2>2 DEF World
<1>7. u[tx.hash] = NoCoins /\ u = [h \in TxIds |-> u[h]]
  BY <1>3, <1>4, <1>5 DEF Exact
<1>8. Worth(e) = GetValueOut(tx) /\ GetValueOut(tx) \in Nat
  <2> DEFINE L == Len(tx.vout)
             f == [m \in DOMAIN tx.vout |-> tx.vout[m]]
  <2>1. e.vout = f /\ DOMAIN tx.vout = 1..L /\ L \in Nat
    BY <1>3 DEF CCoins
  <2>2. f = tx.vout
    BY <1>3
  <2>3. DOMAIN tx.vout = 1..L
    BY <1>3
  <2> HIDE DEF f, e, L
  <2>4. Worth(e) = Total(tx.vout, 1..L)
    BY <2>1, <2>2 DEF Worth
  <2>5. ValueOf(tx.vout) = Total(tx.vout, 1..L) /\ ValueOf(tx.vout) \in Nat
    BY <1>3, ValueOfIs DEF L
  <2> QED BY <2>4, <2>5 DEF GetValueOut
<1> HIDE DEF w, u, T, n, e
<1>9. w[tx.hash] = e /\ \A h \in TxIds : h # tx.hash => w[h] = u[h]
  BY <1>2, <1>3, <1>7
<1>10. \A h \in TxIds : Sound(u[h]) /\ Sound(w[h]) /\ Sound(v[h])
  BY <1>3, <1>5, <1>6, ExactSound
<1>11. ValueIn(w) + Worth(u[tx.hash]) = ValueIn(u) + Worth(w[tx.hash]) /\ ValueIn(w) \in Nat /\ ValueIn(u) \in Nat
  BY <1>3, <1>9, <1>10, ValueChanged
<1>12. ValueIn(w) = ValueIn(u) + GetValueOut(tx)
  BY <1>7, <1>8, <1>9, <1>11, WorthNothing
<1>13. CASE tx.coinbase
  <2>1. u = v
    BY <1>1, <1>13 DEF Updated, u
  <2> QED BY <2>1, <1>8, <1>11, <1>12, <1>13 DEF w
<1>14. CASE ~tx.coinbase
  <2>1. Checked(v, tx)
    BY <1>14 DEF Checked, Ready, CheckTransaction, CheckInputs
  <2>2. Spends(spent, v, tx)
    BY <1>1 DEF Updated
  <2>3. ValueIn(u) + GetValueIn(v, tx) = ValueIn(v) /\ GetValueIn(v, tx) \in Nat
    BY <2>1, <2>2, <1>3, SpentValue DEF u
  <2>4. GetValueOut(tx) <= GetValueIn(v, tx)
    <3>1. GetValueIn(v, tx) >= GetValueOut(tx)
      BY <1>14 DEF Ready, CheckInputs, ValuesOK
    <3> QED BY <3>1, <2>3, <1>8
  <2>5. ValueIn(v) \in Nat /\ ValueIn(w) + GetValueIn(v, tx) = ValueIn(v) + GetValueOut(tx)
    BY <2>3, <1>8, <1>11, <1>12
  <2> QED BY <2>3, <2>4, <2>5, <1>8, <1>11, <1>14 DEF w
<1> QED BY <1>3, <1>13, <1>14

\* The fee of a transaction is what it takes and does not pay out.
LEMMA Fees ==
  ASSUME NEW before \in Nat, NEW after \in Nat, NEW in \in Nat, NEW out \in Nat, NEW fees \in Nat,
         NEW all \in Nat, out <= in, after + in = before + out, before + fees = all
  PROVE  fees + in - out \in Nat /\ after + (fees + in - out) = all
OBVIOUS

\* After i transactions of a block: what they left in the view and in fees was
\* there before or was paid by the coinbase.
Balanced(done, v, vtx, i) ==
  /\ done[i].fees \in Nat /\ ValueIn(done[i].view) \in Nat
  /\ i = 0 => done[i].fees = 0 /\ done[i].view = v
  /\ i # 0 => ValueIn(done[i].view) + done[i].fees = ValueIn(v) + GetValueOut(vtx[1])
LEMMA BalancedNext ==
  ASSUME NEW v, NEW P, NEW S, NEW vtx, NEW nHeight, BlockReady(v, P, S, vtx, nHeight),
         NEW done, Accepted(done, v, vtx, nHeight), NEW i \in 1..Len(vtx),
         Balanced(done, v, vtx, i - 1), ValueIn(v) \in Nat, GetValueOut(vtx[1]) \in Nat
  PROVE  Balanced(done, v, vtx, i)
<1> DEFINE a == done[i - 1]
           tx == vtx[i]
           Q == PlacedIn(P, vtx, nHeight, i - 1)
           T == SpentIn(S, vtx, i - 1)
           w == UpdateCoins(a.view, tx, nHeight).view
<1>1. vtx \in Seq(Transaction) /\ Len(vtx) \in Nat /\ i \in DOMAIN vtx /\ CheckBlock(vtx) /\ i - 1 \in 0..Len(vtx)
  BY DEF BlockReady
<1>2. tx.coinbase <=> i = 1
  BY <1>1 DEF CheckBlock
<1>3. Ready(a.view, Q, T, tx, nHeight)
  <2>1. ConnectedTo(done, P, S, vtx, nHeight, i - 1)
    BY <1>1, BlockAll
  <2> QED BY <2>1, NextReady
<1>4. done[i].view = w
  BY <1>1, AllConnected DEF Accepted
<1>5. done[i].fees = IF tx.coinbase THEN a.fees ELSE a.fees + GetValueIn(a.view, tx) - GetValueOut(tx)
  BY <1>1, AllConnected DEF Accepted
<1>6. /\ ValueIn(a.view) \in Nat /\ ValueIn(w) \in Nat /\ GetValueOut(tx) \in Nat
      /\ tx.coinbase => ValueIn(w) = ValueIn(a.view) + GetValueOut(tx)
      /\ ~tx.coinbase => /\ GetValueIn(a.view, tx) \in Nat /\ GetValueOut(tx) <= GetValueIn(a.view, tx)
                         /\ ValueIn(w) + GetValueIn(a.view, tx) = ValueIn(a.view) + GetValueOut(tx)
  <2> HIDE DEF Q, T, a, tx
  <2> QED BY <1>3, TxValue
<1>7. /\ a.fees \in Nat
      /\ i - 1 = 0 => a.fees = 0 /\ a.view = v
      /\ i - 1 # 0 => ValueIn(a.view) + a.fees = ValueIn(v) + GetValueOut(vtx[1])
  BY DEF Balanced
<1>8. i \in Nat /\ i # 0
  BY <1>1
<1> HIDE DEF a, w, Q, T
<1>9. CASE i = 1
  <2>1. i - 1 = 0 /\ tx = vtx[1]
    BY <1>9
  <2> HIDE DEF tx
  <2> QED BY <2>1, <1>2, <1>4, <1>5, <1>6, <1>7, <1>8, <1>9 DEF Balanced
<1>10. CASE i # 1
  <2>1. i - 1 # 0 /\ ~tx.coinbase
    BY <1>2, <1>8, <1>10
  <2> DEFINE In == GetValueIn(a.view, tx)
             Out == GetValueOut(tx)
  <2> HIDE DEF tx, In, Out
  <2>2. /\ In \in Nat /\ Out \in Nat /\ Out <= In /\ a.fees \in Nat
        /\ ValueIn(w) \in Nat /\ ValueIn(a.view) \in Nat
        /\ ValueIn(w) + In = ValueIn(a.view) + Out
        /\ ValueIn(a.view) + a.fees = ValueIn(v) + GetValueOut(vtx[1])
        /\ done[i].fees = a.fees + In - Out
        /\ ValueIn(v) + GetValueOut(vtx[1]) \in Nat
    BY <2>1, <1>5, <1>6, <1>7 DEF In, Out
  <2>3. done[i].fees \in Nat /\ ValueIn(w) + done[i].fees = ValueIn(v) + GetValueOut(vtx[1])
    <3> DEFINE before == ValueIn(a.view)
               after == ValueIn(w)
               fees == a.fees
               all == ValueIn(v) + GetValueOut(vtx[1])
    <3>1. /\ before \in Nat /\ after \in Nat /\ fees \in Nat /\ all \in Nat
          /\ after + In = before + Out /\ before + fees = all
          /\ In \in Nat /\ Out \in Nat /\ Out <= In
      BY <2>2
    <3>2. fees + In - Out \in Nat /\ after + (fees + In - Out) = all
      <4> HIDE DEF before, after, fees, all
      <4> QED BY <3>1, Fees
    <3> QED BY <3>2, <2>2
  <2> QED BY <2>2, <2>3, <1>4, <1>8 DEF Balanced
<1> QED BY <1>9, <1>10

\* A connected block adds at most what GetBlockValue lets its coinbase pay.
LEMMA BlockValue ==
  ASSUME NEW v, NEW P, NEW S, NEW vtx, NEW nHeight, BlockReady(v, P, S, vtx, nHeight),
         NEW done, Accepted(done, v, vtx, nHeight)
  PROVE  /\ ValueIn(v) \in Nat /\ GetValueOut(vtx[1]) \in Nat
         /\ Balanced(done, v, vtx, Len(vtx)) /\ Len(vtx) \in Nat \ {0}
<1> DEFINE L == Len(vtx)
           Bad == {i \in 0..L : ~Balanced(done, v, vtx, i)}
<1>1. vtx \in Seq(Transaction) /\ L \in Nat \ {0} /\ CheckBlock(vtx)
  BY NonEmpty DEF BlockReady, CheckBlock
<1>2. done[0] = [ok |-> TRUE, view |-> v, fees |-> 0, undo |-> <<>>]
  BY <1>1, ConnectsFirst DEF Accepted
<1>3. done[0].view = v /\ done[0].fees = 0
  BY <1>2
<1>4. ValueIn(v) \in Nat /\ GetValueOut(vtx[1]) \in Nat
  <2>1. 0 \in 0..L /\ 1 \in 1..L /\ 1 - 1 = 0
    BY <1>1
  <2>2. ConnectedTo(done, P, S, vtx, nHeight, 0)
    BY <2>1, BlockAll
  <2>3. Ready(done[0].view, PlacedIn(P, vtx, nHeight, 0), SpentIn(S, vtx, 0), vtx[1], nHeight)
    BY <2>1, <2>2, NextReady
  <2>4. Ready(v, PlacedIn(P, vtx, nHeight, 0), SpentIn(S, vtx, 0), vtx[1], nHeight)
    BY <2>3, <1>3
  <2> QED BY <2>4, TxValue
<1>5. Balanced(done, v, vtx, 0)
  BY <1>3, <1>4 DEF Balanced
<1>6. Bad = {}
  <2> SUFFICES ASSUME Bad # {} PROVE FALSE
    OBVIOUS
  <2>1. Bad \in SUBSET Nat
    BY <1>1
  <2>2. PICK n \in Bad : \A y \in Bad : n <= y
    BY <2>1, Least
  <2>3. n # 0 /\ n \in 0..L
    BY <1>5
  <2>4. n \in 1..L /\ n - 1 \in 0..L /\ ~(n <= n - 1)
    BY <2>3, <1>1
  <2>5. Balanced(done, v, vtx, n - 1)
    BY <2>2, <2>4
  <2>6. Balanced(done, v, vtx, n)
    BY <2>4, <2>5, <1>4, BalancedNext
  <2> QED BY <2>6
<1>7. L \in 0..L
  BY <1>1
<1> QED BY <1>1, <1>4, <1>6, <1>7

\* GetBlockValue is the subsidy of the height, with the fees or without (Subsidy).
RewardPlusFees ==
  \A h \in Nat \ {0} :
     /\ GetBlockValue(h, 0) \in Nat
     /\ \A fees \in Nat : GetBlockValue(h, fees) \in {GetBlockValue(h, 0), GetBlockValue(h, 0) + fees}

\* The subsidies of the first n blocks, and the bound on every view on the way.
Subsidies(n) == Total([h \in 1..n |-> GetBlockValue(h, 0)], 1..n)
VInv == \A n \in 0..Len(chain) : ValueIn(ViewAt(chain, coins, n)) <= Subsidies(n)

\* One subsidy more.
LEMMA SubsidiesNext ==
  ASSUME RewardPlusFees, NEW n \in Nat
  PROVE  /\ Subsidies(n + 1) = Subsidies(n) + GetBlockValue(n + 1, 0)
         /\ Subsidies(n) \in Nat /\ GetBlockValue(n + 1, 0) \in Nat
<1> DEFINE f == [h \in 1..n + 1 |-> GetBlockValue(h, 0)]
           g == [h \in 1..n |-> GetBlockValue(h, 0)]
<1>1. \A h \in 1..n + 1 : f[h] = GetBlockValue(h, 0) /\ f[h] \in Nat
  BY DEF RewardPlusFees
<1>2. \A h \in 1..n : g[h] = f[h]
  OBVIOUS
<1>3. n + 1 \in Nat \ {0} /\ n + 1 - 1 = n /\ n + 1 \in 1..n + 1
  OBVIOUS
<1> HIDE DEF f, g
<1>4. Total(f, 1..n + 1) = Total(f, 1..n) + f[n + 1] /\ Total(f, 1..n) \in Nat /\ f[n + 1] \in Nat
  <2> DEFINE m == n + 1
  <2>1. m \in Nat \ {0} /\ m - 1 = n /\ \A k \in 1..m : f[k] \in Nat
    BY <1>1, <1>3
  <2> HIDE DEF m
  <2>2. Total(f, 1..m) = Total(f, 1..m - 1) + f[m] /\ Total(f, 1..m - 1) \in Nat /\ f[m] \in Nat
    BY <2>1, TotalNext
  <2> QED BY <2>1, <2>2 DEF m
<1>5. Total(g, 1..n) = Total(f, 1..n)
  <2>1. IsFiniteSet(1..n)
    BY FS_Interval
  <2> QED BY <2>1, <1>2, SumAgree
<1>6. Subsidies(n + 1) = Total(f, 1..n + 1) /\ Subsidies(n) = Total(g, 1..n)
  BY DEF Subsidies, f, g
<1> QED BY <1>1, <1>3, <1>4, <1>5, <1>6

\* What ConnectBlock adds to a view.
LEMMA ConnectValue ==
  ASSUME RewardPlusFees, NEW v, NEW P, NEW S, NEW vtx, NEW nHeight, BlockReady(v, P, S, vtx, nHeight),
         ConnectBlock(v, vtx, nHeight).ok
  PROVE  /\ ValueIn(v) \in Nat /\ ValueIn(ConnectBlock(v, vtx, nHeight).view) \in Nat
         /\ ValueIn(ConnectBlock(v, vtx, nHeight).view) <= ValueIn(v) + GetBlockValue(nHeight, 0)
<1> DEFINE res == ConnectBlock(v, vtx, nHeight)
           reward(fees) == GetBlockValue(nHeight, fees)
<1>1. Len(vtx) \in Nat /\ nHeight \in Nat \ {0}
  BY DEF BlockReady
<1>2. PICK done : /\ Accepted(done, v, vtx, nHeight) /\ res.view = done[Len(vtx)].view
                  /\ CoinbaseLimit(vtx, nHeight, done[Len(vtx)].fees)
  BY <1>1, BlockConnected
<1>3. /\ ValueIn(v) \in Nat /\ GetValueOut(vtx[1]) \in Nat
      /\ Balanced(done, v, vtx, Len(vtx)) /\ Len(vtx) \in Nat \ {0}
  BY <1>2, BlockValue
<1> DEFINE fees == done[Len(vtx)].fees
<1> HIDE DEF res
<1>4. /\ fees \in Nat /\ ValueIn(res.view) \in Nat
      /\ ValueIn(res.view) + fees = ValueIn(v) + GetValueOut(vtx[1])
  BY <1>2, <1>3 DEF Balanced
<1>5. GetValueOut(vtx[1]) <= reward(fees)
  BY <1>2 DEF CoinbaseLimit
<1> HIDE DEF fees
<1>6. reward(0) \in Nat /\ (reward(fees) = reward(0) \/ reward(fees) = reward(0) + fees)
  BY <1>1, <1>4 DEF RewardPlusFees
<1> HIDE DEF reward
<1>7. ValueIn(res.view) <= ValueIn(v) + reward(0)
  BY <1>3, <1>4, <1>5, <1>6
<1> QED BY <1>3, <1>4, <1>7 DEF res, reward

\* The views on the way when a block is connected, and when the tip is disconnected.
LEMMA ConnectViews ==
  ASSUME LInv, NEW vtx \in Candidates, Connect(vtx)
  PROVE  /\ Len(chain) \in Nat /\ Len(chain') = Len(chain) + 1 /\ ViewAt(chain', coins', Len(chain')) = coins'
         /\ \A m \in 0..Len(chain) : ViewAt(chain', coins', m) = ViewAt(chain, coins, m)
<1> DEFINE n == Len(chain)
           b == [vtx |-> vtx, undo |-> ConnectBlock(coins, vtx, n + 1).undo, before |-> coins]
           R == {chain[h] : h \in DOMAIN chain}
<1>1. chain' = Append(chain, b)
  BY DEF Connect
<1>2. b.before = coins
  OBVIOUS
<1>3. chain \in Seq(R)
  BY DEF LInv
<1> HIDE DEF b, R
<1>4. n \in Nat /\ Len(chain') = n + 1 /\ chain'[n + 1] = b /\ \A h \in 1..n : chain'[h] = chain[h]
  <2>1. chain \in Seq(R \cup {b})
    BY <1>3, SeqMonotonic
  <2> QED BY <2>1, <1>1
<1>5. ASSUME NEW m \in 0..n PROVE ViewAt(chain', coins', m) = ViewAt(chain, coins, m)
  <2>1. CASE m = n
    <3>1. m # Len(chain') /\ chain'[m + 1].before = coins
      BY <2>1, <1>2, <1>4
    <3> QED BY <2>1, <3>1 DEF ViewAt
  <2>2. CASE m # n
    <3>1. m # Len(chain') /\ chain'[m + 1] = chain[m + 1]
      BY <2>2, <1>4
    <3> QED BY <2>2, <3>1 DEF ViewAt
  <2> QED BY <2>1, <2>2
<1>6. ViewAt(chain', coins', Len(chain')) = coins'
  BY DEF ViewAt
<1> QED BY <1>4, <1>5, <1>6

LEMMA DisconnectViews ==
  ASSUME LInv, Disconnect
  PROVE  /\ Len(chain) \in Nat \ {0} /\ Len(chain') = Len(chain) - 1
         /\ \A m \in 0..Len(chain') : ViewAt(chain', coins', m) = ViewAt(chain, coins, m)
<1> DEFINE n == Len(chain)
           R == {chain[h] : h \in DOMAIN chain}
           res == DisconnectBlock(coins, Last(chain).vtx, Last(chain).undo, n)
<1>1. chain # <<>> /\ coins' = res.view /\ chain' = Front(chain)
  BY DEF Disconnect
<1>2. chain \in Seq(R) /\ n \in Nat \ {0} /\ DOMAIN chain = 1..n
  <2>1. chain \in Seq(R)
    BY DEF LInv
  <2> HIDE DEF R
  <2> QED BY <2>1, <1>1, NonEmpty
<1>3. coins' = chain[n].before
  <2>1. n \in 1..n /\ ViewAt(chain, coins, n) = coins /\ Last(chain) = chain[n]
    BY <1>2 DEF ViewAt, Last
  <2>2. CleanAt(res, chain[n].before)
    BY <2>1 DEF LInv, Undoable
  <2> HIDE DEF res
  <2> QED BY <2>2, <1>1 DEF CleanAt
<1>4. Len(chain') = n - 1 /\ \A h \in 1..n - 1 : chain'[h] = chain[h]
  <2> HIDE DEF R
  <2>1. chain' = SubSeq(chain, 1, n - 1)
    BY <1>1 DEF Front
  <2> QED BY <2>1, <1>2
<1>5. ASSUME NEW m \in 0..n - 1 PROVE ViewAt(chain', coins', m) = ViewAt(chain, coins, m)
  <2>1. CASE m = n - 1
    <3>1. m = Len(chain') /\ m # n /\ m + 1 = n
      BY <2>1, <1>2, <1>4
    <3> QED BY <3>1, <1>3 DEF ViewAt
  <2>2. CASE m # n - 1
    <3>1. m + 1 \in 1..n - 1 /\ m # n
      <4>1. n \in Nat /\ m \in 0..n - 1 /\ m # n - 1
        BY <2>2, <1>2
      <4> HIDE DEF n
      <4> QED BY <4>1
    <3>2. m # Len(chain') /\ chain'[m + 1] = chain[m + 1]
      BY <3>1, <2>2, <1>4
    <3> QED BY <3>1, <3>2 DEF ViewAt
  <2> QED BY <2>1, <2>2
<1> QED BY <1>2, <1>4, <1>5

\* The block on top of the chain is ready to be connected.
LEMMA ConnectReady ==
  ASSUME UniqueCoinbases, LInv, NEW vtx \in Candidates, Connect(vtx)
  PROVE  \E P, S : BlockReady(coins, P, S, vtx, Len(chain) + 1)
<1> DEFINE n == Len(chain)
<1>1. Good(chain, coins) /\ n \in Nat
  BY WholeChain
<1>2. n + 1 \in Nat \ {0}
  BY <1>1
<1>3. CheckBlock(vtx) /\ \A h \in DOMAIN chain : chain[h].vtx[1].hash # vtx[1].hash
  BY DEF Connect, Fresh
<1> HIDE DEF n
<1>4. BlockReady(coins, Chained(chain), SpentAlong(chain), vtx, n + 1)
  BY <1>1, <1>2, <1>3, ReadyToGrow
<1> QED BY <1>4 DEF n

\* Connecting a block keeps the bound ...
LEMMA ValueConnect ==
  ASSUME UniqueCoinbases, RewardPlusFees, LInv, VInv, NEW vtx \in Candidates, Connect(vtx)
  PROVE  VInv'
<1> DEFINE n == Len(chain)
<1>1. /\ n \in Nat /\ Len(chain') = n + 1 /\ ViewAt(chain', coins', n + 1) = coins'
      /\ \A m \in 0..n : ViewAt(chain', coins', m) = ViewAt(chain, coins, m)
  BY ConnectViews
<1>2. ViewAt(chain, coins, n) = coins
  BY DEF ViewAt
<1>3. ValueIn(coins) <= Subsidies(n)
  BY <1>1, <1>2 DEF VInv
<1>4. PICK P : \E S : BlockReady(coins, P, S, vtx, n + 1)
  BY ConnectReady
<1>5. PICK S : BlockReady(coins, P, S, vtx, n + 1)
  BY <1>4
<1>6. ConnectBlock(coins, vtx, n + 1).ok /\ coins' = ConnectBlock(coins, vtx, n + 1).view
  BY DEF Connect
<1>7. /\ ValueIn(coins) \in Nat /\ ValueIn(coins') \in Nat
      /\ ValueIn(coins') <= ValueIn(coins) + GetBlockValue(n + 1, 0)
  <2> HIDE DEF n
  <2> QED BY <1>5, <1>6, ConnectValue
<1>8. /\ Subsidies(n + 1) = Subsidies(n) + GetBlockValue(n + 1, 0)
      /\ Subsidies(n) \in Nat /\ GetBlockValue(n + 1, 0) \in Nat
  BY <1>1, SubsidiesNext
<1>9. ValueIn(coins') <= Subsidies(n + 1)
  BY <1>3, <1>7, <1>8
<1>10. ASSUME NEW m \in 0..n + 1 PROVE ValueIn(ViewAt(chain', coins', m)) <= Subsidies(m)
  <2>1. CASE m \in 0..n
    BY <2>1, <1>1 DEF VInv
  <2>2. CASE m = n + 1
    BY <2>2, <1>1, <1>9
  <2>3. m \in 0..n \/ m = n + 1
    BY <1>1
  <2> QED BY <2>1, <2>2, <2>3
<1> QED BY <1>1, <1>10 DEF VInv

\* ... and disconnecting the tip leads back to a view that kept it.
LEMMA ValueDisconnect ==
  ASSUME LInv, VInv, Disconnect
  PROVE  VInv'
<1>1. /\ Len(chain) \in Nat \ {0} /\ Len(chain') = Len(chain) - 1
      /\ \A m \in 0..Len(chain') : ViewAt(chain', coins', m) = ViewAt(chain, coins, m)
  BY DisconnectViews
<1>2. \A m \in 0..Len(chain') : m \in 0..Len(chain)
  BY <1>1
<1> QED BY <1>1, <1>2 DEF VInv

\* Nothing is in the empty view.
LEMMA ValueInit == Init => VInv
<1> SUFFICES ASSUME Init PROVE VInv
  OBVIOUS
<1>1. chain = <<>> /\ Len(chain) = 0 /\ coins = EmptyView
  BY DEF Init
<1> DEFINE a == Worths(coins)
<1>2. ASSUME NEW h \in TxIds PROVE a[h] = 0
  BY <1>1, WorthNothing DEF Worths, EmptyView
<1> HIDE DEF a
<1>3. ASSUME NEW s \in SUBSET TxIds PROVE Total(a, s) = 0
  <2> DEFINE K == {t \in SUBSET TxIds : Total(a, t) # 0}
  <2> SUFFICES ASSUME K # {} PROVE FALSE
    OBVIOUS
  <2>1. PICK t \in K : /\ IsFiniteSet(t) /\ Cardinality(t) \in Nat
                       /\ \A u \in K : Cardinality(t) <= Cardinality(u)
    <3>1. K \subseteq SUBSET TxIds
      OBVIOUS
    <3> HIDE DEF K
    <3> QED BY <3>1, Smallest, LedgerAssumption
  <2>2. t # {}
    BY SumEmpty
  <2>3. One(t) \in t /\ Total(a, t) = a[One(t)] + Total(a, t \ {One(t)})
    BY <2>1, <2>2, SumStep
  <2>4. Cardinality(t \ {One(t)}) < Cardinality(t) /\ Cardinality(t \ {One(t)}) \in Nat
    BY <2>1, <2>3, Smaller
  <2>5. Total(a, t \ {One(t)}) = 0
    BY <2>1, <2>4
  <2> QED BY <2>3, <2>5, <1>2
<1>4. ValueIn(coins) = 0
  BY <1>3 DEF ValueIn, a
<1>5. Subsidies(0) = 0
  <2>1. 1..0 = {}
    OBVIOUS
  <2> QED BY <2>1, SumEmpty DEF Subsidies
<1>6. 0..Len(chain) = {0} /\ ViewAt(chain, coins, 0) = coins
  BY <1>1 DEF ViewAt
<1> QED BY <1>4, <1>5, <1>6 DEF VInv

\* Transactions and fees create no money: the unspent outputs are never worth more
\* than the subsidies of the chain's blocks, whatever is connected and disconnected
\* (ConnectBlock's limit on the coinbase and CheckInputs' test of the values).
THEOREM NothingFromNothing ==
  ASSUME UniqueCoinbases, RewardPlusFees
  PROVE  Spec => []NoInflation
<1>1. LInv /\ VInv /\ [Next]_vars => VInv'
  <2> SUFFICES ASSUME LInv, VInv, [Next]_vars PROVE VInv'
    OBVIOUS
  <2>1. CASE \E vtx \in Candidates : Connect(vtx)
    BY <2>1, ValueConnect
  <2>2. CASE Disconnect
    BY <2>2, ValueDisconnect
  <2>3. CASE UNCHANGED vars
    BY <2>3 DEF vars, VInv, ViewAt
  <2> QED BY <2>1, <2>2, <2>3 DEF Next
<1>2. LInv /\ VInv => NoInflation
  <2> SUFFICES ASSUME LInv, VInv PROVE NoInflation
    OBVIOUS
  <2> DEFINE n == Len(chain)
  <2>1. n \in Nat /\ DOMAIN chain = 1..n
    BY WholeChain
  <2>2. n \in 0..n /\ ViewAt(chain, coins, n) = coins
    BY <2>1 DEF ViewAt
  <2>3. ValueIn(coins) <= Subsidies(n)
    BY <2>2 DEF VInv
  <2>4. UnspentValue = ValueIn(coins)
    BY DEF UnspentValue, ValueIn, Worths, Worth, Total
  <2>5. FoldFunctionOnSet(+, 0, [h \in DOMAIN chain |-> GetBlockValue(h, 0)], DOMAIN chain) = Subsidies(n)
    <3> HIDE DEF n
    <3> QED BY <2>1 DEF Subsidies, Total
  <2> QED BY <2>3, <2>4, <2>5 DEF NoInflation
<1> QED BY <1>1, <1>2, ValueInit, LedgerInductive, PTL DEF Spec

-----------------------------------------------------------------------------
(* The reward schedule of this coin.                                       *)

Reward == INSTANCE Subsidy WITH nHeight <- Len(chain)

\* A shifted amount is a natural number.
LEMMA ShiftNat ==
  ASSUME NEW x \in Nat, NEW n \in Nat
  PROVE  Reward!ShiftRight(x, n) \in Nat
<1> DEFINE Is(g) == g = [k \in 0..30 |-> IF k = 0 THEN x ELSE g[k - 1] \div 2]
           To(g, m) == g = [k \in 0..m |-> IF k = 0 THEN x ELSE g[k - 1] \div 2]
           Bad == {m \in Nat : ~\E g : To(g, m)}
<1>1. Bad = {}
  <2> SUFFICES ASSUME Bad # {} PROVE FALSE
    OBVIOUS
  <2>1. PICK m \in Bad : \A y \in Bad : m <= y
    <3> HIDE DEF To
    <3> QED BY Least
  <2>2. m # 0
    <3>1. To([k \in 0..0 |-> x], 0)
      OBVIOUS
    <3> HIDE DEF To
    <3> QED BY <3>1
  <2>3. PICK g : To(g, m - 1)
    <3> HIDE DEF To
    <3> QED BY <2>1, <2>2
  <2>4. To([k \in 0..m |-> IF k = m THEN g[m - 1] \div 2 ELSE g[k]], m)
    BY <2>2, <2>3
  <2> HIDE DEF To
  <2> QED BY <2>4
<1>2. PICK g : To(g, 30)
  <2> HIDE DEF To
  <2> QED BY <1>1
<1> DEFINE h == CHOOSE e : Is(e)
<1>3. Is(h)
  <2>1. Is(g)
    BY <1>2
  <2> HIDE DEF Is
  <2> QED BY <2>1
<1>4. \A k \in 0..30 : h[k] = IF k = 0 THEN x ELSE h[k - 1] \div 2
  <2> HIDE DEF h
  <2> QED BY <1>3
<1>5. \A k \in 0..30 : h[k] \in Nat
  <2> DEFINE Odd == {k \in 0..30 : h[k] \notin Nat}
  <2> HIDE DEF h
  <2> SUFFICES ASSUME Odd # {} PROVE FALSE
    OBVIOUS
  <2>1. Odd \in SUBSET Nat
    OBVIOUS
  <2>2. PICK k \in Odd : \A y \in Odd : k <= y
    BY <2>1, Least
  <2>3. k # 0 /\ k \in 0..30
    BY <1>4
  <2>4. k - 1 \in 0..30 /\ ~(k <= k - 1)
    BY <2>3
  <2>5. h[k - 1] \in Nat
    BY <2>2, <2>4
  <2>6. h[k] = h[k - 1] \div 2
    BY <2>3, <1>4
  <2> QED BY <2>5, <2>6
<1>6. Reward!ShiftRight(x, n) = IF n % 64 > 30 THEN 0 ELSE h[n % 64]
  BY DEF Reward!ShiftRight
<1>7. n % 64 > 30 \/ n % 64 \in 0..30
  OBVIOUS
<1> HIDE DEF h
<1> QED BY <1>5, <1>6, <1>7

\* GetBlockValue is such a reward.
LEMMA RewardSchedule ==
  ASSUME \A h, fees \in Nat : GetBlockValue(h, fees) = Reward!GetBlockValue(h, fees)
  PROVE  RewardPlusFees
<1> SUFFICES ASSUME NEW h \in Nat \ {0}, NEW fees \in Nat
             PROVE  /\ GetBlockValue(h, 0) \in Nat
                    /\ GetBlockValue(h, fees) \in {GetBlockValue(h, 0), GetBlockValue(h, 0) + fees}
  BY DEF RewardPlusFees
<1> DEFINE early == Reward!ShiftRight(Reward!nBlockRewardStartCoin, h \div 10)
           late == Reward!ShiftRight(Reward!nBlockRewardLastCoin, h \div 1440)
<1>1. early \in Nat /\ late \in Nat
  <2>1. h \div 10 \in Nat /\ h \div 1440 \in Nat
    BY SMT
  <2>2. Reward!nBlockRewardStartCoin \in Nat /\ Reward!nBlockRewardLastCoin \in Nat
    BY SMT DEF Reward!nBlockRewardStartCoin, Reward!nBlockRewardLastCoin
  <2> DEFINE first == Reward!nBlockRewardStartCoin
             last == Reward!nBlockRewardLastCoin
             tens == h \div 10
             days == h \div 1440
  <2>3. first \in Nat /\ last \in Nat /\ tens \in Nat /\ days \in Nat
    BY <2>1, <2>2
  <2> HIDE DEF first, last, tens, days
  <2>4. Reward!ShiftRight(first, tens) \in Nat /\ Reward!ShiftRight(last, days) \in Nat
    BY <2>3, ShiftNat
  <2> QED BY <2>4 DEF first, last, tens, days
<1>2. ASSUME NEW f \in Nat
      PROVE  GetBlockValue(h, f) =
               IF h < 100 THEN early
               ELSE IF h < 30000 \/ h % 30000 # 0 THEN f + (IF late < 5 THEN 5 ELSE late) ELSE f + 100
  BY SMT DEF Reward!GetBlockValue, Reward!nBlockRewardMinimumCoin, Reward!nBlockRewardFreedomForAllLastCoin
<1> HIDE DEF early, late
<1>3. 0 \in Nat
  OBVIOUS
<1> DEFINE base == IF h < 100 THEN early
                   ELSE IF h < 30000 \/ h % 30000 # 0 THEN (IF late < 5 THEN 5 ELSE late) ELSE 100
<1>4. base \in Nat /\ GetBlockValue(h, 0) = base
  BY <1>1, <1>2, <1>3, SMT
<1>5. GetBlockValue(h, fees) = base \/ GetBlockValue(h, fees) = base + fees
  BY <1>1, <1>2, SMT
<1> QED BY <1>4, <1>5
=============================================================================
