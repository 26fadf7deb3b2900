-------------------------- MODULE CoinsViewProofs ---------------------------
(***************************************************************************)
(* The stack of caches implements FlatCoins for any set of transactions,   *)
(* coins and blocks.  The proof compares, action by action, what each      *)
(* layer shows of every id before and after (Shown); the type invariant    *)
(* contributes that a closed view is empty, that the database holds no     *)
(* pruned entry and that a view knows its best block.                      *)
(***************************************************************************)
EXTENDS CoinsView, TLAPS

\* The type invariant is inductive: the database never receives a pruned entry.
THEOREM TypeCorrect == CVSpec => []CVTypeOK
<1> USE CoinsViewAssumption DEF TipBest
<1>1. CVInit => CVTypeOK
  BY DEF CVInit, CVTypeOK, Empty
<1>2. CVTypeOK /\ [CVNext]_cvVars => CVTypeOK'
  <2> SUFFICES ASSUME CVTypeOK, [CVNext]_cvVars PROVE CVTypeOK'
    OBVIOUS
  <2>1. ASSUME NEW h \in Hashes, ReadTip(h) PROVE CVTypeOK'
    BY <2>1 DEF ReadTip, CVTypeOK, Fetched, With, DbGet, Empty
  <2>2. ASSUME NEW h \in Hashes, ReadView(h) PROVE CVTypeOK'
    <3>1. /\ \A k \in DOMAIN tipCache' : k \in Hashes /\ tipCache'[k] \in Coins
          /\ \A k \in DOMAIN viewCache' : k \in Hashes /\ viewCache'[k] \in Coins
      BY <2>2 DEF ReadView, CVTypeOK, Fetched, With, DbGet, TipGet
    <3> QED BY <3>1, <2>2 DEF ReadView, CVTypeOK
  <2>3. ASSUME ReadTipBest PROVE CVTypeOK'
    BY <2>3 DEF ReadTipBest, CVTypeOK, Empty
  <2>4. ASSUME OpenView PROVE CVTypeOK'
    BY <2>4 DEF OpenView, CVTypeOK, Empty
  <2>5. ASSUME NEW h \in Hashes, NEW c \in Coins, SetCoins(h, c) PROVE CVTypeOK'
    BY <2>5 DEF SetCoins, CVTypeOK, With, Empty
  <2>6. ASSUME NEW h \in Hashes, NEW c \in Coins, SpendCoins(h, c) PROVE CVTypeOK'
    BY <2>6 DEF SpendCoins, CVTypeOK, Fetched, With, DbGet, Empty
  <2>7. ASSUME NEW b \in Blocks, SetBestBlock(b) PROVE CVTypeOK'
    BY <2>7 DEF SetBestBlock, CVTypeOK, Empty
  <2>8. ASSUME FlushView PROVE CVTypeOK'
    BY <2>8 DEF FlushView, BatchWrite, Merged, CVTypeOK, Empty
  <2>9. ASSUME DropView PROVE CVTypeOK'
    BY <2>9 DEF DropView, CVTypeOK, Empty
  <2>10. ASSUME FlushTip PROVE CVTypeOK'
    BY <2>10 DEF FlushTip, BatchWriteDB, TipGet, DbGet, CVTypeOK, Empty
  <2>11. ASSUME Crash PROVE CVTypeOK'
    BY <2>11 DEF Crash, CVTypeOK, Empty
  <2>12. ASSUME UNCHANGED cvVars PROVE CVTypeOK'
    BY <2>12 DEF cvVars, CVTypeOK, Empty
  <2> QED BY <2>1, <2>2, <2>3, <2>4, <2>5, <2>6, <2>7, <2>8, <2>9, <2>10, <2>11, <2>12 DEF CVNext
<1> QED BY <1>1, <1>2, PTL DEF CVSpec

-----------------------------------------------------------------------------
\* What the three layers show of an id.
Disk(h)    == AsCoins(DbGet(h))
Current(h) == AsCoins(TipGet(h))
Pending(h) == AsCoins(ViewGet(h))

\* Reading does not change what any layer shows.
LEMMA ReadsInvisible ==
  ASSUME CVTypeOK, NEW k \in Hashes, ReadTip(k) \/ ReadView(k)
  PROVE  /\ \A h \in Hashes : Disk(h)' = Disk(h) /\ Current(h)' = Current(h) /\ Pending(h)' = Pending(h)
         /\ dbBest' = dbBest /\ TipBest' = TipBest /\ ViewBest' = ViewBest
<1>1. CASE ReadTip(k)
  BY <1>1 DEF ReadTip, Disk, Current, Pending, AsCoins, ViewGet, TipGet, DbGet, Fetched, With, TipBest, ViewBest
<1>2. CASE ReadView(k)
  BY <1>2 DEF ReadView, Disk, Current, Pending, AsCoins, ViewGet, TipGet, DbGet, Fetched, With, TipBest, ViewBest
<1> QED BY <1>1, <1>2

\* pcoinsTip's view of the coins survives being written to the database.
LEMMA FlushTipInvisible ==
  ASSUME CVTypeOK, FlushTip
  PROVE  /\ \A h \in Hashes : Disk(h)' = Current(h) /\ Current(h)' = Current(h) /\ Pending(h)' = Pending(h)
         /\ dbBest' = TipBest /\ TipBest' = TipBest /\ ViewBest' = ViewBest
<1> USE CoinsViewAssumption
<1>1. DOMAIN tipCache' = {} /\ \A h \in Hashes : TipGet(h)' = DbGet(h)'
  BY DEF FlushTip, Empty, TipGet
<1>2. \A h \in Hashes : AsCoins(DbGet(h)') = AsCoins(TipGet(h))
  BY DEF FlushTip, BatchWriteDB, DbGet, TipGet, AsCoins, CVTypeOK
<1>3. \A h \in Hashes : AsCoins(ViewGet(h)') = AsCoins(ViewGet(h))
  BY <1>1, <1>2 DEF FlushTip, ViewGet, AsCoins
<1>4. dbBest' = TipBest /\ TipBest' = TipBest /\ ViewBest' = ViewBest
  BY DEF FlushTip, TipBest, ViewBest
<1> QED BY <1>1, <1>2, <1>3, <1>4 DEF Disk, Current, Pending, AsCoins

\* A flushed view becomes current as a whole.
LEMMA FlushViewCommits ==
  ASSUME CVTypeOK, FlushView
  PROVE  /\ \A h \in Hashes : Disk(h)' = Disk(h) /\ Current(h)' = Pending(h) /\ Pending(h)' = Pending(h)
         /\ dbBest' = dbBest /\ TipBest' = ViewBest /\ ViewBest' = ViewBest
<1>1. \A h \in Hashes : TipGet(h)' = ViewGet(h) /\ ViewGet(h)' = ViewGet(h) /\ DbGet(h)' = DbGet(h)
  BY DEF FlushView, BatchWrite, Merged, ViewGet, TipGet, DbGet, Empty
<1>2. dbBest' = dbBest /\ TipBest' = ViewBest /\ ViewBest' = ViewBest
  BY DEF FlushView, TipBest, ViewBest, CVTypeOK
<1> QED BY <1>1, <1>2 DEF Disk, Current, Pending, AsCoins

\* A dropped view leaves no trace, and neither does anything but the database
\* after a crash.
LEMMA DropsForget ==
  ASSUME CVTypeOK
  PROVE  /\ DropView => /\ \A h \in Hashes : /\ Disk(h)' = Disk(h)
                                            /\ Current(h)' = Current(h) /\ Pending(h)' = Current(h)
                        /\ dbBest' = dbBest /\ TipBest' = TipBest /\ ViewBest' = TipBest
         /\ Crash => /\ \A h \in Hashes : Disk(h)' = Disk(h) /\ Current(h)' = Disk(h) /\ Pending(h)' = Disk(h)
                     /\ dbBest' = dbBest /\ TipBest' = dbBest /\ ViewBest' = dbBest
BY DEF DropView, Crash, Disk, Current, Pending, AsCoins, ViewGet, TipGet, DbGet, Empty, TipBest, ViewBest

\* A change of the view is seen in the view, and only there.
LEMMA ChangesInView ==
  ASSUME CVTypeOK, NEW k \in Hashes, NEW c \in Coins, SetCoins(k, c) \/ SpendCoins(k, c)
  PROVE  /\ \A h \in Hashes : /\ Disk(h)' = Disk(h) /\ Current(h)' = Current(h)
                             /\ Pending(h)' = IF h = k THEN c ELSE Pending(h)
         /\ dbBest' = dbBest /\ TipBest' = TipBest /\ ViewBest' = ViewBest
<1> USE CoinsViewAssumption
<1>1. CASE SetCoins(k, c)
  BY <1>1 DEF SetCoins, Disk, Current, Pending, AsCoins, ViewGet, TipGet, DbGet, With, TipBest, ViewBest
<1>2. CASE SpendCoins(k, c)
  BY <1>2 DEF SpendCoins, Disk, Current, Pending, AsCoins, ViewGet, TipGet, DbGet, Fetched, With, TipBest, ViewBest
<1> QED BY <1>1, <1>2

\* The layered views implement the flat ones.
THEOREM ImplementsFlat == CVSpec => FlatSpec
<1> USE CoinsViewAssumption
<1> USE DEF Disk, Current, Pending
<1>1. CVInit => Flat!Init
  BY DEF CVInit, Flat!Init, Empty, DbGet, TipGet, ViewGet, AsCoins, TipBest, ViewBest
<1>2. CVTypeOK /\ [CVNext]_cvVars => [Flat!Next]_Flat!vars
  <2> SUFFICES ASSUME CVTypeOK, [CVNext]_cvVars PROVE [Flat!Next]_Flat!vars
    OBVIOUS
  <2>1. ASSUME NEW h \in Hashes, ReadTip(h) \/ ReadView(h) PROVE UNCHANGED Flat!vars
    BY <2>1, ReadsInvisible DEF Flat!vars
  <2>2. ASSUME ReadTipBest PROVE UNCHANGED Flat!vars
    <3>1. TipBest' = TipBest /\ ViewBest' = ViewBest
      BY <2>2 DEF ReadTipBest, TipBest, ViewBest
    <3> QED BY <3>1, <2>2 DEF ReadTipBest, Flat!vars, ViewGet, TipGet, DbGet, AsCoins
  <2>3. ASSUME OpenView PROVE UNCHANGED Flat!vars
    <3>1. viewBest = NoBlock
      BY <2>3 DEF OpenView, CVTypeOK
    <3>2. TipBest' = TipBest
      BY <2>3 DEF OpenView, TipBest
    <3>3. ViewBest' = ViewBest
      BY <2>3, <3>1, <3>2 DEF OpenView, ViewBest
    <3> QED BY <3>2, <3>3, <2>3 DEF OpenView, Flat!vars, ViewGet, TipGet, DbGet, AsCoins
  <2>4. ASSUME NEW h \in Hashes, NEW c \in Coins, SetCoins(h, c) \/ SpendCoins(h, c) PROVE Flat!Write(h, c)
    BY <2>4, ChangesInView DEF Flat!Write
  <2>5. ASSUME NEW b \in Blocks, SetBestBlock(b) PROVE Flat!SetBest(b)
    BY <2>5 DEF SetBestBlock, Flat!SetBest, TipBest, ViewBest, ViewGet, TipGet, DbGet, AsCoins
  <2>6. ASSUME FlushView PROVE Flat!Commit
    BY <2>6, FlushViewCommits DEF Flat!Commit
  <2>7. ASSUME DropView PROVE Flat!Discard
    BY <2>7, DropsForget DEF Flat!Discard
  <2>8. ASSUME FlushTip PROVE Flat!Save
    BY <2>8, FlushTipInvisible DEF Flat!Save
  <2>9. ASSUME Crash PROVE Flat!Crash
    BY <2>9, DropsForget DEF Flat!Crash
  <2>10. ASSUME UNCHANGED cvVars PROVE UNCHANGED Flat!vars
    BY <2>10 DEF cvVars, Flat!vars, TipBest, ViewBest, ViewGet, TipGet, DbGet, AsCoins
  <2> QED BY <2>1, <2>2, <2>3, <2>4, <2>5, <2>6, <2>7, <2>8, <2>9, <2>10 DEF CVNext, Flat!Next
<1> QED BY <1>1, <1>2, TypeCorrect, PTL DEF CVSpec, FlatSpec, Flat!Spec
=============================================================================
