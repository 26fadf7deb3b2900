----------------------------- MODULE CoinsView ------------------------------
(***************************************************************************)
(* The stack of coins views of src/src/main.cpp and src/src/txdb.cpp: the  *)
(* database CCoinsViewDB, the global cache pcoinsTip on top of it and the  *)
(* CCoinsViewCache that SetBestChain, CreateNewBlock, VerifyDB or accept   *)
(* put on top of that for the time of a call.                              *)
(*                                                                         *)
(* A cache is a function on the ids it holds.  A spent transaction stays   *)
(* in a cache as a pruned entry and is erased from the database, so that   *)
(* `spent' and `unknown' look different in one and alike in the other.     *)
(* All users hold cs_main.                                                 *)
(***************************************************************************)
CONSTANTS Hashes, Coins, Pruned, Blocks, NoBlock, NotFound

ASSUME CoinsViewAssumption == Pruned \in Coins /\ NotFound \notin Coins /\ NoBlock \notin Blocks

VARIABLES db, dbBest,          \* CCoinsViewDB: records `c' and record `B'
          tipCache, tipBest,   \* pcoinsTip: cacheCoins and pindexTip
          open,                \* a view on top of pcoinsTip exists
          viewCache, viewBest  \* its cacheCoins and pindexTip

cvVars == <<db, dbBest, tipCache, tipBest, open, viewCache, viewBest>>

\* std::map: nothing in it; with an entry set; with all entries of another set.
Empty == [h \in {} |-> Pruned]
With(map, h, c) == [k \in DOMAIN map \cup {h} |-> IF k = h THEN c ELSE map[k]]
Merged(map, over) == [k \in DOMAIN map \cup DOMAIN over |-> IF k \in DOMAIN over THEN over[k] ELSE map[k]]

CVInit == /\ db = Empty /\ dbBest = NoBlock
          /\ tipCache = Empty /\ tipBest = NoBlock
          /\ open = FALSE /\ viewCache = Empty /\ viewBest = NoBlock

-----------------------------------------------------------------------------
(* Reading.                                                                *)

DbGet(h)   == IF h \in DOMAIN db THEN db[h] ELSE NotFound
TipGet(h)  == IF h \in DOMAIN tipCache THEN tipCache[h] ELSE DbGet(h)
ViewGet(h) == IF h \in DOMAIN viewCache THEN viewCache[h] ELSE TipGet(h)

\* GetCoins and FetchCoins keep what the layer below has found.
Fetched(cache, h, c) == IF h \in DOMAIN cache \/ c = NotFound THEN cache ELSE With(cache, h, c)

\* GetBestBlock: NULL stands for `ask the layer below'.
TipBest  == IF tipBest = NoBlock THEN dbBest ELSE tipBest
ViewBest == IF viewBest = NoBlock THEN TipBest ELSE viewBest

\* pcoinsTip->GetCoins, HaveCoins.
ReadTip(h) == /\ tipCache' = Fetched(tipCache, h, DbGet(h))
              /\ UNCHANGED <<db, dbBest, tipBest, open, viewCache, viewBest>>

\* view.GetCoins, HaveCoins, HaveInputs.
ReadView(h) == /\ open
               /\ tipCache' = IF h \in DOMAIN viewCache THEN tipCache ELSE Fetched(tipCache, h, DbGet(h))
               /\ viewCache' = Fetched(viewCache, h, TipGet(h))
               /\ UNCHANGED <<db, dbBest, tipBest, open, viewBest>>

ReadTipBest == /\ tipBest' = TipBest
               /\ UNCHANGED <<db, dbBest, tipCache, open, viewCache, viewBest>>

-----------------------------------------------------------------------------
(* A view: opened, changed and flushed or dropped.                         *)

\* CCoinsViewCache view(*pcoinsTip, true), and GetBestBlock, which every user of
\* a view that is going to be flushed calls first.
OpenView == /\ ~open /\ open' = TRUE
            /\ tipBest' = TipBest /\ viewBest' = TipBest
            /\ UNCHANGED <<db, dbBest, tipCache, viewCache>>

\* SetCoins: the outputs of a new transaction, or restored ones.
SetCoins(h, c) == /\ open
                  /\ viewCache' = With(viewCache, h, c)
                  /\ UNCHANGED <<db, dbBest, tipCache, tipBest, open, viewBest>>

\* Spend through the reference GetCoins(txid) returns (`Check HaveCoins first').
SpendCoins(h, c) == /\ open /\ ViewGet(h) # NotFound
                    /\ tipCache' = IF h \in DOMAIN viewCache THEN tipCache ELSE Fetched(tipCache, h, DbGet(h))
                    /\ viewCache' = With(viewCache, h, c)
                    /\ UNCHANGED <<db, dbBest, tipBest, open, viewBest>>

\* SetBestBlock of a block: SetBestChain never disconnects the genesis block.
SetBestBlock(b) == /\ open
                   /\ viewBest' = b
                   /\ UNCHANGED <<db, dbBest, tipCache, tipBest, open, viewCache>>

\* CCoinsViewCache::BatchWrite keeps pruned entries: they hide what the database
\* still has.
BatchWriteBug == [k \in DOMAIN tipCache \cup {h \in DOMAIN viewCache : viewCache[h] # Pruned} |->
                    IF k \in DOMAIN viewCache THEN viewCache[k] ELSE tipCache[k]]
BatchWrite == Merged(tipCache, viewCache)

FlushView == /\ open
             /\ tipCache' = BatchWrite /\ tipBest' = viewBest
             /\ open' = FALSE /\ viewCache' = Empty /\ viewBest' = NoBlock
             /\ UNCHANGED <<db, dbBest>>

DropView == /\ open
            /\ open' = FALSE /\ viewCache' = Empty /\ viewBest' = NoBlock
            /\ UNCHANGED <<db, dbBest, tipCache, tipBest>>

-----------------------------------------------------------------------------
(* The database.                                                           *)

\* CCoinsViewDB::BatchWrite, one atomic LevelDB batch: pruned entries are erased.
BatchWriteDB == [h \in {k \in DOMAIN db \cup DOMAIN tipCache : TipGet(k) # Pruned} |-> TipGet(h)]

\* pcoinsTip->Flush(); a write that fails changes nothing.
FlushTip == /\ db' = BatchWriteDB /\ dbBest' = TipBest
            /\ tipCache' = Empty
            /\ UNCHANGED <<tipBest, open, viewCache, viewBest>>

\* The process ends without a flush.
Crash == /\ tipCache' = Empty /\ tipBest' = NoBlock
         /\ open' = FALSE /\ viewCache' = Empty /\ viewBest' = NoBlock
         /\ UNCHANGED <<db, dbBest>>

CVNext == \/ \E h \in Hashes : ReadTip(h) \/ ReadView(h)
          \/ ReadTipBest
          \/ OpenView
          \/ \E h \in Hashes, c \in Coins : SetCoins(h, c) \/ SpendCoins(h, c)
          \/ \E b \in Blocks : SetBestBlock(b)
          \/ FlushView \/ DropView \/ FlushTip \/ Crash

CVSpec == CVInit /\ [][CVNext]_cvVars

-----------------------------------------------------------------------------
(* Properties.                                                             *)

\* Types; the database holds no pruned entry; an open view knows its best
\* block if pcoinsTip does.
CVTypeOK == /\ DOMAIN db \subseteq Hashes /\ DOMAIN tipCache \subseteq Hashes /\ DOMAIN viewCache \subseteq Hashes
            /\ \A h \in DOMAIN db : db[h] \in Coins \ {Pruned}
            /\ \A h \in DOMAIN tipCache : tipCache[h] \in Coins
            /\ \A h \in DOMAIN viewCache : viewCache[h] \in Coins
            /\ {dbBest, tipBest, viewBest} \subseteq Blocks \cup {NoBlock}
            /\ open \in BOOLEAN
            /\ ~open => viewCache = Empty /\ viewBest = NoBlock
            /\ open /\ viewBest = NoBlock => TipBest = NoBlock

\* The stack behaves like three plain sets of coins: nothing a cache keeps,
\* fetches, hides or forgets is ever seen, a view is all or nothing, and the
\* coins and the best block on disk always belong together.
AsCoins(c) == IF c = NotFound THEN Pruned ELSE c
Flat == INSTANCE FlatCoins WITH TxIds <- Hashes,
          disk <- [h \in Hashes |-> AsCoins(DbGet(h))], diskBest <- dbBest,
          current <- [h \in Hashes |-> AsCoins(TipGet(h))], currentBest <- TipBest,
          pending <- [h \in Hashes |-> AsCoins(ViewGet(h))], pendingBest <- ViewBest
FlatSpec == Flat!Spec
=============================================================================
