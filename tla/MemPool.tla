------------------------------ MODULE MemPool -------------------------------
(***************************************************************************)
(* CTxMemPool of src/src/main.cpp: accept, addUnchecked, remove and        *)
(* removeConflicts, with the callers that change the pool: transactions    *)
(* from peers and RPC, SetBestChain (which resurrects the transactions of  *)
(* the disconnected branch and deletes those of the connected one) and the *)
(* wallet's ReacceptWalletTransactions; and CreateNewBlock, which turns    *)
(* the pool into a block.                                                  *)
(*                                                                         *)
(* The chain is a path in a tree of blocks that connect (ChainState says   *)
(* how it is chosen); CoinsAt gives its coins.  All callers hold cs_main,  *)
(* or run one at a time during start-up.  SetBestChain's two loops and the *)
(* wallet's are taken one transaction at a time.                           *)
(***************************************************************************)
EXTENDS Coins

CONSTANTS Tx,           \* [TxIds -> transaction]
          Blocks, Genesis,
          Block,        \* [Blocks -> sequence of transaction ids]
          Height, nChainWork,  \* [Blocks -> height], [Blocks -> total work]
          Path,         \* [Blocks -> sequence of blocks, from Genesis]
          CoinsAt,      \* [Blocks -> coins of the chain that ends there]
          NonStandard,  \* transactions that are only taken in blocks
          nTotalBlocksEstimate,  \* height of the last checkpoint
          WalletTxs,    \* unconfirmed transactions that the wallet file holds
          vtxPrev       \* [WalletTxs -> sequence of their supporting transactions]

ASSUME PoolAssumption ==
  /\ Genesis \in Blocks /\ Height \in [Blocks -> Nat] /\ nChainWork \in [Blocks -> Nat]
  /\ Tx \in [TxIds -> Transaction] /\ Block \in [Blocks -> Seq(TxIds) \ {<<>>}]
  /\ WalletTxs \subseteq TxIds /\ vtxPrev \in [WalletTxs -> Seq(TxIds)]
  /\ \A b \in Blocks \ {Genesis} :
        LET vtx == [i \in DOMAIN Block[b] |-> Tx[Block[b][i]]]
            res == ConnectBlock(CoinsAt[Path[b][Len(Path[b]) - 1]], vtx, Height[b])
        IN  res.ok /\ res.view = CoinsAt[b]

\* The blocks are a tree and work only grows along a chain.
ASSUME PathAssumption ==
  /\ Path \in [Blocks -> Seq(Blocks) \ {<<>>}]
  /\ \A b \in Blocks : /\ Path[b][1] = Genesis /\ Path[b][Len(Path[b])] = b
                       /\ \A i \in DOMAIN Path[b] : /\ Path[Path[b][i]] = SubSeq(Path[b], 1, i)
                                                    /\ nChainWork[Path[b][i]] <= nChainWork[b]

Inputs(t) == IF Tx[t].coinbase THEN {} ELSE Range(Tx[t].vin)
InChain(b) == UNION {Range(Block[c]) : c \in Range(Path[b])}
SpentInChain(b) == UNION {Inputs(t) : t \in InChain(b)}

\* What the rules of the ledger make of every chain of blocks that connect (Ledger's
\* UtxoExact and NoDoubleSpend, which LedgerProofs derives for unique coinbases):
\* a transaction is in it once and after those it spends from, no output is spent
\* twice and the coins hold none that is spent.
ASSUME ChainAssumption ==
  \A b \in Blocks :
     /\ \A i, k \in DOMAIN Path[b] : \A j \in DOMAIN Block[Path[b][i]] : \A l \in DOMAIN Block[Path[b][k]] :
           Block[Path[b][i]][j] = Block[Path[b][k]][l] => i = k /\ j = l
     /\ \A i \in DOMAIN Path[b] : \A j \in DOMAIN Block[Path[b][i]] : \A o \in Inputs(Block[Path[b][i]][j]) :
           \E k \in 1..i : \E l \in DOMAIN Block[Path[b][k]] :
              Block[Path[b][k]][l] = o.hash /\ (k < i \/ l < j)
     /\ \A t, u \in InChain(b) : t # u => Inputs(t) \cap Inputs(u) = {}
     /\ \A o \in SpentInChain(b) : ~IsAvailable(CoinsAt[b][o.hash], o.n)

\* What an entry of the coins holds.
IsCoins(c) == c \in [fCoinBase : BOOLEAN, nHeight : Nat, vout : [DOMAIN c.vout -> Nat]]

\* A hash identifies its transaction, there are finitely many, and a block template's
\* coinbase is a new one; the coins are those of transactions of the chain.
ASSUME CoinsAssumption ==
  /\ IsFiniteSet(TxIds) /\ "coinbase" \notin TxIds /\ \A t \in TxIds : Tx[t].hash = t
  /\ \A b \in Blocks : /\ CoinsAt[b] = [h \in TxIds |-> CoinsAt[b][h]]
                       /\ \A h \in TxIds : /\ IsCoins(CoinsAt[b][h])
                                           /\ CoinsAt[b][h] # NoCoins => h \in InChain(b)

VARIABLES tip,        \* the best block
          spentCache, \* ids that pcoinsTip's cache holds as spent (not yet written)
          mapTx,      \* ids of the transactions in the pool
          mapNextTx,  \* [outpoint -> the transaction of the pool that spends it]
          pc,         \* "idle", or the loop that runs
          vAccept, vDelete  \* what the loop has left to do

vars == <<tip, spentCache, mapTx, mapNextTx, pc, vAccept, vDelete>>

coins == CoinsAt[tip]

Init == /\ tip = Genesis /\ spentCache = {}
        /\ mapTx = {} /\ mapNextTx = <<>>
        /\ pc = "idle" /\ vAccept = <<>> /\ vDelete = <<>>

-----------------------------------------------------------------------------
(* Accepting a transaction.                                                *)

\* pcoinsTip->HaveCoins: also true of a spent entry that is still cached.
HaveCoins(h) == coins[h] # NoCoins \/ h \in spentCache

\* CCoinsViewMemPool, which `does not check for spendings by memory pool
\* transactions'; pool outputs have a height of their own, MEMPOOL_HEIGHT.
MEMPOOL_HEIGHT == 2147483647
ViewMemPool == [h \in TxIds |-> IF ~HaveCoins(h) /\ h \in mapTx THEN CCoins(Tx[h], MEMPOOL_HEIGHT)
                                ELSE coins[h]]

\* What accept asks of the transaction alone.
LooseBug(t) == t \notin NonStandard
Loose(t) == ~Tx[t].coinbase /\ t \notin NonStandard

\* accept with fCheckInputs = false ...
AcceptsUnchecked(t) == /\ CheckTransaction(Tx[t]) /\ Loose(t)
                       /\ t \notin mapTx
                       /\ Inputs(t) \cap DOMAIN mapNextTx = {}

\* ... and with the inputs checked.  Fees and the rate limit for free
\* transactions may refuse more.
Accepts(t) == /\ AcceptsUnchecked(t)
              /\ ~HaveCoins(t)
              /\ CheckInputs(ViewMemPool, Tx[t], Height[tip] + 1)

addUnchecked(t) ==
  /\ mapTx' = mapTx \cup {t}
  /\ mapNextTx' = [o \in DOMAIN mapNextTx \cup Inputs(t) |->
                     IF o \in Inputs(t) THEN t ELSE mapNextTx[o]]

\* A transaction from a peer, from RPC or just made by the wallet.
AcceptToMemoryPool(t) == /\ pc = "idle" /\ Accepts(t)
                         /\ addUnchecked(t)
                         /\ UNCHANGED <<tip, spentCache, pc, vAccept, vDelete>>

\* The next one of a loop, if it is accepted.
AcceptNext(fTaken) == /\ vAccept' = Tail(vAccept)
                      /\ IF fTaken THEN addUnchecked(Head(vAccept)) ELSE UNCHANGED <<mapTx, mapNextTx>>

-----------------------------------------------------------------------------
(* SetBestChain.                                                           *)

\* The height at which b's chain leaves c's, and its blocks above it, lowest first.
Fork(b, c) == CHOOSE n \in DOMAIN Path[b] :
                 /\ Path[b][n] \in Range(Path[c])
                 /\ \A m \in DOMAIN Path[b] : m > n => Path[b][m] \notin Range(Path[c])
Above(b, c) == SubSeq(Path[b], Fork(b, c) + 1, Len(Path[b]))

\* vResurrect: tip first, the transactions of one block in its order.
vResurrect(b) ==
  LET old == Reverse(Above(tip, b))
      kept(x, t) == IF ~Tx[t].coinbase /\ Height[x] > nTotalBlocksEstimate THEN <<t>> ELSE <<>>
  IN  FlattenSeq([i \in DOMAIN old |->
        FlattenSeq([j \in DOMAIN Block[old[i]] |-> kept(old[i], Block[old[i]][j])])])

\* Entries the temporary view leaves in pcoinsTip: what it has touched ...
Touched(b) == UNION ({Range(Block[x]) : x \in Range(Above(tip, b))}
                     \cup {{in.hash : in \in UNION {Inputs(t) : t \in Range(Block[x])}} :
                             x \in Range(Above(b, tip))})

\* ... and is spent now; nothing once the cache is written (fFlush).  ConnectBestBlock
\* attaches the lowest block with more work than the best one first.
SetBestChain(b, fFlush) ==
  /\ pc = "idle"
  /\ \A x \in Range(Path[b]) : nChainWork[x] > nChainWork[tip] <=> x = b
  /\ tip' = b
  /\ spentCache' = IF fFlush THEN {}
                   ELSE {h \in spentCache \cup Touched(b) : CoinsAt[b][h] = NoCoins}
  /\ vAccept' = vResurrect(b)
  /\ vDelete' = LET new == Above(b, tip) IN FlattenSeq([i \in DOMAIN new |-> Block[new[i]]])
  /\ pc' = "resurrect"
  /\ UNCHANGED <<mapTx, mapNextTx>>

Resurrect == /\ pc = "resurrect" /\ vAccept # <<>>
             /\ AcceptNext(Accepts(Head(vAccept)))
             /\ UNCHANGED <<tip, spentCache, pc, vDelete>>

\* The transactions of S in the pool, those that spend an output of them, and so
\* on: the least set that holds S and is closed.
Spenders(T) == {t \in mapTx : \E in \in Inputs(t) : in.hash \in T}
WithDescendants(S) == {t \in mapTx : \A T \in SUBSET mapTx :
                          S \cap mapTx \subseteq T /\ Spenders(T) \subseteq T => t \in T}

\* remove(tx), not recursive: its descendants now have a parent in the chain.
RemovedBug(t) == WithDescendants({t})
Removed(t) == {t} \cap mapTx

\* removeConflicts(tx): recursive.
ConflictsBug(t) == {}
Conflicts(t) == WithDescendants({mapNextTx[o] : o \in Inputs(t) \cap DOMAIN mapNextTx} \ {t})

\* mapNextTx without the inputs of S.
UnindexBug(S) == [o \in {x \in DOMAIN mapNextTx : x.hash \notin S} |-> mapNextTx[o]]
Unindex(S) == [o \in DOMAIN mapNextTx \ UNION {Inputs(t) : t \in S} |-> mapNextTx[o]]

\* One transaction of vDelete.
Delete ==
  /\ pc = "resurrect" /\ vAccept = <<>>
  /\ LET S == Removed(Head(vDelete)) \cup Conflicts(Head(vDelete))
     IN  mapTx' = mapTx \ S /\ mapNextTx' = Unindex(S)
  /\ vDelete' = Tail(vDelete)
  /\ pc' = IF Len(vDelete) = 1 THEN "idle" ELSE "resurrect"
  /\ UNCHANGED <<tip, spentCache, vAccept>>

-----------------------------------------------------------------------------
(* The wallet puts its unconfirmed transactions back, at start-up and after *)
(* importprivkey; AcceptWalletTransaction(false).                           *)

Reaccept(w) == /\ pc = "idle" /\ w \notin InChain(tip) /\ ~HaveCoins(w) /\ ~Tx[w].coinbase
               /\ pc' = "reaccept" /\ vAccept' = Append(vtxPrev[w], w)
               /\ UNCHANGED <<tip, spentCache, mapTx, mapNextTx, vDelete>>

\* A supporting transaction is taken if the *chain* has coins of it.
ReacceptNext ==
  /\ pc = "reaccept"
  /\ LET t == Head(vAccept)
         tried == Len(vAccept) = 1 \/ (~Tx[t].coinbase /\ t \notin mapTx /\ HaveCoins(t))
     IN  AcceptNext(tried /\ AcceptsUnchecked(t))
  /\ pc' = IF Len(vAccept) = 1 THEN "idle" ELSE "reaccept"
  /\ UNCHANGED <<tip, spentCache, vDelete>>

\* The pool is not kept when the node stops.
Restart == /\ pc = "idle" /\ mapTx # {}
           /\ mapTx' = {} /\ mapNextTx' = <<>> /\ spentCache' = {}
           /\ UNCHANGED <<tip, pc, vAccept, vDelete>>

Next == \/ \E t \in TxIds : AcceptToMemoryPool(t)
        \/ \E b \in Blocks, fFlush \in BOOLEAN : SetBestChain(b, fFlush)
        \/ Resurrect \/ Delete
        \/ \E w \in WalletTxs : Reaccept(w)
        \/ ReacceptNext
        \/ Restart

Spec == Init /\ [][Next]_vars

-----------------------------------------------------------------------------
(* CreateNewBlock, which only reads.                                       *)

\* The parents a transaction has to wait for.  If one of them is not in the pool either,
\* the transaction is left out: `This should never happen', and with -debug the node
\* stops.
DependsOn(t) == {h \in {in.hash : in \in Inputs(t)} : ~HaveCoins(h)}
MissingInputs(t) == ~(DependsOn(t) \subseteq mapTx)

\* The parents that mapDependers has for it: its inputs are looked at in their order, up
\* to one that is missing.
Recorded(t) == {Tx[t].vin[k].hash : k \in {k \in DOMAIN Tx[t].vin :
                   \A l \in 1..k : HaveCoins(Tx[t].vin[l].hash) \/ Tx[t].vin[l].hash \in mapTx}}
               \cap DependsOn(t)

\* A COrphan is then taken off vOrphan while mapDependers still points to it.
Dangling == {t \in mapTx : MissingInputs(t) /\ Recorded(t) # {}}

\* The checks before a transaction is added to the block.
TakesBug(view, t) == HaveInputs(view, Tx[t])
Takes(view, t) == HaveInputs(view, Tx[t]) /\ CheckInputs(view, Tx[t], Height[tip] + 1)

\* The first transaction of S to come off the priority queue.
First(order, S) == order[CHOOSE i \in DOMAIN order : order[i] \in S /\ \A j \in 1..i - 1 : order[j] \notin S]

\* Those that waited for t alone.  Where mapDependers points to a COrphan that is gone, its
\* memory may read as it did (`stray') or hold the COrphan of a later transaction, from
\* which t is then erased a second time; or the node crashes and makes no block.
Woken(t, done, stray) == {u \in mapTx : /\ MissingInputs(u) => u \in stray
                                        /\ t \in Recorded(u) /\ Recorded(u) \subseteq done}

\* One turn of the loop; transactions that are not in `fit' are skipped by the size and
\* fee limits.
Collect(made, order, fit, stray) ==
  IF made.queue = {} THEN made
  ELSE LET t == First(order, made.queue)
           rest == made.queue \ {t}
           done == made.done \cup {t}
       IN  IF t \in fit /\ Takes(made.view, t)
           THEN [view |-> UpdateCoins(made.view, Tx[t], Height[tip] + 1).view,
                 vtx |-> Append(made.vtx, Tx[t]),
                 nFees |-> made.nFees + (GetValueIn(made.view, Tx[t]) - GetValueOut(Tx[t])),
                 done |-> done, queue |-> rest \cup Woken(t, done, stray)]
           ELSE [made EXCEPT !.queue = rest]

\* The block made when transactions come off the priority queue in the given order.  An
\* entry of the coins that is spent and cached counts as there, and reading its output
\* crashes or gives a value that only matters to the order.
Template(order, fit, stray) ==
  LET start == [view |-> coins, vtx |-> <<>>, nFees |-> 0,
                done |-> {}, queue |-> {t \in mapTx : DependsOn(t) = {}}]
      made[n \in 0..Cardinality(mapTx)] == IF n = 0 THEN start ELSE Collect(made[n - 1], order, fit, stray)
  IN  made[Cardinality(mapTx)]

\* Its coinbase takes all the fees.
Coinbase(nFees) == [hash |-> "coinbase", coinbase |-> TRUE, vin |-> <<[hash |-> "coinbase", n |-> 0]>>,
                    vout |-> <<GetBlockValue(Height[tip] + 1, nFees)>>]

\* The new view of pcoinsTip that the block is tried on.
viewNew == [h \in TxIds \cup {"coinbase"} |-> IF h \in TxIds THEN coins[h] ELSE NoCoins]

-----------------------------------------------------------------------------
(* Properties.                                                             *)

\* Types; no coinbase is ever loose.
TypeOK == /\ tip \in Blocks /\ spentCache \in SUBSET TxIds /\ mapTx \in SUBSET TxIds
          /\ mapNextTx = [o \in DOMAIN mapNextTx |-> mapNextTx[o]]
          /\ pc \in {"idle", "resurrect", "reaccept"}
          /\ vAccept \in Seq(TxIds) /\ vDelete \in Seq(TxIds)
          /\ \A t \in mapTx : ~Tx[t].coinbase

\* mapNextTx is exactly the index of the pool's inputs, so that no two pool
\* transactions spend the same output: accept, resurrection, recursive removal
\* and the wallet keep the two maps together.
NextTxExact == /\ \A t \in mapTx : \A in \in Inputs(t) : in \in DOMAIN mapNextTx /\ mapNextTx[in] = t
               /\ \A o \in DOMAIN mapNextTx : mapNextTx[o] \in mapTx /\ o \in Inputs(mapNextTx[o])

\* The wallet puts its own transactions and those that support them into the pool
\* without a look at their inputs.
Unchecked == WalletTxs \cup UNION {Range(vtxPrev[w]) : w \in WalletTxs}

\* After every reorganisation, a pool transaction that does not hang on one of the
\* wallet's is not in the chain and spends nothing that the chain has spent.
\* (One that does may: the wallet can put a transaction of the chain into the pool, and
\* once all its outputs are spent the pool's view shows them as unspent again.)
NoChainConflict == pc = "idle" =>
  \A t \in mapTx \ WithDescendants(Unchecked) :
     t \notin InChain(tip) /\ Inputs(t) \cap SpentInChain(tip) = {}

\* CreateNewBlock's last test never fails if it comes so far: whatever is in the pool,
\* transactions with missing or spent inputs too, in whatever order and number its
\* transactions are taken, and whatever the COrphans that are gone read as, with a coinbase
\* that takes the whole reward they form a block that ConnectBlock accepts and that
\* overwrites no transaction.
TemplateConnects == pc = "idle" =>
  \A order \in SetToSeqs(mapTx) : \A fit \in SUBSET mapTx : \A stray \in SUBSET Dangling :
     LET made == Template(order, fit, stray)
     IN  /\ ConnectBlock(viewNew, <<Coinbase(made.nFees)>> \o made.vtx, Height[tip] + 1).ok
         /\ \A i \in DOMAIN made.vtx : coins[made.vtx[i].hash] = NoCoins

\* `All transactions in the memory pool should connect to either transactions in the chain
\* or other transactions in the memory pool', says CreateNewBlock, and asserts it with
\* -debug; here of those whose inputs accept has checked, with all their ancestors.
PoolConnects == pc = "idle" => \A t \in mapTx \ WithDescendants(Unchecked) : ~MissingInputs(t)

\* Transactions leave the pool only for a reason: they are in the chain, or
\* they or a pool ancestor of theirs spend what the chain has spent.
LeavesForCause ==
  [][pc = "resurrect" => \A t \in mapTx \ mapTx' :
        \/ t \in InChain(tip)
        \/ \E c \in mapTx \ InChain(tip) :
              Inputs(c) \cap SpentInChain(tip) # {} /\ t \in WithDescendants({c})]_vars
=============================================================================
