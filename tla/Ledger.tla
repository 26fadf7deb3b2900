------------------------------- MODULE Ledger -------------------------------
(***************************************************************************)
(* A coins view to which blocks are connected, and from which the tip is   *)
(* disconnected again, in any order that passes the checks: the state the  *)
(* ledger operators of Coins work on when SetBestChain extends a chain and *)
(* reorganises it (src/src/main.cpp).                                      *)
(***************************************************************************)
EXTENDS Coins

CONSTANTS Candidates,   \* the vtx of the blocks that may arrive
          MaxHeight,    \* bound on the height of the chain
          UniqueCoinbases \* no two blocks of a chain have the same coinbase

\* A transaction's hash identifies it.
ASSUME LedgerAssumption ==
  /\ MaxHeight \in Nat /\ UniqueCoinbases \in BOOLEAN /\ COINBASE_MATURITY \in Nat /\ IsFiniteSet(TxIds)
  /\ Candidates \subseteq Seq(Transaction)
  /\ \A vtx, other \in Candidates : \A i \in DOMAIN vtx, j \in DOMAIN other :
        vtx[i].hash = other[j].hash => vtx[i] = other[j]

VARIABLES coins,   \* the view
          chain    \* the connected blocks above genesis: [vtx, undo, before]

vars == <<coins, chain>>

Init == coins = EmptyView /\ chain = <<>>

\* Honest miners never repeat a coinbase (it holds the height and an extra
\* nonce); nothing in ConnectBlock requires it.
Fresh(vtx) == UniqueCoinbases => \A h \in DOMAIN chain : chain[h].vtx[1].hash # vtx[1].hash

\* A block that passes CheckBlock and ConnectBlock extends the chain; `before'
\* remembers the view it was connected to.
Connect(vtx) ==
  /\ Len(chain) < MaxHeight
  /\ Fresh(vtx) /\ CheckBlock(vtx)
  /\ LET res == ConnectBlock(coins, vtx, Len(chain) + 1)
     IN  /\ res.ok
         /\ coins' = res.view
         /\ chain' = Append(chain, [vtx |-> vtx, undo |-> res.undo, before |-> coins])

\* The tip is disconnected with its undo data.
Disconnect ==
  /\ chain # <<>>
  /\ LET tip == Last(chain)
         res == DisconnectBlock(coins, tip.vtx, tip.undo, Len(chain))
     IN  /\ coins' = res.view
         /\ chain' = Front(chain)

Next == (\E vtx \in Candidates : Connect(vtx)) \/ Disconnect

Spec == Init /\ [][Next]_vars

-----------------------------------------------------------------------------
(* Properties.                                                             *)

\* Positions of the transactions of the chain: <<height, index>>.
Positions == UNION {{<<h, i>> : i \in DOMAIN chain[h].vtx} : h \in DOMAIN chain}
TxAt(p) == chain[p[1]].vtx[p[2]]
Before(p, q) == p[1] < q[1] \/ (p[1] = q[1] /\ p[2] < q[2])
SpentBy(p) == IF TxAt(p).coinbase THEN {} ELSE Range(TxAt(p).vin)

\* Every view entry is NoCoins or has outputs left; undo has one entry per
\* spending transaction.
TypeOK == /\ DOMAIN coins = TxIds
          /\ \A h \in TxIds : coins[h] # NoCoins => DOMAIN coins[h].vout # {} /\ coins[h].nHeight \in 1..Len(chain)
          /\ \A h \in DOMAIN chain : Len(chain[h].undo) = Len(chain[h].vtx) - 1

\* An output with what the view must know of it.
Output(h, n, v, height, cb) == [hash |-> h, n |-> n, value |-> v, nHeight |-> height, fCoinBase |-> cb]
ViewOutputs == UNION {{Output(h, n, coins[h].vout[n], coins[h].nHeight, coins[h].fCoinBase) :
                         n \in DOMAIN coins[h].vout} : h \in TxIds}
ChainOutputs == UNION {{Output(TxAt(p).hash, n, TxAt(p).vout[n], p[1], TxAt(p).coinbase) :
                          n \in DOMAIN TxAt(p).vout} : p \in Positions}

\* Reference definition: the view holds exactly the outputs created in the chain
\* and not spent in it, with the height and kind of the creating transaction.
UtxoExact ==
  /\ TypeOK
  /\ ViewOutputs = {o \in ChainOutputs : \A p \in Positions :
                      [hash |-> o.hash, n |-> o.n] \notin SpentBy(p)}

\* No output is spent twice along the chain, and only outputs of an earlier
\* transaction are spent.
NoDoubleSpend ==
  /\ \A p, q \in Positions : p # q => SpentBy(p) \cap SpentBy(q) = {}
  /\ \A p \in Positions : \A in \in SpentBy(p) :
        \E q \in Positions : Before(q, p) /\ TxAt(q).hash = in.hash /\ in.n \in DOMAIN TxAt(q).vout

\* A coinbase output is spent COINBASE_MATURITY blocks after its block or later,
\* through any sequence of disconnections and reconnections.
CoinbaseMatures ==
  \A p, q \in Positions :
     TxAt(q).coinbase /\ (\E in \in SpentBy(p) : in.hash = TxAt(q).hash)
        => p[1] - q[1] >= COINBASE_MATURITY

\* The unspent outputs are worth no more than the subsidies of the chain.
UnspentValue == FoldFunctionOnSet(+, 0,
                  [h \in TxIds |-> FoldFunctionOnSet(+, 0, coins[h].vout, DOMAIN coins[h].vout)], TxIds)
NoInflation == UnspentValue <= FoldFunctionOnSet(+, 0, [h \in DOMAIN chain |-> GetBlockValue(h, 0)], DOMAIN chain)

\* DisconnectBlock is the exact inverse of ConnectBlock and finds nothing amiss
\* (fClean): from every reachable view the tip can be taken off again.
UndoRestores ==
  chain # <<>> => LET tip == Last(chain)
                      res == DisconnectBlock(coins, tip.vtx, tip.undo, Len(chain))
                  IN  res.clean /\ res.view = tip.before

\* "Do not allow blocks that contain transactions which 'overwrite' older
\* transactions, unless those are already completely spent."
NoOverwrite == [][\A vtx \in Candidates : Connect(vtx) =>
                     \A i \in DOMAIN vtx : coins[vtx[i].hash] = NoCoins]_vars
=============================================================================
