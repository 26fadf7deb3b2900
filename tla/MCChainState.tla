---------------------------- MODULE MCChainState ----------------------------
(* Instance of ChainState for TLC: the blocks                              *)
(*                                                                         *)
(*     G 1 -- a1 3 -- r2           G 1 -- b1 2 -- x2 5 -- x3 6             *)
(*                                           \--- c2 4                     *)
(*                                                                         *)
(* with their total work.  x2 does not connect; c2 takes two outputs of    *)
(* b1.  A reorganisation from a1 to c2 connects two blocks, one to x2      *)
(* fails in the middle.  The coins are those of module Coins.              *)
(* TLC computes a constant definition once, except one that the .cfg file  *)
(* substitutes for a constant: hence the second names, MC...               *)
EXTENDS ChainState, SequencesExt

CONSTANTS G, a1, r2, b1, x2, x3, c2, none

Tree == {G, a1, r2, b1, x2, x3, c2}
Parent == [b \in Tree |-> CASE b = G -> none [] b \in {a1, b1} -> G [] b = r2 -> a1
                            [] b \in {x2, c2} -> b1 [] b = x3 -> x2]
Branch[b \in Tree \cup {none}] == IF b = none THEN {} ELSE Branch[Parent[b]] \cup {b}
Branches == [b \in Tree \cup {none} |-> Branch[b]]
Height(b) == Cardinality(Branch[b]) - 1
Weight(b) == CASE b = x2 -> 3 [] b \in {a1, c2} -> 2 [] OTHER -> 1
TotalWork[b \in Tree \cup {none}] == IF b = none THEN 0 ELSE TotalWork[Parent[b]] + Weight(b)
Work == [b \in Tree \cup {none} |-> TotalWork[b]]

\* c2 spends both outputs of b1's coinbase, x2 one of another branch.
tx(h, i, v) == [hash |-> h, coinbase |-> FALSE, vin |-> i, vout |-> v]
coinbase(b) == [hash |-> b, coinbase |-> TRUE, vin |-> <<[hash |-> b, n |-> 0]>>, vout |-> <<1, 1>>]
vtx(b) == <<coinbase(b)>> \o
          CASE b = c2 -> <<tx("join", <<[hash |-> b1, n |-> 2], [hash |-> b1, n |-> 1]>>, <<2>>)>>
            [] b = x2 -> <<tx("bad", <<[hash |-> a1, n |-> 1]>>, <<1>>)>>
            [] OTHER  -> <<>>
MCTxIds == Tree \cup {"join", "bad"}
BlockValue(h, fees) == 2

INSTANCE Coins WITH TxIds <- MCTxIds, COINBASE_MATURITY <- 1, MAX_MONEY <- 20,
                    GetBlockValue <- BlockValue

Replayed[b \in Tree \cup {none}] ==
  IF b \in {none, G} THEN EmptyView ELSE ConnectBlock(Replayed[Parent[b]], vtx(b), Height(b)).view
Coinbook == [b \in Tree \cup {none} |-> Replayed[b]]

\* What ConnectBlock does on top of the parent.
Extended == [b \in Tree \ {G} |-> ConnectBlock(Coinbook[Parent[b]], vtx(b), Height(b))]
Connect(b, c) == IF c = Coinbook[Parent[b]] THEN Extended[b] ELSE ConnectBlock(c, vtx(b), Height(b))

Undone == [b \in Tree \ {G} |-> Extended[b].undo]
Connecting == {b \in Tree : b = G \/ Extended[b].ok}

MCPrev == Parent
MCChain == Branches
MCChainWork == Work
MCCoinsAt == Coinbook
MCUndoAt == Undone
MCGood == Connecting
MCConnects(b, c) == Connect(b, c).ok
MCConnectedCoins(b, c) == Connect(b, c).view
MCUndoOf(b, c) == Connect(b, c).undo
MCDisconnectedCoins(b, c, u) == DisconnectBlock(c, vtx(b), u, Height(b)).view
=============================================================================
