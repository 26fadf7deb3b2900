------------------------------ MODULE MCMemPool -----------------------------
(* Instance of MemPool for TLC: a tree of blocks, each with its coinbase   *)
(*                                                                         *)
(*   o -- g -- h -- i -- a1 [pay] -- a2 [chg] --- a3 [sweep]               *)
(*                   \-- b1 [odd] -- b2 [rival] - b3 -- b4 [own]           *)
(*                   \-- d1 [pay] -- d2 --------- d3                       *)
(*                                                                         *)
(* d1 has the work of four blocks, so that its chain is shorter than those *)
(* it replaces; every other block has the work of one.                     *)
EXTENDS MemPool

CONSTANTS o, g, h, i, a1, a2, a3, b1, b2, b3, b4, d1, d2, d3,
          pay, chg, rival, cbspend, two, own, odd, sweep, late

MCBlocks == {o, g, h, i, a1, a2, a3, b1, b2, b3, b4, d1, d2, d3}
Loosen == {pay, chg, rival, cbspend, two, own, odd, sweep, late}
MCTxIds == MCBlocks \cup Loosen

in(t, k) == [hash |-> t, n |-> k]
tx(t, ins, v) == [hash |-> t, coinbase |-> FALSE, vin |-> ins, vout |-> v]
coinbase(t) == [hash |-> t, coinbase |-> TRUE, vin |-> <<in(t, 0)>>, vout |-> <<2, 2>>]

\* pay and rival spend the same output of g, chg spends the output of pay;
\* cbspend the coinbase of a1, own that of i, which is not mature at once; two the
\* outputs of chg and of own.  odd is only taken in a block.  sweep spends all of chg and
\* late one output of it; the coinbase of o, the genesis block, is not in the coins.
MCTx == [t \in MCTxIds |->
  CASE t = pay     -> tx(pay, <<in(g, 1)>>, <<2>>)
    [] t = chg     -> tx(chg, <<in(pay, 1)>>, <<1, 1>>)
    [] t = rival   -> tx(rival, <<in(g, 1)>>, <<1>>)
    [] t = cbspend -> tx(cbspend, <<in(a1, 1)>>, <<2>>)
    [] t = own     -> tx(own, <<in(i, 1)>>, <<1, 1>>)
    [] t = odd     -> tx(odd, <<in(g, 2)>>, <<2>>)
    [] t = two     -> tx(two, <<in(own, 1), in(chg, 1)>>, <<2>>)
    [] t = sweep   -> tx(sweep, <<in(chg, 1), in(chg, 2)>>, <<2>>)
    [] t = late    -> tx(late, <<in(chg, 2)>>, <<1>>)
    [] OTHER       -> coinbase(t)]

MCBlock == [b \in MCBlocks |-> CASE b \in {a1, d1} -> <<b, pay>> [] b = a2 -> <<b, chg>> [] b = a3 -> <<b, sweep>>
                                 [] b = b1 -> <<b, odd>> [] b = b2 -> <<b, rival>> [] b = b4 -> <<b, own>> [] OTHER -> <<b>>]
Stem == <<o, g, h, i>>
MCPath == [b \in MCBlocks |->
  CASE b = o -> <<o>> [] b = g -> <<o, g>> [] b = h -> <<o, g, h>> [] b = i -> Stem
    [] b = a1 -> Stem \o <<a1>> [] b = a2 -> Stem \o <<a1, a2>> [] b = a3 -> Stem \o <<a1, a2, a3>>
    [] b = b1 -> Stem \o <<b1>> [] b = b2 -> Stem \o <<b1, b2>> [] b = b3 -> Stem \o <<b1, b2, b3>>
    [] b = b4 -> Stem \o <<b1, b2, b3, b4>>
    [] b = d1 -> Stem \o <<d1>> [] b = d2 -> Stem \o <<d1, d2>> [] b = d3 -> Stem \o <<d1, d2, d3>>]
MCHeight == [b \in MCBlocks |-> Len(MCPath[b]) - 1]
MCWork == [b \in MCBlocks |-> MCHeight[b] + IF d1 \in Range(MCPath[b]) THEN 3 ELSE 0]
BlockValue(n, fees) == 4 + fees

Vtx(b) == [k \in DOMAIN MCBlock[b] |-> MCTx[MCBlock[b][k]]]
ReplayPath(b) == LET after[k \in 0..Len(MCPath[b])] ==
                       IF k <= 1 THEN EmptyView ELSE ConnectBlock(after[k - 1], Vtx(MCPath[b][k]), k - 1).view
                 IN  after[Len(MCPath[b])]
Replayed == [b \in MCBlocks |-> ReplayPath(b)]
MCCoinsAt == Replayed

MCWallet == {own, two}
MCvtxPrev == [w \in MCWallet |-> IF w = two THEN <<chg, own>> ELSE <<>>]
=============================================================================
