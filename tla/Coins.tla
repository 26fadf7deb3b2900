------------------------------- MODULE Coins --------------------------------
(***************************************************************************)
(* The ledger arithmetic of src/src/main.h and src/src/main.cpp: CCoins,   *)
(* CTxInUndo, CTransaction::UpdateCoins / HaveInputs / CheckInputs, and    *)
(* what CBlock::ConnectBlock and DisconnectBlock do to a coins view.       *)
(*                                                                         *)
(* A transaction is a record [hash, coinbase, vin, vout]: vin a sequence   *)
(* of [hash, n], vout a sequence of values; a block's vtx is a sequence of *)
(* transactions.  A view maps a transaction id to its CCoins; pruned coins *)
(* and absent ones are the same value, NoCoins (the database erases pruned *)
(* entries, and what is modelled here treats both alike; MemPool tells     *)
(* them apart).  Scripts and versions are left out; script results are the *)
(* subject of CheckQueue.                                                  *)
(***************************************************************************)
EXTENDS Naturals, Sequences, SequencesExt, FiniteSets

CONSTANTS TxIds,               \* transaction hashes
          COINBASE_MATURITY,   \* 120 in the code
          MAX_MONEY,           \* 500000000 * COIN in the code
          GetBlockValue(_, _)  \* height, fees -> the most a coinbase may pay

Transaction == [hash : TxIds, coinbase : BOOLEAN,
                vin : Seq([hash : TxIds, n : Nat]), vout : Seq(Nat)]

NoCoins == [fCoinBase |-> FALSE, nHeight |-> 0, vout |-> <<>>]

EmptyView == [h \in TxIds |-> NoCoins]

\* CCoins(tx, nHeight): every output unspent.
CCoins(tx, nHeight) == [fCoinBase |-> tx.coinbase, nHeight |-> nHeight,
                        vout |-> [n \in DOMAIN tx.vout |-> tx.vout[n]]]

IsAvailable(coins, n) == n \in DOMAIN coins.vout

ValueOf(seq) == LET sum[i \in 0..Len(seq)] == IF i = 0 THEN 0 ELSE sum[i - 1] + seq[i]
                IN  sum[Len(seq)]
GetValueOut(tx) == ValueOf(tx.vout)

MoneyRange(v) == v <= MAX_MONEY

\* CTransaction::CheckTransaction, as far as the ledger is concerned.
CheckTransaction(tx) == /\ tx.vin # <<>> /\ tx.vout # <<>>
                        /\ \A n \in DOMAIN tx.vout : MoneyRange(tx.vout[n])
                        /\ MoneyRange(GetValueOut(tx))
                        /\ IsInjective(tx.vin)

\* CBlock::CheckBlock: one coinbase, in front; no transaction twice.
CheckBlock(vtx) == /\ vtx # <<>>
                   /\ \A i \in DOMAIN vtx : vtx[i].coinbase <=> i = 1
                   /\ \A i \in DOMAIN vtx : CheckTransaction(vtx[i])
                   /\ IsInjective([i \in DOMAIN vtx |-> vtx[i].hash])

-----------------------------------------------------------------------------
\* Definitions named ...Bug are the mutations used to test the properties.

\* CCoins::Spend(out, undo): the undo entry of the last output to be spent also
\* records the height and the coinbase flag.
SpendUndo(coins, n) ==
  LET last == DOMAIN coins.vout = {n}
  IN  [txout |-> coins.vout[n],
       nHeight |-> IF last THEN coins.nHeight ELSE 0,
       fCoinBase |-> last /\ coins.fCoinBase]

SpendNothingBug(coins, n) == coins
Spend(coins, n) ==
  IF DOMAIN coins.vout = {n} THEN NoCoins
  ELSE [coins EXCEPT !.vout = [m \in DOMAIN coins.vout \ {n} |-> coins.vout[m]]]

\* CTransaction::UpdateCoins: spend the inputs in order, then add the outputs
\* (SetCoins overwrites whatever the view had under the same hash).
SpendOne(acc, in) ==
  [view |-> [acc.view EXCEPT ![in.hash] = Spend(@, in.n)],
   undo |-> Append(acc.undo, SpendUndo(acc.view[in.hash], in.n))]
UpdateCoins(view, tx, nHeight) ==
  LET spent[i \in 0..Len(tx.vin)] == IF i = 0 \/ tx.coinbase THEN [view |-> view, undo |-> <<>>]
                                     ELSE SpendOne(spent[i - 1], tx.vin[i])
      all == spent[Len(tx.vin)]
  IN  [all EXCEPT !.view = [all.view EXCEPT ![tx.hash] = CCoins(tx, nHeight)]]

HaveInputs(view, tx) == tx.coinbase \/ \A i \in DOMAIN tx.vin :
                                          IsAvailable(view[tx.vin[i].hash], tx.vin[i].n)

GetValueIn(view, tx) ==
  ValueOf([i \in DOMAIN tx.vin |-> view[tx.vin[i].hash].vout[tx.vin[i].n]])

\* The value half of CheckInputs.
ValuesOK(view, tx) == /\ MoneyRange(GetValueIn(view, tx))
                      /\ GetValueIn(view, tx) >= GetValueOut(tx)

\* The maturity half of CheckInputs; nSpendHeight is the height of the block.
MatureInputsBug(view, tx, nSpendHeight) ==
  \A i \in DOMAIN tx.vin :
     LET coins == view[tx.vin[i].hash]
     IN  coins.fCoinBase => nSpendHeight - coins.nHeight + 1 >= COINBASE_MATURITY
MatureInputs(view, tx, nSpendHeight) ==
  \A i \in DOMAIN tx.vin :
     LET coins == view[tx.vin[i].hash]
     IN  coins.fCoinBase => nSpendHeight - coins.nHeight >= COINBASE_MATURITY

CheckInputs(view, tx, nSpendHeight) ==
  tx.coinbase \/ /\ HaveInputs(view, tx)
                 /\ MatureInputs(view, tx, nSpendHeight)
                 /\ ValuesOK(view, tx)

-----------------------------------------------------------------------------
\* The limit on what the coinbase pays.
CoinbaseLimitBug(vtx, nHeight, fees) == GetValueOut(vtx[1]) <= GetBlockValue(nHeight, fees) + fees
CoinbaseLimit(vtx, nHeight, fees) == GetValueOut(vtx[1]) <= GetBlockValue(nHeight, fees)

\* One transaction of CBlock::ConnectBlock, checked against the view its
\* predecessors left.
ConnectTx(acc, tx, nHeight) ==
  IF ~acc.ok \/ ~CheckInputs(acc.view, tx, nHeight)
  THEN [acc EXCEPT !.ok = FALSE]
  ELSE LET upd == UpdateCoins(acc.view, tx, nHeight)
       IN  [ok   |-> TRUE,
            view |-> upd.view,
            fees |-> IF tx.coinbase THEN acc.fees
                     ELSE acc.fees + GetValueIn(acc.view, tx) - GetValueOut(tx),
            undo |-> IF tx.coinbase THEN acc.undo ELSE Append(acc.undo, upd.undo)]

\* CBlock::ConnectBlock on a view: the transactions, then the limit on the coinbase.  The
\* test for overwritten transactions (fEnforceBIP30) runs only for a block
\* template without a hash, never for a block that is being connected.
ConnectBlock(view, vtx, nHeight) ==
  LET done[i \in 0..Len(vtx)] == IF i = 0 THEN [ok |-> TRUE, view |-> view, fees |-> 0, undo |-> <<>>]
                                 ELSE ConnectTx(done[i - 1], vtx[i], nHeight)
      all == done[Len(vtx)]
  IN  [all EXCEPT !.ok = @ /\ CoinbaseLimit(vtx, nHeight, all.fees)]

\* One restored input of DisconnectBlock.
RestoreOne(acc, in, undo) ==
  LET coins == acc.view[in.hash]
      base  == IF undo.nHeight # 0
               THEN [fCoinBase |-> undo.fCoinBase, nHeight |-> undo.nHeight, vout |-> <<>>]
               ELSE coins
      clean == /\ (undo.nHeight # 0) <=> (coins = NoCoins)
               /\ ~IsAvailable(base, in.n)
  IN  [clean |-> acc.clean /\ clean,
       view  |-> [acc.view EXCEPT ![in.hash] =
                    [base EXCEPT !.vout = [m \in DOMAIN base.vout \cup {in.n} |->
                                             IF m = in.n THEN undo.txout ELSE base.vout[m]]]]]

\* The inputs of one transaction, last one first.
RestoreInputsBug(acc, tx, undo) ==
  LET restored[j \in 0..Len(tx.vin)] ==
        IF j = 0 THEN acc ELSE RestoreOne(restored[j - 1], tx.vin[j], undo[j])
  IN  restored[Len(tx.vin)]
RestoreInputs(acc, tx, undo) ==
  LET restored[j \in 1..Len(tx.vin) + 1] ==
        IF j > Len(tx.vin) THEN acc ELSE RestoreOne(restored[j + 1], tx.vin[j], undo[j])
  IN  restored[1]

\* The outputs of one transaction.
RemoveOutputs(acc, tx, nHeight) == [clean |-> acc.clean /\ acc.view[tx.hash] = CCoins(tx, nHeight),
                                    view  |-> [acc.view EXCEPT ![tx.hash] = NoCoins]]

\* The transaction at position i: only a coinbase has no inputs to restore.
DisconnectTx(acc, vtx, i, undo, nHeight) ==
  LET rest == RemoveOutputs(acc, vtx[i], nHeight)
  IN  IF i = 1 THEN rest ELSE RestoreInputs(rest, vtx[i], undo[i - 1])

\* CBlock::DisconnectBlock: transactions in reverse order.
DisconnectBlock(view, vtx, undo, nHeight) ==
  LET undone[i \in 1..Len(vtx) + 1] ==
        IF i > Len(vtx) THEN [clean |-> TRUE, view |-> view]
        ELSE DisconnectTx(undone[i + 1], vtx, i, undo, nHeight)
  IN  undone[1]
=============================================================================
