------------------------------ MODULE MCLedger ------------------------------
(* Instance of Ledger for TLC: six coinbases and transactions that split, *)
(* join, double-spend, spend early and pay more than they take.             *)
EXTENDS Ledger

CONSTANTS cb1, cb2, cb3, cb4, cb5, cb6, split, join, rival, both, mint

MCTxIds == {cb1, cb2, cb3, cb4, cb5, cb6, split, join, rival, both, mint}

in(h, i) == [hash |-> h, n |-> i]
coinbase(h, v) == [hash |-> h, coinbase |-> TRUE, vin |-> <<in(h, 0)>>, vout |-> v]
tx(h, i, v) == [hash |-> h, coinbase |-> FALSE, vin |-> i, vout |-> v]

\* split makes two outputs of one of cb1 and join takes them in one transaction,
\* as both does with those of cb3; rival competes with split; mint would pay out
\* more than it takes.  cb4 needs one fee in its block, cb6 two.
Coinbases == {coinbase(cb1, <<3, 1>>), coinbase(cb2, <<4>>), coinbase(cb3, <<2, 2>>),
              coinbase(cb4, <<5>>), coinbase(cb5, <<1>>), coinbase(cb6, <<6>>)}
Spenders == {tx(split, <<in(cb1, 1)>>, <<1, 1>>),
             tx(join, <<in(split, 1), in(split, 2)>>, <<2>>),
             tx(rival, <<in(cb1, 2), in(cb1, 1)>>, <<4>>),
             tx(both, <<in(cb3, 1), in(cb3, 2)>>, <<3>>),
             tx(mint, <<in(cb2, 1)>>, <<6>>)}

MCCandidates == {<<c>> \o s : c \in Coinbases,
                              s \in {<<>>} \cup {<<t>> : t \in Spenders}
                                    \cup {<<t, u>> : t, u \in Spenders}}

\* Two early blocks whose coinbase may not claim fees, then one that may, as
\* in the first hundred blocks of the chain and after them.
MCBlockValue(h, fees) == IF h < 3 THEN 4 ELSE 4 + fees
=============================================================================
