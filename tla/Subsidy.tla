------------------------------ MODULE Subsidy -------------------------------
(***************************************************************************)
(* The reward schedule, GetBlockValue of src/src/main.cpp, along a chain   *)
(* that grows.  Amounts are in units of COIN; parts of a coin are dropped. *)
(***************************************************************************)
EXTENDS Naturals

CONSTANT MaxHeight   \* bound on the chain

VARIABLE nHeight

nGenesisBlockRewardCoin == 10000000
nBlockRewardStartCoin == 10000000
nBlockRewardMinimumCoin == 5
nBlockRewardLastCoin == 9766
nBlockRewardFreedomForAllLastCoin == 100

\* x >> n for 0 <= x < 2^31.  A count of 64 or more is undefined in C++; the
\* shift instructions of the supported processors use it modulo 64.
ShiftRight(x, n) ==
  LET shifted[k \in 0..30] == IF k = 0 THEN x ELSE shifted[k - 1] \div 2
  IN  IF n % 64 > 30 THEN 0 ELSE shifted[n % 64]

GetBlockValue(h, nFees) ==
  IF h = 0 THEN nGenesisBlockRewardCoin
  ELSE IF h < 100 THEN ShiftRight(nBlockRewardStartCoin, h \div 10)
  ELSE IF h < 30000 \/ h % 30000 # 0
  THEN LET nSubsidy == ShiftRight(nBlockRewardLastCoin, h \div 1440)
       IN  nFees + (IF nSubsidy < nBlockRewardMinimumCoin THEN nBlockRewardMinimumCoin ELSE nSubsidy)
  ELSE nFees + nBlockRewardFreedomForAllLastCoin

Init == nHeight = 0

\* The chain grows by one block.
Mine == nHeight < MaxHeight /\ nHeight' = nHeight + 1

Spec == Init /\ [][Mine]_nHeight

-----------------------------------------------------------------------------
\* "Subsidy is cut in half every 1440 blocks (1 days)": from one period to the
\* next the reward falls, down to the minimum.
SubsidyIsCut == nHeight >= 1540 /\ nHeight % 30000 # 0 /\ (nHeight - 1440) % 30000 # 0 =>
  GetBlockValue(nHeight, 0) <= GetBlockValue(nHeight - 1440, 0)
=============================================================================
