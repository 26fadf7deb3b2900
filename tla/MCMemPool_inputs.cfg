CONSTANTS
  o = o  g = g  h = h  i = i  a1 = a1  a2 = a2  a3 = a3  b1 = b1  b2 = b2  b3 = b3  b4 = b4  d1 = d1  d2 = d2  d3 = d3
  pay = pay  chg = chg  rival = rival  cbspend = cbspend  two = two  own = own  odd = odd  sweep = sweep  late = late
  TxIds <- MCTxIds
  Tx <- MCTx
  Blocks <- MCBlocks
  Genesis = o
  Block <- MCBlock
  Height <- MCHeight
  nChainWork <- MCWork
  Path <- MCPath
  CoinsAt <- MCCoinsAt
  GetBlockValue <- BlockValue
  COINBASE_MATURITY = 3
  MAX_MONEY = 50
  NonStandard = {odd}
  nTotalBlocksEstimate = 0
  WalletTxs <- MCWallet
  vtxPrev <- MCvtxPrev
SPECIFICATION Spec
INVARIANT PoolConnects
CHECK_DEADLOCK FALSE
