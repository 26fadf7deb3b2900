CONSTANTS
  G = G  a1 = a1  r2 = r2  b1 = b1  x2 = x2  x3 = x3  c2 = c2  none = none
  Blocks = {G, a1, r2, b1, x2, x3, c2}
  Genesis = G
  NoBlock = none
  NoUndo = NoUndo
  Rejected = {r2}
  Spam = {a1}
  prev <- MCPrev
  nChainWork <- MCChainWork
  Chain <- MCChain
  CoinsAt <- MCCoinsAt
  UndoAt <- MCUndoAt
  Good <- MCGood
  Connects <- MCConnects
  ConnectedCoins <- MCConnectedCoins
  UndoOf <- MCUndoOf
  DisconnectedCoins <- MCDisconnectedCoins
SPECIFICATION FairSpec
INVARIANTS ValidSetExact MostWork NoStrandedOrphan CoinsMatchTip Recoverable FailedSound MainBranchValid MainChainLinks
PROPERTIES CallEnds WorkNeverDecreases
