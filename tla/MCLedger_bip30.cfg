CONSTANTS
  cb1 = cb1  cb2 = cb2  cb3 = cb3  cb4 = cb4  cb5 = cb5  cb6 = cb6  both = both  split = split  join = join  rival = rival  mint = mint
  TxIds <- MCTxIds
  Candidates <- MCCandidates
  GetBlockValue <- MCBlockValue
  COINBASE_MATURITY = 2
  MAX_MONEY = 20
  MaxHeight = 5
  UniqueCoinbases = FALSE
SPECIFICATION Spec
PROPERTIES NoOverwrite
