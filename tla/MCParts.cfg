CONSTANTS
  cb1 = cb1  cb2 = cb2  cb3 = cb3  cb4 = cb4  cb5 = cb5  cb6 = cb6  both = both  split = split  join = join  rival = rival  mint = mint
  TxIds <- MCTxIds
  Candidates <- MCCandidates
  GetBlockValue <- MCBlockValue
  COINBASE_MATURITY = 2
  MAX_MONEY = 20
  MaxHeight = 5
  UniqueCoinbases = TRUE
  t1 = t1  t2 = t2  t3 = t3  t4 = t4  t5 = t5  t6 = t6
  Hashes = {t1, t2}
  Coins = {full, part, none}
  Pruned = none
  Blocks = {b1, b2}
  NoBlock = NoBlock
  NotFound = NotFound
  Received = {t1, t2, t3, t4, t5, t6}
  Prev <- MCPrev
  Invalid = {t5}
  Big = {t6}
  MAX_ORPHAN_TRANSACTIONS = 3
  a1 = a1  a2 = a2  a3 = a3  a4 = a4  s1 = s1  s2 = s2  n1 = n1  n2 = n2  k1 = k1
  Addrs = {a1, a2, a3, a4}
  Sources = {s1, s2}
  NewBuckets = {n1, n2}
  TriedBuckets = {k1}
  GetTriedBucket <- MCGetTriedBucket
  GetNewBucket <- MCGetNewBucket
  TRIED_BUCKET_SIZE = 2
  NEW_BUCKET_SIZE = 1
  NEW_BUCKETS_PER_ADDRESS = 2
  TRIED_ENTRIES_INSPECT_ON_EVICT = 2
  GETADDR_MAX_PCT = 67
  GETADDR_MAX = 2
  MaxIds = 5
SYMMETRY Sym
SPECIFICATION PartsSpec
INVARIANTS UtxoExact NoDoubleSpend CoinbaseMatures NoInflation UndoRestores
INVARIANTS OrphanIndexExact OrphansRetried
INVARIANTS IndexesExact TablesExact BucketsBounded ReloadFaithful
PROPERTIES FlatSpec TriedNeverDeleted
