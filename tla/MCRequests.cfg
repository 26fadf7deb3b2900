CONSTANTS
  t = t  p = p  q = q
  TxIds = {t}
  Peers = {p, q}
  Honest = {p}
  RETRY = 2
  MaxAhead = 2
  MaxLate = 2
SPECIFICATION FairSpec
INVARIANT RequestsSpaced
PROPERTY Fetched
