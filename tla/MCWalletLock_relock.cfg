CONSTANTS Holders = {h1, h2}
  Timers = {a, b}
  PoolSize = 1
  MaxKeys = 4
SPECIFICATION LockSpec
PROPERTY Relocks
