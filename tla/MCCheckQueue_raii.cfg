CONSTANTS
  w1 = w1  w2 = w2  m = m  c1 = c1  c2 = c2  c3 = c3  c4 = c4  none = none
  Workers <- MCWorkers
  Master = m
  Checks <- MCChecks
  Valid <- MCValid
  nBatchSize = 2
  NoThread = none
  MaxInterrupts = 1
SPECIFICATION Spec
INVARIANT QueueFinished
