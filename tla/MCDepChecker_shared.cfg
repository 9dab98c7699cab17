CONSTANTS
  a1 = a1
  a2 = a2
  a3 = a3
  Threads <- TwoThreads
  Receivers <- NoReceivers
  NoThread = NoThread
  Hashes = {1, 2}
  SLOT_MAX = 4
  NBuckets = 1
  MaxReq = 5
  SpinMax = 1
SPECIFICATION DepFairSpec
INVARIANT BucketInv
PROPERTY EveryCallReturns
