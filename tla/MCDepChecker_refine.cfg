CONSTANTS
  a1 = a1
  a2 = a2
  a3 = a3
  Threads <- ThreeThreads
  Receivers <- NoReceivers
  NoThread = NoThread
  Hashes = {1, 2}
  SLOT_MAX = 3
  NBuckets = 2
  MaxReq = 4
  SpinMax = 1
SPECIFICATION DepSpec
INVARIANT ListInv
PROPERTY AtomicSpec
