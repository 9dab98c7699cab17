CONSTANTS
  a1 = a1
  a2 = a2
  a3 = a3
  Threads <- ThreeThreads
  Receivers <- NoReceivers
  NoThread = NoThread
  Hashes = {1, 2, 3}
  SLOT_MAX = 4
  NBuckets = 1
  MaxReq = 4
  SpinMax = 0
SYMMETRY Symmetry
CONSTRAINT LastKeyFirst
SPECIFICATION DepSpec
INVARIANT NoAbort
