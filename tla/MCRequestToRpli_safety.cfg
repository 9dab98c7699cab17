CONSTANTS
  a1 = a1
  a2 = a2
  a3 = a3
  r1 = r1
  Threads <- AppThreads
  Receivers <- NoReceivers
  NoThread = NoThread
  Hashes = {1, 2}
  SLOT_MAX = 3
  NBuckets = 2
  MaxReq = 5
  SpinMax = 1
SYMMETRY Symmetry
SPECIFICATION Spec
INVARIANTS
  TypeOK
  SlotOwnership
  ResetQuiescent
  Durable
  KeyOrder
  NoAbort
  IInv
