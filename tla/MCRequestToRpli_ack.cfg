CONSTANTS
  a1 = a1
  a2 = a2
  a3 = a3
  r1 = r1
  Threads <- MixedThreads
  Receivers <- OneReceiver
  NoThread = NoThread
  Hashes = {1}
  SLOT_MAX = 3
  NBuckets = 1
  MaxReq = 3
  SpinMax = 0
SPECIFICATION Spec
INVARIANT AckReplied
