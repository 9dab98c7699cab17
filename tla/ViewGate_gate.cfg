SPECIFICATION FairSpec
CONSTANTS
  Threads = {t1, t2}
  NoThread = NoThread
  Peers = {n1, n2}
  MaxCalls = 3
INVARIANTS TypeOK NoLostWakeup WaitedSeesRemoval
PROPERTY RequestReturns
CHECK_DEADLOCK FALSE
