SPECIFICATION FairSpec
CONSTANTS
  Threads = {t1, t2}
  NoThread = NoThread
  Ring = 2
  Proposals = 5
  MaxCalls = 8
INVARIANTS ChainInv ReturnedIsEverywhere
PROPERTIES ChainIsLog StartsUp ProposeReturns
CHECK_DEADLOCK FALSE
