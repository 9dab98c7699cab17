SPECIFICATION FairSpec
CONSTANTS
  N_NODES = 3
  N_APPS = 1
  Keys <- MCKeys
  NoHash = NoHash
  MaxCalls = 3
INVARIANTS   ExecutedOnce SameExecution
PROPERTIES  CallsReturn
CHECK_DEADLOCK FALSE
