SPECIFICATION Spec
CONSTANTS
  N_NODES = 3
  N_APPS = 1
  Keys <- MCKeys
  NoHash = NoHash
  MaxCalls = 3
INVARIANT PreviousIsReplayed
CHECK_DEADLOCK FALSE
