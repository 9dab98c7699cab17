SPECIFICATION FairSpec
CONSTANTS
  MAX_N_NODES = 3
  SCORE_DEFAULT = 1
  EXCLUDE_RESET = 78
  MaxCrashes = 2
INVARIANTS HeartbeatInv NoFalseSuspicion
PROPERTIES ResumeTogether Recovers
