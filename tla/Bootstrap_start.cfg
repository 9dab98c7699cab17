SPECIFICATION FairSpec
CONSTANT N_NODES = 3
INVARIANTS BootInv WritesLand NoKeyMissed NoReaderReset NothingLeft
PROPERTY StartsUp
CHECK_DEADLOCK FALSE
