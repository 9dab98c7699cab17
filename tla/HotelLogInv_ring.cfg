SPECIFICATION FairSpec
CONSTANTS
  LOGIDX_END = 11
  ROOMS = 15
  PROPOSALS = 4
  Lengths = {4, 7}
  HeaderOnly = {TRUE, FALSE}
  Lead = 1
  MaxEntries = 7
INVARIANTS RingInv PrevWhole
PROPERTIES LogSpec UserActionReplayed
