SPECIFICATION FairSpec
CONSTANTS
  MaxOpen = 8
  Epochs = {1, 2}
  Seqs = {1, 2}
  Poison = {bad}
  ForceFrom = FALSE
  StreamFrom = "first"
  BatchMax = 2
  MaxPubs = 3
  MaxBreaks = 1
  MaxCrashes = 1
  MaxDbFails = 1
INVARIANTS OffsetNeverAhead EveryHoleReported
 
CHECK_DEADLOCK FALSE
