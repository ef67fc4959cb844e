SPECIFICATION Spec
CONSTANTS
  MaxOpen = 8
  Epochs = {1}
  Seqs = {1, 2, 3}
  Poison = {bad}
  ForceFrom = FALSE
  StreamFrom = "first"
  BatchMax = 2
  MaxPubs = 4
  MaxBreaks = 1
  MaxCrashes = 1
  MaxDbFails = 1
INVARIANT PhantomsHeal
CHECK_DEADLOCK FALSE
