SPECIFICATION Spec
CONSTANTS
  MaxSeq = 3
  ConfirmWindow = 2
  PublishBatch = 2
  MaxBreaks = 2
  MaxNacks = 1
  MaxSweeps = 1
  MaxDups = 1
INVARIANT NoSilentLoss
