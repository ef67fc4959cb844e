SPECIFICATION FairSpec
CONSTANTS
  MaxSeq = 3
  ConfirmWindow = 2
  PublishBatch = 2
  MaxBreaks = 1
  MaxNacks = 1
  MaxSweeps = 1
  MaxDups = 1
INVARIANTS TypeOK OneIdPerMessage OnceUnlessInjected RetryBounded SweepsLoseNothing
 
