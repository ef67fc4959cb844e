SPECIFICATION IngestSpec
CONSTANTS
  MaxOpen = 1
  Epochs = {1, 2}
  Seqs = {1, 2}
  Poison = {bad}
  Prefetch = 2
  BatchMax = 2
  MaxPubs = 3
  MaxIngestBreaks = 1
  MaxCrashes = 1
  MaxDbFails = 1
INVARIANTS LedgerMatches PhantomsHeal EveryHoleReported
PROPERTY IngestImplementsHop
CHECK_DEADLOCK FALSE
