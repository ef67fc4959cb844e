SPECIFICATION FairPipeline
CONSTANTS
  Pads = {1}
  MaxSeq = 2
  ChannelCap = 1
  BufferCap = 1
  ConfirmWindow = 2
  FillLimit = 2
  Windows = {0}
  MaxBreaks = 1
  MaxNacks = 0
  MaxDups = 0
  MaxCtrl = 0
  Epoch = 1
  Epochs = {1}
  Seqs = {1, 2}
  Poison = {}
  MaxOpen = 2
  Prefetch = 1
  BatchMax = 2
  MaxPubs = 5
  MaxIngestBreaks = 0
  MaxCrashes = 1
  MaxDbFails = 0
INVARIANTS EveryGapExplained
PROPERTIES ImplementsHopEndToEnd GapsHeal EverythingLands
CHECK_DEADLOCK FALSE
