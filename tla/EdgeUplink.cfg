SPECIFICATION Spec
CONSTANTS
  Pads = {1}
  MaxSeq = 3
  ChannelCap = 1
  BufferCap = 2
  ConfirmWindow = 2
  FillLimit = 1
  Windows = {0, 2}
  MaxBreaks = 1
  MaxNacks = 1
  MaxDups = 1
  MaxCtrl = 3
INVARIANTS
  NoSilentLoss
  PendingTracksInflight
  SingleCustody
  ExactLoss
  RetryBounded
  DrainInSeqOrder
  CustodyInv
PROPERTY ImplementsHop
