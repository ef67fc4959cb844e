SPECIFICATION FairSpec
CONSTANTS
  Pads = {1, 2}
  MaxSeq = 1
  ChannelCap = 1
  BufferCap = 1
  ConfirmWindow = 2
  FillLimit = 2
  Windows = {0, 2}
  MaxBreaks = 1
  MaxNacks = 1
  MaxDups = 0
  MaxCtrl = 2
PROPERTIES
  EventuallyDelivered
  GeneratorUnblocked
