SPECIFICATION Spec
CONSTANTS
  MaxOpen = 2
  Wells = {1}
  Epochs = {1, 2}
  Seqs = {1, 2, 3, 4, 5, 6, 7}
  MaxCount = 5
INVARIANTS GapsExact RangesMaximal ZeroMeansComplete GapInv
PROPERTIES Monotone HealsAccounted
