SPECIFICATION MemorySpec
CONSTANTS
  MaxPcb = 6
  MaxProcesses = 3
  MaxDepth = 2
  NumPages = 1
  NumFrames = 6
  Value = {0, 1}
INVARIANTS TlbCoherent SharedFramesReadOnly CopyOutIsPrivate
PROPERTIES PrivateMemoryRefinement
