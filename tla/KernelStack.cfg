SPECIFICATION StackSpec
CONSTANTS
  MaxPcb = 8
  MaxProcesses = 4
  MaxDepth = 3
  StackFrames = 4
  MaxTraps = 3
INVARIANTS ResumesOwnFrame OneFramePerSwitch
CHECK_DEADLOCK FALSE
