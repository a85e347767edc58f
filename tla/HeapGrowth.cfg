SPECIFICATION FairHeapSpec
CONSTANTS
  MaxPcb = 6
  MaxProcesses = 4
  MaxDepth = 2
  HeapPages = 3
  PageCells = 2
  ArgCells = 2
  MaxAlloc = 1
  UserStackTop = 20
  StackLimit = 8
  Word = 64
INVARIANTS ArgvIntact HeapKept
PROPERTIES AccessCompletes
CHECK_DEADLOCK FALSE
