SPECIFICATION HeapSpec
CONSTANTS
  Size = {1, 2, 3}
  NodeSize = 1
  ReuseLimit = 4
  MaxBrk = 10
INVARIANTS ClearIsPrivate
PROPERTIES HeapRefinement
