SPECIFICATION Spec
CONSTANTS
  LastPage = 10
  EndMark = 99
  BasePage = 1
  PhysbasePage = 3
  PhysfreePage = 5
INVARIANTS SortedFreeList FrameAccounting
PROPERTIES PoolRefinement
