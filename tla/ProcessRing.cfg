SPECIFICATION FairSpec
CONSTANTS
  MaxPcb = 10
  MaxProcesses = 4
  MaxDepth = 3
INVARIANTS TypeOK RingIsCallChain ExitFindsPredecessor ZombiesLeaveRing DistinctLivePids
PROPERTIES WaitReturnsAfterChildExit WaitReturns
