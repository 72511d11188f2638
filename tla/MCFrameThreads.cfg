SPECIFICATION FairSpec
CONSTANTS
  NbThreads = 2
  MaxPackets = 3
  MaxFlushes = 1
  MaxErrors = 1
  Rows = 1
  FramesOf = {2}
INVARIANT AllFramesInOrder
INVARIANT SetupInOrder
INVARIANT HwaccelInTurn
PROPERTY CallReturns
CHECK_DEADLOCK FALSE
