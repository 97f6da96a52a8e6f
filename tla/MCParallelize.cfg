\* The call returns and the program goes on elsewhere: the model stops there.
SPECIFICATION FairSpec
CHECK_DEADLOCK FALSE
CONSTANTS
  MaxThreads = 3
  Calls <- MCCalls
INVARIANTS
  NoBlockShared
  OnlyRealBlocks
  AllBlocksHandled
  NeighboursSeenTogether
PROPERTIES
  JoinIsABarrier
  CallReturns
