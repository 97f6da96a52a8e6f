SPECIFICATION FairSpec
CHECK_DEADLOCK FALSE
CONSTANTS
  Calls = 5
  Work <- MCWork
PROPERTIES
  WaitEnds
