SPECIFICATION Spec
CHECK_DEADLOCK FALSE
CONSTANTS
  MaxThreads = 2
  Inputs <- ZeroInputs
INVARIANTS
  SizeChecksHold
