\* The phase is over once the threads have joined: the model stops there.
SPECIFICATION FairSpec
CHECK_DEADLOCK FALSE
CONSTANTS
  MaxThreads = 2
  Inputs <- MCInputs
  Weak <- MCWeak
  Word <- MCWord
INVARIANTS
  SeedOffsetsSound
  ClearedBitsAccounted
  AnalysesAgree
  NoMissedReuse
  OneThreadMatchesOnce
PROPERTIES
  ImplementsSeedReuse
  AnalysisEnds
