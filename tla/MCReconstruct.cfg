\* The program ends with the run.
SPECIFICATION FairSpec
CHECK_DEADLOCK FALSE
CONSTANTS
  MaxThreads = 2
  Inputs <- MCInputs
INVARIANTS
  TypeOK
  PositionTracksOffset
  OutputKeepsSize
  BatchBounded
  NoSpuriousFailure
  BytesAccounted
PROPERTIES
  OnlySourceBytes
  RunEnds
