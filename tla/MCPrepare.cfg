\* The process ends when the command is done.
SPECIFICATION FairSpec
CHECK_DEADLOCK FALSE
CONSTANTS
  MaxThreads = 2
  MaxReruns = 1
  Runs <- MCRuns
  FrameSize <- MCFrameSize
  OldFiles <- MCOldFiles
INVARIANTS
  TypeOK
  SlotsSurvive
  DataIsAllFrames
  MetadataDescribesInput
  ProgressReachesTotal
PROPERTIES
  MetadataComesLast
  PrepareEnds
