\* Both commands may be over.
SPECIFICATION FairSystem
CHECK_DEADLOCK FALSE
CONSTANTS
  MaxThreads = 1
  MaxReruns = 1
  Runs <- MCRuns
  FrameSize <- MCFrameSize
  OldFiles <- MCOldFiles
  Seeds <- MCSeeds
  OldOutput <- MCOldOutput
  GarbageSizes <- MCGarbageSizes
INVARIANTS
  QuietSyncSucceeds
PROPERTIES
  ImplementsFileSync
  SyncEnds
