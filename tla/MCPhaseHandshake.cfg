\* Both threads stop once the command has returned, and a lost answer leaves the
\* command in its loop (see MCPhaseHandshakeHang.cfg).
SPECIFICATION FairSpec
CHECK_DEADLOCK FALSE
CONSTANTS
  Calls = 5
  Work <- MCWork
INVARIANTS
  PhaseCountsCalls
  OneRecordPerPhase
  RecordIsShortOrStale
PROPERTIES
  TimelyWaitEnds
