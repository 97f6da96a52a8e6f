SPECIFICATION Spec
CONSTANTS
  FileSize = 6
  Requests <- MCRequests
INVARIANTS
  OkMeansExact
  NoForeignBytes
  OrderedAnswersAccepted
