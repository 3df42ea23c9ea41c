\* A request that takes several writes and a response that takes several
\* reads.  The system stops when the process has ended.
SPECIFICATION Spec
CHECK_DEADLOCK FALSE
CONSTANTS
  RequestLen = 4
  ResponseLen = 5
  SendRoom = 3
  RecvRoom = 3
INVARIANTS
  TypeOK
  SuccessMeansAllPrinted
  FinAfterRequest
PROPERTY
  Terminates
