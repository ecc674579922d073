SPECIFICATION Spec
CONSTANTS
  acceptors = 1
  Value = {v, w}
  None = None
  MaxBallot = 30
  proposer_timeout = 1
  SECOND = 2
  INT_MAX = 6
  OutOfRange = 0
  id = 0
  OtherBallots = {11}
  MaxConns = 2
  MaxQueue = 2
  MaxIdle = 2
INVARIANTS
  TypeOK
  AssertionHolds
  CountedAnswered
PROPERTIES
  PendingTimesOut
  ValueIsAccepted
CHECK_DEADLOCK FALSE
