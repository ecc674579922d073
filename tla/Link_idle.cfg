SPECIFICATION Spec
CONSTANTS
  acceptors = 1
  Value = {v}
  None = None
  MaxBallot = 30
  proposer_timeout = 1
  SECOND = 2
  INT_MAX = 6
  OutOfRange = 0
  id = 0
  OtherBallots = {11}
  MaxConns = 2
  MaxQueue = 2
  MaxIdle = 8
PROPERTY PendingTimesOut
CHECK_DEADLOCK FALSE
