CONSTANTS
  Item = {x, y}
  NULL = NULL
  Null = Null
  Garbage = Garbage
  InitialSize = 1
  MaxSize = 8
  acceptors = 3
  v = v
  w = w
  Value = {v, w}
  None = None
  MaxBallot = 300
  id = 2
  proposer_timeout = 100
  SECOND = 1000000
  INT_MAX = 2147483647
  OutOfRange = 0
  learner_instances = 128
SPECIFICATION Spec
INVARIANTS TypeOK CountStandsForAnswers ReachedNeedsMajority LowIdsReachQuorum TestsPass
PROPERTY ImplementsDeque
CHECK_DEADLOCK FALSE
