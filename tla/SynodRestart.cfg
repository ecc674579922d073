CONSTANTS
  acceptors = 3
  Proposer = {0}
  Learner = {}
  Value = {v1, v2}
  None = None
  MaxBallot = 19
  MaxAcks = 3
SPECIFICATION RestartSpec
INVARIANT OneValuePerBallot
