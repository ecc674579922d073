CONSTANTS
  acceptors = 3
  Proposer = {0, 1}
  Learner = {l1}
  Value = {v1, v2}
  None = None
  NULL = NULL
  MaxBallot = 20
  MaxAcks = 2
SYMMETRY Values
SPECIFICATION RSpec
INVARIANT LearnedIsChosen
