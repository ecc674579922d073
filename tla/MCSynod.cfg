CONSTANTS
  acceptors = 3
  Proposer = {0, 1}
  Learner = {}
  Value = {v1, v2}
  None = None
  MaxBallot = 20
  MaxAcks = 3
SYMMETRY Values
SPECIFICATION Spec
INVARIANTS Agreement OneValuePerBallot PreparedKnowsChosen FreedIsChosen
