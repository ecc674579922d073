CONSTANTS
  acceptors = 2
  Value = {v1, v2, w}
  None = None
  MaxBallot = 20
  id = 0
  preexec_window = 1
  ClientValue = {v1, v2}
  OtherBallots = {11}
  MaxIid = 3
SYMMETRY Symmetry
SPECIFICATION Spec
INVARIANTS TypeOK EachInstanceOnce NoValueLost FrontIsNotStuck WindowIsFull
