CONSTANTS
  acceptors = 3
  NULL = NULL
  learner_instances = 2
  chunks = 1
  Answering = {0, 1}
  MaxIid = 4
  Ballots = {1, 2}
  Records <- MCRecords
SPECIFICATION RepeatsSpec
INVARIANTS TypeOK SlotsHoldTheWindow DeliveredInOrder DeliveredHasQuorum NoQuorumOverlooked HoleIsFound
PROPERTY CatchesUp
