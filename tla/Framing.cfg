SPECIFICATION Spec
CONSTANTS
  PAXOS_MAX_VALUE_SIZE = 9
  MAX_SIZE_RECORD = 8
  ValueSizes = {0, 1, 5, 6, 10}
  DamagedSizes = {1}
  MaxValues = 2
  MaxPrepares = 1
INVARIANTS
  TypeOK
  HandledIsSent
  NothingLeftBehind
PROPERTY SmallValuesArrive
CHECK_DEADLOCK FALSE
