CONSTANTS
  acceptors = 1
  Value = {v1}
  None = None
  MaxBallot = 2
  MaxIid = 4
  MAX_RECORDS = 2
  Requested = {1, 3}
  MaxImages = 2
SPECIFICATION StorageSpec
INVARIANTS StorageTypeOK StoredOrReplaced AnswersAreDurable
PROPERTIES ImplementsOneRecordPerInstance RecordsFollowRequests
CHECK_DEADLOCK FALSE
