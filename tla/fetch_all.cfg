SPECIFICATION Spec
CONSTANTS
  Apis <- AllApis
  Queries <- AllQueries
  Limit = 2
  MaxTxs = 3
  Retries = 2
  Faults = {"error_answer", "too_large"}
  MaxHistory = 5
INVARIANTS TypeOK NoneMissed EachOnceInOrder OnlyOldestCut
CHECK_DEADLOCK FALSE
