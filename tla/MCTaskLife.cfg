SPECIFICATION Spec
CONSTANTS
  MAX_TASKS = 3
  TASK_EXIT_RECORDS = 2
  MaxPid = 4
  Codes <- MCCodes
  Threads = FALSE
INVARIANTS
  TableInv
  StatusAccounted
  WaitersHaveWork
PROPERTIES
  CancelledNeverRuns
CHECK_DEADLOCK FALSE
