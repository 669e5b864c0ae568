SPECIFICATION Spec
CONSTANTS
  MAX_TASKS = 3
  TASK_EXIT_RECORDS = 1
  MaxPid = 3
  Codes = {0}
  Threads = TRUE
INVARIANT
  WaitersHaveWork
CHECK_DEADLOCK FALSE
