SPECIFICATION FairSpec
CONSTANTS
  MAX_TASKS = 2
  MaxWait = 2
  Quantum = 2
  Moves = {0, 2}
  SCHED_HIGH_BURST = 1
  SCHED_LOW_FLOOR = 2
INVARIANTS
  SchedInv
  ResultNamesCause
PROPERTIES
  ReadyTasksRun
  SleepersWakeOnTime
