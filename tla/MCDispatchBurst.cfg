SPECIFICATION Spec
CONSTANTS
  Task = {t1, t2, t3}
  SCHED_HIGH_BURST = 4
  SCHED_LOW_FLOOR = 64
SYMMETRY Symmetry
INVARIANTS
  NormalWaitsOneBurst
CHECK_DEADLOCK FALSE
