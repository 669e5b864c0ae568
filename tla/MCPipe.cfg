SPECIFICATION Spec
CONSTANTS
  t1 = t1
  t2 = t2
  NoTask = NoTask
  Task <- Tasks2
  PIPE_CAPACITY = 2
  PIPE_BUF = 2
  MaxFds = 2
  Lengths = {2, 3}
  Reads = {1}
INVARIANTS
  PipeInv
PROPERTY
  ImplementsByteQueue
CHECK_DEADLOCK FALSE
SYMMETRY Symmetry
