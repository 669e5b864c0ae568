SPECIFICATION Spec
CONSTANTS
  t1 = t1
  t2 = t2
  NoTask = NoTask
  Task <- Tasks2
  PIPE_CAPACITY = 2
  PIPE_BUF = 1
  MaxFds = 1
  Lengths = {3}
  Reads = {1}
PROPERTY
  BlockingWriteIsWhole
CHECK_DEADLOCK FALSE
