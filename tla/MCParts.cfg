SPECIFICATION PartsSpec
CONSTANTS
  Task = {t1, t2, t3}
  SCHED_HIGH_BURST = 4
  SCHED_LOW_FLOOR = 16
  Users = {u1, u2}
  SocketIds = {s1, s2}
  FixedPorts = {80}
  FirstEphemeral = 1
  LastEphemeral = 2
  MaxRefs = 2
  MaxQueued = 1
  Clusters = {2, 3, 4}
  CELLS = 2
  RootCells = 2
  GAP = 1
  FatNames = {"a", "b"}
  DirNames = {"b"}
  MaxSize = 3
SYMMETRY Symmetry
INVARIANTS
  StarvationBound
  SocketsAreSound
  
CHECK_DEADLOCK FALSE
