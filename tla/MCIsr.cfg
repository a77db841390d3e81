SPECIFICATION MCSpec
CONSTANTS
  t = t
  a = a
  b = b
  c = c
  c1 = c1
  c2 = c2
  c3 = c3
  None = None
  Task <- MCTask
  Lsr <- MCLsr
  LsrVector <- MCLsrVector
  MaxPrio = 3
  TaskTpr <- MCTaskTpr
  Node = {c1, c2, c3}
  ThisCore = c1
  MaxNmi = 1
CHECK_DEADLOCK FALSE
INVARIANTS
  FramesMatch
  LsrsReleasedTogether
  MutualExclusion
  TprIsHighest
PROPERTY
  EveryFaultHalts
