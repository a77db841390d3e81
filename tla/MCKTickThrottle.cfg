SPECIFICATION FairSpec
CONSTANTS
  t1 = t1
  t2 = t2
  l1 = l1
  v1 = v1
  Idle = Idle
  NoTask = NoTask
  Thread <- MCThread
  Lsr <- MCLsr
  Vector <- MCVector
  LsrVector <- MCLsrVector
  VectorPrio <- MCVectorPrio
  ThreadTpr <- MCThreadTpr
  Budgets <- MCBudgets
  Periods <- MCPeriods
  Sleeps <- MCSleeps
  PushCurrents <- MCIa32ePort
PROPERTIES
  ThrottledOnNextTick
