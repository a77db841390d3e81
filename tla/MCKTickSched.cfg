SPECIFICATION MCSpec
CONSTANTS
  t1 = t1
  t2 = t2
  t3 = t3
  l1 = l1
  v1 = v1
  Idle = Idle
  NoTask = NoTask
  Thread <- MCThread
  Lsr <- MCLsr
  Vector <- MCVector
  LsrVector <- MCLsrVector
  VectorPrio <- MCVectorPrio
  ThreadTpr <- MCThreadTpr
  Budgets <- MCBudgets
  Periods <- MCPeriods
  Sleeps <- MCSleeps
  PushCurrents <- MCPushCurrents
  Policies <- MCPolicies
  Prio <- MCPrio
  Timeslice <- MCTimeslice
  Frames <- MCFrames
  VirtualDeadline <- MCVirtualDeadline
INVARIANTS
  ReadyHeldByPolicy
  TicksLeftToCharge
  HighestPriorityRuns
  EarliestDeadlineRuns
PROPERTIES
  ImplementsKTick
