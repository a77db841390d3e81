SPECIFICATION MCDsSpec
CONSTANTS
  t1 = t1
  t2 = t2
  t3 = t3
  Idle = Idle
  NoTask = NoTask
  Thread <- MCThread
  Lsr = {}
  Vector = {}
  LsrVector <- MCLsrVector
  VectorPrio <- MCLsrVector
  ThreadTpr <- MCThreadTpr
  Budgets <- MCBudgets
  Periods <- MCPeriods
  Sleeps = {}
  PushCurrents <- MCPushCurrents
  Policies <- MCPolicies
  Prio <- MCPrio
  Timeslice <- MCTimeslice
  Frames <- MCFrames
  VirtualDeadline <- MCVirtualDeadline
INVARIANTS
  SoonestDeadlineRuns
