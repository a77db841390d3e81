SPECIFICATION MCSpec
CONSTANTS
  t1 = t1
  t2 = t2
  l1 = l1
  l2 = l2
  l3 = l3
  v1 = v1
  v2 = v2
  Idle = Idle
  NoTask = NoTask
  Thread <- MCThread
  Lsr <- MCLsr
  Vector <- MCVector
  LsrVector <- MCLsrVector
  VectorPrio <- MCVectorPrio
  ThreadTpr <- MCThreadTpr
  Budgets <- MCBudgets
  Periods <- MCPeriods
  Sleeps <- MCSleeps
  PushCurrents <- MCPushCurrents
INVARIANTS
  TypeOK
  Placement
  DynamicAsserts
  WorkConserving
  LsrNesting
  ChargedIffRan
  BcsWindow
  DsBudget
PROPERTIES
  LsrPreemption
  SleepExact
  BcsCooldown
