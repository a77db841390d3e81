SPECIFICATION MCSpec
CONSTANTS
  Vcpu <- MCVcpu
  Task <- MCTask
  Vector <- MCVector
  Tprs <- MCTprs
  LvtTimers <- MCLvtTimers
  LvtErrors <- MCLvtErrors
  None = None
INVARIANTS
  OneServicePerClass
  WindowMatchesIrr
  LatchConsistent
PROPERTIES
  EveryVcpuResponds
  InterruptsAreKept
CHECK_DEADLOCK FALSE
