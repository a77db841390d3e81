SPECIFICATION Spec
CONSTANTS
  Vcpu <- OneVcpu
  Task <- TimerTask
  Vector <- MCVector
  Tprs <- MCTprs
  LvtTimers <- MCLvtTimers
  LvtErrors <- MCLvtErrors
  None = None
INVARIANTS
  PendingOpensWindow
CHECK_DEADLOCK FALSE
