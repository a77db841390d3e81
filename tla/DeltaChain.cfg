SPECIFICATION Spec
CONSTANTS
  Node = {n1, n2, n3}
  MaxDelta = 3
  EpochSize = 5
  FirstEpoch = 3
INVARIANTS
  EpochsAgree
PROPERTIES
  ImplementsTimerQueue
  PoppedWithTimeLeft
