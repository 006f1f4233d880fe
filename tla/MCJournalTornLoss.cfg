\* A fragment left by a kill.
SPECIFICATION Spec
CONSTANTS
  MaxSeg = 2
  MaxTotal = 3
  Sizes = {1, 2}
  Faults = {"torn"}
  MaxPuts = 2
  MaxFaults = 1
  None = None
INVARIANTS RecoverableAfterKill
CHECK_DEADLOCK FALSE
