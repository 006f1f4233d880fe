\* Every call of Store fails; the process goes on.
SPECIFICATION Spec
CONSTANTS
  BatchSize = 2
  StoreRetries = 3
  Days = {mon, tue}
  Faults = {"store"}
  MaxNext = 2
  MaxLives = 0
INVARIANTS CommittedIsStored
CHECK_DEADLOCK FALSE
