\* Every way to start, fail and end the process, and one restart.
SPECIFICATION LifeFairSpec
CONSTANTS
  BatchSize = 2
  StoreRetries = 2
  Days = {mon}
  Faults = {"store", "read", "kill"}
  MaxNext = 1
  MaxLives = 1
INVARIANTS LifeTypeOK StoreOutlivesProcessor GracefulDrain
PROPERTIES StopCompletes
CHECK_DEADLOCK FALSE
