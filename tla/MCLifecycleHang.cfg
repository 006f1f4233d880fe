\* The processor returns an error while the server runs.
SPECIFICATION LifeFairSpec
CONSTANTS
  BatchSize = 2
  StoreRetries = 2
  Days = {mon}
  Faults = {"read", "kill"}
  MaxNext = 1
  MaxLives = 0
PROPERTIES ShutdownBounded
CHECK_DEADLOCK FALSE
