\* Two days; transactions and reads that fail, kills at any step, one restart.
SPECIFICATION FairSpec
CONSTANTS
  BatchSize = 2
  StoreRetries = 2
  Days = {mon, tue}
  Faults = {"store", "read", "kill"}
  MaxNext = 2
  MaxLives = 1
INVARIANTS TypeOK NothingLost OncePerLife ForwardedIsStored
PROPERTIES NotStoredAgain Progress RunEnds
CHECK_DEADLOCK FALSE
