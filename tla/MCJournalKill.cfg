\* Kills at any step, and commits that do not reach the disk.
SPECIFICATION Spec
CONSTANTS
  MaxSeg = 2
  MaxTotal = 3
  Sizes = {1, 2}
  Faults = {"kill", "offset"}
  MaxPuts = 4
  MaxFaults = 2
  None = None
INVARIANTS TypeOK RecoverableAfterKill NothingSkipped DiskBounded
PROPERTIES NeverRedelivered DeliveredInOrder ImplementsQueue
CHECK_DEADLOCK FALSE
