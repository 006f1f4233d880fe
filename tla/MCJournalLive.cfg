\* Progress of the consumer across crashes, failed rotations and failed commits.
SPECIFICATION FairSpec
CONSTANTS
  MaxSeg = 2
  MaxTotal = 3
  Sizes = {1, 2}
  Faults = {"power", "rotate", "offset"}
  MaxPuts = 3
  MaxFaults = 1
  None = None
PROPERTIES EventuallyProcessed DrainsRecords
CHECK_DEADLOCK FALSE
