\* Fragments left by writes that failed or were cut short; no eviction.
SPECIFICATION Spec
CONSTANTS
  MaxSeg = 2
  MaxTotal = 20
  Sizes = {1, 2}
  Faults = {"torn", "short", "rotate"}
  MaxPuts = 4
  MaxFaults = 2
  None = None
INVARIANTS DamageConfined
CHECK_DEADLOCK FALSE
