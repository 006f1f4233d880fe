\* Two requests that reload; two evaluations that overlap; one message and three
\* configurations; short conditions.
SPECIFICATION MCSpec
CONSTANTS
  Parts = {"reload", "events", "rules", "conditions"}
  r1 = r1
  r2 = r2
  j1 = j1
  j2 = j2
  g1 = g1
  g2 = g2
  Requesters = {r1, r2}
  PackKinds <- MCPackKinds
  MaxWrites = 3
  MaxBoots = 1
  Defs = {"agg"}
  Groups <- MCGroups
  Grace <- MCGrace
  Jobs = {j1, j2}
  MaxClock = 3
  MaxFired = 3
  MaxEngines = 1
  Idents = {"has", "eq", "gt", "true", "false", "a"}
  Numbers <- MCNumbers
  Accepts <- MCAccepts
  Coerced <- MCCoerced
  Extracts <- MCExtracts
  LookupRows <- MCLookupRows
  Conditions <- MCConditions
  CondCompiles <- Compilable
  CondHolds <- HoldsOf
  Configs <- MCConfigs
  Arrivals <- MCArrivals
INVARIANTS TypeOK ReloadsConverge GraceKept ConditionsMean RoutedByTheRules
SYMMETRY Symmetry
CHECK_DEADLOCK FALSE
