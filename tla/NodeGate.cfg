SPECIFICATION GateSpec
CONSTANTS
  n1 = n1
  n2 = n2
  Nodes = {n1, n2}
  Budget = 3
  CollectTime = 2
  ReadyTime = 5
  MaxRuns = 2
  MaxFlaps = 2
INVARIANTS
  PassedMeansReached
PROPERTIES
  GateEnds
CHECK_DEADLOCK FALSE
