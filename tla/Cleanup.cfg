SPECIFICATION Spec
CONSTANTS
  None = None
  Inputs <- AllInputs
  MaxHops = 2
  Prefix = "p"
  Resource <- Name
  MaxSweeps = 1
INVARIANTS
  ToldAsAsked
  OwnConnectionFirst
PROPERTIES
  AdoptedKept
  DetachIsOurs
CHECK_DEADLOCK FALSE
