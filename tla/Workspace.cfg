SPECIFICATION Spec
CONSTANTS
  None = None
  Names = {w1, w2}
  Terminals = {t1}
  KeyNames = {k1}
  Regions = {r1, r2}
  CosRegions = {us, tor}
  DefaultRegion = us
  Machines <- Hosts
  Answers <- Interviews
  Seeds <- Files
  MaxPairs = 2
  MaxRuns = 3
INVARIANTS
  KeysInCloud
PROPERTIES
  OnlyOwnCopiesGo
  CoordsComplete
  DeletedIsGone
SYMMETRY Twins
CHECK_DEADLOCK FALSE
