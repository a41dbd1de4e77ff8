SPECIFICATION TfvarsSpec
CONSTANTS
  ea23 = ea23
  ga24 = ga24
  TPhases = {"trial", "gateway", "flp"}
  Versions = {ea23, ga24}
  LineOf <- MCLines
  UserFiles <- MCUserFiles
  VarFiles <- MCVarFiles
  Prefixed = FALSE
  Backends = {"local", "docker"}
INVARIANTS
  DestroyReplaysApply
PROPERTIES
  VersionFixed
SYMMETRY MCSymmetry
