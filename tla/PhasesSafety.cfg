SPECIFICATION Spec
CONSTANTS
  Procs = {t1}
  Configs <- SafetyConfigs
  Commands <- AllCommands
INVARIANTS
  TypeOK
  NoOrphans
  DependentsHaveRecord
  TeardownSuccessMeansEmpty
  UpLeavesUsableRecord
PROPERTIES
  ClusterDestroyedLast
  GatewayDestroyedFirst
  DetachAfterTrial
  ImplementsHosting
