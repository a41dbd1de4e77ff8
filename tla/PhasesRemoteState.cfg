SPECIFICATION Spec
CONSTANTS
  Procs = {t1}
  Configs <- RemoteConfigs
  Commands <- UpDownCommands
INVARIANT TeardownSuccessMeansEmpty
