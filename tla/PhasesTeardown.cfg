SPECIFICATION FairSpec
CONSTANTS
  Procs = {t1}
  Configs <- ProxyConfigs
  Commands <- ProxyCommands
PROPERTY TeardownCompletes
