SPECIFICATION ExecSpec
CONSTANT Backends = {"local", "docker", "k8s", "ops", "ssh"}
INVARIANTS
  ExitIsTheTools
  SecretAccounted
PROPERTIES
  NothingLeft
  RunReturns
CHECK_DEADLOCK FALSE
