SPECIFICATION KubeSpec
CONSTANTS
  a = a
  b = b
  c1 = c1
  c2 = c2
  c3 = c3
  t1 = t1
  t2 = t2
  Workspaces = {a, b}
  Clusters = {c1, c2, c3}
  Terminals = {t1, t2}
  First = {c1, c2}
  Owner <- OwnerOf
  Verbs = {"k", "kubectl", "exec", "shell", "refresh", "download", "up", "down", "plan"}
  MaxCommands = 2
  MaxAges = 2
INVARIANTS
  RightCluster
PROPERTIES
  ResolverIsRight
SYMMETRY SymmetricTerminals
CHECK_DEADLOCK FALSE
