SPECIFICATION FairSpec
CONSTANTS
  infra = infra
  dns = dns
  cne = cne
  Leaves = {infra, dns}
  Root = cne
  Remade = {dns}
  Protected = {dns}
  Budget = 3
  Grace = 1
  MaxAttempts = 2
INVARIANTS
  TypeOK
PROPERTIES
  RootAfterLeaves
  GiveUpOnEvidence
  RepairOnlyOrphans
  TeardownReturns
  OrphansAreFreed
CHECK_DEADLOCK FALSE
