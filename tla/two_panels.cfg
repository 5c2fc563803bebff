SPECIFICATION Spec
CONSTANTS
  Names = {n1}
  MachineTypes = {small, large}
  WizardTypes = {small, large}
  Catalog = {small, large}
  Servers = {s1}
  Tasks = {t1}
  Flows = {p1, p2}
  Nobody = Nobody
  MaxPolls = 1
  MaxFaults = 1
  NamesAgree = TRUE
  MayExit = FALSE
  Ops <- RivalOps
SYMMETRY Symmetry
INVARIANTS
  EveryVmIsListed
  ArchivedIsSaved
  FailureExplained
  OnlineHasAddress
PROPERTY WorldIsSaved
