SPECIFICATION FairSpec
CONSTANTS
  Names = {n1}
  MachineTypes = {small, large}
  WizardTypes = {large}
  Catalog = {small, large}
  Servers = {s1}
  Tasks = {t1}
  Flows = {p1}
  Nobody = Nobody
  MaxPolls = 1
  MaxFaults = 1
  NamesAgree = TRUE
  MayExit = TRUE
  Ops <- AllOps
INVARIANTS
  TypeOK
  ErrorOnlyAfterFailure
  ResizeOutcome
  ArchiveOutcome
PROPERTIES
  MeetsContract
  OperationEnds
