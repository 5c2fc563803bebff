SPECIFICATION Spec
CONSTANTS
  Names = {n1}
  MachineTypes = {small, large}
  WizardTypes = {small, large}
  Catalog = {small, large}
  Servers = {s1}
  Tasks = {}
  Flows = {p1}
  Nobody = Nobody
  MaxPolls = 1
  MaxFaults = 0
  NamesAgree = TRUE
  MayExit = TRUE
  Ops <- ResizeOps
INVARIANT MemoryIsResized
