SPECIFICATION FairAppSpec
CONSTANTS
  Processes = {p1, p2}
  Nobody = Nobody
  Servers = {s1}
  LastVersion = 2
INVARIANTS
  MigrationsRecorded
  ReadyIsMigrated
  StartFailsOnlyInCompany
  ChoiceIsKept
  ShownIsStored
  NoServerIsMissed
PROPERTY StartEnds
