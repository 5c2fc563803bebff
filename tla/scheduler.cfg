SPECIFICATION FairSchedulerSpec
CONSTANTS
  Callers = {f1, f2}
  Users = {"root", "zomboid"}
  Accepted = {"zomboid"}
  MaxClients = 2
  Tasks = {t1, t2}
  Unparsable = {t2}
INVARIANTS
  SchedulerTypeOK
  CommandsAreLoggedIn
  FewOrphans
  CrontabFollowsTable
PROPERTY SyncEnds
