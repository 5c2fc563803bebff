SPECIFICATION SessionSpec
CONSTANTS
  MaxSessions = 4
  MaxLines = 2
INVARIANTS
  HangsOnlyInCompany
  TunnelsAreClosed
  NobodysConnection
  CommandsStayInTab
CHECK_DEADLOCK FALSE
