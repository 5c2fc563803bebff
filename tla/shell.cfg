SPECIFICATION ShellSpec
CONSTANTS
  Servers = {s1, s2}
  ServerTabs <- SomeTabs
  MaxContexts = 3
  Projects = {g1, g2}
  Regions = {r1}
  EnableCalls = {e1, e2}
  Deploys = {d1, d2}
SYMMETRY Interchangeable
INVARIANTS
  ShellTypeOK
  WizardIsAlone
  StackIsOrderly
  CursorIsOnItem
  QuestionIsAboutServer
  AnswersBelongTogether
