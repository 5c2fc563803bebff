SPECIFICATION FairRconSpec
CONSTANTS
  MaxSockets = 2
  MaxCalls = 3
  MaxReplies = 2
INVARIANTS
  PendingIsTimed
  ConnectedHasSocket
  AnswersOnce
  WrongAnswerHasCause
PROPERTIES
  CallsEnd
  IsOneSlot
