SPECIFICATION Spec
CONSTANTS
  Kinds = {"text", "command"}
  MaxMessages = 2
  MaxQuestions = 2
  MaxRuns = 2
INVARIANTS TypeOK PendingTellsTheWait MessagesHandled
PROPERTIES AnswersFit
CHECK_DEADLOCK FALSE
