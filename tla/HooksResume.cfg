SPECIFICATION Spec
CONSTANTS
  HooksOf <- MCHooksOf
  Backoffs = 2
  MaxIterations = 2
  MaxLoops = 1
  MaxRequests = 3
  None = None
PROPERTY ResumeAnswersThisWait
CHECK_DEADLOCK FALSE
