SPECIFICATION FairSpec
CONSTANTS
  HooksOf <- MCHooksOf
  Backoffs = 2
  MaxIterations = 2
  MaxLoops = 2
  MaxRequests = 3
  None = None
INVARIANTS TypeOK StateTellsTheWait ReasonStands
PROPERTIES BoundariesHold StopIsHonoured RestartEnds StopEnds
CHECK_DEADLOCK FALSE
