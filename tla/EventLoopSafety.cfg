SPECIFICATION Spec
CONSTANTS
  Hats <- MCHats
  Ralph = "ralph"
  Human = "human"
  Topics <- MCTopics
  HumanTopics = {"human.guidance"}
  Triggers <- MCTriggers
  CatchAll = {}
  EntryTopics = {"task.start", "task.resume"}
  Rank <- MCRank
  Payloads = {"text", "pass"}
  Garbage = Garbage
  None = None
  Emits <- AnyLine
  StartTopic = "task.start"
  Complete = "LOOP_COMPLETE"
  Cancel = "loop.cancel"
  Required = {"build.done"}
  Persistent = FALSE
  TasksGate = FALSE
  EnforceScope = FALSE
  Publishes <- MCPublishes
  Defaults <- DefaultsOfAll
  MaxActivations <- LimitOne
  MaxIterations = 3
  MaxFailures = 2
  LatePolls = 1
  EmitPolls = 1
  Outputs <- Talking
  Signals = {"interrupt", "stop"}
  MaxUnread = 2
INVARIANTS TypeOK RunsWithinLimits ActivationsBounded GrantedEndsLoop CancelledIsReported
PROPERTIES SeenIsDelivered
CHECK_DEADLOCK FALSE
