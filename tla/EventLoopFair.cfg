SPECIFICATION FairSpec
CONSTANTS
  Hats <- MCHats
  Ralph = "ralph"
  Human = "human"
  Topics <- MCTopics
  HumanTopics = {"human.guidance"}
  Triggers <- MCTriggers
  CatchAll = {}
  EntryTopics = {"task.start", "task.resume"}
  Rank <- MCRank
  Payloads = {"text", "pass"}
  Garbage = Garbage
  None = None
  Emits <- WorkAndEnds
  StartTopic = "task.start"
  Complete = "LOOP_COMPLETE"
  Cancel = "loop.cancel"
  Required = {"build.done"}
  Persistent = FALSE
  TasksGate = TRUE
  EnforceScope = TRUE
  Publishes <- MCPublishes
  Defaults <- NoDefaults
  MaxActivations <- NoLimits
  MaxIterations = 2
  MaxFailures = 2
  LatePolls = 1
  EmitPolls = 1
  Outputs <- Mentions
  Signals = {"guidance", "restart"}
  MaxUnread = 2
PROPERTIES Terminates CompletionIsEarned
CHECK_DEADLOCK FALSE
