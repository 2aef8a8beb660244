\* One parallel loop, two operators (command line and API), one crash.
CONSTANTS
  Loops = {l1}
  Users = {u1, u2}
  Commands = {"discard", "retry", "merge", "api_merge", "api_force"}
  Primary = primary
  MaxSpawn = 2
  MaxKills = 1
  MaxLog = 20
  Idle = Idle
  Free = Free
SPECIFICATION FairSpec
PROPERTIES SpawnedRalphsEnd MergingIsResolved
\* Every loop ends and the operators have nothing left to do.
CHECK_DEADLOCK FALSE
