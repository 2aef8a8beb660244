\* Two parallel loops, an operator (command line or API), one crash.
CONSTANTS
  Loops = {l1, l2}
  Users = {u1}
  Commands = {"discard", "retry", "merge", "api_merge", "api_force"}
  Primary = primary
  MaxSpawn = 2
  MaxKills = 1
  MaxLog = 20
  Idle = Idle
  Free = Free
SPECIFICATION Spec
SYMMETRY Symmetry
INVARIANTS TypeOK OneInPlaceLoop MergedIsMerged StoryInOrder
\* Every loop ends and the operators have nothing left to do.
CHECK_DEADLOCK FALSE
