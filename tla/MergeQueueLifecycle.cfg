\* One process at a time: the queue implements the life cycle.
CONSTANTS
  Loops = {l1, l2}
  Clients = {c1}
  MaxLog = 5
  Idle = Idle
SPECIFICATION Spec
INVARIANT TypeOK
PROPERTY FollowsLifecycle
