\* Three processes at a time, three tasks, five commands, of which one may be
\* killed while it writes.
CONSTANTS
  Clients = {c1, c2, c3}
  Ids = {i1, i2, i3}
  Keys = {k1}
  NoKey = NoKey
  MaxRuns = 5
  MaxKills = 1
SPECIFICATION Spec
SYMMETRY Symmetry
INVARIANTS TypeOK OneTaskPerKey AnswersAreKept
\* The commands may have run out.
CHECK_DEADLOCK FALSE
