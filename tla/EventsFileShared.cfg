\* Three processes append at once, one of them may be killed.
CONSTANTS
  Writers = {w1, w2, w3}
  TextLen = 5
  MaxEvents = 4
  MaxKills = 1
SPECIFICATION Spec
SYMMETRY Symmetry
INVARIANTS TypeOK ReadsGoForward IntactIsDelivered LossIsReported
PROPERTY ChannelUntilDisturbed
