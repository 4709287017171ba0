SPECIFICATION Spec
CONSTANTS
  Clients = {c1}
  Strangers = {}
  MaxPair = 1
  Cards = {k1, k2}
  Faults = {"install", "unread"}
  AppWatches = FALSE
INVARIANTS TypeOK NothingAfterQuit NothingUntracked WaitingFollowsCard
SYMMETRY Symmetry
