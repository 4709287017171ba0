SPECIFICATION LiveSpec
CONSTANTS
  Clients = {c1}
  Strangers = {c1}
  MaxPair = 1
  Cards = {k1}
  Faults = {"install"}
  AppWatches = TRUE
PROPERTY EndedIsWithdrawn
