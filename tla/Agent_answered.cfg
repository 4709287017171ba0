SPECIFICATION LiveSpec
CONSTANTS
  Clients = {c1}
  Strangers = {}
  MaxPair = 1
  Cards = {}
  Faults = {"removal", "unread"}
  AppWatches = FALSE
 
PROPERTY TakenIsAnswered
