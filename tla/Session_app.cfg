SPECIFICATION FairSpec
CONSTANTS
  RedialWindow = 1
  Sights = {"s1"}
  MaxOps = 2
  MaxTime = 0
  MaxInFlight = 2
  MaxRefusedWrites = 1
  MaxUserActs = 2
  AppCaller = TRUE
INVARIANTS  CompletedWasPerformed
PROPERTIES WithdrawnUntilAppearance WaitsAreBounded
CHECK_DEADLOCK FALSE
