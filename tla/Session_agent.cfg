SPECIFICATION FairSpec
CONSTANTS
  RedialWindow = 1
  Sights = {"s1"}
  MaxOps = 1
  MaxTime = 1
  MaxInFlight = 1
  MaxRefusedWrites = 0
  MaxUserActs = 2
  AppCaller = FALSE
INVARIANTS TypeOK ViewFollowsSession RevocationHeeded WithdrawnOffersNothing
PROPERTIES WithdrawnUntilAppearance WithdrawalEndsSessions
CHECK_DEADLOCK FALSE
