SPECIFICATION Spec
CONSTANTS
  Instances = {s1}
  Pairs = {a,b}
  MaxRefused = 2
  MaxUnreadable = 1
  MaxCrashes = 2
INVARIANTS TypeOK ServingWasConfirmed EndedStaysEnded PairedIsKept
PROPERTY ImplementsLifecycle
CHECK_DEADLOCK FALSE
