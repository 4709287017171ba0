SPECIFICATION Spec
CONSTANTS
  Instances = {s1,s2}
  Pairs = {a}
  MaxRefused = 0
  MaxUnreadable = 0
  MaxCrashes = 0
INVARIANTS EndedStaysEnded
CHECK_DEADLOCK FALSE
