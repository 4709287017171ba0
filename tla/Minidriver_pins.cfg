SPECIFICATION Spec
CONSTANTS
  k1 = k1
  k2 = k2
  NoCard = NoCard
  Contexts = {x1, x2}
  Cards = {k1, k2}
  Contactless = {k2}
  Pins = {"p", "q"}
  Initially <- MCInitially
  MaxCalls = 3
  MaxOther = 1
  MaxFaults = 2
INVARIANTS HeldIsGood QualifiedIsEntered
PROPERTIES KeepsTries RejectedOnce
CHECK_DEADLOCK FALSE
SYMMETRY Symmetric
