SPECIFICATION Spec
CONSTANTS
  k1 = k1
  k2 = k2
  NoCard = NoCard
  Tools = {t1}
  Callers = {"settings", "window"}
  Cards = {k1, k2}
  Initially <- MCInitially
  Interleaved = FALSE
  MaxOps = 2
  MaxOther = 1
  MaxLost = 1
INVARIANTS UsedPinKept
PROPERTIES  ShownCardOnly OneTrySpent
CHECK_DEADLOCK FALSE
