SPECIFICATION Spec
CONSTANTS
  Threads = {t1, t2}
  Cards = {k1, k2}
  NoCard = NoCard
  NoReader = NoReader
  Pins = {"p", "q"}
  PinChange = TRUE
  Initially <- MCInitially
  MaxCalls = 3
  MaxEnds = 1
  MaxSessions = 1
  MaxOther = 1
  MaxLost = 1
  MaxInits = 1
  MaxMoves = 2
INVARIANTS TypeOK RejectedNeverHeld EndedLoginStaysEnded OwnCardOnly NoCircularWait
SYMMETRY Symmetric
CHECK_DEADLOCK FALSE
