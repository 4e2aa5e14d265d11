SPECIFICATION Spec
CONSTANTS
  Proc = {p1}
  Turns = {t1, t2}
  c1 = c1
  c2 = c2
  Conv <- EachItsOwn
  Ids <- ChatIds
  MaxActive = 1
  DailyLimit = 2
  PendingMax = 2
  Attempts = 2
  MaxEvents = 1
  MaxLate = 1
  MaxFaults = 2
  Pauses = TRUE
  Overtaking = FALSE
  None = None
SYMMETRY Sym
INVARIANTS TypeOK OneEnding NoStrayTurn NoResurrection RejectionIsDefinitive
