SPECIFICATION Spec
CONSTANTS
  Proc = {p1}
  Turns = {t1, t2}
  c1 = c1
  c2 = c2
  Conv <- EachItsOwn
  Ids <- ChatIds
  MaxActive = 2
  DailyLimit = 2
  PendingMax = 2
  Attempts = 3
  MaxEvents = 0
  MaxLate = 1
  MaxFaults = 1
  Pauses = TRUE
  Overtaking = FALSE
  None = None
PROPERTY PausedTurnsFinish
