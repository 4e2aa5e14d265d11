SPECIFICATION Spec
CONSTANTS
  Proc = {p1}
  Turns = {t1, t2}
  c1 = c1
  c2 = c2
  Conv <- OneConversation
  Ids <- ChatIds
  MaxActive = 2
  DailyLimit = 2
  PendingMax = 2
  Attempts = 2
  MaxEvents = 0
  MaxLate = 1
  MaxFaults = 1
  Pauses = FALSE
  Overtaking = TRUE
  None = None
INVARIANT RejectionIsDefinitive
