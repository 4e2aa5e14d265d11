SPECIFICATION Spec
CONSTANTS
  Proc = {p1, p2}
  Turns = {t1}
  c1 = c1
  c2 = c2
  Conv <- OneConversation
  Ids <- ChatIds
  MaxActive = 1
  DailyLimit = 2
  PendingMax = 2
  Attempts = 2
  MaxEvents = 0
  MaxLate = 0
  MaxFaults = 2
  Pauses = FALSE
  Overtaking = FALSE
  None = None
SYMMETRY SymProc
INVARIANTS NoStrayTurn RecoveryAlone
PROPERTIES GeneratedOnce
