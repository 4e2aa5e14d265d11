SPECIFICATION FairSpec
CONSTANTS
  None = None
  h1 = h1
  h2 = h2
  c1 = c1
  c2 = c2
  p1 = p1
  p2 = p2
  w1 = w1
  w2 = w2
  Recipients = {r1}
  MaxVersion = 2
  Hashes = {h1}
  Catalogs = {c1}
  TagStatuses = {"ok"}
  UsableTags = {"ok"}
  Processes = {p1}
  Workers = {w1, w2}
  QueueMax = 1
  MaxInFlight = 1
  MaxAttempts = 1
  BodiesPerVersion = 1
  MaxFaults = 1
  LockCanFail = FALSE
  Integrated = TRUE
  Home <- OneHome
PROPERTIES
  EventuallyAnswered
CHECK_DEADLOCK FALSE
