SPECIFICATION Spec
CONSTANTS
  Parts = {"runs", "tags", "pool", "loads", "migrations", "fixture", "launcher", "credential", "login", "console", "requests", "records", "cards", "gifts", "stream", "reports", "talks", "connections", "bridge", "page", "bindings", "shell", "launch", "vocabulary", "embedding", "gate"}
  Nil = Nil
  a1 = a1
  a2 = a2
  a3 = a3
  b1 = b1
  b2 = b2
  c1 = c1
  c2 = c2
  c3 = c3
  d1 = d1
  d2 = d2
  Idents = {a1, a2, a3, c1}
INVARIANTS
  PartsTypeOK
  ProfileIsVerified
  PoolIsRight
  CatalogIsWhole
  UpgradesAreSafe
  SearchHolds
  BindingsHold
  EncoderIsSafe
  GateIsSafe
  GiftsHold
  StreamHolds
  SendersHold
PROPERTIES
  FixtureHolds
  SecretsHold
  ConsoleHolds
  ConnectionsHold
CONSTRAINT Bounded
SYMMETRY Interchangeable
CHECK_DEADLOCK FALSE
