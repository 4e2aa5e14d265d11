SPECIFICATION FairSpec
CONSTANTS
  None = None
  p = p
  q = q
  r = r
  Generations = {0, 1, 2}
  Items <- MCItems
  Servers = {s1, s2}
  Jobs = {j1, j2}
  Calls = {c1}
  MaxJobs = 2
  MaxFaults = 1
  Rollbacks = TRUE
INVARIANTS
  TypeOK
  DeletedEverywhere
PROPERTIES
  OneCatalogSpec
  ServiceSettles
CHECK_DEADLOCK FALSE
