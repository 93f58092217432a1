SPECIFICATION FairSpec
CHECK_DEADLOCK FALSE
CONSTANTS
  p1 = p1
  c1 = c1
  c2 = c2
  Pods = {p1}
  Handlers = {c1, c2}
  MaxSessions = 1
  MaxLoad = 4
  MaxRestarts = 2
  MaxDamages = 1
  MaxFaults = 1
  MaxCrashes = 1
INVARIANTS TypeOK SetUp FoundIsLive CleanedUp SessionBound
PROPERTIES EventuallySetUp
