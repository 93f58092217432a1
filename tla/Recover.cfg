SPECIFICATION Spec
CHECK_DEADLOCK FALSE
CONSTANTS
  p1 = p1
  c1 = c1
  c2 = c2
  Pods = {p1}
  Handlers = {}
  MaxSessions = 1
  MaxLoad = 2
  MaxRestarts = 1
  MaxDamages = 0
  MaxFaults = 0
  MaxCrashes = 0
INVARIANTS Recovered
