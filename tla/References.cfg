SPECIFICATION Spec
CHECK_DEADLOCK FALSE
SYMMETRY Interchangeable
CONSTANTS
  w1 = w1
  w2 = w2
  s1 = s1
  s2 = s2
  t1 = t1
  None = None
  Home = Home
  Shared = Shared
  Workspaces = {w1}
  Templates = {}
  Strategies = {s1, s2}
  TemplateRefs <- NoTemplate
  StrategyRefs = {None, s1, s2}
  ClusterDefaults = {}
  DefaultStrategy <- NoDefaults
  MaxEdits = 3
  MaxGen = 1
  MaxCrashes = 1
  MaxFaults = 1
INVARIANTS Settled
