SPECIFICATION Spec
CHECK_DEADLOCK FALSE
SYMMETRY Symmetric
CONSTANTS
  w1 = w1
  w2 = w2
  s1 = s1
  s2 = s2
  t1 = t1
  None = None
  Home = Home
  Shared = Shared
  Workspaces = {w1, w2}
  Templates <- Home1
  Strategies = {}
  TemplateRefs <- OneRef
  StrategyRefs = {None}
  ClusterDefaults = {}
  DefaultStrategy <- NoDefaults
  MaxEdits = 3
  MaxGen = 2
  MaxCrashes = 0
  MaxFaults = 1
INVARIANTS TypeOK Settled
PROPERTIES ObservedGeneration
