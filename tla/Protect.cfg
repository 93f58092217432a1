SPECIFICATION FairSpec
CHECK_DEADLOCK FALSE
CONSTANTS
  w1 = w1
  w2 = w2
  s1 = s1
  s2 = s2
  t1 = t1
  None = None
  Home = Home
  Shared = Shared
  Workspaces = {w1}
  Templates <- Both
  Strategies = {s1}
  TemplateRefs <- NoTemplate
  StrategyRefs = {None, s1}
  ClusterDefaults <- Both
  DefaultStrategy <- StrategyDefaults
  MaxEdits = 2
  MaxGen = 1
  MaxCrashes = 0
  MaxFaults = 1
INVARIANTS Settled
PROPERTIES ProtectionConverges
