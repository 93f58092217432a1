SPECIFICATION FairSpec
CHECK_DEADLOCK FALSE
CONSTANTS
  s1 = s1
  s2 = s2
  a = a
  b = b
  None = None
  Strategies = {s1, s2}
  Routes = {a, b}
  Templates <- TwoTemplates
  TemplateSets = {}
  Revs = {1, 2}
  FirstRev = 1
  FirstDesired = {"Running"}
  FirstRefs = {s1}
  UsesStorage = FALSE
  IdleShutdown = FALSE
  Strays = {}
  Prompt = {}
  MaxEdits = 1
  MaxCrashes = 0
  MaxFaults = 1
PROPERTIES Converges
