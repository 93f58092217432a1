SPECIFICATION Spec
CHECK_DEADLOCK FALSE
CONSTANTS
  s1 = s1
  s2 = s2
  a = a
  b = b
  None = None
  Strategies = {s1}
  Routes = {a}
  Templates <- OneTemplate
  TemplateSets = {}
  Revs = {1}
  FirstRev = 1
  FirstDesired = {"Running"}
  FirstRefs = {s1}
  UsesStorage = FALSE
  IdleShutdown = FALSE
  Strays = {}
  Prompt = {}
  MaxEdits = 1
  MaxCrashes = 0
  MaxFaults = 0
PROPERTIES StoppedMeansNoRoutes
