SPECIFICATION Spec
CHECK_DEADLOCK FALSE
CONSTANTS
  s1 = s1
  s2 = s2
  a = a
  b = b
  None = None
  Strategies = {}
  Routes = {}
  Templates <- NoTemplates
  TemplateSets = {}
  Revs = {1}
  FirstRev = 1
  FirstDesired = {"Running", "Stopped"}
  FirstRefs = {None}
  UsesStorage = TRUE
  IdleShutdown = TRUE
  Strays = {"pod", "dep", "svc"}
  Prompt = {}
  MaxEdits = 2
  MaxCrashes = 1
  MaxFaults = 0
INVARIANTS TypeOK OneCondition Settled
PROPERTIES StatusMatchesSpec StorageSurvivesStop NoResurrection SpecOnlyFromUsers
