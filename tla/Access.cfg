SPECIFICATION Spec
CHECK_DEADLOCK FALSE
ACTION_CONSTRAINT PromptCaches
CONSTANTS
  s1 = s1
  s2 = s2
  a = a
  b = b
  None = None
  Strategies = {s1, s2}
  Routes = {a, b}
  Templates <- TwoTemplates
  TemplateSets = {}
  Revs = {1, 2}
  FirstRev = 1
  FirstDesired = {"Running"}
  FirstRefs = {s1}
  UsesStorage = FALSE
  IdleShutdown = FALSE
  Strays = {"route"}
  Prompt = {"dep", "svc", "pvc"}
  MaxEdits = 2
  MaxCrashes = 1
  MaxFaults = 1
INVARIANTS  UnownedTracked NoLeak
