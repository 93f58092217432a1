SPECIFICATION Spec
CHECK_DEADLOCK FALSE
SYMMETRY Symmetric
CONSTANTS
  k1 = k1
  k2 = k2
  k3 = k3
  c1 = c1
  c2 = c2
  Keys = {k1, k2, k3}
  Calls = {c1, c2}
  Expiration = 2
  Buffer = 1
  Interval = 1
  MaxCache = 2
  EvictBatch = 1
  MaxTime = 5
INVARIANTS TypeOK CacheBound
PROPERTIES CleanupsApart CleanupSparesLive
