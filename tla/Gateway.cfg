SPECIFICATION FairSpec
CHECK_DEADLOCK FALSE
CONSTANTS
  r1 = r1
  r2 = r2
  alice = alice
  bob = bob
  Requests = {r1, r2}
  User = alice
  Owners = {alice, bob}
  AccessTypes = {"", "OwnerOnly"}
  Expiration = 2
  BootLife = 1
  Leeway = 0
  Window = 1
  Horizon = 2
  Latency = 1
  MaxAway = 8
  MaxChanges = 2
  MaxFaults = 1
  MaxTroubles = 2
  MaxLogins = 1
INVARIANTS TypeOK
PROPERTIES AuthorisedRecently KeepsPromise ShutOutEnds
