SPECIFICATION Spec
CHECK_DEADLOCK FALSE
SYMMETRY Symmetric
CONSTANTS
  r1 = r1
  r2 = r2
  alice = alice
  bob = bob
  root = root
  t1 = t1
  i1 = i1
  i2 = i2
  theirs = theirs
  None = None
  Requests = {r1, r2}
  Users = {alice, bob}
  Admin = root
  Templates = {t1}
  Accounts = {"default", "team"}
  Images = {i1, i2}
  Claims = {theirs}
  Foreign = {theirs}
  Forms <- SomeForms
  FirstForms <- OneForm
  Labelled = {"team"}
  Grants <- SomeGrants
  Quantities <- SomeQuantities
  Stores <- SomeStores
  Drafts <- SomeDrafts
  MaxRequests = 3
  MaxEdits = 1
INVARIANTS TypeOK Vetted Settled
PROPERTIES OwnerOnlyHeld StopRefusals TighteningAnnounced
