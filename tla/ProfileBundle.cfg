SPECIFICATION BundleSpec
CONSTANTS
  c1 = c1
  c2 = c2
  None = None
  Profiles = {"a", "b"}
  Clients = {c1, c2}
  Calls <- MCCalls
  Selections <- MCSelections
  MaxBuilds = 2
  MaxKills = 1
CONSTRAINT TwoAtWork
INVARIANTS
  PackedBundleVerifies
  VerifiedBundleLoads
PROPERTY
  ImportIsDelivery
