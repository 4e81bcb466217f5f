CONSTANTS
  Providers = {p1, p2}
  Clients = {c1}
  Kids = {k1}
  TaskIds = {t1, t2}
  None = None
  Ttls = {1}
  StaleIfError = 1
  Cooldown = 1
  MaximumUnknown = 1
  CloseCancellable = FALSE
  MaxTime = 0
  MaxGeneration = 2
CHECK_DEADLOCK FALSE
SPECIFICATION JWKSFairSpec
INVARIANTS RefreshesAreOwned
PROPERTIES NobodyWaitsForEver ForcedFetchesAreRationed
