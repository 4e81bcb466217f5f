CONSTANTS
  Providers = {p1}
  Clients = {c1, c2}
  Kids = {k1}
  TaskIds = {t1, t2}
  None = None
  Ttls = {1}
  StaleIfError = 1
  Cooldown = 1
  MaximumUnknown = 1
  CloseCancellable = TRUE
  MaxTime = 2
  MaxGeneration = 1
CHECK_DEADLOCK FALSE
SPECIFICATION JWKSSpec
SYMMETRY Interchangeable
INVARIANTS ServedKeysAreCurrent CoordinationIsSound
