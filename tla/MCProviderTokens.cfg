SPECIFICATION FairSpec
CONSTANTS
  a1 = a1
  a2 = a2
  i1 = i1
  i2 = i2
  google = google
  Accounts = {a1, a2}
  Locals <- OneLocal
  Identities = {i1, i2}
  ProviderOf <- OneProvider
  Tokens = {1, 2, 3}
  Refreshers = {r1, r2}
  Revokers = {r2}
  Retained = {i1}
  Locks = {k1, k2}
  MaxVersion = 2
  NoOne = NoOne
  NoToken = 0
  NoLock = NoLock
CHECK_DEADLOCK FALSE
INVARIANTS RefreshesAreSerial LinksAreAccountedFor
PROPERTIES NothingIsStranded RequestsEnd
