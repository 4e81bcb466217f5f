SPECIFICATION CallersSpec
CONSTANTS
  Accounts = {a1}
  Families = {f1}
  Tokens = {t1, t2, t3}
  Clients = {c1, c2}
  Keys = {k1}
  NoKey = NoKey
  InvalidKey = InvalidKey
  None = None
  Idle = 1
  Absolute = 2
  Window = 2
  MaxTime = 2
  MaxEpoch = 1
  ArbitraryTime = 1
SYMMETRY Interchangeable
INVARIANTS TypeOK FamiliesAreChains HonestFamilySurvives
PROPERTIES StaleRequestsAddNothing ImplementsTokenChain
