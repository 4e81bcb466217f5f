CONSTANTS
  Accounts = {a1}
  WithLocalLogin = {a1}
  Identities = {i1, i2}
  Sessions = {s1, s2}
  Grants = {g1}
  Transactions = {t1, t2}
  Requests = {r1, r2}
  StepUpPurposes = {"oauth-link", "oauth-scope-upgrade", "oauth-unlink", "oauth-provider-token-management"}
  Reauthentication = {"oauth-link"}
  ProvisionUnknown = TRUE
  Capacity = 1
  HasClock = TRUE
  MaxEpoch = 1
  NoOne = NoOne
  NoGrant = NoGrant
  NoTransaction = NoTransaction
CHECK_DEADLOCK FALSE
SYMMETRY Interchangeable
SPECIFICATION Spec
INVARIANTS EffectsAreAuthorized
PROPERTIES OnlyLiveTransactionsFill
