SPECIFICATION Spec
CONSTANTS
  alice = alice  bob = bob  web = web  app = app  r1 = r1  r2 = r2
  Accounts = {alice, bob}
  Transports = {web, app}
  Owner <- MCOwner
  Requests = {r1, r2}
  Purposes = {"totp-enroll", "totp-remove", "recovery-codes", "passkey-register", "passkey-remove"}
  Veteran = alice
  CodeCount = 1
  Drift = 1
  Lifetime = 1
  RejectClones = TRUE
  MaxTime = 1
  MaxEpoch = 2
  MaxIssued = 2
  MaxFactors = 2
  MaxSets = 2
  MaxCount = 1
  MaxVersion = 3
  MaxRequests = 4
SYMMETRY Symmetry
CHECK_DEADLOCK FALSE
INVARIANTS CodesAreAcceptedOnce FactorsAreSound AssertionsAdvance
