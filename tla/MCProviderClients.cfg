CONSTANTS
  web = web
  github = github
  realm = realm
  sibling = sibling
  OIDC = {web}
  GitHub = {github}
  Issuers = {realm, sibling, github}
  IssuerOf <- MCIssuerOf
  SharesOrigin <- MCSharesOrigin
  OtherClient = other
  Flows = {f1}
  Kids = {k1, k2}
  None = None
  Allowed = {openid, email}
  Required = {openid}
  Unlisted = {admin}
  MaxEvents = 4
CHECK_DEADLOCK FALSE
SYMMETRY Interchangeable
SPECIFICATION ClientsSpec
INVARIANTS LoginsAreSound GrantsAreKept
PROPERTIES ProperTokensAreAccepted
