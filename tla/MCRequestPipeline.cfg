SPECIFICATION Spec
CONSTANTS
  a = a
  svc = svc
  k1 = k1
  k2 = k2
  s1 = s1
  Unbounded = Unbounded
  Never = Never
  Anonymous = Anonymous
  Keys = {k1, k2}
  KeyOwner <- MCKeyOwner
  KeyBounds <- MCKeyBounds
  KeyExpiry <- MCKeyExpiry
  FirstKeys = {k1}
  Overlaps = {0, 2}
  UsageCapacity = 1
  UsageInterval = 2
  Accounts = {a}
  LocalIssuer = "local"
  LocalAudience = "api"
  ProviderKeys <- MCProviderKeys
  ForeignTokens <- MCForeignTokens
  BearerSlots <- MCBearerSlots
  LogoutProfile <- MCLogoutProfile
  FirstTokens <- MCFirstTokens
  Lifetime = 1
  Skew = 1
  MaxKeys = 2
  MaxTokens = 2
  MaxEpoch = 1
  Sessions = {s1}
  MappingOf <- MCMappingOf
  BindingOf <- MCBindingOf
  Mechanisms <- MCMechanisms
  Defaults <- MCDefaults
  SessionCapable <- MCSessionCapable
  CSRFConfigured = TRUE
  Origins = TRUE
  Route <- MCRoute
  KeysAsBearer = TRUE
  SessionExpiry = 2
  ConnectTokens <- MCConnectTokens
  Resolvers = {TRUE, FALSE}
  AuthorityOf <- MCAuthorityOf
  LoginEvidence <- MCLoginEvidence
  Purposes = {"download"}
  Genuine <- MCGenuine
  Expect <- MCExpect
  MaxCredentials = 2
  MaxEvents = 3
  MaxTime = 2
INVARIANTS AdmissionsAreSound RefusalsAreDeserved AuthorityIsBounded CookieAdmissionsAreCovered TokensAndKeysAreKeptApart
PROPERTIES KeysStayDead
