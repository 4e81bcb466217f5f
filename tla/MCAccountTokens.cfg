SPECIFICATION Spec
CONSTANTS
  a = a  b = b  c = c  r1 = r1  r2 = r2
  Requests = {r1, r2}
  Policies <- MCPolicies
  Clients = {c}
  Extracted = {c, "none"}
  Subjects = {a, b}
  Members = {a}
  Unkeyed = "none"
  Mode = "invite_only"
  RequireVerification = TRUE
  MaxAttempts = 2
  Lifetime = 1
  MaxTime = 1
  MaxEpoch = 3
  MaxIssued = 4
  MaxRequests = 3
  Outstanding <- MCOutstanding
SYMMETRY Symmetry
CHECK_DEADLOCK FALSE
INVARIANTS TokensServeOnce EpochsEndOnce RegistersAgree RateLimitsHold
