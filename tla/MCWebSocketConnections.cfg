SPECIFICATION FairSpec
CONSTANTS
  Conns = {c1, c2}
  Tokens = {t1}
  NoToken = NoToken
  Hooks = {"revoke", "refresh"}
  Talkers = {c1}
  MaxEpoch = 1
CHECK_DEADLOCK FALSE
INVARIANTS AdmissionsAreSound NothingFollowsTheClose
PROPERTIES DoomedSocketsEnd
