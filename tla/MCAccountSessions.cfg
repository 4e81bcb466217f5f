SPECIFICATION Spec
CONSTANTS
  Accounts = {a1}
  Requests = {r1, r2}
  MaxEpoch = 2
  MaxSessions = 3
  MaxChallenges = 1
SYMMETRY Interchangeable
INVARIANTS SessionsAreSound ChallengesAreSpentOnce
PROPERTIES WithdrawnStaysWithdrawn
