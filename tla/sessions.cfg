SPECIFICATION Spec
CONSTANTS
  Requests = {r1, r2, r3}
  Seed = seed
  Passwords = {p1, p2}
  MaxAttempts = 2
  Lockout = 1
  MaxClock = 1
  MaxFaults = 1
SYMMETRY RequestSymmetry
CHECK_DEADLOCK FALSE
INVARIANTS SuccessorMeansRevoked EndedStaysEnded LockAgrees
PROPERTIES LockHolds
