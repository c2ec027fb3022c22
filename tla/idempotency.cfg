SPECIFICATION FairSpec
CONSTANTS
  Requests = {r1, r2, r3, r4}
  NoResource = NoResource
  MaxFaults = 2
CHECK_DEADLOCK FALSE
INVARIANTS ReplayIsReal
PROPERTIES ExecutedOnce EveryAttemptEnds
