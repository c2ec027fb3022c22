SPECIFICATION LimitsSpec
CONSTANTS
  Requests = {r1, r2}
  Decimals <- MCDecimals
  Window = 0
  MaxClock = 1
  MaxFailures = 2
SYMMETRY RequestSymmetry
INVARIANTS DailyLimitUnlessRaced RunningBalanceIsSum FeesAreBooked
CHECK_DEADLOCK FALSE
