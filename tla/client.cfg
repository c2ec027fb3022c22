SPECIFICATION ClientFairSpec
CONSTANTS
  Tabs = {t1, t2}
  Calls = {c1, c2}
  MaxTokens = 3
  MaxReloads = 2
INVARIANTS NoSelfReuse LoggedInCanRefresh
PROPERTIES AccessIsRestored
CHECK_DEADLOCK FALSE
