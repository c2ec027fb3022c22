SPECIFICATION FairSpec
CONSTANTS
  Accounts = {a1, a2}
  Requests = {r1, r2}
  Amounts = {}
  Capped <- MCCapped
  MaxBalance <- MCMaxBalance
  MaxVersion = 1
  MaxCrashes = 1
CHECK_DEADLOCK FALSE
PROPERTIES PendingIsActivated
