SPECIFICATION Spec
CONSTANTS
  Accounts = {a1}
  Requests = {r1, r2}
  Amounts = {1, 2}
  Capped <- MCCapped
  MaxBalance <- MCMaxBalance
  MaxVersion = 3
  MaxCrashes = 1
CHECK_DEADLOCK FALSE
INVARIANTS NoLostUpdate BalanceWithinLimit
PROPERTIES ImplementsRegister
