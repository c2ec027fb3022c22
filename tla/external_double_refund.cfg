SPECIFICATION Spec
CONSTANTS
  Transfers <- MCOne
  Hooks = {h1, h2}
  Total <- MCTotal
  Account0 <- MCAccount0
  OtherAmounts = {1}
  Cap = 3
  MaxOthers = 0
  MaxFaults = 0
CHECK_DEADLOCK FALSE
INVARIANTS RefundedOnce
