SPECIFICATION FairSpec
CONSTANTS
  Transfers <- MCOne
  Hooks = {h1, h2}
  Total <- MCTotal
  Account0 <- MCAccount0
  OtherAmounts = {1}
  Cap = 3
  MaxOthers = 2
  MaxFaults = 2
CHECK_DEADLOCK FALSE
INVARIANTS ReversedIsRefunded SuccessfulIsPaid ReversalIsBacked NotPaidAndRefunded ClearingIsRelieved
PROPERTIES StatusFollowsEdges ProcessingResolves
