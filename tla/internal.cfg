SPECIFICATION FairSpec
CONSTANTS
  Accounts <- MCAccounts
  Transfers <- MCTransfers
  Source <- MCSource
  Destination <- MCDestination
  Amount <- MCAmount
  Row0 <- MCRow0
  NoTx = NoTx
  Cap = 4
  OtherAmounts = {2}
  MaxOthers = 1
  MaxFaults = 1
CHECK_DEADLOCK FALSE
INVARIANTS WithinCap Conservation AuditedUntilFault
PROPERTIES EveryTransferEnds
