SPECIFICATION FairSpec
CONSTANTS
  Recipients = {alice, bola}
  Kobos <- MCKobos
  MinKobo = 10000
  Submissions = {s1, s2}
  Slots = {n1, n2}
  MaxPolls = 2
  MaxVisits = 2
  None = none
INVARIANTS SuccessMeansPaid
PROPERTIES OneTransferPerVisit SpinnerEnds
CHECK_DEADLOCK FALSE
