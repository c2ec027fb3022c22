SPECIFICATION FairSpec
CONSTANTS
  History = {"splash", "login", "signup", "dashboard", "kyc"}
  MaxOrphans = 1
INVARIANTS KycAsksOnce NinWaitsForBvn
PROPERTIES LoadingEnds WalletIsOpened
