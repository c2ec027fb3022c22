SPECIFICATION FairSpec
CONSTANTS
  Requests = {r1, r2, r3}
  Tokens = {"a", "b", "c", "m", "i"}
  Noise = {"i"}
  Registered <- MCRegistered
  Records <- MCRecords
  Watchlist <- MCWatchlist
  MaxFaults = 1
CHECK_DEADLOCK FALSE
INVARIANTS TrailIsTrue
PROPERTIES Climbs OneCaseAtATime TierIsAnnounced
