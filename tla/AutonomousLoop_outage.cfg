\* An outage long enough to drop what is watched, with a position open.
SPECIFICATION FairSpec
CONSTANTS
  Symbols = {s1}
  Watchlist <- MCWatchlist
  Readings <- MCReadings
  MaxSymbols = 1
  MaxFailures = 2
  OutageIterations = 1
  CloseOnFlip = TRUE
  Delisting = FALSE
  MaxBars = 1
  MaxRequests = 1
  MaxRestarts = 0
PROPERTIES OpenPositionsAreManaged
CHECK_DEADLOCK FALSE
