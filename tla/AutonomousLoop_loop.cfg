\* Two watched symbols, two bars, requests on the same account, a restart.
SPECIFICATION FairSpec
CONSTANTS
  Symbols = {s1, s2}
  Watchlist <- MCWatchlist
  Readings <- MCReadings
  MaxSymbols = 2
  MaxFailures = 2
  OutageIterations = 1
  CloseOnFlip = TRUE
  Delisting = TRUE
  MaxBars = 2
  MaxRequests = 1
  MaxRestarts = 1
INVARIANTS OneEntryPerBar
PROPERTIES WatchedPositionsAreManaged
CHECK_DEADLOCK FALSE
