SPECIFICATION MCSpec
CONSTANTS
  HistoryBars <- MCHistoryBars
  BarCount = 6
  Warmup = 1
  Settings <- MCSettings
  Jobs <- MCJobs
  Outcomes <- MCOutcomes
  MaxCombinations = 4
  MaxFolds = 3
  MinTrades = 20
  NoMetrics = NoMetrics
  Readers = {r1, r2}
  Keys = {k1, k2}
  Ttl = 2
  MaxEntries = 1
  MaxAge = 3
  RequestTimeout = 1
  MaxRetries = 1
  Backoff = 1
  MaxBackoff = 1
  Lags = {0, 4}
  RetryAfters <- MCRetryAfters
  LastInstant = 6
  MaxReads = 3
  Universe = {1, 2, 3, 4}
  Tickers <- MCTickers
  CandleReads <- MCCandleReads
  Queries <- MCQueries
  CandidatePoolSize = 3
  SetupPoolSize = 2
  MaxMetricSymbols = 3
  MetricConcurrency = 2
  PageSize = 2
  None = None
  NoFigure = NoFigure
  Parts = {"BACKTEST", "OPTIMIZER", "FEED", "SCANNER"}
SYMMETRY MCSymmetry
INVARIANTS NoLookAhead WorstCaseIsAssumed LedgerAddsUp WinnerIsTheFirstOfTheBest JudgedOnUnseenBars
  CachedDataAgesOut OnlySlownessIsCut ScanIsWhole
CHECK_DEADLOCK FALSE
