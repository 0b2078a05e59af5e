\* Two callers, every kind of call, a failing store, an unreadable row, a row of another
\* build, a death of the process, midnight, and a log that overflows; every call ends,
\* under fairness.
SPECIFICATION FairSpec
CONSTANTS
  Callers = {c1, c2}
  Ids = {i1}
  Symbols = {s1}
  Calls <- AllCalls
  Marks <- AllMarks
  Nobody = Nobody
  NoId = NoId
  NoSnapshot = NoSnapshot
  NoCall = NoCall
  Builds = {b1, b2}
  StartingBalance = 200
  ProfitTarget = 40
  LossBudget = 10
  MaxOpenPositions = 1
  MaxPositionNotional = 210
  MaxPortfolioExposure = 210
  Leverage = 2
  FeeDivisor = 100
  Slippage = 2
  MaxOrderLog = 2
  BootReadsFail = TRUE
  MaxCalls = 3
  MaxDays = 2
  MaxCrashes = 1
INVARIANTS NothingMovesUnderARuling OneEntryPerId DurableMeansSaved ReportedFillsAreKept
PROPERTIES CallsAreAnswered
CHECK_DEADLOCK FALSE
