\* Two symbols at the edge of the envelope, with every kind of level, over two days,
\* with calls dated by a clock read the day before.
SPECIFICATION Spec
CONSTANTS
  Symbols = {s1, s2}
  StartingBalance = 200
  ProfitTarget = 20
  LossBudget = 10
  MaxOpenPositions = 2
  MaxPositionNotional = 210
  MaxPortfolioExposure = 320
  Leverage = 2
  FeeDivisor = 100
  Slippage = 2
  Orders <- MCOrders
  Marks <- MCMarks
  Balances = {200}
  MaxLag = 1
  MaxDays = 2
  MaxEntries = 2
INVARIANTS LedgerBalances NearestLevelFires NothingRestsPastItsLevels WithinLimits
PROPERTIES LockedDayStaysLocked
CHECK_DEADLOCK FALSE
