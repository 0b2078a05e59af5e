\* A read and an order dated by a clock that was read before midnight.
SPECIFICATION Spec
CONSTANTS
  Symbols = {s1}
  StartingBalance = 200
  ProfitTarget = 20
  LossBudget = 10
  MaxOpenPositions = 2
  MaxPositionNotional = 210
  MaxPortfolioExposure = 320
  Leverage = 2
  FeeDivisor = 100
  Slippage = 2
  Orders <- MCOrders
  Marks <- MCMarks
  Balances = {200}
  MaxLag = 1
  MaxDays = 2
  MaxEntries = 2
PROPERTIES LockedDayTakesNoEntry
CHECK_DEADLOCK FALSE
