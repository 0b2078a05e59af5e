SPECIFICATION MCSpec
CONSTANTS
  Symbols = {s1, s2}
  Balance = 190
  ProfitTarget = 30
  LossBudget = 25
  MaxOpenPositions = 2
  MaxPositionNotional = 390
  MaxPortfolioExposure = 400
  MaxLeverage = 500
  MaxDataAge = 10
  MaxAtr = 500
  Cooldown = 1
  MinQuantity = 2
  MinNotional = 10
  Results <- MCResults
  MaxTime = 1
  MaxLoss = 30
  Proposals <- MCProposals
  Markets <- MCMarkets
  Bars <- MCBars
  Feeds <- MCFeeds
  Params <- MCParams
  Plans <- MCPlans
  Window = 3
  Parts = {"DESK"}
SYMMETRY MCSymmetry
INVARIANTS SpentDayTakesNoEntry
CHECK_DEADLOCK FALSE
