------------------------------ MODULE MCTools ------------------------------
(* The instance the offline tools are checked on: a behaviour follows one  *)
(* of them and leaves the others where they started.                       *)
EXTENDS Backtest, Optimizer, MarketFeed, Scanner

CONSTANT Parts

VARIABLE part

MCInit ==
  /\ part \in Parts
  /\ BacktestInit /\ OptimizerInit /\ FeedInit /\ ScannerInit
  /\ part # "BACKTEST" => setting = CHOOSE s \in Settings : TRUE
  /\ part # "OPTIMIZER" => job = CHOOSE j \in Jobs : TRUE
  /\ part # "SCANNER" => query = CHOOSE q \in Queries : TRUE

MCNext ==
  \/ part = "BACKTEST" /\ BacktestNext /\ UNCHANGED <<part, searchVars, feedVars, scannerVars>>
  \/ part = "OPTIMIZER" /\ OptimizerNext /\ UNCHANGED <<part, backtestVars, feedVars, scannerVars>>
  \/ part = "FEED" /\ FeedNext /\ UNCHANGED <<part, backtestVars, searchVars, scannerVars>>
  \/ part = "SCANNER" /\ ScannerNext /\ UNCHANGED <<part, backtestVars, searchVars, feedVars>>

MCSpec == MCInit /\ [][MCNext]_<<part, backtestVars, searchVars, feedVars, scannerVars>>

-----------------------------------------------------------------------------
(* Bars that reach a stop, a target and a trail, that gap past a level and *)
(* that turn the rule set around; a setting without leverage, one at ten   *)
(* times, one that only buys, and one without any exit but the signal.     *)

Hist(open, high, low, close, bias) ==
  [open |-> open, high |-> high, low |-> low, close |-> close, bias |-> bias]

MCHistoryBars ==
  {Hist(100, 105, 98, 104, "LONG_BIAS"), Hist(100, 121, 95, 110, "LONG_BIAS"),
   Hist(108, 112, 104, 106, "NONE"), Hist(100, 103, 92, 94, "SHORT_BIAS"),
   Hist(80, 90, 75, 88, "SHORT_BIAS"), Hist(120, 125, 110, 112, "NONE")}

Setting(leverage, stop, target, trail, sides) ==
  [balance |-> 10000, size |-> 50, leverage |-> leverage, fee |-> 10, slippage |-> 100,
   stop |-> stop, target |-> target, trail |-> trail, sides |-> sides]

Both == {"LONG", "SHORT"}
MCSettings ==
  {Setting(1, 5, 10, 0, Both), Setting(10, 0, 0, 4, Both), Setting(1, 0, 10, 6, {"LONG"}),
   Setting(5, 30, 0, 0, Both)}

-----------------------------------------------------------------------------
(* A grid of four with one combination that does not build, one past the   *)
(* ceiling, one of none that builds; a split, one too short for it, and    *)
(* folds that overlap, that tile, and that are too many.                   *)
Range1(min, max, step) == [min |-> min, max |-> max, step |-> step]
Four == <<Range1(9, 21, 12), Range1(20, 30, 10)>>
Wide == <<Range1(9, 21, 3), Range1(20, 30, 10)>>
NoneBuilds == <<Range1(30, 30, 1), Range1(20, 30, 7)>>

Search(kind, specs, bars, train, validation, step) ==
  [kind |-> kind, specs |-> specs, bars |-> bars, train |-> train,
   validation |-> validation, step |-> step]

MCJobs ==
  {Search("OPTIMIZE", Four, 11, 60, 20, 0), Search("OPTIMIZE", Four, 4, 60, 20, 0), Search("OPTIMIZE", Four, 11, 60, 40, 0),
   Search("OPTIMIZE", Wide, 11, 60, 20, 0), Search("OPTIMIZE", NoneBuilds, 11, 60, 20, 0),
   Search("WALK_FORWARD", Four, 9, 4, 3, 2), Search("WALK_FORWARD", Four, 9, 4, 2, 2),
   Search("WALK_FORWARD", Four, 12, 4, 2, 2), Search("WALK_FORWARD", NoneBuilds, 9, 4, 2, 2)}

Metric(trades, gain, factor, drawdown, streak) ==
  [trades |-> trades, gain |-> gain, factor |-> factor, drawdown |-> drawdown, streak |-> streak]

MCOutcomes ==
  {NoMetrics, Metric(19, 90, 300, 0, 0), Metric(20, 12, 150, 10, 3), Metric(40, -5, 80, 30, 12)}

-----------------------------------------------------------------------------
MCSymmetry == Permutations(Readers) \cup Permutations(Keys)
MCRetryAfters == {None, 5}

MCTickers ==
  {[status |-> "MISSING", volume |-> 0], [status |-> "OLD", volume |-> 8],
   [status |-> "FRESH", volume |-> 5], [status |-> "FRESH", volume |-> 8]}
MCCandleReads ==
  {[status |-> "ERROR", metric |-> 0], [status |-> "NO_VALUE", metric |-> 0],
   [status |-> "SHORT", metric |-> 0], [status |-> "OK", metric |-> 1],
   [status |-> "OK", metric |-> 2], [status |-> "DELISTED", metric |-> 0]}

Ask(sort, descending, include, setups, leastVolume, least, page) ==
  [sort |-> sort, descending |-> descending, include |-> include, setups |-> setups,
   leastVolume |-> leastVolume, least |-> least, page |-> page]

MCQueries ==
  {Ask("VOLUME", TRUE, FALSE, FALSE, NoFigure, NoFigure, 1),
   Ask("VOLUME", FALSE, TRUE, FALSE, 5, NoFigure, 1),
   Ask("METRIC", TRUE, TRUE, FALSE, NoFigure, NoFigure, 1),
   Ask("METRIC", FALSE, FALSE, FALSE, NoFigure, NoFigure, 2),
   Ask("SETUP", TRUE, FALSE, FALSE, NoFigure, 2, 1),
   Ask("VOLUME", TRUE, FALSE, TRUE, NoFigure, NoFigure, 1),
   Ask("VOLUME", TRUE, FALSE, FALSE, NoFigure, 2, 1)}

=============================================================================
