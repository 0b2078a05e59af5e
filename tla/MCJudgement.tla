---------------------------- MODULE MCJudgement ----------------------------
(* The instance the analysis and the risk desk are checked on.  Neither    *)
(* changes what the other reads, so a behaviour follows one of them and    *)
(* leaves the other where it started.  A setup is built without looking at *)
(* a position and a position is advised on without looking at the setup's  *)
(* parameters, so the analysis is followed twice: with every parameter and *)
(* no position, and with one parameter and every position.                 *)
EXTENDS RiskDesk, Analysis, TLC

CONSTANT Parts

VARIABLE part

MCInit ==
  /\ part \in Parts
  /\ DeskInit
  /\ AnalysisInit
  /\ part = "DESK" => feed = CHOOSE f \in Feeds : TRUE
  /\ part # "SETUP" => params = CHOOSE p \in Params : TRUE
  /\ part = "DESK" => candles = << CHOOSE b \in Bars : TRUE >>
  /\ part # "DESK" => mode = "PAPER"

MCNext ==
  \/ part = "DESK" /\ DeskNext /\ UNCHANGED <<part, analysisVars>>
  \/ part = "ADVICE" /\ AnalysisNext /\ UNCHANGED <<part, deskVars>>
  \/ part = "SETUP" /\ AnalysisNext /\ UNCHANGED <<part, deskVars, position>>

MCSpec == MCInit /\ [][MCNext]_<<part, deskVars, analysisVars>>

-----------------------------------------------------------------------------
(* The desk: a clean proposal, one whose asked leverage is past every      *)
(* ceiling and one with a wide stop; a market without fault, one whose     *)
(* ceiling is unknown and one fault of each stage.                         *)
MCProposals ==
  {[margin |-> 100, leverage |-> 100, stop |-> 5],
   [margin |-> 100, leverage |-> 1000, stop |-> 8],
   [margin |-> 40, leverage |-> 400, stop |-> 20]}

Good == [status |-> "OK", age |-> 1, price |-> 7, volatility |-> "MEASURED", atr |-> 100,
         maxLeverage |-> 400]

MCMarkets ==
  {Good,
   [Good EXCEPT !.price = 9, !.maxLeverage = Unknown],
   [Good EXCEPT !.status = "STALE", !.age = Never, !.price = Unknown],
   [Good EXCEPT !.volatility = "INSUFFICIENT_HISTORY"],
   [Good EXCEPT !.atr = 900]}

MCResults == {-15, 30}

MCSymmetry == Permutations(Symbols)

-----------------------------------------------------------------------------
(* The candles: every rule for a long, every rule for a short, a strong    *)
(* trend the momentum has left, a quiet market, and a series too young.    *)
(* The last one's low is above the close of the others, so that a stop at  *)
(* structure may land on the wrong side.                                   *)
Up == [trend |-> "UP", macd |-> "UP", roc |-> "UP", adx |-> 30, rsi |-> 60, atr |-> 200]
Down == [trend |-> "DOWN", macd |-> "DOWN", roc |-> "DOWN", adx |-> 30, rsi |-> 40, atr |-> 400]
Spent == [Up EXCEPT !.macd = "FLAT", !.roc = "DOWN", !.rsi = 75]
Quiet == [Up EXCEPT !.trend = "DOWN", !.macd = "DOWN", !.adx = 10, !.rsi = 50, !.atr = 50]
Young == [Up EXCEPT !.macd = "NONE", !.adx = None, !.atr = None]

Bar(low, close, high, volume, reading) ==
  [low |-> low, close |-> close, high |-> high, volume |-> volume, reading |-> reading,
   closed |-> FALSE, time |-> 0]

MCBars ==
  {Bar(99, 100, 101, 3, Up), Bar(89, 90, 101, 2, Down), Bar(107, 108, 110, 1, Spent),
   Bar(91, 92, 93, 0, Quiet), Bar(97, 100, 103, 2, Young)}

MCFeeds ==
  {[status |-> "OK", age |-> 1, order |-> "ASCENDING"],
   [status |-> "OK", age |-> 1, order |-> "DESCENDING"],
   [status |-> "OK", age |-> 1, order |-> "REPEATED"],
   [status |-> "OK", age |-> None, order |-> "ASCENDING"],
   [status |-> "STALE", age |-> 1, order |-> "ASCENDING"]}

Placed(model) == [model |-> model, percent |-> 2, atrTenths |-> 15, lookback |-> 2, takeProfitR |-> 2]
MCParams == {Placed(m) : m \in {"FIXED_PERCENT", "ATR", "STRUCTURE"}}

MCPlans == {[stop |-> 10, target |-> 10], [stop |-> 0, target |-> 10]}

=============================================================================
