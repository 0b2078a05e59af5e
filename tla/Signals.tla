------------------------------ MODULE Signals -------------------------------
(***************************************************************************)
(* What the analysis makes of a series of candles: the prepared series     *)
(* (analysis/indicators/prepare.py), the rule set's conditions and bias    *)
(* (analysis/strategies), the regime (analysis/regime.py) and the setup    *)
(* with its stop, target and score (analysis/setup.py).                    *)
(*                                                                         *)
(* A candle carries the reading the indicators give at it: which way the   *)
(* pair of averages, the MACD histogram and the rate of change point, ADX, *)
(* RSI, and the ATR in hundredths of a percent.  An indicator that has not *)
(* warmed up reads "NONE" or None.  Their arithmetic is left out.          *)
(***************************************************************************)
EXTENDS Leverage, Sequences, SequencesExt

None == -1

\* The defaults of TrendMomentumParams and the thresholds of regime.py.
AdxMinimum == 20
RsiMiddle == 50
RsiOverbought == 70
RsiOversold == 30
AtrHigh == 300
AtrLow == 75

-----------------------------------------------------------------------------
(* prepare_candles: a series must run one way and repeat no time; what has *)
(* not closed is dropped from its end.                                     *)

Runs(candles, before(_, _)) ==
  \A i \in 1..(Len(candles) - 1) : before(candles[i].time, candles[i + 1].time)

Ascends(a, b) == a < b
Descends(a, b) == a > b

Repeats(candles) ==
  \E i, j \in DOMAIN candles : i # j /\ candles[i].time = candles[j].time

ClosedPart(candles) ==
  SubSeq(candles, 1, SelectLastInSeq(candles, LAMBDA c : c.closed))

(* Wrong: a forming candle is kept. *)
PreparedWhole(candles) ==
  IF Repeats(candles) THEN <<>>
  ELSE IF Runs(candles, Ascends) THEN candles
  ELSE IF Runs(candles, Descends) THEN Reverse(candles)
  ELSE <<>>

(* The empty sequence is a problem: none of its callers goes on with it. *)
Prepared(candles) ==
  IF Repeats(candles) THEN <<>>
  ELSE IF Runs(candles, Ascends) THEN ClosedPart(candles)
  ELSE IF Runs(candles, Descends) THEN ClosedPart(Reverse(candles))
  ELSE <<>>

-----------------------------------------------------------------------------
(* The rule set. *)

Reading(candles) == Last(candles).reading

(* compute_indicator_values: one missing value is no reading at all. *)
RulesReadable(r) == r.trend # "NONE" /\ r.adx # None /\ r.rsi # None /\ r.macd # "NONE"

ConditionNames == {"trend", "trend_strength", "momentum", "macd"}

(* evaluate_conditions, for one side: the conditions that are satisfied. *)
Conditions(r, side) ==
  LET way == IF side = "LONG" THEN "UP" ELSE "DOWN"
  IN {c \in ConditionNames :
        CASE c = "trend"          -> r.trend = way
          [] c = "trend_strength" -> r.adx >= AdxMinimum
          [] c = "momentum"       -> IF side = "LONG" THEN RsiMiddle < r.rsi /\ r.rsi < RsiOverbought
                                     ELSE RsiOversold < r.rsi /\ r.rsi < RsiMiddle
          [] c = "macd"           -> r.macd = way}

Bias(r) ==
  IF Conditions(r, "LONG") = ConditionNames THEN "LONG"
  ELSE IF Conditions(r, "SHORT") = ConditionNames THEN "SHORT"
  ELSE "NO_SIGNAL"

(* _leverage_decision: no venue ceiling and no risk engine. *)
AnalysisLeverage(r) ==
  IF Bias(r) = "NO_SIGNAL" THEN Rejected("NO_DIRECTIONAL_BIAS")
  ELSE Resolve(IF r.atr = None THEN Unknown ELSE Propose(r.atr, 4, 4), Unknown, Unknown, FALSE)

NoStrategy(status) ==
  [status |-> status, bias |-> "NO_SIGNAL", leverage |-> Rejected("NOT_ASKED")]

(* evaluate: the freshness gate, then the closed candles. *)
Strategy(series) ==
  IF series.status # "OK" \/ series.age = None THEN NoStrategy("STALE")
  ELSE LET candles == Prepared(series.candles)
       IN IF candles = <<>> THEN NoStrategy("UNAVAILABLE")
          ELSE LET r == Reading(candles)
               IN IF ~RulesReadable(r) THEN NoStrategy("INSUFFICIENT_DATA")
                  ELSE [status |-> "READY", bias |-> Bias(r), leverage |-> AnalysisLeverage(r)]

-----------------------------------------------------------------------------
(* classify_regime *)

Regime(r) ==
  IF r.adx = None \/ r.trend = "NONE" \/ r.atr = None THEN "UNKNOWN"
  ELSE IF r.adx >= AdxMinimum /\ r.trend = "UP" THEN "TREND_UP"
  ELSE IF r.adx >= AdxMinimum /\ r.trend = "DOWN" THEN "TREND_DOWN"
  ELSE IF r.atr >= AtrHigh THEN "HIGH_VOLATILITY"
  ELSE IF r.atr <= AtrLow THEN "LOW_VOLATILITY"
  ELSE "RANGE"

TrendOf(side) == IF side = "LONG" THEN "TREND_UP" ELSE "TREND_DOWN"
Opposite(side) == IF side = "LONG" THEN "SHORT" ELSE "LONG"

-----------------------------------------------------------------------------
(* derive_risk_reward.  Levels are in 100000ths of a tick, which makes     *)
(* every stop model exact; 0 is a level that could not be placed.          *)

Scale == 100000

(* _structure_level: the extreme of the candles before the last. *)
StructureLevel(candles, side, lookback) ==
  LET window == SubSeq(candles, Greatest(1, Len(candles) - lookback), Len(candles) - 1)
  IN IF window = <<>> THEN 0
     ELSE IF side = "LONG" THEN Scale * Min({window[i].low : i \in DOMAIN window})
     ELSE Scale * Max({window[i].high : i \in DOMAIN window})

Shifted(entry, offset, side) == IF side = "LONG" THEN entry - offset ELSE entry + offset

StopLevel(candles, side, params) ==
  LET close == Last(candles).close
      atr == Last(candles).reading.atr
  IN CASE params.model = "FIXED_PERCENT" ->
            Shifted(Scale * close, 1000 * close * params.percent, side)
       [] params.model = "ATR" ->
            IF atr <= 0 THEN 0
            ELSE Shifted(Scale * close, close * atr * params.atrTenths, side)
       [] params.model = "STRUCTURE" -> StructureLevel(candles, side, params.lookback)

NoLevels == [entry |-> 0, stop |-> 0, target |-> 0]

(* Wrong: a stop on the winning side is taken for a stop. *)
LevelsOnEitherSide(candles, side, params) ==
  LET entry == Scale * Last(candles).close
      stop == StopLevel(candles, side, params)
      risk == IF stop > entry THEN stop - entry ELSE entry - stop
      target == Shifted(entry, -risk * params.takeProfitR, side)
  IN IF stop <= 0 \/ risk = 0 \/ target <= 0 THEN NoLevels
     ELSE [entry |-> entry, stop |-> stop, target |-> target]

Levels(candles, side, params) ==
  LET entry == Scale * Last(candles).close
      stop == StopLevel(candles, side, params)
      risk == IF side = "LONG" THEN entry - stop ELSE stop - entry
      target == Shifted(entry, -risk * params.takeProfitR, side)
  IN IF stop <= 0 \/ risk <= 0 \/ target <= 0 THEN NoLevels
     ELSE [entry |-> entry, stop |-> stop, target |-> target]

-----------------------------------------------------------------------------
(* _score, in hundredths of a point.  Each component is a share of its     *)
(* weight, clamped; what could not be measured contributes nothing.        *)

Share(weight, part, whole) == (2 * weight * Greatest(0, Least(part, whole)) + whole) \div (2 * whole)

RegimeShare(r, side) ==
  CASE Regime(r) = TrendOf(side)                           -> 2000
    [] Regime(r) \in {"UNKNOWN", TrendOf(Opposite(side))}  -> 0
    [] OTHER                                               -> 1000

VolatilityShare(atr) ==
  IF atr <= 0 THEN 0
  ELSE IF atr < AtrLow THEN Share(1000, atr, AtrLow)
  ELSE IF atr > AtrHigh THEN Share(1000, 2 * AtrHigh - atr, AtrHigh)
  ELSE 1000

(* The last candle's volume against the candles before it, 1.5 being full. *)
VolumeShare(candles) ==
  LET before == SumFunction([i \in 1..(Len(candles) - 1) |-> candles[i].volume])
  IN IF Len(candles) < 2 \/ before = 0 THEN 0
     ELSE Share(500, 2 * Last(candles).volume * (Len(candles) - 1), 3 * before)

Score(candles, side, params) ==
  LET r == Reading(candles)
      held == Conditions(r, side)
  IN Share(2500, Cardinality(held \cap {"trend", "trend_strength"}), 2)
     + Share(2000, Cardinality(held \cap {"momentum", "macd"}), 2)
     + RegimeShare(r, side)
     + Share(2000, params.takeProfitR, 3)
     + VolatilityShare(r.atr)
     + VolumeShare(candles)

-----------------------------------------------------------------------------
(* build_setup and evaluate_setup: the freshness gate, then the candles as *)
(* they came.                                                              *)

NoSetup(status, side) ==
  [status |-> status, side |-> side, levels |-> NoLevels, score |-> 0]

Setup(series, params) ==
  IF series.status # "OK" \/ series.age = None THEN NoSetup("STALE", "NO_SIGNAL")
  ELSE IF series.candles = <<>> \/ ~RulesReadable(Reading(series.candles))
    THEN NoSetup("INSUFFICIENT_DATA", "NO_SIGNAL")
  ELSE LET candles == series.candles
           side == Bias(Reading(candles))
           levels == Levels(candles, side, params)
       IN IF side = "NO_SIGNAL" \/ levels = NoLevels
            THEN NoSetup("NO_ACTIONABLE_SETUP", side)
          ELSE [status |-> "ACTIONABLE", side |-> side, levels |-> levels,
                score |-> Score(candles, side, params)]

=============================================================================
