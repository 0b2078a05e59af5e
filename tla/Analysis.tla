------------------------------ MODULE Analysis ------------------------------
(***************************************************************************)
(* Candles form and close; the strategy and the setup are asked about them *)
(* at any moment, and a position opened on the way is looked at again and  *)
(* again (services/analysis.py, services/paper.py position_intelligence).  *)
(* Both fetch the candles with the one that is still forming.              *)
(***************************************************************************)
EXTENDS PositionAdvice

CONSTANTS
  Bars,      \* what a forming candle may show
  Window,    \* how many candles a fetch returns
  Feeds,     \* [status, age, order] of a fetch
  Params,    \* setup parameters
  Plans      \* [stop, target]: distances from the entry in ticks, 0 for none

Ways == {"UP", "DOWN", "FLAT", "NONE"}
Readings == [trend : Ways, macd : Ways, roc : Ways, adx : Int, rsi : Int, atr : Int]

ASSUME AnalysisAssumption ==
  /\ Window \in Nat \ {0}
  /\ Bars \subseteq [low : Nat \ {0}, close : Nat, high : Nat, volume : Nat, reading : Readings,
                    closed : {FALSE}, time : Int]
  /\ \A b \in Bars : b.low <= b.close /\ b.close <= b.high
  /\ \A f \in Feeds : f.order \in {"ASCENDING", "DESCENDING", "REPEATED"}
  /\ \A p \in Params :
       /\ p.model \in {"FIXED_PERCENT", "ATR", "STRUCTURE"}
       /\ {p.percent, p.atrTenths, p.lookback, p.takeProfitR} \subseteq Nat
  /\ \A p \in Plans : p.stop \in Nat /\ p.target \in Nat

VARIABLES
  candles,    \* oldest first; only the last may still form
  feed,       \* how the next fetch answers
  params,
  position,   \* the open position, or NoPosition
  posture     \* what else the position is seen under

analysisVars == <<candles, feed, params, position, posture>>

NoPosition == [side |-> "NONE"]
Postures == {"CLEAR", "LOCKED", "UNSETTLED", "UNMARKED"}
Sides == {"LONG", "SHORT"}

(* One fetch.  The times are those of the venue, oldest first. *)
Fetched(bars, f) ==
  LET timed == [i \in DOMAIN bars |-> [bars[i] EXCEPT !.time = i]]
  IN [status |-> f.status, age |-> f.age,
      candles |-> CASE f.order = "ASCENDING"  -> timed
                    [] f.order = "DESCENDING" -> Reverse(timed)
                    [] f.order = "REPEATED"   -> timed \o timed]

(* What position_intelligence assembles: candles only from a fetch that is *)
(* OK, and the mark of the account.                                        *)
SightOf(bars, f, under) ==
  [mark |-> IF under = "UNMARKED" THEN 0 ELSE Last(bars).close,
   readable |-> f.status = "OK",
   reading |-> Reading(Fetched(bars, f).candles),
   locked |-> under = "LOCKED",
   unsettled |-> under = "UNSETTLED"]

-----------------------------------------------------------------------------
AnalysisInit ==
  /\ \E b \in Bars : candles = << b >>
  /\ feed \in Feeds
  /\ params \in Params
  /\ position = NoPosition
  /\ posture = "CLEAR"

(* A candle opens when the one before it has closed. *)
Opens(b) ==
  /\ Last(candles).closed
  /\ candles' = Append(IF Len(candles) < Window THEN candles ELSE Tail(candles), b)
  /\ UNCHANGED <<feed, params, position, posture>>

Moves(b) ==
  /\ ~Last(candles).closed
  /\ candles' = Append(Front(candles), b)
  /\ UNCHANGED <<feed, params, position, posture>>

Closes ==
  /\ ~Last(candles).closed
  /\ candles' = [candles EXCEPT ![Len(candles)].closed = TRUE]
  /\ UNCHANGED <<feed, params, position, posture>>

(* _capture_thesis: the levels are always recorded, the conditions only    *)
(* when a strategy asked for the entry.                                    *)
CaptureThesis(side, plan, recorded) ==
  LET entry == Last(candles).close
  IN [side |-> side, entry |-> entry,
      stop |-> IF plan.stop = 0 THEN 0
               ELSE IF side = "LONG" THEN entry - plan.stop ELSE entry + plan.stop,
      target |-> IF plan.target = 0 THEN 0
                 ELSE IF side = "LONG" THEN entry + plan.target ELSE entry - plan.target,
      planned |-> plan.stop, recorded |-> recorded]

Enters(side, plan) ==
  /\ position = NoPosition
  /\ posture = "CLEAR"
  /\ \/ /\ Strategy(Fetched(candles, feed)).bias = side
        /\ position' = CaptureThesis(side, plan, ConditionNames)
     \/ position' = CaptureThesis(side, plan, {})
  /\ UNCHANGED <<candles, feed, params, posture>>

Leaves ==
  /\ position # NoPosition
  /\ position' = NoPosition
  /\ UNCHANGED <<candles, feed, params, posture>>

Changes ==
  /\ feed' \in Feeds
  /\ posture' \in Postures
  /\ UNCHANGED <<candles, params, position>>

AnalysisNext ==
  \/ \E b \in Bars : Opens(b) \/ Moves(b)
  \/ Closes
  \/ \E side \in Sides, plan \in Plans : Enters(side, plan)
  \/ Leaves
  \/ Changes

AnalysisSpec == AnalysisInit /\ [][AnalysisNext]_analysisVars

-----------------------------------------------------------------------------
(***************************************************************************)
(* There is no path that reports a direction to act on without the levels  *)
(* that make it one: an actionable setup rests on fresh candles, its stop  *)
(* is on the losing side and its target on the winning side at the planned *)
(* multiple, whichever model placed the stop, and its score is that of a   *)
(* setup every rule of which holds (build_setup).                          *)
(***************************************************************************)
SetupIsSound ==
  LET u == Setup(Fetched(candles, feed), params)
      ahead(from, to) == IF u.side = "LONG" THEN to - from ELSE from - to
  IN u.status = "ACTIONABLE" =>
       /\ feed.status = "OK" /\ feed.age # None
       /\ u.levels.stop > 0 /\ u.levels.target > 0
       /\ ahead(u.levels.stop, u.levels.entry) > 0
       /\ ahead(u.levels.entry, u.levels.target)
            = params.takeProfitR * ahead(u.levels.stop, u.levels.entry)
       /\ 4500 <= u.score /\ u.score <= 10000

(***************************************************************************)
(* The strategy never repaints: as long as the fetches answer alike, what  *)
(* it says changes only when a candle closes, never while one forms, and   *)
(* the leverage it offers is none or 1x at any time (registry.evaluate).   *)
(***************************************************************************)
StrategyNeverRepaints ==
  [][ /\ Strategy(Fetched(candles', feed')).leverage.approved \in {Unknown, LeverageMin}
      /\ (feed' = feed /\ Last(candles).closed = Last(candles').closed)
           => Strategy(Fetched(candles', feed')) = Strategy(Fetched(candles, feed))
    ]_analysisVars

(***************************************************************************)
(* Exit advice is never the word of one reading: the recorded conditions   *)
(* have gone, and the regime, the momentum or the levels are against the   *)
(* position as well, each of them measured (exit_brain: "a single adverse  *)
(* reading is not enough").                                                *)
(***************************************************************************)
OneReadingNeverExits ==
  LET sight == SightOf(candles, feed, posture)
      lost == position.recorded \ Conditions(sight.reading, position.side)
  IN (position # NoPosition /\ Decision(position, sight) = "EXIT") =>
       /\ posture = "CLEAR" /\ feed.status = "OK"
       /\ 2 * Cardinality(lost) > Cardinality(position.recorded)
       /\ \/ Regime(sight.reading) = TrendOf(Opposite(position.side))
          \/ /\ MomentumSigns(position, sight) # {}
             /\ \A m \in MomentumSigns(position, sight) : ~m.with
          \/ NearStop(position, sight)

(***************************************************************************)
(* A worse look never softens the advice.  Were the position seen at a     *)
(* mark no better, over a candle in which no more of the thesis holds, the *)
(* regime is no kinder and no sign of momentum has come back, the answer   *)
(* would be as urgent or more: the ladder of the orchestrator and the      *)
(* brains agree on what is worse.                                          *)
(***************************************************************************)
Urgency == [HOLD |-> 0, TRAIL |-> 0, PROTECT |-> 1, EXIT |-> 2]

Worse(p, s, t) ==
  /\ Ahead(p, s.mark, t.mark) <= 0
  /\ Held(p, t) \subseteq Held(p, s)
  /\ RegimeBrain(p, s) = "ADVERSE" => RegimeBrain(p, t) = "ADVERSE"
  /\ MomentumBrain(p, s) = "ADVERSE" => MomentumBrain(p, t) = "ADVERSE"

WorseNeverSoftens ==
  position # NoPosition =>
    LET sight == SightOf(candles, feed, posture)
        was == Decision(position, sight)
    IN was \in DOMAIN Urgency =>
         \A b \in Bars, mark \in {sight.mark} \cup {c.close : c \in Bars} :
           LET other == [sight EXCEPT !.mark = mark, !.reading = b.reading]
               is == Decision(position, other)
           IN (is \in DOMAIN Urgency /\ Worse(position, sight, other))
                => Urgency[is] >= Urgency[was]

=============================================================================
