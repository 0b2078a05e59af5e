--------------------------- MODULE PositionAdvice ---------------------------
(***************************************************************************)
(* The advice about one open position: the brains that each read one thing *)
(* (analysis/position/brains.py), the facts they read it from (metrics.py) *)
(* and the ladder that makes one decision of them (orchestrator.py).       *)
(*                                                                         *)
(* A position is [side, entry, stop, target, planned, recorded]: levels in *)
(* ticks, 0 for None, and the set of entry conditions its thesis recorded  *)
(* (empty when it recorded none).  What is seen of it is                   *)
(* [mark, readable, reading, locked, unsettled]: the mark (0 for None),    *)
(* the reading of the candles if there are any, and the risk posture.      *)
(***************************************************************************)
EXTENDS Signals

-----------------------------------------------------------------------------
(* compute_position_metrics, the parts a brain reads.                      *)

Ahead(p, from, to) == IF p.side = "LONG" THEN to - from ELSE from - to

(* remaining_r is None unless a stop, a mark and a planned risk are known. *)
RemainingKnown(p, s) == s.mark # 0 /\ p.stop # 0 /\ p.planned > 0

(* STOP_PROXIMITY_R: a quarter of the planned risk, or less, is left. *)
NearStop(p, s) == RemainingKnown(p, s) /\ 4 * Ahead(p, p.stop, s.mark) <= p.planned

Distance(a, b) == IF a >= b THEN a - b ELSE b - a

(* TARGET_PROXIMITY, by the distance between the mark and the entry. *)
NearTarget(p, s) ==
  /\ s.mark # 0 /\ p.target # 0 /\ p.target # p.entry
  /\ 5 * Distance(s.mark, p.entry) >= 4 * Distance(p.target, p.entry)

-----------------------------------------------------------------------------
(* The brains.  Each returns a state, and "UNAVAILABLE" for what it could  *)
(* not read.                                                               *)

(* A position is marked only from a ticker that is OK. *)
MarketBrain(s) == IF s.mark = 0 THEN "UNAVAILABLE" ELSE "SUPPORTIVE"

Held(p, s) == p.recorded \cap Conditions(s.reading, p.side)

(* The conditions recorded at entry, each checked again. *)
TechnicalBrain(p, s) ==
  IF p.recorded = {} \/ ~s.readable \/ ~RulesReadable(s.reading) THEN "UNAVAILABLE"
  ELSE IF Held(p, s) = p.recorded THEN "SUPPORTIVE"
  ELSE IF 3 * Cardinality(Held(p, s)) <= Cardinality(p.recorded) THEN "ADVERSE"
  ELSE "WEAKENING"

RegimeBrain(p, s) ==
  LET regime == IF s.readable THEN Regime(s.reading) ELSE "UNKNOWN"
  IN IF regime = "UNKNOWN" THEN "UNAVAILABLE"
     ELSE IF regime = TrendOf(Opposite(p.side)) THEN "ADVERSE"
     ELSE IF regime = TrendOf(p.side) THEN "SUPPORTIVE"
     ELSE "NEUTRAL"

(* MACD, rate of change and RSI, each only if it has warmed up. *)
MomentumSigns(p, s) ==
  LET way == IF p.side = "LONG" THEN "UP" ELSE "DOWN"
      r == s.reading
  IN {m \in {[name |-> "macd", known |-> r.macd # "NONE", with |-> r.macd = way],
             [name |-> "roc", known |-> r.roc # "NONE", with |-> r.roc = way],
             [name |-> "rsi", known |-> r.rsi # None,
              with |-> IF p.side = "LONG" THEN r.rsi > RsiMiddle ELSE r.rsi < RsiMiddle]} :
        m.known}

MomentumBrain(p, s) ==
  LET signs == IF s.readable THEN MomentumSigns(p, s) ELSE {}
  IN IF signs = {} THEN "UNAVAILABLE"
     ELSE IF \A m \in signs : m.with THEN "SUPPORTIVE"
     ELSE IF \A m \in signs : ~m.with THEN "ADVERSE"
     ELSE "WEAKENING"

PositionBrain(p, s) ==
  IF s.mark = 0 THEN "UNAVAILABLE"
  ELSE IF NearStop(p, s) THEN "ADVERSE"
  ELSE IF NearTarget(p, s) THEN "WEAKENING"
  ELSE "NEUTRAL"

Blocked(s) == s.locked \/ s.unsettled

RiskBrain(p, s) ==
  IF Blocked(s) THEN "ADVERSE" ELSE IF p.stop = 0 THEN "WEAKENING" ELSE "SUPPORTIVE"

(* Wrong: a broken thesis needs no second reading. *)
ConfirmedByItself(p, s) == TechnicalBrain(p, s) = "ADVERSE"

(* A broken thesis, and a second reading against the position. *)
ConfirmedReversal(p, s) ==
  /\ TechnicalBrain(p, s) = "ADVERSE"
  /\ "ADVERSE" \in {RegimeBrain(p, s), MomentumBrain(p, s), PositionBrain(p, s)}

ExitBrain(p, s) ==
  IF ConfirmedReversal(p, s) THEN "ADVERSE"
  ELSE IF \/ TechnicalBrain(p, s) \in {"ADVERSE", "WEAKENING"}
          \/ RegimeBrain(p, s) = "ADVERSE" THEN "WEAKENING"
  ELSE IF TechnicalBrain(p, s) = "UNAVAILABLE" THEN "UNAVAILABLE"
  ELSE "SUPPORTIVE"

-----------------------------------------------------------------------------
(* _resolve: the first rung that matches. *)

(* Wrong: the target is looked at before the thesis. *)
DecisionTargetFirst(p, s) ==
  IF Blocked(s) THEN "BLOCKED_BY_RISK"
  ELSE IF "UNAVAILABLE" \in {MarketBrain(s), TechnicalBrain(p, s)} THEN "INSUFFICIENT_DATA"
  ELSE IF NearTarget(p, s) THEN "TRAIL"
  ELSE IF ExitBrain(p, s) = "ADVERSE" THEN "EXIT"
  ELSE IF "ADVERSE" \in {TechnicalBrain(p, s), RegimeBrain(p, s)} THEN "PROTECT"
  ELSE "HOLD"

Decision(p, s) ==
  IF Blocked(s) THEN "BLOCKED_BY_RISK"
  ELSE IF "UNAVAILABLE" \in {MarketBrain(s), TechnicalBrain(p, s)} THEN "INSUFFICIENT_DATA"
  ELSE IF ExitBrain(p, s) = "ADVERSE" THEN "EXIT"
  ELSE IF "ADVERSE" \in {TechnicalBrain(p, s), RegimeBrain(p, s)} THEN "PROTECT"
  ELSE IF NearTarget(p, s) THEN "TRAIL"
  ELSE "HOLD"

=============================================================================
