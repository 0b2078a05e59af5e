------------------------------ MODULE Leverage ------------------------------
(***************************************************************************)
(* The leverage chain: the candidate an analysis may ask for, the ceiling  *)
(* the risk engine derives, and the decision the chain makes of the two    *)
(* and of the venue's own ceiling (analysis/leverage.py,                   *)
(* engines/risk/leverage.py, domain/leverage.py).                          *)
(*                                                                         *)
(* A leverage is in hundredths, the unit the derived ceiling is truncated  *)
(* to; a stop distance is in whole percents, an ATR in hundredths of a     *)
(* percent and money in whole units.                                       *)
(***************************************************************************)
EXTENDS Integers

\* None, where the code has None for a value; every real value is positive.
Unknown == 0

LeverageMin == 100
LeverageMax == 50000

\* LIQUIDATION_SAFETY_FACTOR and TARGET_ADVERSE_MOVE_PERCENT.
SafetyFactor == 2
TargetAdverseMove == 200

Least(a, b) == IF a <= b THEN a ELSE b
Greatest(a, b) == IF a >= b THEN a ELSE b

-----------------------------------------------------------------------------
(* The candidate. *)

(* propose_leverage: inversely to volatility, scaled down by the share of  *)
(* the conditions that hold, truncated to a whole multiple and clamped.    *)
Propose(atr, met, total) ==
  IF atr <= 0 \/ total <= 0 \/ met < 0 \/ met > total \/ met = 0 THEN Unknown
  ELSE 100 * Greatest(1, Least((TargetAdverseMove * met) \div (atr * total), 500))

-----------------------------------------------------------------------------
(* The risk engine's ceiling. *)

(* Wrong: the liquidation bound is dropped once a budget is known. *)
RiskMaxByBudget(stop, margin, realized, limit, configured) ==
  IF stop <= 0 \/ margin <= 0 \/ configured < LeverageMin THEN Unknown
  ELSE IF realized - limit <= 0 THEN LeverageMin
  ELSE Greatest(LeverageMin,
                Least(Least(((realized - limit) * 10000) \div (margin * stop), configured),
                      LeverageMax))

(* derive_risk_max_leverage: the liquidation outside the stop, a stop-out  *)
(* within what is left of the day's budget, the configured ceiling and the *)
(* domain's, the least of them; never below the domain's minimum.          *)
RiskMax(stop, margin, realized, limit, configured) ==
  IF stop <= 0 \/ margin <= 0 \/ configured < LeverageMin THEN Unknown
  ELSE LET budget == realized - limit
           fromLiquidation == 10000 \div (stop * SafetyFactor)
           fromBudget == (budget * 10000) \div (margin * stop)
       IN IF budget <= 0 THEN LeverageMin
          ELSE Greatest(LeverageMin,
                        Least(Least(fromLiquidation, fromBudget),
                              Least(configured, LeverageMax)))

-----------------------------------------------------------------------------
(* The decision. *)

WellFormed(ceiling) == LeverageMin <= ceiling /\ ceiling <= LeverageMax

Rejected(reason) == [outcome |-> "REJECTED", reason |-> reason, approved |-> Unknown]
Approved(reason, value) == [outcome |-> "APPROVED", reason |-> reason, approved |-> value]
Reduced(reason, value) == [outcome |-> "REDUCED", reason |-> reason, approved |-> value]

IsUsable(d) == d.outcome \in {"APPROVED", "REDUCED"} /\ d.approved # Unknown

(* _domain_minimum_decision: exactly 1x needs no ceiling to be known, and  *)
(* is declined when one was given that is no ceiling.                      *)
ResolvesAtMinimum(requested, exchange, riskMax) ==
  /\ requested = LeverageMin
  /\ \A c \in {exchange, riskMax} : c # Unknown => WellFormed(c)

(* resolve_leverage *)
Resolve(requested, exchange, riskMax, available) ==
  LET least == Least(requested, Least(exchange, riskMax))
  IN IF requested = Unknown THEN Rejected("INSUFFICIENT_DATA")
     ELSE IF ~WellFormed(requested) THEN Rejected("REQUEST_OUT_OF_RANGE")
     ELSE IF /\ exchange = Unknown \/ ~available \/ riskMax = Unknown
             /\ ResolvesAtMinimum(requested, exchange, riskMax)
            THEN Approved("APPROVED_AT_DOMAIN_MINIMUM", LeverageMin)
     ELSE IF exchange = Unknown THEN Rejected("EXCHANGE_MAX_UNKNOWN")
     ELSE IF ~WellFormed(exchange) THEN Rejected("EXCHANGE_MAX_INVALID")
     ELSE IF ~available THEN Rejected("RISK_ENGINE_UNAVAILABLE")
     ELSE IF riskMax = Unknown THEN Rejected("RISK_MAX_UNKNOWN")
     ELSE IF ~WellFormed(riskMax) THEN Rejected("RISK_MAX_INVALID")
     ELSE IF least >= requested THEN Approved("APPROVED_IN_FULL", least)
     ELSE IF least = exchange THEN Reduced("BOUND_BY_EXCHANGE_MAX", least)
     ELSE Reduced("BOUND_BY_RISK_MAX", least)

=============================================================================
