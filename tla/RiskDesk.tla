------------------------------ MODULE RiskDesk ------------------------------
(***************************************************************************)
(* The risk engine (engines/risk/engine.py) and the two callers that ask   *)
(* it to rule: the paper service, under its lock, and the testnet service, *)
(* which sends what was approved some awaits later.  Each caller shows the *)
(* engine its own view of the account, and the engine rules on the view;   *)
(* the books say what was really opened.                                   *)
(*                                                                         *)
(* Quantities are venue steps and a price is what one step costs.  What    *)
(* closes a position is outside this module: it books one of the Results.  *)
(***************************************************************************)
EXTENDS Leverage, FiniteSets, FiniteSetsExt, Sequences

CONSTANTS
  Symbols,
  Balance, ProfitTarget, LossBudget,
  MaxOpenPositions, MaxPositionNotional, MaxPortfolioExposure, MaxLeverage,
  MaxDataAge, MaxAtr, Cooldown,
  MinQuantity, MinNotional,
  Results,           \* what a close may book
  Proposals,         \* [margin, leverage, stop]
  Markets,           \* [status, age, price, volatility, atr, maxLeverage]
  MaxTime, MaxLoss   \* bounds of the runs

ASSUME DeskAssumption ==
  /\ {Balance, ProfitTarget, LossBudget, MaxOpenPositions, MaxPositionNotional,
      MaxPortfolioExposure, MaxLeverage, MaxDataAge, MaxAtr, Cooldown, MinQuantity,
      MinNotional, MaxTime, MaxLoss} \subseteq Nat
  /\ LossBudget > 0 /\ Results \subseteq Int
  /\ \A p \in Proposals : p.margin \in Int /\ p.leverage \in Nat /\ p.stop \in Nat
  /\ \A m \in Markets : m.price \in Nat /\ m.atr \in Nat /\ m.maxLeverage \in Nat

VARIABLES
  mode,        \* which of the two desks: they share only the reconciliation
  books,       \* what is really open, realised and locked at it
  stopped,     \* the emergency stop of the paper engine
  unsettled,   \* is an order awaiting reconciliation?
  now,
  approved,    \* testnet rulings whose order is not sent yet
  ruling       \* the ruling of the last step, with what it was made from

deskVars == <<mode, books, stopped, unsettled, now, approved, ruling>>

Modes == {"PAPER", "TESTNET"}
Absent == [margin |-> 0, leverage |-> 0, notional |-> 0, stop |-> 0]
Never == -1
NoRuling == [symbol |-> "NONE"]

LossLimit == -LossBudget

OpenSymbols == {s \in Symbols : books.positions[s] # Absent}
Available ==
  Balance + books.realized - MapThenSumSet(LAMBDA s : books.positions[s].margin, Symbols)

-----------------------------------------------------------------------------
(* The views. *)

(* _account_view of the paper service *)
PaperView(s) ==
  [stopped |-> stopped, unsettled |-> unsettled, lock |-> books.lock,
   realized |-> books.realized, open |-> OpenSymbols,
   exposure |-> MapThenSumSet(LAMBDA t : books.positions[t].notional, Symbols),
   available |-> Available, lastEntry |-> books.lastEntry[s]]

(* _rule of the testnet service: the balance and the result come from the  *)
(* venue; there is no lock, no position and no entry to be seen.           *)
TestnetView ==
  [stopped |-> FALSE, unsettled |-> unsettled, lock |-> "NONE",
   realized |-> books.realized, open |-> {}, exposure |-> 0,
   available |-> Available, lastEntry |-> Never]

View(s) == IF mode = "PAPER" THEN PaperView(s) ELSE TestnetView

-----------------------------------------------------------------------------
(* evaluate.  Each stage is the list of its checks in the code's order, as *)
(* pairs of what is wrong and the code it is refused with.                 *)

FirstOf(checks) ==
  LET broken == {i \in 1..Len(checks) : checks[i][1]}
  IN IF broken = {} THEN "NONE" ELSE checks[Min(broken)][2]

AccountRefusal(view) ==
  FirstOf(<< <<view.stopped, "EMERGENCY_STOP">>,
             <<view.unsettled, "RECONCILIATION_PENDING">>,
             <<view.lock = "DAILY_PROFIT_TARGET", "DAILY_PROFIT_TARGET">>,
             <<view.lock # "NONE", "DAILY_LOSS_LIMIT">> >>)

MarketRefusal(market) ==
  FirstOf(<< <<market.status # "OK" \/ market.price = Unknown, "STALE_DATA">>,
             <<market.age = Never, "STALE_DATA">>,
             <<market.age > MaxDataAge, "STALE_DATA">> >>)

SlotRefusal(s, view, market) ==
  FirstOf(<< <<s \in view.open, "SYMBOL_LIMIT">>,
             <<Cardinality(view.open) >= MaxOpenPositions, "MAX_OPEN_POSITIONS">>,
             <<view.lastEntry # Never /\ now - view.lastEntry < Cooldown, "COOLDOWN">>,
             <<market.volatility = "INSUFFICIENT_HISTORY", "INSUFFICIENT_HISTORY">>,
             <<market.volatility # "MEASURED", "STALE_DATA">>,
             <<market.atr > MaxAtr, "ABNORMAL_VOLATILITY">> >>)

(* The paper engine's own gate for a symbol that is not listed, which has   *)
(* no price: check_authority, which knows nothing of unsettled orders, and *)
(* check_market_data.                                                      *)
UnlistedRefusal(view) ==
  FirstOf(<< <<view.stopped, "EMERGENCY_STOP">>,
             <<view.lock = "DAILY_PROFIT_TARGET", "DAILY_PROFIT_TARGET">>,
             <<view.lock # "NONE", "DAILY_LOSS_LIMIT">>,
             <<TRUE, "STALE_DATA">> >>)

DerivedMax(p, view) == RiskMax(p.stop, p.margin, view.realized, LossLimit, MaxLeverage)

LeverageOf(p, view, market) ==
  Resolve(p.leverage, market.maxLeverage, DerivedMax(p, view), TRUE)

(* The quantity an approved leverage buys, truncated to whole steps. *)
StepsFor(margin, leverage, price) == (margin * leverage) \div (100 * price)

(* A market without filters is refused here too, but nobody asks about one: *)
(* a listed symbol carries its filters and both callers pass them.         *)
SizeRefusal(p, view, market, leverage) ==
  LET quantity == StepsFor(p.margin, leverage, market.price)
      notional == quantity * market.price
  IN FirstOf(<< <<p.margin <= 0, "POSITION_SIZE">>,
                <<p.margin > view.available, "INSUFFICIENT_BALANCE">>,
                <<quantity <= 0, "EXCHANGE_PRECISION">>,
                <<quantity < MinQuantity, "EXCHANGE_PRECISION">>,
                <<notional < MinNotional, "MIN_NOTIONAL">>,
                <<notional > MaxPositionNotional, "POSITION_SIZE">>,
                <<view.exposure + notional > MaxPortfolioExposure, "PORTFOLIO_EXPOSURE">> >>)

Refusal(code) == [approved |-> FALSE, code |-> code, leverage |-> Unknown,
                  quantity |-> 0, notional |-> 0, margin |-> 0]

Approval(p, market, leverage) ==
  LET quantity == StepsFor(p.margin, leverage, market.price)
      notional == quantity * market.price
  IN [approved |-> TRUE, code |-> "NONE", leverage |-> leverage, quantity |-> quantity,
      notional |-> notional, margin |-> (notional * 100) \div leverage]

(* Wrong: the size is looked at before the account is. *)
EvaluateSizeFirst(s, p, view, market) ==
  LET leverage == LeverageOf(p, view, market).approved
      size == IF market.price = Unknown \/ leverage = Unknown THEN "NONE"
              ELSE SizeRefusal(p, view, market, leverage)
  IN IF size # "NONE" THEN Refusal(size)
     ELSE IF AccountRefusal(view) # "NONE" THEN Refusal(AccountRefusal(view))
     ELSE IF MarketRefusal(market) # "NONE" THEN Refusal(MarketRefusal(market))
     ELSE IF SlotRefusal(s, view, market) # "NONE" THEN Refusal(SlotRefusal(s, view, market))
     ELSE IF leverage = Unknown THEN Refusal("MAX_LEVERAGE")
     ELSE Approval(p, market, leverage)

Evaluate(s, p, view, market) ==
  LET decision == LeverageOf(p, view, market)
  IN IF AccountRefusal(view) # "NONE" THEN Refusal(AccountRefusal(view))
     ELSE IF MarketRefusal(market) # "NONE" THEN Refusal(MarketRefusal(market))
     ELSE IF SlotRefusal(s, view, market) # "NONE" THEN Refusal(SlotRefusal(s, view, market))
     ELSE IF ~IsUsable(decision) THEN Refusal("MAX_LEVERAGE")
     ELSE IF SizeRefusal(p, view, market, decision.approved) # "NONE"
       THEN Refusal(SizeRefusal(p, view, market, decision.approved))
     ELSE Approval(p, market, decision.approved)

-----------------------------------------------------------------------------
DeskInit ==
  /\ mode \in Modes
  /\ books = [realized |-> 0, lock |-> "NONE", lastEntry |-> [s \in Symbols |-> Never],
              positions |-> [s \in Symbols |-> Absent]]
  /\ stopped = FALSE
  /\ unsettled = FALSE
  /\ now = 0
  /\ approved = {}
  /\ ruling = NoRuling

PositionOf(v, notional, p) ==
  [margin |-> v.margin, leverage |-> v.leverage, notional |-> notional, stop |-> p.stop]

Ruled(s, p, market) ==
  ruling' = [symbol |-> s, listed |-> TRUE, proposal |-> p, market |-> market,
             view |-> View(s), verdict |-> Evaluate(s, p, View(s), market)]

(* _submit_locked: what is approved is opened under the same lock, unless  *)
(* the paper engine's own gate refuses it at the price it fills at.        *)
PaperOrder(s, p, market) ==
  /\ mode = "PAPER"
  /\ Ruled(s, p, market)
  /\ LET v == Evaluate(s, p, View(s), market)
     IN \/ /\ v.approved
           /\ books' = [books EXCEPT !.positions[s] = PositionOf(v, v.notional, p),
                                     !.lastEntry[s] = now]
        \/ books' = books
  /\ UNCHANGED <<mode, stopped, unsettled, now, approved>>

(* _submit_locked for a symbol the venue does not list: straight to the     *)
(* paper engine, which refuses it; the risk engine is not asked.           *)
PaperOrderUnlisted(s, p) ==
  /\ mode = "PAPER"
  /\ ruling' = [symbol |-> s, listed |-> FALSE, proposal |-> p, view |-> PaperView(s),
                verdict |-> Refusal(UnlistedRefusal(PaperView(s)))]
  /\ UNCHANGED <<mode, books, stopped, unsettled, now, approved>>

(* _rule: a ticker without a value is refused before the engine is asked.  *)
TestnetRule(s, p, market) ==
  /\ mode = "TESTNET"
  /\ market.status = "OK" /\ market.price # Unknown
  /\ approved = {}
  /\ Ruled(s, p, market)
  /\ LET v == Evaluate(s, p, View(s), market)
     IN approved' = IF v.approved THEN {[symbol |-> s, proposal |-> p, verdict |-> v]} ELSE {}
  /\ UNCHANGED <<mode, books, stopped, unsettled, now>>

(* _size and the submission: the quantity is worked out again, from the    *)
(* margin asked for and the price of now.  The venue nets an entry into    *)
(* the position it already has; here the later one stands for both.        *)
TestnetSend(o, market) ==
  LET quantity == StepsFor(o.proposal.margin, o.verdict.leverage, market.price)
  IN /\ o \in approved
     /\ approved' = {}
     /\ ruling' = NoRuling
     /\ books' = IF market.status = "OK" /\ quantity > 0
                   THEN [books EXCEPT !.positions[o.symbol] =
                                        PositionOf(o.verdict, quantity * market.price, o.proposal)]
                   ELSE books
     /\ UNCHANGED <<mode, stopped, unsettled, now>>

-----------------------------------------------------------------------------
(* What happens to the account between rulings. *)

(* _apply_daily_lock, which the venue knows nothing of. *)
LockAfter(b) ==
  IF mode = "TESTNET" \/ b.lock # "NONE" THEN b
  ELSE CASE b.realized >= ProfitTarget -> [b EXCEPT !.lock = "DAILY_PROFIT_TARGET"]
         [] b.realized <= LossLimit    -> [b EXCEPT !.lock = "DAILY_LOSS_LIMIT"]
         [] OTHER                      -> b

Close(s) ==
  /\ s \in OpenSymbols
  /\ \E result \in Results :
       /\ books.realized + result \in -MaxLoss..MaxLoss
       /\ books' = LockAfter([books EXCEPT !.realized = @ + result, !.positions[s] = Absent])
  /\ ruling' = NoRuling
  /\ UNCHANGED <<mode, stopped, unsettled, now, approved>>

EmergencyStop ==
  /\ mode = "PAPER"
  /\ stopped' = ~stopped
  /\ ruling' = NoRuling
  /\ UNCHANGED <<mode, books, unsettled, now, approved>>

(* An order falls into doubt at the venue, or is reconciled. *)
Doubt ==
  /\ unsettled' = ~unsettled
  /\ ruling' = NoRuling
  /\ UNCHANGED <<mode, books, stopped, now, approved>>

Tick ==
  /\ now < MaxTime
  /\ now' = now + 1
  /\ ruling' = NoRuling
  /\ UNCHANGED <<mode, books, stopped, unsettled, approved>>

DeskNext ==
  \/ \E s \in Symbols, p \in Proposals, m \in Markets :
       PaperOrder(s, p, m) \/ TestnetRule(s, p, m)
  \/ \E s \in Symbols, p \in Proposals : PaperOrderUnlisted(s, p)
  \/ \E o \in approved, m \in Markets : TestnetSend(o, m)
  \/ \E s \in Symbols : Close(s)
  \/ EmergencyStop \/ Doubt \/ Tick

DeskSpec == DeskInit /\ [][DeskNext]_deskVars

-----------------------------------------------------------------------------
(***************************************************************************)
(* What is approved can be survived.  The leverage is at most what was     *)
(* asked for and the venue's ceiling, 1x when nobody knows that ceiling;   *)
(* above 1x the liquidation lies at twice the stop's distance or more and  *)
(* a stop-out fits in what is left of the day's budget (risk/leverage.py,  *)
(* analysis/leverage.py), whatever the rounding, the floor at 1x and the   *)
(* reduction do to it on the way.                                          *)
(***************************************************************************)
RulingIsSafe ==
  (ruling # NoRuling /\ ruling.verdict.approved) =>
    LET v == ruling.verdict
        p == ruling.proposal
        ceiling == ruling.market.maxLeverage
    IN /\ LeverageMin <= v.leverage /\ v.leverage <= p.leverage
       /\ v.leverage <= (IF ceiling = Unknown THEN LeverageMin ELSE ceiling)
       /\ v.margin <= p.margin /\ ~(p.margin > ruling.view.available)
       /\ v.leverage > LeverageMin =>
            /\ SafetyFactor * v.leverage * p.stop <= 10000
            /\ v.notional * p.stop <= 100 * (ruling.view.realized - LossLimit)

(***************************************************************************)
(* A halt is never masked.  While the paper desk is stopped, in doubt or   *)
(* locked for the day every order is refused and the refusal names the     *)
(* halt that ranks highest, never the size, the market or the slot that is *)
(* wrong as well; doubt ranks before the lock, whose numbers it may have   *)
(* made incomplete (engine.py).  One kind of order is excepted from doubt  *)
(* alone: one for a symbol that is not listed is refused by a gate that    *)
(* does not know of it, and names the lock or the market (paper.py:368).   *)
(* A mode that is not enabled comes first and is left out.                 *)
(***************************************************************************)
HaltsAreNeverMasked ==
  [][ (mode = "PAPER" /\ ruling' \notin {ruling, NoRuling}) =>
        LET code == ruling'.verdict.code
            doubted == unsettled /\ ruling'.listed
        IN /\ stopped => code = "EMERGENCY_STOP"
           /\ (~stopped /\ doubted) => code = "RECONCILIATION_PENDING"
           /\ (~stopped /\ ~doubted /\ books.lock # "NONE")
                => code = books.lock ]_deskVars

(***************************************************************************)
(* "The daily lock refuses the entry on its own authority"                 *)
(* (risk/leverage.py): with the day's budget spent, nothing is approved.   *)
(***************************************************************************)
SpentDayTakesNoEntry ==
  (ruling # NoRuling /\ ruling.verdict.approved) => ruling.view.realized > LossLimit

=============================================================================
