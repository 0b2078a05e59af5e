---------------------------- MODULE PaperAccount ----------------------------
(***************************************************************************)
(* The paper account (engines/paper/state.py) as a record, and what each   *)
(* method of PaperEngine (engines/paper/engine.py) makes of it, as         *)
(* functions of the record.  The engine is synchronous, so each method is  *)
(* one step of the modules that use it.                                    *)
(*                                                                         *)
(* Prices are whole ticks, quantities whole venue steps and money is in    *)
(* ticks; a level is kept in hundredths of a tick, which makes percentages *)
(* of a price exact as they are in the code.  A field of a position that   *)
(* is None in the code is 0 here: every price and level is positive.       *)
(* Left out: identifiers, counters of submissions and trades, the thesis   *)
(* and the excursions, which nothing in the engine reads.                  *)
(***************************************************************************)
EXTENDS Integers, FiniteSets, Functions

CONSTANTS
  Symbols,
  StartingBalance, ProfitTarget, LossBudget,                     \* the day's limits
  MaxOpenPositions, MaxPositionNotional, MaxPortfolioExposure,   \* the envelope
  Leverage,       \* the approved leverage
  FeeDivisor,     \* the taker fee is notional / FeeDivisor
  Slippage        \* what the last price moves by when no book is published

ASSUME AccountAssumption ==
  /\ IsFiniteSet(Symbols)
  /\ StartingBalance \in Nat \ {0} /\ ProfitTarget \in Nat \ {0}
  /\ LossBudget \in Nat \ {0}
  /\ MaxOpenPositions \in Nat /\ MaxPositionNotional \in Nat /\ MaxPortfolioExposure \in Nat
  /\ Leverage \in Nat \ {0} /\ FeeDivisor \in Nat \ {0} /\ Slippage \in Nat

\* daily_loss_limit, which must be negative.
LossLimit == -LossBudget

Sides == {"LONG", "SHORT"}

(* quantize_usdt: to the accounting unit, half up. *)
Rounded(n, d) == (2 * n + d) \div (2 * d)

Fee(notional) == Rounded(notional, FeeDivisor)

-----------------------------------------------------------------------------
(* The account. *)

Flat ==
  [side |-> "NONE", quantity |-> 0, entry |-> 0, notional |-> 0, margin |-> 0, fee |-> 0,
   stop |-> 0, target |-> 0, liquidation |-> 0, trail |-> 0, extreme |-> 0, mark |-> 0]

(* Days are numbered from 1; 0 is the session that was never started. *)
NewSession(day) == [date |-> day, realized |-> 0, lock |-> "NONE"]

Fresh(balance) ==
  [starting |-> balance, balance |-> balance, realized |-> 0, stopped |-> FALSE,
   session |-> NewSession(0), positions |-> [s \in Symbols |-> Flat]]

IsOpen(a, s) == a.positions[s] # Flat
OpenSymbols(a) == {s \in Symbols : IsOpen(a, s)}
Exposure(a) == SumFunction([s \in Symbols |-> a.positions[s].notional])
MarginUsed(a) == SumFunction([s \in Symbols |-> a.positions[s].margin])

(* The session is replaced whenever its date is not the caller's.  Every   *)
(* method of the engine that is given a clock does this first.             *)
EnsureSession(a, day) ==
  IF a.session.date = day THEN a ELSE [a EXCEPT !.session = NewSession(day)]

-----------------------------------------------------------------------------
(* Prices.  A mark says whether it may be acted on: its status is OK and   *)
(* its age is known and within the limit.  bid and ask are 0 when the      *)
(* venue published no book.                                                *)

FillPrice(mark, buying) ==
  IF buying THEN IF mark.ask > 0 THEN mark.ask ELSE mark.last + Slippage
            ELSE IF mark.bid > 0 THEN mark.bid ELSE mark.last - Slippage

(* A percentage above or below a price, in hundredths of a tick. *)
Level(price, percent, above) ==
  IF percent = 0 THEN 0
  ELSE IF above THEN price * (100 + percent) ELSE price * (100 - percent)

LiquidationLevel(entry, side) ==
  LET move == (100 * entry) \div Leverage
  IN IF side = "LONG" THEN 100 * entry - move ELSE 100 * entry + move

TrailingLevel(p) == Level(p.extreme, p.trail, p.side = "SHORT")

(* The levels that close a position against it, in the order the code      *)
(* lists them: of two at one price the first listed is the one reported.   *)
AdverseLevels(p) ==
  {l \in {[rank |-> 1, reason |-> "LIQUIDATION",   level |-> p.liquidation],
          [rank |-> 2, reason |-> "STOP_LOSS",     level |-> p.stop],
          [rank |-> 3, reason |-> "TRAILING_STOP", level |-> TrailingLevel(p)]} :
     l.level # 0}

Against(p, level, price) ==
  IF p.side = "LONG" THEN 100 * price <= level ELSE 100 * price >= level

(* Wrong: the highest level fires on either side. *)
MetBeforeHighest(p, l, m) == l.level > m.level \/ (l.level = m.level /\ l.rank <= m.rank)

(* l is what an adverse move meets before m. *)
MetBefore(p, l, m) ==
  \/ IF p.side = "LONG" THEN l.level > m.level ELSE l.level < m.level
  \/ l.level = m.level /\ l.rank <= m.rank

TargetReached(p, price) ==
  /\ p.target # 0
  /\ IF p.side = "LONG" THEN 100 * price >= p.target ELSE 100 * price <= p.target

TriggeredExit(p, price) ==
  LET reached == {l \in AdverseLevels(p) : Against(p, l.level, price)}
  IN IF reached # {}
       THEN (CHOOSE l \in reached : \A m \in reached : MetBefore(p, l, m)).reason
       ELSE IF TargetReached(p, price) THEN "TAKE_PROFIT" ELSE "NONE"

(* The trailing extreme only ever moves in the position's favour. *)
AdvanceTrail(p, price) ==
  IF /\ p.trail # 0
     /\ IF p.side = "LONG" THEN price > p.extreme ELSE price < p.extreme
    THEN [p EXCEPT !.extreme = price] ELSE p

-----------------------------------------------------------------------------
(* Entry. *)

(* check_authority: what refuses any entry whatever the order. *)
MayOpenAnything(a) == ~a.stopped /\ a.session.lock = "NONE"

(* A size asked for as margin, truncated to whole steps. *)
QuantityFor(r, price) == (r.margin * Leverage) \div price

(* What an order would open; r is [symbol, side, margin, stop, target, trail]. *)
PositionFor(r, mark) ==
  LET price == FillPrice(mark, r.side = "LONG")
      quantity == QuantityFor(r, price)
      long == r.side = "LONG"
  IN [side |-> r.side, quantity |-> quantity, entry |-> price,
      notional |-> quantity * price, margin |-> Rounded(quantity * price, Leverage),
      fee |-> Fee(quantity * price),
      stop |-> Level(price, r.stop, ~long), target |-> Level(price, r.target, long),
      liquidation |-> LiquidationLevel(price, r.side),
      trail |-> r.trail, extreme |-> IF r.trail # 0 THEN price ELSE 0, mark |-> price]

Available(a) == a.balance - MarginUsed(a)

(* Wrong: each position is held to its own ceiling and the account to none. *)
MayOpenEach(a, r, mark) ==
  /\ MayOpenAnything(a)
  /\ mark.usable
  /\ LET p == PositionFor(r, mark)
     IN /\ p.quantity > 0 /\ p.notional <= MaxPositionNotional
        /\ ~IsOpen(a, r.symbol)
        /\ Cardinality(OpenSymbols(a)) < MaxOpenPositions
        /\ p.margin <= Available(a)

(* submit_order's own checks and check_entry. *)
MayOpen(a, r, mark) ==
  /\ MayOpenAnything(a)
  /\ mark.usable
  /\ LET p == PositionFor(r, mark)
     IN /\ p.quantity > 0
        /\ p.notional <= MaxPositionNotional
        /\ ~IsOpen(a, r.symbol)
        /\ Cardinality(OpenSymbols(a)) < MaxOpenPositions
        /\ Exposure(a) + p.notional <= MaxPortfolioExposure
        /\ p.margin <= Available(a)

(* Money that is realised moves the balance, the account's and the day's   *)
(* realised result together.                                               *)
Realize(a, amount) ==
  [a EXCEPT !.balance = @ + amount, !.realized = @ + amount,
            !.session.realized = @ + amount]

Opened(a, r, mark) ==
  LET p == PositionFor(r, mark)
  IN [Realize(a, -p.fee) EXCEPT !.positions[r.symbol] = p]

(* A refused order changes nothing but the session it is counted in. *)
Submitted(a, r, mark, day) ==
  LET b == EnsureSession(a, day)
  IN IF MayOpen(b, r, mark) THEN Opened(b, r, mark) ELSE b

-----------------------------------------------------------------------------
(* Exit. *)

(* Wrong: the lock follows the result back. *)
LockedAnew(session) ==
  [session EXCEPT !.lock = CASE session.realized >= ProfitTarget -> "DAILY_PROFIT_TARGET"
                             [] session.realized <= LossLimit    -> "DAILY_LOSS_LIMIT"
                             [] OTHER                            -> "NONE"]

(* _apply_daily_lock, which only a close calls. *)
Locked(session) ==
  IF session.lock # "NONE" THEN session
  ELSE CASE session.realized >= ProfitTarget -> [session EXCEPT !.lock = "DAILY_PROFIT_TARGET"]
         [] session.realized <= LossLimit    -> [session EXCEPT !.lock = "DAILY_LOSS_LIMIT"]
         [] OTHER                            -> session

ExitPrice(p, mark) == FillPrice(mark, p.side = "SHORT")

Gross(p, price) == (IF p.side = "LONG" THEN price - p.entry ELSE p.entry - price) * p.quantity

(* What the close moves the balance by; the entry fee left it at the entry. *)
Proceeds(p, mark) ==
  Gross(p, ExitPrice(p, mark)) - Fee(p.quantity * ExitPrice(p, mark))

(* net_pnl of the trade, which counts both fees. *)
Net(p, mark) == Proceeds(p, mark) - p.fee

(* Wrong: the entry fee is charged a second time. *)
ClosedNet(a, s, mark, day) ==
  LET b == Realize(EnsureSession(a, day), Net(a.positions[s], mark))
  IN [b EXCEPT !.positions[s] = Flat, !.session = Locked(@)]

Closed(a, s, mark, day) ==
  LET b == Realize(EnsureSession(a, day), Proceeds(a.positions[s], mark))
  IN [b EXCEPT !.positions[s] = Flat, !.session = Locked(@)]

(* close_position: a close without a usable price is refused. *)
ClosedByHand(a, s, mark, day) ==
  IF IsOpen(a, s) /\ mark.usable THEN Closed(a, s, mark, day) ELSE EnsureSession(a, day)

(* Wrong: the exits are evaluated at the mark before this one. *)
ManagedLate(a, s, mark, day) ==
  LET p == a.positions[s]
  IN IF ~mark.usable THEN [a EXCEPT !.positions[s].mark = 0]
     ELSE IF p.mark # 0 /\ TriggeredExit(p, p.mark) # "NONE" THEN Closed(a, s, mark, day)
     ELSE [a EXCEPT !.positions[s] = AdvanceTrail([p EXCEPT !.mark = mark.last], mark.last)]

(* The body of tick's loop, for an open position. *)
Managed(a, s, mark, day) ==
  LET p == a.positions[s]
      seen == [p EXCEPT !.mark = mark.last]
  IN IF ~mark.usable THEN [a EXCEPT !.positions[s].mark = 0]
     ELSE IF TriggeredExit(p, mark.last) # "NONE" THEN Closed(a, s, mark, day)
     ELSE [a EXCEPT !.positions[s] = AdvanceTrail(seen, mark.last)]

=============================================================================
