------------------------------ MODULE Backtest ------------------------------
(***************************************************************************)
(* The historical simulation (analysis/backtest/engine.py) and the numbers *)
(* made of it (metrics.py), one bar at a time: execute what the bar before *)
(* decided, manage the position, mark it, decide.                          *)
(*                                                                         *)
(* A bar is [open, high, low, close, bias]: the bias is what the rule set  *)
(* says of the candles up to this one.  Prices and money are in the units  *)
(* of the instance and truncated to them.  A setting is [balance, size,    *)
(* leverage, fee, slippage, stop, target, trail, sides]: percents, fee and *)
(* slippage in basis points, 0 for a level that is not set.                *)
(***************************************************************************)
EXTENDS Integers, Sequences, FiniteSets, FiniteSetsExt, SequencesExt

CONSTANTS
  HistoryBars,   \* what a bar may be
  BarCount,      \* the length of the series
  Warmup,        \* bars before the rule set may decide
  Settings

ASSUME BacktestAssumption ==
  /\ BarCount \in Nat /\ Warmup \in Nat /\ BarCount >= Warmup + 2
  /\ \A b \in HistoryBars :
       /\ b.low \in Nat \ {0} /\ b.high \in Nat
       /\ \A p \in {b.open, b.close} : p \in b.low..b.high
  /\ Settings \subseteq [balance : Nat \ {0}, size : 1..100, leverage : 1..25, fee : 0..100,
                         slippage : 0..100, stop : 0..90, target : 0..1000, trail : 0..90,
                         sides : SUBSET {"LONG", "SHORT"}]

VARIABLES
  read,      \* the bars processed so far
  setting,
  sim        \* the simulation's own state

backtestVars == <<read, setting, sim>>

Flat == [side |-> "FLAT"]
NoExit == [level |-> 0, reason |-> "NONE"]

-----------------------------------------------------------------------------
(* Prices. *)

Toward(price, percent, up) == IF up THEN price + (price * percent) \div 100
                              ELSE price - (price * percent) \div 100

(* _apply_slippage: a buy fills above, a sale below. *)
Slipped(price, side, entering, s) ==
  IF (side = "LONG") = entering THEN price + (price * s.slippage) \div 10000
  ELSE price - (price * s.slippage) \div 10000

Fee(notional, s) == (notional * s.fee) \div 10000

LevelAt(price, percent, up) == IF percent = 0 THEN 0 ELSE Toward(price, percent, up)

(* _desired_side *)
DesiredSide(bias, s) ==
  CASE bias = "LONG_BIAS" /\ "LONG" \in s.sides   -> "LONG"
    [] bias = "SHORT_BIAS" /\ "SHORT" \in s.sides -> "SHORT"
    [] OTHER                                      -> "FLAT"

TrailLevel(p, s) == LevelAt(p.extreme, s.trail, p.side = "SHORT")

(* The adverse levels of a position that are set. *)
AdverseLevels(p, s) ==
  {l \in {[level |-> p.stop, reason |-> "STOP_LOSS"],
          [level |-> p.liquidation, reason |-> "LIQUIDATION"],
          [level |-> TrailLevel(p, s), reason |-> "TRAILING_STOP"]} : l.level # 0}

Reached(bar, level, below) == IF below THEN bar.low <= level ELSE bar.high >= level

(* resolve_intrabar_exit: the nearest adverse level, then the target.      *)
IntrabarExit(p, bar, s) ==
  LET long == p.side = "LONG"
      hit == {l \in AdverseLevels(p, s) : Reached(bar, l.level, long)}
  IN IF hit # {} THEN CHOOSE l \in hit : \A k \in hit :
            IF long THEN k.level <= l.level ELSE k.level >= l.level
     ELSE IF p.target # 0 /\ Reached(bar, p.target, ~long)
       THEN [level |-> p.target, reason |-> "TAKE_PROFIT"]
     ELSE NoExit

-----------------------------------------------------------------------------
(* The four stages of a bar.  i is the bar's place in the series, from 1.  *)

Pnl(p, price) == p.quantity * (IF p.side = "LONG" THEN price - p.entry ELSE p.entry - price)

(* Wrong: a loss may exceed the margin. *)
ClosedUnfloored(t, raw, reason, i, s) ==
  LET p == t.position
      fill == Slipped(raw, p.side, FALSE, s)
      fees == p.fee + Fee(p.quantity * fill, s)
      net == Pnl(p, fill) - fees
  IN [t EXCEPT !.equity = @ + net, !.position = Flat,
               !.trades = Append(@, [side |-> p.side, entered |-> p.entered, exited |-> i,
                                     entry |-> p.entry, level |-> raw, reason |-> reason,
                                     fees |-> fees, net |-> net, position |-> p])]

(* close_position: a loss never exceeds the margin posted. *)
ClosedAt(t, raw, reason, i, s) ==
  LET p == t.position
      fill == Slipped(raw, p.side, FALSE, s)
      fees == p.fee + Fee(p.quantity * fill, s)
      net == Max({Pnl(p, fill) - fees, -p.margin})
  IN [t EXCEPT !.equity = @ + net, !.position = Flat,
               !.trades = Append(@, [side |-> p.side, entered |-> p.entered, exited |-> i,
                                     entry |-> p.entry, level |-> raw, reason |-> reason,
                                     fees |-> fees, net |-> net, position |-> p])]

OpenedAt(t, bar, i, s) ==
  LET long == t.pending = "LONG"
      fill == Slipped(bar.open, t.pending, TRUE, s)
      margin == (t.equity * s.size) \div 100
      notional == margin * s.leverage
  IN [t EXCEPT !.position =
        [side |-> t.pending, entered |-> i, entry |-> fill, quantity |-> notional \div fill,
         margin |-> margin, fee |-> Fee(notional, s),
         stop |-> LevelAt(fill, s.stop, ~long), target |-> LevelAt(fill, s.target, long),
         liquidation |-> IF s.leverage = 1 THEN 0
                         ELSE IF long THEN fill - fill \div s.leverage
                         ELSE fill + fill \div s.leverage,
         extreme |-> fill]]

Executed(t, bar, i, s) ==
  IF t.pending = "NONE" THEN t
  ELSE LET u == IF t.position # Flat /\ t.position.side # t.pending
                  THEN ClosedAt(t, bar.open, "SIGNAL_FLIP", i, s) ELSE t
           v == IF u.position = Flat /\ u.pending # "FLAT" /\ u.equity > 0
                  THEN OpenedAt(u, bar, i, s) ELSE u
       IN [v EXCEPT !.pending = "NONE"]

(* Wrong: the bar's own extreme moves the trail before it is checked. *)
ManagedEarly(t, bar, i, s) ==
  IF t.position = Flat THEN t
  ELSE LET u == [t EXCEPT !.position.extreme = IF t.position.side = "LONG" THEN Max({@, bar.high})
                                               ELSE Min({@, bar.low})]
           exit == IntrabarExit(u.position, bar, s)
       IN IF exit # NoExit THEN ClosedAt(u, exit.level, exit.reason, i, s) ELSE u

(* The trail follows the extremes of the bars before this one. *)
Managed(t, bar, i, s) ==
  IF t.position = Flat THEN t
  ELSE LET exit == IntrabarExit(t.position, bar, s)
       IN IF exit # NoExit THEN ClosedAt(t, exit.level, exit.reason, i, s)
          ELSE [t EXCEPT !.position.extreme = IF t.position.side = "LONG" THEN Max({@, bar.high})
                                              ELSE Min({@, bar.low})]

(* What an open position is marked at: the entry fee is paid, the exit not. *)
Unrealised(p, price) == Max({Pnl(p, price) - p.fee, -p.margin})

Worth(p, price) == IF p = Flat THEN 0 ELSE Unrealised(p, price)

Marked(t, bar) == [t EXCEPT !.curve = Append(@, t.equity + Worth(t.position, bar.close))]

(* The last bar decides nothing, and no bar before the warm-up is over. *)
Decided(t, bar, i, s) ==
  LET desired == DesiredSide(bar.bias, s)
  IN IF i < BarCount /\ i > Warmup /\ desired # t.position.side
       THEN [t EXCEPT !.pending = desired] ELSE t

(* Wrong: the bar is decided on before what it decides is executed. *)
ProcessedDecidingFirst(t, bar, i, s) ==
  Marked(Managed(Executed(Decided(t, bar, i, s), bar, i, s), bar, i, s), bar)

Processed(t, bar, i, s) ==
  Decided(Marked(Managed(Executed(t, bar, i, s), bar, i, s), bar), bar, i, s)

-----------------------------------------------------------------------------
(* compute_metrics *)

(* The longest stretch of trades that are all among the hits. *)
LongestRun(hits, total) ==
  Max({0} \cup {n \in 1..total : \E k \in n..total : (k - n + 1)..k \subseteq hits})

Drawdown(curve, start) ==
  Max({0} \cup {Max({start} \cup {curve[j] : j \in 1..k}) - curve[k] : k \in DOMAIN curve})

Metrics(trades, curve, s) ==
  LET nets == [k \in DOMAIN trades |-> trades[k].net]
      won == {k \in DOMAIN trades : nets[k] > 0}
      lost == {k \in DOMAIN trades : nets[k] < 0}
  IN [total |-> Len(trades), wins |-> Cardinality(won), losses |-> Cardinality(lost),
      profit |-> SumFunctionOnSet(nets, won), loss |-> -SumFunctionOnSet(nets, lost),
      net |-> SumFunction(nets),
      fees |-> SumFunction([k \in DOMAIN trades |-> trades[k].fees]),
      ending |-> IF curve = <<>> THEN s.balance ELSE Last(curve),
      drawdown |-> Drawdown(curve, s.balance),
      streak |-> LongestRun(lost, Len(trades))]

-----------------------------------------------------------------------------
BacktestInit ==
  /\ read = <<>>
  /\ setting \in Settings
  /\ sim = [equity |-> setting.balance, position |-> Flat, pending |-> "NONE",
            trades |-> <<>>, curve |-> <<>>, done |-> FALSE]

ReadBar(bar) ==
  /\ Len(read) < BarCount
  /\ read' = Append(read, bar)
  /\ sim' = Processed(sim, bar, Len(read) + 1, setting)
  /\ UNCHANGED setting

(* What is still open is closed at the last close. *)
Finish ==
  /\ Len(read) = BarCount /\ ~sim.done
  /\ sim' = [(IF sim.position = Flat THEN sim
              ELSE ClosedAt(sim, Last(read).close, "END_OF_DATA", BarCount, setting))
             EXCEPT !.done = TRUE]
  /\ UNCHANGED <<read, setting>>

BacktestNext == (\E bar \in HistoryBars : ReadBar(bar)) \/ Finish

BacktestSpec == BacktestInit /\ [][BacktestNext]_backtestVars

-----------------------------------------------------------------------------
(* Properties.  They are stated over the bars read, which the simulation   *)
(* itself only sees one at a time.                                         *)

Taken == {[entered |-> t.entered, until |-> t.exited - 1, p |-> t.position] :
            t \in ToSet(sim.trades)}
         \cup IF sim.position = Flat THEN {}
              ELSE {[entered |-> sim.position.entered, until |-> Len(read), p |-> sim.position]}

(* A position was decided on the bar before the one whose open it pays,    *)
(* never on its own bar, and never in the warm-up (engine.py:375-431,      *)
(* 502-506: the look-ahead a simulation must not have).                    *)
NoLookAhead ==
  \A held \in Taken :
    /\ held.entered - 1 > Warmup
    /\ DesiredSide(read[held.entered - 1].bias, setting) = held.p.side
    /\ held.p.entry = Slipped(read[held.entered].open, held.p.side, TRUE, setting)

(* The best price since the entry over the bars before bar k. *)
BestBefore(held, k) ==
  IF held.p.side = "LONG"
    THEN Max({held.p.entry} \cup {read[j].high : j \in held.entered..(k - 1)})
    ELSE Min({held.p.entry} \cup {read[j].low : j \in held.entered..(k - 1)})

(* Whether bar k reaches a level that closes the position against it.      *)
AdverseAt(held, k) ==
  \E l \in AdverseLevels([held.p EXCEPT !.extreme = BestBefore(held, k)], setting) :
    Reached(read[k], l.level, held.p.side = "LONG")

(* A position rests only through bars that reach none of its levels, the   *)
(* trail being that of the bars before; it leaves against itself at a      *)
(* level known before the bar, and a bar that reaches both sides never     *)
(* takes the profit (engine.py:200-244, 444-476).                          *)
WorstCaseIsAssumed ==
  /\ \A held \in Taken : \A k \in held.entered..held.until : ~AdverseAt(held, k)
  /\ \A t \in ToSet(sim.trades) :
       LET held == [entered |-> t.entered, p |-> t.position]
       IN /\ t.reason = "TAKE_PROFIT" => ~AdverseAt(held, t.exited)
          /\ t.reason \in {"STOP_LOSS", "LIQUIDATION", "TRAILING_STOP"} =>
               [level |-> t.level, reason |-> t.reason] \in
                 AdverseLevels([t.position EXCEPT !.extreme = BestBefore(held, t.exited)], setting)

(* The account is what its trades made of it: the equity is the balance    *)
(* plus every net result, no trade loses more than its margin and one      *)
(* position at a time is held.  The ending balance of a finished run is    *)
(* that equity, unless a position was still open: then it is what the      *)
(* other trades made and the mark of that position, and not the net of its *)
(* close, which is booked after it and never above it (engine.py:313-373,  *)
(* 478-520, metrics.py:115-180).                                           *)
LedgerAddsUp ==
  LET trades == sim.trades
      m == Metrics(trades, sim.curve, setting)
      t == Last(trades)
  IN /\ sim.equity = setting.balance + m.net /\ m.net = m.profit - m.loss
     /\ sim.equity >= 0
     /\ \A k \in DOMAIN trades : trades[k].net >= -trades[k].position.margin
     /\ \A k \in 2..Len(trades) : trades[k - 1].exited <= trades[k].entered
     /\ m.streak <= m.losses /\ m.drawdown >= setting.balance - m.ending
     /\ sim.done =>
          IF trades # <<>> /\ t.reason = "END_OF_DATA"
            THEN LET mark == Unrealised(t.position, Last(read).close)
                 IN m.ending = sim.equity - t.net + mark /\ t.net <= mark
            ELSE m.ending = sim.equity

=============================================================================
