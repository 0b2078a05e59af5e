---------------------------- MODULE Tools_proofs ----------------------------
(***************************************************************************)
(* Proofs about the offline tools: the simulation, the parameter search,   *)
(* the cached candle read and the scan.                                    *)
(***************************************************************************)
EXTENDS Backtest, Optimizer, MarketFeed, Scanner, Aggregates,
        SequenceTheorems, TLAPS

-----------------------------------------------------------------------------
(* The simulation: what it is made of. *)

SimFields == {"equity", "position", "pending", "trades", "curve", "done"}
PositionFields == {"side", "entered", "entry", "quantity", "margin", "fee", "stop", "target",
                   "liquidation", "extreme"}

PositionShape(p) ==
  /\ DOMAIN p = PositionFields
  /\ p.side \in {"LONG", "SHORT"}
  /\ p.entered \in Int /\ p.entry \in Int /\ p.fee \in Int
  /\ p.quantity \in Nat /\ p.margin \in Nat
  /\ p.stop \in Int /\ p.liquidation \in Int /\ p.target \in Int /\ p.extreme \in Int

NetAt(p, raw, s) ==
  LET fill == Slipped(raw, p.side, FALSE, s)
  IN Max({Pnl(p, fill) - (p.fee + Fee(p.quantity * fill, s)), -p.margin})

TradeAt(p, raw, reason, i, s) ==
  LET fill == Slipped(raw, p.side, FALSE, s)
  IN [side |-> p.side, entered |-> p.entered, exited |-> i, entry |-> p.entry, level |-> raw,
      reason |-> reason, fees |-> p.fee + Fee(p.quantity * fill, s), net |-> NetAt(p, raw, s),
      position |-> p]

SettingOk(s) ==
  /\ s.balance \in Nat \ {0} /\ s.size \in 1..100 /\ s.leverage \in 1..25 /\ s.fee \in 0..100
  /\ s.slippage \in 0..100 /\ s.stop \in 0..90 /\ s.target \in 0..1000 /\ s.trail \in 0..90

LEMMA SettingsAreOk == \A s \in Settings : SettingOk(s)
BY BacktestAssumption DEF SettingOk

LEMMA BarsAreOk ==
  \A b \in HistoryBars : /\ b.open \in Nat \ {0} /\ b.close \in Nat \ {0}
                         /\ b.high \in Nat /\ b.low \in Nat \ {0}
BY BacktestAssumption

-----------------------------------------------------------------------------
(* Arithmetic. *)

LEMMA SlippedIsPrice ==
  ASSUME NEW s, SettingOk(s), NEW price \in Nat \ {0}, NEW side, NEW entering \in BOOLEAN
  PROVE  Slipped(price, side, entering, s) \in Nat \ {0}
<1> DEFINE d == price * s.slippage
           m == d \div 10000
<1>1. d \in Nat /\ d <= price * 100
  BY TimesAtMost DEF SettingOk
<1> HIDE DEF d
<1>2. m \in Nat /\ m < price
  BY <1>1
<1>3. Slipped(price, side, entering, s) \in {price + m, price - m}
  BY DEF Slipped, m, d
<1> HIDE DEF m
<1> QED BY <1>2, <1>3

LEMMA SlippedIsInteger ==
  ASSUME NEW s, SettingOk(s), NEW price \in Int, NEW side, NEW entering \in BOOLEAN
  PROVE  Slipped(price, side, entering, s) \in Int
<1> DEFINE d == price * s.slippage
           m == d \div 10000
<1>1. d \in Int
  BY DEF SettingOk
<1> HIDE DEF d
<1>2. m \in Int
  BY <1>1
<1>3. Slipped(price, side, entering, s) \in {price + m, price - m}
  BY DEF Slipped, m, d
<1> HIDE DEF m
<1> QED BY <1>2, <1>3

LEMMA LevelAtIsInteger ==
  ASSUME NEW price \in Int, NEW percent \in Int, NEW up
  PROVE  LevelAt(price, percent, up) \in Int
<1> DEFINE d == price * percent
           m == d \div 100
<1>1. d \in Int
  OBVIOUS
<1> HIDE DEF d
<1>2. m \in Int
  BY <1>1
<1>3. LevelAt(price, percent, up) \in {0, price + m, price - m}
  BY DEF LevelAt, Toward, m, d
<1> HIDE DEF m
<1> QED BY <1>2, <1>3

LEMMA FeeIsMoney ==
  ASSUME NEW s, SettingOk(s), NEW n \in Int
  PROVE  Fee(n, s) \in Int
<1> DEFINE d == n * s.fee
<1>1. d \in Int
  BY DEF SettingOk
<1> HIDE DEF d
<1>2. d \div 10000 \in Int
  BY <1>1
<1> QED BY <1>2 DEF Fee, d

(* A close costs no more than the margin. *)
LEMMA NetIsFloored ==
  ASSUME NEW s, SettingOk(s), NEW p, PositionShape(p), NEW raw \in Int
  PROVE  NetAt(p, raw, s) \in Int /\ NetAt(p, raw, s) >= -p.margin
<1> DEFINE fill == Slipped(raw, p.side, FALSE, s)
           size == p.quantity
           traded == size * fill
           up == size * (fill - p.entry)
           down == size * (p.entry - fill)
<1>1. fill \in Int
  BY SlippedIsInteger
<1>2. size \in Int /\ p.entry \in Int /\ p.fee \in Int /\ p.margin \in Nat
  BY DEF PositionShape
<1>3. Pnl(p, fill) \in {up, down}
  BY DEF Pnl
<1>4. NetAt(p, raw, s) = Max({Pnl(p, fill) - (p.fee + Fee(traded, s)), -p.margin})
  BY DEF NetAt
<1> HIDE DEF fill, size
<1>5. traded \in Int /\ up \in Int /\ down \in Int
  BY <1>1, <1>2
<1> HIDE DEF traded, up, down
<1>6. Fee(traded, s) \in Int
  BY <1>5, FeeIsMoney
<1> DEFINE made == Pnl(p, fill) - (p.fee + Fee(traded, s))
           floor == -p.margin
<1>7. made \in Int /\ floor \in Int
  BY <1>2, <1>3, <1>5, <1>6
<1>8. NetAt(p, raw, s) = Max({made, floor})
  BY <1>4
<1> HIDE DEF made, floor
<1>9. Max({made, floor}) = IF made >= floor THEN made ELSE floor
  BY <1>7, LargerOfTwo
<1>10. NetAt(p, raw, s) \in Int /\ NetAt(p, raw, s) >= floor
  BY <1>7, <1>8, <1>9
<1> QED BY <1>10 DEF floor

(* A close at a price is booked at no more than the mark at that price: it *)
(* slips against the position and pays a fee of its own.                   *)
LEMMA MarkIsAbove ==
  ASSUME NEW s, SettingOk(s), NEW p, PositionShape(p), NEW raw \in Nat \ {0}
  PROVE  Unrealised(p, raw) \in Int /\ NetAt(p, raw, s) <= Unrealised(p, raw)
<1> DEFINE fill == Slipped(raw, p.side, FALSE, s)
           size == p.quantity
           slip == (raw * s.slippage) \div 10000
           cost == Fee(size * fill, s)
           floor == -p.margin
           made == Pnl(p, fill) - (p.fee + cost)
           mark == Pnl(p, raw) - p.fee
<1>1. /\ size \in Nat /\ p.entry \in Int /\ p.fee \in Int /\ floor \in Int
      /\ p.side \in {"LONG", "SHORT"}
  BY DEF PositionShape
<1>2. slip \in Nat /\ fill \in Nat \ {0}
      /\ fill = IF p.side = "LONG" THEN raw - slip ELSE raw + slip
  <2> DEFINE d == raw * s.slippage
  <2>1. d \in Nat
    BY TimesAtMost DEF SettingOk
  <2>2. slip = d \div 10000
    OBVIOUS
  <2>3. fill \in Nat \ {0}
    BY SlippedIsPrice
  <2>4. fill = IF p.side = "LONG" THEN raw - slip ELSE raw + slip
    BY <1>1 DEF Slipped
  <2> HIDE DEF d, slip, fill
  <2> QED BY <2>1, <2>2, <2>3, <2>4
<1> HIDE DEF slip, fill
<1>3. cost \in Nat
  <2> DEFINE n == size * fill
             d == n * s.fee
  <2>1. n \in Nat
    BY <1>1, <1>2
  <2> HIDE DEF n
  <2>2. d \in Nat
    BY <2>1, TimesAtMost DEF SettingOk
  <2>3. cost = d \div 10000
    BY DEF Fee, n
  <2> HIDE DEF d, cost
  <2> QED BY <2>2, <2>3
<1> HIDE DEF cost
<1>4. Pnl(p, fill) \in Int /\ Pnl(p, raw) \in Int /\ Pnl(p, fill) <= Pnl(p, raw)
  <2> DEFINE gain == IF p.side = "LONG" THEN fill - p.entry ELSE p.entry - fill
             worth == IF p.side = "LONG" THEN raw - p.entry ELSE p.entry - raw
  <2>1. Pnl(p, fill) = size * gain /\ Pnl(p, raw) = size * worth
    BY DEF Pnl
  <2>2. gain \in Int /\ worth \in Int /\ worth = gain + slip
    BY <1>1, <1>2
  <2> HIDE DEF gain, worth, size
  <2>3. size * worth = size * gain + size * slip
    BY <1>1, <1>2, <2>2
  <2> DEFINE u == size * gain
             v == size * slip
             w == size * worth
  <2>4. u \in Int /\ v \in Nat /\ w \in Int
    BY <1>1, <1>2, <2>2
  <2>5. w = u + v
    BY <2>3
  <2> HIDE DEF u, v, w
  <2>6. u <= w
    BY <2>4, <2>5
  <2> QED BY <2>1, <2>4, <2>6 DEF u, w
<1>5. made \in Int /\ mark \in Int /\ made <= mark
  BY <1>1, <1>3, <1>4
<1>6. NetAt(p, raw, s) = Max({made, floor}) /\ Unrealised(p, raw) = Max({mark, floor})
  BY DEF NetAt, Unrealised, fill, cost
<1> HIDE DEF made, mark, floor
<1>7. /\ Max({made, floor}) = (IF made >= floor THEN made ELSE floor)
      /\ Max({mark, floor}) = (IF mark >= floor THEN mark ELSE floor)
  BY <1>1, <1>5, LargerOfTwo
<1> QED BY <1>1, <1>5, <1>6, <1>7

-----------------------------------------------------------------------------
(* The stages, field by field. *)

LEMMA ClosedFields ==
  ASSUME NEW t, DOMAIN t = SimFields, NEW raw, NEW reason, NEW i, NEW s
  PROVE  LET b == ClosedAt(t, raw, reason, i, s)
         IN /\ DOMAIN b = SimFields
            /\ b.position = Flat /\ b.equity = t.equity + NetAt(t.position, raw, s)
            /\ b.trades = Append(t.trades, TradeAt(t.position, raw, reason, i, s))
            /\ b.pending = t.pending /\ b.curve = t.curve /\ b.done = t.done
BY DEF ClosedAt, NetAt, TradeAt, SimFields

OpenedWell(b, t, bar, i, s) ==
  /\ DOMAIN b = SimFields
  /\ b.equity = t.equity /\ b.trades = t.trades
  /\ b.pending = t.pending /\ b.curve = t.curve /\ b.done = t.done
  /\ LET q == b.position
     IN /\ PositionShape(q) /\ q.side = t.pending /\ q.entered = i
        /\ q.entry = Slipped(bar.open, t.pending, TRUE, s)
        /\ q.extreme = q.entry /\ q.margin <= t.equity

LEMMA OpenedFields ==
  ASSUME NEW t, DOMAIN t = SimFields, t.pending \in {"LONG", "SHORT"}, t.equity \in Nat,
         NEW bar \in HistoryBars, NEW i \in Int, NEW s, SettingOk(s),
         NEW b, b = OpenedAt(t, bar, i, s)
  PROVE  OpenedWell(b, t, bar, i, s)
<1> DEFINE long == t.pending = "LONG"
           fill == Slipped(bar.open, t.pending, TRUE, s)
           staked == t.equity * s.size
           margin == staked \div 100
           notional == margin * s.leverage
           p == [side |-> t.pending, entered |-> i, entry |-> fill, quantity |-> notional \div fill,
                 margin |-> margin, fee |-> Fee(notional, s),
                 stop |-> LevelAt(fill, s.stop, ~long), target |-> LevelAt(fill, s.target, long),
                 liquidation |-> IF s.leverage = 1 THEN 0
                                 ELSE IF long THEN fill - fill \div s.leverage
                                 ELSE fill + fill \div s.leverage,
                 extreme |-> fill]
<1>1. fill \in Nat \ {0}
  BY BarsAreOk, SlippedIsPrice
<1>2. staked \in Nat /\ staked <= t.equity * 100
  BY TimesAtMost DEF SettingOk
<1>3. margin \in Nat /\ margin <= t.equity
  <2> HIDE DEF staked
  <2> QED BY <1>2
<1>4. b = [t EXCEPT !.position = p]
  BY DEF OpenedAt
<1>5. notional \in Nat /\ s.leverage \in 1..25
  <2>1. s.leverage \in 1..25
    BY DEF SettingOk
  <2> HIDE DEF margin
  <2> QED BY <1>3, <2>1
<1> HIDE DEF fill, margin, notional
<1>6. /\ notional \div fill \in Nat /\ Fee(notional, s) \in Int
      /\ fill \div s.leverage \in Int
  BY <1>1, <1>5, FeeIsMoney
<1>7. LevelAt(fill, s.stop, ~long) \in Int /\ LevelAt(fill, s.target, long) \in Int
  BY <1>1, LevelAtIsInteger DEF SettingOk
<1>8. PositionShape(p)
  BY <1>1, <1>3, <1>6, <1>7 DEF PositionShape, PositionFields
<1>9. p.side = t.pending /\ p.entered = i /\ p.entry = fill /\ p.extreme = fill /\ p.margin = margin
  OBVIOUS
<1> HIDE DEF p
<1>10. /\ DOMAIN b = SimFields /\ b.position = p
       /\ b.equity = t.equity /\ b.trades = t.trades
       /\ b.pending = t.pending /\ b.curve = t.curve /\ b.done = t.done
  BY <1>4 DEF SimFields
<1> QED BY <1>3, <1>8, <1>9, <1>10 DEF fill, OpenedWell

-----------------------------------------------------------------------------
(* Levels. *)

LevelsWith(p, extreme, s) ==
  {l \in {[level |-> p.stop, reason |-> "STOP_LOSS"],
          [level |-> p.liquidation, reason |-> "LIQUIDATION"],
          [level |-> LevelAt(extreme, s.trail, p.side = "SHORT"), reason |-> "TRAILING_STOP"]} :
     l.level # 0}

LEMMA LevelsAreLevels ==
  ASSUME NEW p, PositionShape(p), NEW x, NEW s
  PROVE  /\ AdverseLevels([p EXCEPT !.extreme = x], s) = LevelsWith(p, x, s)
         /\ AdverseLevels(p, s) = LevelsWith(p, p.extreme, s)
<1> DEFINE q == [p EXCEPT !.extreme = x]
<1>1. q.stop = p.stop /\ q.liquidation = p.liquidation /\ q.side = p.side /\ q.extreme = x
  BY DEF PositionShape, PositionFields
<1> HIDE DEF q
<1>2. AdverseLevels(q, s) = LevelsWith(p, x, s)
  BY <1>1 DEF AdverseLevels, LevelsWith, TrailLevel
<1> QED BY <1>2 DEF q, AdverseLevels, LevelsWith, TrailLevel

LEMMA LevelsAreIntegers ==
  ASSUME NEW p, PositionShape(p), NEW x \in Int, NEW s, SettingOk(s)
  PROVE  \A l \in LevelsWith(p, x, s) :
           /\ l.level \in Int /\ l.level # 0 /\ l = [level |-> l.level, reason |-> l.reason]
           /\ l.reason \in {"STOP_LOSS", "LIQUIDATION", "TRAILING_STOP"}
<1>1. LevelAt(x, s.trail, p.side = "SHORT") \in Int
  BY LevelAtIsInteger DEF SettingOk
<1> QED BY <1>1 DEF LevelsWith, PositionShape

(* What an intrabar exit says. *)
LEMMA ExitFacts ==
  ASSUME NEW p, PositionShape(p), NEW s, SettingOk(s), NEW bar \in HistoryBars
  PROVE  LET exit == IntrabarExit(p, bar, s)
             hit == {l \in LevelsWith(p, p.extreme, s) : Reached(bar, l.level, p.side = "LONG")}
         IN \/ exit # NoExit /\ exit \in hit
            \/ exit # NoExit /\ exit.reason = "TAKE_PROFIT" /\ hit = {} /\ exit.level \in Int
            \/ exit = NoExit /\ hit = {}
<1> DEFINE long == p.side = "LONG"
           hit == {l \in LevelsWith(p, p.extreme, s) : Reached(bar, l.level, long)}
           exit == IntrabarExit(p, bar, s)
           Nearest(l) == \A k \in hit : IF long THEN k.level <= l.level ELSE k.level >= l.level
<1>1. \A l \in hit : l.level \in Int /\ l.level # 0
  BY LevelsAreIntegers DEF PositionShape
<1>2. AdverseLevels(p, s) = LevelsWith(p, p.extreme, s)
  BY LevelsAreLevels
<1>3. CASE hit # {}
  <2>1. exit = CHOOSE l \in hit : Nearest(l)
    BY <1>2, <1>3 DEF IntrabarExit
  <2>2. \E l \in hit : Nearest(l)
    <3> DEFINE N == {l.level : l \in hit}
               M == {-n : n \in N}
    <3>1. IsFiniteSet(N) /\ IsFiniteSet(M)
      <4> DEFINE trail == LevelAt(p.extreme, s.trail, p.side = "SHORT")
      <4>1. N \subseteq {p.stop, p.liquidation, trail}
        BY DEF LevelsWith
      <4>2. M \subseteq {-p.stop, -p.liquidation, -trail}
        BY <4>1
      <4> HIDE DEF N, M, trail
      <4>3. IsFiniteSet(N)
        BY <4>1, ThreeAreFinite, FS_Subset
      <4>4. IsFiniteSet(M)
        BY <4>2, ThreeAreFinite, FS_Subset
      <4> QED BY <4>3, <4>4
    <3>2. N \subseteq Int /\ M \subseteq Int /\ N # {} /\ M # {}
      BY <1>1, <1>3
    <3>3. CASE long
      <4>1. PICK n \in N : \A m \in N : n >= m
        BY <3>1, <3>2, SomethingIsLargest
      <4>2. PICK l \in hit : l.level = n
        OBVIOUS
      <4>3. Nearest(l)
        BY <3>3, <4>1, <4>2, <1>1
      <4> QED BY <4>3
    <3>4. CASE ~long
      <4>1. PICK n \in M : \A m \in M : n >= m
        BY <3>1, <3>2, SomethingIsLargest
      <4>2. PICK l \in hit : -l.level = n
        OBVIOUS
      <4>3. ASSUME NEW k \in hit PROVE k.level >= l.level
        <5>1. -k.level \in M
          OBVIOUS
        <5>2. -l.level >= -k.level
          BY <4>1, <4>2, <5>1
        <5> QED BY <5>2, <1>1
      <4>4. Nearest(l)
        BY <3>4, <4>3
      <4> QED BY <4>4
    <3> QED BY <3>3, <3>4
  <2> HIDE DEF Nearest, hit
  <2>3. exit \in hit
    BY <2>1, <2>2
  <2>4. exit.level # 0
    BY <1>1, <2>3
  <2>5. exit # NoExit
    BY <2>4 DEF NoExit
  <2> QED BY <2>3, <2>5 DEF hit
<1>4. CASE hit = {}
  <2>1. exit = IF p.target # 0 /\ Reached(bar, p.target, ~long)
                 THEN [level |-> p.target, reason |-> "TAKE_PROFIT"] ELSE NoExit
    BY <1>2, <1>4 DEF IntrabarExit
  <2>2. CASE exit = NoExit
    BY <1>4, <2>2
  <2>3. CASE exit = [level |-> p.target, reason |-> "TAKE_PROFIT"] /\ p.target # 0
    <3>1. exit.level = p.target /\ exit.reason = "TAKE_PROFIT" /\ p.target \in Int
      BY <2>3 DEF PositionShape
    <3>2. exit # NoExit
      BY <2>3 DEF NoExit
    <3> HIDE DEF exit
    <3> QED BY <1>4, <3>1, <3>2 DEF exit
  <2> QED BY <2>1, <2>2, <2>3
<1> QED BY <1>3, <1>4
-----------------------------------------------------------------------------
(* The life of a position, over the bars read. *)

Extreme(p, bar) == IF p.side = "LONG" THEN bar.high ELSE bar.low
Ahead(p, x, y) == IF p.side = "LONG" THEN x >= y ELSE x <= y

Seen(p, bars, k) == {p.entry} \cup {Extreme(p, bars[j]) : j \in p.entered..(k - 1)}

(* x is the best price of a position over the bars before bar k.           *)
IsBest(p, bars, k, x) ==
  x \in Int /\ x \in Seen(p, bars, k) /\ \A y \in Seen(p, bars, k) : Ahead(p, x, y)

HitWith(p, bars, k, x, s) ==
  {l \in LevelsWith(p, x, s) : Reached(bars[k], l.level, p.side = "LONG")}

QuietAt(p, bars, k, s) == \E x \in Int : IsBest(p, bars, k, x) /\ HitWith(p, bars, k, x, s) = {}

RestsThrough(p, bars, until, s) == \A k \in p.entered..until : QuietAt(p, bars, k, s)

LevelKnown(p, bars, k, level, s) ==
  \E x \in Int : IsBest(p, bars, k, x) /\ level \in LevelsWith(p, x, s)

Entered(p, bars, s) ==
  /\ p.entered \in 1..Len(bars) /\ p.entered - 1 > Warmup
  /\ DesiredSide(bars[p.entered - 1].bias, s) = p.side
  /\ p.entry = Slipped(bars[p.entered].open, p.side, TRUE, s)

Adverse == {"STOP_LOSS", "LIQUIDATION", "TRAILING_STOP"}

TradeOk(tr, bars, s) ==
  LET p == tr.position
  IN /\ PositionShape(p) /\ Entered(p, bars, s)
     /\ tr.entered = p.entered /\ tr.exited \in p.entered..Len(bars)
     /\ RestsThrough(p, bars, tr.exited - 1, s)
     /\ tr.reason = "TAKE_PROFIT" => QuietAt(p, bars, tr.exited, s)
     /\ tr.reason \in Adverse =>
          LevelKnown(p, bars, tr.exited, [level |-> tr.level, reason |-> tr.reason], s)
     /\ tr.net \in Int /\ tr.net >= -p.margin

LEMMA TradeTimes ==
  ASSUME NEW tr, NEW bars, NEW s, TradeOk(tr, bars, s)
  PROVE  tr.exited \in Int /\ tr.entered \in Int /\ tr.entered <= tr.exited
<1>1. tr.position.entered \in Int /\ tr.exited \in tr.position.entered..Len(bars)
  BY DEF TradeOk, PositionShape
<1> QED BY <1>1 DEF TradeOk

(* A position that is open and was managed through bar m. *)
PositionOk(p, bars, s, m) ==
  /\ PositionShape(p) /\ Entered(p, bars, s) /\ p.entered <= m + 1
  /\ IsBest(p, bars, m + 1, p.extreme)
  /\ RestsThrough(p, bars, m, s)

BarsOk(bars) ==
  /\ IsSequence(bars) /\ \A k \in 1..Len(bars) : bars[k] \in HistoryBars

Extends(longer, bars) ==
  /\ BarsOk(bars) /\ BarsOk(longer) /\ Len(longer) >= Len(bars)
  /\ \A k \in 1..Len(bars) : longer[k] = bars[k]

(* What has been seen stays as it was seen. *)
LEMMA SeenStays ==
  ASSUME NEW bars, NEW longer, Extends(longer, bars), NEW p, PositionShape(p),
         p.entered >= 1, NEW k \in Int, k <= Len(bars) + 1
  PROVE  Seen(p, longer, k) = Seen(p, bars, k)
<1>1. \A j \in p.entered..(k - 1) : j \in 1..Len(bars)
  BY DEF PositionShape, Extends, BarsOk, IsSequence
<1>2. \A j \in p.entered..(k - 1) : longer[j] = bars[j]
  BY <1>1 DEF Extends
<1> QED BY <1>2 DEF Seen

LEMMA BestStays ==
  ASSUME NEW bars, NEW longer, Extends(longer, bars), NEW p, PositionShape(p),
         p.entered >= 1, NEW k \in Int, k <= Len(bars) + 1, NEW x
  PROVE  IsBest(p, longer, k, x) <=> IsBest(p, bars, k, x)
BY SeenStays DEF IsBest

LEMMA QuietStays ==
  ASSUME NEW bars, NEW longer, Extends(longer, bars), NEW p, PositionShape(p),
         p.entered >= 1, NEW k \in Int, p.entered <= k, k <= Len(bars), NEW s
  PROVE  QuietAt(p, longer, k, s) <=> QuietAt(p, bars, k, s)
<1>1. longer[k] = bars[k] /\ k <= Len(bars) + 1
  BY DEF Extends, PositionShape, BarsOk, IsSequence
<1>2. \A x : IsBest(p, longer, k, x) <=> IsBest(p, bars, k, x)
  BY <1>1, BestStays
<1>3. \A x : HitWith(p, longer, k, x, s) = HitWith(p, bars, k, x, s)
  BY <1>1 DEF HitWith
<1> QED BY <1>2, <1>3 DEF QuietAt

LEMMA EnteredStays ==
  ASSUME NEW bars, NEW longer, Extends(longer, bars), NEW p, NEW s, Entered(p, bars, s)
  PROVE  Entered(p, longer, s)
<1>1. Warmup \in Nat /\ Len(bars) \in Nat /\ Len(longer) \in Nat
  BY BacktestAssumption DEF Extends, BarsOk, IsSequence
<1> DEFINE e == p.entered
           d == e - 1
<1>2. e \in 1..Len(bars) /\ d \in Int /\ d > Warmup
  BY <1>1 DEF Entered
<1>3. d \in 1..Len(bars) /\ e \in 1..Len(longer)
  BY <1>1, <1>2 DEF Extends
<1>4. longer[d] = bars[d] /\ longer[e] = bars[e]
  BY <1>2, <1>3 DEF Extends
<1>5. DesiredSide(longer[d].bias, s) = p.side /\ p.entry = Slipped(longer[e].open, p.side, TRUE, s)
  BY <1>4 DEF Entered
<1> QED BY <1>2, <1>3, <1>5 DEF Entered

LEMMA TradeStays ==
  ASSUME NEW bars, NEW longer, Extends(longer, bars), NEW tr, NEW s, TradeOk(tr, bars, s)
  PROVE  TradeOk(tr, longer, s)
<1> DEFINE p == tr.position
           k == tr.exited
<1>1. /\ PositionShape(p) /\ Entered(p, bars, s) /\ p.entered \in Int /\ p.entered >= 1
      /\ k \in Int /\ p.entered <= k /\ k <= Len(bars)
      /\ Len(bars) \in Nat /\ Len(longer) \in Nat /\ Len(bars) <= Len(longer)
  <2>1. Len(bars) \in Nat /\ Len(longer) \in Nat /\ Len(bars) <= Len(longer)
    BY DEF Extends, BarsOk, IsSequence
  <2>2. PositionShape(p) /\ Entered(p, bars, s) /\ k \in p.entered..Len(bars)
    BY DEF TradeOk
  <2>3. p.entered \in 1..Len(bars)
    BY <2>2 DEF Entered
  <2> QED BY <2>1, <2>2, <2>3
<1>2. Entered(p, longer, s)
  BY <1>1, EnteredStays
<1>3. RestsThrough(p, longer, k - 1, s)
  <2> SUFFICES ASSUME NEW j \in p.entered..(k - 1) PROVE QuietAt(p, longer, j, s)
    BY DEF RestsThrough
  <2>1. QuietAt(p, bars, j, s)
    BY DEF TradeOk, RestsThrough
  <2>2. j \in Int /\ p.entered <= j /\ j <= Len(bars)
    BY <1>1
  <2> QED BY <1>1, <2>1, <2>2, QuietStays
<1>4. QuietAt(p, bars, k, s) => QuietAt(p, longer, k, s)
  BY <1>1, QuietStays
<1>5. ASSUME NEW l, LevelKnown(p, bars, k, l, s) PROVE LevelKnown(p, longer, k, l, s)
  <2>1. \A x : IsBest(p, longer, k, x) <=> IsBest(p, bars, k, x)
    BY <1>1, BestStays
  <2> QED BY <1>5, <2>1 DEF LevelKnown
<1> QED BY <1>1, <1>2, <1>3, <1>4, <1>5 DEF TradeOk

LEMMA PositionStays ==
  ASSUME NEW bars, NEW longer, Extends(longer, bars), NEW p, NEW s,
         PositionOk(p, bars, s, Len(bars))
  PROVE  PositionOk(p, longer, s, Len(bars))
<1> DEFINE n == Len(bars)
<1>1. n \in Nat /\ PositionShape(p) /\ Entered(p, bars, s) /\ p.entered \in Int /\ p.entered >= 1
  <2>1. n \in Nat
    BY DEF Extends, BarsOk, IsSequence
  <2>2. PositionShape(p) /\ Entered(p, bars, s)
    BY DEF PositionOk
  <2>3. p.entered \in 1..n
    BY <2>2 DEF Entered
  <2> QED BY <2>1, <2>2, <2>3
<1>2. Entered(p, longer, s)
  BY <1>1, EnteredStays
<1>3. IsBest(p, longer, n + 1, p.extreme)
  BY <1>1, BestStays DEF PositionOk
<1>4. RestsThrough(p, longer, n, s)
  <2> SUFFICES ASSUME NEW j \in p.entered..n PROVE QuietAt(p, longer, j, s)
    BY DEF RestsThrough
  <2>1. QuietAt(p, bars, j, s)
    BY DEF PositionOk, RestsThrough
  <2> QED BY <1>1, <2>1, QuietStays
<1> QED BY <1>1, <1>2, <1>3, <1>4 DEF PositionOk

(* The same position with another extreme has lived the same life. *)
LEMMA OtherExtreme ==
  ASSUME NEW p, PositionShape(p), NEW x \in Int, NEW q, q = [p EXCEPT !.extreme = x]
  PROVE  /\ PositionShape(q) /\ q.extreme = x
         /\ q.entered = p.entered /\ q.side = p.side /\ q.entry = p.entry /\ q.margin = p.margin
         /\ q.stop = p.stop /\ q.liquidation = p.liquidation
BY DEF PositionShape, PositionFields

LEMMA SameLife ==
  ASSUME NEW p, NEW q, q.entered = p.entered, q.side = p.side, q.entry = p.entry,
         q.stop = p.stop, q.liquidation = p.liquidation, NEW bars, NEW s
  PROVE  /\ Entered(q, bars, s) <=> Entered(p, bars, s)
         /\ \A k, x : IsBest(q, bars, k, x) <=> IsBest(p, bars, k, x)
         /\ \A k : QuietAt(q, bars, k, s) <=> QuietAt(p, bars, k, s)
         /\ \A until : RestsThrough(q, bars, until, s) <=> RestsThrough(p, bars, until, s)
<1>1. Entered(q, bars, s) <=> Entered(p, bars, s)
  BY DEF Entered
<1>2. \A k : Seen(q, bars, k) = Seen(p, bars, k)
  BY DEF Seen, Extreme
<1>3. \A k, x : IsBest(q, bars, k, x) <=> IsBest(p, bars, k, x)
  BY <1>2 DEF IsBest, Ahead
<1>4. \A k, x : HitWith(q, bars, k, x, s) = HitWith(p, bars, k, x, s)
  BY DEF HitWith, LevelsWith
<1>5. \A k : QuietAt(q, bars, k, s) <=> QuietAt(p, bars, k, s)
  BY <1>3, <1>4 DEF QuietAt
<1> QED BY <1>1, <1>3, <1>5 DEF RestsThrough

-----------------------------------------------------------------------------
(* The account of the simulation, with the position managed through bar m. *)

NetsOf(trades) == [k \in DOMAIN trades |-> trades[k].net]

BooksOk(t, bars, s) ==
  /\ DOMAIN t = SimFields /\ t.equity \in Nat
  /\ IsSequence(t.trades) /\ \A k \in 1..Len(t.trades) : TradeOk(t.trades[k], bars, s)
  /\ t.equity = s.balance + SumFunctionOnSet(NetsOf(t.trades), 1..Len(t.trades))
  /\ \A k \in 2..Len(t.trades) : t.trades[k - 1].exited <= t.trades[k].entered

AccountOk(t, bars, s, m) ==
  /\ BooksOk(t, bars, s)
  /\ t.position # Flat =>
       /\ PositionOk(t.position, bars, s, m)
       /\ t.position.margin <= t.equity
       /\ Len(t.trades) > 0 => t.trades[Len(t.trades)].exited <= t.position.entered

LEMMA AccountStays ==
  ASSUME NEW bars, NEW longer, Extends(longer, bars), NEW t, NEW s,
         AccountOk(t, bars, s, Len(bars))
  PROVE  AccountOk(t, longer, s, Len(bars))
<1>1. \A k \in 1..Len(t.trades) : TradeOk(t.trades[k], longer, s)
  BY TradeStays DEF AccountOk, BooksOk
<1>2. t.position # Flat => PositionOk(t.position, longer, s, Len(bars))
  BY PositionStays DEF AccountOk, BooksOk
<1> QED BY <1>1, <1>2 DEF AccountOk, BooksOk

LEMMA NetsAppend ==
  ASSUME NEW trades, IsSequence(trades), \A k \in 1..Len(trades) : trades[k].net \in Int,
         NEW tr, tr.net \in Int, NEW more, more = Append(trades, tr)
  PROVE  /\ SumFunctionOnSet(NetsOf(more), 1..Len(more)) =
              SumFunctionOnSet(NetsOf(trades), 1..Len(trades)) + tr.net
         /\ SumFunctionOnSet(NetsOf(trades), 1..Len(trades)) \in Int
<1> DEFINE n == Len(trades)
           f == NetsOf(trades)
           g == NetsOf(more)
<1>1. /\ IsSequence(more) /\ Len(more) = n + 1 /\ DOMAIN more = 1..(n + 1)
      /\ more[n + 1] = tr /\ \A k \in 1..n : more[k] = trades[k]
  BY Appended
<1>2. n \in Nat /\ DOMAIN trades = 1..n
  BY DEF IsSequence
<1>3. /\ \A k \in 1..n : f[k] \in Int /\ g[k] = f[k]
      /\ g[n + 1] = tr.net
  BY <1>1, <1>2 DEF NetsOf
<1> HIDE DEF f, g, n
<1>4. SumFunctionOnSet(g, 1..(n + 1)) = SumFunctionOnSet(f, 1..n) + g[n + 1]
  BY <1>2, <1>3, SumAppends
<1>5. IsFiniteSet(1..n)
  BY <1>2, FS_Interval
<1>6. SumFunctionOnSet(f, 1..n) \in Int
  BY <1>3, <1>5, SumIsInteger
<1> QED BY <1>1, <1>3, <1>4, <1>6 DEF f, g, n

ClosedBy(t, i) == \A k \in 1..Len(t.trades) : t.trades[k].exited <= i

(* Until the run is done, no position was closed for want of data.         *)
AllLeftBy(t, i) ==
  /\ ClosedBy(t, i)
  /\ ~t.done => \A k \in 1..Len(t.trades) : t.trades[k].reason # "END_OF_DATA"

CanClose(t, bars, s, raw, reason, i) ==
  /\ t.position # Flat /\ raw \in Int /\ i \in t.position.entered..Len(bars)
  /\ RestsThrough(t.position, bars, i - 1, s) /\ AllLeftBy(t, i)
  /\ reason = "TAKE_PROFIT" => QuietAt(t.position, bars, i, s)
  /\ reason \in Adverse => LevelKnown(t.position, bars, i, [level |-> raw, reason |-> reason], s)

(* A close books one trade and leaves the account sound. *)
LEMMA CloseKeeps ==
  ASSUME NEW t, NEW bars, BarsOk(bars), NEW s, SettingOk(s), NEW m, AccountOk(t, bars, s, m),
         NEW raw, NEW reason, NEW i, CanClose(t, bars, s, raw, reason, i),
         NEW b, b = ClosedAt(t, raw, reason, i, s)
  PROVE  /\ BooksOk(b, bars, s) /\ b.position = Flat
         /\ b.pending = t.pending /\ b.curve = t.curve /\ b.done = t.done
         /\ Len(b.trades) = Len(t.trades) + 1
         /\ LET tr == b.trades[Len(b.trades)]
            IN /\ tr.reason = reason /\ tr.position = t.position
               /\ tr.net = NetAt(t.position, raw, s) /\ tr.net \in Int
               /\ b.equity = t.equity + tr.net
         /\ ClosedBy(b, i) /\ (reason # "END_OF_DATA" => AllLeftBy(b, i))
<1> DEFINE p == t.position
           tr == TradeAt(p, raw, reason, i, s)
           n == Len(t.trades)
<1> USE DEF CanClose, AllLeftBy, ClosedBy
<1>1. /\ DOMAIN t = SimFields /\ t.equity \in Nat /\ IsSequence(t.trades) /\ n \in Nat
      /\ \A k \in 1..n : TradeOk(t.trades[k], bars, s)
      /\ PositionOk(p, bars, s, m) /\ p.margin <= t.equity
      /\ PositionShape(p) /\ p.margin \in Nat /\ p.entered \in Int
      /\ i \in p.entered..Len(bars) /\ i \in Int
  <2>1. Len(bars) \in Nat
    BY DEF BarsOk, IsSequence
  <2>2. /\ DOMAIN t = SimFields /\ t.equity \in Nat /\ IsSequence(t.trades) /\ n \in Nat
        /\ \A k \in 1..n : TradeOk(t.trades[k], bars, s)
        /\ PositionOk(p, bars, s, m) /\ p.margin <= t.equity
    BY DEF AccountOk, BooksOk, IsSequence
  <2>3. PositionShape(p) /\ p.margin \in Nat /\ p.entered \in Int
    BY <2>2 DEF PositionOk, PositionShape
  <2> QED BY <2>1, <2>2, <2>3
<1>2. /\ DOMAIN b = SimFields
      /\ b.position = Flat /\ b.equity = t.equity + NetAt(p, raw, s)
      /\ b.trades = Append(t.trades, tr)
      /\ b.pending = t.pending /\ b.curve = t.curve /\ b.done = t.done
  BY <1>1, ClosedFields
<1>3. NetAt(p, raw, s) \in Int /\ NetAt(p, raw, s) >= -p.margin
  BY <1>1, NetIsFloored
<1>4. /\ tr.position = p /\ tr.entered = p.entered /\ tr.exited = i /\ tr.level = raw
      /\ tr.reason = reason /\ tr.net = NetAt(p, raw, s)
  BY DEF TradeAt
<1> HIDE DEF p, tr
<1>5. TradeOk(tr, bars, s)
  BY <1>1, <1>3, <1>4 DEF TradeOk, PositionOk, p
<1>6. /\ IsSequence(b.trades) /\ Len(b.trades) = n + 1
      /\ b.trades[n + 1] = tr /\ \A k \in 1..n : b.trades[k] = t.trades[k]
  BY <1>1, <1>2, Appended
<1>7. \A k \in 1..(n + 1) : TradeOk(b.trades[k], bars, s)
  <2>1. \A k \in 1..(n + 1) : k = n + 1 \/ k \in 1..n
    BY <1>1
  <2> QED BY <1>1, <1>5, <1>6, <2>1
<1>8. b.equity \in Nat
  BY <1>1, <1>2, <1>3
<1>9. b.equity = s.balance + SumFunctionOnSet(NetsOf(b.trades), 1..Len(b.trades))
  <2>1. \A k \in 1..n : t.trades[k].net \in Int
    BY <1>1 DEF TradeOk
  <2>2. /\ SumFunctionOnSet(NetsOf(b.trades), 1..Len(b.trades)) =
             SumFunctionOnSet(NetsOf(t.trades), 1..n) + tr.net
        /\ SumFunctionOnSet(NetsOf(t.trades), 1..n) \in Int
    <3>1. tr.net \in Int /\ b.trades = Append(t.trades, tr)
      BY <1>2, <1>3, <1>4
    <3> HIDE DEF n
    <3>2. IsSequence(t.trades) /\ \A k \in 1..Len(t.trades) : t.trades[k].net \in Int
      BY <1>1, <2>1 DEF n
    <3> QED BY <3>1, <3>2, NetsAppend DEF n
  <2>3. t.equity = s.balance + SumFunctionOnSet(NetsOf(t.trades), 1..n)
    BY DEF AccountOk, BooksOk
  <2>4. s.balance \in Int
    BY DEF SettingOk
  <2> QED BY <1>2, <1>3, <1>4, <2>2, <2>3, <2>4
<1>10. ASSUME NEW k \in 2..(n + 1) PROVE b.trades[k - 1].exited <= b.trades[k].entered
  <2>1. CASE k = n + 1
    <3>1. n > 0 /\ n \in 1..n /\ k - 1 = n
      BY <1>1, <2>1
    <3>2. t.trades[n].exited <= p.entered
      BY <3>1 DEF AccountOk, BooksOk, p
    <3> QED BY <1>4, <1>6, <2>1, <3>1, <3>2
  <2>2. CASE k # n + 1
    <3>1. k \in 2..n /\ k - 1 \in 1..n /\ k \in 1..n
      BY <1>1, <2>2
    <3>2. t.trades[k - 1].exited <= t.trades[k].entered
      BY <3>1 DEF AccountOk, BooksOk
    <3> QED BY <1>6, <3>1, <3>2
  <2> QED BY <2>1, <2>2
<1>11. BooksOk(b, bars, s)
  BY <1>2, <1>6, <1>7, <1>8, <1>9, <1>10 DEF BooksOk
<1>12. ASSUME NEW k \in 1..(n + 1) PROVE b.trades[k].exited <= i
  <2>1. CASE k = n + 1
    <3>1. b.trades[k] = tr /\ tr.exited = i
      BY <1>4, <1>6, <2>1
    <3> QED BY <1>1, <3>1
  <2>2. CASE k # n + 1
    <3>1. k \in 1..n
      BY <1>1, <2>2
    <3>2. b.trades[k] = t.trades[k] /\ t.trades[k].exited <= i
      BY <1>6, <3>1
    <3> QED BY <3>2
  <2> QED BY <2>1, <2>2
<1>13. ClosedBy(b, i)
  BY <1>6, <1>12
<1>14. ASSUME reason # "END_OF_DATA", ~b.done, NEW k \in 1..(n + 1)
       PROVE  b.trades[k].reason # "END_OF_DATA"
  <2>1. k = n + 1 \/ k \in 1..n
    BY <1>1
  <2> QED BY <1>2, <1>4, <1>6, <1>14, <2>1
<1>15. reason # "END_OF_DATA" => AllLeftBy(b, i)
  BY <1>6, <1>13, <1>14
<1> QED BY <1>2, <1>3, <1>4, <1>6, <1>11, <1>13, <1>15 DEF p

CanOpen(t, bars, s, i) ==
  /\ t.position = Flat /\ t.pending \in {"LONG", "SHORT"}
  /\ i = Len(bars) /\ i - 1 > Warmup /\ AllLeftBy(t, i)
  /\ DesiredSide(bars[i - 1].bias, s) = t.pending

(* A position that opens on bar i was decided on bar i - 1. *)
LEMMA OpenKeeps ==
  ASSUME NEW t, NEW bars, BarsOk(bars), NEW s, SettingOk(s), BooksOk(t, bars, s),
         NEW i, CanOpen(t, bars, s, i), NEW bar, bar = bars[i], NEW b, b = OpenedAt(t, bar, i, s)
  PROVE  /\ AccountOk(b, bars, s, i - 1)
         /\ b.curve = t.curve /\ b.done = t.done /\ b.trades = t.trades
<1>1. i \in Nat /\ Warmup \in Nat /\ i \in 1..Len(bars) /\ bar \in HistoryBars /\ i \in Int
  BY BacktestAssumption DEF BarsOk, IsSequence, CanOpen
<1>2. DOMAIN t = SimFields /\ t.equity \in Nat /\ t.pending \in {"LONG", "SHORT"}
  BY DEF BooksOk, CanOpen
<1>14. OpenedWell(b, t, bar, i, s)
  BY <1>1, <1>2, OpenedFields
<1>3. PICK h : /\ h = b.position /\ DOMAIN b = SimFields
               /\ b.equity = t.equity /\ b.trades = t.trades
               /\ b.pending = t.pending /\ b.curve = t.curve /\ b.done = t.done
               /\ PositionShape(h) /\ h.side = t.pending /\ h.entered = i
               /\ h.entry = Slipped(bar.open, t.pending, TRUE, s)
               /\ h.extreme = h.entry /\ h.margin <= t.equity
  BY <1>14 DEF OpenedWell
<1> USE DEF CanOpen, AllLeftBy, ClosedBy
<1>4. Entered(h, bars, s)
  BY <1>1, <1>3 DEF Entered
<1>5. IsBest(h, bars, i, h.extreme)
  <2>1. h.entered..(i - 1) = {}
    BY <1>1, <1>3
  <2>2. Seen(h, bars, i) = {h.entry}
    BY <2>1 DEF Seen
  <2>3. PositionShape(h) /\ h.extreme = h.entry
    BY <1>3
  <2>4. h.entry \in Int
    BY <2>3 DEF PositionShape
  <2>5. h.entry >= h.entry /\ h.entry <= h.entry
    BY <2>4
  <2> QED BY <2>2, <2>3, <2>4, <2>5 DEF IsBest, Ahead
<1>6. RestsThrough(h, bars, i - 1, s)
  BY <1>1, <1>3 DEF RestsThrough
<1>7. PositionOk(h, bars, s, i - 1)
  <2>1. (i - 1) + 1 = i /\ i <= i
    BY <1>1
  <2>2. PositionShape(h) /\ h.entered = i
    BY <1>3
  <2>3. IsBest(h, bars, (i - 1) + 1, h.extreme) /\ h.entered <= (i - 1) + 1
    BY <1>5, <2>1, <2>2
  <2> QED BY <1>4, <1>6, <2>2, <2>3 DEF PositionOk
<1>8. Len(b.trades) > 0 => b.trades[Len(b.trades)].exited <= h.entered
  <2>1. Len(b.trades) > 0 => Len(b.trades) \in 1..Len(b.trades)
    BY <1>3 DEF AccountOk, BooksOk, IsSequence
  <2> QED BY <1>3, <2>1
<1>9. AccountOk(b, bars, s, i - 1)
  BY <1>3, <1>7, <1>8 DEF AccountOk, BooksOk
<1> QED BY <1>3, <1>9

(* What is pending was decided on the bar before. *)
DecidedOn(t, bars, i, s) ==
  t.pending # "NONE" =>
    /\ i > Warmup /\ t.pending \in {"LONG", "SHORT", "FLAT"}
    /\ t.pending = DesiredSide(bars[i].bias, s)

LEMMA ExecuteKeeps ==
  ASSUME NEW t, NEW bars, BarsOk(bars), NEW s, SettingOk(s), NEW i, i = Len(bars), i >= 1,
         AccountOk(t, bars, s, i - 1),
         AllLeftBy(t, i - 1), DecidedOn(t, bars, i - 1, s),
         NEW bar, bar = bars[i], NEW r, r = Executed(t, bar, i, s)
  PROVE  /\ AccountOk(r, bars, s, i - 1) /\ r.pending = "NONE"
         /\ r.curve = t.curve /\ r.done = t.done /\ AllLeftBy(r, i)
<1> DEFINE c == ClosedAt(t, bar.open, "SIGNAL_FLIP", i, s)
           u == IF t.position # Flat /\ t.position.side # t.pending THEN c ELSE t
           o == OpenedAt(u, bar, i, s)
           v == IF u.position = Flat /\ u.pending # "FLAT" /\ u.equity > 0 THEN o ELSE u
           b == [v EXCEPT !.pending = "NONE"]
<1>1. i \in Nat /\ bar \in HistoryBars /\ bar.open \in Nat
  BY BarsAreOk DEF BarsOk, IsSequence
<1>2. AllLeftBy(t, i)
  <2>1. \A k \in 1..Len(t.trades) : t.trades[k].exited \in Int
    BY TradeTimes DEF AccountOk, BooksOk
  <2> QED BY <1>1, <2>1 DEF AllLeftBy, ClosedBy
<1>3. CASE t.pending = "NONE"
  <2>1. r = t
    BY <1>3 DEF Executed
  <2> QED BY <1>2, <1>3, <2>1
<1>4. CASE t.pending # "NONE"
  <2>1. r = b
    BY <1>4 DEF Executed
  <2>2. /\ AccountOk(u, bars, s, i - 1)
        /\ u.pending = t.pending /\ u.curve = t.curve /\ u.done = t.done
        /\ AllLeftBy(u, i)
        /\ u.position # Flat => u.position.side = u.pending
    <3>1. CASE t.position # Flat /\ t.position.side # t.pending
      <4>1. /\ PositionOk(t.position, bars, s, i - 1) /\ t.position.entered \in Int
            /\ t.position.entered <= (i - 1) + 1
        BY <3>1 DEF AccountOk, BooksOk, PositionOk, PositionShape
      <4>2. i \in t.position.entered..Len(bars) /\ RestsThrough(t.position, bars, i - 1, s)
        BY <1>1, <4>1 DEF PositionOk
      <4>3. "SIGNAL_FLIP" # "TAKE_PROFIT" /\ "SIGNAL_FLIP" \notin Adverse
        BY DEF Adverse
      <4>4. CanClose(t, bars, s, bar.open, "SIGNAL_FLIP", i)
        BY <1>1, <1>2, <3>1, <4>2, <4>3 DEF CanClose
      <4> DEFINE raw == bar.open
                 reason == "SIGNAL_FLIP"
      <4>5. /\ c = ClosedAt(t, raw, reason, i, s) /\ CanClose(t, bars, s, raw, reason, i)
            /\ reason # "END_OF_DATA"
        BY <4>4
      <4> HIDE DEF c, raw, reason
      <4>7. /\ BooksOk(c, bars, s) /\ c.position = Flat
            /\ c.pending = t.pending /\ c.curve = t.curve /\ c.done = t.done /\ AllLeftBy(c, i)
        BY <4>5, CloseKeeps
      <4>8. AccountOk(c, bars, s, i - 1)
        BY <4>7 DEF AccountOk
      <4> QED BY <3>1, <4>7, <4>8
    <3>2. CASE ~(t.position # Flat /\ t.position.side # t.pending)
      BY <1>2, <3>2
    <3> QED BY <3>1, <3>2
  <2> HIDE DEF u
  <2>3. /\ AccountOk(v, bars, s, i - 1) /\ v.curve = t.curve /\ v.done = t.done
        /\ AllLeftBy(v, i)
    <3>1. CASE u.position = Flat /\ u.pending # "FLAT" /\ u.equity > 0
      <4>1. CanOpen(u, bars, s, i) /\ BooksOk(u, bars, s)
        BY <1>4, <2>2, <3>1 DEF CanOpen, DecidedOn, AccountOk
      <4>2. /\ AccountOk(o, bars, s, i - 1)
            /\ o.curve = u.curve /\ o.done = u.done /\ o.trades = u.trades
        BY <4>1, OpenKeeps
      <4>3. AllLeftBy(o, i)
        BY <2>2, <4>2 DEF AllLeftBy, ClosedBy
      <4> HIDE DEF o
      <4> QED BY <2>2, <3>1, <4>2, <4>3
    <3>2. CASE ~(u.position = Flat /\ u.pending # "FLAT" /\ u.equity > 0)
      BY <2>2, <3>2
    <3> QED BY <3>1, <3>2
  <2> HIDE DEF v
  <2>4. /\ DOMAIN b = SimFields /\ b.pending = "NONE" /\ b.equity = v.equity
        /\ b.position = v.position /\ b.trades = v.trades /\ b.curve = v.curve /\ b.done = v.done
    BY <2>3 DEF AccountOk, BooksOk, SimFields
  <2> HIDE DEF b
  <2>5. AccountOk(b, bars, s, i - 1)
    BY <2>3, <2>4 DEF AccountOk, BooksOk
  <2>6. AllLeftBy(b, i)
    BY <2>3, <2>4 DEF AllLeftBy, ClosedBy
  <2> QED BY <2>1, <2>3, <2>4, <2>5, <2>6
<1> QED BY <1>3, <1>4

(* The best price through bar i is that of before or bar i's. *)
LEMMA BestAdvances ==
  ASSUME NEW bars, BarsOk(bars), NEW p, PositionShape(p), NEW i \in 1..Len(bars),
         p.entered \in 1..i, IsBest(p, bars, i, p.extreme), NEW x,
         x = IF p.side = "LONG" THEN Max({p.extreme, bars[i].high})
                                ELSE Min({p.extreme, bars[i].low})
  PROVE  x \in Int /\ IsBest(p, bars, i + 1, x)
<1> DEFINE e == p.extreme
           y == Extreme(p, bars[i])
<1>1. i \in Nat /\ e \in Int /\ bars[i] \in HistoryBars /\ p.entered \in Int
  BY DEF PositionShape, BarsOk, IsSequence
<1>2. y \in Int
  BY <1>1, BarsAreOk DEF Extreme
<1>3. x = IF p.side = "LONG" THEN IF e >= y THEN e ELSE y ELSE IF e <= y THEN e ELSE y
  <2>1. CASE p.side = "LONG"
    <3>1. y = bars[i].high
      BY <2>1 DEF Extreme
    <3> HIDE DEF e, y
    <3> QED BY <1>1, <1>2, <2>1, <3>1, LargerOfTwo DEF e
  <2>2. CASE p.side # "LONG"
    <3>1. y = bars[i].low
      BY <2>2 DEF Extreme
    <3> HIDE DEF e, y
    <3> QED BY <1>1, <1>2, <2>2, <3>1, SmallerOfTwo DEF e
  <2> QED BY <2>1, <2>2
<1>4. Seen(p, bars, i + 1) = Seen(p, bars, i) \cup {y}
  <2>1. p.entered..((i + 1) - 1) = (p.entered..(i - 1)) \cup {i}
    BY <1>1
  <2> QED BY <2>1 DEF Seen
<1>5. \A z \in Seen(p, bars, i) : z \in Int
  <2>1. \A j \in p.entered..(i - 1) : j \in 1..Len(bars)
    BY <1>1 DEF BarsOk, IsSequence
  <2>2. \A j \in p.entered..(i - 1) : Extreme(p, bars[j]) \in Int
    BY <2>1, BarsAreOk DEF Extreme, BarsOk
  <2> QED BY <2>2 DEF Seen, PositionShape
<1>6. e \in Seen(p, bars, i) /\ \A z \in Seen(p, bars, i) : Ahead(p, e, z)
  BY DEF IsBest
<1>7. x \in Int /\ x \in Seen(p, bars, i + 1)
  BY <1>1, <1>2, <1>3, <1>4, <1>6
<1>8. ASSUME NEW z \in Seen(p, bars, i + 1) PROVE Ahead(p, x, z)
  <2>1. z = y \/ (z \in Int /\ Ahead(p, e, z))
    BY <1>4, <1>5, <1>6
  <2> HIDE DEF e, y
  <2> QED BY <1>1, <1>2, <1>3, <2>1 DEF Ahead, e
<1> QED BY <1>7, <1>8 DEF IsBest

LEMMA ManageKeeps ==
  ASSUME NEW t, NEW bars, BarsOk(bars), NEW s, SettingOk(s), NEW i, i = Len(bars), i >= 1,
         AccountOk(t, bars, s, i - 1),
         AllLeftBy(t, i), NEW bar, bar = bars[i], NEW r, r = Managed(t, bar, i, s)
  PROVE  /\ AccountOk(r, bars, s, i) /\ r.pending = t.pending
         /\ r.curve = t.curve /\ r.done = t.done /\ AllLeftBy(r, i)
<1> DEFINE p == t.position
           exit == IntrabarExit(p, bar, s)
           c == ClosedAt(t, exit.level, exit.reason, i, s)
           x == IF p.side = "LONG" THEN Max({p.extreme, bar.high}) ELSE Min({p.extreme, bar.low})
           b == [t EXCEPT !.position.extreme = x]
<1>1. i \in Nat /\ i \in 1..Len(bars) /\ bar \in HistoryBars /\ (i - 1) + 1 = i
  BY DEF BarsOk, IsSequence
<1>2. CASE p = Flat
  <2>1. r = t
    BY <1>2 DEF Managed
  <2>2. AccountOk(t, bars, s, i)
    BY <1>2 DEF AccountOk, BooksOk
  <2> QED BY <2>1, <2>2
<1>3. CASE p # Flat
  <2>1. /\ PositionOk(p, bars, s, i - 1) /\ PositionShape(p) /\ p.entered \in 1..i
        /\ IsBest(p, bars, i, p.extreme) /\ RestsThrough(p, bars, i - 1, s)
        /\ p.extreme \in Int
    BY <1>1, <1>3 DEF AccountOk, BooksOk, PositionOk, PositionShape, Entered
  <2> DEFINE hit == {l \in LevelsWith(p, p.extreme, s) : Reached(bar, l.level, p.side = "LONG")}
  <2>2. \/ exit # NoExit /\ exit \in hit
        \/ exit # NoExit /\ exit.reason = "TAKE_PROFIT" /\ hit = {} /\ exit.level \in Int
        \/ exit = NoExit /\ hit = {}
    BY <1>1, <2>1, ExitFacts
  <2>3. hit = HitWith(p, bars, i, p.extreme, s)
    BY DEF HitWith
  <2>4. hit = {} => QuietAt(p, bars, i, s)
    BY <2>1, <2>3 DEF QuietAt
  <2>5. \A l \in hit : /\ l.level \in Int /\ l = [level |-> l.level, reason |-> l.reason]
                       /\ l.reason \in Adverse /\ l \in LevelsWith(p, p.extreme, s)
    BY <2>1, LevelsAreIntegers DEF Adverse
  <2>6. r = IF exit # NoExit THEN c ELSE b
    BY <1>3 DEF Managed
  <2> HIDE DEF exit, hit
  <2>7. CASE exit # NoExit
    <3>1. /\ exit.level \in Int /\ (exit.reason = "TAKE_PROFIT" => QuietAt(p, bars, i, s))
          /\ exit.reason \in Adverse =>
               LevelKnown(p, bars, i, [level |-> exit.level, reason |-> exit.reason], s)
          /\ exit.reason # "END_OF_DATA"
      <4>1. CASE exit \in hit
        <5>1. exit.reason \in Adverse /\ exit.reason \notin {"TAKE_PROFIT", "END_OF_DATA"} /\ exit.level \in Int
          BY <2>5, <4>1 DEF Adverse
        <5>2. [level |-> exit.level, reason |-> exit.reason] \in LevelsWith(p, p.extreme, s)
          BY <2>5, <4>1
        <5>3. LevelKnown(p, bars, i, [level |-> exit.level, reason |-> exit.reason], s)
          BY <2>1, <5>2 DEF LevelKnown
        <5> QED BY <5>1, <5>3
      <4>2. CASE exit.reason = "TAKE_PROFIT" /\ hit = {} /\ exit.level \in Int
        BY <2>4, <4>2 DEF Adverse
      <4> QED BY <2>2, <2>7, <4>1, <4>2
    <3>2. i \in p.entered..Len(bars)
      BY <1>1, <2>1
    <3>4. CanClose(t, bars, s, exit.level, exit.reason, i)
      BY <1>3, <2>1, <3>1, <3>2 DEF CanClose
    <3>5. /\ BooksOk(c, bars, s) /\ c.position = Flat
          /\ c.pending = t.pending /\ c.curve = t.curve /\ c.done = t.done /\ AllLeftBy(c, i)
      BY <3>1, <3>4, CloseKeeps
    <3>6. AccountOk(c, bars, s, i)
      BY <3>5 DEF AccountOk
    <3> HIDE DEF c
    <3> QED BY <2>6, <2>7, <3>5, <3>6
  <2>8. CASE exit = NoExit
    <3> DEFINE q == [p EXCEPT !.extreme = x]
    <3>1. x \in Int /\ IsBest(p, bars, i + 1, x)
      BY <1>1, <2>1, BestAdvances
    <3>2. RestsThrough(p, bars, i, s)
      <4>1. QuietAt(p, bars, i, s)
        BY <2>2, <2>4, <2>8
      <4>2. \A k \in p.entered..i : k = i \/ k \in p.entered..(i - 1)
        BY <1>1, <2>1
      <4> QED BY <2>1, <4>1, <4>2 DEF RestsThrough
    <3>3. /\ DOMAIN b = SimFields /\ b.position = q /\ b.equity = t.equity /\ b.pending = t.pending
          /\ b.trades = t.trades /\ b.curve = t.curve /\ b.done = t.done
      BY DEF AccountOk, BooksOk, SimFields
    <3> HIDE DEF b, x
    <3>4. /\ PositionShape(q) /\ q.extreme = x
          /\ q.entered = p.entered /\ q.side = p.side /\ q.entry = p.entry /\ q.margin = p.margin
          /\ q.stop = p.stop /\ q.liquidation = p.liquidation
      BY <2>1, <3>1, OtherExtreme
    <3> HIDE DEF q
    <3>5. PositionOk(q, bars, s, i)
      <4>1. Entered(q, bars, s) /\ IsBest(q, bars, i + 1, q.extreme) /\ RestsThrough(q, bars, i, s)
        BY <2>1, <3>1, <3>2, <3>4, SameLife DEF PositionOk
      <4>2. q.entered <= i + 1
        BY <1>1, <2>1, <3>4
      <4> QED BY <3>4, <4>1, <4>2 DEF PositionOk
    <3>6. AccountOk(b, bars, s, i)
      BY <1>3, <3>3, <3>4, <3>5 DEF AccountOk, BooksOk
    <3>7. AllLeftBy(b, i)
      BY <3>3 DEF AllLeftBy, ClosedBy
    <3> QED BY <2>6, <2>8, <3>3, <3>6, <3>7
  <2> QED BY <2>7, <2>8
<1> QED BY <1>2, <1>3

-----------------------------------------------------------------------------
(* Marking, deciding, and the whole bar. *)

SameBooks(r, t) ==
  /\ DOMAIN r = SimFields /\ r.equity = t.equity /\ r.position = t.position
  /\ r.trades = t.trades /\ r.done = t.done

LEMMA BooksStay ==
  ASSUME NEW t, NEW r, SameBooks(r, t), NEW bars, NEW s, NEW m, AccountOk(t, bars, s, m),
         NEW i, AllLeftBy(t, i)
  PROVE  AccountOk(r, bars, s, m) /\ AllLeftBy(r, i)
BY DEF SameBooks, AccountOk, BooksOk, AllLeftBy, ClosedBy

CurveOk(curve, n) ==
  IsSequence(curve) /\ Len(curve) = n /\ \A k \in 1..n : curve[k] \in Int

Settled(t, bars, n) == n > 0 => t.curve[n] = t.equity + Worth(t.position, bars[n].close)

LEMMA PnlIsInteger ==
  ASSUME NEW p, PositionShape(p), NEW price \in Int
  PROVE  Pnl(p, price) \in Int
<1> DEFINE size == p.quantity
           up == size * (price - p.entry)
           down == size * (p.entry - price)
<1>1. size \in Int /\ p.entry \in Int
  BY DEF PositionShape
<1>2. Pnl(p, price) \in {up, down}
  BY DEF Pnl
<1> HIDE DEF size
<1>3. up \in Int /\ down \in Int
  BY <1>1
<1> QED BY <1>2, <1>3

LEMMA MarkKeeps ==
  ASSUME NEW t, NEW bars, NEW s, NEW i \in Nat \ {0}, AccountOk(t, bars, s, i), AllLeftBy(t, i),
         CurveOk(t.curve, i - 1), NEW bar \in HistoryBars, bar = bars[i],
         NEW r, r = Marked(t, bar)
  PROVE  /\ AccountOk(r, bars, s, i) /\ AllLeftBy(r, i) /\ r.pending = t.pending
         /\ r.done = t.done /\ CurveOk(r.curve, i) /\ Settled(r, bars, i)
<1> DEFINE p == t.position
           open == Worth(p, bar.close)
           worth == t.equity + open
<1>1. DOMAIN t = SimFields /\ t.equity \in Nat
  BY DEF AccountOk, BooksOk
<1>2. open \in Int
  <2>1. CASE p = Flat
    BY <2>1 DEF Worth
  <2>2. CASE p # Flat
    <3>1. PositionShape(p) /\ bar.close \in Int
      BY <2>2, BarsAreOk DEF AccountOk, PositionOk
    <3> DEFINE made == Pnl(p, bar.close) - p.fee
               floor == -p.margin
    <3>2. made \in Int /\ floor \in Int
      <4>1. Pnl(p, bar.close) \in Int
        BY <3>1, PnlIsInteger
      <4> QED BY <3>1, <4>1 DEF PositionShape
    <3>3. open = Max({made, floor})
      BY <2>2 DEF Worth, Unrealised
    <3> HIDE DEF made, floor, open
    <3> QED BY <3>2, <3>3, LargerOfTwo
  <2> QED BY <2>1, <2>2
<1>3. worth \in Int
  BY <1>1, <1>2
<1>5. r = [t EXCEPT !.curve = Append(t.curve, worth)]
  BY DEF Marked
<1> HIDE DEF open, worth
<1>6. /\ DOMAIN r = SimFields /\ r.curve = Append(t.curve, worth) /\ r.position = t.position
      /\ r.equity = t.equity /\ r.trades = t.trades /\ r.pending = t.pending /\ r.done = t.done
  BY <1>1, <1>5 DEF SimFields
<1>7. SameBooks(r, t)
  BY <1>6 DEF SameBooks
<1>8. AccountOk(r, bars, s, i) /\ AllLeftBy(r, i)
  BY <1>7, BooksStay
<1>9. /\ IsSequence(r.curve) /\ Len(r.curve) = i /\ r.curve[i] = worth
      /\ \A k \in 1..(i - 1) : r.curve[k] = t.curve[k]
  <2>1. IsSequence(t.curve) /\ Len(t.curve) = i - 1 /\ (i - 1) + 1 = i
    BY DEF CurveOk
  <2>2. LET c == Append(t.curve, worth)
        IN /\ IsSequence(c) /\ Len(c) = Len(t.curve) + 1 /\ DOMAIN c = 1..(Len(t.curve) + 1)
           /\ c[Len(t.curve) + 1] = worth /\ \A k \in 1..Len(t.curve) : c[k] = t.curve[k]
    BY <2>1, Appended
  <2> QED BY <1>6, <2>1, <2>2
<1>10. CurveOk(r.curve, i)
  <2>1. \A k \in 1..i : k = i \/ k \in 1..(i - 1)
    OBVIOUS
  <2> QED BY <1>3, <1>9, <2>1 DEF CurveOk
<1>11. Settled(r, bars, i)
  BY <1>6, <1>9 DEF Settled, open, worth
<1> QED BY <1>6, <1>8, <1>10, <1>11

LEMMA DecideKeeps ==
  ASSUME NEW t, NEW bars, NEW s, NEW i \in Nat, AccountOk(t, bars, s, i), AllLeftBy(t, i),
         t.pending = "NONE", NEW bar, bar = bars[i], NEW r, r = Decided(t, bar, i, s)
  PROVE  /\ AccountOk(r, bars, s, i) /\ AllLeftBy(r, i) /\ DecidedOn(r, bars, i, s)
         /\ r.done = t.done /\ r.curve = t.curve /\ r.position = t.position
         /\ r.equity = t.equity
<1> DEFINE desired == DesiredSide(bar.bias, s)
<1>1. DOMAIN t = SimFields
  BY DEF AccountOk, BooksOk
<1>2. desired \in {"LONG", "SHORT", "FLAT"}
  BY DEF DesiredSide
<1>3. CASE r = t
  BY <1>3 DEF DecidedOn
<1>4. CASE r = [t EXCEPT !.pending = desired] /\ i > Warmup
  <2> HIDE DEF desired
  <2>1. /\ SameBooks(r, t) /\ r.pending = desired /\ r.done = t.done /\ r.curve = t.curve
        /\ r.position = t.position /\ r.equity = t.equity
    BY <1>1, <1>4 DEF SameBooks, SimFields
  <2>2. AccountOk(r, bars, s, i) /\ AllLeftBy(r, i)
    BY <2>1, BooksStay
  <2>3. DecidedOn(r, bars, i, s)
    BY <1>2, <1>4, <2>1 DEF DecidedOn, desired
  <2> QED BY <2>1, <2>2, <2>3
<1>5. r = t \/ (r = [t EXCEPT !.pending = desired] /\ i > Warmup)
  BY DEF Decided
<1> QED BY <1>3, <1>4, <1>5

LEMMA ProcessKeeps ==
  ASSUME NEW t, NEW bars, BarsOk(bars), NEW s, SettingOk(s), NEW i, i = Len(bars), i >= 1,
         AccountOk(t, bars, s, i - 1), AllLeftBy(t, i - 1), DecidedOn(t, bars, i - 1, s),
         CurveOk(t.curve, i - 1), NEW bar, bar = bars[i], NEW r, r = Processed(t, bar, i, s)
  PROVE  /\ AccountOk(r, bars, s, i) /\ AllLeftBy(r, i) /\ DecidedOn(r, bars, i, s)
         /\ r.done = t.done /\ CurveOk(r.curve, i) /\ Settled(r, bars, i)
<1>1. i \in Nat /\ i \in Nat \ {0} /\ bar \in HistoryBars
  BY DEF BarsOk, IsSequence
<1>2. PICK u : u = Executed(t, bar, i, s)
  OBVIOUS
<1>3. /\ AccountOk(u, bars, s, i - 1) /\ u.pending = "NONE"
      /\ u.curve = t.curve /\ u.done = t.done /\ AllLeftBy(u, i)
  BY <1>2, ExecuteKeeps
<1>4. PICK v : v = Managed(u, bar, i, s)
  OBVIOUS
<1>5. /\ AccountOk(v, bars, s, i) /\ v.pending = u.pending
      /\ v.curve = u.curve /\ v.done = u.done /\ AllLeftBy(v, i)
  BY <1>3, <1>4, ManageKeeps
<1>6. PICK w : w = Marked(v, bar)
  OBVIOUS
<1>7. CurveOk(v.curve, i - 1)
  BY <1>3, <1>5
<1>8. /\ AccountOk(w, bars, s, i) /\ AllLeftBy(w, i) /\ w.pending = v.pending
      /\ w.done = v.done /\ CurveOk(w.curve, i) /\ Settled(w, bars, i)
  BY <1>1, <1>5, <1>6, <1>7, MarkKeeps
<1>9. r = Decided(w, bar, i, s) /\ w.pending = "NONE"
  BY <1>2, <1>3, <1>4, <1>5, <1>6, <1>8 DEF Processed
<1>10. /\ AccountOk(r, bars, s, i) /\ AllLeftBy(r, i) /\ DecidedOn(r, bars, i, s)
       /\ r.done = w.done /\ r.curve = w.curve /\ r.position = w.position /\ r.equity = w.equity
  BY <1>1, <1>8, <1>9, DecideKeeps
<1> QED BY <1>3, <1>5, <1>8, <1>10 DEF Settled

-----------------------------------------------------------------------------
(* The run. *)

LastBooked(t) == Len(t.trades) > 0 /\ t.trades[Len(t.trades)].reason = "END_OF_DATA"

(* The curve ends at the equity, or at the mark of what was closed last.   *)
Ends(t, bars) ==
  LET tr == t.trades[Len(t.trades)]
      mark == Unrealised(tr.position, bars[BarCount].close)
  IN IF LastBooked(t)
       THEN t.curve[BarCount] = t.equity - tr.net + mark /\ tr.net <= mark
       ELSE t.curve[BarCount] = t.equity

BacktestInv ==
  /\ setting \in Settings /\ BarsOk(read) /\ Len(read) <= BarCount
  /\ AccountOk(sim, read, setting, Len(read)) /\ AllLeftBy(sim, Len(read))
  /\ DecidedOn(sim, read, Len(read), setting)
  /\ CurveOk(sim.curve, Len(read)) /\ sim.done \in BOOLEAN
  /\ IF sim.done
       THEN Len(read) = BarCount /\ sim.position = Flat /\ Ends(sim, read)
       ELSE Settled(sim, read, Len(read))

LEMMA BacktestStarts == BacktestInit => BacktestInv
<1> SUFFICES ASSUME BacktestInit PROVE BacktestInv
  OBVIOUS
<1>1. setting \in Settings /\ SettingOk(setting)
  BY SettingsAreOk DEF BacktestInit
<1>2. /\ DOMAIN sim = SimFields /\ sim.equity = setting.balance /\ sim.position = Flat
      /\ sim.pending = "NONE" /\ sim.trades = <<>> /\ sim.curve = <<>> /\ sim.done = FALSE
  BY DEF BacktestInit, SimFields
<1>3. read = <<>> /\ Len(read) = 0 /\ IsSequence(<<>>) /\ BarCount \in Nat /\ Len(<<>>) = 0
  BY BacktestAssumption, EmptySequence DEF BacktestInit
<1>4. BarsOk(read)
  BY <1>3 DEF BarsOk
<1>5. SumFunctionOnSet(NetsOf(sim.trades), 1..Len(sim.trades)) = 0
  <2>1. 1..Len(sim.trades) = {}
    BY <1>2, <1>3
  <2> QED BY <2>1, SumOfNothing
<1>6. BooksOk(sim, read, setting)
  <2>1. setting.balance \in Nat /\ setting.balance = setting.balance + 0
    BY <1>1 DEF SettingOk
  <2> QED BY <1>2, <1>3, <1>5, <2>1 DEF BooksOk
<1>7. AccountOk(sim, read, setting, Len(read)) /\ AllLeftBy(sim, Len(read))
  BY <1>2, <1>3, <1>6 DEF AccountOk, AllLeftBy, ClosedBy
<1>8. CurveOk(sim.curve, Len(read)) /\ DecidedOn(sim, read, Len(read), setting) /\ Settled(sim, read, Len(read))
  BY <1>2, <1>3 DEF CurveOk, DecidedOn, Settled
<1>9. sim.done \in BOOLEAN /\ ~sim.done
  BY <1>2
<1>10. Len(read) <= BarCount
  BY <1>3
<1> QED BY <1>1, <1>4, <1>7, <1>8, <1>9, <1>10 DEF BacktestInv

LEMMA ReadingExtends ==
  ASSUME NEW bars, BarsOk(bars), NEW bar \in HistoryBars, NEW longer, longer = Append(bars, bar)
  PROVE  /\ Extends(longer, bars) /\ BarsOk(longer) /\ Len(longer) = Len(bars) + 1
         /\ longer[Len(bars) + 1] = bar
<1> DEFINE n == Len(bars)
<1>1. IsSequence(bars) /\ n \in Nat /\ \A k \in 1..n : bars[k] \in HistoryBars
  BY DEF BarsOk, IsSequence
<1>2. /\ IsSequence(longer) /\ Len(longer) = n + 1 /\ longer[n + 1] = bar
      /\ \A k \in 1..n : longer[k] = bars[k]
  BY <1>1, Appended
<1> HIDE DEF n
<1>3. \A k \in 1..(n + 1) : longer[k] \in HistoryBars
  <2>1. \A k \in 1..(n + 1) : k = n + 1 \/ k \in 1..n
    BY <1>1
  <2> QED BY <1>1, <1>2, <2>1
<1>4. BarsOk(longer)
  BY <1>2, <1>3 DEF BarsOk
<1>5. n + 1 >= n
  BY <1>1
<1> QED BY <1>2, <1>4, <1>5 DEF Extends, n

LEMMA BacktestReads ==
  ASSUME BacktestInv, NEW bar \in HistoryBars, ReadBar(bar)
  PROVE  BacktestInv'
<1> DEFINE n == Len(read)
<1>1. /\ setting \in Settings /\ SettingOk(setting) /\ setting' = setting
      /\ BarsOk(read) /\ n \in Nat /\ n < BarCount /\ BarCount \in Nat
  BY SettingsAreOk, BacktestAssumption DEF BacktestInv, ReadBar, BarsOk, IsSequence
<1>2. PICK longer : longer = Append(read, bar) /\ read' = longer
  BY DEF ReadBar
<1>3. /\ Extends(longer, read) /\ BarsOk(longer) /\ Len(longer) = n + 1
      /\ longer[n + 1] = bar
  BY <1>1, <1>2, ReadingExtends
<1>4. /\ AccountOk(sim, read, setting, n) /\ AllLeftBy(sim, n)
      /\ DecidedOn(sim, read, n, setting) /\ CurveOk(sim.curve, n) /\ ~sim.done
      /\ sim.done \in BOOLEAN
  BY <1>1 DEF BacktestInv
<1>5. AccountOk(sim, longer, setting, n)
  BY <1>3, <1>4, AccountStays
<1>6. DecidedOn(sim, longer, n, setting)
  <2>1. CASE sim.pending = "NONE"
    BY <2>1 DEF DecidedOn
  <2>2. CASE sim.pending # "NONE"
    <3>1. n > Warmup /\ Warmup \in Nat
      BY <1>4, <2>2, BacktestAssumption DEF DecidedOn
    <3>2. n \in 1..n
      BY <1>1, <3>1
    <3>3. longer[n] = read[n]
      BY <1>3, <3>2 DEF Extends
    <3> QED BY <1>4, <3>3 DEF DecidedOn
  <2> QED BY <2>1, <2>2
<1>7. PICK r : r = Processed(sim, bar, n + 1, setting) /\ sim' = r
  BY DEF ReadBar
<1> HIDE DEF n
<1>8. n + 1 >= 1 /\ (n + 1) - 1 = n /\ n + 1 \in Nat
  BY <1>1
<1>9. /\ AccountOk(r, longer, setting, n + 1) /\ AllLeftBy(r, n + 1)
      /\ DecidedOn(r, longer, n + 1, setting)
      /\ r.done = sim.done /\ CurveOk(r.curve, n + 1) /\ Settled(r, longer, n + 1)
  <2>1. PICK i : i = n + 1
    OBVIOUS
  <2>2. /\ i = Len(longer) /\ i >= 1 /\ bar = longer[i] /\ r = Processed(sim, bar, i, setting)
        /\ AccountOk(sim, longer, setting, i - 1) /\ AllLeftBy(sim, i - 1)
        /\ DecidedOn(sim, longer, i - 1, setting) /\ CurveOk(sim.curve, i - 1)
    BY <1>3, <1>4, <1>5, <1>6, <1>7, <1>8, <2>1
  <2>3. /\ AccountOk(r, longer, setting, i) /\ AllLeftBy(r, i) /\ DecidedOn(r, longer, i, setting)
        /\ r.done = sim.done /\ CurveOk(r.curve, i) /\ Settled(r, longer, i)
    BY <1>1, <1>3, <2>2, ProcessKeeps
  <2> QED BY <2>1, <2>3
<1>10. n + 1 <= BarCount
  BY <1>1
<1> QED BY <1>1, <1>2, <1>3, <1>4, <1>7, <1>9, <1>10 DEF BacktestInv

LEMMA BacktestFinishes ==
  ASSUME BacktestInv, Finish
  PROVE  BacktestInv'
<1> DEFINE n == Len(read)
           p == sim.position
<1>1. /\ setting \in Settings /\ SettingOk(setting) /\ setting' = setting /\ read' = read
      /\ BarsOk(read) /\ n \in Nat /\ n = BarCount /\ n >= 1
  BY SettingsAreOk, BacktestAssumption DEF BacktestInv, Finish, BarsOk, IsSequence
<1>2. /\ AccountOk(sim, read, setting, n) /\ AllLeftBy(sim, n)
      /\ DecidedOn(sim, read, n, setting) /\ CurveOk(sim.curve, n) /\ Settled(sim, read, n)
      /\ ~sim.done /\ DOMAIN sim = SimFields
  BY DEF BacktestInv, Finish, AccountOk, BooksOk
<1>3. PICK u : /\ u = IF p = Flat THEN sim
                      ELSE ClosedAt(sim, Last(read).close, "END_OF_DATA", BarCount, setting)
               /\ sim' = [u EXCEPT !.done = TRUE]
  BY DEF Finish
<1>4. /\ AccountOk(u, read, setting, n) /\ ClosedBy(u, n) /\ u.pending = sim.pending
      /\ u.curve = sim.curve /\ u.position = Flat /\ Ends(u, read)
  <2>1. CASE p = Flat
    <3>1. u = sim /\ ClosedBy(sim, n)
      BY <1>2, <1>3, <2>1 DEF AllLeftBy
    <3>2. sim.curve[BarCount] = sim.equity
      <4>1. sim.equity \in Nat /\ Worth(p, read[n].close) = 0
        BY <1>2, <2>1 DEF AccountOk, BooksOk, Worth
      <4> QED BY <1>1, <1>2, <4>1 DEF Settled
    <3>3. ~LastBooked(sim)
      <4>1. Len(sim.trades) > 0 => Len(sim.trades) \in 1..Len(sim.trades)
        BY <1>2 DEF AccountOk, BooksOk, IsSequence
      <4> QED BY <1>2, <4>1 DEF LastBooked, AllLeftBy
    <3> QED BY <1>2, <2>1, <3>1, <3>2, <3>3 DEF Ends
  <2>2. CASE p # Flat
    <3> DEFINE raw == Last(read).close
               reason == "END_OF_DATA"
    <3>1. u = ClosedAt(sim, raw, reason, n, setting)
      BY <1>1, <1>3, <2>2
    <3>2. raw \in Int /\ raw \in Nat \ {0} /\ raw = read[n].close
      <4>1. Last(read) = read[n] /\ n \in 1..n
        BY <1>1 DEF Last
      <4>2. read[n] \in HistoryBars
        BY <1>1, <4>1 DEF BarsOk
      <4> QED BY <4>1, <4>2, BarsAreOk
    <3>3. /\ PositionOk(p, read, setting, n) /\ p.entered \in Int
          /\ p.entered \in 1..n /\ PositionShape(p)
      BY <2>2, <1>2 DEF AccountOk, PositionOk, PositionShape, Entered
    <3>4. n \in p.entered..Len(read)
      BY <1>1, <3>3
    <3>5. RestsThrough(p, read, n - 1, setting)
      <4>1. \A k \in p.entered..(n - 1) : k \in p.entered..n
        BY <1>1, <3>3
      <4> QED BY <3>3, <4>1 DEF PositionOk, RestsThrough
    <3>6. CanClose(sim, read, setting, raw, reason, n)
      <4>1. reason # "TAKE_PROFIT" /\ reason \notin Adverse
        BY DEF Adverse
      <4> HIDE DEF raw, reason
      <4> QED BY <1>2, <2>2, <3>2, <3>4, <3>5, <4>1 DEF CanClose
    <3> HIDE DEF raw, reason
    <3>7. /\ BooksOk(u, read, setting) /\ u.position = Flat
          /\ u.pending = sim.pending /\ u.curve = sim.curve /\ u.done = sim.done
          /\ Len(u.trades) = Len(sim.trades) + 1
          /\ LET tr == u.trades[Len(u.trades)]
             IN /\ tr.reason = reason /\ tr.position = p
                /\ tr.net = NetAt(p, raw, setting) /\ tr.net \in Int
                /\ u.equity = sim.equity + tr.net
          /\ ClosedBy(u, n)
      BY <1>1, <1>2, <3>1, <3>6, CloseKeeps
    <3>8. AccountOk(u, read, setting, n)
      BY <3>7 DEF AccountOk
    <3>9. LastBooked(u)
      <4>1. Len(sim.trades) \in Nat
        BY <1>2 DEF AccountOk, BooksOk, IsSequence
      <4>2. Len(u.trades) > 0
        BY <3>7, <4>1
      <4> QED BY <3>7, <4>2 DEF LastBooked, reason
    <3>10. Ends(u, read)
      <4> DEFINE tr == u.trades[Len(u.trades)]
                 net == tr.net
                 mark == Unrealised(p, raw)
      <4>1. mark \in Int /\ net <= mark /\ net \in Int
        BY <1>1, <3>2, <3>3, <3>7, MarkIsAbove
      <4>2. sim.curve[BarCount] = sim.equity + mark
        BY <1>1, <1>2, <2>2, <3>2 DEF Settled, Worth
      <4>3. sim.equity \in Int /\ u.equity = sim.equity + net /\ u.curve = sim.curve
        BY <1>2, <3>7 DEF AccountOk, BooksOk
      <4>4. mark = Unrealised(tr.position, read[BarCount].close)
        BY <1>1, <3>2, <3>7
      <4> HIDE DEF net, mark
      <4>5. u.curve[BarCount] = u.equity - net + mark
        BY <4>1, <4>2, <4>3
      <4> QED BY <3>9, <4>1, <4>4, <4>5 DEF Ends, net
    <3> QED BY <3>7, <3>8, <3>10
  <2> QED BY <2>1, <2>2
<1> HIDE DEF n, p
<1>5. PICK r : r = [u EXCEPT !.done = TRUE] /\ sim' = r
  BY <1>3
<1>6. /\ DOMAIN r = SimFields /\ r.equity = u.equity /\ r.position = u.position
      /\ r.trades = u.trades /\ r.curve = u.curve /\ r.pending = u.pending /\ r.done = TRUE
  BY <1>4, <1>5 DEF AccountOk, BooksOk, SimFields
<1>7. AccountOk(r, read, setting, n) /\ AllLeftBy(r, n)
  BY <1>4, <1>6 DEF AccountOk, BooksOk, AllLeftBy, ClosedBy
<1>8. DecidedOn(r, read, n, setting) /\ CurveOk(r.curve, n)
  BY <1>2, <1>4, <1>6 DEF DecidedOn
<1>9. r.position = Flat /\ Ends(r, read) /\ r.done \in BOOLEAN /\ r.done
  BY <1>4, <1>6 DEF LastBooked, Ends
<1>10. n <= BarCount
  BY <1>1
<1> QED BY <1>1, <1>5, <1>7, <1>8, <1>9, <1>10 DEF BacktestInv, n

(* What every state of the simulation satisfies: each trade and the open   *)
(* position lived the life the bars read allow, the equity is the balance  *)
(* and the nets, and what is pending was decided on the last bar read.     *)
THEOREM BacktestHolds == BacktestSpec => []BacktestInv
<1>1. BacktestInv /\ [BacktestNext]_backtestVars => BacktestInv'
  <2> SUFFICES ASSUME BacktestInv, [BacktestNext]_backtestVars PROVE BacktestInv'
    OBVIOUS
  <2>1. ASSUME NEW bar \in HistoryBars, ReadBar(bar) PROVE BacktestInv'
    BY <2>1, BacktestReads
  <2>2. CASE Finish
    BY <2>2, BacktestFinishes
  <2>3. CASE UNCHANGED backtestVars
    BY <2>3 DEF BacktestInv, backtestVars
  <2> QED BY <2>1, <2>2, <2>3 DEF BacktestNext
<1> QED BY <1>1, BacktestStarts, PTL DEF BacktestSpec

-----------------------------------------------------------------------------
(* What the runs check. *)

LEMMA HeldWasDecided ==
  ASSUME BacktestInv, NEW held \in Taken
  PROVE  /\ PositionShape(held.p) /\ Entered(held.p, read, setting)
         /\ held.entered = held.p.entered
         /\ RestsThrough(held.p, read, held.until, setting)
<1>1. AccountOk(sim, read, setting, Len(read)) /\ IsSequence(sim.trades)
  BY DEF BacktestInv, AccountOk, BooksOk
<1>2. CASE \E t \in ToSet(sim.trades) :
             held = [entered |-> t.entered, until |-> t.exited - 1, p |-> t.position]
  <2>1. PICK t \in ToSet(sim.trades) :
          held = [entered |-> t.entered, until |-> t.exited - 1, p |-> t.position]
    BY <1>2
  <2>2. TradeOk(t, read, setting)
    <3>1. PICK k \in 1..Len(sim.trades) : t = sim.trades[k]
      BY <1>1, <2>1 DEF ToSet, IsSequence
    <3> QED BY <1>1, <3>1 DEF AccountOk, BooksOk
  <2>3. held.p = t.position /\ held.entered = t.entered /\ held.until = t.exited - 1
    BY <2>1
  <2> QED BY <2>2, <2>3 DEF TradeOk
<1>3. CASE sim.position # Flat /\ held = [entered |-> sim.position.entered, until |-> Len(read),
                                          p |-> sim.position]
  <2>1. /\ held.p = sim.position /\ held.entered = sim.position.entered /\ held.until = Len(read)
        /\ PositionOk(sim.position, read, setting, Len(read))
    BY <1>1, <1>3 DEF AccountOk
  <2> QED BY <2>1 DEF PositionOk
<1> QED BY <1>2, <1>3 DEF Taken

(* Whatever the bars, the length of the series and the settings, no        *)
(* position was decided on a bar that its own entry, or anything later,    *)
(* could have shown (engine.py:375-431, 502-506).                          *)
THEOREM NothingIsForeseen == BacktestSpec => []NoLookAhead
<1>1. BacktestInv => NoLookAhead
  <2> SUFFICES ASSUME BacktestInv, NEW held \in Taken
               PROVE  /\ held.entered - 1 > Warmup
                      /\ DesiredSide(read[held.entered - 1].bias, setting) = held.p.side
                      /\ held.p.entry = Slipped(read[held.entered].open, held.p.side, TRUE, setting)
    BY DEF NoLookAhead
  <2>1. Entered(held.p, read, setting) /\ held.entered = held.p.entered
    BY HeldWasDecided
  <2> QED BY <2>1 DEF Entered
<1> QED BY <1>1, BacktestHolds, PTL

(* The best price of a stretch is the one known to be above the others. *)
LEMMA BestIsBest ==
  ASSUME NEW held, NEW k, NEW x, BarsOk(read), Entered(held.p, read, setting),
         held.entered = held.p.entered, PositionShape(held.p), k \in held.entered..Len(read),
         IsBest(held.p, read, k, x)
  PROVE  BestBefore(held, k) = x
<1> DEFINE p == held.p
           S == Seen(p, read, k)
<1>1. p.entry \in Int /\ p.entered \in Int /\ p.entered >= 1 /\ Len(read) \in Nat /\ k \in Int
  <2>1. p.entered \in 1..Len(read) /\ Len(read) \in Nat
    BY DEF Entered, BarsOk, IsSequence
  <2>2. p.entry \in Int /\ p.entered \in Int
    BY DEF PositionShape
  <2> QED BY <2>1, <2>2
<1>2. S \subseteq Int
  <2>1. \A j \in p.entered..(k - 1) : j \in 1..Len(read)
    BY <1>1
  <2>2. \A j \in p.entered..(k - 1) : Extreme(p, read[j]) \in Int
    BY <2>1, BarsAreOk DEF Extreme, BarsOk
  <2> QED BY <1>1, <2>2 DEF Seen
<1>3. x \in S /\ x \in Int /\ \A y \in S : Ahead(p, x, y)
  BY DEF IsBest
<1>4. CASE p.side = "LONG"
  <2>1. S = {held.p.entry} \cup {read[j].high : j \in held.entered..(k - 1)}
    BY <1>4 DEF Seen, Extreme
  <2>2. \A y \in S : x >= y
    BY <1>3, <1>4 DEF Ahead
  <2>3. BestBefore(held, k) = Max(S)
    BY <1>4, <2>1 DEF BestBefore
  <2> HIDE DEF S
  <2> QED BY <1>2, <1>3, <2>2, <2>3, LargestIsMax
<1>5. CASE p.side # "LONG"
  <2>1. S = {held.p.entry} \cup {read[j].low : j \in held.entered..(k - 1)}
    BY <1>5 DEF Seen, Extreme
  <2>2. \A y \in S : x <= y
    BY <1>3, <1>5 DEF Ahead
  <2>3. BestBefore(held, k) = Min(S)
    BY <1>5, <2>1 DEF BestBefore
  <2> HIDE DEF S
  <2> QED BY <1>2, <1>3, <2>2, <2>3, SmallestIsMin
<1> QED BY <1>4, <1>5

LEMMA QuietIsNotAdverse ==
  ASSUME NEW held, NEW k, BarsOk(read), Entered(held.p, read, setting),
         held.entered = held.p.entered, PositionShape(held.p), k \in held.entered..Len(read),
         QuietAt(held.p, read, k, setting)
  PROVE  ~AdverseAt(held, k)
<1>1. PICK x \in Int : IsBest(held.p, read, k, x) /\ HitWith(held.p, read, k, x, setting) = {}
  BY DEF QuietAt
<1>2. BestBefore(held, k) = x
  BY <1>1, BestIsBest
<1>3. AdverseLevels([held.p EXCEPT !.extreme = x], setting) = LevelsWith(held.p, x, setting)
  BY LevelsAreLevels
<1> QED BY <1>1, <1>2, <1>3 DEF AdverseAt, HitWith

(* Whatever the bars and the settings, nothing is held through a level it  *)
(* reaches, and an exit against the position is at a level known before    *)
(* its bar (engine.py:200-244, 444-476).                                   *)
THEOREM WorstCaseHolds == BacktestSpec => []WorstCaseIsAssumed
<1>1. BacktestInv => WorstCaseIsAssumed
  <2> SUFFICES ASSUME BacktestInv PROVE WorstCaseIsAssumed
    OBVIOUS
  <2>1. /\ BarsOk(read) /\ AccountOk(sim, read, setting, Len(read)) /\ IsSequence(sim.trades)
        /\ Len(read) \in Nat
    BY DEF BacktestInv, AccountOk, BooksOk, BarsOk, IsSequence
  <2>2. ASSUME NEW held \in Taken, NEW k \in held.entered..held.until PROVE ~AdverseAt(held, k)
    <3>1. /\ PositionShape(held.p) /\ Entered(held.p, read, setting)
          /\ held.entered = held.p.entered /\ RestsThrough(held.p, read, held.until, setting)
      BY HeldWasDecided
    <3>2. QuietAt(held.p, read, k, setting)
      BY <3>1 DEF RestsThrough
    <3>3. k \in held.entered..Len(read)
      <4>1. held.until \in Int /\ held.until <= Len(read)
        <5>1. CASE \E t \in ToSet(sim.trades) :
                     held = [entered |-> t.entered, until |-> t.exited - 1, p |-> t.position]
          <6>1. PICK t \in ToSet(sim.trades) :
                  held = [entered |-> t.entered, until |-> t.exited - 1, p |-> t.position]
            BY <5>1
          <6>2. PICK j \in 1..Len(sim.trades) : t = sim.trades[j]
            BY <2>1, <6>1 DEF ToSet, IsSequence
          <6>3. TradeOk(t, read, setting) /\ t.exited <= Len(read)
            BY <2>1, <6>2 DEF AccountOk, BooksOk, BacktestInv, AllLeftBy, ClosedBy
          <6>4. t.exited \in Int /\ held.until = t.exited - 1
            BY <6>1, <6>3, TradeTimes
          <6> QED BY <2>1, <6>3, <6>4
        <5>2. CASE held = [entered |-> sim.position.entered, until |-> Len(read),
                           p |-> sim.position]
          BY <2>1, <5>2
        <5> QED BY <5>1, <5>2 DEF Taken
      <4>2. held.entered \in Int
        BY <3>1 DEF PositionShape
      <4> QED BY <2>1, <4>1, <4>2
    <3> QED BY <2>1, <3>1, <3>2, <3>3, QuietIsNotAdverse
  <2>3. ASSUME NEW t \in ToSet(sim.trades), NEW held,
               held = [entered |-> t.entered, p |-> t.position]
        PROVE  /\ t.reason = "TAKE_PROFIT" => ~AdverseAt(held, t.exited)
               /\ t.reason \in {"STOP_LOSS", "LIQUIDATION", "TRAILING_STOP"} =>
                    [level |-> t.level, reason |-> t.reason] \in
                      AdverseLevels([t.position EXCEPT !.extreme = BestBefore(held, t.exited)],
                                    setting)
    <3>1. TradeOk(t, read, setting)
      <4>1. PICK j \in 1..Len(sim.trades) : t = sim.trades[j]
        BY <2>1 DEF ToSet, IsSequence
      <4> QED BY <2>1, <4>1 DEF AccountOk, BooksOk
    <3>2. /\ held.entered = t.entered /\ held.p = t.position
          /\ PositionShape(held.p) /\ Entered(held.p, read, setting)
          /\ held.entered = held.p.entered /\ t.exited \in held.entered..Len(read)
      BY <2>3, <3>1 DEF TradeOk
    <3>3. t.reason = "TAKE_PROFIT" => ~AdverseAt(held, t.exited)
      <4>1. t.reason = "TAKE_PROFIT" => QuietAt(held.p, read, t.exited, setting)
        BY <3>1, <3>2 DEF TradeOk
      <4> QED BY <2>1, <3>2, <4>1, QuietIsNotAdverse
    <3>4. ASSUME t.reason \in {"STOP_LOSS", "LIQUIDATION", "TRAILING_STOP"}
          PROVE  [level |-> t.level, reason |-> t.reason] \in
                   AdverseLevels([t.position EXCEPT !.extreme = BestBefore(held, t.exited)], setting)
      <4>1. LevelKnown(held.p, read, t.exited, [level |-> t.level, reason |-> t.reason], setting)
        BY <3>1, <3>2, <3>4 DEF TradeOk, Adverse
      <4>2. PICK x \in Int : /\ IsBest(held.p, read, t.exited, x)
                             /\ [level |-> t.level, reason |-> t.reason] \in
                                  LevelsWith(held.p, x, setting)
        BY <4>1 DEF LevelKnown
      <4>3. BestBefore(held, t.exited) = x
        BY <2>1, <3>2, <4>2, BestIsBest
      <4>4. AdverseLevels([held.p EXCEPT !.extreme = x], setting) = LevelsWith(held.p, x, setting)
        BY <3>2, LevelsAreLevels
      <4> QED BY <3>2, <4>2, <4>3, <4>4
    <3> QED BY <3>3, <3>4
  <2> QED BY <2>2, <2>3 DEF WorstCaseIsAssumed
<1> QED BY <1>1, BacktestHolds, PTL

-----------------------------------------------------------------------------
(* The metrics. *)

(* Gains and losses are all there is. *)
LEMMA NetIsProfitLessLoss ==
  ASSUME NEW S, IsFiniteSet(S), NEW f, \A k \in S : f[k] \in Int
  PROVE  SumFunctionOnSet(f, S) = SumFunctionOnSet(f, {k \in S : f[k] > 0})
                                  - (-SumFunctionOnSet(f, {k \in S : f[k] < 0}))
<1> DEFINE W == {k \in S : f[k] > 0}
           L == {k \in S : f[k] < 0}
           Z == {k \in S : f[k] = 0}
<1>1. IsFiniteSet(W) /\ IsFiniteSet(L) /\ IsFiniteSet(Z) /\ IsFiniteSet(W \cup L)
  <2>1. IsFiniteSet(W) /\ IsFiniteSet(L) /\ IsFiniteSet(Z)
    BY FS_Subset
  <2> QED BY <2>1, FS_Union
<1>2. W \cap L = {} /\ (W \cup L) \cap Z = {} /\ (W \cup L) \cup Z = S
  OBVIOUS
<1>3. /\ \A k \in W \cup L : f[k] \in Int
      /\ \A k \in W : f[k] \in Int
      /\ \A k \in L : f[k] \in Int
      /\ \A k \in (W \cup L) \cup Z : f[k] \in Int
      /\ \A k \in Z : f[k] = 0
  OBVIOUS
<1> HIDE DEF W, L, Z
<1>4. SumFunctionOnSet(f, W \cup L) = SumFunctionOnSet(f, W) + SumFunctionOnSet(f, L)
  BY <1>1, <1>2, <1>3, SumOfParts
<1>5. SumFunctionOnSet(f, (W \cup L) \cup Z) = SumFunctionOnSet(f, W \cup L) + SumFunctionOnSet(f, Z)
  BY <1>1, <1>2, <1>3, SumOfParts
<1>6. SumFunctionOnSet(f, Z) = 0
  BY <1>1, <1>3, SumOfZeroes
<1>7. SumFunctionOnSet(f, W) \in Int /\ SumFunctionOnSet(f, L) \in Int
  BY <1>1, <1>3, SumIsInteger
<1>8. SumFunctionOnSet(f, S) = SumFunctionOnSet(f, W) - (-SumFunctionOnSet(f, L))
  BY <1>2, <1>4, <1>5, <1>6, <1>7
<1> QED BY <1>8 DEF W, L

(* A run of hits is no longer than the hits are many. *)
LEMMA RunIsShort ==
  ASSUME NEW total \in Nat, NEW hits \in SUBSET (1..total)
  PROVE  LongestRun(hits, total) <= Cardinality(hits)
<1> DEFINE R == {n \in 1..total : \E k \in n..total : (k - n + 1)..k \subseteq hits}
           S == {0} \cup R
<1>1. IsFiniteSet(hits) /\ IsFiniteSet(S)
  <2>1. IsFiniteSet(1..total) /\ IsFiniteSet(0..total)
    BY FS_Interval
  <2>2. S \subseteq 0..total
    OBVIOUS
  <2> QED BY <2>1, <2>2, FS_Subset
<1>2. Cardinality(hits) \in Nat
  BY <1>1, FS_CardinalityType
<1>3. ASSUME NEW n \in R PROVE n <= Cardinality(hits)
  <2>1. PICK k \in n..total : (k - n + 1)..k \subseteq hits
    OBVIOUS
  <2>2. n \in 1..total /\ k - n + 1 \in Int /\ k \in Int /\ k - n + 1 <= k
        /\ k - (k - n + 1) + 1 = n
    OBVIOUS
  <2>3. Cardinality((k - n + 1)..k) = n
    BY <2>2, FS_Interval
  <2>4. Cardinality((k - n + 1)..k) <= Cardinality(hits)
    BY <1>1, <2>1, FS_Subset
  <2> QED BY <2>3, <2>4
<1>4. S \subseteq Int /\ S # {}
  OBVIOUS
<1>5. Max(S) \in S
  <2> HIDE DEF S
  <2> QED BY <1>1, <1>4, MaxIsLargest
<1>6. LongestRun(hits, total) = Max(S)
  BY DEF LongestRun
<1> DEFINE m == Max(S)
<1>7. m = 0 \/ m \in R
  BY <1>5
<1> HIDE DEF R, m
<1>8. m <= Cardinality(hits)
  BY <1>2, <1>3, <1>7
<1> QED BY <1>6, <1>8 DEF m

(* The account fell at least as far as it ended below its start. *)
LEMMA DrawdownIsDeep ==
  ASSUME NEW curve, NEW n \in Nat, CurveOk(curve, n), NEW start \in Int
  PROVE  /\ Drawdown(curve, start) >= 0
         /\ n > 0 => Drawdown(curve, start) >= start - curve[n]
<1> DEFINE Peak(k) == {start} \cup {curve[j] : j \in 1..k}
           fall == [k \in 1..n |-> Max(Peak(k)) - curve[k]]
           F == {fall[k] : k \in 1..n}
           S == {0} \cup F
<1>1. /\ DOMAIN curve = 1..n /\ \A k \in 1..n : curve[k] \in Int
      /\ IsFiniteSet(1..n)
  BY FS_Interval DEF CurveOk, IsSequence
<1>2. ASSUME NEW k \in 1..n PROVE Max(Peak(k)) \in Int /\ Max(Peak(k)) >= start
  <2>1. IsFiniteSet({curve[j] : j \in 1..k})
    <3>1. IsFiniteSet(1..k)
      BY FS_Interval
    <3> QED BY <3>1, ImageIsFinite
  <2>2. IsFiniteSet(Peak(k))
    <3>1. IsFiniteSet({start})
      BY FS_Singleton
    <3> QED BY <2>1, <3>1, FS_Union
  <2>3. Peak(k) \subseteq Int /\ start \in Peak(k)
    BY <1>1
  <2> DEFINE P == Peak(k)
  <2> HIDE DEF P
  <2>4. IsFiniteSet(P) /\ P \subseteq Int /\ start \in P /\ P # {}
    BY <2>2, <2>3 DEF P
  <2>5. Max(P) \in P /\ Max(P) >= start
    BY <2>4, MaxIsLargest
  <2>6. Max(P) \in Int
    BY <2>4, <2>5
  <2> QED BY <2>5, <2>6 DEF P
<1>3. \A k \in 1..n : fall[k] \in Int /\ fall[k] >= start - curve[k]
  <2> SUFFICES ASSUME NEW k \in 1..n PROVE fall[k] \in Int /\ fall[k] >= start - curve[k]
    OBVIOUS
  <2> DEFINE top == Max(Peak(k))
  <2>1. fall[k] = top - curve[k] /\ top \in Int /\ top >= start /\ curve[k] \in Int
    BY <1>1, <1>2
  <2> HIDE DEF top, fall
  <2> QED BY <2>1
<1>4. Drawdown(curve, start) = Max(S)
  <2>1. F = {Max(Peak(k)) - curve[k] : k \in DOMAIN curve}
    BY <1>1
  <2> QED BY <2>1 DEF Drawdown
<1> HIDE DEF fall
<1>5. IsFiniteSet(S) /\ S # {} /\ S \subseteq Int /\ 0 \in S
  <2>3. IsFiniteSet(F)
    BY <1>1, ImageIsFinite
  <2>1. IsFiniteSet(F) /\ IsFiniteSet({0})
    BY <2>3, FS_Singleton
  <2>2. IsFiniteSet(S)
    BY <2>1, FS_Union
  <2> QED BY <1>3, <2>2
<1>6. n > 0 => fall[n] \in S /\ fall[n] >= start - curve[n] /\ curve[n] \in Int
  <2>1. n > 0 => n \in 1..n
    OBVIOUS
  <2> QED BY <1>1, <1>3, <2>1
<1> HIDE DEF S
<1>7. Max(S) \in S /\ \A x \in S : Max(S) >= x
  BY <1>5, MaxIsLargest
<1> DEFINE deep == Max(S)
           last == fall[n]
<1>8. deep \in Int /\ deep >= 0
  BY <1>5, <1>7
<1>9. n > 0 => deep >= last /\ last \in Int /\ last >= start - curve[n] /\ curve[n] \in Int
  BY <1>5, <1>6, <1>7
<1> HIDE DEF deep, last
<1>10. n > 0 => deep >= start - curve[n]
  BY <1>8, <1>9
<1> QED BY <1>4, <1>8, <1>10 DEF deep

(* Whatever the trades, the equity is the balance and their nets, never    *)
(* below zero; the ending balance of the metrics is that equity, and for a *)
(* run whose last position was closed for want of data it is what the      *)
(* equity would be had that position been left at its mark, which is never *)
(* less than what the close booked (engine.py:313-373, 478-520,            *)
(* metrics.py:115-180).                                                    *)
THEOREM BacktestLedgerHolds == BacktestSpec => []LedgerAddsUp
<1>1. BacktestInv => LedgerAddsUp
  <2> SUFFICES ASSUME BacktestInv PROVE LedgerAddsUp
    OBVIOUS
  <2> DEFINE trades == sim.trades
             n == Len(trades)
             curve == sim.curve
             m == Metrics(trades, curve, setting)
             nets == NetsOf(trades)
             lost == {k \in DOMAIN trades : nets[k] < 0}
  <2>1. /\ SettingOk(setting) /\ BooksOk(sim, read, setting) /\ Len(read) \in Nat
        /\ CurveOk(curve, Len(read)) /\ AccountOk(sim, read, setting, Len(read))
        /\ setting.balance \in Int
    BY SettingsAreOk DEF BacktestInv, AccountOk, BarsOk, IsSequence, SettingOk
  <2>2. /\ n \in Nat /\ DOMAIN trades = 1..n /\ sim.equity \in Nat
        /\ \A k \in 1..n : TradeOk(trades[k], read, setting)
        /\ sim.equity = setting.balance + SumFunctionOnSet(nets, 1..n)
        /\ \A k \in 2..n : trades[k - 1].exited <= trades[k].entered
    BY <2>1 DEF BooksOk, IsSequence
  <2>3. \A k \in 1..n : nets[k] = trades[k].net /\ nets[k] \in Int
                        /\ trades[k].net >= -trades[k].position.margin
    BY <2>2 DEF NetsOf, TradeOk
  <2>4. DOMAIN nets = 1..n
    BY <2>2 DEF NetsOf
  <2>5. /\ m.net = SumFunctionOnSet(nets, 1..n)
        /\ m.profit = SumFunctionOnSet(nets, {k \in 1..n : nets[k] > 0})
        /\ m.loss = -SumFunctionOnSet(nets, {k \in 1..n : nets[k] < 0})
        /\ m.losses = Cardinality({k \in 1..n : nets[k] < 0})
        /\ m.streak = LongestRun({k \in 1..n : nets[k] < 0}, n)
        /\ m.drawdown = Drawdown(curve, setting.balance)
        /\ m.ending = IF curve = <<>> THEN setting.balance ELSE Last(curve)
    BY <2>2, <2>4 DEF Metrics, NetsOf, SumFunction
  <2> HIDE DEF n, nets, m, curve
  <2>6. m.net = m.profit - m.loss
    <3>1. IsFiniteSet(1..n)
      BY <2>2, FS_Interval
    <3>2. \A k \in 1..n : nets[k] \in Int
      BY <2>3
    <3> QED BY <2>5, <3>1, <3>2, NetIsProfitLessLoss
  <2>7. m.streak <= m.losses
    BY <2>2, <2>5, RunIsShort
  <2>8. /\ curve # <<>> => Len(read) > 0 /\ m.ending = curve[Len(read)] /\ curve[Len(read)] \in Int
        /\ Len(read) > 0 => curve # <<>>
    <3>1. Len(curve) = Len(read) /\ Len(<<>>) = 0 /\ IsSequence(curve)
      BY <2>1, EmptySequence DEF CurveOk
    <3>2. Len(read) > 0 => curve # <<>>
      BY <2>1, <3>1
    <3>3. curve # <<>> => Len(read) > 0
      <4>1. curve \in Seq({curve[k] : k \in 1..Len(curve)})
        BY <3>1 DEF IsSequence
      <4> QED BY <3>1, <4>1, EmptySeq
    <3>4. curve # <<>> => curve[Len(read)] \in Int
      <4>1. Len(read) > 0 => Len(read) \in 1..Len(read)
        BY <2>1
      <4> QED BY <2>1, <3>3, <4>1 DEF CurveOk
    <3> QED BY <2>5, <3>1, <3>2, <3>3, <3>4 DEF Last
  <2>9. m.drawdown >= setting.balance - m.ending
    <3>1. /\ Drawdown(curve, setting.balance) >= 0
          /\ Len(read) > 0 => Drawdown(curve, setting.balance) >= setting.balance - curve[Len(read)]
      BY <2>1, DrawdownIsDeep
    <3>2. CASE curve = <<>>
      <4>1. m.ending = setting.balance /\ setting.balance - setting.balance = 0
        BY <2>1, <2>5, <3>2
      <4> QED BY <2>5, <3>1, <4>1
    <3>3. CASE curve # <<>>
      BY <2>5, <2>8, <3>1, <3>3
    <3> QED BY <3>2, <3>3
  <2>10. ASSUME sim.done
         PROVE  LET t == Last(trades)
                    mark == Unrealised(t.position, Last(read).close)
                IN IF trades # <<>> /\ t.reason = "END_OF_DATA"
                     THEN m.ending = sim.equity - t.net + mark /\ t.net <= mark
                     ELSE m.ending = sim.equity
    <3>1. Len(read) = BarCount /\ Ends(sim, read)
      BY <2>10 DEF BacktestInv
    <3>2. BarCount > 0
      BY BacktestAssumption
    <3>3. /\ m.ending = curve[BarCount] /\ Last(read) = read[BarCount]
          /\ Last(trades) = trades[Len(trades)]
      BY <2>8, <3>1, <3>2 DEF Last
    <3>4. trades # <<>> <=> Len(trades) > 0
      BY <2>1, EmptySequence, EmptySeq DEF BooksOk, IsSequence
    <3> QED BY <3>1, <3>3, <3>4 DEF Ends, LastBooked, curve
  <2>11. sim.equity = setting.balance + m.net /\ sim.equity >= 0
    BY <2>2, <2>5
  <2>12. /\ \A k \in DOMAIN trades : trades[k].net >= -trades[k].position.margin
         /\ \A k \in 2..Len(trades) : trades[k - 1].exited <= trades[k].entered
    BY <2>2, <2>3 DEF n
  <2> QED BY <2>6, <2>7, <2>9, <2>10, <2>11, <2>12 DEF LedgerAddsUp, m, curve
<1> QED BY <1>1, BacktestHolds, PTL

-----------------------------------------------------------------------------
(* The winner of a list of scores. *)

Keeps(best, scores, n) ==
  best = [k \in 0..n |->
            IF k = 0 THEN 0
            ELSE IF best[k - 1] = 0 \/ scores[k].value > scores[best[k - 1]].value
              THEN k ELSE best[k - 1]]

LEMMA SomethingKeeps ==
  ASSUME NEW scores, NEW n \in Nat
  PROVE  \E best : Keeps(best, scores, n)
<1> DEFINE S == {m \in Nat : \E best : Keeps(best, scores, m)}
<1>1. 0 \in S
  <2> DEFINE b == [k \in 0..0 |-> 0]
  <2>1. Keeps(b, scores, 0)
    BY DEF Keeps
  <2> QED BY <2>1
<1>2. ASSUME NEW m \in Nat, m \in S PROVE m + 1 \in S
  <2>1. PICK b : Keeps(b, scores, m)
    BY <1>2
  <2> DEFINE next == IF b[m] = 0 \/ scores[m + 1].value > scores[b[m]].value THEN m + 1 ELSE b[m]
             c == [k \in 0..(m + 1) |-> IF k = m + 1 THEN next ELSE b[k]]
             Rule(k) == IF k = 0 THEN 0
                        ELSE IF c[k - 1] = 0 \/ scores[k].value > scores[c[k - 1]].value
                          THEN k ELSE c[k - 1]
  <2>2. \A k \in 0..m : c[k] = b[k]
    OBVIOUS
  <2>3. c[m + 1] = next
    OBVIOUS
  <2>4. ASSUME NEW k \in 0..(m + 1) PROVE c[k] = Rule(k)
    <3>1. CASE k = m + 1
      <4>1. k # 0 /\ k - 1 = m /\ m \in 0..m
        BY <3>1
      <4>2. c[k - 1] = b[m]
        BY <2>2, <4>1
      <4> HIDE DEF c
      <4> QED BY <2>3, <3>1, <4>1, <4>2
    <3>2. CASE k # m + 1 /\ k # 0
      <4>1. k \in 0..m /\ k - 1 \in 0..m
        BY <3>2
      <4>2. b[k] = IF b[k - 1] = 0 \/ scores[k].value > scores[b[k - 1]].value
                     THEN k ELSE b[k - 1]
        BY <2>1, <3>2, <4>1 DEF Keeps
      <4>3. c[k] = b[k] /\ c[k - 1] = b[k - 1]
        BY <2>2, <4>1
      <4> HIDE DEF c
      <4> QED BY <3>2, <4>2, <4>3
    <3>3. CASE k = 0
      <4>1. k \in 0..m /\ c[k] = b[k]
        BY <3>3
      <4>2. b[k] = 0
        BY <2>1, <3>3, <4>1 DEF Keeps
      <4> HIDE DEF c
      <4> QED BY <3>3, <4>1, <4>2
    <3> QED BY <3>1, <3>2, <3>3
  <2>5. c = [k \in 0..(m + 1) |-> c[k]]
    OBVIOUS
  <2> HIDE DEF c
  <2>6. Keeps(c, scores, m + 1)
    BY <2>4, <2>5 DEF Keeps
  <2> QED BY <2>6
<1> HIDE DEF S
<1>3. Nat \subseteq S
  BY <1>1, <1>2, NaturalsByStep
<1> QED BY <1>3 DEF S

LEMMA BestFoundKeeps ==
  ASSUME NEW scores, NEW n \in Nat, Len(scores) = n
  PROVE  \E best : Keeps(best, scores, n) /\ BestFound(scores) = best[n]
<1> DEFINE Is(b) == Keeps(b, scores, n)
           kept == CHOOSE b : Is(b)
<1>1. \E b : Is(b)
  BY SomethingKeeps
<1>2. BestFound(scores) = kept[n]
  BY DEF BestFound, Keeps
<1> HIDE DEF Is
<1>3. Is(kept)
  BY <1>1
<1> QED BY <1>2, <1>3 DEF Is

(* The loop keeps the first of the best. *)
LEMMA BestFoundLeads ==
  ASSUME NEW scores, NEW n \in Nat, Len(scores) = n, DOMAIN scores = 1..n, n > 0,
         \A k \in 1..n : scores[k].value \in Int
  PROVE  BestFound(scores) \in 1..n /\ Leads(BestFound(scores), scores)
<1>1. PICK b : Keeps(b, scores, n) /\ BestFound(scores) = b[n]
  BY BestFoundKeeps
<1> DEFINE Good(m) ==
      m \in 1..n =>
        /\ b[m] \in 1..m
        /\ \A j \in 1..m : scores[j].value <= scores[b[m]].value
        /\ \A j \in 1..(b[m] - 1) : scores[j].value < scores[b[m]].value
           S == {m \in Nat : Good(m)}
<1>2. 0 \in S
  OBVIOUS
<1>3. ASSUME NEW m \in Nat, m \in S PROVE m + 1 \in S
  <2> SUFFICES ASSUME m + 1 \in 1..n
               PROVE  /\ b[m + 1] \in 1..(m + 1)
                      /\ \A j \in 1..(m + 1) : scores[j].value <= scores[b[m + 1]].value
                      /\ \A j \in 1..(b[m + 1] - 1) : scores[j].value < scores[b[m + 1]].value
    OBVIOUS
  <2>1. b[m + 1] = IF b[m] = 0 \/ scores[m + 1].value > scores[b[m]].value THEN m + 1 ELSE b[m]
    <3>1. m + 1 \in 0..n /\ m + 1 # 0 /\ (m + 1) - 1 = m
      OBVIOUS
    <3>2. b[m + 1] = IF b[(m + 1) - 1] = 0 \/ scores[m + 1].value > scores[b[(m + 1) - 1]].value
                       THEN m + 1 ELSE b[(m + 1) - 1]
      BY <1>1, <3>1 DEF Keeps
    <3> QED BY <3>1, <3>2
  <2>2. CASE m = 0
    <3>1. b[0] = 0
      BY <1>1 DEF Keeps
    <3>2. b[m + 1] = 1
      BY <2>1, <2>2, <3>1
    <3>3. \A j \in 1..(m + 1) : j = 1
      BY <2>2
    <3> QED BY <2>2, <3>2, <3>3
  <2>3. CASE m # 0
    <3>1. /\ m \in 1..n /\ b[m] \in 1..m
          /\ \A j \in 1..m : scores[j].value <= scores[b[m]].value
          /\ \A j \in 1..(b[m] - 1) : scores[j].value < scores[b[m]].value
      BY <1>3, <2>3
    <3>2. /\ \A j \in 1..(m + 1) : scores[j].value \in Int /\ (j = m + 1 \/ j \in 1..m)
          /\ scores[b[m]].value \in Int
      BY <3>1
    <3> DEFINE top == scores[b[m]].value
               new == scores[m + 1].value
    <3>3. top \in Int /\ new \in Int
      BY <3>2
    <3> HIDE DEF top, new
    <3>4. CASE new > top
      <4>1. b[m + 1] = m + 1
        BY <2>1, <3>4 DEF new, top
      <4>2. \A j \in 1..m : scores[j].value < new
        BY <3>1, <3>2, <3>3, <3>4 DEF top
      <4>3. \A j \in 1..((m + 1) - 1) : j \in 1..m
        OBVIOUS
      <4> QED BY <3>2, <3>3, <4>1, <4>2, <4>3 DEF new
    <3>5. CASE ~(new > top)
      <4>1. b[m + 1] = b[m]
        BY <2>1, <3>1, <3>5 DEF new, top
      <4>2. new <= top
        BY <3>3, <3>5
      <4> QED BY <3>1, <3>2, <4>1, <4>2 DEF new, top
    <3> QED BY <3>4, <3>5
  <2> QED BY <2>2, <2>3
<1> HIDE DEF S
<1>4. Nat \subseteq S
  BY <1>2, <1>3, NaturalsByStep
<1>5. Good(n)
  BY <1>4 DEF S
<1> QED BY <1>1, <1>5 DEF Leads

-----------------------------------------------------------------------------
(* The windows. *)

LEMMA StepsFit ==
  ASSUME NEW room \in Nat, NEW step \in Nat \ {0}, NEW k \in 0..(room \div step)
  PROVE  k * step \in Nat /\ k * step <= room
<1> DEFINE q == room \div step
           r == room % step
<1>1. q \in Int /\ r \in 0..(step - 1) /\ room = step * q + r
  BY SMTT(30)
<1>2. q \in Nat
  OBVIOUS
<1> HIDE DEF q, r
<1>3. step * k \in Nat /\ step * k <= step * q
  BY <1>1, <1>2, TimesAtMost DEF q
<1> DEFINE a == step * k
           b == step * q
<1>4. k * step = a
  BY <1>2 DEF q
<1>7. b \in Nat
  BY <1>2 DEF q, r
<1>5. a \in Nat /\ a <= b /\ room = b + r
  BY <1>1, <1>3
<1> HIDE DEF a, b
<1>6. a <= room
  BY <1>1, <1>5, <1>7
<1> QED BY <1>4, <1>5, <1>6

WindowOk(w) == 0 <= w[1] /\ w[1] < w[2] /\ w[2] <= job.bars /\ w[1] \in Int /\ w[2] \in Int

LEMMA FoldsAreWindows ==
  ASSUME job \in Jobs, job.kind = "WALK_FORWARD", NEW n \in Nat, n < Len(Folds)
  PROVE  LET w == Folds[n + 1]
         IN /\ WindowOk(w.train) /\ WindowOk(w.validation)
            /\ w.train[2] = n * job.step + job.train /\ w.validation[1] = w.train[2]
<1> DEFINE need == job.train + job.validation
           room == job.bars - job.train - job.validation
           count == IF job.bars < need THEN 0 ELSE room \div job.step + 1
<1>1. /\ job.bars \in Nat /\ job.train \in Nat \ {0} /\ job.validation \in Nat \ {0}
      /\ job.step \in Nat \ {0}
  BY SearchAssumption
<1>2. Folds = [k \in 1..count |->
                LET start == (k - 1) * job.step
                IN [train |-> <<start, start + job.train>>,
                    validation |-> <<start + job.train, start + job.train + job.validation>>]]
  BY DEF Folds, Windows
<1>3. count \in Nat
  <2>1. CASE job.bars < need
    BY <2>1
  <2>2. CASE ~(job.bars < need)
    <3>1. room \in Nat
      BY <1>1, <2>2
    <3> HIDE DEF room
    <3>2. room \div job.step \in Nat
      BY <1>1, <3>1, SMTT(30)
    <3> QED BY <2>2, <3>2
  <2> QED BY <2>1, <2>2
<1> HIDE DEF count
<1>4. Len(Folds) = count
  BY <1>2, <1>3
<1>5. n + 1 \in 1..count
  BY <1>3, <1>4
<1> DEFINE start == n * job.step
<1>6. (n + 1) - 1 = n
  OBVIOUS
<1>7. /\ Folds[n + 1].train = <<start, start + job.train>>
      /\ Folds[n + 1].validation = <<start + job.train, start + job.train + job.validation>>
  BY <1>2, <1>5, <1>6
<1>8. room \in Nat /\ n \in 0..(room \div job.step)
  <2>1. ~(job.bars < need)
    BY <1>5 DEF count
  <2>2. room \in Nat
    BY <1>1, <2>1
  <2>3. n + 1 \in 1..(room \div job.step + 1)
    BY <1>5, <2>1 DEF count
  <2> HIDE DEF room
  <2>4. room \div job.step \in Int
    BY <1>1, <2>2, SMTT(30)
  <2> QED BY <2>2, <2>3, <2>4
<1>9. start \in Nat /\ start <= room
  BY <1>1, <1>8, StepsFit
<1> HIDE DEF start
<1>10. /\ WindowOk(<<start, start + job.train>>)
       /\ WindowOk(<<start + job.train, start + job.train + job.validation>>)
  <2> DEFINE t == start + job.train
             v == start + job.train + job.validation
  <2>1. /\ t \in Int /\ v \in Int /\ start \in Int
        /\ 0 <= start /\ start < t /\ t <= job.bars /\ 0 <= t /\ t < v /\ v <= job.bars
    BY <1>1, <1>9
  <2> HIDE DEF t, v
  <2>2. WindowOk(<<start, t>>) /\ WindowOk(<<t, v>>)
    BY <2>1 DEF WindowOk
  <2> QED BY <2>2 DEF t, v
<1> QED BY <1>7, <1>10 DEF start

LEMMA PartsAreWindows ==
  ASSUME job \in Jobs, SplitFits(Parts3)
  PROVE  /\ WindowOk(Parts3.train) /\ WindowOk(Parts3.validation) /\ WindowOk(Parts3.test)
         /\ Parts3.train[2] = Parts3.validation[1] /\ Parts3.validation[2] = Parts3.test[1]
<1> DEFINE x == job.bars * job.train
           y == job.bars * job.validation
           a == x \div 100
           b == a + y \div 100
<1>1. job.bars \in Nat /\ job.train \in Nat /\ job.validation \in Nat
  BY SearchAssumption
<1>2. x \in Nat /\ y \in Nat
  BY <1>1, TimesAtMost
<1>3. /\ Parts3.train = <<0, a>> /\ Parts3.validation = <<a, b>> /\ Parts3.test = <<b, job.bars>>
  BY DEF Parts3, Split
<1> HIDE DEF x, y
<1>4. a \in Nat /\ b \in Nat
  BY <1>2
<1> HIDE DEF a, b
<1>5. 0 < a /\ a < b /\ b < job.bars
  BY <1>3 DEF SplitFits
<1> QED BY <1>1, <1>3, <1>4, <1>5 DEF WindowOk

-----------------------------------------------------------------------------
(* The scores. *)

ScoreOk(sc) == sc.value \in Int /\ (sc.value > 0 => sc.rejected = "NO")

LEMMA ClampedIsPercent == ASSUME NEW p \in Int PROVE Clamped(p) \in Int
<1>1. Min({100, p}) \in Int
  BY SmallerOfTwo
<1> QED BY <1>1, LargerOfTwo DEF Clamped

LEMMA ScoresAreOk == ASSUME NEW m \in Outcomes PROVE ScoreOk(Score(m))
<1>1. CASE m = NoMetrics
  BY <1>1 DEF Score, ScoreOk
<1>2. CASE m # NoMetrics
  <2>1. /\ m.gain \in Int /\ m.drawdown \in Int /\ m.streak \in Nat
        /\ m.factor = NoMetrics \/ m.factor \in Int
    BY <1>2, SearchAssumption
  <2> DEFINE g == (m.gain * 100) \div 30
             a == Clamped(g)
             b == IF m.factor = NoMetrics THEN 100 ELSE Clamped(m.factor - 100)
             c == Clamped(100 - m.drawdown * 4)
             d == Clamped(100 - m.streak * 10)
  <2>2. a \in Int /\ b \in Int /\ c \in Int /\ d \in Int
    <3>1. g \in Int /\ 100 - m.drawdown * 4 \in Int /\ 100 - m.streak * 10 \in Int
      BY <2>1
    <3>2. m.factor # NoMetrics => m.factor - 100 \in Int
      BY <2>1
    <3> HIDE DEF g
    <3>3. a \in Int
      BY <3>1, ClampedIsPercent
    <3>4. c \in Int
      BY <3>1, ClampedIsPercent
    <3>5. d \in Int
      BY <3>1, ClampedIsPercent
    <3>6. b \in Int
      BY <3>2, ClampedIsPercent
    <3> QED BY <3>3, <3>4, <3>5, <3>6
  <2>3. CASE m.trades < MinTrades
    BY <1>2, <2>3 DEF Score, ScoreOk
  <2>4. CASE ~(m.trades < MinTrades)
    <3>1. Score(m) = [value |-> 35 * a + 25 * b + 25 * c + 15 * d, rejected |-> "NO"]
      BY <1>2, <2>4 DEF Score
    <3> HIDE DEF a, b, c, d
    <3>2. 35 * a + 25 * b + 25 * c + 15 * d \in Int
      BY <2>2
    <3> QED BY <3>1, <3>2 DEF ScoreOk
  <2> QED BY <2>3, <2>4
<1> QED BY <1>1, <1>2

-----------------------------------------------------------------------------
(* What has been looked at. *)

LooksOk(ls) ==
  /\ IsSequence(ls)
  /\ \A k \in 1..Len(ls) :
       /\ 0 <= ls[k].from /\ ls[k].from < ls[k].to /\ ls[k].to <= job.bars
       /\ ls[k].from \in Int /\ ls[k].to \in Int
  /\ \A k \in 1..Len(ls) : ls[k].who = "JUDGE" =>
       \A j \in 1..(k - 1) : ls[j].who = "SEARCH" => ls[j].to <= ls[k].from

SearchedUpTo(ls, bar) == \A k \in 1..Len(ls) : ls[k].who = "SEARCH" => ls[k].to <= bar
OnlySearched(ls) == \A k \in 1..Len(ls) : ls[k].who = "SEARCH"

LookedAlso(ls, w, who) == Append(ls, Look(w, who))

LEMMA LookingKeeps ==
  ASSUME NEW ls, LooksOk(ls), NEW w, WindowOk(w), NEW who,
         who = "JUDGE" => SearchedUpTo(ls, w[1]),
         NEW r, r = LookedAlso(ls, w, who)
  PROVE  /\ LooksOk(r) /\ Len(r) = Len(ls) + 1 /\ r[Len(r)] = Look(w, who)
         /\ \A k \in 1..Len(ls) : r[k] = ls[k]
<1> DEFINE n == Len(ls)
           l == Look(w, who)
<1>1. /\ n \in Nat /\ IsSequence(ls)
      /\ \A k \in 1..n : /\ 0 <= ls[k].from /\ ls[k].from < ls[k].to /\ ls[k].to <= job.bars
                         /\ ls[k].from \in Int /\ ls[k].to \in Int
      /\ \A k \in 1..n : ls[k].who = "JUDGE" =>
           \A j \in 1..(k - 1) : ls[j].who = "SEARCH" => ls[j].to <= ls[k].from
  BY DEF LooksOk, IsSequence
<1>2. /\ IsSequence(r) /\ Len(r) = n + 1 /\ r[n + 1] = l /\ \A k \in 1..n : r[k] = ls[k]
  BY <1>1, Appended DEF LookedAlso
<1>3. /\ l.from = w[1] /\ l.to = w[2] /\ l.who = who
  BY DEF Look
<1> HIDE DEF n, l
<1>4. \A k \in 1..(n + 1) : k = n + 1 \/ k \in 1..n
  BY <1>1
<1>5. ASSUME NEW k \in 1..(n + 1)
      PROVE  /\ 0 <= r[k].from /\ r[k].from < r[k].to /\ r[k].to <= job.bars
             /\ r[k].from \in Int /\ r[k].to \in Int
  <2>1. CASE k = n + 1
    BY <1>2, <1>3, <2>1 DEF WindowOk
  <2>2. CASE k \in 1..n
    BY <1>1, <1>2, <2>2
  <2> QED BY <1>4, <2>1, <2>2
<1>6. ASSUME NEW k \in 1..(n + 1), r[k].who = "JUDGE", NEW j \in 1..(k - 1), r[j].who = "SEARCH"
      PROVE  r[j].to <= r[k].from
  <2>1. CASE k = n + 1
    <3>1. j \in 1..n
      BY <1>1, <2>1
    <3>2. who = "JUDGE" /\ ls[j].who = "SEARCH"
      BY <1>2, <1>3, <1>6, <2>1, <3>1
    <3>3. ls[j].to <= w[1]
      BY <3>1, <3>2 DEF SearchedUpTo, n
    <3> QED BY <1>2, <1>3, <2>1, <3>1, <3>3
  <2>2. CASE k \in 1..n
    <3>1. j \in 1..n
      BY <1>1, <2>2
    <3> QED BY <1>1, <1>2, <1>6, <2>2, <3>1
  <2> QED BY <1>4, <2>1, <2>2
<1>7. LooksOk(r)
  BY <1>2, <1>5, <1>6 DEF LooksOk
<1> QED BY <1>2, <1>7 DEF n, l

LEMMA SearchingKeeps ==
  ASSUME NEW ls, LooksOk(ls), NEW w, WindowOk(w), NEW bar, w[2] <= bar, SearchedUpTo(ls, bar),
         NEW r, r = LookedAlso(ls, w, "SEARCH")
  PROVE  LooksOk(r) /\ SearchedUpTo(r, bar) /\ (OnlySearched(ls) => OnlySearched(r))
<1>1. /\ LooksOk(r) /\ Len(r) = Len(ls) + 1 /\ r[Len(r)] = Look(w, "SEARCH")
      /\ \A k \in 1..Len(ls) : r[k] = ls[k]
  <2>1. PICK who : who = "SEARCH"
    OBVIOUS
  <2>2. r = LookedAlso(ls, w, who)
    BY <2>1
  <2>3. who = "JUDGE" => SearchedUpTo(ls, w[1])
    BY <2>1
  <2>4. /\ LooksOk(r) /\ Len(r) = Len(ls) + 1 /\ r[Len(r)] = Look(w, who)
        /\ \A k \in 1..Len(ls) : r[k] = ls[k]
    BY <2>2, <2>3, LookingKeeps
  <2> QED BY <2>1, <2>4
<1>2. Len(ls) \in Nat
  BY DEF LooksOk, IsSequence
<1>3. \A k \in 1..Len(r) : k = Len(r) \/ k \in 1..Len(ls)
  BY <1>1, <1>2
<1>4. Look(w, "SEARCH").to = w[2] /\ Look(w, "SEARCH").who = "SEARCH"
  BY DEF Look
<1>5. SearchedUpTo(r, bar)
  BY <1>1, <1>3, <1>4 DEF SearchedUpTo
<1>6. OnlySearched(ls) => OnlySearched(r)
  BY <1>1, <1>3, <1>4 DEF OnlySearched
<1> QED BY <1>1, <1>5, <1>6

LEMMA JudgingKeeps ==
  ASSUME NEW ls, LooksOk(ls), NEW w, WindowOk(w), SearchedUpTo(ls, w[1]),
         NEW r, r = LookedAlso(ls, w, "JUDGE")
  PROVE  /\ LooksOk(r) /\ \A bar : SearchedUpTo(ls, bar) => SearchedUpTo(r, bar)
         /\ OnlySearched(ls) => \A k \in 1..Len(r) : r[k].who = "JUDGE" => k = Len(r)
<1>1. /\ LooksOk(r) /\ Len(r) = Len(ls) + 1 /\ r[Len(r)] = Look(w, "JUDGE")
      /\ \A k \in 1..Len(ls) : r[k] = ls[k]
  <2>1. PICK who : who = "JUDGE"
    OBVIOUS
  <2>2. r = LookedAlso(ls, w, who)
    BY <2>1
  <2>3. who = "JUDGE" => SearchedUpTo(ls, w[1])
    BY <2>1
  <2>4. /\ LooksOk(r) /\ Len(r) = Len(ls) + 1 /\ r[Len(r)] = Look(w, who)
        /\ \A k \in 1..Len(ls) : r[k] = ls[k]
    BY <2>2, <2>3, LookingKeeps
  <2> QED BY <2>1, <2>4
<1>2. Len(ls) \in Nat
  BY DEF LooksOk, IsSequence
<1>3. \A k \in 1..Len(r) : k = Len(r) \/ k \in 1..Len(ls)
  BY <1>1, <1>2
<1>4. Look(w, "JUDGE").who = "JUDGE"
  BY DEF Look
<1>5. \A bar : SearchedUpTo(ls, bar) => SearchedUpTo(r, bar)
  BY <1>1, <1>3, <1>4 DEF SearchedUpTo
<1>6. OnlySearched(ls) => \A k \in 1..Len(r) : r[k].who = "JUDGE" => k = Len(r)
  BY <1>1, <1>3 DEF OnlySearched
<1> QED BY <1>1, <1>5, <1>6

(* How far the search has looked. *)
FoldsReach == Len(folds) * job.step + job.train

LookInv ==
  /\ job \in Jobs /\ LooksOk(looked) /\ IsSequence(folds)
  /\ phase = "ASKED" => looked = <<>>
  /\ job.kind = "OPTIMIZE" =>
       /\ phase \in {"ASKED", "SEARCHING"} => OnlySearched(looked)
       /\ phase = "SEARCHING" => /\ SplitFits(Parts3)
                                 /\ SearchedUpTo(looked, Parts3.validation[2])
       /\ \A k \in 1..Len(looked) : looked[k].who = "JUDGE" => k = Len(looked)
  /\ job.kind = "WALK_FORWARD" => SearchedUpTo(looked, FoldsReach)

LEMMA LookStarts == OptimizerInit => LookInv
BY EmptySequence DEF OptimizerInit, LookInv, LooksOk, OnlySearched, SearchedUpTo

LEMMA LookSteps == LookInv /\ [OptimizerNext]_searchVars => LookInv'
<1> SUFFICES ASSUME LookInv, [OptimizerNext]_searchVars PROVE LookInv'
  OBVIOUS
<1>1. /\ job \in Jobs /\ job.kind \in {"OPTIMIZE", "WALK_FORWARD"} /\ LooksOk(looked)
      /\ IsSequence(folds) /\ Len(folds) \in Nat /\ IsSequence(looked)
  BY SearchAssumption DEF LookInv, LooksOk, IsSequence
<1>2. CASE Begin
  <2>1. UNCHANGED <<job, looked, folds>> /\ looked = <<>> /\ phase = "ASKED"
    BY <1>2 DEF Begin, LookInv
  <2>2. phase' = "SEARCHING" /\ job.kind = "OPTIMIZE" => SplitFits(Parts3)
    BY <1>2 DEF Begin
  <2>3. \A bar : SearchedUpTo(looked, bar)
    BY <2>1, EmptySequence DEF SearchedUpTo
  <2>4. phase' # "ASKED"
    BY <1>2 DEF Begin
  <2> QED BY <2>1, <2>2, <2>3, <2>4
          DEF LookInv, LooksOk, OnlySearched, SearchedUpTo, Parts3, FoldsReach
<1>3. ASSUME NEW m \in Outcomes, NEW n \in Outcomes, Try(m, n) PROVE LookInv'
  <2>1. /\ job.kind = "OPTIMIZE" /\ phase = "SEARCHING" /\ SplitFits(Parts3)
        /\ OnlySearched(looked) /\ SearchedUpTo(looked, Parts3.validation[2])
        /\ UNCHANGED <<job, phase, folds>>
    BY <1>3 DEF Try, LookInv
  <2>2. /\ WindowOk(Parts3.train) /\ WindowOk(Parts3.validation)
        /\ Parts3.train[2] = Parts3.validation[1]
    BY <1>1, <2>1, PartsAreWindows
  <2>3. PICK p : p = LookedAlso(looked, Parts3.train, "SEARCH")
    OBVIOUS
  <2>4. PICK q : q = LookedAlso(p, Parts3.validation, "SEARCH") /\ looked' = q
    BY <1>3, <2>3 DEF Try, LookedAlso
  <2>5. PICK bar : bar = Parts3.validation[2]
    OBVIOUS
  <2>6. Parts3.train[2] <= bar /\ Parts3.validation[2] <= bar
    BY <2>2, <2>5 DEF WindowOk
  <2>7. LooksOk(p) /\ SearchedUpTo(p, bar) /\ OnlySearched(p)
    BY <1>1, <2>1, <2>2, <2>3, <2>5, <2>6, SearchingKeeps
  <2>8. LooksOk(q) /\ SearchedUpTo(q, bar) /\ OnlySearched(q)
    BY <2>2, <2>4, <2>6, <2>7, SearchingKeeps
  <2> QED BY <1>1, <2>1, <2>4, <2>5, <2>8 DEF LookInv, LooksOk, OnlySearched, SearchedUpTo, Parts3
<1>4. ASSUME NEW m \in Outcomes, Choose(m) PROVE LookInv'
  <2>1. /\ job.kind = "OPTIMIZE" /\ phase = "SEARCHING" /\ SplitFits(Parts3)
        /\ OnlySearched(looked) /\ SearchedUpTo(looked, Parts3.validation[2])
        /\ UNCHANGED <<job, folds>> /\ phase' = "DONE"
    BY <1>4 DEF Choose, LookInv
  <2>2. WindowOk(Parts3.test) /\ Parts3.validation[2] = Parts3.test[1]
    BY <1>1, <2>1, PartsAreWindows
  <2>3. CASE looked' = looked
    BY <1>1, <2>1, <2>3 DEF LookInv, LooksOk, OnlySearched
  <2>4. CASE looked' = Append(looked, Look(Parts3.test, "JUDGE"))
    <3>1. PICK q : q = LookedAlso(looked, Parts3.test, "JUDGE") /\ looked' = q
      BY <2>4 DEF LookedAlso
    <3>2. /\ LooksOk(q)
          /\ \A k \in 1..Len(q) : q[k].who = "JUDGE" => k = Len(q)
      BY <1>1, <2>1, <2>2, <3>1, JudgingKeeps
    <3> QED BY <1>1, <2>1, <3>1, <3>2 DEF LookInv, LooksOk
  <2> QED BY <1>4, <2>3, <2>4 DEF Choose
<1>5. ASSUME NEW m \in Outcomes, TryInFold(m) PROVE LookInv'
  <2>1. /\ job.kind = "WALK_FORWARD" /\ phase = "SEARCHING" /\ Len(folds) < Len(Folds)
        /\ SearchedUpTo(looked, FoldsReach) /\ UNCHANGED <<job, phase, folds>>
    BY <1>5 DEF TryInFold, LookInv
  <2>2. PICK w : w = Folds[Len(folds) + 1].train
    OBVIOUS
  <2>3. WindowOk(w) /\ w[2] = FoldsReach
    BY <1>1, <2>1, <2>2, FoldsAreWindows DEF FoldsReach
  <2>4. PICK q : q = LookedAlso(looked, w, "SEARCH") /\ looked' = q
    BY <1>5, <2>2 DEF TryInFold, LookedAlso
  <2>5. w[2] <= FoldsReach
    BY <2>3 DEF WindowOk
  <2>6. LooksOk(q) /\ SearchedUpTo(q, FoldsReach)
    BY <1>1, <2>1, <2>3, <2>4, <2>5, SearchingKeeps
  <2> QED BY <1>1, <2>1, <2>4, <2>6 DEF LookInv, LooksOk, SearchedUpTo, FoldsReach
<1>6. ASSUME NEW m \in Outcomes, CloseFold(m) PROVE LookInv'
  <2>1. /\ job.kind = "WALK_FORWARD" /\ phase = "SEARCHING" /\ Len(folds) < Len(Folds)
        /\ SearchedUpTo(looked, FoldsReach) /\ UNCHANGED <<job, phase>>
    BY <1>6 DEF CloseFold, LookInv
  <2>2. PICK w : w = Folds[Len(folds) + 1].validation
    OBVIOUS
  <2>3. WindowOk(w) /\ w[1] = FoldsReach
    BY <1>1, <2>1, <2>2, FoldsAreWindows DEF FoldsReach
  <2>4. PICK q : q = LookedAlso(looked, w, "JUDGE") /\ looked' = q
    BY <1>6, <2>2 DEF CloseFold, LookedAlso
  <2>5. LooksOk(q) /\ SearchedUpTo(q, FoldsReach)
    BY <1>1, <2>1, <2>3, <2>4, JudgingKeeps
  <2>6. IsSequence(folds') /\ Len(folds') = Len(folds) + 1
    <3>1. PICK f : folds' = Append(folds, f)
      BY <1>6 DEF CloseFold
    <3> QED BY <1>1, <3>1, Appended
  <2>7. SearchedUpTo(q, FoldsReach')
    <3>1. job.step \in Nat /\ job.train \in Nat
      BY <1>1, <2>1, SearchAssumption
    <3>2. FoldsReach' = (Len(folds) + 1) * job.step + job.train
      BY <2>1, <2>6 DEF FoldsReach
    <3>3. (Len(folds) + 1) * job.step = Len(folds) * job.step + job.step
      BY <1>1, <3>1, SMTT(30)
    <3> DEFINE x == Len(folds) * job.step
    <3>4. x \in Int
      BY <1>1, <3>1
    <3>5. FoldsReach = x + job.train /\ FoldsReach' = x + job.step + job.train
      BY <3>2, <3>3 DEF FoldsReach
    <3> HIDE DEF x
    <3>6. FoldsReach \in Int /\ FoldsReach' \in Int /\ FoldsReach <= FoldsReach'
      BY <3>1, <3>4, <3>5
    <3>7. \A k \in 1..Len(q) : q[k].to \in Int
      BY <2>5 DEF LooksOk
    <3> HIDE DEF FoldsReach
    <3> QED BY <2>5, <3>6, <3>7 DEF SearchedUpTo
  <2> QED BY <1>1, <2>1, <2>4, <2>5, <2>6, <2>7 DEF LookInv, LooksOk, SearchedUpTo
<1>7. CASE Report
  BY <1>1, <1>7 DEF Report, LookInv, LooksOk, SearchedUpTo, FoldsReach
<1>8. CASE UNCHANGED searchVars
  BY <1>1, <1>8 DEF searchVars, LookInv, LooksOk, OnlySearched, SearchedUpTo, FoldsReach, Parts3
<1> QED BY <1>2, <1>3, <1>4, <1>5, <1>6, <1>7, <1>8 DEF OptimizerNext

(* Whatever is asked, a choice is judged on bars that no choice was made   *)
(* on and that come later, once for a search and once for a fold           *)
(* (optimize.py:157-233, domain/optimization.py:73-148).                   *)
THEOREM JudgesAreUnseen == OptimizerSpec => []JudgedOnUnseenBars
<1>1. LookInv => JudgedOnUnseenBars
  <2> SUFFICES ASSUME LookInv PROVE JudgedOnUnseenBars
    OBVIOUS
  <2>1. DOMAIN looked = 1..Len(looked)
    BY DEF LookInv, LooksOk, IsSequence
  <2> QED BY <2>1 DEF LookInv, LooksOk, JudgedOnUnseenBars
<1> QED BY <1>1, LookStarts, LookSteps, PTL DEF OptimizerSpec

-----------------------------------------------------------------------------
(* Who wins. *)

OnTrain(ts) == [k \in DOMAIN ts |-> ts[k].train]
OnValidation(ts) == [k \in DOMAIN ts |-> ts[k].validation]

TrialsOk(ts) ==
  /\ IsSequence(ts)
  /\ \A k \in 1..Len(ts) : /\ ScoreOk(ts[k].train)
                           /\ job.kind = "OPTIMIZE" => ScoreOk(ts[k].validation)

FoldWon(f) ==
  \E k \in DOMAIN OnTrain(f.among) :
    Leads(k, OnTrain(f.among)) /\ f.among[k].params = f.selected

WinnerInv ==
  /\ job \in Jobs /\ TrialsOk(trials) /\ IsSequence(folds)
  /\ \A k \in 1..Len(folds) : FoldWon(folds[k])
  /\ job.kind = "OPTIMIZE" /\ phase = "DONE" /\ trials # <<>> =>
       /\ chosen \in DOMAIN trials /\ Leads(chosen, OnValidation(trials))
       /\ trials[chosen].validation.value > 0 => trials[chosen].validation.rejected = "NO"

(* The winner leads the list it was chosen from. *)
LEMMA WinnerLeads ==
  ASSUME NEW ts, TrialsOk(ts), ts # <<>>
  PROVE  /\ BestFound(OnTrain(ts)) \in DOMAIN OnTrain(ts) /\ DOMAIN OnTrain(ts) = DOMAIN ts
         /\ Leads(BestFound(OnTrain(ts)), OnTrain(ts))
         /\ job.kind = "OPTIMIZE" =>
              /\ BestFound(OnValidation(ts)) \in DOMAIN ts
              /\ BestFound(OnValidation(ts)) # 0
              /\ Leads(BestFound(OnValidation(ts)), OnValidation(ts))
              /\ ScoreOk(ts[BestFound(OnValidation(ts))].validation)
<1>1. PICK n \in Nat : n = Len(ts) /\ DOMAIN ts = 1..n
  BY DEF TrialsOk, IsSequence
<1>2. n > 0
  <2> SUFFICES ASSUME n = 0 PROVE FALSE
    BY <1>1
  <2>1. ts = [k \in 1..0 |-> ts[k]]
    BY <1>1 DEF TrialsOk, IsSequence
  <2>2. ts = <<>>
    BY <2>1
  <2> QED BY <2>2
<1>3. ASSUME NEW s, s = OnTrain(ts)
      PROVE  BestFound(s) \in 1..n /\ Leads(BestFound(s), s) /\ DOMAIN s = 1..n
  <2>1. DOMAIN s = 1..n /\ Len(s) = n /\ \A k \in 1..n : s[k].value \in Int
    BY <1>1, <1>3 DEF OnTrain, TrialsOk, ScoreOk
  <2> QED BY <1>2, <2>1, BestFoundLeads
<1>4. ASSUME NEW s, s = OnValidation(ts), job.kind = "OPTIMIZE"
      PROVE  BestFound(s) \in 1..n /\ Leads(BestFound(s), s)
  <2>1. DOMAIN s = 1..n /\ Len(s) = n /\ \A k \in 1..n : s[k].value \in Int
    BY <1>1, <1>4 DEF OnValidation, TrialsOk, ScoreOk
  <2> QED BY <1>2, <2>1, BestFoundLeads
<1> QED BY <1>1, <1>3, <1>4 DEF TrialsOk

LEMMA WinnerStarts == OptimizerInit => WinnerInv
BY EmptySequence DEF OptimizerInit, WinnerInv, TrialsOk

LEMMA WinnerSteps == WinnerInv /\ [OptimizerNext]_searchVars => WinnerInv'
<1> SUFFICES ASSUME WinnerInv, [OptimizerNext]_searchVars PROVE WinnerInv'
  OBVIOUS
<1>1. /\ job \in Jobs /\ TrialsOk(trials) /\ IsSequence(folds)
      /\ IsSequence(trials) /\ DOMAIN trials = 1..Len(trials) /\ Len(trials) \in Nat
      /\ DOMAIN folds = 1..Len(folds) /\ Len(folds) \in Nat
      /\ \A k \in 1..Len(folds) : FoldWon(folds[k])
  BY DEF WinnerInv, TrialsOk, IsSequence
<1>2. CASE Begin
  BY <1>2 DEF Begin, WinnerInv, TrialsOk
<1>3. ASSUME NEW m \in Outcomes, NEW n \in Outcomes, Try(m, n) PROVE WinnerInv'
  <2>1. PICK t : /\ trials' = Append(trials, t)
                 /\ t.train = Score(m) /\ t.validation = Score(n)
    BY <1>3 DEF Try
  <2>2. ScoreOk(t.train) /\ ScoreOk(t.validation)
    BY <2>1, ScoresAreOk
  <2>3. UNCHANGED <<job, phase, folds>> /\ phase # "DONE"
    BY <1>3 DEF Try
  <2>4. TrialsOk(trials)'
    <3>1. /\ IsSequence(trials') /\ Len(trials') = Len(trials) + 1
          /\ trials'[Len(trials) + 1] = t /\ \A k \in 1..Len(trials) : trials'[k] = trials[k]
      BY <1>1, <2>1, Appended
    <3>2. \A k \in 1..(Len(trials) + 1) : k = Len(trials) + 1 \/ k \in 1..Len(trials)
      BY <1>1
    <3>3. ASSUME NEW k \in 1..(Len(trials) + 1)
          PROVE  /\ ScoreOk(trials'[k].train)
                 /\ job.kind = "OPTIMIZE" => ScoreOk(trials'[k].validation)
      BY <1>1, <2>2, <3>1, <3>2 DEF TrialsOk
    <3> QED BY <2>3, <3>1, <3>3 DEF TrialsOk
  <2> QED BY <1>1, <2>3, <2>4 DEF WinnerInv
<1>4. ASSUME NEW m \in Outcomes, Choose(m) PROVE WinnerInv'
  <2>1. /\ UNCHANGED <<job, trials, folds>> /\ job.kind = "OPTIMIZE"
        /\ chosen' = BestFound(OnValidation(trials))
    BY <1>4 DEF Choose, OnValidation
  <2>2. ASSUME trials # <<>>
        PROVE  /\ chosen' \in DOMAIN trials /\ Leads(chosen', OnValidation(trials))
               /\ ScoreOk(trials[chosen'].validation)
    BY <1>1, <2>1, <2>2, WinnerLeads
  <2> QED BY <1>1, <2>1, <2>2 DEF WinnerInv, TrialsOk, ScoreOk
<1>5. ASSUME NEW m \in Outcomes, TryInFold(m) PROVE WinnerInv'
  <2>1. PICK t : trials' = Append(trials, t) /\ t.train = Score(m)
    BY <1>5 DEF TryInFold
  <2>2. ScoreOk(t.train)
    BY <2>1, ScoresAreOk
  <2>3. UNCHANGED <<job, phase, folds>> /\ phase # "DONE" /\ job.kind # "OPTIMIZE"
    BY <1>5 DEF TryInFold
  <2>4. TrialsOk(trials)'
    <3>1. /\ IsSequence(trials') /\ Len(trials') = Len(trials) + 1
          /\ trials'[Len(trials) + 1] = t /\ \A k \in 1..Len(trials) : trials'[k] = trials[k]
      BY <1>1, <2>1, Appended
    <3>2. \A k \in 1..(Len(trials) + 1) : k = Len(trials) + 1 \/ k \in 1..Len(trials)
      BY <1>1
    <3>3. ASSUME NEW k \in 1..(Len(trials) + 1) PROVE ScoreOk(trials'[k].train)
      BY <1>1, <2>2, <3>1, <3>2 DEF TrialsOk
    <3> QED BY <2>3, <3>1, <3>3 DEF TrialsOk
  <2> QED BY <1>1, <2>3, <2>4 DEF WinnerInv
<1>6. ASSUME NEW m \in Outcomes, CloseFold(m) PROVE WinnerInv'
  <2>1. /\ trials # <<>> /\ trials' = <<>> /\ UNCHANGED <<job, phase>>
    BY <1>6 DEF CloseFold
  <2>2. PICK w : w = BestFound(OnTrain(trials))
    OBVIOUS
  <2>3. PICK f : /\ folds' = Append(folds, f)
                 /\ f.among = trials /\ f.selected = trials[w].params
    <3> DEFINE g == [selected |-> trials[w].params, train |-> trials[w].train,
                     validation |-> Score(m), evaluated |-> w, among |-> trials]
    <3>1. w = BestFound([k \in DOMAIN trials |-> trials[k].train])
      BY <2>2 DEF OnTrain
    <3>2. folds' = Append(folds, g)
      BY <1>6, <3>1 DEF CloseFold
    <3>3. g.among = trials /\ g.selected = trials[w].params
      OBVIOUS
    <3> HIDE DEF g
    <3> QED BY <3>2, <3>3
  <2>4. w \in DOMAIN OnTrain(trials) /\ Leads(w, OnTrain(trials))
    BY <1>1, <2>1, <2>2, WinnerLeads
  <2>5. FoldWon(f)
    BY <2>3, <2>4 DEF FoldWon
  <2>6. /\ IsSequence(folds') /\ Len(folds') = Len(folds) + 1
        /\ folds'[Len(folds) + 1] = f /\ \A k \in 1..Len(folds) : folds'[k] = folds[k]
    BY <1>1, <2>3, Appended
  <2>7. \A k \in 1..(Len(folds) + 1) : k = Len(folds) + 1 \/ k \in 1..Len(folds)
    BY <1>1
  <2>8. \A k \in 1..Len(folds') : FoldWon(folds'[k])
    BY <1>1, <2>5, <2>6, <2>7
  <2>9. TrialsOk(trials)'
    BY <2>1, EmptySequence DEF TrialsOk
  <2> QED BY <1>1, <2>1, <2>6, <2>8, <2>9 DEF WinnerInv
<1>7. CASE Report
  BY <1>1, <1>7 DEF Report, WinnerInv, TrialsOk
<1>8. CASE UNCHANGED searchVars
  BY <1>1, <1>8 DEF searchVars, WinnerInv, TrialsOk
<1> QED BY <1>2, <1>3, <1>4, <1>5, <1>6, <1>7, <1>8 DEF OptimizerNext

(* Whatever the backtests give, the report names the first of the best of  *)
(* what it tried, for the search and for every fold, and no candidate with *)
(* too few trades behind a better score (optimize.py:455-462, 523-539).    *)
THEOREM TheFirstOfTheBestWins == OptimizerSpec => []WinnerIsTheFirstOfTheBest
<1>1. WinnerInv => WinnerIsTheFirstOfTheBest
  <2> SUFFICES ASSUME WinnerInv PROVE WinnerIsTheFirstOfTheBest
    OBVIOUS
  <2>1. ASSUME NEW f \in ToSet(folds) PROVE FoldWon(f)
    <3>1. PICK k \in DOMAIN folds : f = folds[k]
      BY DEF ToSet
    <3> QED BY <3>1 DEF WinnerInv, IsSequence
  <2>2. \A f \in ToSet(folds) :
          LET scores == [k \in DOMAIN f.among |-> f.among[k].train]
          IN \E k \in DOMAIN scores : Leads(k, scores) /\ f.among[k].params = f.selected
    BY <2>1 DEF FoldWon, OnTrain
  <2> QED BY <2>2 DEF WinnerInv, WinnerIsTheFirstOfTheBest, OnValidation
<1> QED BY <1>1, WinnerStarts, WinnerSteps, PTL DEF OptimizerSpec

-----------------------------------------------------------------------------
(* The budget of a call. *)

(* What n whole attempts and the backoffs after them may take.             *)
Allowed(n) == n * (RequestTimeout + MaxBackoff)

LEMMA AllowedGrows ==
  ASSUME NEW n \in Nat
  PROVE  /\ Allowed(n) \in Nat
         /\ Allowed(n + 1) = Allowed(n) + RequestTimeout + MaxBackoff
         /\ n <= MaxRetries => Allowed(n) <= Allowed(MaxRetries)
<1> DEFINE d == RequestTimeout + MaxBackoff
<1>1. d \in Nat /\ MaxRetries \in Nat /\ RequestTimeout \in Nat /\ MaxBackoff \in Nat
  BY FeedAssumption
<1>2. Allowed(n) = n * d /\ Allowed(n + 1) = (n + 1) * d /\ Allowed(MaxRetries) = MaxRetries * d
  BY DEF Allowed
<1> HIDE DEF d
<1>3. n * d = d * n /\ (n + 1) * d = n * d + d /\ MaxRetries * d = d * MaxRetries
  BY <1>1, SMTT(30)
<1>4. n * d \in Nat /\ (n <= MaxRetries => d * n <= d * MaxRetries)
  BY <1>1, <1>3, TimesAtMost
<1> DEFINE p == n * d
           q == (n + 1) * d
<1>5. p \in Nat /\ q = p + d /\ Allowed(n) = p /\ Allowed(n + 1) = q
      /\ (n <= MaxRetries => p <= Allowed(MaxRetries))
  BY <1>2, <1>3, <1>4
<1> HIDE DEF p, q
<1> QED BY <1>1, <1>5 DEF d

LEMMA BudgetCovers ==
  /\ Budget(MaxRetries) \in Nat
  /\ Budget(MaxRetries) = Allowed(MaxRetries) + RequestTimeout + 1
<1>1. MaxRetries \in Nat /\ RequestTimeout \in Nat /\ MaxBackoff \in Nat
  BY FeedAssumption
<1> DEFINE a == RequestTimeout * (MaxRetries + 1)
           b == MaxBackoff * MaxRetries
           c == Allowed(MaxRetries)
<1>2. a + b = c + RequestTimeout /\ a \in Int /\ b \in Int
  BY <1>1, SMTT(30) DEF Allowed
<1>3. c \in Nat
  BY <1>1, AllowedGrows
<1>4. Budget(MaxRetries) = a + b + 1
  BY DEF Budget
<1> HIDE DEF a, b, c
<1>5. a + b + 1 = c + RequestTimeout + 1 /\ c + RequestTimeout + 1 \in Nat
  BY <1>1, <1>2, <1>3
<1> QED BY <1>4, <1>5 DEF c

LEMMA DelaysAreCapped ==
  ASSUME NEW attempt, NEW after \in RetryAfters, NEW delay \in Delays(attempt, after)
  PROVE  delay \in 0..MaxBackoff
<1>1. MaxBackoff \in Nat
  BY FeedAssumption
<1>2. CASE after = None
  BY <1>2 DEF Delays
<1>3. CASE after # None
  <2>1. after \in Nat
    BY <1>3, FeedAssumption
  <2>2. Min({after, MaxBackoff}) = IF after <= MaxBackoff THEN after ELSE MaxBackoff
    BY <1>1, <2>1, SmallerOfTwo
  <2>3. delay = Min({after, MaxBackoff})
    BY <1>3 DEF Delays
  <2> QED BY <1>1, <2>1, <2>2, <2>3
<1> QED BY <1>2, <1>3

-----------------------------------------------------------------------------
(* A call in time. *)

CallFields == {"stage", "key", "attempt", "began", "sent", "wake", "slow", "event", "asked"}

(* Past its deadline a call has been cut, and before it only a slow        *)
(* attempt can have brought the deadline near.                             *)
CallOk(c, at) ==
  /\ DOMAIN c = CallFields
  /\ c.attempt \in Nat /\ c.began \in Int /\ c.sent \in Int /\ c.wake \in Int
  /\ c.attempt <= MaxRetries
  /\ c.stage \in {"FLYING", "SLEEPING"} => /\ c.began <= at
                                           /\ at - c.began <= Budget(MaxRetries)
  /\ c.stage = "FLYING" => c.slow \/ c.sent - c.began <= Allowed(c.attempt)
  /\ c.stage = "SLEEPING" => /\ c.attempt < MaxRetries /\ at <= c.wake
                             /\ c.slow \/ c.wake - c.began <= Allowed(c.attempt + 1)
  /\ c.stage = "CUT" => c.slow

CallsInv ==
  /\ now \in Nat
  /\ calls = [r \in Readers |-> calls[r]]
  /\ \A r \in Readers : CallOk(calls[r], now)

LEMMA CallsStart == FeedInit => CallsInv
<1> SUFFICES ASSUME FeedInit PROVE CallsInv
  OBVIOUS
<1>1. CallOk(Idle, 0)
  BY FeedAssumption DEF CallOk, Idle, CallFields
<1> QED BY <1>1 DEF FeedInit, CallsInv

(* One reader's call changes and the rest stay. *)
LEMMA OneCallChanges ==
  ASSUME CallsInv, NEW r \in Readers, NEW c, CallOk(c, now), now' = now,
         calls' = [calls EXCEPT ![r] = c]
  PROVE  CallsInv'
<1>1. \A q \in Readers : calls'[q] = IF q = r THEN c ELSE calls[q]
  BY DEF CallsInv
<1>2. \A q \in Readers : CallOk(calls'[q], now)
  BY <1>1 DEF CallsInv
<1>3. calls' = [q \in Readers |-> calls'[q]]
  BY DEF CallsInv
<1> HIDE DEF CallOk
<1> QED BY <1>2, <1>3 DEF CallsInv

LEMMA HandedIsOk ==
  ASSUME NEW c, CallOk(c, now), NEW event, NEW asked, NEW d, d = Handed(c, event, asked)
  PROVE  CallOk(d, now)
<1>1. /\ DOMAIN d = DOMAIN c /\ d.stage \in {"STALE", "OK"}
      /\ d.attempt = c.attempt /\ d.began = c.began /\ d.sent = c.sent
      /\ d.wake = c.wake /\ d.slow = c.slow
  BY DEF Handed, CallOk, CallFields
<1> QED BY <1>1 DEF CallOk

LEMMA FinishedIsOk ==
  ASSUME CallsInv, NEW r \in Readers, calls[r].stage = "FLYING", NEW d, d = Finished(r)
  PROVE  /\ CallOk(d, now)
         /\ DOMAIN d = CallFields /\ d.stage = "FLYING"
         /\ d.attempt = calls[r].attempt /\ d.began = calls[r].began /\ d.key = calls[r].key
         /\ d.slow \/ now - d.began <= Allowed(d.attempt) + RequestTimeout
<1> DEFINE c == calls[r]
<1>1. CallOk(c, now) /\ now \in Nat
  BY DEF CallsInv
<1>2. /\ DOMAIN d = CallFields /\ d.stage = "FLYING" /\ d.attempt = c.attempt
      /\ d.began = c.began /\ d.sent = c.sent /\ d.wake = c.wake /\ d.key = c.key
      /\ d.slow = (c.slow \/ now - c.sent > RequestTimeout)
  BY <1>1 DEF Finished, CallOk, CallFields
<1> HIDE DEF c
<1>3. CallOk(d, now)
  BY <1>1, <1>2 DEF CallOk, c
<1>4. c.slow \/ c.sent - c.began <= Allowed(c.attempt)
  BY <1>1 DEF CallOk, c
<1>5. RequestTimeout \in Nat /\ Allowed(c.attempt) \in Nat /\ c.sent \in Int /\ c.began \in Int
  BY <1>1, FeedAssumption, AllowedGrows DEF CallOk
<1>6. d.slow \/ now - d.began <= Allowed(d.attempt) + RequestTimeout
  <2> SUFFICES ASSUME ~d.slow PROVE now - c.began <= Allowed(c.attempt) + RequestTimeout
    BY <1>2
  <2>1. ~c.slow /\ ~(now - c.sent > RequestTimeout)
    BY <1>2
  <2>2. c.sent - c.began <= Allowed(c.attempt)
    BY <1>4, <2>1
  <2>3. now - c.sent <= RequestTimeout
    BY <1>1, <1>5, <2>1
  <2> QED BY <1>1, <1>5, <2>2, <2>3
<1> QED BY <1>2, <1>3, <1>6 DEF c

LEMMA CallsSteps == CallsInv /\ [FeedNext]_feedVars => CallsInv'
<1> SUFFICES ASSUME CallsInv, [FeedNext]_feedVars PROVE CallsInv'
  OBVIOUS
<1>1. /\ now \in Nat /\ \A r \in Readers : CallOk(calls[r], now)
      /\ MaxRetries \in Nat /\ MaxBackoff \in Nat /\ RequestTimeout \in Nat
      /\ Budget(MaxRetries) \in Nat
      /\ Budget(MaxRetries) = Allowed(MaxRetries) + RequestTimeout + 1
  BY FeedAssumption, BudgetCovers DEF CallsInv
<1>2. ASSUME NEW r \in Readers, NEW key \in Keys, Read(r, key) PROVE CallsInv'
  <2> DEFINE asking == [Idle EXCEPT !.stage = "FLYING", !.key = key, !.began = now, !.sent = now]
  <2>1. CallOk(asking, now)
    <3>1. /\ DOMAIN asking = CallFields /\ asking.stage = "FLYING" /\ asking.attempt = 0
          /\ asking.began = now /\ asking.sent = now /\ asking.wake = 0
      BY DEF Idle, CallFields
    <3>2. Allowed(0) \in Nat /\ now - now = 0
      BY <1>1, AllowedGrows
    <3> HIDE DEF asking
    <3> QED BY <1>1, <3>1, <3>2 DEF CallOk
  <2>2. PICK c : now' = now /\ calls' = [calls EXCEPT ![r] = c]
                 /\ (c = asking \/ \E event, asked : c = Handed(asking, event, asked))
    <3> DEFINE e == entries[PlaceOf(entries, key)]
    <3>1. CASE Holds(entries, key) /\ e.expires > now
      <4>1. now' = now /\ calls' = [calls EXCEPT ![r] = Handed(asking, e.event, e.asked)]
        BY <1>2, <3>1 DEF Read
      <4> HIDE DEF e, asking
      <4> QED BY <4>1
    <3>2. CASE ~(Holds(entries, key) /\ e.expires > now)
      <4>1. now' = now /\ calls' = [calls EXCEPT ![r] = asking]
        BY <1>2, <3>2 DEF Read
      <4> HIDE DEF e, asking
      <4> QED BY <4>1
    <3> QED BY <3>1, <3>2
  <2> HIDE DEF asking
  <2>3. CallOk(c, now)
    BY <2>1, <2>2, HandedIsOk
  <2> QED BY <2>2, <2>3, OneCallChanges
<1>3. ASSUME NEW r \in Readers, NEW lag \in Lags, Answered(r, lag) PROVE CallsInv'
  <2>1. calls[r].stage = "FLYING" /\ now' = now
    BY <1>3 DEF Answered
  <2>2. PICK d : d = Finished(r)
    OBVIOUS
  <2>3. PICK event, asked : calls' = [calls EXCEPT ![r] = Handed(d, event, asked)]
    BY <1>3, <2>2 DEF Answered
  <2>4. PICK c : c = Handed(d, event, asked)
    OBVIOUS
  <2>5. CallOk(d, now)
    BY <2>1, <2>2, FinishedIsOk
  <2>6. CallOk(c, now)
    BY <2>4, <2>5, HandedIsOk
  <2> QED BY <2>1, <2>3, <2>4, <2>6, OneCallChanges
<1>4. ASSUME NEW r \in Readers, NEW after \in RetryAfters, Faulted(r, after) PROVE CallsInv'
  <2>1. calls[r].stage = "FLYING" /\ now' = now
    BY <1>4 DEF Faulted
  <2>2. PICK d : d = Finished(r)
    OBVIOUS
  <2>3. /\ CallOk(d, now) /\ DOMAIN d = CallFields /\ d.stage = "FLYING"
        /\ d.attempt = calls[r].attempt
        /\ d.slow \/ now - d.began <= Allowed(d.attempt) + RequestTimeout
    BY <2>1, <2>2, FinishedIsOk
  <2>4. CASE d.attempt = MaxRetries
    <3>1. PICK c : c = [d EXCEPT !.stage = "FAILED"]
      OBVIOUS
    <3>2. calls' = [calls EXCEPT ![r] = c]
      BY <1>4, <2>2, <2>3, <2>4, <3>1 DEF Faulted
    <3>3. CallOk(c, now)
      BY <2>3, <3>1 DEF CallOk, CallFields
    <3> QED BY <2>1, <3>2, <3>3, OneCallChanges
  <2>5. CASE d.attempt # MaxRetries
    <3>1. PICK delay \in Delays(calls[r].attempt, after) :
            calls' = [calls EXCEPT ![r] = [d EXCEPT !.stage = "SLEEPING", !.wake = now + delay]]
      BY <1>4, <2>2, <2>3, <2>5 DEF Faulted
    <3>2. delay \in 0..MaxBackoff
      BY DelaysAreCapped
    <3>3. PICK c : c = [d EXCEPT !.stage = "SLEEPING", !.wake = now + delay]
      OBVIOUS
    <3>4. /\ DOMAIN c = CallFields /\ c.stage = "SLEEPING" /\ c.wake = now + delay
          /\ c.attempt = d.attempt /\ c.began = d.began /\ c.sent = d.sent /\ c.slow = d.slow
      BY <2>3, <3>3 DEF CallFields
    <3>5. /\ d.attempt \in Nat /\ d.began \in Int /\ d.attempt < MaxRetries
          /\ Allowed(d.attempt) \in Nat
          /\ Allowed(d.attempt + 1) = Allowed(d.attempt) + RequestTimeout + MaxBackoff
      <4>1. d.attempt \in Nat /\ d.began \in Int /\ d.attempt < MaxRetries
        BY <1>1, <2>3, <2>5 DEF CallOk
      <4> QED BY <4>1, AllowedGrows
    <3>6. d.slow \/ (now + delay) - d.began <= Allowed(d.attempt + 1)
      BY <1>1, <2>3, <3>2, <3>5
    <3>7. CallOk(c, now)
      <4>1. /\ d.began \in Int /\ d.sent \in Int /\ d.attempt <= MaxRetries
            /\ d.began <= now /\ now - d.began <= Budget(MaxRetries)
        BY <2>3 DEF CallOk
      <4>2. c.wake \in Int /\ now <= c.wake
        BY <1>1, <3>2, <3>4
      <4>3. c.slow \/ c.wake - c.began <= Allowed(c.attempt + 1)
        BY <3>4, <3>6
      <4> QED BY <3>4, <3>5, <4>1, <4>2, <4>3 DEF CallOk
    <3> QED BY <2>1, <3>1, <3>3, <3>7, OneCallChanges
  <2> QED BY <2>4, <2>5
<1>5. ASSUME NEW r \in Readers, Refused(r) PROVE CallsInv'
  <2>1. calls[r].stage = "FLYING" /\ now' = now
    BY <1>5 DEF Refused
  <2>2. PICK d : d = Finished(r)
    OBVIOUS
  <2>3. CallOk(d, now) /\ DOMAIN d = CallFields
    BY <2>1, <2>2, FinishedIsOk
  <2>4. PICK c : c = [d EXCEPT !.stage = "FAILED"] /\ calls' = [calls EXCEPT ![r] = c]
    BY <1>5, <2>2 DEF Refused
  <2>5. CallOk(c, now)
    BY <2>3, <2>4 DEF CallOk, CallFields
  <2> QED BY <2>1, <2>4, <2>5, OneCallChanges
<1>6. ASSUME NEW r \in Readers, Resumed(r) PROVE CallsInv'
  <2>1. PICK c : c = [calls[r] EXCEPT !.stage = "FLYING", !.attempt = @ + 1, !.sent = now]
    OBVIOUS
  <2>2. /\ calls[r].stage = "SLEEPING" /\ calls[r].wake <= now /\ now' = now
        /\ CallOk(calls[r], now)
    BY <1>1, <1>6 DEF Resumed
  <2>3. calls' = [calls EXCEPT ![r] = c]
    BY <1>6, <2>1 DEF Resumed, CallsInv
  <2>4. /\ DOMAIN c = CallFields /\ c.stage = "FLYING" /\ c.attempt = calls[r].attempt + 1
        /\ c.sent = now /\ c.began = calls[r].began /\ c.wake = calls[r].wake
        /\ c.slow = calls[r].slow
    BY <2>1, <2>2 DEF CallOk, CallFields
  <2>5. calls[r].wake = now
    BY <1>1, <2>2 DEF CallOk
  <2>6. CallOk(c, now)
    BY <1>1, <2>2, <2>4, <2>5 DEF CallOk
  <2> QED BY <2>2, <2>3, <2>6, OneCallChanges
<1>7. ASSUME NEW r \in Readers, Cut(r) PROVE CallsInv'
  <2>1. /\ calls[r].stage \in {"FLYING", "SLEEPING"} /\ now' = now
        /\ now - calls[r].began >= Budget(MaxRetries) /\ CallOk(calls[r], now)
    BY <1>1, <1>7 DEF Cut
  <2>2. CASE calls[r].stage = "FLYING"
    <3>1. PICK d : d = Finished(r)
      OBVIOUS
    <3>2. PICK c : c = [d EXCEPT !.stage = "CUT"] /\ calls' = [calls EXCEPT ![r] = c]
      BY <1>7, <2>2, <3>1 DEF Cut
    <3>3. /\ CallOk(d, now) /\ DOMAIN d = CallFields /\ d.began = calls[r].began
          /\ d.slow \/ now - d.began <= Allowed(d.attempt) + RequestTimeout
      BY <2>2, <3>1, FinishedIsOk
    <3>4. /\ d.attempt \in Nat /\ d.attempt <= MaxRetries /\ d.began \in Int
          /\ Allowed(d.attempt) \in Nat /\ Allowed(MaxRetries) \in Nat
          /\ Allowed(d.attempt) <= Allowed(MaxRetries)
      BY <1>1, <3>3, AllowedGrows DEF CallOk
    <3>5. d.slow
      BY <1>1, <2>1, <3>3, <3>4
    <3>6. CallOk(c, now)
      BY <3>2, <3>3, <3>5 DEF CallOk, CallFields
    <3> QED BY <2>1, <3>2, <3>6, OneCallChanges
  <2>3. CASE calls[r].stage = "SLEEPING"
    <3>1. PICK d : d = calls[r]
      OBVIOUS
    <3>2. PICK c : c = [d EXCEPT !.stage = "CUT"]
      OBVIOUS
    <3>3. calls' = [calls EXCEPT ![r] = c]
      BY <1>7, <2>3, <3>1, <3>2 DEF Cut, CallsInv
    <3>4. /\ d.attempt \in Nat /\ d.attempt < MaxRetries /\ now <= d.wake
          /\ d.wake \in Int /\ d.began \in Int /\ CallOk(d, now) /\ DOMAIN d = CallFields
          /\ d.slow \/ d.wake - d.began <= Allowed(d.attempt + 1)
      BY <2>1, <2>3, <3>1 DEF CallOk
    <3>5. /\ Allowed(d.attempt + 1) \in Nat /\ Allowed(MaxRetries) \in Nat
          /\ Allowed(d.attempt + 1) <= Allowed(MaxRetries)
      <4>1. d.attempt + 1 \in Nat /\ d.attempt + 1 <= MaxRetries
        BY <1>1, <3>4
      <4> QED BY <1>1, <4>1, AllowedGrows
    <3>6. d.slow
      BY <1>1, <2>1, <3>1, <3>4, <3>5
    <3>7. CallOk(c, now)
      BY <3>2, <3>4, <3>6 DEF CallOk, CallFields
    <3> QED BY <2>1, <3>3, <3>7, OneCallChanges
  <2> QED BY <2>1, <2>2, <2>3
<1>8. CASE FeedTick
  <2>1. now' = now + 1 /\ calls' = calls /\ ~\E r \in Readers : Due(r)
    BY <1>8 DEF FeedTick
  <2>2. ASSUME NEW r \in Readers PROVE CallOk(calls[r], now + 1)
    <3>1. ~Due(r) /\ CallOk(calls[r], now)
      BY <1>1, <2>1
    <3>2. calls[r].stage = "SLEEPING" => now + 1 <= calls[r].wake
      BY <1>1, <3>1 DEF Due, CallOk
    <3>3. calls[r].stage \in {"FLYING", "SLEEPING"} =>
            /\ calls[r].began <= now + 1
            /\ (now + 1) - calls[r].began <= Budget(MaxRetries)
      BY <1>1, <3>1 DEF Due, CallOk
    <3> QED BY <3>1, <3>2, <3>3 DEF CallOk
  <2> QED BY <1>1, <2>1, <2>2 DEF CallsInv
<1>9. CASE UNCHANGED feedVars
  BY <1>9 DEF feedVars, CallsInv
<1> QED BY <1>2, <1>3, <1>4, <1>5, <1>6, <1>7, <1>8, <1>9 DEF FeedNext

(* For every retry policy, a call that is cut had an attempt that lasted   *)
(* longer than the request timeout: the total budget takes away nothing    *)
(* the policy grants (http.py:65-71).                                      *)
THEOREM TheBudgetCoversThePolicy == FeedSpec => []OnlySlownessIsCut
<1>1. CallsInv => OnlySlownessIsCut
  BY DEF CallsInv, CallOk, OnlySlownessIsCut
<1> QED BY <1>1, CallsStart, CallsSteps, PTL DEF FeedSpec

-----------------------------------------------------------------------------
(* The cache. *)

EntryOk(e) ==
  e.expires \in Int /\ e.asked \in Int /\ e.expires - e.asked <= Ttl + Budget(MaxRetries)

EntriesOk(q) ==
  /\ IsSequence(q)
  /\ \A k \in 1..Len(q) : EntryOk(q[k])
  /\ \A j, k \in 1..Len(q) : q[j].key = q[k].key => j = k

LEMMA WithoutIsOk ==
  ASSUME NEW q, EntriesOk(q), NEW key, NEW r, r = Without(q, key)
  PROVE  /\ EntriesOk(r) /\ \A k \in 1..Len(r) : r[k].key # key
         /\ Len(r) <= Len(q)
         /\ Holds(q, key) => Len(r) + 1 = Len(q) /\ EntryOk(q[PlaceOf(q, key)])
                                                 /\ q[PlaceOf(q, key)].key = key
<1>1. /\ IsSequence(q) /\ Len(q) \in Nat /\ DOMAIN q = 1..Len(q)
      /\ \A k \in 1..Len(q) : EntryOk(q[k])
      /\ \A j, k \in 1..Len(q) : q[j].key = q[k].key => j = k
  BY DEF EntriesOk, IsSequence
<1>2. CASE ~Holds(q, key)
  <2>1. r = q
    BY <1>2 DEF Without
  <2>2. \A k \in 1..Len(q) : q[k].key # key
    BY <1>1, <1>2 DEF Holds
  <2>3. Len(r) <= Len(q)
    BY <1>1, <2>1
  <2> QED BY <1>2, <2>1, <2>2, <2>3
<1>3. CASE Holds(q, key)
  <2>1. PICK i \in 1..Len(q) : i = PlaceOf(q, key) /\ q[i].key = key
    BY <1>1, <1>3 DEF Holds, PlaceOf
  <2>2. r = RemoveAt(q, i)
    BY <1>3, <2>1 DEF Without
  <2> DEFINE n == Len(q) - 1
             From(k) == IF k < i THEN k ELSE k + 1
  <2>3. /\ IsSequence(r) /\ Len(r) = n
        /\ \A k \in 1..n : r[k] = IF k < i THEN q[k] ELSE q[k + 1]
    <3>1. /\ IsSequence(RemoveAt(q, i)) /\ Len(RemoveAt(q, i)) = Len(q) - 1
          /\ \A k \in 1..(Len(q) - 1) : RemoveAt(q, i)[k] = IF k < i THEN q[k] ELSE q[k + 1]
      BY <1>1, Removed
    <3> QED BY <2>2, <3>1
  <2>4. \A k \in 1..n : From(k) \in 1..Len(q) /\ From(k) # i /\ r[k] = q[From(k)]
    BY <1>1, <2>3
  <2>5. \A j, k \in 1..n : From(j) = From(k) => j = k
    BY <1>1
  <2>6. n \in Int /\ n + 1 = Len(q) /\ n <= Len(q)
    BY <1>1
  <2> HIDE DEF From, n
  <2>7. EntriesOk(r) /\ \A k \in 1..n : r[k].key # key
    BY <1>1, <2>1, <2>3, <2>4, <2>5 DEF EntriesOk
  <2> QED BY <1>1, <2>1, <2>3, <2>6, <2>7
<1> QED BY <1>2, <1>3

LEMMA EntryAdded ==
  ASSUME NEW q, EntriesOk(q), NEW e, EntryOk(e), \A k \in 1..Len(q) : q[k].key # e.key,
         NEW r, r = Append(q, e)
  PROVE  EntriesOk(r) /\ Len(r) = Len(q) + 1 /\ Len(q) \in Nat
<1>1. IsSequence(q) /\ Len(q) \in Nat
  BY DEF EntriesOk, IsSequence
<1>2. /\ IsSequence(r) /\ Len(r) = Len(q) + 1 /\ r[Len(q) + 1] = e
      /\ \A k \in 1..Len(q) : r[k] = q[k]
  BY <1>1, Appended
<1>3. \A k \in 1..(Len(q) + 1) : k = Len(q) + 1 \/ k \in 1..Len(q)
  BY <1>1
<1>4. \A k \in 1..(Len(q) + 1) : EntryOk(r[k])
  BY <1>2, <1>3 DEF EntriesOk
<1>5. ASSUME NEW j \in 1..(Len(q) + 1), NEW k \in 1..(Len(q) + 1), r[j].key = r[k].key
      PROVE  j = k
  BY <1>2, <1>3, <1>5 DEF EntriesOk
<1> QED BY <1>1, <1>2, <1>4, <1>5 DEF EntriesOk

LEMMA StoredIsOk ==
  ASSUME NEW q, EntriesOk(q), NEW e, EntryOk(e), NEW r, r = Stored(q, e)
  PROVE  EntriesOk(r) /\ Len(r) <= MaxEntries
<1>1. PICK p : p = Without(q, e.key)
  OBVIOUS
<1>2. EntriesOk(p) /\ \A k \in 1..Len(p) : p[k].key # e.key
  BY <1>1, WithoutIsOk
<1>3. PICK all : all = Append(p, e)
  OBVIOUS
<1>4. EntriesOk(all) /\ Len(all) = Len(p) + 1 /\ Len(p) \in Nat
  BY <1>2, <1>3, EntryAdded
<1> DEFINE n == Len(all)
           x == n - MaxEntries + 1
           m == Max({1, x})
<1>5. MaxEntries \in Nat \ {0} /\ n \in Nat \ {0} /\ x \in Int
  BY <1>4, FeedAssumption
<1>6. r = SubSeq(all, m, n)
  BY <1>1, <1>3 DEF Stored
<1>7. m = IF 1 >= x THEN 1 ELSE x
  BY <1>5, LargerOfTwo
<1> HIDE DEF m
<1>8. m \in 1..(n + 1) /\ n \in (m - 1)..n /\ n - m + 1 <= MaxEntries /\ n - m + 1 \in Nat
  BY <1>5, <1>7
<1> HIDE DEF n
<1>9. /\ IsSequence(r) /\ Len(r) = n - m + 1
      /\ \A k \in 1..(n - m + 1) : r[k] = all[m + k - 1]
  BY <1>4, <1>6, <1>8, PartOf DEF EntriesOk, n
<1>10. \A k \in 1..(n - m + 1) : m + k - 1 \in 1..n
  BY <1>5, <1>8
<1>11. \A j, k \in 1..(n - m + 1) : m + j - 1 = m + k - 1 => j = k
  BY <1>8
<1>12. /\ \A k \in 1..n : EntryOk(all[k])
       /\ \A j, k \in 1..n : all[j].key = all[k].key => j = k
  BY <1>4 DEF EntriesOk, n
<1> DEFINE l == n - m + 1
<1>13. ASSUME NEW k \in 1..l PROVE EntryOk(r[k])
  BY <1>9, <1>10, <1>12
<1>14. ASSUME NEW j \in 1..l, NEW k \in 1..l, r[j].key = r[k].key PROVE j = k
  <2>1. all[m + j - 1].key = all[m + k - 1].key
    BY <1>9, <1>14
  <2>2. m + j - 1 = m + k - 1
    BY <1>10, <1>12, <2>1
  <2> QED BY <1>11, <2>2
<1>15. Len(r) = l /\ IsSequence(r) /\ l <= MaxEntries
  BY <1>8, <1>9
<1> HIDE DEF l
<1> QED BY <1>13, <1>14, <1>15 DEF EntriesOk

CacheInv == EntriesOk(entries) /\ Len(entries) <= MaxEntries

LEMMA CacheStarts == FeedInit => CacheInv
BY EmptySequence, FeedAssumption DEF FeedInit, CacheInv, EntriesOk

LEMMA CacheSteps == CallsInv /\ CacheInv /\ [FeedNext]_feedVars => CacheInv'
<1> SUFFICES ASSUME CallsInv, CacheInv, [FeedNext]_feedVars PROVE CacheInv'
  OBVIOUS
<1>1. EntriesOk(entries) /\ Len(entries) <= MaxEntries /\ Len(entries) \in Nat /\ MaxEntries \in Nat
  BY FeedAssumption DEF CacheInv, EntriesOk, IsSequence
<1>2. ASSUME NEW r \in Readers, NEW key \in Keys, Read(r, key) PROVE CacheInv'
  <2>1. PICK p : p = Without(entries, key)
    OBVIOUS
  <2>2. /\ EntriesOk(p) /\ \A k \in 1..Len(p) : p[k].key # key
        /\ Len(p) <= Len(entries)
        /\ Holds(entries, key) => /\ Len(p) + 1 = Len(entries)
                                  /\ EntryOk(entries[PlaceOf(entries, key)])
                                  /\ entries[PlaceOf(entries, key)].key = key
    BY <1>1, <2>1, WithoutIsOk
  <2>3. Len(p) \in Nat
    BY <2>2 DEF EntriesOk, IsSequence
  <2>4. \/ entries' = p
        \/ Holds(entries, key) /\ entries' = Append(p, entries[PlaceOf(entries, key)])
    BY <1>2, <2>1 DEF Read, Used
  <2>5. CASE entries' = p
    <3>1. Len(p) <= MaxEntries
      BY <1>1, <2>2, <2>3
    <3> QED BY <2>2, <2>5, <3>1 DEF CacheInv, EntriesOk
  <2>6. CASE Holds(entries, key) /\ entries' = Append(p, entries[PlaceOf(entries, key)])
    <3>1. PICK e : e = entries[PlaceOf(entries, key)]
      OBVIOUS
    <3>2. EntryOk(e) /\ e.key = key /\ Len(p) + 1 = Len(entries)
      BY <2>2, <2>6, <3>1
    <3>3. PICK q : q = Append(p, e) /\ entries' = q
      BY <2>6, <3>1
    <3>4. EntriesOk(q) /\ Len(q) = Len(p) + 1
      BY <2>2, <3>2, <3>3, EntryAdded
    <3>5. Len(q) <= MaxEntries
      BY <1>1, <3>2, <3>4
    <3> QED BY <3>3, <3>4, <3>5 DEF CacheInv, EntriesOk
  <2> QED BY <2>4, <2>5, <2>6
<1>3. ASSUME NEW r \in Readers, NEW lag \in Lags, Answered(r, lag) PROVE CacheInv'
  <2>1. PICK e : /\ entries' = Stored(entries, e)
                 /\ e.asked = Finished(r).began /\ e.expires = now + Ttl
    <3> DEFINE call == Finished(r)
               entry == [key |-> call.key, event |-> now - lag, asked |-> call.began,
                         expires |-> now + Ttl]
    <3>1. entries' = Stored(entries, entry)
      BY <1>3 DEF Answered
    <3>2. entry.asked = Finished(r).began /\ entry.expires = now + Ttl
      OBVIOUS
    <3> HIDE DEF entry
    <3> QED BY <3>1, <3>2
  <2>2. PICK d : d = Finished(r)
    OBVIOUS
  <2>3. CallOk(d, now) /\ d.stage = "FLYING"
    BY <1>3, <2>2, FinishedIsOk DEF Answered
  <2>4. /\ d.began \in Int /\ now - d.began <= Budget(MaxRetries) /\ now \in Nat
        /\ Budget(MaxRetries) \in Nat /\ Ttl \in Nat
    BY <2>3, BudgetCovers, FeedAssumption DEF CallOk, CallsInv
  <2>5. EntryOk(e)
    BY <2>1, <2>2, <2>4 DEF EntryOk
  <2>6. PICK q : q = Stored(entries, e) /\ entries' = q
    BY <2>1
  <2>7. EntriesOk(q) /\ Len(q) <= MaxEntries
    BY <1>1, <2>5, <2>6, StoredIsOk
  <2> QED BY <2>6, <2>7 DEF CacheInv, EntriesOk
<1>4. CASE entries' = entries
  BY <1>1, <1>4 DEF CacheInv, EntriesOk
<1>5. ASSUME NEW r \in Readers, NEW after \in RetryAfters, Faulted(r, after) PROVE entries' = entries
  BY <1>5 DEF Faulted
<1>6. ASSUME NEW r \in Readers, Refused(r) \/ Resumed(r) \/ Cut(r) PROVE entries' = entries
  BY <1>6 DEF Refused, Resumed, Cut
<1>7. FeedTick \/ UNCHANGED feedVars => entries' = entries
  BY DEF FeedTick, feedVars
<1> QED BY <1>2, <1>3, <1>4, <1>5, <1>6, <1>7 DEF FeedNext

(* Whatever the readers do, what the cache serves was asked for no longer  *)
(* ago than one life and one whole request, one entry a key and within its *)
(* size (cache.py:41-66, http.py:65-71).                                   *)
THEOREM CachedDataIsYoung == FeedSpec => []CachedDataAgesOut
<1>1. CallsInv /\ CacheInv => CachedDataAgesOut
  <2> SUFFICES ASSUME CallsInv, CacheInv PROVE CachedDataAgesOut
    OBVIOUS
  <2>1. /\ DOMAIN entries = 1..Len(entries) /\ now \in Nat
        /\ Budget(MaxRetries) \in Nat /\ Ttl \in Nat
        /\ \A k \in 1..Len(entries) : EntryOk(entries[k])
    BY BudgetCovers, FeedAssumption DEF CacheInv, EntriesOk, IsSequence, CallsInv
  <2>2. ASSUME NEW e \in ToSet(entries), e.expires > now
        PROVE  now - e.asked < Ttl + Budget(MaxRetries)
    <3>1. EntryOk(e)
      BY <2>1 DEF ToSet
    <3> QED BY <2>1, <2>2, <3>1 DEF EntryOk
  <2> QED BY <2>1, <2>2 DEF CacheInv, EntriesOk, CachedDataAgesOut
<1> QED BY <1>1, CallsStart, CallsSteps, CacheStarts, CacheSteps, PTL DEF FeedSpec

-----------------------------------------------------------------------------
(* The order of the rows. *)

Figures == Int \cup {NoFigure}
RowShape(r) ==
  /\ DOMAIN r = {"symbol", "volume", "state", "metric"}
  /\ r.symbol \in Nat /\ r.volume \in Figures /\ r.metric \in Figures

LEMMA AboveIsOrder ==
  ASSUME NEW a, NEW b, NEW c, RowShape(a), RowShape(b), RowShape(c),
         NEW field, NEW descending \in BOOLEAN
  PROVE  /\ ~Above(a, a, field, descending)
         /\ a.symbol = b.symbol \/ Above(a, b, field, descending) \/ Above(b, a, field, descending)
         /\ Above(a, b, field, descending) /\ Above(b, c, field, descending)
              => Above(a, c, field, descending)
<1>1. PICK x \in Figures, y \in Figures, z \in Figures :
        x = Figure(a, field) /\ y = Figure(b, field) /\ z = Figure(c, field)
  BY DEF RowShape, Figure
<1>2. a.symbol \in Nat /\ b.symbol \in Nat /\ c.symbol \in Nat
  BY DEF RowShape
<1> QED BY <1>1, <1>2, ScannerAssumption DEF Above, Figures

AllDiffer(all) == \A a, b \in all : a.symbol = b.symbol => a = b

LEMMA SortedInOrder ==
  ASSUME NEW all, IsFiniteSet(all), \A r \in all : RowShape(r), AllDiffer(all),
         NEW field, NEW descending \in BOOLEAN, NEW q, q = Sorted(all, field, descending)
  PROVE  /\ IsSequence(q) /\ Len(q) = Cardinality(all)
         /\ \A k \in 1..Len(q) : q[k] \in all
         /\ \A j, k \in 1..Len(q) : j < k => Above(q[j], q[k], field, descending)
<1> DEFINE R(a, b) == Above(a, b, field, descending)
           above == [r \in all |-> {s \in all : R(s, r)}]
           n == Cardinality(all)
           At(k) == CHOOSE r \in all : Cardinality(above[r]) + 1 = k
<1>1. \A a, b, c \in all : /\ ~R(a, a) /\ (a = b \/ R(a, b) \/ R(b, a))
                           /\ R(a, b) /\ R(b, c) => R(a, c)
  BY AboveIsOrder DEF AllDiffer
<1> HIDE DEF R
<1>2. /\ \A r \in all : above[r] \subseteq all \ {r}
      /\ \A r, s \in all : r = s \/ r \in above[s] \/ s \in above[r]
      /\ \A r, s \in all : r \in above[s] => above[r] \subseteq above[s]
  BY <1>1
<1>3. q = [k \in 1..n |-> At(k)]
  <2>1. \A r \in all : Standing(r, all, field, descending) = Cardinality(above[r]) + 1
    BY DEF Standing, R
  <2>2. \A k \in 1..n : (CHOOSE r \in all : Standing(r, all, field, descending) = k) = At(k)
    BY <2>1
  <2> HIDE DEF above, At
  <2> QED BY <2>2 DEF Sorted
<1>7. \A r, s \in all : r \in above[s] <=> R(r, s)
  OBVIOUS
<1> HIDE DEF above
<1>4. /\ n \in Nat
      /\ \A r \in all : Cardinality(above[r]) + 1 \in 1..n
      /\ \A r, s \in all : Cardinality(above[r]) < Cardinality(above[s]) => r \in above[s]
      /\ \A k \in 1..n : \E r \in all : Cardinality(above[r]) + 1 = k
  BY <1>2, StandingsAreOrder
<1>5. \A k \in 1..n : q[k] \in all /\ Cardinality(above[q[k]]) + 1 = k
  BY <1>3, <1>4
<1>6. Len(q) = n /\ IsSequence(q)
  BY <1>3, <1>4 DEF IsSequence
<1>8. ASSUME NEW j \in 1..n, NEW k \in 1..n, j < k PROVE R(q[j], q[k])
  <2>1. /\ q[j] \in all /\ q[k] \in all
        /\ Cardinality(above[q[j]]) + 1 = j /\ Cardinality(above[q[k]]) + 1 = k
    BY <1>5
  <2>2. Cardinality(above[q[j]]) < Cardinality(above[q[k]])
    <3>1. Cardinality(above[q[j]]) \in Int /\ Cardinality(above[q[k]]) \in Int
      <4>1. \A r \in all : Cardinality(above[r]) \in Int
        BY FS_Subset, FS_CardinalityType, <1>2
      <4> QED BY <2>1, <4>1
    <3> QED BY <1>4, <1>8, <2>1, <3>1
  <2> QED BY <1>4, <1>7, <2>1, <2>2
<1> QED BY <1>5, <1>6, <1>8 DEF R

(* What the ranking promises of a list of rows.                            *)
Ordered(q, field) ==
  \A j, k \in 1..Len(q) : j < k =>
    /\ q[j].symbol # q[k].symbol
    /\ Figure(q[j], field) = NoFigure => Figure(q[k], field) = NoFigure

LEMMA SortedIsOrdered ==
  ASSUME NEW all, IsFiniteSet(all), \A r \in all : RowShape(r), AllDiffer(all),
         NEW field, NEW descending \in BOOLEAN, NEW q, q = Sorted(all, field, descending)
  PROVE  /\ IsSequence(q) /\ Len(q) = Cardinality(all) /\ Ordered(q, field)
         /\ \A k \in 1..Len(q) : q[k] \in all
<1>1. /\ IsSequence(q) /\ Len(q) = Cardinality(all) /\ Len(q) \in Nat
      /\ \A k \in 1..Len(q) : q[k] \in all
      /\ \A j, k \in 1..Len(q) : j < k => Above(q[j], q[k], field, descending)
  BY SortedInOrder DEF IsSequence
<1>2. ASSUME NEW a \in all, NEW b \in all, Above(a, b, field, descending)
      PROVE  a # b /\ (Figure(a, field) = NoFigure => Figure(b, field) = NoFigure)
  <2>1. a # b
    BY <1>2, AboveIsOrder
  <2>2. ASSUME Figure(a, field) = NoFigure PROVE Figure(b, field) = NoFigure
    BY <1>2, <2>2 DEF Above
  <2> QED BY <2>1, <2>2
<1>3. Ordered(q, field)
  BY <1>1, <1>2 DEF Ordered, AllDiffer
<1> QED BY <1>1, <1>3

(* A part of an ordered list is ordered.                                   *)
Slice(q, m, n) == SubSeq(q, m, n)

IsPart(r, q, field) ==
  /\ IsSequence(r) /\ Ordered(r, field)
  /\ \A k \in 1..Len(r) : \E j \in 1..Len(q) : r[k] = q[j]

LEMMA PartIsOrdered ==
  ASSUME NEW q, IsSequence(q), NEW field, Ordered(q, field),
         NEW m, m \in Nat \ {0}, NEW n, n \in Nat, n <= Len(q), NEW r, r = Slice(q, m, n)
  PROVE  /\ IsPart(r, q, field)
         /\ m <= n => Len(r) = n - m + 1
         /\ ~(m <= n) => Len(r) = 0
<1>1. Len(q) \in Nat
  BY DEF IsSequence
<1>2. CASE m <= n
  <2>1. m \in 1..(Len(q) + 1) /\ n \in (m - 1)..Len(q)
    BY <1>1, <1>2
  <2>2. /\ IsSequence(r) /\ Len(r) = n - m + 1
        /\ \A k \in 1..(n - m + 1) : r[k] = q[m + k - 1]
    <3>1. r = SubSeq(q, m, n)
      BY DEF Slice
    <3> QED BY <2>1, <3>1, PartOf
  <2>3. \A k \in 1..(n - m + 1) : m + k - 1 \in 1..Len(q)
    BY <1>1, <1>2
  <2>4. \A j, k \in 1..(n - m + 1) : j < k => m + j - 1 < m + k - 1
    OBVIOUS
  <2> DEFINE l == n - m + 1
  <2>5. Ordered(r, field)
    <3> SUFFICES ASSUME NEW j \in 1..l, NEW k \in 1..l, j < k
                 PROVE  /\ r[j].symbol # r[k].symbol
                        /\ Figure(r[j], field) = NoFigure => Figure(r[k], field) = NoFigure
      BY <2>2 DEF Ordered
    <3>1. r[j] = q[m + j - 1] /\ r[k] = q[m + k - 1]
      BY <2>2
    <3>2. m + j - 1 \in 1..Len(q) /\ m + k - 1 \in 1..Len(q) /\ m + j - 1 < m + k - 1
      BY <2>3, <2>4
    <3> QED BY <3>1, <3>2 DEF Ordered
  <2>6. \A k \in 1..l : \E j \in 1..Len(q) : r[k] = q[j]
    BY <2>2, <2>3
  <2>7. Len(r) = l
    BY <2>2
  <2> HIDE DEF l
  <2>8. l = n - m + 1
    BY DEF l
  <2>9. IsPart(r, q, field)
    BY <2>2, <2>5, <2>6, <2>7 DEF IsPart
  <2> QED BY <1>2, <2>7, <2>8, <2>9
<1>3. CASE ~(m <= n)
  <2>1. r = <<>>
    BY <1>3, SubSeqEmpty DEF Slice
  <2>2. IsSequence(r) /\ Len(r) = 0
    BY <2>1, EmptySequence
  <2>3. IsPart(r, q, field)
    BY <2>2 DEF IsPart, Ordered
  <2> QED BY <1>3, <2>2, <2>3
<1> QED BY <1>2, <1>3

LEMMA FirstIsOrdered ==
  ASSUME NEW q, IsSequence(q), NEW field, Ordered(q, field), NEW n \in Nat,
         NEW r, r = FirstOf(q, n)
  PROVE  /\ IsSequence(r) /\ Ordered(r, field) /\ Len(r) <= n
         /\ \A k \in 1..Len(r) : \E j \in 1..Len(q) : r[k] = q[j]
<1>1. Len(q) \in Nat
  BY DEF IsSequence
<1> DEFINE m == Min({n, Len(q)})
<1>2. m = IF n <= Len(q) THEN n ELSE Len(q)
  BY <1>1, SmallerOfTwo
<1>3. r = Slice(q, 1, m)
  BY DEF FirstOf, Slice
<1>4. PICK one, last : one = 1 /\ last = m
  OBVIOUS
<1>5. r = Slice(q, one, last)
  BY <1>3, <1>4
<1> HIDE DEF m
<1>6. one \in Nat \ {0} /\ last \in Nat /\ last <= Len(q) /\ last <= n
  BY <1>1, <1>2, <1>4
<1>7. /\ IsPart(r, q, field)
      /\ one <= last => Len(r) = last - one + 1
      /\ ~(one <= last) => Len(r) = 0
  BY <1>5, <1>6, PartIsOrdered
<1>8. Len(r) <= n
  BY <1>4, <1>6, <1>7
<1> QED BY <1>7, <1>8 DEF IsPart

PageLength(n, page) == Max({0, Min({PageSize, n - (page - 1) * PageSize})})

LEMMA PageIsOrdered ==
  ASSUME NEW q, IsSequence(q), NEW field, Ordered(q, field), NEW page \in Nat \ {0},
         NEW r, r = Paginated(q, page)
  PROVE  /\ IsSequence(r) /\ Ordered(r, field)
         /\ Len(r) = PageLength(Len(q), page)
         /\ \A k \in 1..Len(r) : \E j \in 1..Len(q) : r[k] = q[j]
<1>1. Len(q) \in Nat /\ PageSize \in Nat \ {0} /\ page - 1 \in Nat
  BY ScannerAssumption DEF IsSequence
<1> DEFINE x == (page - 1) * PageSize
           y == page * PageSize
           n == Min({y, Len(q)})
           left == Len(q) - x
           w == Min({PageSize, left})
<1>2. x \in Nat /\ y = x + PageSize
  <2>1. x \in Nat
    BY <1>1, SMTT(30)
  <2>2. y = x + PageSize
    BY <1>1, SMTT(30)
  <2> QED BY <2>1, <2>2
<1>3. r = Slice(q, x + 1, n)
  BY DEF Paginated, Slice
<1> HIDE DEF x, y
<1>4. y \in Nat /\ x + 1 \in Nat \ {0} /\ left \in Int
  BY <1>1, <1>2
<1>5. n = IF y <= Len(q) THEN y ELSE Len(q)
  BY <1>1, <1>4, SmallerOfTwo
<1> HIDE DEF n
<1>6. n \in Nat /\ n <= Len(q)
  BY <1>1, <1>4, <1>5
<1>7. /\ IsPart(r, q, field)
      /\ x + 1 <= n => Len(r) = n - (x + 1) + 1
      /\ ~(x + 1 <= n) => Len(r) = 0
  BY <1>3, <1>4, <1>6, PartIsOrdered
<1>8. w = IF PageSize <= left THEN PageSize ELSE left
  BY <1>1, <1>4, SmallerOfTwo
<1>10. w \in Int
  BY <1>1, <1>4, <1>8
<1> HIDE DEF w
<1>9. Max({0, w}) = IF 0 >= w THEN 0 ELSE w
  BY <1>10, LargerOfTwo
<1>11. Len(r) = Max({0, w})
  BY <1>1, <1>2, <1>5, <1>6, <1>7, <1>8, <1>9
<1>12. Len(r) = PageLength(Len(q), page)
  BY <1>11 DEF PageLength, w, x
<1> QED BY <1>7, <1>12 DEF IsPart

(* As many as there are places of their own.                               *)
LEMMA PlacesAreMany ==
  ASSUME NEW q, IsSequence(q),
         \A j, k \in 1..Len(q) : q[j].place = q[k].place => j = k,
         NEW P, P = {a.place : a \in ToSet(q)}
  PROVE  IsFiniteSet(P) /\ Cardinality(P) = Len(q) /\ Len(q) \in Nat
<1>1. Len(q) \in Nat /\ DOMAIN q = 1..Len(q)
  BY DEF IsSequence
<1>2. P = {q[k].place : k \in 1..Len(q)}
  BY <1>1 DEF ToSet
<1> DEFINE g == [k \in 1..Len(q) |-> q[k].place]
<1>3. g \in Bijection(1..Len(q), P)
  <2>1. g \in Surjection(1..Len(q), P)
    BY <1>2 DEF Surjection
  <2>2. g \in Injection(1..Len(q), P)
    BY <1>2 DEF Injection, IsInjective
  <2> QED BY <2>1, <2>2 DEF Bijection
<1>4. ExistsBijection(1..Len(q), P)
  BY <1>3 DEF ExistsBijection
<1>5. IsFiniteSet(1..Len(q)) /\ Cardinality(1..Len(q)) = Len(q)
  BY <1>1, FS_Interval
<1> QED BY <1>1, <1>4, <1>5, FS_Bijection

-----------------------------------------------------------------------------
(* The rows and what is read for them. *)

Fresh(r) == RowShape(r) /\ r.state = "NOT_REQUESTED" /\ r.metric = NoFigure

LEMMA BuiltAreFresh ==
  ASSUME NEW tickers \in [Universe -> Tickers], NEW q,
         NEW passing, passing = {r \in {BuiltRow(s, tickers[s]) : s \in Universe} : PassesTicker(r, q)}
  PROVE  IsFiniteSet(passing) /\ AllDiffer(passing) /\ \A r \in passing : Fresh(r)
<1> DEFINE f == [s \in Universe |-> BuiltRow(s, tickers[s])]
           all == {f[s] : s \in Universe}
<1>1. all = {BuiltRow(s, tickers[s]) : s \in Universe}
  OBVIOUS
<1>2. IsFiniteSet(all)
  <2>1. IsFiniteSet(Universe)
    BY ScannerAssumption
  <2> HIDE DEF f
  <2> QED BY <2>1, ImageIsFinite
<1>3. ASSUME NEW s \in Universe PROVE Fresh(f[s]) /\ f[s].symbol = s
  <2>1. tickers[s] \in [status : {"MISSING", "OLD", "FRESH"}, volume : Int] /\ s \in Nat
    BY ScannerAssumption
  <2>2. f[s] = BuiltRow(s, tickers[s])
    OBVIOUS
  <2> HIDE DEF f
  <2> QED BY <2>1, <2>2 DEF BuiltRow, Fresh, RowShape, Figures
<1> HIDE DEF f
<1>4. \A r \in all : Fresh(r)
  BY <1>3
<1>5. AllDiffer(all)
  BY <1>3 DEF AllDiffer
<1>6. passing \subseteq all
  BY <1>1
<1> HIDE DEF all
<1>7. IsFiniteSet(passing)
  BY <1>2, <1>6, FS_Subset
<1> QED BY <1>4, <1>5, <1>6, <1>7 DEF AllDiffer

LEMMA EnrichedTells ==
  ASSUME NEW r, Fresh(r), NEW got \in CandleReads, got.status # "DELISTED",
         NEW e, e = Enriched(r, got)
  PROVE  /\ RowShape(e) /\ e.symbol = r.symbol /\ e.volume = r.volume
         /\ e.metric # NoFigure => got = [status |-> "OK", metric |-> e.metric]
         /\ got.status \in {"ERROR", "NO_VALUE"} => e.state = "UNAVAILABLE"
         /\ e.state # "NOT_REQUESTED"
<1>1. got \in [status : {"ERROR", "NO_VALUE", "SHORT", "OK", "DELISTED"}, metric : Int]
  BY ScannerAssumption
<1>2. CASE got.status \in {"ERROR", "NO_VALUE"}
  <2>1. e = [r EXCEPT !.state = "UNAVAILABLE"]
    BY <1>2 DEF Enriched
  <2> QED BY <1>2, <2>1 DEF Fresh, RowShape
<1>3. CASE got.status = "SHORT"
  <2>1. e = [r EXCEPT !.state = "INSUFFICIENT_DATA"]
    BY <1>3 DEF Enriched
  <2> QED BY <1>3, <2>1 DEF Fresh, RowShape
<1>4. CASE got.status = "OK"
  <2>1. e = [r EXCEPT !.state = "CALCULATED", !.metric = got.metric]
    BY <1>4 DEF Enriched
  <2>2. got = [status |-> "OK", metric |-> got.metric] /\ got.metric \in Int
    BY <1>1, <1>4
  <2>3. /\ DOMAIN e = DOMAIN r /\ e.symbol = r.symbol /\ e.volume = r.volume
        /\ e.metric = got.metric /\ e.state = "CALCULATED"
    BY <2>1 DEF Fresh, RowShape
  <2> QED BY <1>4, <2>2, <2>3 DEF Fresh, RowShape, Figures
<1> QED BY <1>1, <1>2, <1>3, <1>4

AnswersOk ==
  /\ IsSequence(answers)
  /\ \A k \in 1..Len(answers) : /\ answers[k].place \in (1..MaxMetricSymbols) \ fetching
                                /\ answers[k].read \in CandleReads
  /\ \A j, k \in 1..Len(answers) : answers[j].place = answers[k].place => j = k
  /\ \A j, k \in 1..Len(answers) : answers[j].symbol = answers[k].symbol => j = k

LEMMA AnswersAreASet ==
  ASSUME AnswersOk
  PROVE  /\ ToSet(answers) = {answers[k] : k \in 1..Len(answers)}
         /\ Ended = {answers[k].place : k \in 1..Len(answers)}
         /\ DOMAIN answers = 1..Len(answers) /\ Len(answers) \in Nat
<1>1. DOMAIN answers = 1..Len(answers) /\ Len(answers) \in Nat
  BY DEF AnswersOk, IsSequence
<1>2. ToSet(answers) = {answers[k] : k \in 1..Len(answers)}
  BY <1>1 DEF ToSet
<1> QED BY <1>1, <1>2 DEF Ended

LEMMA ReadOfItsOwn ==
  ASSUME AnswersOk, NEW k \in 1..Len(answers), NEW r, r.symbol = answers[k].symbol
  PROVE  ReadOf(r) = {answers[k].read}
<1>1. ToSet(answers) = {answers[i] : i \in 1..Len(answers)}
  BY AnswersAreASet
<1>2. {b \in ToSet(answers) : b.symbol = r.symbol} = {answers[k]}
  BY <1>1 DEF AnswersOk
<1> QED BY <1>2 DEF ReadOf

LEMMA ReadOfNobody ==
  ASSUME AnswersOk, NEW r, \A k \in 1..Len(answers) : answers[k].symbol # r.symbol
  PROVE  ReadOf(r) = {}
BY AnswersAreASet DEF ReadOf

-----------------------------------------------------------------------------
(* The scan. *)

FetchingOk ==
  /\ fetching \subseteq Requests
  /\ \A k \in 1..Len(answers) : /\ answers[k].place \in Requests
                                /\ answers[k].symbol = rows[answers[k].place].symbol
  /\ \A k \in 1..Len(rows) : Fresh(rows[k])
  /\ \A j, k \in 1..Len(rows) : rows[j].symbol = rows[k].symbol => j = k
  /\ NeedsPool(query) => Len(rows) <= MaxMetricSymbols
  /\ ~NeedsPool(query) => Ordered(rows, query.sort)

(* While a scan is not lost nothing it read was delisted.                  *)
AllListed == \A k \in 1..Len(answers) : answers[k].read.status # "DELISTED"

PageOk ==
  /\ \A k \in 1..Len(rows) : RowIsTrue(rows[k])
  /\ Ordered(rows, query.sort)
  /\ NeedsPool(query) /\ query.least = NoFigure =>
       Len(rows) = Max({0, Min({PageSize, Len(answers) - (query.page - 1) * PageSize})})

ScanInv ==
  /\ query \in Queries /\ IsSequence(rows) /\ AnswersOk
  /\ fetching \subseteq 1..MaxMetricSymbols
  /\ scan \in {"ASKED", "FETCHING", "FAILED", "DONE"}
  /\ scan = "ASKED" => fetching = {} /\ answers = <<>> /\ rows = <<>>
  /\ scan \in {"FETCHING", "FAILED"} => FetchingOk
  /\ scan = "FETCHING" => AllListed
  /\ scan = "DONE" => fetching = {} /\ PageOk

LEMMA RequestsAreRows ==
  ASSUME IsSequence(rows)
  PROVE  /\ Requests \subseteq 1..Len(rows) /\ Requests \subseteq 1..MaxMetricSymbols
         /\ Len(rows) \in Nat
         /\ Len(rows) <= MaxMetricSymbols => Requests = 1..Len(rows)
<1>1. MaxMetricSymbols \in Nat /\ Len(rows) \in Nat
  BY ScannerAssumption DEF IsSequence
<1>2. Min({MaxMetricSymbols, Len(rows)}) =
        IF MaxMetricSymbols <= Len(rows) THEN MaxMetricSymbols ELSE Len(rows)
  BY <1>1, SmallerOfTwo
<1> DEFINE m == Min({MaxMetricSymbols, Len(rows)})
<1>3. Requests = 1..m
  BY DEF Requests
<1> HIDE DEF m
<1>4. m \in Nat /\ m <= Len(rows) /\ m <= MaxMetricSymbols
      /\ (Len(rows) <= MaxMetricSymbols => m = Len(rows))
  BY <1>1, <1>2 DEF m
<1> QED BY <1>1, <1>3, <1>4

(* Each row of the pool tells what its own symbol's read gave.             *)
LEMMA GatheredTells ==
  ASSUME IsSequence(rows), AnswersOk, FetchingOk, AllListed, NEW e, e = Gathered(rows, answers)
  PROVE  /\ IsSequence(e) /\ Len(e) = Len(rows)
         /\ \A k \in 1..Len(rows) : /\ RowShape(e[k]) /\ RowIsTrue(e[k])
                                    /\ e[k].symbol = rows[k].symbol
                                    /\ e[k].volume = rows[k].volume
<1> DEFINE Own(k) == {a \in ToSet(answers) : a.place = k}
<1>1. DOMAIN rows = 1..Len(rows) /\ Len(rows) \in Nat
  BY DEF IsSequence
<1>2. e = [k \in 1..Len(rows) |->
             IF Own(k) = {} THEN rows[k] ELSE Enriched(rows[k], (CHOOSE a \in Own(k) : TRUE).read)]
  BY <1>1 DEF Gathered
<1>3. IsSequence(e) /\ Len(e) = Len(rows)
  BY <1>1, <1>2 DEF IsSequence
<1>4. ToSet(answers) = {answers[i] : i \in 1..Len(answers)}
  BY AnswersAreASet
<1>5. \A i \in 1..Len(answers) : answers[i].place \in 1..Len(rows)
  BY RequestsAreRows DEF FetchingOk
<1>6. ASSUME NEW k \in 1..Len(rows)
      PROVE  /\ RowShape(e[k]) /\ RowIsTrue(e[k])
             /\ e[k].symbol = rows[k].symbol /\ e[k].volume = rows[k].volume
  <2>1. Fresh(rows[k])
    BY DEF FetchingOk
  <2>2. CASE Own(k) = {}
    <3>1. e[k] = rows[k]
      BY <1>2, <2>2
    <3>2. \A i \in 1..Len(answers) : answers[i].place # k
      BY <1>4, <2>2
    <3>3. \A i \in 1..Len(answers) : answers[i].symbol # rows[k].symbol
      BY <1>5, <3>2 DEF FetchingOk
    <3>4. ReadOf(rows[k]) = {}
      BY <3>3, ReadOfNobody
    <3> QED BY <2>1, <3>1, <3>4 DEF Fresh, RowIsTrue
  <2>3. CASE Own(k) # {}
    <3>1. PICK i \in 1..Len(answers) : answers[i].place = k
      BY <1>4, <2>3
    <3>2. Own(k) = {answers[i]}
      BY <1>4, <3>1 DEF AnswersOk
    <3>3. (CHOOSE a \in Own(k) : TRUE) = answers[i]
      BY <3>2
    <3>4. e[k] = Enriched(rows[k], answers[i].read)
      BY <1>2, <2>3, <3>3
    <3>5. /\ answers[i].read \in CandleReads /\ answers[i].symbol = rows[k].symbol
          /\ answers[i].read.status # "DELISTED"
      BY <3>1 DEF AnswersOk, FetchingOk, AllListed
    <3>6. PICK r, got : r = e[k] /\ got = answers[i].read
      OBVIOUS
    <3>7. /\ RowShape(r) /\ r.symbol = rows[k].symbol /\ r.volume = rows[k].volume
          /\ r.metric # NoFigure => got = [status |-> "OK", metric |-> r.metric]
          /\ got.status \in {"ERROR", "NO_VALUE"} => r.state = "UNAVAILABLE"
          /\ r.state # "NOT_REQUESTED"
      BY <2>1, <3>4, <3>5, <3>6, EnrichedTells
    <3>8. ReadOf(r) = {got}
      BY <3>5, <3>6, <3>7, ReadOfItsOwn
    <3>9. RowIsTrue(r)
      BY <3>7, <3>8 DEF RowIsTrue
    <3> QED BY <3>6, <3>7, <3>9
  <2> QED BY <2>2, <2>3
<1> QED BY <1>3, <1>6

LEMMA ScanStarts == ScannerInit => ScanInv
BY EmptySequence DEF ScannerInit, ScanInv, AnswersOk

LEMMA QueryShape ==
  ASSUME query \in Queries
  PROVE  /\ query.sort \in {"VOLUME", "METRIC", "SETUP"} /\ query.descending \in BOOLEAN
         /\ query.page \in Nat \ {0}
         /\ ~NeedsPool(query) => query.sort = "VOLUME"
BY ScannerAssumption DEF NeedsPool, NeedsSetups

LEMMA PoolIsBounded == Pool(query) \in Nat /\ Pool(query) <= MaxMetricSymbols
<1>1. PICK n \in Nat : n = IF NeedsSetups(query) THEN SetupPoolSize ELSE CandidatePoolSize
  BY ScannerAssumption
<1>2. MaxMetricSymbols \in Nat
  BY ScannerAssumption
<1>3. Pool(query) = Min({MaxMetricSymbols, n})
  BY <1>1 DEF Pool
<1>4. Min({MaxMetricSymbols, n}) = IF MaxMetricSymbols <= n THEN MaxMetricSymbols ELSE n
  BY <1>1, <1>2, SmallerOfTwo
<1> QED BY <1>1, <1>2, <1>3, <1>4

LEMMA OrderedAreDifferent ==
  ASSUME NEW q, IsSequence(q), NEW field, Ordered(q, field)
  PROVE  \A j, k \in 1..Len(q) : q[j].symbol = q[k].symbol => j = k
<1>1. Len(q) \in Nat
  BY DEF IsSequence
<1>2. \A j, k \in 1..Len(q) : j = k \/ j < k \/ k < j
  BY <1>1
<1> QED BY <1>2 DEF Ordered

(* The rows a scan starts from.                                            *)
LEMMA BuildKeeps ==
  ASSUME ScanInv, NEW tickers \in [Universe -> Tickers], BuildRows(tickers)
  PROVE  ScanInv'
<1> DEFINE passing == {r \in {BuiltRow(s, tickers[s]) : s \in Universe} : PassesTicker(r, query)}
<1>1. /\ query \in Queries /\ fetching = {} /\ answers = <<>>
      /\ UNCHANGED <<query, fetching, answers>> /\ AnswersOk
  BY DEF ScanInv, BuildRows
<1>2. IsFiniteSet(passing) /\ AllDiffer(passing) /\ \A r \in passing : Fresh(r)
  BY BuiltAreFresh
<1>3. \A r \in passing : RowShape(r)
  BY <1>2 DEF Fresh
<1> HIDE DEF passing
<1>4. /\ query.sort \in {"VOLUME", "METRIC", "SETUP"} /\ query.descending \in BOOLEAN
      /\ query.page \in Nat \ {0} /\ (~NeedsPool(query) => query.sort = "VOLUME")
  BY <1>1, QueryShape
<1>5. Len(answers) = 0
  BY <1>1, EmptySequence
<1>6. PICK down \in BOOLEAN : down = IF NeedsPool(query) THEN TRUE ELSE query.descending
  BY <1>4
<1>7. PICK q : q = Sorted(passing, "VOLUME", down)
  OBVIOUS
<1>8. IsSequence(q) /\ Ordered(q, "VOLUME") /\ \A k \in 1..Len(q) : q[k] \in passing
  BY <1>2, <1>3, <1>7, SortedIsOrdered
<1>9. PICK r : rows' = r /\ r = IF NeedsPool(query) THEN FirstOf(q, Pool(query))
                                ELSE Paginated(q, query.page)
  BY <1>6, <1>7 DEF BuildRows, passing
<1>10. /\ IsSequence(r) /\ Ordered(r, "VOLUME")
       /\ \A k \in 1..Len(r) : \E j \in 1..Len(q) : r[k] = q[j]
       /\ NeedsPool(query) => Len(r) <= MaxMetricSymbols
  <2>1. CASE NeedsPool(query)
    <3>1. PICK n \in Nat : n = Pool(query) /\ n <= MaxMetricSymbols
      BY PoolIsBounded
    <3>2. r = FirstOf(q, n)
      BY <1>9, <2>1, <3>1
    <3>3. /\ IsSequence(r) /\ Ordered(r, "VOLUME") /\ Len(r) <= n
          /\ \A k \in 1..Len(r) : \E j \in 1..Len(q) : r[k] = q[j]
      BY <1>8, <3>2, FirstIsOrdered
    <3>4. MaxMetricSymbols \in Nat /\ Len(r) \in Nat
      BY <3>3, ScannerAssumption DEF IsSequence
    <3> QED BY <3>1, <3>3, <3>4
  <2>2. CASE ~NeedsPool(query)
    <3>1. PICK page \in Nat \ {0} : page = query.page
      BY <1>4
    <3>2. r = Paginated(q, page)
      BY <1>9, <2>2, <3>1
    <3>3. /\ IsSequence(r) /\ Ordered(r, "VOLUME")
          /\ \A k \in 1..Len(r) : \E j \in 1..Len(q) : r[k] = q[j]
      BY <1>8, <3>2, PageIsOrdered
    <3> QED BY <2>2, <3>3
  <2> QED BY <2>1, <2>2
<1>11. \A k \in 1..Len(r) : Fresh(r[k])
  BY <1>2, <1>8, <1>10
<1>12. \A j, k \in 1..Len(r) : r[j].symbol = r[k].symbol => j = k
  BY <1>10, OrderedAreDifferent
<1>13. AnswersOk'
  BY <1>1 DEF AnswersOk
<1>14. CASE scan' = "FETCHING"
  <2>1. FetchingOk'
    BY <1>1, <1>4, <1>5, <1>9, <1>10, <1>11, <1>12 DEF FetchingOk
  <2>2. AllListed'
    BY <1>1, <1>5 DEF AllListed
  <2> QED BY <1>1, <1>9, <1>10, <1>13, <1>14, <2>1, <2>2 DEF ScanInv
<1>15. CASE scan' = "DONE"
  <2>1. ~NeedsPool(query)
    BY <1>15 DEF BuildRows
  <2>2. \A k \in 1..Len(r) : ReadOf(r[k]) = {}
    BY <1>1, <1>5, ReadOfNobody
  <2>3. \A k \in 1..Len(r) : RowIsTrue(r[k])
    BY <1>11, <2>2 DEF RowIsTrue, Fresh
  <2>4. PageOk'
    <3>1. (\A k \in 1..Len(rows) : RowIsTrue(rows[k]))'
      <4>1. rows' = r /\ answers' = answers
        BY <1>1, <1>9
      <4> QED BY <2>3, <4>1 DEF RowIsTrue, ReadOf
    <3>2. Ordered(rows', query'.sort)
      BY <1>1, <1>4, <1>9, <1>10, <2>1
    <3>3. ~NeedsPool(query')
      BY <1>1, <2>1
    <3> QED BY <3>1, <3>2, <3>3 DEF PageOk, Ordered
  <2> QED BY <1>1, <1>9, <1>10, <1>13, <1>15, <2>4 DEF ScanInv
<1> QED BY <1>14, <1>15 DEF BuildRows

LEMMA PublishKeeps == ScanInv /\ Publish => ScanInv'
<1> SUFFICES ASSUME ScanInv, Publish PROVE ScanInv'
  OBVIOUS
<1>1. /\ query \in Queries /\ IsSequence(rows) /\ AnswersOk /\ FetchingOk /\ AllListed
      /\ scan = "FETCHING" /\ Requests = Ended /\ scan' = "DONE"
      /\ UNCHANGED <<query, fetching, answers>>
  BY DEF ScanInv, Publish
<1>2. /\ query.sort \in {"VOLUME", "METRIC", "SETUP"} /\ query.descending \in BOOLEAN
      /\ query.page \in Nat \ {0} /\ (~NeedsPool(query) => query.sort = "VOLUME")
  BY <1>1, QueryShape
<1>3. PICK e : e = Gathered(rows, answers)
  OBVIOUS
<1>4. /\ IsSequence(e) /\ Len(e) = Len(rows)
      /\ \A k \in 1..Len(rows) : /\ RowShape(e[k]) /\ RowIsTrue(e[k])
                                 /\ e[k].symbol = rows[k].symbol
                                 /\ e[k].volume = rows[k].volume
  BY <1>1, <1>3, GatheredTells
<1>5. Len(rows) \in Nat /\ DOMAIN e = 1..Len(rows)
  BY <1>4 DEF IsSequence
<1>6. fetching = {}
  <2>1. fetching \subseteq Ended
    BY <1>1 DEF FetchingOk
  <2>2. Ended = {answers[k].place : k \in 1..Len(answers)}
    BY <1>1, AnswersAreASet
  <2> QED BY <1>1, <2>1, <2>2 DEF AnswersOk
<1>7. AnswersOk'
  BY <1>1 DEF AnswersOk
<1>8. PICK r : /\ rows' = r /\ IsSequence(r) /\ Ordered(r, query.sort)
               /\ \A k \in 1..Len(r) : RowIsTrue(r[k])
               /\ NeedsPool(query) /\ query.least = NoFigure =>
                    Len(r) = PageLength(Len(answers), query.page)
  <2>1. CASE ~NeedsPool(query)
    <3>1. rows' = e
      BY <1>3, <2>1 DEF Publish
    <3>2. Ordered(e, query.sort)
      BY <1>1, <1>2, <1>4, <2>1 DEF FetchingOk, Ordered, Figure
    <3> QED BY <1>4, <2>1, <3>1, <3>2
  <2>2. CASE NeedsPool(query)
    <3> DEFINE kept == {r \in ToSet(e) : PassesMetric(r, query)}
    <3>1. ToSet(e) = {e[k] : k \in 1..Len(rows)}
      BY <1>5 DEF ToSet
    <3>2. IsFiniteSet(ToSet(e))
      <4>1. IsFiniteSet(1..Len(rows))
        BY <1>5, FS_Interval
      <4> QED BY <3>1, <4>1, ImageIsFinite
    <3>3. AllDiffer(kept) /\ \A r \in kept : RowShape(r) /\ RowIsTrue(r)
      BY <1>1, <1>4, <3>1 DEF AllDiffer, FetchingOk
    <3>4. IsFiniteSet(kept)
      BY <3>2, FS_Subset
    <3>5. PICK down \in BOOLEAN : down = query.descending
      BY <1>2
    <3>12. PICK field : field = query.sort
      OBVIOUS
    <3>13. PICK q : q = Sorted(kept, field, down)
      OBVIOUS
    <3> HIDE DEF kept
    <3>6. /\ IsSequence(q) /\ Len(q) = Cardinality(kept) /\ Ordered(q, field)
          /\ \A k \in 1..Len(q) : q[k] \in kept
      BY <3>3, <3>4, <3>13, SortedIsOrdered
    <3>7. PICK page \in Nat \ {0} : page = query.page
      BY <1>2
    <3>8. PICK r : r = Paginated(q, page) /\ rows' = r
      BY <1>3, <2>2, <3>5, <3>7, <3>12, <3>13 DEF Publish, kept
    <3>9. /\ IsSequence(r) /\ Ordered(r, field)
          /\ Len(r) = PageLength(Len(q), page)
          /\ \A k \in 1..Len(r) : \E j \in 1..Len(q) : r[k] = q[j]
      BY <3>6, <3>8, PageIsOrdered
    <3>10. ASSUME query.least = NoFigure PROVE Len(q) = Len(answers)
      <4>1. kept = {e[k] : k \in 1..Len(rows)}
        BY <3>1, <3>10 DEF kept, PassesMetric
      <4>2. Cardinality(kept) = Len(rows)
        <5> DEFINE g == [k \in 1..Len(rows) |-> e[k]]
        <5>1. g \in Surjection(1..Len(rows), kept)
          BY <4>1 DEF Surjection
        <5>2. g \in Injection(1..Len(rows), kept)
          BY <1>1, <1>4, <4>1 DEF Injection, IsInjective, FetchingOk
        <5>3. IsFiniteSet(1..Len(rows)) /\ Cardinality(1..Len(rows)) = Len(rows)
          BY <1>5, FS_Interval
        <5> HIDE DEF g
        <5> QED BY <5>1, <5>2, <5>3, FS_Surjection
      <4>3. Requests = 1..Len(rows)
        BY <1>1, <2>2, RequestsAreRows DEF FetchingOk
      <4>4. Cardinality(1..Len(rows)) = Len(rows)
        BY <1>5, FS_Interval
      <4>5. Ended = {a.place : a \in ToSet(answers)}
        BY DEF Ended
      <4>6. Cardinality(Ended) = Len(answers)
        BY <1>1, <4>5, PlacesAreMany DEF AnswersOk
      <4> QED BY <1>1, <3>6, <4>2, <4>3, <4>4, <4>6
    <3>11. \A k \in 1..Len(r) : RowIsTrue(r[k])
      BY <3>3, <3>6, <3>9
    <3>14. query.least = NoFigure => Len(r) = PageLength(Len(answers), query.page)
      BY <3>7, <3>9, <3>10
    <3> QED BY <3>8, <3>9, <3>11, <3>12, <3>14
  <2> QED BY <2>1, <2>2
<1>9. PageOk'
  <2>1. (\A k \in 1..Len(rows) : RowIsTrue(rows[k]))'
    BY <1>1, <1>8 DEF RowIsTrue, ReadOf
  <2>2. Ordered(rows', query'.sort)
    BY <1>1, <1>8
  <2>3. NeedsPool(query') /\ query'.least = NoFigure =>
          Len(rows') = PageLength(Len(answers'), query'.page)
    BY <1>1, <1>8
  <2> QED BY <2>1, <2>2, <2>3 DEF PageOk, Ordered, PageLength
<1> QED BY <1>1, <1>6, <1>7, <1>8, <1>9 DEF ScanInv

LEMMA ScanSteps == ScanInv /\ [ScannerNext]_scannerVars => ScanInv'
<1> SUFFICES ASSUME ScanInv, [ScannerNext]_scannerVars PROVE ScanInv'
  OBVIOUS
<1>1. /\ query \in Queries /\ IsSequence(rows) /\ AnswersOk
      /\ fetching \subseteq 1..MaxMetricSymbols /\ scan \in {"ASKED", "FETCHING", "FAILED", "DONE"}
      /\ IsSequence(answers) /\ Len(answers) \in Nat
  BY DEF ScanInv, AnswersOk, IsSequence
<1>2. ASSUME NEW tickers \in [Universe -> Tickers], BuildRows(tickers) PROVE ScanInv'
  BY <1>2, BuildKeeps
<1>7. CASE UniverseFails
  <2>1. /\ rows = <<>> /\ answers = <<>> /\ fetching = {} /\ scan' = "FAILED"
        /\ UNCHANGED <<query, rows, fetching, answers>>
    BY <1>7 DEF UniverseFails, ScanInv
  <2>2. Len(rows) = 0 /\ Len(answers) = 0
    BY <2>1, EmptySequence
  <2>3. FetchingOk'
    <3>1. 0 <= MaxMetricSymbols
      BY ScannerAssumption
    <3> QED BY <2>1, <2>2, <3>1 DEF FetchingOk, Ordered
  <2>4. AnswersOk'
    BY <1>1, <2>1 DEF AnswersOk
  <2> QED BY <1>1, <2>1, <2>3, <2>4 DEF ScanInv
<1>3. CASE Fetch
  <2>1. /\ scan \in {"FETCHING", "FAILED"} /\ FetchingOk /\ UNCHANGED <<query, scan, rows, answers>>
    BY <1>3 DEF Fetch, ScanInv
  <2> DEFINE waiting == Requests \ (fetching \cup Ended)
  <2>2. waiting # {} /\ fetching' = fetching \cup {Min(waiting)}
    BY <1>3 DEF Fetch
  <2>3. Min(waiting) \in waiting
    <3>1. \E m \in waiting : \A n \in waiting : m <= n
      <4>1. waiting \in SUBSET Nat
        BY <1>1, RequestsAreRows
      <4> HIDE DEF waiting
      <4> QED BY <2>2, <4>1, LeastOfNaturals
    <3> HIDE DEF waiting
    <3> QED BY <3>1 DEF Min
  <2>4. PICK m : m \in waiting /\ fetching' = fetching \cup {m}
    BY <2>2, <2>3
  <2>5. m \in Requests /\ m \notin Ended /\ m \in 1..MaxMetricSymbols
    BY <1>1, <2>4, RequestsAreRows
  <2>6. \A k \in 1..Len(answers) : answers[k].place # m
    BY <1>1, <2>5, AnswersAreASet
  <2>7. AnswersOk'
    BY <1>1, <2>1, <2>4, <2>6 DEF AnswersOk
  <2>8. FetchingOk'
    BY <2>1, <2>4, <2>5 DEF FetchingOk, Requests
  <2>9. scan' = "FETCHING" => AllListed'
    BY <2>1 DEF ScanInv, AllListed
  <2> QED BY <1>1, <2>1, <2>4, <2>5, <2>7, <2>8, <2>9 DEF ScanInv
<1>4. ASSUME NEW i \in fetching, NEW got \in CandleReads, FetchEnds(i, got) PROVE ScanInv'
  <2>1. /\ scan \in {"FETCHING", "FAILED"} /\ FetchingOk /\ UNCHANGED <<query, rows>>
        /\ scan' = (IF got.status = "DELISTED" THEN "FAILED" ELSE scan)
        /\ fetching' = fetching \ {i} /\ i \in 1..MaxMetricSymbols /\ i \in Requests
    BY <1>1, <1>4 DEF FetchEnds, ScanInv, FetchingOk
  <2>2. PICK a : /\ answers' = Append(answers, a)
                 /\ a.place = i /\ a.symbol = rows[i].symbol /\ a.read = got
    BY <1>4 DEF FetchEnds
  <2>13. PICK n \in Nat : n = Len(answers)
    BY <1>1
  <2>3. PICK q : n = Len(answers) /\ q = Append(answers, a) /\ answers' = q
    BY <2>2, <2>13
  <2>4. /\ IsSequence(q) /\ Len(q) = n + 1 /\ q[n + 1] = a
        /\ \A k \in 1..n : q[k] = answers[k]
    BY <1>1, <2>3, Appended
  <2>5. \A k \in 1..(n + 1) : k = n + 1 \/ k \in 1..n
    OBVIOUS
  <2>6. /\ Requests \subseteq 1..Len(rows)
    BY <1>1, RequestsAreRows
  <2>7. ASSUME NEW k \in 1..n
        PROVE  /\ answers[k].place # i /\ answers[k].place \in (1..MaxMetricSymbols) \ fetching
               /\ answers[k].read \in CandleReads
               /\ answers[k].place \in Requests
               /\ answers[k].symbol = rows[answers[k].place].symbol
               /\ answers[k].symbol # a.symbol
    <3>1. /\ answers[k].place \in (1..MaxMetricSymbols) \ fetching
          /\ answers[k].read \in CandleReads
      BY <1>1, <2>3 DEF AnswersOk
    <3>2. /\ answers[k].place \in Requests
          /\ answers[k].symbol = rows[answers[k].place].symbol
      BY <2>1, <2>3 DEF FetchingOk
    <3>3. answers[k].place # i
      BY <3>1
    <3>4. answers[k].symbol # a.symbol
      BY <2>1, <2>2, <2>6, <3>2, <3>3 DEF FetchingOk
    <3> QED BY <3>1, <3>2, <3>3, <3>4
  <2>8. \A j, k \in 1..n : /\ answers[j].place = answers[k].place => j = k
                           /\ answers[j].symbol = answers[k].symbol => j = k
    BY <1>1, <2>3 DEF AnswersOk
  <2>9. ASSUME NEW k \in 1..(n + 1)
        PROVE  /\ q[k].place \in (1..MaxMetricSymbols) \ fetching' /\ q[k].read \in CandleReads
               /\ q[k].place \in Requests /\ q[k].symbol = rows[q[k].place].symbol
    <3>1. CASE k = n + 1
      BY <2>1, <2>2, <2>4, <3>1
    <3>2. CASE k \in 1..n
      BY <2>1, <2>4, <2>7, <3>2
    <3> QED BY <2>5, <3>1, <3>2
  <2>10. \A j, k \in 1..(n + 1) : /\ q[j].place = q[k].place => j = k
                                  /\ q[j].symbol = q[k].symbol => j = k
    BY <2>2, <2>4, <2>5, <2>7, <2>8
  <2>11. AnswersOk'
    BY <2>3, <2>4, <2>9, <2>10 DEF AnswersOk
  <2>12. FetchingOk'
    BY <2>1, <2>3, <2>4, <2>9 DEF FetchingOk, Requests
  <2>14. ASSUME scan' = "FETCHING" PROVE AllListed'
    <3>1. got.status # "DELISTED" /\ scan = "FETCHING"
      BY <2>1, <2>14
    <3>2. AllListed
      BY <3>1 DEF ScanInv
    <3>3. \A k \in 1..(n + 1) : q[k].read.status # "DELISTED"
      BY <2>2, <2>3, <2>4, <2>5, <3>1, <3>2 DEF AllListed
    <3> QED BY <2>3, <2>4, <3>3 DEF AllListed
  <2>15. scan' \in {"FETCHING", "FAILED"}
    BY <2>1
  <2> QED BY <1>1, <2>1, <2>11, <2>12, <2>14, <2>15 DEF ScanInv
<1>5. CASE Publish
  BY <1>5, PublishKeeps
<1>6. CASE UNCHANGED scannerVars
  <2>1. UNCHANGED <<query, scan, rows, fetching, answers>>
    BY <1>6 DEF scannerVars
  <2>2. AnswersOk'
    BY <1>1, <2>1 DEF AnswersOk
  <2>3. /\ scan \in {"FETCHING", "FAILED"} => FetchingOk'
        /\ scan = "FETCHING" => AllListed'
    BY <2>1 DEF ScanInv, FetchingOk, Requests, AllListed
  <2>4. ASSUME scan = "DONE" PROVE PageOk'
    <3>1. PageOk
      BY <2>4 DEF ScanInv
    <3>2. (\A k \in 1..Len(rows) : RowIsTrue(rows[k]))'
      BY <2>1, <3>1 DEF PageOk, RowIsTrue, ReadOf
    <3> QED BY <2>1, <3>1, <3>2 DEF PageOk, Ordered
  <2> QED BY <2>1, <2>2, <2>3, <2>4 DEF ScanInv
<1> QED BY <1>2, <1>3, <1>4, <1>5, <1>6, <1>7 DEF ScannerNext

(* Whatever the venue answers and in whatever order the reads end, a scan  *)
(* reads no symbol twice, and if it ends in a page, which one delisted     *)
(* symbol is enough to prevent, every row says what its own symbol's read  *)
(* gave and the page is ranked and whole (scanner.py:176-237, 362-594).    *)
THEOREM ScansAreWhole == ScannerSpec => []ScanIsWhole
<1>1. ScanInv => ScanIsWhole
  <2> SUFFICES ASSUME ScanInv PROVE ScanIsWhole
    OBVIOUS
  <2>1. DOMAIN answers = 1..Len(answers) /\ DOMAIN rows = 1..Len(rows)
    BY DEF ScanInv, AnswersOk, IsSequence
  <2>2. Len(answers) + Cardinality(fetching) <= MaxMetricSymbols
    <3>1. Ended = {a.place : a \in ToSet(answers)}
      BY DEF Ended
    <3>2. IsFiniteSet(Ended) /\ Cardinality(Ended) = Len(answers) /\ Len(answers) \in Nat
      BY <3>1, PlacesAreMany DEF ScanInv, AnswersOk
    <3>3. Ended = {answers[k].place : k \in 1..Len(answers)}
      BY AnswersAreASet DEF ScanInv
    <3>4. MaxMetricSymbols \in Nat
      BY ScannerAssumption
    <3>5. IsFiniteSet(1..MaxMetricSymbols) /\ Cardinality(1..MaxMetricSymbols) = MaxMetricSymbols
      BY <3>4, FS_Interval
    <3>6. Ended \cup fetching \subseteq 1..MaxMetricSymbols /\ Ended \cap fetching = {}
      <4>1. \A k \in 1..Len(answers) : answers[k].place \in (1..MaxMetricSymbols) \ fetching
        BY DEF ScanInv, AnswersOk
      <4>2. fetching \subseteq 1..MaxMetricSymbols
        BY DEF ScanInv
      <4> QED BY <3>3, <4>1, <4>2
    <3>7. IsFiniteSet(fetching) /\ Cardinality(fetching) \in Nat
      BY <3>5, <3>6, FS_Subset, FS_CardinalityType
    <3>8. Cardinality(Ended \cup fetching) = Cardinality(Ended) + Cardinality(fetching)
      <4>1. Cardinality(Ended \cap fetching) = 0
        BY <3>6, FS_EmptySet
      <4>2. Cardinality(Ended \cup fetching) =
              Cardinality(Ended) + Cardinality(fetching) - Cardinality(Ended \cap fetching)
        BY <3>2, <3>7, FS_Union
      <4> QED BY <3>2, <3>7, <4>1, <4>2
    <3>9. Cardinality(Ended \cup fetching) <= MaxMetricSymbols
      BY <3>5, <3>6, FS_Subset
    <3> QED BY <3>2, <3>8, <3>9
  <2>3. \A j, k \in DOMAIN answers : answers[j].symbol = answers[k].symbol => j = k
    BY <2>1 DEF ScanInv, AnswersOk
  <2>4. ASSUME scan = "DONE" PROVE PageOk
    BY <2>4 DEF ScanInv
  <2> QED BY <2>1, <2>2, <2>3, <2>4 DEF ScanIsWhole, PageOk, Ordered, InOrder
<1> QED BY <1>1, ScanStarts, ScanSteps, PTL DEF ScannerSpec

=============================================================================
