------------------------- MODULE PaperEngine_proofs -------------------------
(***************************************************************************)
(* Proofs about PaperEngine for any orders, prices, limits and days: what  *)
(* a tick leaves open rests at no level, a close is taken at the level the *)
(* price met first, a locked day stays locked, the money adds up and what  *)
(* is open stays inside the envelope.                                      *)
(***************************************************************************)
EXTENDS PaperEngine, Aggregates, TLAPS

(* Levels are hundredths of a tick, so the distance of a liquidation from  *)
(* its entry is at least one of them.                                      *)
LevelsResolve == Leverage <= 100

-----------------------------------------------------------------------------
(* Levels. *)

(* The fields of a position that its exits are decided by. *)
Levelled(p) ==
  /\ p.side \in Sides /\ p.trail \in 0..99
  /\ p.stop \in Int /\ p.target \in Int /\ p.liquidation \in Int /\ p.extreme \in Int

(* No exit of p is due at a price. *)
Quiet(p, price) ==
  /\ \A l \in AdverseLevels(p) : ~Against(p, l.level, price)
  /\ ~TargetReached(p, price)

LEMMA LevelIsInteger ==
  ASSUME NEW price \in Int, NEW percent \in 0..99, NEW above \in BOOLEAN
  PROVE  Level(price, percent, above) \in Int
BY DEF Level

(* The adverse levels, one by one. *)
LEMMA ThreeLevels ==
  ASSUME NEW p, Levelled(p)
  PROVE  \A l \in AdverseLevels(p) :
           /\ l.level \in Int /\ l.level # 0
           /\ \/ l.rank = 1 /\ l.reason = "LIQUIDATION" /\ l.level = p.liquidation
              \/ l.rank = 2 /\ l.reason = "STOP_LOSS" /\ l.level = p.stop
              \/ l.rank = 3 /\ l.reason = "TRAILING_STOP" /\ l.level = TrailingLevel(p)
<1>1. TrailingLevel(p) \in Int
  BY LevelIsInteger DEF Levelled, TrailingLevel
<1> QED BY <1>1 DEF AdverseLevels, Levelled

(* Of the levels reached one is met first. *)
LEMMA OneIsFirst ==
  ASSUME NEW p, Levelled(p), NEW reached \in SUBSET AdverseLevels(p), reached # {}
  PROVE  \E l \in reached : \A m \in reached : MetBefore(p, l, m)
<1>1. \A l, m \in reached : l.rank = m.rank => l.level = m.level
  BY ThreeLevels
<1>2. \A l \in reached : l.level \in Int /\ l.rank \in {1, 2, 3}
  BY ThreeLevels
<1>3. \A l, m \in reached : MetBefore(p, l, m) \/ MetBefore(p, m, l)
  BY <1>1, <1>2 DEF MetBefore
<1>4. \A l, m, n \in reached : MetBefore(p, l, m) /\ MetBefore(p, m, n) => MetBefore(p, l, n)
  BY <1>2 DEF MetBefore
<1>5. \A l, m, n \in reached : l.rank = m.rank => (MetBefore(p, l, n) <=> MetBefore(p, m, n))
  BY <1>1, <1>2 DEF MetBefore
<1>6. \A l, m \in reached : l.rank = m.rank => MetBefore(p, l, m)
  BY <1>3, <1>5
<1> HIDE DEF MetBefore
<1>7. PICK a \in reached : TRUE
  OBVIOUS
<1>8. PICK b \in reached : MetBefore(p, b, a) /\ (b.rank = a.rank => \A m \in reached : MetBefore(p, a, m))
  <2>1. CASE \A m \in reached : MetBefore(p, a, m)
    BY <1>7, <2>1
  <2>2. CASE \E m \in reached : ~MetBefore(p, a, m)
    <3>1. PICK m \in reached : ~MetBefore(p, a, m)
      BY <2>2
    <3>2. MetBefore(p, m, a) /\ m.rank # a.rank
      BY <1>3, <1>6, <1>7, <3>1
    <3> QED BY <3>2
  <2> QED BY <2>1, <2>2
<1>9. CASE \A m \in reached : MetBefore(p, b, m)
  BY <1>9
<1>10. CASE \E m \in reached : ~MetBefore(p, b, m)
  <2>1. PICK c \in reached : ~MetBefore(p, b, c)
    BY <1>10
  <2>2. MetBefore(p, c, b) /\ MetBefore(p, c, a) /\ c.rank # b.rank
    BY <1>3, <1>4, <1>6, <1>7, <1>8, <2>1
  <2>3. c.rank # a.rank \/ (\A m \in reached : MetBefore(p, a, m))
    <3> SUFFICES ASSUME c.rank = a.rank PROVE \A m \in reached : MetBefore(p, a, m)
      OBVIOUS
    <3>1. MetBefore(p, a, c) /\ MetBefore(p, b, a)
      BY <1>6, <1>7, <1>8
    <3>2. MetBefore(p, b, c)
      BY <1>4, <1>7, <3>1
    <3> QED BY <2>1, <3>2
  <2>4. CASE \A m \in reached : MetBefore(p, a, m)
    BY <1>7, <2>4
  <2>5. CASE b.rank # a.rank /\ c.rank # a.rank
    <3> SUFFICES ASSUME NEW m \in reached PROVE MetBefore(p, c, m)
      OBVIOUS
    <3>1. m.rank = a.rank \/ m.rank = b.rank \/ m.rank = c.rank
      BY <1>2, <1>7, <2>2, <2>5
    <3>2. MetBefore(p, a, m) \/ MetBefore(p, b, m) \/ MetBefore(p, c, m)
      BY <1>6, <1>7, <3>1
    <3> QED BY <1>4, <1>7, <2>2, <3>2
  <2> QED BY <1>8, <2>3, <2>4, <2>5
<1> QED BY <1>9, <1>10

(* What an exit says: nothing is due, a target is reached with no adverse  *)
(* level reached, or the level named was met before every other.           *)
LEMMA WhatFires ==
  ASSUME NEW p, Levelled(p), NEW price \in Int
  PROVE  LET reached == {l \in AdverseLevels(p) : Against(p, l.level, price)}
             exit == TriggeredExit(p, price)
         IN \/ exit = "NONE" /\ Quiet(p, price)
            \/ exit = "TAKE_PROFIT" /\ reached = {}
            \/ /\ exit \notin {"NONE", "TAKE_PROFIT", "MANUAL_CLOSE"}
               /\ \E l \in reached : l.reason = exit /\ \A m \in reached : MetBefore(p, l, m)
<1> DEFINE reached == {l \in AdverseLevels(p) : Against(p, l.level, price)}
<1>1. CASE reached = {}
  <2>1. TriggeredExit(p, price) = IF TargetReached(p, price) THEN "TAKE_PROFIT" ELSE "NONE"
    BY <1>1 DEF TriggeredExit
  <2> QED BY <1>1, <2>1 DEF Quiet
<1>2. CASE reached # {}
  <2> DEFINE l == CHOOSE l \in reached : \A m \in reached : MetBefore(p, l, m)
  <2>1. l \in reached /\ \A m \in reached : MetBefore(p, l, m)
    BY <1>2, OneIsFirst
  <2>2. TriggeredExit(p, price) = l.reason
    BY <1>2 DEF TriggeredExit
  <2> HIDE DEF l
  <2>3. l.reason \in {"LIQUIDATION", "STOP_LOSS", "TRAILING_STOP"}
    BY <2>1, ThreeLevels
  <2> QED BY <2>1, <2>2, <2>3
<1> QED BY <1>1, <1>2

LEMMA NoneIsQuiet ==
  ASSUME NEW p, Levelled(p), NEW price \in Int
  PROVE  TriggeredExit(p, price) = "NONE" <=> Quiet(p, price)
<1>1. Quiet(p, price) => TriggeredExit(p, price) = "NONE"
  BY DEF Quiet, TriggeredExit
<1> QED BY <1>1, WhatFires

-----------------------------------------------------------------------------
(* Prices and levels. *)

(* A price a market order fills at is a price. *)
LEMMA FillIsAPrice ==
  ASSUME NEW mark \in Marks, NEW buying \in BOOLEAN
  PROVE  /\ FillPrice(mark, buying) \in Nat /\ FillPrice(mark, buying) > 0
         /\ mark.last \in Nat /\ mark.last > 0
<1>1. /\ mark.last \in Nat /\ mark.last > 0 /\ mark.bid \in Nat /\ mark.ask \in Nat
      /\ mark.last > Slippage /\ Slippage \in Nat
  BY EngineAssumption, AccountAssumption
<1> QED BY <1>1 DEF FillPrice

(* A percentage away from a price lies away from it. *)
LEMMA PercentIsAway ==
  ASSUME NEW price \in Nat, price > 0, NEW percent \in 1..99
  PROVE  /\ price * (100 + percent) \in Int /\ price * (100 + percent) > 100 * price
         /\ price * (100 - percent) \in Int /\ price * (100 - percent) < 100 * price
<1> DEFINE d == price * percent
<1>1. d \in Int /\ d >= 1
  BY SMTT(60)
<1>2. price * (100 + percent) = 100 * price + d
  OBVIOUS
<1>3. price * (100 - percent) = 100 * price - d
  OBVIOUS
<1> DEFINE up100 == price * (100 + percent)
           down100 == price * (100 - percent)
           base == 100 * price
<1>4. base \in Int /\ up100 = base + d /\ down100 = base - d
  BY <1>2, <1>3
<1> HIDE DEF d, up100, down100, base
<1>5. up100 \in Int /\ up100 > base /\ down100 \in Int /\ down100 < base
  BY <1>1, <1>4
<1> QED BY <1>5 DEF up100, down100, base

LEMMA LiquidationIsAway ==
  ASSUME LevelsResolve, NEW entry \in Nat, entry > 0
  PROVE  /\ LiquidationLevel(entry, "LONG") < 100 * entry
         /\ LiquidationLevel(entry, "SHORT") > 100 * entry
         /\ \A side \in Sides : LiquidationLevel(entry, side) \in Int
<1> DEFINE n == 100 * entry
           move == n \div Leverage
<1>1. Leverage \in Nat /\ Leverage > 0 /\ Leverage <= 100
  BY AccountAssumption DEF LevelsResolve
<1>2. n \in Nat /\ n >= Leverage
  BY <1>1
<1> HIDE DEF n
<1>3. move \in Int /\ move >= 1
  BY <1>1, <1>2
<1> HIDE DEF move
<1>4. \A side : LiquidationLevel(entry, side) = IF side = "LONG" THEN n - move ELSE n + move
  BY DEF LiquidationLevel, move, n
<1> QED BY <1>2, <1>3, <1>4 DEF n

(* A position opens between its levels. *)
LEMMA OpensQuiet ==
  ASSUME LevelsResolve, NEW r \in Orders, NEW mark \in Marks
  PROVE  LET p == PositionFor(r, mark)
         IN Levelled(p) /\ p.entry \in Int /\ Quiet(p, p.entry)
<1> DEFINE p == PositionFor(r, mark)
           price == FillPrice(mark, r.side = "LONG")
<1>1. r.side \in Sides /\ r.stop \in 0..99 /\ r.target \in 0..99 /\ r.trail \in 0..99
  BY EngineAssumption
<1>2. price \in Nat /\ price > 0
  BY FillIsAPrice
<1> DEFINE Above(percent) == price * (100 + percent)
           Below(percent) == price * (100 - percent)
           long == r.side = "LONG"
<1>3. /\ p.side = r.side /\ p.entry = price /\ p.trail = r.trail
      /\ p.stop = IF r.stop = 0 THEN 0 ELSE IF long THEN Below(r.stop) ELSE Above(r.stop)
      /\ p.target = IF r.target = 0 THEN 0 ELSE IF long THEN Above(r.target) ELSE Below(r.target)
      /\ p.liquidation = LiquidationLevel(price, r.side)
      /\ p.extreme = IF r.trail # 0 THEN price ELSE 0
  BY DEF PositionFor, Level
<1>4. TrailingLevel(p) =
        IF r.trail = 0 THEN 0 ELSE IF r.side = "SHORT" THEN Above(r.trail) ELSE Below(r.trail)
  BY <1>3 DEF TrailingLevel, Level
<1> HIDE DEF p, price
<1>5. \A percent \in 1..99 :
        /\ Above(percent) \in Int /\ Above(percent) > 100 * price
        /\ Below(percent) \in Int /\ Below(percent) < 100 * price
  BY <1>2, PercentIsAway
<1> HIDE DEF Above, Below
<1>6. Levelled(p)
  <2>1. p.stop \in Int
    BY <1>1, <1>3, <1>5
  <2>2. p.target \in Int
    BY <1>1, <1>3, <1>5
  <2>3. p.liquidation \in Int
    BY <1>1, <1>2, <1>3, LiquidationIsAway
  <2>4. p.extreme \in Int
    BY <1>2, <1>3
  <2> QED BY <1>1, <1>3, <2>1, <2>2, <2>3, <2>4 DEF Levelled
<1>7. ASSUME NEW l \in AdverseLevels(p) PROVE ~Against(p, l.level, price)
  <2>1. /\ l.level \in Int /\ l.level # 0
        /\ l.level \in {p.liquidation, p.stop, TrailingLevel(p)}
    BY <1>6, ThreeLevels
  <2>2. CASE l.level = p.liquidation
    BY <1>1, <1>2, <1>3, <2>1, <2>2, LiquidationIsAway DEF Against, Sides
  <2>3. CASE l.level = p.stop
    BY <1>1, <1>2, <1>3, <1>5, <2>1, <2>3 DEF Against, Sides
  <2>4. CASE l.level = TrailingLevel(p)
    BY <1>1, <1>2, <1>3, <1>4, <1>5, <2>1, <2>4 DEF Against, Sides
  <2> QED BY <2>1, <2>2, <2>3, <2>4
<1>8. ~TargetReached(p, price)
  BY <1>1, <1>2, <1>3, <1>5 DEF TargetReached, Sides
<1> QED BY <1>2, <1>3, <1>6, <1>7, <1>8 DEF Quiet, p

(* The trail follows the price and stays away from it. *)
LEMMA TrailsQuiet ==
  ASSUME NEW p, Levelled(p), NEW price \in Nat, price > 0, Quiet(p, price),
         NEW q, q = AdvanceTrail([p EXCEPT !.mark = price], price),
         DOMAIN p = DOMAIN Flat
  PROVE  Levelled(q) /\ Quiet(q, price) /\ DOMAIN q = DOMAIN Flat
<1>1. /\ q.side = p.side /\ q.trail = p.trail /\ q.stop = p.stop /\ q.target = p.target
      /\ q.liquidation = p.liquidation /\ DOMAIN q = DOMAIN Flat
      /\ q.extreme \in {p.extreme, price} /\ (q.trail = 0 => q.extreme = p.extreme)
  BY DEF AdvanceTrail, Flat
<1>2. Levelled(q)
  BY <1>1 DEF Levelled
<1>3. ~TargetReached(q, price)
  BY <1>1 DEF Quiet, TargetReached
<1>4. ASSUME NEW l \in AdverseLevels(q) PROVE ~Against(q, l.level, price)
  <2>1. CASE l \in AdverseLevels(p)
    BY <1>1, <2>1 DEF Quiet, Against
  <2>2. CASE l \notin AdverseLevels(p)
    <3>1. l.level = TrailingLevel(q) /\ l.level # 0 /\ q.extreme # p.extreme
      BY <1>1, <2>2 DEF AdverseLevels, TrailingLevel
    <3>2. q.extreme = price /\ q.trail \in 1..99 /\ q.side \in Sides
      BY <1>1, <3>1 DEF Levelled
    <3>3. TrailingLevel(q) = IF q.side = "SHORT" THEN price * (100 + q.trail)
                                                ELSE price * (100 - q.trail)
      BY <3>2 DEF TrailingLevel, Level
    <3> QED BY <3>1, <3>2, <3>3, PercentIsAway DEF Against, Sides
  <2> QED BY <2>1, <2>2
<1> QED BY <1>1, <1>2, <1>3, <1>4 DEF Quiet

-----------------------------------------------------------------------------
(* What the methods make of an account: its positions, its date and lock.  *)

Account(a) ==
  /\ DOMAIN a = {"starting", "balance", "realized", "stopped", "session", "positions"}
  /\ DOMAIN a.session = {"date", "realized", "lock"}
  /\ a.positions = [s \in Symbols |-> a.positions[s]]

SameDay(b, a) == b.session.date = a.session.date /\ b.session.lock = a.session.lock

LEMMA FreshAccount == ASSUME NEW balance PROVE
  Account(Fresh(balance)) /\ Fresh(balance).positions = [s \in Symbols |-> Flat]
BY DEF Account, Fresh, NewSession

LEMMA EnsuredAccount ==
  ASSUME NEW a, Account(a), NEW d
  PROVE  LET b == EnsureSession(a, d)
         IN /\ Account(b) /\ b.positions = a.positions /\ b.session.date = d
            /\ a.session.date = d => b = a
BY DEF EnsureSession, Account, NewSession

LEMMA RealizedAccount ==
  ASSUME NEW a, Account(a), NEW amount
  PROVE  LET b == Realize(a, amount)
         IN Account(b) /\ b.positions = a.positions /\ SameDay(b, a)
BY DEF Realize, Account, SameDay

LEMMA LockedSession ==
  ASSUME NEW session, DOMAIN session = {"date", "realized", "lock"}
  PROVE  /\ DOMAIN Locked(session) = {"date", "realized", "lock"}
         /\ Locked(session).date = session.date
         /\ session.lock # "NONE" => Locked(session) = session
BY DEF Locked

LEMMA ClosedAccount ==
  ASSUME NEW a, Account(a), NEW s \in Symbols, NEW mark, NEW d
  PROVE  LET b == Closed(a, s, mark, d)
         IN /\ Account(b) /\ b.positions = [a.positions EXCEPT ![s] = Flat]
            /\ b.session.date = d
            /\ a.session.date = d /\ a.session.lock # "NONE" => SameDay(b, a)
<1> DEFINE e == EnsureSession(a, d)
           amount == Proceeds(a.positions[s], mark)
           r == Realize(e, amount)
           b == [r EXCEPT !.positions[s] = Flat, !.session = Locked(r.session)]
<1>1. Closed(a, s, mark, d) = b
  BY DEF Closed
<1>2. /\ Account(e) /\ e.positions = a.positions /\ e.session.date = d
      /\ a.session.date = d => e = a
  BY EnsuredAccount
<1> HIDE DEF e, amount
<1>3. Account(r) /\ r.positions = e.positions /\ SameDay(r, e)
  BY <1>2, RealizedAccount
<1> HIDE DEF r
<1>4. /\ DOMAIN Locked(r.session) = {"date", "realized", "lock"}
      /\ Locked(r.session).date = r.session.date
      /\ r.session.lock # "NONE" => Locked(r.session) = r.session
  BY <1>3, LockedSession DEF Account
<1>5. /\ b.positions = [r.positions EXCEPT ![s] = Flat] /\ b.session = Locked(r.session)
      /\ DOMAIN b = DOMAIN r
  BY <1>3 DEF Account
<1> HIDE DEF b
<1>6. Account(b)
  BY <1>3, <1>4, <1>5 DEF Account
<1> QED BY <1>1, <1>2, <1>3, <1>4, <1>5, <1>6 DEF SameDay

LEMMA OpenedAccount ==
  ASSUME NEW a, Account(a), NEW r, r.symbol \in Symbols, NEW mark
  PROVE  LET b == Opened(a, r, mark)
         IN /\ Account(b) /\ b.positions = [a.positions EXCEPT ![r.symbol] = PositionFor(r, mark)]
            /\ SameDay(b, a)
<1> DEFINE p == PositionFor(r, mark)
           amount == -p.fee
           e == Realize(a, amount)
           b == [e EXCEPT !.positions[r.symbol] = p]
<1>1. Opened(a, r, mark) = b
  BY DEF Opened
<1> HIDE DEF p, amount
<1>2. Account(e) /\ e.positions = a.positions /\ SameDay(e, a)
  BY RealizedAccount
<1> HIDE DEF e
<1>3. b.positions = [e.positions EXCEPT ![r.symbol] = p] /\ DOMAIN b = DOMAIN e /\ b.session = e.session
  BY <1>2 DEF Account
<1> HIDE DEF b
<1>4. Account(b)
  BY <1>2, <1>3 DEF Account
<1> QED BY <1>1, <1>2, <1>3, <1>4 DEF p, SameDay

LEMMA SubmittedAccount ==
  ASSUME NEW a, Account(a), NEW r, r.symbol \in Symbols, NEW mark, NEW d
  PROVE  LET b == Submitted(a, r, mark, d)
         IN /\ Account(b) /\ b.session.date = d
            /\ \/ b.positions = a.positions
               \/ /\ ~IsOpen(a, r.symbol)
                  /\ b.positions = [a.positions EXCEPT ![r.symbol] = PositionFor(r, mark)]
            /\ a.session.date = d /\ a.session.lock # "NONE" => b = a
<1> DEFINE e == EnsureSession(a, d)
<1>1. /\ Account(e) /\ e.positions = a.positions /\ e.session.date = d
      /\ a.session.date = d => e = a
  BY EnsuredAccount
<1>2. Submitted(a, r, mark, d) = IF MayOpen(e, r, mark) THEN Opened(e, r, mark) ELSE e
  BY DEF Submitted
<1> HIDE DEF e
<1>3. MayOpen(e, r, mark) => ~IsOpen(e, r.symbol) /\ e.session.lock = "NONE"
  BY DEF MayOpen, MayOpenAnything
<1>4. /\ Account(Opened(e, r, mark))
      /\ Opened(e, r, mark).positions = [e.positions EXCEPT ![r.symbol] = PositionFor(r, mark)]
      /\ SameDay(Opened(e, r, mark), e)
  BY <1>1, OpenedAccount
<1>5. IsOpen(e, r.symbol) <=> IsOpen(a, r.symbol)
  BY <1>1 DEF IsOpen
<1> QED BY <1>1, <1>2, <1>3, <1>4, <1>5 DEF SameDay

(* A look at a position: it is closed, or marked and trailed.              *)
LEMMA ManagedAccount ==
  ASSUME NEW a, Account(a), NEW s \in Symbols, DOMAIN a.positions[s] = DOMAIN Flat, NEW mark, NEW d
  PROVE  LET b == Managed(a, s, mark, d)
             p == a.positions[s]
         IN /\ Account(b)
            /\ a.session.date = d => b.session.date = d
            /\ a.session.date = d /\ a.session.lock # "NONE" => SameDay(b, a)
            /\ \/ ~mark.usable /\ b.positions = [a.positions EXCEPT ![s] = [p EXCEPT !.mark = 0]]
               \/ /\ mark.usable /\ TriggeredExit(p, mark.last) # "NONE"
                  /\ b.positions = [a.positions EXCEPT ![s] = Flat]
               \/ /\ mark.usable /\ TriggeredExit(p, mark.last) = "NONE"
                  /\ b.positions = [a.positions EXCEPT
                        ![s] = AdvanceTrail([p EXCEPT !.mark = mark.last], mark.last)]
<1> DEFINE b == Managed(a, s, mark, d)
           p == a.positions[s]
<1>1. CASE ~mark.usable
  <2>1. b = [a EXCEPT !.positions[s].mark = 0]
    BY <1>1 DEF Managed
  <2>2. /\ b.positions = [a.positions EXCEPT ![s] = [p EXCEPT !.mark = 0]]
        /\ b.session = a.session /\ DOMAIN b = DOMAIN a
    BY <2>1 DEF Account
  <2> HIDE DEF b
  <2> QED BY <1>1, <2>2 DEF Account, SameDay, b
<1>2. CASE mark.usable /\ TriggeredExit(p, mark.last) # "NONE"
  <2>1. b = Closed(a, s, mark, d)
    BY <1>2 DEF Managed
  <2>2. /\ Account(Closed(a, s, mark, d))
        /\ Closed(a, s, mark, d).positions = [a.positions EXCEPT ![s] = Flat]
        /\ Closed(a, s, mark, d).session.date = d
        /\ a.session.date = d /\ a.session.lock # "NONE" => SameDay(Closed(a, s, mark, d), a)
    BY ClosedAccount
  <2> HIDE DEF b
  <2> QED BY <1>2, <2>1, <2>2 DEF b
<1>3. CASE mark.usable /\ TriggeredExit(p, mark.last) = "NONE"
  <2> DEFINE q == AdvanceTrail([p EXCEPT !.mark = mark.last], mark.last)
  <2>1. b = [a EXCEPT !.positions[s] = q]
    BY <1>3 DEF Managed
  <2> HIDE DEF q
  <2>2. /\ b.positions = [a.positions EXCEPT ![s] = q]
        /\ b.session = a.session /\ DOMAIN b = DOMAIN a
    BY <2>1 DEF Account
  <2> HIDE DEF b
  <2> QED BY <1>3, <2>2 DEF Account, SameDay, b, q
<1> QED BY <1>1, <1>2, <1>3

LEMMA ManagedDay ==
  ASSUME NEW a, Account(a), NEW s \in Symbols, DOMAIN a.positions[s] = DOMAIN Flat,
         NEW mark, NEW d, a.session.date = d, a.session.lock # "NONE",
         NEW b, b = Managed(a, s, mark, d)
  PROVE  SameDay(b, a) /\ \A t \in Symbols \ {s} : b.positions[t] = a.positions[t]
<1> DEFINE p == a.positions[s]
           q == AdvanceTrail([p EXCEPT !.mark = mark.last], mark.last)
           c == Closed(a, s, mark, d)
<1>1. CASE ~mark.usable
  <2>1. b = [a EXCEPT !.positions[s].mark = 0]
    BY <1>1 DEF Managed
  <2> QED BY <2>1 DEF Account, SameDay
<1>2. CASE b = c
  <2>1. SameDay(c, a) /\ c.positions = [a.positions EXCEPT ![s] = Flat]
    BY ClosedAccount
  <2> HIDE DEF c
  <2> QED BY <1>2, <2>1 DEF Account
<1>3. CASE b = [a EXCEPT !.positions[s] = q]
  <2> HIDE DEF q
  <2> QED BY <1>3 DEF Account, SameDay
<1> QED BY <1>1, <1>2, <1>3 DEF Managed

-----------------------------------------------------------------------------
(* The inductive invariant: what is open is at rest where it was last seen. *)

Stands(s) ==
  IsOpen(account, s) =>
    /\ DOMAIN account.positions[s] = DOMAIN Flat /\ account.positions[s].side \in Sides
    /\ LevelsResolve => Levelled(account.positions[s]) /\ Quiet(account.positions[s], path[s])

Standing ==
  /\ Account(account)
  /\ path = [s \in Symbols |-> path[s]] /\ \A s \in Symbols : path[s] \in Int
  /\ managing \subseteq OpenSymbols(account)
  /\ \A s \in Symbols : Stands(s)

IInv == Standing /\ (LevelsResolve => NearestLevelFires)

LEMMA NoCloseFires == last.reason \in {"NONE", "MANUAL_CLOSE"} => NearestLevelFires
BY DEF NearestLevelFires

(* Steps that leave the positions where they are. *)
LEMMA Unmoved ==
  ASSUME Standing, Account(account'), account'.positions = account.positions,
         path' = path, managing' \subseteq OpenSymbols(account)
  PROVE  Standing'
BY DEF Standing, Stands, OpenSymbols, IsOpen

(* Steps that move one position. *)
LEMMA OneMoved ==
  ASSUME Standing, NEW s \in Symbols, Account(account'), NEW q, NEW x \in Int,
         account'.positions = [account.positions EXCEPT ![s] = q],
         path' = [path EXCEPT ![s] = x], managing' \subseteq managing \ {s},
         q # Flat => /\ DOMAIN q = DOMAIN Flat /\ q.side \in Sides
                     /\ LevelsResolve => Levelled(q) /\ Quiet(q, x)
  PROVE  Standing'
<1>1. /\ account'.positions[s] = q /\ path'[s] = x
      /\ \A t \in Symbols \ {s} : account'.positions[t] = account.positions[t] /\ path'[t] = path[t]
  BY DEF Standing, Account
<1>2. path' = [t \in Symbols |-> path'[t]] /\ \A t \in Symbols : path'[t] \in Int
  BY <1>1 DEF Standing
<1>3. managing' \subseteq OpenSymbols(account')
  BY <1>1 DEF Standing, OpenSymbols, IsOpen
<1>4. \A t \in Symbols : Stands(t)'
  BY <1>1 DEF Standing, Stands, IsOpen
<1> QED BY <1>2, <1>3, <1>4 DEF Standing

LEMMA Starts == Init => IInv
<1> SUFFICES ASSUME Init PROVE IInv
  OBVIOUS
<1>1. Account(account) /\ account.positions = [s \in Symbols |-> Flat]
  BY FreshAccount DEF Init
<1>2. Standing
  BY <1>1 DEF Init, Standing, Stands, IsOpen
<1>3. NearestLevelFires
  BY NoCloseFires DEF Init, NoClose
<1> QED BY <1>2, <1>3 DEF IInv

LEMMA SubmitStep == ASSUME Standing, SubmitOrder PROVE Standing' /\ NearestLevelFires'
<1>1. PICK r \in Orders, mark \in Marks, now \in DatesToWrite :
        /\ Idle
        /\ account' = Submitted(account, r, mark, now)
        /\ IF IsOpen(account', r.symbol) /\ ~IsOpen(account, r.symbol)
             THEN /\ entries' = entries + 1
                  /\ path' = [path EXCEPT ![r.symbol] = account'.positions[r.symbol].entry]
             ELSE UNCHANGED <<entries, path>>
        /\ last' = NoClose
        /\ UNCHANGED <<day, managing, net>>
  BY DEF SubmitOrder
<1> DEFINE s == r.symbol
           q == PositionFor(r, mark)
<1>2. s \in Symbols /\ managing' = {}
  BY <1>1, EngineAssumption DEF Idle
<1>3. /\ Account(account')
      /\ \/ account'.positions = account.positions
         \/ /\ ~IsOpen(account, s)
            /\ account'.positions = [account.positions EXCEPT ![s] = q]
  <2>1. Account(account) /\ r.symbol \in Symbols
    BY <1>2 DEF Standing
  <2> HIDE DEF s, q
  <2>2. LET b == Submitted(account, r, mark, now)
        IN /\ Account(b) /\ b.session.date = now
           /\ \/ b.positions = account.positions
              \/ /\ ~IsOpen(account, r.symbol)
                 /\ b.positions = [account.positions EXCEPT ![r.symbol] = PositionFor(r, mark)]
           /\ account.session.date = now /\ account.session.lock # "NONE" => b = account
    BY <2>1, SubmittedAccount
  <2> QED BY <1>1, <2>2 DEF s, q
<1>4. NearestLevelFires'
  BY <1>1, NoCloseFires DEF NoClose, NearestLevelFires
<1>5. CASE account'.positions = account.positions
  <2>1. path' = path
    BY <1>1, <1>5 DEF IsOpen
  <2> QED BY <1>2, <1>3, <1>4, <1>5, <2>1, Unmoved
<1>6. CASE ~IsOpen(account, s) /\ account'.positions = [account.positions EXCEPT ![s] = q]
  <2>1. /\ q.side = r.side /\ r.side \in Sides /\ r.side # "NONE" /\ Flat.side = "NONE"
        /\ DOMAIN q = DOMAIN Flat
    BY EngineAssumption DEF PositionFor, Flat, Sides
  <2>2. q.entry \in Int
    <3> DEFINE price == FillPrice(mark, r.side = "LONG")
    <3>1. price \in Nat /\ price > 0
      BY FillIsAPrice
    <3> QED BY <3>1 DEF PositionFor
  <2>3. LevelsResolve => Levelled(q) /\ Quiet(q, q.entry)
    BY OpensQuiet
  <2> HIDE DEF q
  <2>4. account'.positions[s] = q /\ q # Flat
    BY <1>2, <1>6, <2>1 DEF Standing, Account
  <2>5. path' = [path EXCEPT ![s] = q.entry]
    BY <1>1, <1>6, <2>4 DEF IsOpen
  <2> QED BY <1>2, <1>3, <1>4, <1>6, <2>1, <2>2, <2>3, <2>5, OneMoved
<1> QED BY <1>3, <1>5, <1>6

(* The heart of tick: a position is looked at, and closed at the first     *)
(* level the price met since it was last seen, or left at rest.            *)
LEMMA ManageStep ==
  ASSUME Standing, ManagePosition
  PROVE  Standing' /\ (LevelsResolve => NearestLevelFires')
<1>1. PICK s \in managing, mark \in Marks :
        /\ account' = Managed(account, s, mark, account.session.date)
        /\ managing' = managing \ {s}
        /\ CASE ~IsOpen(account', s) ->
                  Records(s, mark, TriggeredExit(account.positions[s], mark.last))
             [] IsOpen(account', s) /\ mark.usable ->
                  /\ path' = [path EXCEPT ![s] = mark.last]
                  /\ last' = NoClose /\ UNCHANGED <<entries, net>>
             [] OTHER -> last' = NoClose /\ UNCHANGED history
  BY DEF ManagePosition
<1> DEFINE p == account.positions[s]
           seen == [p EXCEPT !.mark = mark.last]
           q == AdvanceTrail(seen, mark.last)
<1>2. s \in Symbols /\ IsOpen(account, s)
  BY DEF Standing, OpenSymbols
<1>3. /\ DOMAIN p = DOMAIN Flat /\ p.side \in Sides
      /\ LevelsResolve => Levelled(p) /\ Quiet(p, path[s])
  BY <1>2 DEF Standing, Stands
<1>4. mark.last \in Nat /\ mark.last > 0
  BY FillIsAPrice
<1>5. /\ Account(account')
      /\ \/ ~mark.usable /\ account'.positions = [account.positions EXCEPT ![s] = [p EXCEPT !.mark = 0]]
         \/ /\ mark.usable /\ TriggeredExit(p, mark.last) # "NONE"
            /\ account'.positions = [account.positions EXCEPT ![s] = Flat]
         \/ /\ mark.usable /\ TriggeredExit(p, mark.last) = "NONE"
            /\ account'.positions = [account.positions EXCEPT ![s] = q]
  <2> DEFINE d == account.session.date
             b == Managed(account, s, mark, d)
  <2>1. Account(account) /\ DOMAIN account.positions[s] = DOMAIN Flat
    BY <1>3 DEF Standing
  <2> HIDE DEF d
  <2>2. /\ Account(b)
        /\ account.session.date = d => b.session.date = d
        /\ account.session.date = d /\ account.session.lock # "NONE" => SameDay(b, account)
        /\ \/ ~mark.usable /\ b.positions = [account.positions EXCEPT ![s] = [p EXCEPT !.mark = 0]]
           \/ /\ mark.usable /\ TriggeredExit(p, mark.last) # "NONE"
              /\ b.positions = [account.positions EXCEPT ![s] = Flat]
           \/ /\ mark.usable /\ TriggeredExit(p, mark.last) = "NONE"
              /\ b.positions = [account.positions EXCEPT ![s] = q]
    BY <1>2, <2>1, ManagedAccount
  <2>3. account' = b
    BY <1>1 DEF d
  <2> HIDE DEF b, p, q
  <2> QED BY <2>2, <2>3
<1>6. DOMAIN account.positions = Symbols /\ Flat.side \notin Sides
  BY DEF Standing, Account, Flat, Sides
<1>7. CASE ~mark.usable /\ account'.positions = [account.positions EXCEPT ![s] = [p EXCEPT !.mark = 0]]
  <2> DEFINE u == [p EXCEPT !.mark = 0]
  <2>1. /\ DOMAIN u = DOMAIN Flat /\ u.side = p.side /\ u.stop = p.stop /\ u.target = p.target
        /\ u.liquidation = p.liquidation /\ u.trail = p.trail /\ u.extreme = p.extreme
    BY <1>3 DEF Flat
  <2> HIDE DEF u
  <2>2. u # Flat /\ account'.positions = [account.positions EXCEPT ![s] = u]
    BY <1>3, <1>6, <1>7, <2>1 DEF u
  <2>3. account'.positions[s] = u
    BY <1>2, <1>6, <2>2
  <2>4. last' = NoClose /\ path' = path
    BY <1>1, <1>7, <2>2, <2>3 DEF IsOpen, history
  <2>5. path' = [path EXCEPT ![s] = path[s]] /\ path[s] \in Int
    BY <1>2, <2>4 DEF Standing
  <2>6. Levelled(p) => Levelled(u)
    BY <2>1 DEF Levelled
  <2>7. Quiet(p, path[s]) => Quiet(u, path[s])
    BY <2>1 DEF Quiet, AdverseLevels, TrailingLevel, Against, TargetReached
  <2>8. Standing'
    BY <1>1, <1>2, <1>3, <1>5, <2>1, <2>2, <2>5, <2>6, <2>7, OneMoved
  <2> QED BY <2>4, <2>8, NoCloseFires DEF NoClose, NearestLevelFires
<1>8. CASE /\ mark.usable /\ TriggeredExit(p, mark.last) = "NONE"
           /\ account'.positions = [account.positions EXCEPT ![s] = q]
  <2>1. q.side = p.side /\ DOMAIN q = DOMAIN Flat
    BY <1>3 DEF AdvanceTrail, Flat
  <2>2. LevelsResolve => Levelled(q) /\ Quiet(q, mark.last)
    BY <1>3, <1>4, <1>8, NoneIsQuiet, TrailsQuiet
  <2> HIDE DEF q
  <2>3. q # Flat /\ account'.positions[s] = q
    BY <1>2, <1>3, <1>6, <1>8, <2>1
  <2>4. last' = NoClose /\ path' = [path EXCEPT ![s] = mark.last]
    BY <1>1, <1>8, <2>3 DEF IsOpen
  <2>5. /\ Account(account') /\ account'.positions = [account.positions EXCEPT ![s] = q]
        /\ mark.last \in Int /\ managing' \subseteq managing \ {s} /\ q.side \in Sides
    BY <1>1, <1>3, <1>4, <1>5, <1>8, <2>1
  <2>6. Standing'
    BY <1>2, <2>1, <2>2, <2>4, <2>5, OneMoved
  <2> QED BY <2>4, <2>6, NoCloseFires DEF NoClose, NearestLevelFires
<1>9. CASE /\ mark.usable /\ TriggeredExit(p, mark.last) # "NONE"
           /\ account'.positions = [account.positions EXCEPT ![s] = Flat]
  <2> DEFINE exit == TriggeredExit(p, mark.last)
  <2>1. Records(s, mark, exit)
    BY <1>1, <1>2, <1>6, <1>9 DEF IsOpen
  <2>2. /\ last' = [reason |-> exit, position |-> p, from |-> path[s], to |-> mark.last]
        /\ path' = [path EXCEPT ![s] = 0]
    BY <2>1 DEF Records
  <2>3. Standing'
    <3>1. /\ Account(account') /\ account'.positions = [account.positions EXCEPT ![s] = Flat]
          /\ 0 \in Int /\ managing' \subseteq managing \ {s}
      BY <1>1, <1>5, <1>9
    <3> QED BY <1>2, <2>2, <3>1, OneMoved
  <2>4. ASSUME LevelsResolve PROVE NearestLevelFires'
    <3> DEFINE reached == {l \in AdverseLevels(p) : Against(p, l.level, mark.last)}
    <3>1. \/ exit = "TAKE_PROFIT" /\ reached = {}
          \/ /\ exit \notin {"NONE", "TAKE_PROFIT", "MANUAL_CLOSE"}
             /\ \E l \in reached : l.reason = exit /\ \A m \in reached : MetBefore(p, l, m)
      BY <1>3, <1>4, <1>9, <2>4, WhatFires
    <3>2. \A l \in reached : l.level \in Int /\ ~Against(p, l.level, path[s])
      BY <1>3, <2>4, ThreeLevels DEF Quiet
    <3>3. last'.reason = exit /\ last'.position = p /\ last'.from = path[s] /\ last'.to = mark.last
      BY <2>2
    <3> HIDE DEF exit, p
    <3>4. CASE exit = "TAKE_PROFIT" /\ reached = {}
      BY <3>3, <3>4 DEF NearestLevelFires
    <3>5. CASE /\ exit \notin {"NONE", "TAKE_PROFIT", "MANUAL_CLOSE"}
               /\ \E l \in reached : l.reason = exit /\ \A m \in reached : MetBefore(p, l, m)
      <4>1. PICK l \in reached : l.reason = exit /\ \A m \in reached : MetBefore(p, l, m)
        BY <3>5
      <4>2. \A m \in reached : ~(IF p.side = "LONG" THEN l.level < m.level ELSE l.level > m.level)
        BY <3>2, <4>1 DEF MetBefore
      <4> QED BY <3>2, <3>3, <3>5, <4>1, <4>2 DEF NearestLevelFires
    <3> QED BY <3>1, <3>4, <3>5
  <2> QED BY <2>3, <2>4
<1> QED BY <1>5, <1>7, <1>8, <1>9

LEMMA TickStep == ASSUME Standing, Tick PROVE Standing' /\ NearestLevelFires'
<1>1. \A d : /\ Account(EnsureSession(account, d))
            /\ EnsureSession(account, d).positions = account.positions
  BY EnsuredAccount DEF Standing
<1>2. Standing'
  BY <1>1, Unmoved DEF Tick, history
<1> QED BY <1>2, NoCloseFires DEF Tick, NoClose, NearestLevelFires

LEMMA CloseStep == ASSUME Standing, ClosePosition PROVE Standing' /\ NearestLevelFires'
<1>1. PICK s \in Symbols, mark \in Marks :
        /\ Idle
        /\ account' = ClosedByHand(account, s, mark, day)
        /\ IF IsOpen(account, s) /\ mark.usable
             THEN Records(s, mark, "MANUAL_CLOSE") ELSE last' = NoClose /\ UNCHANGED history
        /\ UNCHANGED <<day, managing>>
  BY DEF ClosePosition
<1>2. last'.reason \in {"NONE", "MANUAL_CLOSE"}
  BY <1>1 DEF Records, NoClose
<1>3. NearestLevelFires'
  BY <1>2 DEF NearestLevelFires
<1>4. CASE IsOpen(account, s) /\ mark.usable
  <2>1. account' = Closed(account, s, mark, day)
    BY <1>1, <1>4 DEF ClosedByHand
  <2>2. Account(account') /\ account'.positions = [account.positions EXCEPT ![s] = Flat]
    BY <2>1, ClosedAccount DEF Standing
  <2>3. path' = [path EXCEPT ![s] = 0] /\ managing' \subseteq managing \ {s} /\ 0 \in Int
    BY <1>1, <1>4 DEF Records, Idle
  <2> QED BY <1>3, <2>2, <2>3, OneMoved
<1>5. CASE ~(IsOpen(account, s) /\ mark.usable)
  <2>1. account' = EnsureSession(account, day)
    BY <1>1, <1>5 DEF ClosedByHand
  <2>2. Account(account') /\ account'.positions = account.positions
    BY <2>1, EnsuredAccount DEF Standing
  <2>3. path' = path /\ managing' \subseteq OpenSymbols(account)
    BY <1>1, <1>5 DEF history, Idle
  <2> QED BY <1>3, <2>2, <2>3, Unmoved
<1> QED BY <1>4, <1>5

LEMMA ResetStep == ASSUME Standing, Reset PROVE Standing' /\ NearestLevelFires'
<1>1. PICK balance \in Balances :
        /\ account' = EnsureSession(Fresh(balance), day) /\ managing' = {}
        /\ path' = [s \in Symbols |-> 0] /\ last' = NoClose
  BY DEF Reset, Idle
<1>2. Account(account') /\ account'.positions = [s \in Symbols |-> Flat]
  BY <1>1, FreshAccount, EnsuredAccount
<1>3. Standing'
  BY <1>1, <1>2 DEF Standing, Stands, IsOpen
<1> QED BY <1>1, <1>3, NoCloseFires DEF NoClose, NearestLevelFires

LEMMA StopStep == ASSUME Standing, SetEmergencyStop PROVE Standing' /\ NearestLevelFires'
<1> DEFINE e == EnsureSession(account, day)
<1>1. PICK engaged \in BOOLEAN : account' = [e EXCEPT !.stopped = engaged]
  BY DEF SetEmergencyStop
<1>2. Account(e) /\ e.positions = account.positions
  BY EnsuredAccount DEF Standing
<1> HIDE DEF e
<1>3. Account(account') /\ account'.positions = account.positions
  BY <1>1, <1>2 DEF Account
<1>4. Standing'
  BY <1>3, Unmoved DEF SetEmergencyStop, history, Standing
<1> QED BY <1>4, NoCloseFires DEF SetEmergencyStop, NoClose, NearestLevelFires

LEMMA SnapshotStep == ASSUME Standing, Snapshot PROVE Standing' /\ NearestLevelFires'
<1>1. \A d : /\ Account(EnsureSession(account, d))
            /\ EnsureSession(account, d).positions = account.positions
  BY EnsuredAccount DEF Standing
<1>2. Standing'
  BY <1>1, Unmoved DEF Snapshot, history, Standing
<1> QED BY <1>2, NoCloseFires DEF Snapshot, NoClose, NearestLevelFires

LEMMA MidnightStep == ASSUME Standing, Midnight PROVE Standing' /\ NearestLevelFires'
<1>1. Standing'
  BY Unmoved DEF Midnight, history, Standing
<1> QED BY <1>1, NoCloseFires DEF Midnight, NoClose, NearestLevelFires

LEMMA StutterStep == ASSUME IInv, UNCHANGED vars PROVE IInv'
<1>1. Standing'
  BY Unmoved DEF IInv, Standing, vars, history
<1>2. NearestLevelFires => NearestLevelFires'
  BY DEF vars, history, NearestLevelFires
<1> QED BY <1>1, <1>2 DEF IInv

(* What is open is at rest where it was last seen, always. *)
THEOREM InvariantHolds == Spec => []IInv
<1>1. Init => IInv
  BY Starts
<1>2. IInv /\ [Next]_vars => IInv'
  <2> SUFFICES ASSUME IInv, [Next]_vars PROVE IInv'
    OBVIOUS
  <2>1. Standing
    BY DEF IInv
  <2>2. ASSUME Next PROVE Standing' /\ (LevelsResolve => NearestLevelFires')
    BY <2>1, <2>2, SubmitStep, TickStep, ManageStep, CloseStep, ResetStep, StopStep,
       SnapshotStep, MidnightStep DEF Next
  <2> QED BY <2>2, StutterStep DEF IInv
<1> QED BY <1>1, <1>2, PTL DEF Spec

-----------------------------------------------------------------------------
(* Every position opens between its levels, and a tick that sees a usable  *)
(* price closes it or leaves it between them, wherever its trail stands    *)
(* by then: tick evaluates the exits before it advances the trail, and the *)
(* trail it advances is short of the price that advanced it.               *)
THEOREM NothingRestsHolds == LevelsResolve => (Spec => []NothingRestsPastItsLevels)
<1> SUFFICES ASSUME LevelsResolve PROVE Spec => []NothingRestsPastItsLevels
  OBVIOUS
<1>1. IInv => NothingRestsPastItsLevels
  BY NoneIsQuiet DEF IInv, Standing, Stands, OpenSymbols, NothingRestsPastItsLevels
<1> QED BY <1>1, InvariantHolds, PTL

(* _triggered_exit reports the level an adverse move met first, for any    *)
(* combination of levels and any jump of the price between two ticks.      *)
THEOREM NearestHolds == LevelsResolve => (Spec => []NearestLevelFires)
<1> SUFFICES ASSUME LevelsResolve PROVE Spec => []NearestLevelFires
  OBVIOUS
<1>1. IInv => NearestLevelFires
  BY DEF IInv
<1> QED BY <1>1, InvariantHolds, PTL

(* The lock.  Dates that were locked are behind the session's, or are the  *)
(* session's and its lock is theirs: as long as no call straggled.         *)
Locking ==
  /\ day \in Int /\ account.session.date \in Int
  /\ \A l \in locks : l.date \in Int
  /\ ~straggled =>
       \A l \in locks :
         /\ l.date <= account.session.date
         /\ l.date = account.session.date => account.session.lock = l.lock /\ l.lock # "NONE"

(* What a call does to the session, and to what is open under a lock. *)
SessionMoves ==
  LET s == account.session
  IN /\ account'.session.date \in Int
     /\ account'.session.date = s.date /\ s.lock # "NONE" =>
          SameDay(account', account) /\ OpenSymbols(account') \subseteq OpenSymbols(account)

LEMMA CallMoves ==
  ASSUME Standing, Locking,
         SubmitOrder \/ Tick \/ ManagePosition \/ ClosePosition \/ SetEmergencyStop \/ Snapshot
  PROVE  SessionMoves /\ Served /\ day' = day
<1>1. Account(account) /\ day \in Int /\ account.session.date \in Int
  BY DEF Standing, Locking
<1>2. DatesRead \subseteq Int /\ DatesToWrite \subseteq Int
  BY <1>1 DEF DatesRead, DatesToWrite
<1>3. ASSUME NEW d \in Int, account' = EnsureSession(account, d) PROVE SessionMoves
  <2>1. account'.session.date = d /\ (account.session.date = d => account' = account)
    BY <1>1, <1>3, EnsuredAccount
  <2> QED BY <1>3, <2>1 DEF SessionMoves, SameDay
<1>4. CASE SubmitOrder
  <2>1. PICK r \in Orders, mark \in Marks, now \in DatesToWrite :
          account' = Submitted(account, r, mark, now) /\ Served /\ day' = day
    BY <1>4 DEF SubmitOrder
  <2>2. r.symbol \in Symbols /\ now \in Int
    BY <1>2, EngineAssumption
  <2>3. LET b == Submitted(account, r, mark, now)
        IN /\ Account(b) /\ b.session.date = now
           /\ \/ b.positions = account.positions
              \/ /\ ~IsOpen(account, r.symbol)
                 /\ b.positions = [account.positions EXCEPT ![r.symbol] = PositionFor(r, mark)]
           /\ account.session.date = now /\ account.session.lock # "NONE" => b = account
    BY <1>1, <2>2, SubmittedAccount
  <2> QED BY <2>1, <2>2, <2>3 DEF SessionMoves, SameDay
<1>5. CASE Tick \/ Snapshot
  BY <1>2, <1>3, <1>5 DEF Tick, Snapshot
<1>6. CASE ManagePosition
  <2> DEFINE d == account.session.date
  <2>1. PICK s \in managing, mark \in Marks :
          account' = Managed(account, s, mark, d) /\ Served /\ day' = day
    BY <1>6 DEF ManagePosition
  <2>2. s \in Symbols /\ IsOpen(account, s) /\ DOMAIN account.positions[s] = DOMAIN Flat
    BY <2>1 DEF Standing, Stands, OpenSymbols
  <2>3. d = account.session.date
    OBVIOUS
  <2> HIDE DEF d
  <2>4. account'.session.date = d
    <3> DEFINE b == Managed(account, s, mark, d)
               p == account.positions[s]
    <3>1. /\ Account(b)
          /\ account.session.date = d => b.session.date = d
          /\ account.session.date = d /\ account.session.lock # "NONE" => SameDay(b, account)
          /\ \/ ~mark.usable /\ b.positions = [account.positions EXCEPT ![s] = [p EXCEPT !.mark = 0]]
             \/ /\ mark.usable /\ TriggeredExit(p, mark.last) # "NONE"
                /\ b.positions = [account.positions EXCEPT ![s] = Flat]
             \/ /\ mark.usable /\ TriggeredExit(p, mark.last) = "NONE"
                /\ b.positions = [account.positions EXCEPT
                      ![s] = AdvanceTrail([p EXCEPT !.mark = mark.last], mark.last)]
      BY <1>1, <2>2, ManagedAccount
    <3> HIDE DEF b, p
    <3> QED BY <2>1, <2>3, <3>1 DEF b
  <2>5. ASSUME account.session.lock # "NONE"
        PROVE  /\ SameDay(account', account)
               /\ \A t \in Symbols \ {s} : account'.positions[t] = account.positions[t]
    BY <1>1, <2>1, <2>2, <2>3, <2>5, ManagedDay
  <2> QED BY <1>1, <2>1, <2>2, <2>3, <2>4, <2>5 DEF SessionMoves, OpenSymbols, IsOpen
<1>7. CASE ClosePosition
  <2>1. PICK s \in Symbols, mark \in Marks :
          account' = ClosedByHand(account, s, mark, day) /\ Served /\ day' = day
    BY <1>7 DEF ClosePosition
  <2>2. CASE account' = EnsureSession(account, day)
    BY <1>1, <1>3, <2>1, <2>2
  <2>3. CASE account' = Closed(account, s, mark, day)
    <3> DEFINE b == Closed(account, s, mark, day)
    <3>1. /\ Account(b) /\ b.positions = [account.positions EXCEPT ![s] = Flat]
          /\ b.session.date = day
          /\ account.session.date = day /\ account.session.lock # "NONE" => SameDay(b, account)
      BY <1>1, ClosedAccount
    <3> HIDE DEF b
    <3>2. account' = b
      BY <2>3 DEF b
    <3> QED BY <1>1, <2>1, <3>1, <3>2 DEF SessionMoves, OpenSymbols, IsOpen, Account
  <2> QED BY <2>1, <2>2, <2>3 DEF ClosedByHand
<1>8. CASE SetEmergencyStop
  <2> DEFINE e == EnsureSession(account, day)
  <2>1. PICK engaged \in BOOLEAN : account' = [e EXCEPT !.stopped = engaged]
    BY <1>8 DEF SetEmergencyStop
  <2>2. /\ Account(e) /\ e.positions = account.positions /\ e.session.date = day
        /\ account.session.date = day => e = account
    BY <1>1, EnsuredAccount
  <2> HIDE DEF e
  <2>3. account'.session = e.session /\ account'.positions = e.positions
    BY <2>1, <2>2 DEF Account
  <2> QED BY <1>1, <1>8, <2>2, <2>3
        DEF SessionMoves, SameDay, OpenSymbols, IsOpen, SetEmergencyStop
<1> QED BY <1>4, <1>5, <1>6, <1>7, <1>8

LEMMA LockStarts == Init => Locking
BY DEF Init, Locking, Fresh, NewSession

(* The property, as one step has it. *)
LockStays ==
  ~straggled' =>
    \A l \in locks : l.date = account'.session.date =>
      \/ Reset
      \/ /\ account'.session.lock = l.lock
         /\ OpenSymbols(account') \subseteq OpenSymbols(account)

(* A served call leaves the locks of other dates behind it, and keeps the  *)
(* lock of its own.                                                        *)
LEMMA ServedLocks ==
  ASSUME Locking, SessionMoves, Served, day' = day
  PROVE  Locking' /\ LockStays
<1>1. account.session.date \in Int /\ account'.session.date \in Int /\ day' \in Int
  BY DEF Locking, SessionMoves
<1>2. \A l \in LockOf(account'.session) :
        /\ l.date = account'.session.date /\ l.lock = account'.session.lock
        /\ l.lock # "NONE"
  BY DEF LockOf
<1>3. \A l \in locks' : l \in locks \/ l \in LockOf(account'.session)
  BY DEF Served
<1>4. \A l \in locks' : l.date \in Int
  BY <1>1, <1>2, <1>3 DEF Locking
<1>5. ASSUME ~straggled', NEW l \in locks
      PROVE  /\ l.date <= account'.session.date
             /\ l.date = account'.session.date =>
                  /\ account'.session.lock = l.lock /\ l.lock # "NONE"
                  /\ OpenSymbols(account') \subseteq OpenSymbols(account)
  <2>1. ~straggled /\ ~(account'.session.date < account.session.date)
    BY <1>5, Zenon DEF Served
  <2>2. ~straggled /\ account.session.date <= account'.session.date
    BY <1>1, <2>1
  <2>3. /\ l.date \in Int /\ l.date <= account.session.date
        /\ l.date = account.session.date => account.session.lock = l.lock /\ l.lock # "NONE"
    BY <1>5, <2>2 DEF Locking
  <2>4. l.date <= account'.session.date
    BY <1>1, <2>2, <2>3
  <2>5. ASSUME l.date = account'.session.date
        PROVE  l.date = account.session.date
    BY <1>1, <2>2, <2>3, <2>5
  <2> QED BY <2>3, <2>4, <2>5 DEF SessionMoves, SameDay
<1>6. LockStays
  BY <1>5 DEF LockStays
<1>7. ASSUME ~straggled', NEW l \in locks'
      PROVE  /\ l.date <= account'.session.date
             /\ l.date = account'.session.date =>
                  account'.session.lock = l.lock /\ l.lock # "NONE"
  BY <1>1, <1>2, <1>3, <1>5, <1>7
<1> QED BY <1>1, <1>4, <1>6, <1>7 DEF Locking

LEMMA LockStep == ASSUME Standing, Locking, [Next]_vars PROVE Locking' /\ LockStays
<1>1. CASE SubmitOrder \/ Tick \/ ManagePosition \/ ClosePosition \/ SetEmergencyStop \/ Snapshot
  BY <1>1, CallMoves, ServedLocks
<1>2. CASE Reset
  <2>1. PICK balance \in Balances : account' = EnsureSession(Fresh(balance), day)
    BY <1>2 DEF Reset
  <2>2. account'.session.date = day
    BY <2>1, FreshAccount, EnsuredAccount
  <2> QED BY <1>2, <2>2 DEF Reset, Locking, LockStays
<1>3. CASE Midnight \/ UNCHANGED vars
  <2>1. account' = account /\ locks' = locks /\ straggled' = straggled /\ day' \in Int
    BY <1>3 DEF Midnight, vars, Locking
  <2> QED BY <2>1 DEF Locking, LockStays
<1> QED BY <1>1, <1>2, <1>3 DEF Next

(* A date that was locked stays locked, under the lock that engaged first, *)
(* and takes no entry, whatever calls of other dates are served in between *)
(* and however far behind the clock their dates are, until the account is  *)
(* reset: provided no call is dated before the one served before it        *)
(* (_ensure_session, _apply_daily_lock, check_authority).                  *)
THEOREM LockHolds == Spec => LockedDayStaysLocked
<1>1. IInv /\ Locking /\ [Next]_vars => Locking' /\ [LockStays]_vars
  BY LockStep DEF IInv
<1>2. Spec => [][LockStays]_vars
  BY <1>1, LockStarts, InvariantHolds, PTL DEF Spec
<1> QED BY <1>2 DEF LockStays, LockedDayStaysLocked

-----------------------------------------------------------------------------
(* The books: what the methods make of an account's money. *)

Money(a) == a.starting \in Int /\ a.balance \in Int /\ a.realized \in Int

SameMoney(b, a) ==
  b.starting = a.starting /\ b.balance = a.balance /\ b.realized = a.realized

MovedBy(b, a, amount) ==
  /\ b.starting = a.starting
  /\ b.balance = a.balance + amount /\ b.realized = a.realized + amount

LEMMA RoundedIsInteger ==
  ASSUME NEW n \in Int, NEW d \in Nat \ {0}
  PROVE  Rounded(n, d) \in Int
BY DEF Rounded

LEMMA RoundedIsNatural ==
  ASSUME NEW n \in Nat, NEW d \in Nat \ {0}
  PROVE  Rounded(n, d) \in Nat
BY DEF Rounded

LEMMA FeeIsInteger == ASSUME NEW n \in Int PROVE Fee(n) \in Int
BY RoundedIsInteger, AccountAssumption DEF Fee

LEMMA EnsuredMoney ==
  ASSUME NEW a, Account(a), NEW d
  PROVE  SameMoney(EnsureSession(a, d), a)
BY DEF EnsureSession, Account, SameMoney

LEMMA RealizedMoney ==
  ASSUME NEW a, Account(a), NEW amount
  PROVE  MovedBy(Realize(a, amount), a, amount)
BY DEF Realize, Account, MovedBy

LEMMA ClosedMoney ==
  ASSUME NEW a, Account(a), NEW s \in Symbols, NEW mark, NEW d
  PROVE  MovedBy(Closed(a, s, mark, d), a, Proceeds(a.positions[s], mark))
<1> DEFINE e == EnsureSession(a, d)
           amount == Proceeds(a.positions[s], mark)
           r == Realize(e, amount)
           b == [r EXCEPT !.positions[s] = Flat, !.session = Locked(r.session)]
<1>1. Closed(a, s, mark, d) = b
  BY DEF Closed
<1>2. Account(e) /\ SameMoney(e, a)
  BY EnsuredAccount, EnsuredMoney
<1> HIDE DEF e, amount
<1>3. Account(r) /\ MovedBy(r, e, amount)
  BY <1>2, RealizedAccount, RealizedMoney
<1> HIDE DEF r
<1>4. SameMoney(b, r)
  BY <1>3 DEF Account, SameMoney
<1> HIDE DEF b
<1> QED BY <1>1, <1>2, <1>3, <1>4 DEF SameMoney, MovedBy, amount

LEMMA OpenedMoney ==
  ASSUME NEW a, Account(a), NEW r, r.symbol \in Symbols, NEW mark
  PROVE  MovedBy(Opened(a, r, mark), a, -PositionFor(r, mark).fee)
<1> DEFINE p == PositionFor(r, mark)
           amount == -p.fee
           e == Realize(a, amount)
           b == [e EXCEPT !.positions[r.symbol] = p]
<1>1. Opened(a, r, mark) = b
  BY DEF Opened
<1> HIDE DEF p, amount
<1>2. Account(e) /\ MovedBy(e, a, amount)
  BY RealizedAccount, RealizedMoney
<1> HIDE DEF e
<1>3. SameMoney(b, e)
  BY <1>2 DEF Account, SameMoney
<1> HIDE DEF b
<1> QED BY <1>1, <1>2, <1>3 DEF SameMoney, MovedBy, amount, p

-----------------------------------------------------------------------------
(* What the entries add up to. *)

(* The fields of a position that the money of its close is worked out from. *)
Valued(p) ==
  /\ p.quantity \in Int /\ p.entry \in Int /\ p.fee \in Int
  /\ p.notional \in Nat /\ p.notional <= MaxPositionNotional

FeesOf(a) == SumFunction([s \in Symbols |-> a.positions[s].fee])

LEMMA FlatIsValued == Valued(Flat) /\ Flat.fee = 0 /\ Flat.notional = 0
BY AccountAssumption DEF Flat, Valued

LEMMA TotalsAreIntegers ==
  ASSUME NEW a, \A s \in Symbols : Valued(a.positions[s])
  PROVE  FeesOf(a) \in Int /\ Exposure(a) \in Int
<1> DEFINE f == [s \in Symbols |-> a.positions[s].fee]
           g == [s \in Symbols |-> a.positions[s].notional]
<1>1. \A s \in Symbols : f[s] \in Int /\ g[s] \in Int
  BY DEF Valued
<1>2. DOMAIN f = Symbols /\ DOMAIN g = Symbols
  OBVIOUS
<1>3. FeesOf(a) = SumFunctionOnSet(f, Symbols) /\ Exposure(a) = SumFunctionOnSet(g, Symbols)
  BY <1>2 DEF FeesOf, Exposure, SumFunction
<1> HIDE DEF f, g
<1> QED BY <1>1, <1>3, SumIsInteger, AccountAssumption

(* One position changes: each total moves by what its field does. *)
LEMMA TotalsMove ==
  ASSUME NEW a, NEW b, NEW s \in Symbols, NEW q, Valued(q), Account(a),
         b.positions = [a.positions EXCEPT ![s] = q],
         \A t \in Symbols : Valued(a.positions[t])
  PROVE  /\ \A t \in Symbols : Valued(b.positions[t])
         /\ FeesOf(b) = FeesOf(a) - a.positions[s].fee + q.fee
         /\ Exposure(b) = Exposure(a) - a.positions[s].notional + q.notional
<1> DEFINE f == [t \in Symbols |-> a.positions[t].fee]
           g == [t \in Symbols |-> a.positions[t].notional]
           h == [t \in Symbols |-> b.positions[t].fee]
           k == [t \in Symbols |-> b.positions[t].notional]
<1>1. b.positions[s] = q /\ \A t \in Symbols \ {s} : b.positions[t] = a.positions[t]
  BY DEF Account
<1>2. \A t \in Symbols : Valued(b.positions[t])
  BY <1>1
<1>3. \A t \in Symbols : f[t] \in Int /\ g[t] \in Int /\ h[t] \in Int /\ k[t] \in Int
  BY <1>2 DEF Valued
<1>4. /\ \A t \in Symbols \ {s} : h[t] = f[t] /\ k[t] = g[t]
      /\ f[s] = a.positions[s].fee /\ g[s] = a.positions[s].notional
      /\ h[s] = q.fee /\ k[s] = q.notional
  BY <1>1
<1>5. DOMAIN f = Symbols /\ DOMAIN g = Symbols /\ DOMAIN h = Symbols /\ DOMAIN k = Symbols
  OBVIOUS
<1>6. /\ FeesOf(a) = SumFunctionOnSet(f, Symbols) /\ Exposure(a) = SumFunctionOnSet(g, Symbols)
      /\ FeesOf(b) = SumFunctionOnSet(h, Symbols) /\ Exposure(b) = SumFunctionOnSet(k, Symbols)
  BY <1>5 DEF FeesOf, Exposure, SumFunction
<1> HIDE DEF f, g, h, k
<1>7. IsFiniteSet(Symbols)
  BY AccountAssumption
<1>8. SumFunctionOnSet(h, Symbols) = SumFunctionOnSet(f, Symbols) - f[s] + h[s]
  <2>1. \A t \in Symbols : f[t] \in Int /\ h[t] \in Int
    BY <1>3
  <2>2. \A t \in Symbols \ {s} : h[t] = f[t]
    BY <1>4
  <2> QED BY <1>7, <2>1, <2>2, SumMoves
<1>9. SumFunctionOnSet(k, Symbols) = SumFunctionOnSet(g, Symbols) - g[s] + k[s]
  <2>1. \A t \in Symbols : g[t] \in Int /\ k[t] \in Int
    BY <1>3
  <2>2. \A t \in Symbols \ {s} : k[t] = g[t]
    BY <1>4
  <2> QED BY <1>7, <2>1, <2>2, SumMoves
<1> QED BY <1>2, <1>4, <1>6, <1>8, <1>9

LEMMA TotalsStay ==
  ASSUME NEW a, NEW b, b.positions = a.positions
  PROVE  FeesOf(b) = FeesOf(a) /\ Exposure(b) = Exposure(a) /\ OpenSymbols(b) = OpenSymbols(a)
BY DEF FeesOf, Exposure, OpenSymbols, IsOpen

LEMMA TotalsStart ==
  ASSUME NEW a, a.positions = [s \in Symbols |-> Flat]
  PROVE  /\ \A s \in Symbols : Valued(a.positions[s])
         /\ FeesOf(a) = 0 /\ Exposure(a) = 0 /\ OpenSymbols(a) = {}
<1> DEFINE f == [s \in Symbols |-> a.positions[s].fee]
           g == [s \in Symbols |-> a.positions[s].notional]
<1>1. \A s \in Symbols : f[s] = 0 /\ g[s] = 0
  BY FlatIsValued
<1>2. DOMAIN f = Symbols /\ DOMAIN g = Symbols
  OBVIOUS
<1>3. FeesOf(a) = SumFunctionOnSet(f, Symbols) /\ Exposure(a) = SumFunctionOnSet(g, Symbols)
  BY <1>2 DEF FeesOf, Exposure, SumFunction
<1> HIDE DEF f, g
<1>4. FeesOf(a) = 0 /\ Exposure(a) = 0
  BY <1>1, <1>3, SumOfZeroes, AccountAssumption
<1> QED BY <1>4, FlatIsValued DEF OpenSymbols, IsOpen

(* What an order opens, as money. *)
LEMMA OpensValued ==
  ASSUME NEW r \in Orders, NEW mark \in Marks, NEW a, MayOpen(a, r, mark)
  PROVE  Valued(PositionFor(r, mark))
<1> DEFINE p == PositionFor(r, mark)
           price == FillPrice(mark, r.side = "LONG")
           size == QuantityFor(r, price)
           product == size * price
<1>1. price \in Nat /\ price > 0
  BY FillIsAPrice
<1>2. r.margin \in Nat /\ Leverage \in Nat
  BY EngineAssumption, AccountAssumption
<1> DEFINE bought == r.margin * Leverage
<1>3. size = bought \div price
  BY DEF QuantityFor
<1>4. p.quantity = size /\ p.entry = price /\ p.notional = product /\ p.fee = Fee(product)
  BY DEF PositionFor
<1>5. p.notional <= MaxPositionNotional
  BY DEF MayOpen
<1> HIDE DEF p, price
<1>6. bought \in Nat
  BY <1>2
<1> HIDE DEF bought
<1>7. size \in Nat
  BY <1>1, <1>3, <1>6
<1> HIDE DEF size
<1>8. product \in Nat
  BY <1>1, <1>7
<1> HIDE DEF product
<1>9. Fee(product) \in Int
  BY <1>8, FeeIsInteger
<1> QED BY <1>1, <1>4, <1>5, <1>7, <1>8, <1>9 DEF Valued, p

LEMMA ProceedsAreIntegers ==
  ASSUME NEW p, Valued(p), NEW mark \in Marks
  PROVE  Proceeds(p, mark) \in Int
<1> DEFINE price == ExitPrice(p, mark)
           size == p.quantity
           up == (price - p.entry) * size
           down == (p.entry - price) * size
           product == size * price
<1>1. price \in Int
  <2> DEFINE buying == p.side = "SHORT"
  <2>1. buying \in BOOLEAN /\ price = FillPrice(mark, buying)
    BY DEF ExitPrice
  <2> HIDE DEF buying, price
  <2> QED BY <2>1, FillIsAPrice
<1>2. size \in Int /\ p.entry \in Int
  BY DEF Valued
<1>3. Gross(p, price) \in {up, down}
  BY DEF Gross
<1>4. Proceeds(p, mark) = Gross(p, price) - Fee(product)
  BY DEF Proceeds
<1> HIDE DEF price, size
<1>5. up \in Int /\ down \in Int /\ product \in Int
  BY <1>1, <1>2
<1> HIDE DEF up, down, product
<1>6. Fee(product) \in Int
  BY <1>5, FeeIsInteger
<1> QED BY <1>3, <1>4, <1>5, <1>6

-----------------------------------------------------------------------------
(* The inductive invariant of the books. *)

Books ==
  /\ Money(account) /\ net \in Int
  /\ \A s \in Symbols : Valued(account.positions[s])
  /\ LedgerBalances
  /\ WithinLimits

LEMMA BooksStay ==
  ASSUME Books, account'.positions = account.positions, SameMoney(account', account), net' = net
  PROVE  Books'
<1>1. /\ FeesOf(account') = FeesOf(account) /\ Exposure(account') = Exposure(account)
      /\ OpenSymbols(account') = OpenSymbols(account)
  BY TotalsStay
<1>2. EntryFees = FeesOf(account) /\ EntryFees' = FeesOf(account')
  BY DEF EntryFees, FeesOf
<1>3. LedgerBalances' /\ Money(account')
  BY <1>1, <1>2 DEF Books, LedgerBalances, SameMoney, Money
<1>4. WithinLimits'
  BY <1>1 DEF Books, WithinLimits
<1> QED BY <1>3, <1>4 DEF Books

(* One position changes: the money moves by what the trades and the entry  *)
(* fees account for, and it opens only inside the envelope.                *)
LEMMA BooksMove ==
  ASSUME Standing, Books, NEW s \in Symbols, NEW q, Valued(q), NEW amount \in Int,
         account'.positions = [account.positions EXCEPT ![s] = q],
         MovedBy(account', account, amount),
         net' = net + amount + q.fee - account.positions[s].fee,
         \/ q.notional <= account.positions[s].notional
         \/ Exposure(account) + q.notional <= MaxPortfolioExposure,
         \/ IsOpen(account, s)
         \/ Cardinality(OpenSymbols(account)) < MaxOpenPositions
  PROVE  Books'
<1> DEFINE p == account.positions[s]
<1>1. Account(account) /\ IsFiniteSet(Symbols)
  BY AccountAssumption DEF Standing
<1>2. \A t \in Symbols : Valued(account.positions[t])
  BY DEF Books
<1>3. /\ \A t \in Symbols : Valued(account'.positions[t])
      /\ FeesOf(account') = FeesOf(account) - p.fee + q.fee
      /\ Exposure(account') = Exposure(account) - p.notional + q.notional
  BY <1>1, <1>2, TotalsMove
<1>4. FeesOf(account) \in Int /\ Exposure(account) \in Int
  BY <1>2, TotalsAreIntegers
<1>5. EntryFees = FeesOf(account) /\ EntryFees' = FeesOf(account')
  BY DEF EntryFees, FeesOf
<1>6. /\ p.fee \in Int /\ q.fee \in Int /\ p.notional \in Nat /\ q.notional \in Nat
      /\ MaxPortfolioExposure \in Nat /\ MaxOpenPositions \in Nat
  BY <1>2, AccountAssumption DEF Valued
<1>7. Money(account') /\ net' \in Int /\ LedgerBalances'
  BY <1>3, <1>4, <1>5, <1>6 DEF Books, Money, MovedBy, LedgerBalances
<1>8. Exposure(account') <= MaxPortfolioExposure
  BY <1>3, <1>4, <1>6 DEF Books, WithinLimits
<1>9. Cardinality(OpenSymbols(account')) <= MaxOpenPositions
  <2> DEFINE Open == OpenSymbols(account)
             Open2 == OpenSymbols(account')
  <2>1. Open2 \subseteq Open \cup {s} /\ (IsOpen(account, s) => s \in Open)
    BY <1>1 DEF OpenSymbols, IsOpen, Account
  <2>2. IsFiniteSet(Open)
    BY <1>1, FS_Subset DEF OpenSymbols
  <2>3. Cardinality(Open) <= MaxOpenPositions
    BY DEF Books, WithinLimits
  <2> HIDE DEF Open, Open2
  <2>4. /\ IsFiniteSet(Open \cup {s}) /\ Cardinality(Open) \in Nat
        /\ Cardinality(Open \cup {s}) = Cardinality(Open) \/ Cardinality(Open \cup {s}) = Cardinality(Open) + 1
        /\ s \in Open => Cardinality(Open \cup {s}) = Cardinality(Open)
    BY <2>2, FS_AddElement, FS_CardinalityType
  <2>5. Cardinality(Open2) \in Nat /\ Cardinality(Open2) <= Cardinality(Open \cup {s})
    BY <2>1, <2>4, FS_Subset, FS_CardinalityType
  <2>6. s \in Open \/ Cardinality(Open) < MaxOpenPositions
    BY <2>1 DEF Open
  <2> QED BY <1>6, <2>3, <2>4, <2>5, <2>6 DEF Open2
<1> QED BY <1>3, <1>7, <1>8, <1>9 DEF Books, WithinLimits, Valued

LEMMA BooksOpen == Init => Books
<1> SUFFICES ASSUME Init PROVE Books
  OBVIOUS
<1>1. account.positions = [s \in Symbols |-> Flat]
  BY FreshAccount DEF Init
<1>2. /\ \A s \in Symbols : Valued(account.positions[s])
      /\ FeesOf(account) = 0 /\ Exposure(account) = 0 /\ OpenSymbols(account) = {}
  BY <1>1, TotalsStart
<1>3. EntryFees = FeesOf(account)
  BY DEF EntryFees, FeesOf
<1>4. Money(account) /\ LedgerBalances
  BY <1>2, <1>3, AccountAssumption DEF Init, Fresh, Money, LedgerBalances
<1>5. WithinLimits
  BY <1>2, FS_EmptySet, AccountAssumption DEF WithinLimits, Valued
<1> QED BY <1>2, <1>4, <1>5 DEF Books, Init

LEMMA SubmitBooks == ASSUME Standing, Books, SubmitOrder PROVE Books'
<1>1. PICK r \in Orders, mark \in Marks, now \in DatesToWrite :
        account' = Submitted(account, r, mark, now) /\ net' = net
  BY DEF SubmitOrder
<1> DEFINE e == EnsureSession(account, now)
           s == r.symbol
           q == PositionFor(r, mark)
<1>2. s \in Symbols
  BY EngineAssumption
<1>3. Account(e) /\ e.positions = account.positions /\ SameMoney(e, account)
  BY EnsuredAccount, EnsuredMoney DEF Standing
<1>4. account' = IF MayOpen(e, r, mark) THEN Opened(e, r, mark) ELSE e
  BY <1>1 DEF Submitted
<1> HIDE DEF e
<1>5. CASE ~MayOpen(e, r, mark)
  BY <1>1, <1>3, <1>4, <1>5, BooksStay
<1>6. CASE MayOpen(e, r, mark)
  <2>1. Valued(q)
    BY <1>6, OpensValued
  <2>2. /\ ~IsOpen(e, s) /\ Cardinality(OpenSymbols(e)) < MaxOpenPositions
        /\ Exposure(e) + q.notional <= MaxPortfolioExposure
    BY <1>6 DEF MayOpen
  <2>3. Exposure(e) = Exposure(account) /\ OpenSymbols(e) = OpenSymbols(account)
    BY <1>3, TotalsStay
  <2>4. account.positions[s] = Flat
    BY <1>3, <2>2 DEF IsOpen
  <2>5. Opened(e, r, mark).positions = [e.positions EXCEPT ![r.symbol] = q]
    BY <1>2, <1>3, OpenedAccount
  <2>6. MovedBy(Opened(e, r, mark), e, -q.fee)
    BY <1>2, <1>3, OpenedMoney
  <2> HIDE DEF q
  <2>7. account'.positions = [account.positions EXCEPT ![s] = q]
    BY <1>3, <1>4, <1>6, <2>5
  <2>8. MovedBy(account', account, -q.fee)
    BY <1>3, <1>4, <1>6, <2>6 DEF MovedBy, SameMoney
  <2> DEFINE amount == -q.fee
  <2>9. amount \in Int /\ net' = net + amount + q.fee - account.positions[s].fee
    BY <1>1, <2>1, <2>4, FlatIsValued DEF Valued, Books
  <2>10. MovedBy(account', account, amount)
    BY <2>8
  <2> HIDE DEF amount
  <2> QED BY <1>2, <2>1, <2>2, <2>3, <2>7, <2>9, <2>10, BooksMove
<1> QED BY <1>5, <1>6

(* A close: the trade counts both fees and its entry fee is open no more.  *)
LEMMA CloseBooks ==
  ASSUME Standing, Books, NEW s \in Symbols, IsOpen(account, s), NEW mark \in Marks,
         NEW d, account' = Closed(account, s, mark, d),
         net' = net + Net(account.positions[s], mark)
  PROVE  Books'
<1> DEFINE p == account.positions[s]
           amount == Proceeds(p, mark)
<1>1. Account(account) /\ Valued(p)
  BY DEF Standing, Books
<1>2. amount \in Int /\ Net(p, mark) = amount - p.fee
  BY <1>1, ProceedsAreIntegers DEF Net
<1>3. MovedBy(account', account, amount)
  BY <1>1, ClosedMoney
<1>4. account'.positions = [account.positions EXCEPT ![s] = Flat]
  BY <1>1, ClosedAccount
<1> HIDE DEF amount
<1>5. net' = net + amount + Flat.fee - p.fee
  BY <1>1, <1>2, FlatIsValued DEF Books, Valued
<1>6. Flat.notional <= p.notional
  BY <1>1, FlatIsValued DEF Valued
<1> QED BY <1>2, <1>3, <1>4, <1>5, <1>6, FlatIsValued, BooksMove

LEMMA ManageBooks == ASSUME Standing, Books, ManagePosition PROVE Books'
<1>1. PICK s \in managing, mark \in Marks :
        /\ account' = Managed(account, s, mark, account.session.date)
        /\ managing' = managing \ {s}
        /\ CASE ~IsOpen(account', s) ->
                  Records(s, mark, TriggeredExit(account.positions[s], mark.last))
             [] IsOpen(account', s) /\ mark.usable ->
                  /\ path' = [path EXCEPT ![s] = mark.last]
                  /\ last' = NoClose /\ UNCHANGED <<entries, net>>
             [] OTHER -> last' = NoClose /\ UNCHANGED history
  BY DEF ManagePosition
<1> DEFINE p == account.positions[s]
           u == [p EXCEPT !.mark = 0]
           q == AdvanceTrail([p EXCEPT !.mark = mark.last], mark.last)
<1>2. s \in Symbols /\ IsOpen(account, s)
  BY DEF Standing, OpenSymbols
<1>3. Account(account) /\ DOMAIN p = DOMAIN Flat /\ p.side \in Sides /\ Valued(p)
  BY <1>2 DEF Standing, Stands, Books
<1>4. CASE account' = Closed(account, s, mark, account.session.date)
  <2>1. account'.positions = [account.positions EXCEPT ![s] = Flat]
    BY <1>2, <1>3, <1>4, ClosedAccount
  <2>2. ~IsOpen(account', s)
    BY <1>2, <1>3, <2>1 DEF Account, IsOpen
  <2>3. net' = net + Net(p, mark)
    BY <1>1, <2>2 DEF Records
  <2> QED BY <1>2, <1>4, <2>3, CloseBooks
<1>5. ASSUME NEW o, DOMAIN o = DOMAIN Flat, o.side = p.side, o.quantity = p.quantity,
             o.entry = p.entry, o.fee = p.fee, o.notional = p.notional,
             account' = [account EXCEPT !.positions[s] = o]
      PROVE  Books'
  <2>1. account'.positions = [account.positions EXCEPT ![s] = o] /\ SameMoney(account', account)
    BY <1>3, <1>5 DEF Account, SameMoney
  <2>2. IsOpen(account', s)
    BY <1>2, <1>3, <1>5, <2>1 DEF IsOpen, Account, Flat, Sides
  <2>3. net' = net
    BY <1>1, <2>2 DEF history
  <2>4. Valued(o)
    BY <1>3, <1>5 DEF Valued
  <2>5. MovedBy(account', account, 0) /\ net' = net + 0 + o.fee - p.fee
    BY <1>3, <1>5, <2>1, <2>3 DEF MovedBy, SameMoney, Books, Money, Valued
  <2>6. o.notional <= p.notional
    BY <1>3, <1>5 DEF Valued
  <2> QED BY <1>2, <2>1, <2>4, <2>5, <2>6, BooksMove
<1>6. CASE account' = [account EXCEPT !.positions[s].mark = 0]
  <2>1. account' = [account EXCEPT !.positions[s] = u]
    BY <1>6
  <2>2. /\ DOMAIN u = DOMAIN Flat /\ u.side = p.side /\ u.quantity = p.quantity /\ u.entry = p.entry
        /\ u.fee = p.fee /\ u.notional = p.notional
    BY <1>3 DEF Flat
  <2> HIDE DEF u, p
  <2> QED BY <1>5, <2>1, <2>2
<1>7. CASE account' = [account EXCEPT !.positions[s] = q]
  <2>1. /\ DOMAIN q = DOMAIN Flat /\ q.side = p.side /\ q.quantity = p.quantity /\ q.entry = p.entry
        /\ q.fee = p.fee /\ q.notional = p.notional
    BY <1>3 DEF Flat, AdvanceTrail
  <2> HIDE DEF q, p
  <2> QED BY <1>5, <1>7, <2>1
<1>8. \/ account' = Closed(account, s, mark, account.session.date)
      \/ account' = [account EXCEPT !.positions[s].mark = 0]
      \/ account' = [account EXCEPT !.positions[s] = q]
  BY <1>1 DEF Managed
<1> QED BY <1>4, <1>6, <1>7, <1>8

LEMMA CloseByHandBooks == ASSUME Standing, Books, ClosePosition PROVE Books'
<1>1. PICK s \in Symbols, mark \in Marks :
        /\ account' = ClosedByHand(account, s, mark, day)
        /\ IF IsOpen(account, s) /\ mark.usable
             THEN Records(s, mark, "MANUAL_CLOSE") ELSE last' = NoClose /\ UNCHANGED history
  BY DEF ClosePosition
<1>2. CASE IsOpen(account, s) /\ mark.usable
  BY <1>1, <1>2, CloseBooks DEF ClosedByHand, Records
<1>3. CASE ~(IsOpen(account, s) /\ mark.usable)
  <2>1. account' = EnsureSession(account, day) /\ net' = net
    BY <1>1, <1>3 DEF ClosedByHand, history
  <2> QED BY <2>1, EnsuredAccount, EnsuredMoney, BooksStay DEF Standing
<1> QED BY <1>2, <1>3

LEMMA ResetBooks == ASSUME Standing, Books, Reset PROVE Books'
<1>1. PICK balance \in Balances :
        account' = EnsureSession(Fresh(balance), day) /\ net' = 0
  BY DEF Reset
<1> DEFINE f == Fresh(balance)
<1>2. /\ Account(f) /\ f.positions = [s \in Symbols |-> Flat]
      /\ f.starting = balance /\ f.balance = balance /\ f.realized = 0 /\ balance \in Int
  BY FreshAccount, EngineAssumption DEF Fresh
<1> HIDE DEF f
<1>3. /\ account'.positions = [s \in Symbols |-> Flat] /\ SameMoney(account', f)
  BY <1>1, <1>2, EnsuredAccount, EnsuredMoney DEF f
<1>4. /\ \A s \in Symbols : Valued(account'.positions[s])
      /\ FeesOf(account') = 0 /\ Exposure(account') = 0 /\ OpenSymbols(account') = {}
  BY <1>3, TotalsStart
<1>5. EntryFees' = FeesOf(account')
  BY DEF EntryFees, FeesOf
<1>6. Money(account') /\ LedgerBalances'
  BY <1>1, <1>2, <1>3, <1>4, <1>5 DEF SameMoney, Money, LedgerBalances
<1>7. WithinLimits'
  BY <1>4, FS_EmptySet, AccountAssumption DEF WithinLimits, Valued
<1> QED BY <1>1, <1>4, <1>6, <1>7 DEF Books

LEMMA StopBooks == ASSUME Standing, Books, SetEmergencyStop PROVE Books'
<1> DEFINE e == EnsureSession(account, day)
<1>1. PICK engaged \in BOOLEAN : account' = [e EXCEPT !.stopped = engaged] /\ net' = net
  BY DEF SetEmergencyStop, history
<1>2. Account(e) /\ e.positions = account.positions /\ SameMoney(e, account)
  BY EnsuredAccount, EnsuredMoney DEF Standing
<1> HIDE DEF e
<1>3. account'.positions = account.positions /\ SameMoney(account', account)
  BY <1>1, <1>2 DEF Account, SameMoney
<1> QED BY <1>1, <1>3, BooksStay

LEMMA QuietBooks ==
  ASSUME Standing, Books, Tick \/ Snapshot \/ Midnight \/ UNCHANGED vars
  PROVE  Books'
<1>1. net' = net /\ (account' = account \/ \E d : account' = EnsureSession(account, d))
  BY DEF Tick, Snapshot, Midnight, vars, history
<1>2. CASE account' = account
  BY <1>1, <1>2, BooksStay DEF SameMoney
<1>3. CASE \E d : account' = EnsureSession(account, d)
  BY <1>1, <1>3, EnsuredAccount, EnsuredMoney, BooksStay DEF Standing
<1> QED BY <1>1, <1>2, <1>3

THEOREM BooksHold == Spec => []Books
<1>1. Init => Books
  BY BooksOpen
<1>2. IInv /\ Books /\ [Next]_vars => Books'
  <2> SUFFICES ASSUME Standing, Books, [Next]_vars PROVE Books'
    BY DEF IInv
  <2> QED
    BY SubmitBooks, ManageBooks, CloseByHandBooks, ResetBooks, StopBooks, QuietBooks DEF Next
<1> QED BY <1>1, <1>2, InvariantHolds, PTL DEF Spec

(* The balance is what the account started with and what every trade since *)
(* made, less the entry fees of what is open, however the positions of all *)
(* the symbols are opened, trailed and closed: _open_position and _close   *)
(* charge one fee each, and a day's replaced session loses none of it.     *)
THEOREM LedgerHolds == Spec => []LedgerBalances
<1>1. Books => LedgerBalances
  BY DEF Books
<1> QED BY <1>1, BooksHold, PTL

(* What check_entry admits against the exposure it reads stays inside the  *)
(* envelope for any number of symbols: no close, trail or reset adds to    *)
(* the exposure or to the count it was admitted with.                      *)
THEOREM EnvelopeHolds == Spec => []WithinLimits
<1>1. Books => WithinLimits
  BY DEF Books
<1> QED BY <1>1, BooksHold, PTL

=============================================================================
