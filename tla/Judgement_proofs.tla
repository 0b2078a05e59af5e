-------------------------- MODULE Judgement_proofs --------------------------
(***************************************************************************)
(* Proofs about what is decided on: the rulings of the risk desk, for      *)
(* every limit, proposal and market, and what the analysis says, for every *)
(* candle, parameter and order a fetch may come in.  For the desk the      *)
(* chain of the leverage is proved first, one lemma for each ceiling; an   *)
(* approval is then safe by its arithmetic alone, and the desk keeps no    *)
(* ruling that is not one of the engine's.  For the analysis the candles   *)
(* and the position are shown to stay what they are; each property is then *)
(* one of the operators over them.                                         *)
(***************************************************************************)
EXTENDS RiskDesk, Analysis, Aggregates

(* What a division by a positive divisor gives back when multiplied. *)
LEMMA Truncation ==
  ASSUME NEW a \in Int, NEW d \in Nat, d > 0
  PROVE  a \div d \in Int /\ d * (a \div d) <= a
  OBVIOUS

(* Above the minimum a ceiling keeps the liquidation at twice the stop and *)
(* a stop-out within the budget.                                           *)
Survivable(max, stop, margin, realized, limit) ==
  /\ max \in Int /\ max >= LeverageMin
  /\ stop > 0 /\ margin > 0
  /\ max > LeverageMin =>
       /\ SafetyFactor * max * stop <= 10000
       /\ max * (margin * stop) <= 10000 * (realized - limit)

(* A derived ceiling is survivable (derive_risk_max_leverage).             *)
LEMMA CeilingIsSafe ==
  ASSUME NEW stop \in Int, NEW margin \in Int, NEW realized \in Int, NEW limit \in Int,
         NEW configured \in Int,
         NEW max, max = RiskMax(stop, margin, realized, limit, configured), max # Unknown
  PROVE  Survivable(max, stop, margin, realized, limit)
<1> USE DEF Survivable
<1> DEFINE fromLiquidation == 10000 \div (stop * SafetyFactor)
           fromBudget == ((realized - limit) * 10000) \div (margin * stop)
<1>1. stop > 0 /\ margin > 0 /\ configured >= LeverageMin
  BY DEF RiskMax, LeverageMin
<1>2. stop * SafetyFactor \in Nat /\ stop * SafetyFactor > 0
  BY <1>1 DEF SafetyFactor
<1>3. margin * stop \in Nat /\ margin * stop > 0
  BY <1>1
<1>4. fromLiquidation \in Int /\ (stop * SafetyFactor) * fromLiquidation <= 10000
  BY <1>2, Truncation
<1>5. /\ fromBudget \in Int
      /\ (margin * stop) * fromBudget <= (realized - limit) * 10000
  BY <1>3, Truncation, (realized - limit) * 10000 \in Int
<1>6. CASE realized - limit <= 0
  BY <1>6, <1>1 DEF RiskMax, LeverageMin
<1>7. CASE realized - limit > 0
  <2>1. max = Greatest(LeverageMin, Least(Least(fromLiquidation, fromBudget),
                                         Least(configured, LeverageMax)))
    BY <1>7, <1>1 DEF RiskMax
  <2> HIDE DEF fromLiquidation, fromBudget
  <2>2. max \in Int /\ max >= LeverageMin
    BY <2>1, <1>4, <1>5 DEF Greatest, Least, LeverageMin, LeverageMax
  <2>3. ASSUME max > LeverageMin
        PROVE  max <= fromLiquidation /\ max <= fromBudget
    BY <2>1, <2>3, <1>4, <1>5 DEF Greatest, Least, LeverageMin, LeverageMax
  <2>4. ASSUME max > LeverageMin
        PROVE  /\ SafetyFactor * max * stop <= 10000
               /\ max * (margin * stop) <= 10000 * (realized - limit)
    <3>1. (stop * SafetyFactor) * max <= (stop * SafetyFactor) * fromLiquidation
      BY <2>2, <2>3, <2>4, <1>2, <1>4
    <3>2. (margin * stop) * max <= (margin * stop) * fromBudget
      BY <2>2, <2>3, <2>4, <1>3, <1>5
    <3>3. SafetyFactor * max * stop = (stop * SafetyFactor) * max
      BY <2>2 DEF SafetyFactor
    <3>4. max * (margin * stop) = (margin * stop) * max
      BY <2>2, <1>3
    <3> QED BY <3>1, <3>2, <3>3, <3>4, <1>4, <1>5, <2>2, <1>2, <1>3
  <2> QED BY <2>2, <2>4, <1>1
<1> QED BY <1>6, <1>7

(* What the chain lets through is at most what was asked for and at most   *)
(* each ceiling it knows, and 1x where it does not know one                *)
(* (resolve_leverage).                                                     *)
LEMMA ChainOnlyLowers ==
  ASSUME NEW requested \in Int, NEW exchange \in Int, NEW riskMax \in Int,
         NEW available \in BOOLEAN,
         IsUsable(Resolve(requested, exchange, riskMax, available))
  PROVE  LET granted == Resolve(requested, exchange, riskMax, available).approved IN
         /\ granted \in Int
         /\ LeverageMin <= granted /\ granted <= requested
         /\ exchange # Unknown => granted <= exchange
         /\ riskMax # Unknown => granted <= riskMax
         /\ exchange = Unknown \/ riskMax = Unknown => granted = LeverageMin
<1> DEFINE d == Resolve(requested, exchange, riskMax, available)
           least == Least(requested, Least(exchange, riskMax))
<1>1. d.outcome # "REJECTED" /\ d.approved # Unknown
  BY DEF IsUsable
<1>2. requested # Unknown /\ WellFormed(requested)
  BY <1>1 DEF Resolve, Rejected
<1>3. CASE /\ exchange = Unknown \/ ~available \/ riskMax = Unknown
           /\ ResolvesAtMinimum(requested, exchange, riskMax)
  <2>1. d.approved = LeverageMin
    BY <1>2, <1>3 DEF Resolve, Approved
  <2> QED BY <2>1, <1>2, <1>3 DEF ResolvesAtMinimum, WellFormed, LeverageMin
<1>4. CASE ~ /\ exchange = Unknown \/ ~available \/ riskMax = Unknown
             /\ ResolvesAtMinimum(requested, exchange, riskMax)
  <2>1. /\ exchange # Unknown /\ WellFormed(exchange)
        /\ riskMax # Unknown /\ WellFormed(riskMax)
    BY <1>1, <1>2, <1>4 DEF Resolve, Rejected
  <2>2. d.approved = least
    BY <1>1, <1>2, <1>4 DEF Resolve, Rejected, Approved, Reduced
  <2>3. /\ least \in Int
        /\ least <= requested /\ least <= exchange /\ least <= riskMax
        /\ least >= LeverageMin
    BY <1>2, <2>1 DEF Least, WellFormed, LeverageMin
  <2> QED BY <2>1, <2>2, <2>3
<1> QED BY <1>3, <1>4

-----------------------------------------------------------------------------
(* The ruling of the last step is safe. *)
Safe(p, market, view, v) ==
  v.approved =>
    /\ LeverageMin <= v.leverage /\ v.leverage <= p.leverage
    /\ v.leverage <= (IF market.maxLeverage = Unknown THEN LeverageMin ELSE market.maxLeverage)
    /\ v.margin <= p.margin /\ ~(p.margin > view.available)
    /\ v.leverage > LeverageMin =>
         /\ SafetyFactor * v.leverage * p.stop <= 10000
         /\ v.notional * p.stop <= 100 * (view.realized - LossLimit)

(* FirstOf names the first check that is broken. *)
LEMMA FirstBroken ==
  ASSUME NEW checks, NEW n \in Nat, Len(checks) = n,
         NEW i \in 1..n, checks[i][1], \A j \in 1..n : checks[j][1] => i <= j
  PROVE  FirstOf(checks) = checks[i][2]
<1> DEFINE broken == {j \in 1..Len(checks) : checks[j][1]}
<1>1. i \in broken /\ broken # {}
  OBVIOUS
<1>2. Min(broken) = i
  <2>1. \A j \in broken : i <= j
    OBVIOUS
  <2>2. \A k \in broken : (\A j \in broken : k <= j) => k = i
    <3> TAKE k \in broken
    <3> HAVE \A j \in broken : k <= j
    <3> QED BY <1>1, <2>1
  <2> HIDE DEF broken
  <2> QED BY <1>1, <2>1, <2>2 DEF Min
<1> QED BY <1>1, <1>2 DEF FirstOf

(* Nothing is broken where FirstOf says so. *)
LEMMA NoneBroken ==
  ASSUME NEW checks, NEW n \in 1..7, Len(checks) = n, FirstOf(checks) = "NONE",
         \A j \in 1..n : checks[j][2] # "NONE"
  PROVE  \A j \in 1..n : ~checks[j][1]
<1> SUFFICES ASSUME NEW k \in 1..n, checks[k][1] PROVE FALSE
  OBVIOUS
<1> DEFINE broken == {j \in 1..Len(checks) : checks[j][1]}
<1>1. k \in broken /\ broken # {} /\ broken \subseteq 1..n
  OBVIOUS
<1>2. PICK i \in broken : \A j \in broken : i <= j
  <2>1. \A j \in broken : j \in {1, 2, 3, 4, 5, 6, 7}
    BY <1>1
  <2> HIDE DEF broken
  <2>2. CASE 1 \in broken BY <2>1, <2>2
  <2>3. CASE 1 \notin broken /\ 2 \in broken BY <2>1, <2>3
  <2>4. CASE {1, 2} \cap broken = {} /\ 3 \in broken BY <2>1, <2>4
  <2>5. CASE {1, 2, 3} \cap broken = {} /\ 4 \in broken BY <2>1, <2>5
  <2>6. CASE {1, 2, 3, 4} \cap broken = {} BY <1>1, <2>1, <2>6
  <2> QED BY <2>2, <2>3, <2>4, <2>5, <2>6
<1>3. FirstOf(checks) = checks[i][2]
  BY <1>2, FirstBroken
<1> QED BY <1>2, <1>3

(* Whatever the engine approves is safe: the truncated size never costs    *)
(* more than the margin at the approved leverage pays for.                 *)
LEMMA ApprovalIsSafe ==
  ASSUME NEW s, NEW p \in Proposals, NEW market \in Markets, NEW view,
         view.realized \in Int
  PROVE  Safe(p, market, view, Evaluate(s, p, view, market))
<1> DEFINE v == Evaluate(s, p, view, market)
           d == LeverageOf(p, view, market)
           max == DerivedMax(p, view)
           quantity == StepsFor(p.margin, d.approved, market.price)
           notional == quantity * market.price
<1> SUFFICES ASSUME v.approved PROVE Safe(p, market, view, v)
  BY DEF Safe
<1>1. /\ p.margin \in Int /\ p.leverage \in Int /\ p.stop \in Int
      /\ market.price \in Nat /\ market.maxLeverage \in Int
      /\ MaxLeverage \in Int /\ LossLimit \in Int
  BY DeskAssumption DEF LossLimit
<1>2. /\ v = Approval(p, market, d.approved)
      /\ IsUsable(d) /\ MarketRefusal(market) = "NONE"
      /\ SizeRefusal(p, view, market, d.approved) = "NONE"
  BY DEF Evaluate, Refusal
<1>3. market.price > 0
  <2> DEFINE checks == << <<market.status # "OK" \/ market.price = Unknown, "STALE_DATA">>,
                          <<market.age = Never, "STALE_DATA">>,
                          <<market.age > MaxDataAge, "STALE_DATA">> >>
  <2>1. Len(checks) = 3 /\ FirstOf(checks) = "NONE" /\ \A j \in 1..3 : checks[j][2] # "NONE"
    BY <1>2 DEF MarketRefusal
  <2>2. ~checks[1][1]
    <3> HIDE DEF checks
    <3> QED BY <2>1, NoneBroken, 1 \in 1..3
  <2>3. ~(market.status # "OK" \/ market.price = Unknown)
    BY <2>2, Zenon
  <2> QED BY <2>3, <1>1 DEF Unknown
<1>4. p.margin > 0 /\ ~(p.margin > view.available)
  <2> DEFINE checks == << <<p.margin <= 0, "POSITION_SIZE">>,
                <<p.margin > view.available, "INSUFFICIENT_BALANCE">>,
                <<quantity <= 0, "EXCHANGE_PRECISION">>,
                <<quantity < MinQuantity, "EXCHANGE_PRECISION">>,
                <<notional < MinNotional, "MIN_NOTIONAL">>,
                <<notional > MaxPositionNotional, "POSITION_SIZE">>,
                <<view.exposure + notional > MaxPortfolioExposure, "PORTFOLIO_EXPOSURE">> >>
  <2>1. FirstOf(checks) = "NONE"
    BY <1>2 DEF SizeRefusal
  <2> HIDE DEF quantity, notional
  <2>2. Len(checks) = 7 /\ \A j \in 1..7 : checks[j][2] # "NONE"
    OBVIOUS
  <2>3. ~checks[1][1] /\ ~checks[2][1]
    <3> HIDE DEF checks
    <3> QED BY <2>1, <2>2, NoneBroken, 1 \in 1..7, 2 \in 1..7
  <2>4. ~(p.margin <= 0) /\ ~(p.margin > view.available)
    BY <2>3, Zenon
  <2> QED BY <2>4, <1>1
<1>5. max # Unknown => Survivable(max, p.stop, p.margin, view.realized, LossLimit)
  <2>1. max = RiskMax(p.stop, p.margin, view.realized, LossLimit, MaxLeverage)
    BY DEF DerivedMax
  <2> HIDE DEF max
  <2> QED BY <2>1, <1>1, CeilingIsSafe
<1>6. /\ d.approved \in Int
      /\ LeverageMin <= d.approved /\ d.approved <= p.leverage
      /\ market.maxLeverage # Unknown => d.approved <= market.maxLeverage
      /\ max # Unknown => d.approved <= max
      /\ market.maxLeverage = Unknown \/ max = Unknown => d.approved = LeverageMin
  <2>1. max \in Int
    BY <1>5 DEF Unknown, Survivable
  <2> HIDE DEF max
  <2> QED BY <1>1, <1>2, <2>1, ChainOnlyLowers, d = Resolve(p.leverage, market.maxLeverage, max, TRUE)
      DEF LeverageOf, max
<1> HIDE DEF max, d
<1>7. /\ quantity \in Int /\ notional \in Int
      /\ 100 * notional <= p.margin * d.approved
  <2>1. 100 * market.price \in Nat /\ 100 * market.price > 0 /\ p.margin * d.approved \in Int
    BY <1>1, <1>3, <1>6
  <2>2. quantity \in Int /\ (100 * market.price) * quantity <= p.margin * d.approved
    BY <2>1, Truncation DEF StepsFor
  <2> HIDE DEF quantity
  <2> QED BY <2>2, <1>1
<1> HIDE DEF quantity
<1>8. v.leverage = d.approved /\ v.notional = notional /\ v.margin = (notional * 100) \div d.approved
  BY <1>2 DEF Approval, quantity
<1> HIDE DEF notional, v
<1>9. v.margin \in Int /\ v.margin <= p.margin
  <2>1. d.approved \in Nat /\ d.approved > 0 /\ notional * 100 \in Int
    BY <1>6, <1>7 DEF LeverageMin
  <2>2. v.margin \in Int /\ d.approved * v.margin <= notional * 100
    BY <2>1, <1>8, Truncation
  <2>3. d.approved * v.margin <= d.approved * p.margin
    BY <2>1, <2>2, <1>7, <1>1
  <2> QED BY <2>1, <2>2, <2>3, <1>1
<1>10. ASSUME d.approved > LeverageMin
       PROVE  /\ SafetyFactor * d.approved * p.stop <= 10000
              /\ notional * p.stop <= 100 * (view.realized - LossLimit)
  <2>1. /\ max \in Int /\ d.approved <= max
        /\ SafetyFactor * max * p.stop <= 10000
        /\ max * (p.margin * p.stop) <= 10000 * (view.realized - LossLimit)
        /\ p.stop > 0
    BY <1>5, <1>6, <1>10 DEF LeverageMin, Survivable, Unknown
  <2>2. SafetyFactor * d.approved * p.stop <= SafetyFactor * max * p.stop
    BY <2>1, <1>1, <1>6 DEF SafetyFactor
  <2>3. p.margin * p.stop \in Int /\ p.margin * p.stop > 0
    BY <2>1, <1>1, <1>4
  <2>4. d.approved * (p.margin * p.stop) <= max * (p.margin * p.stop)
    BY <2>1, <2>3, <1>6
  <2>5. (100 * notional) * p.stop <= (p.margin * d.approved) * p.stop
    BY <2>1, <1>1, <1>6, <1>7
  <2>6. (p.margin * d.approved) * p.stop = d.approved * (p.margin * p.stop)
    BY <1>1, <1>6
  <2>7. 100 * (notional * p.stop) <= 10000 * (view.realized - LossLimit)
    BY <2>1, <2>3, <2>4, <2>5, <2>6, <1>1, <1>6, <1>7
  <2> QED BY <2>1, <2>2, <2>7, <1>1, <1>6, <1>7 DEF SafetyFactor
<1> QED BY <1>4, <1>6, <1>8, <1>9, <1>10 DEF Safe

-----------------------------------------------------------------------------
(* The books are a record whatever happens to them, and the last ruling is *)
(* the engine's.                                                           *)
Locks == {"NONE", "DAILY_PROFIT_TARGET", "DAILY_LOSS_LIMIT"}

BooksShape ==
  /\ books = [realized |-> books.realized, lock |-> books.lock,
              lastEntry |-> books.lastEntry, positions |-> books.positions]
  /\ books.realized \in Int
  /\ books.lock \in Locks

(* A desk opens with nothing ruled. *)
LEMMA DeskStarts == DeskInit => BooksShape /\ RulingIsSafe
  BY DEF DeskInit, BooksShape, Locks, RulingIsSafe, NoRuling

(* The view of either desk carries what the books have realised. *)
LEMMA ViewsRealised ==
  ASSUME NEW s PROVE View(s).realized = books.realized
  BY DEF View, PaperView, TestnetView

(* A ruling is safe however its desk came to make it. *)
LEMMA RuledIsSafe ==
  ASSUME BooksShape, NEW s \in Symbols, NEW p \in Proposals, NEW market \in Markets,
         Ruled(s, p, market)
  PROVE  RulingIsSafe'
<1>1. View(s).realized \in Int
  BY ViewsRealised DEF BooksShape
<1>2. Safe(p, market, View(s), Evaluate(s, p, View(s), market))
  BY <1>1, ApprovalIsSafe
<1>3. /\ ruling'.proposal = p /\ ruling'.market = market /\ ruling'.view = View(s)
      /\ ruling'.verdict = Evaluate(s, p, View(s), market)
  BY DEF Ruled
<1> QED BY <1>2, <1>3 DEF Safe, RulingIsSafe

(* What every step does to the books and to the ruling. *)
LEMMA DeskStep ==
  ASSUME BooksShape, RulingIsSafe, [DeskNext]_deskVars
  PROVE  BooksShape' /\ RulingIsSafe'
<1>1. ASSUME NEW s \in Symbols, NEW p \in Proposals, NEW market \in Markets,
             PaperOrder(s, p, market)
      PROVE  BooksShape' /\ RulingIsSafe'
  <2>1. RulingIsSafe'
    BY <1>1, RuledIsSafe DEF PaperOrder
  <2>2. BooksShape'
    BY <1>1 DEF PaperOrder, BooksShape
  <2> QED BY <2>1, <2>2
<1>2. ASSUME NEW s \in Symbols, NEW p \in Proposals, NEW market \in Markets,
             TestnetRule(s, p, market)
      PROVE  BooksShape' /\ RulingIsSafe'
  <2>1. RulingIsSafe'
    BY <1>2, RuledIsSafe DEF TestnetRule
  <2>2. BooksShape'
    BY <1>2 DEF TestnetRule, BooksShape
  <2> QED BY <2>1, <2>2
<1>7. ASSUME NEW s \in Symbols, NEW p \in Proposals, PaperOrderUnlisted(s, p)
      PROVE  BooksShape' /\ RulingIsSafe'
  <2>1. ruling'.verdict.approved = FALSE
    BY <1>7 DEF PaperOrderUnlisted, Refusal
  <2> QED BY <1>7, <2>1 DEF PaperOrderUnlisted, BooksShape, RulingIsSafe
<1>3. ASSUME NEW o \in approved, NEW market \in Markets, TestnetSend(o, market)
      PROVE  BooksShape' /\ RulingIsSafe'
  BY <1>3 DEF TestnetSend, BooksShape, RulingIsSafe
<1>4. ASSUME NEW s \in Symbols, Close(s)
      PROVE  BooksShape' /\ RulingIsSafe'
  <2>1. PICK result \in Results :
          books' = LockAfter([books EXCEPT !.realized = @ + result, !.positions[s] = Absent])
    BY <1>4 DEF Close
  <2> DEFINE sum == books.realized + result
  <2> HIDE DEF sum
  <2>2. PICK b : b = [books EXCEPT !.realized = sum, !.positions[s] = Absent]
    OBVIOUS
  <2>3. /\ b = [realized |-> b.realized, lock |-> b.lock,
                lastEntry |-> b.lastEntry, positions |-> b.positions]
        /\ b.realized = sum /\ b.lock = books.lock
    BY <2>2 DEF BooksShape
  <2>4. b.realized \in Int
    BY <2>3, DeskAssumption DEF BooksShape, sum
  <2>5. books' = LockAfter(b)
    BY <2>1, <2>2 DEF sum
  <2>6. BooksShape'
    BY <2>3, <2>4, <2>5 DEF BooksShape, LockAfter, Locks
  <2> QED BY <2>6, <1>4 DEF Close, RulingIsSafe
<1>5. CASE EmergencyStop \/ Doubt \/ Tick
  BY <1>5 DEF EmergencyStop, Doubt, Tick, BooksShape, RulingIsSafe
<1>6. CASE UNCHANGED deskVars
  BY <1>6 DEF deskVars, BooksShape, RulingIsSafe
<1> QED BY <1>1, <1>2, <1>3, <1>4, <1>5, <1>6, <1>7 DEF DeskNext

(***************************************************************************)
(* Whatever the limits, the proposals and the markets are, no desk ever    *)
(* approves more leverage than was asked for, than the venue allows, or    *)
(* than a stop-out can be survived with (engine.py, analysis/leverage.py). *)
(***************************************************************************)
THEOREM DeskRulingsAreSafe == DeskSpec => []RulingIsSafe
<1>1. DeskInit => BooksShape /\ RulingIsSafe
  BY DeskStarts
<1>2. BooksShape /\ RulingIsSafe /\ [DeskNext]_deskVars => (BooksShape /\ RulingIsSafe)'
  BY DeskStep
<1> QED BY <1>1, <1>2, PTL DEF DeskSpec

-----------------------------------------------------------------------------
(* The account is looked at first and its halts in this order (evaluate).  *)
LEMMA HaltNamed ==
  ASSUME NEW view, view.stopped \in BOOLEAN, view.unsettled \in BOOLEAN, view.lock \in Locks
  PROVE  /\ view.stopped => AccountRefusal(view) = "EMERGENCY_STOP"
         /\ ~view.stopped /\ view.unsettled => AccountRefusal(view) = "RECONCILIATION_PENDING"
         /\ ~view.stopped /\ ~view.unsettled /\ view.lock # "NONE" =>
              AccountRefusal(view) = view.lock
<1> DEFINE checks == << <<view.stopped, "EMERGENCY_STOP">>,
                        <<view.unsettled, "RECONCILIATION_PENDING">>,
                        <<view.lock = "DAILY_PROFIT_TARGET", "DAILY_PROFIT_TARGET">>,
                        <<view.lock # "NONE", "DAILY_LOSS_LIMIT">> >>
<1>1. AccountRefusal(view) = FirstOf(checks)
  BY DEF AccountRefusal
<1>2. /\ Len(checks) = 4
      /\ checks[1][2] = "EMERGENCY_STOP" /\ checks[2][2] = "RECONCILIATION_PENDING"
      /\ checks[3][2] = "DAILY_PROFIT_TARGET" /\ checks[4][2] = "DAILY_LOSS_LIMIT"
  OBVIOUS
<1>3. /\ checks[1][1] <=> view.stopped
      /\ checks[2][1] <=> view.unsettled
      /\ checks[3][1] <=> view.lock = "DAILY_PROFIT_TARGET"
      /\ checks[4][1] <=> view.lock # "NONE"
  BY Zenon
<1> HIDE DEF checks
<1>4. \A j \in 1..4 : j = 1 \/ j = 2 \/ j = 3 \/ j = 4
  OBVIOUS
<1>5. CASE view.stopped
  <2>1. \A j \in 1..4 : checks[j][1] => 1 <= j
    OBVIOUS
  <2> QED BY <1>1, <1>2, <1>3, <1>5, <2>1, FirstBroken, 1 \in 1..4
<1>6. CASE ~view.stopped /\ view.unsettled
  <2>1. \A j \in 1..4 : checks[j][1] => 2 <= j
    BY <1>3, <1>4, <1>6
  <2> QED BY <1>1, <1>2, <1>3, <1>6, <2>1, FirstBroken, 2 \in 1..4
<1>7. CASE ~view.stopped /\ ~view.unsettled /\ view.lock = "DAILY_PROFIT_TARGET"
  <2>1. \A j \in 1..4 : checks[j][1] => 3 <= j
    BY <1>3, <1>4, <1>7
  <2> QED BY <1>1, <1>2, <1>3, <1>7, <2>1, FirstBroken, 3 \in 1..4
<1>8. CASE ~view.stopped /\ ~view.unsettled /\ view.lock = "DAILY_LOSS_LIMIT"
  <2>1. \A j \in 1..4 : checks[j][1] => 4 <= j
    BY <1>3, <1>4, <1>8
  <2> QED BY <1>1, <1>2, <1>3, <1>8, <2>1, FirstBroken, 4 \in 1..4
<1> QED BY <1>5, <1>6, <1>7, <1>8 DEF Locks

(* The gate for what is not listed knows no doubt, and the same order      *)
(* otherwise (check_authority).                                            *)
LEMMA UnlistedNamed ==
  ASSUME NEW view, view.stopped \in BOOLEAN, view.lock \in Locks
  PROVE  /\ view.stopped => UnlistedRefusal(view) = "EMERGENCY_STOP"
         /\ ~view.stopped /\ view.lock # "NONE" => UnlistedRefusal(view) = view.lock
<1> DEFINE checks == << <<view.stopped, "EMERGENCY_STOP">>,
                        <<view.lock = "DAILY_PROFIT_TARGET", "DAILY_PROFIT_TARGET">>,
                        <<view.lock # "NONE", "DAILY_LOSS_LIMIT">>,
                        <<TRUE, "STALE_DATA">> >>
<1>1. UnlistedRefusal(view) = FirstOf(checks)
  BY DEF UnlistedRefusal
<1>2. /\ Len(checks) = 4
      /\ checks[1][2] = "EMERGENCY_STOP" /\ checks[2][2] = "DAILY_PROFIT_TARGET"
      /\ checks[3][2] = "DAILY_LOSS_LIMIT"
  OBVIOUS
<1>3. /\ checks[1][1] <=> view.stopped
      /\ checks[2][1] <=> view.lock = "DAILY_PROFIT_TARGET"
      /\ checks[3][1] <=> view.lock # "NONE"
  BY Zenon
<1> HIDE DEF checks
<1>4. \A j \in 1..4 : j = 1 \/ j = 2 \/ j = 3 \/ j = 4
  OBVIOUS
<1>5. CASE view.stopped
  <2>1. \A j \in 1..4 : checks[j][1] => 1 <= j
    OBVIOUS
  <2> QED BY <1>1, <1>2, <1>3, <1>5, <2>1, FirstBroken, 1 \in 1..4
<1>6. CASE ~view.stopped /\ view.lock = "DAILY_PROFIT_TARGET"
  <2>1. \A j \in 1..4 : checks[j][1] => 2 <= j
    BY <1>3, <1>4, <1>6
  <2> QED BY <1>1, <1>2, <1>3, <1>6, <2>1, FirstBroken, 2 \in 1..4
<1>7. CASE ~view.stopped /\ view.lock = "DAILY_LOSS_LIMIT"
  <2>1. \A j \in 1..4 : checks[j][1] => 3 <= j
    BY <1>3, <1>4, <1>7
  <2> QED BY <1>1, <1>2, <1>3, <1>7, <2>1, FirstBroken, 3 \in 1..4
<1> QED BY <1>5, <1>6, <1>7 DEF Locks

(* The flags a halt is read from are flags. *)
FlagsShape == BooksShape /\ stopped \in BOOLEAN /\ unsettled \in BOOLEAN

(* On the paper desk only an order makes a new ruling. *)
LEMMA OnlyRulingsRule ==
  ASSUME [DeskNext]_deskVars, mode = "PAPER", ruling' \notin {ruling, NoRuling}
  PROVE  \E s \in Symbols, p \in Proposals :
           PaperOrderUnlisted(s, p) \/ \E m \in Markets : PaperOrder(s, p, m)
  BY DEF DeskNext, deskVars, TestnetRule, TestnetSend, Close, EmergencyStop, Doubt, Tick, Modes

(* What the property says of a step that makes a ruling. *)
Named ==
  LET code == ruling'.verdict.code
      doubted == unsettled /\ ruling'.listed
  IN /\ stopped => code = "EMERGENCY_STOP"
     /\ (~stopped /\ doubted) => code = "RECONCILIATION_PENDING"
     /\ (~stopped /\ ~doubted /\ books.lock # "NONE") => code = books.lock

(* A ruling on a halted account is refused for the halt (evaluate).        *)
LEMMA HaltStep ==
  ASSUME FlagsShape, [DeskNext]_deskVars, mode = "PAPER", ruling' \notin {ruling, NoRuling}
  PROVE  Named
<1>1. PICK s \in Symbols, p \in Proposals :
        PaperOrderUnlisted(s, p) \/ \E m \in Markets : PaperOrder(s, p, m)
  BY OnlyRulingsRule
<1> DEFINE view == PaperView(s)
<1>2. view.stopped = stopped /\ view.unsettled = unsettled /\ view.lock = books.lock
  BY DEF PaperView
<1>3. View(s) = view
  BY DEF View
<1>4. ASSUME NEW m \in Markets, PaperOrder(s, p, m)
      PROVE  Named
  <2>1. ruling'.verdict = Evaluate(s, p, view, m) /\ ruling'.listed = TRUE
    BY <1>3, <1>4 DEF PaperOrder, Ruled
  <2> HIDE DEF view
  <2>2. AccountRefusal(view) # "NONE" => ruling'.verdict.code = AccountRefusal(view)
    BY <2>1 DEF Evaluate, Refusal
  <2>3. /\ view.stopped => AccountRefusal(view) = "EMERGENCY_STOP"
        /\ ~view.stopped /\ view.unsettled => AccountRefusal(view) = "RECONCILIATION_PENDING"
        /\ ~view.stopped /\ ~view.unsettled /\ view.lock # "NONE" =>
             AccountRefusal(view) = view.lock
    BY <1>2, HaltNamed DEF FlagsShape, BooksShape
  <2> QED BY <1>2, <2>1, <2>2, <2>3 DEF Named
<1>5. CASE PaperOrderUnlisted(s, p)
  <2>1. /\ ruling'.verdict = Refusal(UnlistedRefusal(view))
        /\ ruling'.listed = FALSE
    BY <1>5 DEF PaperOrderUnlisted
  <2> HIDE DEF view
  <2>2. ruling'.verdict.code = UnlistedRefusal(view)
    BY <2>1 DEF Refusal
  <2>3. /\ view.stopped => UnlistedRefusal(view) = "EMERGENCY_STOP"
        /\ ~view.stopped /\ view.lock # "NONE" => UnlistedRefusal(view) = view.lock
    BY <1>2, UnlistedNamed DEF FlagsShape, BooksShape
  <2> QED BY <1>2, <2>1, <2>2, <2>3 DEF Named
<1> QED BY <1>1, <1>4, <1>5

(* No step leaves the flags anything but flags. *)
LEMMA FlagsStep ==
  ASSUME FlagsShape, RulingIsSafe, [DeskNext]_deskVars
  PROVE  FlagsShape'
<1>1. BooksShape'
  BY DeskStep DEF FlagsShape
<1>2. stopped' \in BOOLEAN /\ unsettled' \in BOOLEAN
  <2> USE DEF FlagsShape
  <2>1. CASE UNCHANGED deskVars
    BY <2>1 DEF deskVars
  <2>2. ASSUME NEW s \in Symbols, NEW p \in Proposals, NEW m \in Markets,
               PaperOrder(s, p, m) \/ TestnetRule(s, p, m)
        PROVE  stopped' \in BOOLEAN /\ unsettled' \in BOOLEAN
    BY <2>2 DEF PaperOrder, TestnetRule
  <2>8. ASSUME NEW s \in Symbols, NEW p \in Proposals, PaperOrderUnlisted(s, p)
        PROVE  stopped' \in BOOLEAN /\ unsettled' \in BOOLEAN
    BY <2>8 DEF PaperOrderUnlisted
  <2>3. ASSUME NEW o \in approved, NEW m \in Markets, TestnetSend(o, m)
        PROVE  stopped' \in BOOLEAN /\ unsettled' \in BOOLEAN
    BY <2>3 DEF TestnetSend
  <2>4. ASSUME NEW s \in Symbols, Close(s)
        PROVE  stopped' \in BOOLEAN /\ unsettled' \in BOOLEAN
    BY <2>4 DEF Close
  <2>5. CASE EmergencyStop
    BY <2>5 DEF EmergencyStop
  <2>6. CASE Doubt
    BY <2>6 DEF Doubt
  <2>7. CASE Tick
    BY <2>7 DEF Tick
  <2> QED BY <2>1, <2>2, <2>3, <2>4, <2>5, <2>6, <2>7, <2>8 DEF DeskNext
<1> QED BY <1>1, <1>2 DEF FlagsShape

(***************************************************************************)
(* Whatever else is wrong with an order, an account that is halted is what *)
(* the paper desk refuses it for (engine.py), for every limit, proposal    *)
(* and market; an order for a symbol that is not listed, which the paper   *)
(* engine's own gate refuses (paper/risk.py), names every halt but doubt.  *)
(***************************************************************************)
THEOREM DeskHaltsAreNamed == DeskSpec => HaltsAreNeverMasked
<1>1. DeskInit => FlagsShape /\ RulingIsSafe
  BY DeskStarts DEF FlagsShape, DeskInit
<1>2. FlagsShape /\ RulingIsSafe /\ [DeskNext]_deskVars => (FlagsShape /\ RulingIsSafe)'
  BY FlagsStep, DeskStep DEF FlagsShape
<1>3. FlagsShape /\ [DeskNext]_deskVars =>
        [ (mode = "PAPER" /\ ruling' \notin {ruling, NoRuling}) => Named ]_deskVars
  BY HaltStep
<1> QED BY <1>1, <1>2, <1>3, PTL DEF DeskSpec, HaltsAreNeverMasked, Named

-----------------------------------------------------------------------------
(* The analysis: what its state is, and stays. *)

(* The candles as the venue knows them. *)
Candles == [low : Nat \ {0}, close : Nat, high : Nat, volume : Nat, reading : Readings,
            closed : BOOLEAN, time : Int]

(* What a position was opened on. *)
Theses == [side : Sides, entry : Int, stop : Int, target : Int, planned : Nat,
           recorded : {ConditionNames, {}}]

AnalysisInv ==
  /\ candles \in Seq(Candles) /\ candles # <<>>
  /\ feed \in Feeds /\ params \in Params /\ posture \in Postures
  /\ position = NoPosition \/ position \in Theses

LEMMA BarsAreCandles == Bars \subseteq Candles
  BY AnalysisAssumption DEF Candles

LEMMA LastIsACandle ==
  ASSUME NEW q \in Seq(Candles), q # <<>>
  PROVE  /\ Len(q) \in Nat \ {0} /\ Len(q) \in 1..Len(q)
         /\ q[Len(q)] \in Candles /\ Last(q) = q[Len(q)]
<1>1. Len(q) \in Nat /\ Len(q) # 0
  BY EmptySeq
<1> QED BY <1>1 DEF Last

LEMMA FrontOf ==
  ASSUME NEW S, NEW q \in Seq(S), q # <<>>, NEW r, r = Front(q)
  PROVE  /\ Len(q) \in Nat \ {0} /\ r \in Seq(S) /\ Len(r) = Len(q) - 1
         /\ \A k \in 1..(Len(q) - 1) : r[k] = q[k]
<1> DEFINE n == Len(q) - 1
<1>1. Len(q) \in Nat \ {0} /\ n \in Nat /\ \A k \in 1..n : q[k] \in S
  BY EmptySeq
<1>2. r = SubSeq(q, 1, n)
  BY DEF Front
<1> HIDE DEF n
<1>3. /\ r \in Seq(S) /\ Len(r) = IF 1 <= n THEN n - 1 + 1 ELSE 0
      /\ \A k \in 1..(n - 1 + 1) : r[k] = q[1 + k - 1]
  BY <1>1, <1>2, SubSeqProperties
<1>4. Len(r) = n /\ \A k \in 1..n : r[k] = q[k]
  BY <1>1, <1>3
<1> QED BY <1>1, <1>3, <1>4 DEF n

LEMMA AnalysisStarts == AnalysisInit => AnalysisInv
<1> SUFFICES ASSUME AnalysisInit PROVE AnalysisInv
  OBVIOUS
<1>1. PICK b \in Bars : candles = << b >>
  BY DEF AnalysisInit
<1>2. b \in Candles
  BY BarsAreCandles
<1>3. candles \in Seq(Candles) /\ candles # <<>>
  BY <1>1, <1>2
<1> QED BY <1>3 DEF AnalysisInit, AnalysisInv, Postures

LEMMA AnalysisSteps == AnalysisInv /\ [AnalysisNext]_analysisVars => AnalysisInv'
<1> SUFFICES ASSUME AnalysisInv, [AnalysisNext]_analysisVars PROVE AnalysisInv'
  OBVIOUS
<1>1. CASE UNCHANGED analysisVars
  BY <1>1 DEF AnalysisInv, analysisVars
<1>2. ASSUME NEW b \in Bars, Opens(b) PROVE AnalysisInv'
  <2>1. b \in Candles
    BY BarsAreCandles
  <2> DEFINE kept == IF Len(candles) < Window THEN candles ELSE Tail(candles)
  <2>2. kept \in Seq(Candles)
    <3>1. candles \in Seq(Candles) /\ candles # <<>>
      BY DEF AnalysisInv
    <3>2. Tail(candles) \in Seq(Candles)
      BY <3>1, HeadTailProperties
    <3> QED BY <3>1, <3>2
  <2>3. candles' = Append(kept, b)
    BY <1>2 DEF Opens
  <2> HIDE DEF kept
  <2>4. candles' \in Seq(Candles) /\ candles' # <<>>
    BY <2>1, <2>2, <2>3, AppendProperties
  <2> QED BY <1>2, <2>4 DEF Opens, AnalysisInv
<1>3. ASSUME NEW b \in Bars, Moves(b) PROVE AnalysisInv'
  <2>1. b \in Candles
    BY BarsAreCandles
  <2>2. Front(candles) \in Seq(Candles)
    BY FrontOf DEF AnalysisInv
  <2>3. candles' = Append(Front(candles), b)
    BY <1>3 DEF Moves
  <2>4. candles' \in Seq(Candles) /\ candles' # <<>>
    BY <2>1, <2>2, <2>3, AppendProperties
  <2> QED BY <1>3, <2>4 DEF Moves, AnalysisInv
<1>4. CASE Closes
  <2> DEFINE n == Len(candles)
  <2>1. n \in 1..n /\ candles[n] \in Candles /\ candles \in [1..n -> Candles] /\ n \in Nat
    BY LastIsACandle, LenProperties DEF AnalysisInv
  <2>2. candles' = [candles EXCEPT ![n] = [candles[n] EXCEPT !.closed = TRUE]]
    BY <1>4 DEF Closes
  <2>3. [candles[n] EXCEPT !.closed = TRUE] \in Candles
    BY <2>1 DEF Candles
  <2>4. candles' \in [1..n -> Candles]
    BY <2>1, <2>2, <2>3
  <2> HIDE DEF n
  <2>5. candles' \in Seq(Candles) /\ candles' # <<>>
    BY <2>1, <2>4
  <2> QED BY <1>4, <2>5 DEF Closes, AnalysisInv
<1>5. ASSUME NEW side \in Sides, NEW plan \in Plans, Enters(side, plan) PROVE AnalysisInv'
  <2>1. Last(candles).close \in Nat
    BY LastIsACandle DEF AnalysisInv, Candles
  <2>2. plan.stop \in Nat /\ plan.target \in Nat
    BY AnalysisAssumption
  <2>3. \A recorded \in {ConditionNames, {}} : CaptureThesis(side, plan, recorded) \in Theses
    BY <2>1, <2>2 DEF CaptureThesis, Theses
  <2>4. position' \in Theses
    BY <1>5, <2>3 DEF Enters
  <2> QED BY <1>5, <2>4 DEF Enters, AnalysisInv
<1>6. CASE Leaves
  BY <1>6 DEF Leaves, AnalysisInv
<1>7. CASE Changes
  BY <1>7 DEF Changes, AnalysisInv
<1> QED BY <1>1, <1>2, <1>3, <1>4, <1>5, <1>6, <1>7 DEF AnalysisNext

(***************************************************************************)
(* The candles a fetch is made from stay candles and are never none, and a *)
(* position that is held is one whose levels were all recorded when it was *)
(* opened (services/paper.py _capture_thesis, position_intelligence).      *)
(***************************************************************************)
THEOREM AnalysisHolds == AnalysisSpec => []AnalysisInv
  BY AnalysisStarts, AnalysisSteps, PTL DEF AnalysisSpec

-----------------------------------------------------------------------------
(* What becomes of a position. *)

(* A sight and its mark. *)
LEMMA MarkOfSight ==
  ASSUME NEW bars, NEW f, NEW under, NEW s, s = SightOf(bars, f, under)
  PROVE  /\ "mark" \in DOMAIN s
         /\ s.mark = IF under = "UNMARKED" THEN 0 ELSE Last(bars).close
  BY DEF SightOf

LEMMA MarkOfOther ==
  ASSUME NEW s, NEW mark, NEW reading, "mark" \in DOMAIN s,
         NEW t, t = [s EXCEPT !.mark = mark, !.reading = reading]
  PROVE  t.mark = mark
<1>1. t = [d \in DOMAIN s |-> IF d = "reading" THEN reading ELSE IF d = "mark" THEN mark ELSE s[d]]
  OBVIOUS
<1> QED BY <1>1

(* What has been lost of a thesis and what is held make up the thesis. *)
LEMMA HeldAndLost ==
  ASSUME NEW p \in Theses, NEW s
  PROVE  /\ Held(p, s) = p.recorded \ (p.recorded \ Conditions(s.reading, p.side))
         /\ IsFiniteSet(p.recorded)
         /\ Cardinality(p.recorded) \in Nat /\ Cardinality(Held(p, s)) \in Nat
         /\ Cardinality(p.recorded \ Conditions(s.reading, p.side))
              = Cardinality(p.recorded) - Cardinality(Held(p, s))
         /\ p.recorded # {} => Cardinality(p.recorded) > 0
<1> DEFINE c == Conditions(s.reading, p.side)
<1>1. p.recorded \subseteq ConditionNames
  BY DEF Theses
<1>2. IsFiniteSet(ConditionNames)
  <2>1. ConditionNames = {"trend", "trend_strength", "momentum"} \cup {"macd"}
    BY DEF ConditionNames
  <2> QED BY <2>1, ThreeAreFinite, FS_Singleton, FS_Union
<1>3. IsFiniteSet(p.recorded)
  BY <1>1, <1>2, FS_Subset
<1>4. Held(p, s) = p.recorded \cap c
  BY DEF Held
<1> HIDE DEF c
<1>5. /\ Cardinality(p.recorded) \in Nat
      /\ Cardinality(p.recorded \ c) = Cardinality(p.recorded) - Cardinality(p.recorded \cap c)
  BY <1>3, FS_Difference, FS_CardinalityType
<1>6. Cardinality(p.recorded \cap c) \in Nat
  BY <1>3, FS_Intersection, FS_CardinalityType
<1>7. p.recorded # {} => Cardinality(p.recorded) # 0
  BY <1>3, FS_EmptySet
<1> QED BY <1>3, <1>4, <1>5, <1>6, <1>7 DEF c

(* What an adverse word of each brain rests on. *)
LEMMA AdverseTechnical ==
  ASSUME NEW p, NEW s
  PROVE  /\ TechnicalBrain(p, s) # "UNAVAILABLE" <=>
              p.recorded # {} /\ s.readable /\ RulesReadable(s.reading)
         /\ TechnicalBrain(p, s) = "ADVERSE" <=>
              /\ p.recorded # {} /\ s.readable /\ RulesReadable(s.reading)
              /\ Held(p, s) # p.recorded
              /\ 3 * Cardinality(Held(p, s)) <= Cardinality(p.recorded)
BY DEF TechnicalBrain

LEMMA AdversePosition ==
  ASSUME NEW p, NEW s
  PROVE  PositionBrain(p, s) = "ADVERSE" <=> s.mark # 0 /\ NearStop(p, s)
BY DEF PositionBrain

LEMMA AdverseMomentum ==
  ASSUME NEW p, NEW s, MomentumBrain(p, s) = "ADVERSE"
  PROVE  MomentumSigns(p, s) # {} /\ \A m \in MomentumSigns(p, s) : ~m.with
BY DEF MomentumBrain

LEMMA AdverseRegime ==
  ASSUME NEW p, NEW s, RegimeBrain(p, s) = "ADVERSE"
  PROVE  Regime(s.reading) = TrendOf(Opposite(p.side))
BY DEF RegimeBrain

(* What the ladder makes of the brains. *)
LEMMA LadderReads ==
  ASSUME NEW p, NEW s, NEW d, d = Decision(p, s)
  PROVE  /\ d \in DOMAIN Urgency =>
              ~Blocked(s) /\ s.mark # 0 /\ TechnicalBrain(p, s) # "UNAVAILABLE"
         /\ d = "EXIT" => ConfirmedReversal(p, s) /\ d \in DOMAIN Urgency
         /\ d \in DOMAIN Urgency /\ ConfirmedReversal(p, s) => d = "EXIT"
         /\ d = "PROTECT" => "ADVERSE" \in {TechnicalBrain(p, s), RegimeBrain(p, s)}
         /\ d \in DOMAIN Urgency /\ "ADVERSE" \in {TechnicalBrain(p, s), RegimeBrain(p, s)} =>
              d \in {"EXIT", "PROTECT"}
<1>1. DOMAIN Urgency = {"HOLD", "TRAIL", "PROTECT", "EXIT"}
  BY DEF Urgency
<1>2. ExitBrain(p, s) = "ADVERSE" <=> ConfirmedReversal(p, s)
  BY DEF ExitBrain
<1>3. MarketBrain(s) = "UNAVAILABLE" <=> s.mark = 0
  BY DEF MarketBrain
<1> QED BY <1>1, <1>2, <1>3 DEF Decision

(***************************************************************************)
(* Exit advice is given on a clear view only, when most of the recorded    *)
(* conditions are lost and another reading is against the position too,    *)
(* whatever the candles and the plan (exit_brain, evaluate_position).      *)
(***************************************************************************)
THEOREM NoSingleReadingExits == AnalysisSpec => []OneReadingNeverExits
<1>1. AnalysisInv => OneReadingNeverExits
  <2> SUFFICES ASSUME AnalysisInv, position # NoPosition, NEW sight,
                      sight = SightOf(candles, feed, posture),
                      Decision(position, sight) = "EXIT"
               PROVE  LET lost == position.recorded \ Conditions(sight.reading, position.side)
                      IN /\ posture = "CLEAR" /\ feed.status = "OK"
                         /\ 2 * Cardinality(lost) > Cardinality(position.recorded)
                         /\ \/ Regime(sight.reading) = TrendOf(Opposite(position.side))
                            \/ /\ MomentumSigns(position, sight) # {}
                               /\ \A m \in MomentumSigns(position, sight) : ~m.with
                            \/ NearStop(position, sight)
    BY DEF OneReadingNeverExits
  <2>1. position \in Theses /\ posture \in Postures
    BY DEF AnalysisInv
  <2>2. /\ ConfirmedReversal(position, sight) /\ ~Blocked(sight) /\ sight.mark # 0
    BY LadderReads
  <2>3. posture = "CLEAR"
    BY <2>1, <2>2 DEF SightOf, Blocked, Postures
  <2>4. TechnicalBrain(position, sight) = "ADVERSE"
    BY <2>2 DEF ConfirmedReversal
  <2>5. /\ position.recorded # {} /\ sight.readable
        /\ 3 * Cardinality(Held(position, sight)) <= Cardinality(position.recorded)
    BY <2>4, AdverseTechnical
  <2>6. feed.status = "OK"
    BY <2>5 DEF SightOf
  <2> DEFINE lost == position.recorded \ Conditions(sight.reading, position.side)
             all == Cardinality(position.recorded)
             held == Cardinality(Held(position, sight))
  <2>7. Cardinality(lost) = all - held /\ all \in Nat /\ held \in Nat /\ all > 0
    BY <2>1, <2>5, HeldAndLost
  <2>8. 3 * held <= all
    BY <2>5
  <2>9. 2 * Cardinality(lost) > all
    <3> HIDE DEF all, held, lost
    <3> QED BY <2>7, <2>8
  <2>10. \/ RegimeBrain(position, sight) = "ADVERSE"
         \/ MomentumBrain(position, sight) = "ADVERSE"
         \/ PositionBrain(position, sight) = "ADVERSE"
    BY <2>2 DEF ConfirmedReversal
  <2>11. \/ Regime(sight.reading) = TrendOf(Opposite(position.side))
         \/ /\ MomentumSigns(position, sight) # {}
            /\ \A m \in MomentumSigns(position, sight) : ~m.with
         \/ NearStop(position, sight)
    BY <2>10, AdverseRegime, AdverseMomentum, AdversePosition
  <2> QED BY <2>3, <2>6, <2>9, <2>11
<1> QED BY <1>1, AnalysisHolds, PTL

(* A stop that was near stays near when the price moves against.           *)
LEMMA NearerStop ==
  ASSUME NEW p \in Theses, NEW s, NEW t, s.mark \in Int, t.mark \in Int, t.mark # 0,
         Ahead(p, s.mark, t.mark) <= 0, NearStop(p, s)
  PROVE  NearStop(p, t)
<1>1. p.stop \in Int /\ p.planned \in Nat
  BY DEF Theses
<1>2. RemainingKnown(p, t) /\ 4 * Ahead(p, p.stop, s.mark) <= p.planned
  BY DEF NearStop, RemainingKnown
<1>3. Ahead(p, p.stop, t.mark) <= Ahead(p, p.stop, s.mark)
      /\ Ahead(p, p.stop, t.mark) \in Int /\ Ahead(p, p.stop, s.mark) \in Int
  BY <1>1 DEF Ahead
<1>4. 4 * Ahead(p, p.stop, t.mark) <= p.planned
  BY <1>1, <1>2, <1>3
<1> QED BY <1>2, <1>4 DEF NearStop

(* A worse look is read no better by any brain.                            *)
ReadWorse(p, s, t) ==
  /\ TechnicalBrain(p, s) = "ADVERSE" => TechnicalBrain(p, t) = "ADVERSE"
  /\ RegimeBrain(p, s) = "ADVERSE" => RegimeBrain(p, t) = "ADVERSE"
  /\ ConfirmedReversal(p, s) => ConfirmedReversal(p, t)

LEMMA WorseReads ==
  ASSUME NEW p \in Theses, NEW s, NEW t, s.mark \in Int, t.mark \in Int,
         t.mark # 0, TechnicalBrain(p, t) # "UNAVAILABLE", Worse(p, s, t)
  PROVE  ReadWorse(p, s, t)
<1>1. TechnicalBrain(p, s) = "ADVERSE" => TechnicalBrain(p, t) = "ADVERSE"
  <2> SUFFICES ASSUME TechnicalBrain(p, s) = "ADVERSE"
               PROVE  TechnicalBrain(p, t) = "ADVERSE"
    OBVIOUS
  <2>1. /\ Held(p, s) # p.recorded
        /\ 3 * Cardinality(Held(p, s)) <= Cardinality(p.recorded)
    BY AdverseTechnical
  <2>2. Held(p, t) \subseteq Held(p, s) /\ Held(p, s) \subseteq p.recorded
    BY DEF Worse, Held
  <2>3. /\ IsFiniteSet(Held(p, s)) /\ IsFiniteSet(p.recorded)
        /\ Cardinality(Held(p, s)) \in Nat /\ Cardinality(Held(p, t)) \in Nat
        /\ Cardinality(p.recorded) \in Nat
    BY <2>2, HeldAndLost, FS_Subset
  <2>4. Cardinality(Held(p, t)) <= Cardinality(Held(p, s))
    BY <2>2, <2>3, FS_Subset
  <2>5. 3 * Cardinality(Held(p, t)) <= Cardinality(p.recorded)
    BY <2>1, <2>3, <2>4
  <2>6. p.recorded # {} /\ t.readable /\ RulesReadable(t.reading)
    BY AdverseTechnical
  <2>7. Held(p, t) # p.recorded
    BY <2>1, <2>2
  <2> QED BY <2>5, <2>6, <2>7, AdverseTechnical
<1>2. PositionBrain(p, s) = "ADVERSE" => PositionBrain(p, t) = "ADVERSE"
  BY NearerStop, AdversePosition DEF Worse
<1>3. /\ RegimeBrain(p, s) = "ADVERSE" => RegimeBrain(p, t) = "ADVERSE"
      /\ MomentumBrain(p, s) = "ADVERSE" => MomentumBrain(p, t) = "ADVERSE"
  BY DEF Worse
<1> QED BY <1>1, <1>2, <1>3 DEF ConfirmedReversal, ReadWorse

(***************************************************************************)
(* Seen at a mark no better and over a candle no kinder, a position gets   *)
(* advice as urgent or more: every brain that was against it still is, and *)
(* no rung of the ladder takes an adverse word for less (_resolve).        *)
(***************************************************************************)
THEOREM AWorseLookIsNoSofter == AnalysisSpec => []WorseNeverSoftens
<1>1. AnalysisInv => WorseNeverSoftens
  <2> SUFFICES ASSUME AnalysisInv, position # NoPosition, NEW sight,
                      sight = SightOf(candles, feed, posture),
                      Decision(position, sight) \in DOMAIN Urgency,
                      NEW b \in Bars, NEW mark \in {sight.mark} \cup {c.close : c \in Bars},
                      NEW other, other = [sight EXCEPT !.mark = mark, !.reading = b.reading],
                      Decision(position, other) \in DOMAIN Urgency,
                      Worse(position, sight, other)
               PROVE  Urgency[Decision(position, other)] >= Urgency[Decision(position, sight)]
    BY DEF WorseNeverSoftens
  <2>1. position \in Theses /\ candles \in Seq(Candles) /\ candles # <<>>
    BY DEF AnalysisInv
  <2>2. sight.mark \in Int
    <3>1. Last(candles).close \in Int
      <4>1. Last(candles) \in Candles
        BY <2>1, LastIsACandle
      <4> QED BY <4>1 DEF Candles
    <3>2. sight.mark = IF posture = "UNMARKED" THEN 0 ELSE Last(candles).close
      BY MarkOfSight
    <3> QED BY <3>1, <3>2
  <2>3. mark \in Int
    BY <2>2, BarsAreCandles DEF Candles
  <2>4. other.mark \in Int
    BY <2>3, MarkOfSight, MarkOfOther
  <2> DEFINE p == position
             was == Decision(p, sight)
             is == Decision(p, other)
  <2>5. other.mark # 0 /\ TechnicalBrain(p, other) # "UNAVAILABLE"
    BY LadderReads
  <2>6. ReadWorse(p, sight, other)
    BY <2>1, <2>2, <2>4, <2>5, WorseReads
  <2>7. was = "EXIT" => is = "EXIT"
    BY <2>6, LadderReads DEF ReadWorse
  <2>8. was = "PROTECT" => is \in {"EXIT", "PROTECT"}
    BY <2>6, LadderReads DEF ReadWorse
  <2> HIDE DEF was, is
  <2>9. was \in {"HOLD", "TRAIL", "PROTECT", "EXIT"} /\ is \in {"HOLD", "TRAIL", "PROTECT", "EXIT"}
    BY DEF was, is, Urgency
  <2>10. Urgency[is] >= Urgency[was]
    BY <2>7, <2>8, <2>9 DEF Urgency
  <2> QED BY <2>10 DEF was, is
<1> QED BY <1>1, AnalysisHolds, PTL

-----------------------------------------------------------------------------
(* Setups. *)

LEMMA FunctionIsSequence ==
  ASSUME NEW S, NEW n \in Nat, NEW f \in [1..n -> S]
  PROVE  f \in Seq(S) /\ Len(f) = n
  OBVIOUS

LEMMA RetimedIs ==
  ASSUME NEW b \in Candles, NEW time \in Int
  PROVE  /\ [b EXCEPT !.time = time] \in Candles
         /\ [b EXCEPT !.time = time].closed = b.closed
         /\ [b EXCEPT !.time = time].time = time
  BY DEF Candles

LEMMA TimedAre ==
  ASSUME NEW q \in Seq(Candles), q # <<>>,
         NEW timed, timed = [i \in DOMAIN q |-> [q[i] EXCEPT !.time = i]]
  PROVE  /\ timed \in Seq(Candles) /\ Len(timed) = Len(q)
         /\ \A i \in 1..Len(q) : timed[i] = [q[i] EXCEPT !.time = i]
<1> DEFINE n == Len(q)
<1>1. n \in Nat /\ DOMAIN q = 1..n /\ \A i \in 1..n : q[i] \in Candles
  OBVIOUS
<1>2. ASSUME NEW i \in 1..n PROVE [q[i] EXCEPT !.time = i] \in Candles
  <2>1. q[i] \in Candles /\ i \in Int
    BY <1>1
  <2> QED BY <2>1, RetimedIs
<1>3. timed \in [1..n -> Candles]
  BY <1>1, <1>2
<1>4. \A i \in 1..n : timed[i] = [q[i] EXCEPT !.time = i]
  BY <1>1
<1> HIDE DEF n
<1>5. \A g \in [1..n -> Candles] : g \in Seq(Candles) /\ Len(g) = n
  BY <1>1, FunctionIsSequence
<1> QED BY <1>3, <1>4, <1>5 DEF n

LEMMA ReverseIs ==
  ASSUME NEW q \in Seq(Candles)
  PROVE  /\ Reverse(q) \in Seq(Candles) /\ Len(Reverse(q)) = Len(q)
         /\ \A i \in 1..Len(q) : Reverse(q)[i] = q[Len(q) - i + 1]
<1> DEFINE n == Len(q)
           r == [i \in 1..n |-> q[(n - i) + 1]]
<1>1. n \in Nat /\ \A i \in 1..n : q[i] \in Candles
  OBVIOUS
<1>2. \A i \in 1..n : q[(n - i) + 1] \in Candles
  BY <1>1
<1>3. r \in [1..n -> Candles]
  BY <1>2
<1>4. r = Reverse(q)
  BY DEF Reverse
<1>5. \A i \in 1..n : r[i] = q[n - i + 1]
  OBVIOUS
<1> HIDE DEF r, n
<1>6. r \in Seq(Candles) /\ Len(r) = n
  BY <1>1, <1>3
<1> QED BY <1>4, <1>5, <1>6 DEF n

(* What a fetch answers is a series of candles, in whatever order. *)
LEMMA FetchedAre ==
  ASSUME NEW q \in Seq(Candles), q # <<>>, NEW f \in Feeds,
         NEW c, c = Fetched(q, f).candles
  PROVE  c \in Seq(Candles) /\ c # <<>>
<1> DEFINE timed == [i \in DOMAIN q |-> [q[i] EXCEPT !.time = i]]
<1>1. timed \in Seq(Candles) /\ Len(timed) = Len(q)
  BY TimedAre
<1>2. Len(q) \in Nat \ {0}
  BY LastIsACandle
<1>3. c \in {timed, Reverse(timed), timed \o timed}
  BY AnalysisAssumption DEF Fetched
<1> HIDE DEF timed
<1>4. Reverse(timed) \in Seq(Candles) /\ Len(Reverse(timed)) = Len(q)
  BY <1>1, ReverseIs
<1>5. timed \o timed \in Seq(Candles) /\ Len(timed \o timed) = Len(q) + Len(q)
  BY <1>1, ConcatProperties
<1>6. c \in Seq(Candles) /\ Len(c) \in {Len(q), Len(q) + Len(q)}
  BY <1>1, <1>3, <1>4, <1>5
<1> QED BY <1>2, <1>6, EmptySeq

-----------------------------------------------------------------------------
(* The levels. *)

LEMMA Product == ASSUME NEW a \in Int, NEW b \in Int PROVE a * b \in Int
  OBVIOUS

LEMMA ExtremesOfWindow ==
  ASSUME NEW q \in Seq(Candles), q # <<>>, NEW side, NEW lookback \in Nat
  PROVE  StructureLevel(q, side, lookback) \in Int
<1> DEFINE m == Greatest(1, Len(q) - lookback)
           w == SubSeq(q, m, Len(q) - 1)
           k == Len(w)
           lows == {w[i].low : i \in DOMAIN w}
           highs == {w[i].high : i \in DOMAIN w}
<1>1. w = <<>> \/ w \in Seq(Candles)
  <2>1. Len(q) \in Nat /\ m \in Int /\ m >= 1 /\ \A i \in 1..Len(q) : q[i] \in Candles
    BY DEF Greatest
  <2> HIDE DEF m
  <2>2. \A i \in m..(Len(q) - 1) : q[i] \in Candles
    BY <2>1
  <2> QED BY <2>1, <2>2, SubSeqProperties
<1> HIDE DEF w
<1>2. ASSUME w # <<>> PROVE Min(lows) \in Int /\ Max(highs) \in Int
  <2>1. k \in Nat \ {0} /\ DOMAIN w = 1..k /\ \A i \in 1..k : w[i] \in Candles
    BY <1>1, <1>2, LastIsACandle
  <2> HIDE DEF k
  <2> DEFINE low == [i \in 1..k |-> w[i].low]
             high == [i \in 1..k |-> w[i].high]
  <2>8. lows = {low[i] : i \in 1..k} /\ highs = {high[i] : i \in 1..k}
    BY <2>1
  <2>9. \A i \in 1..k : low[i] \in Nat /\ high[i] \in Nat
    BY <2>1 DEF Candles
  <2>10. 1 \in 1..k
    BY <2>1
  <2> HIDE DEF low, high
  <2>2. lows # {} /\ lows \in SUBSET Nat
    BY <2>8, <2>9, <2>10
  <2>3. highs # {} /\ highs \in SUBSET Nat
    BY <2>8, <2>9, <2>10
  <2>4. IsFiniteSet(highs)
    <3>1. IsFiniteSet(1..k)
      BY <2>1, FS_Interval
    <3>2. IsFiniteSet({high[i] : i \in 1..k})
      BY <3>1, ImageIsFinite
    <3> QED BY <2>8, <3>2
  <2> HIDE DEF lows, highs
  <2>5. PICK least \in lows : \A x \in lows : least <= x
    BY <2>2, LeastOfNaturals
  <2>6. Min(lows) = least
    <3>1. lows \in SUBSET Int
      BY <2>2
    <3> QED BY <2>5, <3>1, SmallestIsMin
  <2>7. Max(highs) \in highs
    <3>1. highs \subseteq Int
      BY <2>3
    <3> QED BY <2>3, <2>4, <3>1, MaxIsLargest
  <2>11. least \in Int
    BY <2>2
  <2>12. \A x \in highs : x \in Int
    BY <2>3
  <2> QED BY <2>6, <2>7, <2>11, <2>12
<1>3. ASSUME NEW n \in Int PROVE Scale * n \in Int
  BY DEF Scale
<1> DEFINE level == StructureLevel(q, side, lookback)
<1>4. \/ level = 0
      \/ w # <<>> /\ level = Scale * Min(lows)
      \/ w # <<>> /\ level = Scale * Max(highs)
  BY DEF StructureLevel, w
<1> HIDE DEF lows, highs, level
<1>5. level \in Int
  BY <1>2, <1>3, <1>4
<1> QED BY <1>5 DEF level

LEMMA StopIsALevel ==
  ASSUME NEW q \in Seq(Candles), q # <<>>, NEW side, NEW p \in Params,
         NEW stop, stop = StopLevel(q, side, p)
  PROVE  stop \in Int
<1>1. Last(q).close \in Int /\ Last(q).reading.atr \in Int
  <2>1. Last(q) \in Candles
    BY LastIsACandle
  <2>2. Last(q).reading \in Readings /\ Last(q).close \in Int
    BY <2>1 DEF Candles
  <2> QED BY <2>2 DEF Readings
<1>2. /\ p.model \in {"FIXED_PERCENT", "ATR", "STRUCTURE"}
      /\ p.percent \in Nat /\ p.atrTenths \in Nat /\ p.lookback \in Nat
  BY AnalysisAssumption
<1> DEFINE close == Last(q).close
           atr == Last(q).reading.atr
           fixed == 1000 * close * p.percent
           wide == close * atr * p.atrTenths
<1>3. fixed \in Int /\ wide \in Int /\ Scale * close \in Int
  <2> HIDE DEF close, atr
  <2>1. close \in Int /\ atr \in Int
    BY <1>1 DEF close, atr
  <2>2. close * atr \in Int
    BY <2>1, Product
  <2>3. 1000 * close \in Int /\ Scale * close \in Int
    BY <2>1 DEF Scale
  <2>4. fixed \in Int
    BY <1>2, <2>3, Product
  <2>5. wide \in Int
    BY <1>2, <2>2, Product
  <2> QED BY <2>3, <2>4, <2>5
<1>4. \/ stop = 0
      \/ stop = Shifted(Scale * close, fixed, side)
      \/ stop = Shifted(Scale * close, wide, side)
      \/ stop = StructureLevel(q, side, p.lookback)
  BY <1>2 DEF StopLevel
<1>5. StructureLevel(q, side, p.lookback) \in Int
  BY <1>2, ExtremesOfWindow
<1> DEFINE entry == Scale * close
<1> HIDE DEF close, atr, fixed, wide
<1>6. \A offset \in Int : Shifted(entry, offset, side) \in Int
  BY <1>3 DEF Shifted
<1> HIDE DEF entry
<1> QED BY <1>3, <1>4, <1>5, <1>6 DEF entry

(* A setup's levels: the stop behind the entry and the target as many      *)
(* times as far ahead as the parameters ask (derive_risk_reward).          *)
LEMMA LevelsAreSound ==
  ASSUME NEW q \in Seq(Candles), q # <<>>, NEW side, NEW p \in Params,
         NEW l, l = Levels(q, side, p), l # NoLevels
  PROVE  LET ahead(from, to) == IF side = "LONG" THEN to - from ELSE from - to
         IN /\ l.stop > 0 /\ l.target > 0
            /\ ahead(l.stop, l.entry) > 0
            /\ ahead(l.entry, l.target) = p.takeProfitR * ahead(l.stop, l.entry)
<1> DEFINE entry == Scale * Last(q).close
           stop == StopLevel(q, side, p)
           risk == IF side = "LONG" THEN entry - stop ELSE stop - entry
           gain == risk * p.takeProfitR
           target == Shifted(entry, -gain, side)
<1>1. entry \in Int
  <2>1. Last(q) \in Candles
    BY LastIsACandle
  <2> QED BY <2>1 DEF Candles, Scale
<1>2. stop \in Int
  BY StopIsALevel
<1>3. risk \in Int /\ p.takeProfitR \in Nat
  BY <1>1, <1>2, AnalysisAssumption
<1>4. gain \in Int /\ gain = p.takeProfitR * risk
  BY <1>3
<1>5. stop > 0 /\ risk > 0 /\ target > 0 /\ l = [entry |-> entry, stop |-> stop, target |-> target]
  <2>1. l = IF stop <= 0 \/ risk <= 0 \/ target <= 0 THEN NoLevels
            ELSE [entry |-> entry, stop |-> stop, target |-> target]
    BY DEF Levels
  <2>2. target \in Int
    <3> HIDE DEF entry, gain
    <3> QED BY <1>1, <1>4 DEF Shifted
  <2> HIDE DEF entry, stop, risk, target
  <2>3. ~(stop <= 0 \/ risk <= 0 \/ target <= 0)
    BY <2>1
  <2> QED BY <1>2, <1>3, <2>1, <2>2, <2>3
<1>6. l.entry = entry /\ l.stop = stop /\ l.target = target
  BY <1>5
<1>7. side = "LONG" => target - entry = gain /\ risk = entry - stop
  <2> HIDE DEF entry, stop, gain
  <2> QED BY <1>1, <1>4 DEF Shifted
<1>8. side # "LONG" => entry - target = gain /\ risk = stop - entry
  <2> HIDE DEF entry, stop, gain
  <2> QED BY <1>1, <1>4 DEF Shifted
<1> HIDE DEF entry, stop, risk, gain, target
<1> QED BY <1>4, <1>5, <1>6, <1>7, <1>8

-----------------------------------------------------------------------------
(* The score. *)

LEMMA DivisionBounds ==
  ASSUME NEW a \in Nat, NEW d \in Nat, d > 0, NEW w \in Nat, a < d * (w + 1)
  PROVE  a \div d \in 0..w
<1> DEFINE k == a \div d
<1>1. k \in Nat /\ d * k <= a
  OBVIOUS
<1> HIDE DEF k
<1>2. ~(k > w)
  <2> SUFFICES ASSUME k > w PROVE FALSE
    OBVIOUS
  <2>1. w + 1 \in Nat /\ w + 1 <= k
    BY <1>1
  <2>2. d * (w + 1) <= d * k
    BY <1>1, <2>1, TimesAtMost
  <2>3. d * (w + 1) \in Nat /\ d * k \in Nat
    BY <1>1, <2>1, TimesAtMost
  <2> QED BY <1>1, <2>2, <2>3
<1> QED BY <1>1, <1>2 DEF k

LEMMA ShareWithin ==
  ASSUME NEW weight \in Nat, NEW part \in Int, NEW whole \in Nat, whole > 0
  PROVE  Share(weight, part, whole) \in 0..weight
<1> DEFINE g == Greatest(0, Least(part, whole))
           d == 2 * whole
<1>1. g \in Nat /\ g <= whole
  BY DEF Greatest, Least
<1> HIDE DEF g
<1> DEFINE x == weight * g
           y == weight * whole
<1>2. x \in Nat /\ y \in Nat /\ x <= y
  BY <1>1, TimesAtMost
<1>3. 2 * weight * g = 2 * x /\ d * (weight + 1) = 2 * y + 2 * whole
  BY <1>1
<1> HIDE DEF x, y
<1>4. 2 * x + whole \in Nat /\ d \in Nat /\ d > 0 /\ 2 * x + whole < d * (weight + 1)
  BY <1>2, <1>3
<1>5. (2 * x + whole) \div d \in 0..weight
  BY <1>4, DivisionBounds
<1>6. Share(weight, part, whole) = (2 * weight * g + whole) \div d
  BY DEF Share, g
<1> QED BY <1>3, <1>5, <1>6

LEMMA VolumeWithin ==
  ASSUME NEW q \in Seq(Candles), q # <<>>
  PROVE  VolumeShare(q) \in 0..500
<1> DEFINE n == Len(q) - 1
           f == [i \in 1..n |-> q[i].volume]
           before == SumFunction(f)
           part == 2 * Last(q).volume * n
<1>1. n \in Nat /\ (\A i \in 1..n : q[i] \in Candles) /\ Last(q) \in Candles
  BY LastIsACandle
<1>2. \A i \in 1..n : f[i] \in Nat
  BY <1>1 DEF Candles
<1>3. before = SumFunctionOnSet(f, 1..n)
  BY DEF SumFunction
<1>4. part \in Int
  <2>1. 2 * Last(q).volume \in Int
    BY <1>1 DEF Candles
  <2> QED BY <1>1, <2>1, Product
<1>5. VolumeShare(q) \in {0, Share(500, part, 3 * before)} /\ (before = 0 => VolumeShare(q) = 0)
  BY DEF VolumeShare
<1> HIDE DEF n, f, part
<1>6. before \in Nat
  <2>1. IsFiniteSet(1..n)
    BY <1>1, FS_Interval
  <2>2. SumFunctionOnSet(f, 1..n) \in Nat
    BY <1>2, <2>1, SumOfNaturals
  <2> QED BY <1>3, <2>2
<1> HIDE DEF before
<1>7. before # 0 => Share(500, part, 3 * before) \in 0..500
  <2> DEFINE whole == 3 * before
  <2>1. before # 0 => whole \in Nat /\ whole > 0
    BY <1>6
  <2> HIDE DEF whole
  <2> DEFINE most == 500
  <2>2. most \in Nat
    OBVIOUS
  <2> HIDE DEF most
  <2>3. before # 0 => Share(most, part, whole) \in 0..most
    BY <1>4, <2>1, <2>2, ShareWithin
  <2> QED BY <2>3 DEF whole, most
<1> QED BY <1>5, <1>7

LEMMA VolatilityWithin ==
  ASSUME NEW atr \in Int PROVE VolatilityShare(atr) \in 0..1000
<1>1. Share(1000, atr, AtrLow) \in 0..1000
  <2> DEFINE most == 1000
  <2>1. most \in Nat /\ AtrLow \in Nat /\ AtrLow > 0
    BY DEF AtrLow
  <2> HIDE DEF most
  <2>2. Share(most, atr, AtrLow) \in 0..most
    BY <2>1, ShareWithin
  <2> QED BY <2>2 DEF most
<1>2. Share(1000, 2 * AtrHigh - atr, AtrHigh) \in 0..1000
  <2> DEFINE most == 1000
             rest == 2 * AtrHigh - atr
  <2>1. most \in Nat /\ rest \in Int /\ AtrHigh \in Nat /\ AtrHigh > 0
    BY DEF AtrHigh
  <2> HIDE DEF most, rest
  <2>2. Share(most, rest, AtrHigh) \in 0..most
    BY <2>1, ShareWithin
  <2> QED BY <2>2 DEF most, rest
<1> QED BY <1>1, <1>2 DEF VolatilityShare

LEMMA RegimeWithin ==
  ASSUME NEW r, NEW side PROVE RegimeShare(r, side) \in {0, 1000, 2000}
  BY DEF RegimeShare

LEMMA WholeShare ==
  /\ Share(2000, 2, 2) = 2000
  /\ Share(2500, 2, 2) = 2500
BY DEF Share, Greatest, Least

(* The score of a setup all of whose rules hold (_score).                  *)
LEMMA ScoreWithin ==
  ASSUME NEW q \in Seq(Candles), q # <<>>, NEW side, NEW p \in Params,
         Conditions(Reading(q), side) = ConditionNames
  PROVE  4500 <= Score(q, side, p) /\ Score(q, side, p) <= 10000
<1> DEFINE r == Reading(q)
           held == Conditions(r, side)
           trending == Share(2500, Cardinality(held \cap {"trend", "trend_strength"}), 2)
           moving == Share(2000, Cardinality(held \cap {"momentum", "macd"}), 2)
           regime == RegimeShare(r, side)
           reward == Share(2000, p.takeProfitR, 3)
           volatile == VolatilityShare(r.atr)
           volume == VolumeShare(q)
<1>1. trending = 2500
  <2> DEFINE part == held \cap {"trend", "trend_strength"}
             count == Cardinality(part)
  <2>1. part = {"trend", "trend_strength"}
    BY DEF ConditionNames
  <2>2. Cardinality({"trend", "trend_strength"}) = 2
    BY TwoApart
  <2>3. trending = Share(2500, count, 2)
    OBVIOUS
  <2> HIDE DEF part, trending
  <2>4. count = 2
    BY <2>1, <2>2
  <2> HIDE DEF count
  <2> QED BY <2>3, <2>4, WholeShare
<1>2. moving = 2000
  <2> DEFINE part == held \cap {"momentum", "macd"}
             count == Cardinality(part)
  <2>1. part = {"momentum", "macd"}
    BY DEF ConditionNames
  <2>2. Cardinality({"momentum", "macd"}) = 2
    BY TwoApart
  <2>3. moving = Share(2000, count, 2)
    OBVIOUS
  <2> HIDE DEF part, moving
  <2>4. count = 2
    BY <2>1, <2>2
  <2> HIDE DEF count
  <2> QED BY <2>3, <2>4, WholeShare
<1>3. regime \in 0..2000
  <2>1. regime \in {0, 1000, 2000}
    BY RegimeWithin
  <2> HIDE DEF regime
  <2> QED BY <2>1
<1>4. reward \in 0..2000
  <2>1. p.takeProfitR \in Int
    BY AnalysisAssumption
  <2> DEFINE most == 2000
             whole == 3
  <2>2. most \in Nat /\ whole \in Nat /\ whole > 0
    OBVIOUS
  <2> HIDE DEF most, whole
  <2>3. Share(most, p.takeProfitR, whole) \in 0..most
    BY <2>1, <2>2, ShareWithin
  <2> QED BY <2>3 DEF most, whole
<1>5. volatile \in 0..1000
  <2>1. Last(q) \in Candles
    BY LastIsACandle
  <2>2. Last(q).reading \in Readings
    BY <2>1 DEF Candles
  <2>3. r.atr \in Int
    BY <2>2 DEF Readings, Reading
  <2>4. VolatilityShare(r.atr) \in 0..1000
    <3> HIDE DEF r
    <3> QED BY <2>3, VolatilityWithin
  <2> QED BY <2>4
<1>6. volume \in 0..500
  BY VolumeWithin
<1>7. Score(q, side, p) = trending + moving + regime + reward + volatile + volume
  BY DEF Score
<1> HIDE DEF trending, moving, regime, reward, volatile, volume
<1> QED BY <1>1, <1>2, <1>3, <1>4, <1>5, <1>6, <1>7

(* Every rule of the side a setup is for holds.                            *)
LEMMA BiasHolds ==
  ASSUME NEW r, Bias(r) # "NO_SIGNAL"
  PROVE  Conditions(r, Bias(r)) = ConditionNames
  BY DEF Bias

(***************************************************************************)
(* A setup to act on rests on fresh candles and has its stop behind the    *)
(* entry, its target ahead at the planned multiple and a score that a      *)
(* setup every rule of which holds can have, whatever the parameters       *)
(* (build_setup, derive_risk_reward, _score).                              *)
(***************************************************************************)
THEOREM ActionableSetupsAreSound == AnalysisSpec => []SetupIsSound
<1>1. AnalysisInv => SetupIsSound
  <2> DEFINE series == Fetched(candles, feed)
             q == series.candles
             u == Setup(series, params)
             side == Bias(Reading(q))
             l == Levels(q, side, params)
             ahead(from, to) == IF side = "LONG" THEN to - from ELSE from - to
  <2> SUFFICES ASSUME AnalysisInv, u.status = "ACTIONABLE"
               PROVE  LET far(from, to) == IF u.side = "LONG" THEN to - from ELSE from - to
                      IN /\ feed.status = "OK" /\ feed.age # None
                         /\ u.levels.stop > 0 /\ u.levels.target > 0
                         /\ far(u.levels.stop, u.levels.entry) > 0
                         /\ far(u.levels.entry, u.levels.target)
                              = params.takeProfitR * far(u.levels.stop, u.levels.entry)
                         /\ 4500 <= u.score /\ u.score <= 10000
    BY DEF SetupIsSound
  <2>1. series.status = feed.status /\ series.age = feed.age
    BY DEF Fetched
  <2>2. q \in Seq(Candles) /\ q # <<>>
    BY FetchedAre DEF AnalysisInv
  <2> HIDE DEF q, series
  <2>3. /\ series.status = "OK" /\ series.age # None
        /\ side # "NO_SIGNAL" /\ l # NoLevels
        /\ u = [status |-> "ACTIONABLE", side |-> side, levels |-> l,
                score |-> Score(q, side, params)]
    BY DEF Setup, NoSetup, q
  <2>4. Conditions(Reading(q), side) = ConditionNames
    BY <2>3, BiasHolds
  <2>5. params \in Params
    BY DEF AnalysisInv
  <2>6. u.side = side /\ u.levels = l /\ u.score = Score(q, side, params)
    BY <2>3
  <2> HIDE DEF u, side, l
  <2>7. 4500 <= u.score /\ u.score <= 10000
    BY <2>2, <2>4, <2>5, <2>6, ScoreWithin
  <2>8. /\ l.stop > 0 /\ l.target > 0
        /\ ahead(l.stop, l.entry) > 0
        /\ ahead(l.entry, l.target) = params.takeProfitR * ahead(l.stop, l.entry)
    BY <2>2, <2>3, <2>5, LevelsAreSound DEF l
  <2> QED BY <2>1, <2>3, <2>6, <2>7, <2>8
<1> QED BY <1>1, AnalysisHolds, PTL

-----------------------------------------------------------------------------
(* The strategy. *)

(* Two series that differ at most in what their last candle shows, which   *)
(* is still forming in both.                                               *)
Forming(c, d) ==
  /\ c \in Seq(Candles) /\ d \in Seq(Candles) /\ c # <<>> /\ Len(d) = Len(c)
  /\ \A k \in 1..(Len(c) - 1) : d[k] = c[k]
  /\ ~c[Len(c)].closed /\ ~d[Len(c)].closed

(* What has closed of a series: up to its last closed candle.              *)
LEMMA ClosedPartIs ==
  ASSUME NEW q \in Seq(Candles), NEW I, I = {i \in 1..Len(q) : q[i].closed},
         NEW m, m = IF I # {} THEN Max(I) ELSE 0
  PROVE  ClosedPart(q) = SubSeq(q, 1, m) /\ m \in 0..Len(q) /\ (m # 0 => m \in I)
<1>1. ClosedPart(q) = SubSeq(q, 1, m)
  BY DEF ClosedPart, SelectLastInSeq
<1>2. Len(q) \in Nat
  OBVIOUS
<1>3. IsFiniteSet(I)
  <2>1. IsFiniteSet(1..Len(q)) /\ I \subseteq 1..Len(q)
    BY <1>2, FS_Interval
  <2> QED BY <2>1, FS_Subset
<1>4. I \subseteq Int
  OBVIOUS
<1>5. I # {} => Max(I) \in I
  BY <1>3, <1>4, MaxIsLargest
<1>6. \A i \in I : i \in 1..Len(q)
  OBVIOUS
<1> QED BY <1>1, <1>2, <1>5, <1>6

LEMMA ClosedPartsAgree ==
  ASSUME NEW c, NEW d, Forming(c, d)
  PROVE  ClosedPart(c) = ClosedPart(d)
<1> DEFINE n == Len(c)
           I == {i \in 1..n : c[i].closed}
           J == {i \in 1..n : d[i].closed}
           m == IF I # {} THEN Max(I) ELSE 0
<1>1. n \in Nat \ {0} /\ c \in Seq(Candles) /\ d \in Seq(Candles) /\ Len(d) = n
  BY LastIsACandle DEF Forming
<1>2. \A i \in 1..n : i = n \/ i \in 1..(n - 1)
  BY <1>1
<1>3. I = J
  BY <1>1, <1>2 DEF Forming
<1>4. n \notin I
  BY DEF Forming
<1>5. ClosedPart(c) = SubSeq(c, 1, m) /\ m \in 0..n /\ (m # 0 => m \in I)
  BY <1>1, ClosedPartIs
<1>6. ClosedPart(d) = SubSeq(d, 1, m)
  <2>1. J = {i \in 1..Len(d) : d[i].closed} /\ m = IF J # {} THEN Max(J) ELSE 0
    BY <1>1, <1>3
  <2> QED BY <1>1, <2>1, ClosedPartIs
<1> HIDE DEF I, J, m
<1>7. m \in 0..(n - 1)
  BY <1>1, <1>4, <1>5
<1>8. \A i \in 1..m : d[i] = c[i] /\ c[i] \in Candles
  BY <1>1, <1>7 DEF Forming
<1>9. SubSeq(c, 1, m) = SubSeq(d, 1, m)
  <2> DEFINE r == SubSeq(c, 1, m)
             s == SubSeq(d, 1, m)
  <2>1. /\ r \in Seq(Candles) /\ s \in Seq(Candles)
        /\ Len(r) = m /\ Len(s) = m
        /\ \A i \in 1..m : r[i] = c[i] /\ s[i] = d[i]
    <3>1. m \in Int /\ m \in Nat /\ 1 \in Int
      BY <1>7
    <3>2. \A i \in 1..m : c[i] \in Candles /\ d[i] \in Candles
      BY <1>8
    <3>3. /\ r \in Seq(Candles) /\ Len(r) = IF 1 <= m THEN m - 1 + 1 ELSE 0
          /\ \A i \in 1..(m - 1 + 1) : r[i] = c[1 + i - 1]
      BY <3>1, <3>2, SubSeqProperties
    <3>4. /\ s \in Seq(Candles) /\ Len(s) = IF 1 <= m THEN m - 1 + 1 ELSE 0
          /\ \A i \in 1..(m - 1 + 1) : s[i] = d[1 + i - 1]
      BY <3>1, <3>2, SubSeqProperties
    <3>5. Len(r) = m /\ Len(s) = m
      <4>1. (IF 1 <= m THEN m - 1 + 1 ELSE 0) = m
        BY <3>1
      <4> QED BY <3>3, <3>4, <4>1
    <3>6. m - 1 + 1 = m /\ \A i \in 1..m : 1 + i - 1 = i
      BY <3>1
    <3> HIDE DEF r, s
    <3>7. \A i \in 1..m : r[i] = c[i]
      BY <3>3, <3>6
    <3>8. \A i \in 1..m : s[i] = d[i]
      BY <3>4, <3>6
    <3> QED BY <3>3, <3>4, <3>5, <3>7, <3>8
  <2> HIDE DEF r, s
  <2>2. \A i \in 1..m : r[i] = s[i]
    BY <1>8, <2>1
  <2>3. r = s
    BY <2>1, <2>2, SeqEqual
  <2> QED BY <2>3 DEF r, s
<1> QED BY <1>5, <1>6, <1>9

(* The leverage an analysis offers.                                        *)
LEMMA LeverageIsLeast ==
  ASSUME NEW series
  PROVE  Strategy(series).leverage.approved \in {Unknown, LeverageMin}
<1>1. \A r : AnalysisLeverage(r).approved \in {Unknown, LeverageMin}
  <2>1. \A requested : Resolve(requested, Unknown, Unknown, FALSE).approved \in {Unknown, LeverageMin}
    BY DEF Resolve, Rejected, Approved
  <2> QED BY <2>1 DEF AnalysisLeverage, Rejected
<1> QED BY <1>1 DEF Strategy, NoStrategy, Rejected

-----------------------------------------------------------------------------
(* What is prepared of a series depends on its times and on what is closed *)
(* of it, read in its own direction.                                       *)
LEMMA PreparedAgree ==
  ASSUME NEW c \in Seq(Candles), NEW d \in Seq(Candles), Len(d) = Len(c),
         \A k \in 1..Len(c) : d[k].time = c[k].time,
         Runs(c, Ascends) => ClosedPart(d) = ClosedPart(c),
         ~Runs(c, Ascends) => ClosedPart(Reverse(d)) = ClosedPart(Reverse(c))
  PROVE  Prepared(d) = Prepared(c)
<1> DEFINE n == Len(c)
<1>1. n \in Nat /\ DOMAIN c = 1..n /\ DOMAIN d = 1..n
  OBVIOUS
<1>2. \A k \in 1..(n - 1) : k \in 1..n /\ k + 1 \in 1..n
  BY <1>1
<1>3. Repeats(d) <=> Repeats(c)
  BY <1>1 DEF Repeats
<1>4. Runs(d, Ascends) <=> Runs(c, Ascends)
  BY <1>2 DEF Runs, Ascends
<1>5. Runs(d, Descends) <=> Runs(c, Descends)
  BY <1>2 DEF Runs, Descends
<1> QED BY <1>3, <1>4, <1>5 DEF Prepared

(* Fetched in whatever order, the closed part does not change with the     *)
(* candle that forms (prepare_candles).                                    *)
LEMMA FetchedAgree ==
  ASSUME NEW c, NEW d, Forming(c, d), NEW f \in Feeds
  PROVE  Prepared(Fetched(d, f).candles) = Prepared(Fetched(c, f).candles)
<1> DEFINE n == Len(c)
           s == [i \in DOMAIN c |-> [c[i] EXCEPT !.time = i]]
           t == [i \in DOMAIN d |-> [d[i] EXCEPT !.time = i]]
<1>1. /\ n \in Nat \ {0} /\ n \in 1..n /\ c \in Seq(Candles) /\ d \in Seq(Candles) /\ d # <<>>
      /\ Len(d) = n /\ \A i \in 1..n : c[i] \in Candles /\ d[i] \in Candles
  <2>1. /\ c \in Seq(Candles) /\ d \in Seq(Candles) /\ c # <<>> /\ Len(d) = n
    BY DEF Forming
  <2>2. n \in Nat \ {0}
    BY <2>1, LastIsACandle
  <2> QED BY <2>1, <2>2
<1>2. /\ s \in Seq(Candles) /\ Len(s) = n
      /\ \A i \in 1..n : s[i] = [c[i] EXCEPT !.time = i]
  BY <1>1, TimedAre DEF Forming
<1>3. /\ t \in Seq(Candles) /\ Len(t) = n
      /\ \A i \in 1..n : t[i] = [d[i] EXCEPT !.time = i]
  BY <1>1, TimedAre
<1>4. /\ f.order = "ASCENDING" => Fetched(c, f).candles = s /\ Fetched(d, f).candles = t
      /\ f.order = "DESCENDING" =>
           Fetched(c, f).candles = Reverse(s) /\ Fetched(d, f).candles = Reverse(t)
      /\ f.order = "REPEATED" => Fetched(c, f).candles = s \o s /\ Fetched(d, f).candles = t \o t
  BY DEF Fetched
<1> HIDE DEF s, t
<1>5. \A i \in 1..n : s[i].time = i /\ t[i].time = i
  <2> SUFFICES ASSUME NEW i \in 1..n PROVE s[i].time = i /\ t[i].time = i
    OBVIOUS
  <2>1. s[i] = [c[i] EXCEPT !.time = i] /\ t[i] = [d[i] EXCEPT !.time = i]
    BY <1>2, <1>3
  <2>2. c[i] \in Candles /\ d[i] \in Candles /\ i \in Int
    BY <1>1
  <2> QED BY <2>1, <2>2, RetimedIs
<1>6. /\ \A i \in 1..(n - 1) : t[i] = s[i]
      /\ ~s[n].closed /\ ~t[n].closed
  <2>1. ASSUME NEW i \in 1..(n - 1) PROVE t[i] = s[i]
    <3>1. i \in 1..n /\ d[i] = c[i]
      BY <1>1 DEF Forming
    <3>2. s[i] = [c[i] EXCEPT !.time = i] /\ t[i] = [d[i] EXCEPT !.time = i]
      BY <1>2, <1>3, <3>1
    <3> QED BY <3>1, <3>2
  <2>2. s[n] = [c[n] EXCEPT !.time = n] /\ t[n] = [d[n] EXCEPT !.time = n]
    BY <1>1, <1>2, <1>3
  <2>3. c[n] \in Candles /\ d[n] \in Candles /\ n \in Int
    BY <1>1
  <2> HIDE DEF n
  <2>4. s[n].closed = c[n].closed /\ t[n].closed = d[n].closed
    BY <2>2, <2>3, RetimedIs
  <2>5. ~c[n].closed /\ ~d[n].closed
    BY <1>1 DEF Forming, n
  <2> QED BY <2>1, <2>4, <2>5
<1> HIDE DEF n
<1>7. Forming(s, t)
  <2>1. s # <<>>
    BY <1>1, <1>2, EmptySeq
  <2> QED BY <1>2, <1>3, <1>6, <2>1 DEF Forming
<1>8. CASE f.order = "ASCENDING"
  <2>1. Runs(s, Ascends)
    <3>1. \A i \in 1..(n - 1) : i \in 1..n /\ i + 1 \in 1..n /\ i < i + 1
      BY <1>1
    <3> QED BY <1>2, <1>5, <3>1 DEF Runs, Ascends
  <2>2. Prepared(t) = Prepared(s)
    BY <1>2, <1>3, <1>5, <1>7, <2>1, ClosedPartsAgree, PreparedAgree
  <2> QED BY <1>4, <1>8, <2>2
<1>9. CASE f.order = "DESCENDING"
  <2> DEFINE u == Reverse(s)
             v == Reverse(t)
  <2>1. /\ u \in Seq(Candles) /\ Len(u) = n /\ \A i \in 1..n : u[i] = s[n - i + 1]
        /\ v \in Seq(Candles) /\ Len(v) = n /\ \A i \in 1..n : v[i] = t[n - i + 1]
    BY <1>2, <1>3, ReverseIs
  <2> HIDE DEF u, v
  <2>2. \A i \in 1..n : n - i + 1 \in 1..n
    BY <1>1
  <2>3. \A i \in 1..n : u[i].time = n - i + 1 /\ v[i].time = n - i + 1
    BY <1>5, <2>1, <2>2
  <2>4. ASSUME Runs(u, Ascends) PROVE ClosedPart(v) = ClosedPart(u)
    <3>1. n = 1
      <4> SUFFICES ASSUME n # 1 PROVE FALSE
        OBVIOUS
      <4>1. 1 \in 1..(n - 1) /\ 1 \in 1..n /\ 2 \in 1..n
        BY <1>1
      <4>2. u[1].time < u[1 + 1].time
        BY <2>1, <2>4, <4>1 DEF Runs, Ascends
      <4> QED BY <1>1, <2>3, <4>1, <4>2
    <3>2. u[1] = s[1] /\ v[1] = t[1]
      BY <2>1, <3>1
    <3>3. u # <<>>
      BY <2>1, <3>1, EmptySeq
    <3>4. Forming(u, v)
      BY <1>6, <2>1, <3>1, <3>2, <3>3 DEF Forming
    <3> QED BY <3>4, ClosedPartsAgree
  <2>5. ClosedPart(Reverse(v)) = ClosedPart(Reverse(u))
    <3>1. ASSUME NEW q \in Seq(Candles), Len(q) = n
          PROVE  /\ Reverse(q) \in Seq(Candles) /\ Len(Reverse(q)) = n
                 /\ \A i \in 1..n : Reverse(q)[i] = q[n - i + 1]
      BY <3>1, ReverseIs
    <3>2. \A i \in 1..n : n - (n - i + 1) + 1 = i
      BY <1>1
    <3>3. \A i \in 1..n : u[n - i + 1] = s[i] /\ v[n - i + 1] = t[i]
      BY <2>1, <2>2, <3>2
    <3>4. Reverse(u) = s
      <4> DEFINE r == Reverse(u)
      <4>1. r \in Seq(Candles) /\ Len(r) = n /\ \A i \in 1..n : r[i] = u[n - i + 1]
        BY <2>1, <3>1
      <4> HIDE DEF r
      <4>2. r = s
        BY <1>2, <3>3, <4>1, SeqEqual
      <4> QED BY <4>2 DEF r
    <3>5. Reverse(v) = t
      <4> DEFINE r == Reverse(v)
      <4>1. r \in Seq(Candles) /\ Len(r) = n /\ \A i \in 1..n : r[i] = v[n - i + 1]
        BY <2>1, <3>1
      <4> HIDE DEF r
      <4>2. r = t
        BY <1>3, <3>3, <4>1, SeqEqual
      <4> QED BY <4>2 DEF r
    <3> QED BY <1>7, <3>4, <3>5, ClosedPartsAgree
  <2>6. Prepared(v) = Prepared(u)
    BY <2>1, <2>3, <2>4, <2>5, PreparedAgree
  <2> QED BY <1>4, <1>9, <2>6 DEF u, v
<1>10. CASE f.order = "REPEATED"
  <2>1. ASSUME NEW q \in Seq(Candles), Len(q) = n PROVE Prepared(q \o q) = <<>>
    <3>1. /\ Len(q \o q) = n + n /\ q \o q \in Seq(Candles)
          /\ (q \o q)[1] = q[1] /\ (q \o q)[n + 1] = q[1]
      <4>1. /\ q \o q \in Seq(Candles) /\ Len(q \o q) = n + n
            /\ \A i \in 1..(n + n) : (q \o q)[i] = IF i <= n THEN q[i] ELSE q[i - n]
        BY <2>1, ConcatProperties
      <4>2. 1 \in 1..(n + n) /\ 1 <= n /\ n + 1 \in 1..(n + n) /\ ~(n + 1 <= n) /\ n + 1 - n = 1
        BY <1>1
      <4>3. (q \o q)[1] = q[1]
        BY <4>1, <4>2
      <4> DEFINE k == n + 1
      <4>4. k \in 1..(n + n) /\ ~(k <= n) /\ k - n = 1
        BY <1>1
      <4> HIDE DEF k
      <4>5. (q \o q)[k] = q[1]
        BY <4>1, <4>4
      <4> QED BY <4>1, <4>3, <4>5 DEF k
    <3> DEFINE r == q \o q
    <3>2. 1 \in DOMAIN r /\ n + 1 \in DOMAIN r /\ 1 # n + 1
      BY <1>1, <3>1
    <3>3. r[1].time = r[n + 1].time
      BY <3>1
    <3> HIDE DEF r
    <3>4. Repeats(r)
      BY <3>2, <3>3 DEF Repeats
    <3> QED BY <3>4 DEF Prepared, r
  <2> QED BY <1>2, <1>3, <1>4, <1>10, <2>1
<1> QED BY <1>8, <1>9, <1>10, AnalysisAssumption

LEMMA LastOfAppended ==
  ASSUME NEW q \in Seq(Candles), NEW b \in Candles, NEW r, r = Append(q, b)
  PROVE  Last(r) = b
<1>1. Len(r) = Len(q) + 1 /\ r[Len(q) + 1] = b
  BY AppendProperties
<1> QED BY <1>1 DEF Last

(***************************************************************************)
(* What the strategy says changes only when a candle closes, and the       *)
(* leverage it offers is none or the least, whatever the candles           *)
(* (registry.evaluate over prepare_candles, _leverage_decision).           *)
(***************************************************************************)
THEOREM TheStrategyNeverRepaints == AnalysisSpec => StrategyNeverRepaints
<1> DEFINE Alike == /\ Strategy(Fetched(candles', feed')).leverage.approved \in {Unknown, LeverageMin}
                    /\ (feed' = feed /\ Last(candles).closed = Last(candles').closed)
                         => Strategy(Fetched(candles', feed')) = Strategy(Fetched(candles, feed))
<1>1. ASSUME AnalysisInv, [AnalysisNext]_analysisVars PROVE Alike
  <2>1. Strategy(Fetched(candles', feed')).leverage.approved \in {Unknown, LeverageMin}
    BY LeverageIsLeast
  <2>2. ASSUME feed' = feed, Last(candles).closed = Last(candles').closed
        PROVE  Strategy(Fetched(candles', feed')) = Strategy(Fetched(candles, feed))
    <3> SUFFICES ASSUME candles' # candles
                 PROVE  Strategy(Fetched(candles', feed)) = Strategy(Fetched(candles, feed))
      BY <2>2
    <3>1. candles \in Seq(Candles) /\ candles # <<>> /\ feed \in Feeds
      BY <1>1 DEF AnalysisInv
    <3>2. \/ \E b \in Bars : Opens(b) \/ Moves(b)
          \/ Closes
      BY <1>1 DEF AnalysisNext, analysisVars, Enters, Leaves, Changes
    <3>3. Forming(candles, candles')
      <4>1. ASSUME NEW b \in Bars, Opens(b) PROVE FALSE
        <5>1. ~b.closed /\ b \in Candles
          BY AnalysisAssumption, BarsAreCandles
        <5>2. PICK kept \in Seq(Candles) : candles' = Append(kept, b)
          <6>1. Tail(candles) \in Seq(Candles)
            BY <3>1, HeadTailProperties
          <6> QED BY <3>1, <4>1, <6>1 DEF Opens
        <5>3. Last(candles') = b
          BY <5>1, <5>2, LastOfAppended
        <5> QED BY <2>2, <4>1, <5>1, <5>3 DEF Opens
      <4>2. ASSUME NEW b \in Bars, Moves(b) PROVE Forming(candles, candles')
        <5>1. b \in Candles /\ ~b.closed
          BY AnalysisAssumption, BarsAreCandles
        <5> DEFINE r == Front(candles)
                   n == Len(candles)
        <5>2. /\ n \in Nat \ {0} /\ r \in Seq(Candles) /\ Len(r) = n - 1
              /\ \A k \in 1..(n - 1) : r[k] = candles[k]
          BY <3>1, FrontOf
        <5>3. candles' = Append(r, b)
          BY <4>2 DEF Moves
        <5> HIDE DEF r, n
        <5>4. /\ candles' \in Seq(Candles) /\ Len(candles') = n /\ candles'[n] = b
              /\ \A k \in 1..(n - 1) : candles'[k] = candles[k]
          <6>1. /\ candles' \in Seq(Candles) /\ Len(candles') = Len(r) + 1
                /\ candles'[Len(r) + 1] = b
                /\ \A k \in 1..Len(r) : candles'[k] = r[k]
            BY <5>1, <5>2, <5>3, AppendProperties
          <6>2. Len(r) + 1 = n
            BY <5>2
          <6> QED BY <5>2, <6>1, <6>2
        <5>5. ~candles[n].closed
          BY <3>1, <4>2, LastIsACandle DEF Moves, n
        <5> QED BY <3>1, <5>1, <5>4, <5>5 DEF Forming, n
      <4>3. ASSUME Closes PROVE FALSE
        <5> DEFINE n == Len(candles)
        <5>1. /\ n \in 1..n /\ candles[n] \in Candles /\ Last(candles) = candles[n]
              /\ DOMAIN candles = 1..n /\ n \in Nat
          BY <3>1, LastIsACandle
        <5>2. candles' = [candles EXCEPT ![n] = [candles[n] EXCEPT !.closed = TRUE]]
          BY <4>3 DEF Closes
        <5>3. [candles[n] EXCEPT !.closed = TRUE].closed = TRUE
          BY <5>1 DEF Candles
        <5> HIDE DEF n
        <5>4. Last(candles') = [candles[n] EXCEPT !.closed = TRUE]
          <6>1. Len(candles') = n
            <7>1. candles' \in Seq(Candles) /\ DOMAIN candles' = 1..n
              BY <1>1, <5>1, <5>2, AnalysisSteps DEF AnalysisInv
            <7>2. DOMAIN candles' = 1..Len(candles') /\ Len(candles') \in Nat
              BY <7>1
            <7> DEFINE l == Len(candles')
            <7> HIDE DEF n, l
            <7>3. l \in Nat /\ n \in Nat /\ n \in 1..l /\ l \in 1..n
              BY <5>1, <7>1, <7>2 DEF l
            <7>4. l = n
              BY <7>3
            <7> QED BY <7>4 DEF l
          <6> QED BY <5>1, <5>2, <6>1 DEF Last
        <5> QED BY <2>2, <4>3, <5>1, <5>3, <5>4 DEF Closes
      <4> QED BY <3>2, <4>1, <4>2, <4>3
    <3>4. Prepared(Fetched(candles', feed).candles) = Prepared(Fetched(candles, feed).candles)
      BY <3>1, <3>3, FetchedAgree
    <3>5. /\ Fetched(candles', feed).status = Fetched(candles, feed).status
          /\ Fetched(candles', feed).age = Fetched(candles, feed).age
      BY DEF Fetched
    <3> DEFINE series == Fetched(candles, feed)
               next == Fetched(candles', feed)
    <3> HIDE DEF series, next
    <3> QED BY <3>4, <3>5 DEF Strategy, series, next
  <2> QED BY <2>1, <2>2
<1> QED BY <1>1, AnalysisHolds, PTL DEF AnalysisSpec, StrategyNeverRepaints

=============================================================================
