---------------------------- MODULE PaperEngine ----------------------------
(***************************************************************************)
(* The paper engine on its own: PaperEngine (engines/paper/engine.py) as a *)
(* state machine, one action per method, with prices that may do anything  *)
(* between two calls.  tick's loop over the open positions is one step per *)
(* position; the loop never suspends, so nothing else happens before it    *)
(* ends.  Concurrency, durability and the log of orders are PaperService's.*)
(*                                                                         *)
(* The engine has no clock: each call is given its caller's.  An order, a  *)
(* tick and a read are given one that was read before prices were awaited  *)
(* (services/paper.py:307, 319, 353, 585), so their date may be behind;    *)
(* what locks a day is told by the date of the call, never by the clock.   *)
(***************************************************************************)
EXTENDS PaperAccount

CONSTANTS
  Orders,       \* orders that may be submitted: [symbol, side, margin, stop, target, trail]
  Marks,        \* prices that may be observed: [usable, last, bid, ask]
  Balances,     \* what a reset may start again from
  MaxLag,       \* days a call's date may be behind
  MaxDays, MaxEntries   \* bounds on days and on positions ever opened

ASSUME EngineAssumption ==
  /\ Orders \subseteq [symbol : Symbols, side : Sides, margin : Nat \ {0},
                       stop : 0..99, target : 0..99, trail : 0..99]
  /\ Marks \subseteq [usable : BOOLEAN, last : Nat \ {0}, bid : Nat, ask : Nat]
  /\ \A m \in Marks : (m.bid > 0 => m.bid <= m.last) /\ (m.ask > 0 => m.ask >= m.last)
  /\ \A m \in Marks : m.last > Slippage
  /\ Balances \subseteq Nat \ {0}
  /\ MaxDays \in Nat \ {0} /\ MaxEntries \in Nat /\ MaxLag \in Nat

VARIABLES
  account,
  day,
  written,    \* the date of the last write: writers take turns, and read the clock in theirs
  managing,   \* symbols the tick in progress has still to look at
  entries,    \* positions opened so far
  net,        \* history: the sum of net_pnl over the trades since the last reset
  path,       \* history: per symbol, the last price its position was seen at
  last,       \* history: the close the last step made, with the prices around it
  locks,      \* history: the dates locked since the last reset, with their lock
  straggled   \* history: a call was dated before the one served before it since then

history == <<entries, net, path>>
vars == <<account, day, written, managing, entries, net, path, last, locks, straggled>>

NoClose == [reason |-> "NONE", position |-> Flat, from |-> 0, to |-> 0]

Init ==
  /\ account = Fresh(StartingBalance)
  /\ day = 1 /\ written = 1
  /\ managing = {}
  /\ entries = 0 /\ net = 0
  /\ path = [s \in Symbols |-> 0]
  /\ last = NoClose
  /\ locks = {} /\ straggled = FALSE

Idle == managing = {}

(* The dates a caller may have read before it awaited its prices. *)
DatesRead == {d \in 1..day : d >= day - MaxLag}
DatesToWrite == {d \in DatesRead : d >= written}

LockOf(session) ==
  IF session.lock = "NONE" THEN {} ELSE {[date |-> session.date, lock |-> session.lock]}

(* A call was served: the session is of its date. *)
Served ==
  /\ locks' = locks \cup LockOf(account'.session)
  /\ straggled' = (straggled \/ account'.session.date < account.session.date)

(* What a close leaves in the history. *)
Records(s, mark, reason) ==
  LET p == account.positions[s]
  IN /\ net' = net + Net(p, mark)
     /\ last' = [reason |-> reason, position |-> p, from |-> path[s], to |-> mark.last]
     /\ path' = [path EXCEPT ![s] = 0]
     /\ UNCHANGED entries

-----------------------------------------------------------------------------
(* The methods. *)

SubmitOrder ==
  \E r \in Orders, mark \in Marks, now \in DatesToWrite :
    /\ Idle /\ entries < MaxEntries
    /\ account' = Submitted(account, r, mark, now) /\ Served /\ written' = now
    /\ IF IsOpen(account', r.symbol) /\ ~IsOpen(account, r.symbol)
         THEN /\ entries' = entries + 1
              /\ path' = [path EXCEPT ![r.symbol] = account'.positions[r.symbol].entry]
         ELSE UNCHANGED <<entries, path>>
    /\ last' = NoClose
    /\ UNCHANGED <<day, managing, net>>

Tick ==
  \E now \in DatesToWrite :
    /\ Idle
    /\ account' = EnsureSession(account, now) /\ Served /\ written' = now
    /\ managing' = OpenSymbols(account)
    /\ last' = NoClose /\ UNCHANGED <<day, history>>

(* dict order is the order of opening; the model takes any.  The date is   *)
(* the tick's.                                                             *)
ManagePosition ==
  \E s \in managing, mark \in Marks :
    /\ account' = Managed(account, s, mark, account.session.date) /\ Served
    /\ managing' = managing \ {s}
    /\ CASE ~IsOpen(account', s) ->
              Records(s, mark, TriggeredExit(account.positions[s], mark.last))
         [] IsOpen(account', s) /\ mark.usable ->
              /\ path' = [path EXCEPT ![s] = mark.last]
              /\ last' = NoClose /\ UNCHANGED <<entries, net>>
         [] OTHER -> last' = NoClose /\ UNCHANGED history
    /\ UNCHANGED <<day, written>>

(* A close, a reset and the stop read the clock as they call. *)
ClosePosition ==
  \E s \in Symbols, mark \in Marks :
    /\ Idle
    /\ account' = ClosedByHand(account, s, mark, day) /\ Served /\ written' = day
    /\ IF IsOpen(account, s) /\ mark.usable
         THEN Records(s, mark, "MANUAL_CLOSE") ELSE last' = NoClose /\ UNCHANGED history
    /\ UNCHANGED <<day, managing>>

(* The emergency stop goes with the account it was engaged on. *)
Reset ==
  \E balance \in Balances :
    /\ Idle
    /\ account' = EnsureSession(Fresh(balance), day)
    /\ net' = 0 /\ path' = [s \in Symbols |-> 0] /\ last' = NoClose
    /\ locks' = {} /\ straggled' = FALSE /\ written' = day
    /\ UNCHANGED <<day, managing, entries>>

SetEmergencyStop ==
  \E engaged \in BOOLEAN :
    /\ Idle
    /\ account' = [EnsureSession(account, day) EXCEPT !.stopped = engaged] /\ Served
    /\ written' = day
    /\ last' = NoClose /\ UNCHANGED <<day, managing, history>>

(* get_account and position_intelligence, outside the service's lock. *)
Snapshot ==
  \E now \in DatesRead :
    /\ Idle
    /\ account' = EnsureSession(account, now) /\ Served
    /\ last' = NoClose /\ UNCHANGED <<day, written, managing, history>>

Midnight ==
  /\ Idle /\ day < MaxDays
  /\ day' = day + 1
  /\ last' = NoClose /\ UNCHANGED <<account, written, managing, history, locks, straggled>>

Next ==
  \/ SubmitOrder \/ Tick \/ ManagePosition \/ ClosePosition
  \/ Reset \/ SetEmergencyStop \/ Snapshot \/ Midnight

Spec == Init /\ [][Next]_vars

-----------------------------------------------------------------------------
(* Properties. *)

EntryFees == SumFunction([s \in Symbols |-> account.positions[s].fee])

\* The money adds up: the balance is what the account started with plus what it
\* realised, and that is the net result of every trade less the entry fees of
\* what is still open.  Catches a fee charged twice or not at all (_open_position
\* and _close each charge one).
LedgerBalances ==
  /\ account.balance = account.starting + account.realized
  /\ account.realized = net - EntryFees

\* A date that was locked stays locked, under the lock that engaged first, and takes
\* no entry however many other dates are served in between, until the account is reset:
\* provided the calls come in the order of their dates.  (_apply_daily_lock,
\* _ensure_session; engines/paper/engine.py:471.)
LockedDayStaysLocked ==
  [][~straggled' =>
       \A l \in locks : l.date = account'.session.date =>
         \/ Reset
         \/ /\ account'.session.lock = l.lock
            /\ OpenSymbols(account') \subseteq OpenSymbols(account)]_vars

\* "A lock stops opening" and locks reset at the day boundary (docs/paper-trading.md:197,
\* 203), whatever the order in which the calls of two days reach the engine: a date that
\* was locked takes no entry.
LockedDayTakesNoEntry ==
  [][\A l \in locks : l.date = account'.session.date =>
       OpenSymbols(account') \subseteq OpenSymbols(account)]_vars

\* A close at a level was the first level the price met on its way from where the
\* position was last seen: no other adverse level lies between, and a target is
\* taken only if no adverse level was reached.  (paper-trading.md section 7.)
NearestLevelFires ==
  LET p == last.position
      met == {l \in AdverseLevels(p) : Against(p, l.level, last.to)}
      Between(l, m) == IF p.side = "LONG" THEN m.level < l.level ELSE m.level > l.level
  IN last.reason \notin {"NONE", "MANUAL_CLOSE"} =>
       IF last.reason = "TAKE_PROFIT" THEN met = {}
       ELSE \E m \in met :
              /\ m.reason = last.reason
              /\ \A l \in met : ~Between(l, m)
              /\ ~Against(p, m.level, last.from)

\* Nothing that stays open rests at a price that has reached one of its levels:
\* every tick that sees a usable price acts on it, the trailing one included.
NothingRestsPastItsLevels ==
  \A s \in OpenSymbols(account) : TriggeredExit(account.positions[s], path[s]) = "NONE"

\* What is open stays inside the envelope whatever closes and opens between.
WithinLimits ==
  /\ Cardinality(OpenSymbols(account)) <= MaxOpenPositions
  /\ Exposure(account) <= MaxPortfolioExposure
  /\ \A s \in Symbols : account.positions[s].notional <= MaxPositionNotional

=============================================================================
