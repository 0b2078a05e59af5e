---------------------------- MODULE AutonomousLoop ----------------------------
(***************************************************************************)
(* The autonomous paper-trading loop (services/autonomous.py) of a         *)
(* deployment that permits it: one supervised task that manages the open   *)
(* positions and then proposes an entry per symbol, one action per await,  *)
(* beside requests that arm it, trade the same account, stop it or reset   *)
(* it.  Time is abstract: the task may wake whenever it sleeps, so a       *)
(* longer interval in an outage is not told from a shorter one.            *)
(*                                                                         *)
(* Of the paper service the loop sees positions, refusals and the replay   *)
(* of known ids; PaperService models how it keeps them.  Each of its calls *)
(* is one step, its write lock makes it so.  Ids never leave the order log *)
(* here, and a restart finds all of the account or a fresh one.            *)
(***************************************************************************)
EXTENDS Integers, Sequences, FiniteSets, SequencesExt

CONSTANTS
  Symbols,
  Watchlist,          \* configured symbols, in order
  MaxSymbols,         \* symbols evaluated in one iteration at most
  MaxFailures,        \* max_consecutive_failures
  OutageIterations,   \* outage_iterations
  CloseOnFlip,        \* close_on_signal_flip
  Delisting,          \* an open symbol may have no price: the lookup raises
  Readings,           \* what the rules may read from a bar, per symbol
  MaxBars, MaxRequests, MaxRestarts   \* bounds on bars, requests, restarts

Sides == {"LONG", "SHORT"}
Biases == Sides \cup {"NEUTRAL"}
Bars == 1..MaxBars

ASSUME LoopAssumption ==
  /\ Watchlist \in Seq(Symbols) /\ MaxSymbols \in Nat \ {0}
  /\ \A m, n \in DOMAIN Watchlist : Watchlist[m] = Watchlist[n] => m = n
  /\ MaxFailures \in Nat \ {0} /\ OutageIterations \in Nat \ {0}
  /\ Readings \subseteq [Symbols -> Biases]
  /\ CloseOnFlip \in BOOLEAN /\ Delisting \in BOOLEAN
  /\ MaxBars \in Nat \ {0} /\ MaxRequests \in Nat /\ MaxRestarts \in Nat

VARIABLES
  armed, failed,            \* _armed, and whether _failure_detail is set
  loop,                     \* where the task is, and its local variables
  streak, excluded, outage, \* _consecutive_failures, _excluded, _total_failure_iterations
  positions, stopped,       \* the account: side per symbol, emergency stop
  index,                    \* the client order ids the engine knows
  bar, bias,                \* the last closed bar, what the rules read from it
  entered,                  \* history: positions the loop opened per symbol and bar
  requests, restarts

paper == <<positions, stopped, index, entered>>
market == <<bar, bias>>
health == <<streak, excluded>>
bounds == <<requests, restarts>>
vars == <<armed, failed, loop, health, outage, paper, market, bounds>>

-----------------------------------------------------------------------------
Flat == [s \in Symbols |-> "FLAT"]
Open == {s \in Symbols : positions[s] # "FLAT"}

Asleep ==
  [step |-> "asleep", todo |-> <<>>, seen |-> Flat, bar |-> 0, bias |-> "NEUTRAL",
   evaluated |-> 0, failures |-> 0]

At(step) == loop.step = step
Current == Head(loop.todo)

(* Configured symbols that were not dropped, up to the cap. *)
Universe ==
  LET live == SelectSeq(Watchlist, LAMBDA s : s \notin excluded)
  IN SubSeq(live, 1, IF Len(live) < MaxSymbols THEN Len(live) ELSE MaxSymbols)

(* auto-symbol-timeframe-bar-side: one id for a symbol, bar and side.      *)
KeyOf(s, b, side) == <<s, b, side>>

NothingEntered == [s \in Symbols |-> [b \in Bars |-> 0]]
NoStreak == [s \in Symbols |-> 0]

Init ==
  /\ armed = FALSE /\ failed = FALSE
  /\ loop = Asleep
  /\ streak = NoStreak /\ excluded = {} /\ outage = 0
  /\ positions = Flat /\ stopped = FALSE /\ index = {}
  /\ bar = 1 /\ bias \in Readings
  /\ entered = NothingEntered
  /\ requests = 0 /\ restarts = 0

-----------------------------------------------------------------------------
(* The task. *)

Passed(s) ==
  /\ streak' = [streak EXCEPT ![s] = 0]
  /\ loop' = [loop EXCEPT !.step = "refreshing"]
  /\ UNCHANGED excluded

Failed(s) ==
  /\ streak' = [streak EXCEPT ![s] = @ + 1]
  /\ excluded' = IF streak'[s] >= MaxFailures THEN excluded \cup {s} ELSE excluded
  /\ loop' = [loop EXCEPT !.step = "refreshing", !.failures = @ + 1]

(* Wrong: an outage stops the loop. *)
BeginUnlessOutage ==
  /\ At("asleep") /\ armed /\ outage < OutageIterations
  /\ Universe # <<>>
  /\ loop' = [Asleep EXCEPT !.step = "ticking", !.todo = Universe,
                            !.evaluated = Len(Universe)]
  /\ UNCHANGED <<armed, failed, health, outage, paper, market, bounds>>

(* The task wakes.  With nothing to watch the iteration ends where it      *)
(* begins, before the open positions are looked at.                        *)
Begin ==
  /\ At("asleep") /\ armed
  /\ IF Universe = <<>>
       THEN outage' = 0 /\ UNCHANGED loop
       ELSE /\ loop' = [Asleep EXCEPT !.step = "ticking", !.todo = Universe,
                                      !.evaluated = Len(Universe)]
            /\ UNCHANGED outage
  /\ UNCHANGED <<armed, failed, health, paper, market, bounds>>

(* Management first: the engine closes what has reached a level. *)
Tick ==
  /\ At("ticking")
  /\ \E closed \in SUBSET Open :
       positions' = [s \in Symbols |-> IF s \in closed THEN "FLAT" ELSE positions[s]]
  /\ loop' = [loop EXCEPT !.step = "fetching", !.seen = positions']
  /\ UNCHANGED <<armed, failed, health, outage, stopped, index, entered, market, bounds>>

(* tick and get_account are outside the handler of a symbol: what they     *)
(* raise ends the task.  The supervisor records it and disarms; nothing    *)
(* starts the task again in this process.                                  *)
TaskFails ==
  /\ Delisting /\ Open # {}
  /\ At("ticking") \/ At("refreshing")
  /\ failed' = TRUE /\ armed' = FALSE
  /\ loop' = [Asleep EXCEPT !.step = "ended"]
  /\ UNCHANGED <<health, outage, paper, market, bounds>>

(* Candles that are unusable, or a fetch that raises. *)
FetchFails ==
  /\ At("fetching") /\ Failed(Current)
  /\ UNCHANGED <<armed, failed, outage, paper, market, bounds>>

Opposed(side, b) == {side, b} = Sides

(* The bar is read and, against the account seen before the candles were   *)
(* awaited, a position is kept or is to be closed, an entry is proposed,   *)
(* or nothing follows.  Rules that could not run fail the symbol only      *)
(* where it is flat.                                                       *)
Fetch ==
  LET s == Current
      held == loop.seen[s] # "FLAT"
  IN /\ At("fetching")
     /\ \E ready \in BOOLEAN :
          \/ /\ held /\ ready /\ CloseOnFlip /\ Opposed(loop.seen[s], bias[s])
             /\ loop' = [loop EXCEPT !.step = "closing"]
             /\ UNCHANGED health
          \/ /\ held /\ ~(ready /\ CloseOnFlip /\ Opposed(loop.seen[s], bias[s]))
             /\ Passed(s)
          \/ ~held /\ ~ready /\ Failed(s)
          \/ ~held /\ ready /\ bias[s] = "NEUTRAL" /\ Passed(s)
          \/ /\ ~held /\ ready /\ bias[s] \in Sides
             /\ loop' = [loop EXCEPT !.step = "submitting", !.bar = bar, !.bias = bias[s]]
             /\ UNCHANGED health
     /\ UNCHANGED <<armed, failed, outage, paper, market, bounds>>

(* A flip closes whatever the symbol holds by now, or is refused. *)
Close ==
  LET s == Current
  IN /\ At("closing")
     /\ \/ positions' = [positions EXCEPT ![s] = "FLAT"] /\ Passed(s)
        \/ UNCHANGED positions /\ Passed(s)
        \/ Delisting /\ UNCHANGED positions /\ Failed(s)
     /\ UNCHANGED <<armed, failed, outage, stopped, index, entered, market, bounds>>

Opens(s, key) ==
  /\ ~stopped /\ positions[s] = "FLAT"
  /\ positions' = [positions EXCEPT ![s] = loop.bias]
  /\ index' = index \cup {key}
  /\ entered' = [entered EXCEPT ![s][loop.bar] = @ + 1]

(* Wrong: a known id is ruled on again. *)
SubmitRuledAgain ==
  LET s == Current
  IN /\ At("submitting")
     /\ Opens(s, KeyOf(s, loop.bar, loop.bias)) /\ Passed(s)
     /\ UNCHANGED <<armed, failed, outage, stopped, market, bounds>>

(* A known id is answered as it was, accepted or refused; otherwise the    *)
(* order is refused, or opens a position, and its id is known from then.   *)
(* A lookup that raises fails the symbol and leaves the id unknown.        *)
Submit ==
  LET s == Current
      key == KeyOf(s, loop.bar, loop.bias)
  IN /\ At("submitting")
     /\ \/ key \in index /\ UNCHANGED <<positions, index, entered>> /\ Passed(s)
        \/ /\ key \notin index /\ index' = index \cup {key}
           /\ UNCHANGED <<positions, entered>> /\ Passed(s)
        \/ key \notin index /\ Opens(s, key) /\ Passed(s)
        \/ UNCHANGED <<positions, index, entered>> /\ Failed(s)
     /\ UNCHANGED <<armed, failed, outage, stopped, market, bounds>>

(* The account is read again; after the last symbol the iteration is over. *)
Refresh ==
  LET todo == Tail(loop.todo)
  IN /\ At("refreshing")
     /\ IF todo # <<>>
          THEN /\ loop' = [loop EXCEPT !.step = "fetching", !.todo = todo, !.seen = positions,
                                       !.bar = 0, !.bias = "NEUTRAL"]
               /\ UNCHANGED outage
          ELSE /\ outage' = IF loop.failures >= loop.evaluated THEN outage + 1 ELSE 0
               /\ loop' = Asleep
     /\ UNCHANGED <<armed, failed, health, paper, market, bounds>>

LoopStep ==
  \/ Begin \/ Tick \/ TaskFails \/ FetchFails \/ Fetch \/ Close \/ Submit \/ Refresh

-----------------------------------------------------------------------------
(* Around it. *)

(* Arming clears a failure.  It does not look at the task. *)
Arm ==
  /\ \E enabled \in BOOLEAN :
       armed' = enabled /\ failed' = (failed /\ ~enabled)
  /\ UNCHANGED <<loop, health, outage, paper, market, bounds>>

RequestOpen ==
  /\ ~stopped
  /\ \E s \in Symbols \ Open, side \in Sides : positions' = [positions EXCEPT ![s] = side]
  /\ UNCHANGED <<stopped, index, entered>>

(* A close by hand, or a level met in a tick that a request asked for. *)
RequestClose ==
  /\ \E s \in Open : positions' = [positions EXCEPT ![s] = "FLAT"]
  /\ UNCHANGED <<stopped, index, entered>>

(* The emergency stop is set or released; the loop is not told. *)
RequestStop == stopped' = ~stopped /\ UNCHANGED <<positions, index, entered>>

FreshAccount ==
  positions' = Flat /\ stopped' = FALSE /\ index' = {} /\ entered' = NothingEntered

Request ==
  /\ requests < MaxRequests /\ requests' = requests + 1
  /\ RequestOpen \/ RequestClose \/ RequestStop \/ FreshAccount
  /\ UNCHANGED <<armed, failed, loop, health, outage, market, restarts>>

NewBar ==
  /\ bar < MaxBars /\ bar' = bar + 1
  /\ bias' \in Readings
  /\ UNCHANGED <<armed, failed, loop, health, outage, paper, bounds>>

(* A new process starts its own task, disarmed, with nothing remembered;   *)
(* the account comes back from its snapshot or does not.                   *)
Restart ==
  /\ restarts < MaxRestarts /\ restarts' = restarts + 1
  /\ armed' = FALSE /\ failed' = FALSE
  /\ loop' = Asleep
  /\ streak' = NoStreak /\ excluded' = {} /\ outage' = 0
  /\ UNCHANGED paper \/ FreshAccount
  /\ UNCHANGED <<market, requests>>

Next == LoopStep \/ Arm \/ Request \/ NewBar \/ Restart

Spec == Init /\ [][Next]_vars

(* Awaits and sleeps end.  Requests, bars and restarts owe nothing. *)
FairSpec == Spec /\ WF_vars(LoopStep)

-----------------------------------------------------------------------------
(* Properties. *)

\* "At most one autonomous entry per symbol per closed bar" (build_client_order_id):
\* also when the position was closed at a level or by hand since, when a lookup
\* raised and the symbol is tried again, and over a restart that finds the account.
OneEntryPerBar == \A s \in Symbols, b \in Bars : entered[s][b] <= 1

Managed == At("ticking")
Trading == armed /\ ~At("ended")

\* As long as it watches a symbol, an armed loop comes back to the open positions
\* again and again, through outages and failures of single symbols.
WatchedPositionsAreManaged ==
  Trading /\ Open # {} /\ Universe # <<>>
    ~> Managed \/ ~Trading \/ Open = {} \/ Universe = <<>>

\* "It does not stop: an outage is not a reason to abandon open positions"
\* (docs/autonomous-trading.md).  It does not hold: once an outage has dropped every
\* symbol, an iteration ends before it manages anything, for the rest of the session.
OpenPositionsAreManaged ==
  Trading /\ Open # {} ~> Managed \/ ~Trading \/ Open = {}

=============================================================================
