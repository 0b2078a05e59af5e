# Aetheris Pro: a TLA+ development

Aetheris Pro is a trading backend (Python, asyncio) with a web frontend. It
reads public market data, scores set-ups, rules on proposed orders with a risk
engine, simulates them on a paper account, and, on a testnet venue, sends real
orders and keeps durable records of them. This directory holds TLA+ modules for
the parts in which order, failure and concurrency decide whether the system is
right, the TLC configurations that check them, and TLAPS proofs.

Paths below are relative to `src/backend/src/aetheris/`.

## Inventory

| Part | State | Operations | What makes it correct |
|---|---|---|---|
| Order state machine, `engines/order/machine.py` | none | transition table | terminal is terminal; UNKNOWN has one exit |
| Order lifecycle engine, `engines/order/engine.py`, `reconcile.py` | none of its own | create, validate, reject, submit, acknowledge, doubt, fill, reconcile, resolve, recover | the submission stamp tells a draft from a sent order; no outcome is inferred; fills only grow; whatever is in doubt blocks entries |
| Durable order store, `adapters/persistence/orders.py` | order rows, fills, discrepancies | row lock, insert, update, scan | one engine call is one transaction; fills and totals agree; a row that will not load still blocks |
| Testnet execution, `services/testnet.py` | local variables of each coroutine | submit, cancel, reconcile_all | an intent leaves once; the gate holds when the order leaves; a sweep never settles on absence; a reset is recognised |
| Testnet adapter, `adapters/exchange/binance/testnet_adapter.py` | clock offset | submit, query, cancel, set_leverage | a POST is never repeated; any answer that cannot be read is doubt |
| Startup, `main.py` | the services it binds | recover, restore, serve | recovery ends before anything is served |
| Paper engine, `engines/paper/` | session, positions, trades, orders | submit, tick, close, reset, emergency stop | the ledger balances; exits are never better than the price; the daily lock holds |
| Paper service, `services/paper.py` | write lock, cooldowns, bindings | the above, around awaited prices, then a snapshot | one writer at a time; what is promised durable survives a restart |
| Paper snapshots, `adapters/persistence/paper.py` | one row, a degraded flag | load, save | a failed write ends the promise of durability |
| Autonomous loop, `services/autonomous.py` | armed, task, failures, back-off | arm, iterate, stop | nothing is entered while disarmed; a failure is seen |
| Risk engine, `engines/risk/engine.py` | none; each caller builds its view | evaluate: the rules in order, the first refusal wins | a halt is named before anything else; what is approved keeps every limit |
| Leverage chain, `engines/risk/leverage.py`, `analysis/leverage.py`, `domain/leverage.py` | none | candidate from volatility, ceiling from stop and budget, resolution of a request | no rule raises a ceiling; an unknown ceiling counts as 1x; the liquidation lies past the stop |
| HTTP client, `adapters/exchange/http.py` | per call: attempt, deadline | get_json with retries and back-off | attempts and time are bounded, and the bound cuts no attempt it granted |
| TTL cache, `adapters/exchange/cache.py` | entries in order of use | get, set, evict | nothing outlives its life by being read |
| Market adapter and services, `adapters/exchange/binance/adapter.py`, `services/market_data.py` | the cache | fetch, refuse what is too old, label freshness | nothing stale is served as live |
| Scanner, `services/scanner.py` | per scan: rows, pool, reads under way | build rows, choose a pool, fetch under a semaphore, rank, page | one failing symbol costs its own figure and no other's |
| Strategy, regime, setup, `analysis/`, `services/analysis.py` | none | prepare candles, rule set, regime, levels, score | the forming candle decides nothing the rules promise it does not; levels on the right sides |
| Position intelligence, `analysis/position/` | none; the position's recorded thesis | seven brains, one ladder | no exit on one reading; a worse look never softens the advice |
| Backtest, `analysis/backtest/` | position, equity, pending decision | one bar at a time, then metrics | no look-ahead; the worse of two levels; the ledger adds up |
| Optimizer, `analysis/optimize.py`, `domain/optimization.py` | trials, folds | grid, split, search, select, walk forward | what judges a choice was not seen while choosing |
| Indicators, API, configuration, domain models, frontend | none | arithmetic, validation, rendering | |

How they interact: the API calls the services; the autonomous loop calls the
paper service; the paper service awaits market data inside its write lock, asks
the lifecycle engine how many orders are unreconciled, calls the paper engine
(synchronous) and saves a snapshot; the paper and the testnet service each show
the risk engine a view of the account and it rules on the view; the analysis,
the scanner and the position intelligence read candles through the market
adapter, its cache and the retrying client; the testnet service calls the lifecycle
engine (each call one transaction on one locked row) and the adapter (each call
one request that may be lost in either direction). Nothing in the running
program calls `reconcile_all`, `apply_fill`, `begin_reconciliation`,
`resolve_manually` or `cancel_before_submission`: tests do, and the modules
model them as calls that may be made.

The hard behaviours, one by one and with the line where each bites, are the
"hazards" of `PROJECT.json`.

## Modules

| Module | Models |
|---|---|
| `OrderMachine` | the states, the transition table, the classes of states, what a venue can report |
| `OrderRecord` | one order row, each mutation of it as a function of the row, and `Decide`, the reconciliation decision |
| `OrderPromise` | the abstract specification: none, draft, working, doubtful, settled, and an executed quantity that only grows |
| `OrderLifecycle` | the engine over its store, every public method an action, with crashes and a recovery pass that can be cut short |
| `OrderLifecycle_proofs` | theorems about `OrderLifecycle` |
| `TestnetExecution` | submit, cancel and the sweep as coroutines, one action per await, around a venue and a network |
| `PaperAccount` | the paper account as a record, and what each method of the paper engine makes of it, as functions |
| `PaperEngine` | the paper engine alone, one action per method and one per position of a tick, under arbitrary prices |
| `PaperService` | the calls of the paper service as coroutines around one write lock, the log and its index, the snapshot row, crashes and restarts |
| `AutonomousLoop` | the supervised task of the autonomous loop, one action per await, beside requests on the same account |
| `Leverage` | the leverage chain as functions: candidate, ceiling, resolution |
| `RiskDesk` | the risk engine's rules, and the paper and the testnet service asking it to rule while books, halts and time move |
| `Signals` | prepared candles, the rule set's conditions and bias, the regime, and the setup with levels and score, as functions |
| `PositionAdvice` | the brains that read one position and the ladder that decides, as functions |
| `Analysis` | candles that form and close, fetches that answer in several ways, a position entered and looked at again: `Signals` and `PositionAdvice` over time |
| `Backtest` | the bar loop, one bar a step, and the metrics |
| `Optimizer` | grid search over a split, walk-forward over folds, one trial a step |
| `MarketFeed` | several readers of the cache through the retrying client, with a clock |
| `Scanner` | one scan: rows, pool, concurrent reads that end in any order, page |
| `TestnetExecution_proofs`, `PaperEngine_proofs`, `PaperService_proofs`, `AutonomousLoop_proofs` | theorems about the module each is named after |
| `Judgement_proofs` | theorems about `RiskDesk` and `Analysis` |
| `Tools_proofs` | theorems about `Backtest`, `Optimizer`, `MarketFeed` and `Scanner` |
| `Aggregates` | lemmas the proofs share: sums, greatest and least members, counts, parts of sequences, and what a function defined by recursion over a sequence comes to |
| `MCOrderLifecycle`, `MCTestnetExecution`, `MCPaperEngine`, `MCPaperService`, `MCAutonomousLoop` | orders, prices, calls and symmetry sets TLC uses |
| `MCJudgement`, `MCTools` | instances of `RiskDesk` and `Analysis`, and of the four offline tools |

`PaperEngine` and `PaperService` compose `PaperAccount` (EXTENDS); `OrderLifecycle`
and `TestnetExecution` compose `OrderMachine` and `OrderRecord`; `RiskDesk` and
`Signals` compose `Leverage`, `Analysis` composes `Signals` and `PositionAdvice`.
`MCJudgement` and `MCTools` put modules side by side whose variables are
disjoint and which do not call each other: `part` is chosen at the start, the
behaviour follows that module and the others stay where they began, so one run
explores the sum of their state spaces and not the product. In the same way
`MCTestnetExecution` chooses a `scene`: one order with everything that can happen to it,
or two orders through a reset, with whole fills at one leverage.

### State and actions

A row of the model is `[state, reached, filled, fillRows, rowsTotal, disputed,
operator]`. `reached` is the submission timestamp being set (`reached_venue`),
`fillRows`/`rowsTotal` are the child table and the sum the row's validator
compares with `filled`; `disputed` is that a discrepancy was written; `operator`
is the named person `resolve_manually` records. Timestamps, prices, averages
and wording are left out: no guard reads them. A method that raises changes
nothing, so what makes it raise is the guard of its action; loading a row its
own validator refuses raises too, which is why every method needs `Readable`.

`OrderLifecycle` gives every method every answer a venue could give
(`Answers`), including one that reconciliation may not adopt and a total past
the quantity. Two callers' obligations are constants, because the code does not
enforce them: `RejectedOnlyAtGate` (the risk gate rejects only orders that were
not sent; without it `NoFabricatedOutcome` fails, see Findings) and
`RepeatedReports` (an execution may be reported twice). `heard`
is history: the venue's last word on an order while it was open.

`TestnetExecution` keeps for every coroutine where it stands and what it holds
across an await: the row `submit` read before writing its terms, the approved
leverage, the answer `cancel` got, the answers the sweep collected. The venue
keeps its own orders, `wire` the requests that are on their way; a request may
arrive after its caller gave up, may be lost, and an answer may be lost after
the order was placed. `Crash` drops every coroutine and nothing that is on the
wire; `Restart` is recovery, which runs alone before anything is served.

A paper account of the model is `[starting, balance, realized, stopped, session,
positions]`, the fields of `PaperState` that a guard or a sum reads. Prices are
whole ticks and money is price times steps; levels are kept in hundredths of a
tick, so that a percentage of a price is exact, as it is in the code's decimals.
`None` is 0, which no price or level can be. `Rounded` is `quantize_usdt` with the
tick as its unit: the fee and the margin are the two amounts it rounds.
`PaperEngine` keeps, beside the account, the symbols a tick has still to look at
and histories: the net result of all trades, the last price each position was seen at,
the close the last step made, the dates that were locked, and whether a call came with
a date before that of the call before it. Its calls are given a date by their caller.
An order, a tick and a read take theirs before they await prices, so it may be up to
`MaxLag` days behind `day`; writers take it inside the lock, one after the other, so
theirs never go back (`written`), while a read outside the lock takes any
(`services/paper.py:307`, `319`, `353`, `585`).

`PaperService` adds what surrounds the engine: `caller` is a coroutine with its
local variables (the clock it read, the account the risk engine rules on, the
document it is writing), `holder` is `_write_lock`, `saved` the snapshot row,
`healthy` the store's flag. `told` and the engine state's `entered` and `gone` are
histories. A write that is reported failed may have landed. `build` is the build that
runs, and a row carries the schema of the build that wrote it. A start binds the store
only if the database answers, and restores what `Loaded` says: nothing from a row that
could not be read, which leaves the store unhealthy, and nothing from a row of another
schema, which leaves it healthy (`adapters/persistence/paper.py:98-147`). `adrift` says
that the process began without the row that is there; its first write that lands ends
that, and marks what `told` had in the row as written over. `told` is emptied by a
reset only.

`AutonomousLoop` keeps of `run_once` where it is (`loop.step`), the symbols still to
do, the account it last read and what it is about to propose, and beside it the
attributes a guard reads: armed, failed, streaks of failures, dropped symbols, the
count of outage iterations. The paper service is what the loop sees of it:
positions, known ids, refusals. `entered` is history. A task that
ended stays ended, since nothing clears `_task`.

`RiskDesk` has one of two desks per behaviour (`mode`). `books` is what is really
open, realised and locked; `View` is what the caller shows the engine of it, in
full on the paper desk and with nothing but balance, realised result and doubt on
the testnet. `Evaluate` is `evaluate()`: the rules as a sequence of failing conditions
with their codes, the first of which is the refusal, then the leverage chain, then
the rules that need its result. A listed symbol always carries its filters, so the
engine's refusal of a market without them (line 357) is not reached and left out; an
order for a symbol that is not listed is `PaperOrderUnlisted`, which the paper engine's own
gate refuses and the risk engine never sees. `PaperOrder` rules and fills in one step, as the
paper service does under its lock; a testnet ruling is kept in `approved` and sent
later, at the market as it then is. `ruling` is the last ruling with everything it
was made from. The configured mode is taken to be enabled.

A candle of `Analysis` is its prices and the reading the indicators give at it,
`closed` or forming; `feed` says how the next fetch answers: stale, without an
event time, newest first, or with a bar repeated. The strategy drops the forming
candle, the setup and the position intelligence do not, as in the code. The brains
of `PositionAdvice` are one operator each, `Decision` is the orchestrator's ladder.

`Backtest` takes a bar as an action: execute what the bar before decided at this
open, test the levels against this range, advance the trail, mark, decide. The bars
read so far are kept beside the simulation (`read`); the properties speak of them,
the simulation sees one at a time. `Optimizer` makes each backtest an input and
records the windows it was run on (`looked`). `MarketFeed` has whole instants and
lets a request take any number of them; a deadline that is reached does not wait.
`Scanner` keeps the reads under way in `fetching` and the order they ended in. A read
whose error the scan does not catch fails the scan, and the other reads go on, as under
`gather`; the listing itself may fail before it.

## Runs

| Run | Instance | Shows |
|---|---|---|
| `one` | one order of three lots, two execution ids, two crashes | types, the stamp, no fabricated outcome, finality, the single exit of UNKNOWN, monotone fills, what recovery leaves blocking, and the refinement of `OrderPromise` |
| `two` | two orders of one lot, two crashes | a recovery pass killed between two orders is completed by the next; recovery always ends |
| `submit` | one intent at two leverages, two requests, a cancellation, a sweep, a crash; or two intents at one leverage, two requests, a sweep, a reset | sent at most once, nothing at the venue unaccounted for, and books never contradict the venue, also when a reset may be suspected rightly, wrongly or half rightly |
| `account` | two symbols, two days, two entries with levels on both sides, five marks, dates up to one day behind | the nearest level fires and is never flattered, none is passed by; the ledger and the envelope through closes, resets and reads in any order; a locked date stays locked while calls are served in the order of their dates |
| `writers` | two callers, three calls of every kind, midnight, a death, two builds, starts without a database or with a row that cannot be read, a log of two, fair | nothing moves under a ruling, no id enters twice, what is called durable is what a restart restores, what was reported and stored is known, and every call is answered |
| `loop` | two watched symbols, two bars, a request, a restart, fair | one entry per symbol and bar; positions are managed while anything is watched |
| `rulings` | two symbols, three proposals, five markets, two results, one unit of time; five bars in a window of three, five ways to answer, and either three stop models or two plans | an approval keeps every ceiling and can be afforded; a halt is never masked; an actionable setup has its levels on the right sides; the strategy does not repaint; one reading never exits; a worse look never softens |
| `tools` | every sequence of six bars out of six, four settings; eight searches, four outcomes; two readers of two keys; four symbols, seven queries | no look-ahead, the worst case, the ledger; the first of the best wins and is judged on unseen bars; cached data ages out, only slow calls are cut; a scan that has a page is whole |
| `doubt` | violation, under fairness | the sweep is told the answer for ever and never applies it |
| `outage` | violation, under fairness | an outage drops every symbol and the open position is never managed again |
| `spent` | violation | on the testnet desk the day's budget is spent and the next entry is approved |
| `midnight` | violation, one symbol | a date that was locked is served again, unlocked, after a call of another date, and takes an entry |

Bounds. Three lots and two execution ids are enough for a fill, a repeat of it,
a partial total adopted in between and an overfill. Two crashes let a recovery
pass die and be repeated. Two orders are the least for which recovery can be cut
short between orders and a reset be suspected (the code asks for two vanished
orders). One sweep at a time: two sweeps only repeat what the model lets one do,
since each of its answers is applied under the row's lock. For the paper engine
one symbol carries every kind of level and the other the sizes that fill the
envelope in one way and overfill it in another; the marks include one past a stop
and the liquidation together, a gap without a book, one that ratchets a trail over
the entry, and one that may not be acted on. A date may be one day behind (`MaxLag`), as a
lookup takes seconds and crosses one midnight. Two callers are enough for the lock,
since a third could only wait; three calls allow an entry, a second one of the same
id or its exit, and a read or a retry between them, and a log of two overflows at
the third order. Two builds are one that reads the row and one that
refuses it. One id is enough for a retry: what takes it out of the log are closes, which
are logged without one. In `loop` two failures drop a symbol and one iteration is an
outage, so that both limits are reached; two bars let a proposal be overtaken by
the next bar and a side reverse.

In `rulings` the proposals are a clean one, one past every ceiling and one with a
wide stop, and the markets one without fault, one without a known ceiling and one
fault of each stage; the balance and the limits are such that the second entry runs into
what is available, into the notional limit or into the exposure, depending on the first. A
setup reads no position and advice reads no setup parameter, so the analysis is followed
once without a position and once with one stop model (`MCJudgement`, parts `SETUP` and
`ADVICE`), which explores the sum of the two and not the product. The results spend the
loss budget in two losses and reach the profit target in one gain, so that both locks
engage (`MaxLoss` bounds the losses); one
unit of time is the cooldown. A window of three candles is two closed ones and a
forming one, the least for which a structural stop, a forming candle and a
transition differ. In `tools` six bars hold two round trips after the warm-up;
among them are bars that reach two levels at once, gap past one, and turn the bias
around. Nine to twelve bars give folds that overlap and folds that tile, and one
search each is too short, too wide or builds no candidate. The readers are alike and the
keys are alike, so the run takes each up to a permutation. Two readers, a cache of
one entry, one retry and instants to six let an entry be evicted, expire and be
read past its life while a retry runs into the deadline. Four symbols with pools of
three and two and a concurrency of two let a read wait for another and a row fall
out of the pool.

Deadlock checking is off everywhere: the system may stop when no call is made and
the bounded counters are used up.

Fairness. `OrderLifecycle` assumes it for `Recover` alone, which startup awaits
to its end. `TestnetExecution` states no liveness the code would owe: nothing in the
running program calls the sweep, so nothing guarantees that a row is ever asked about.
Its `SweptSpec` supposes somebody who sweeps again and again and reaches the venue; only
the run `doubt` assumes it, to show that not even that settles an UNKNOWN order.
`PaperService`'s `FairSpec` lets every await of
a coroutine end (the HTTP client bounds its attempts and its time, the save
never raises) and hands the lock to each waiter in the end: strong fairness of
`Acquire`, because `asyncio.Lock` wakes its waiters in the order they came.
`AutonomousLoop` lets every await and sleep of the task end. New requests,
cancellations, crashes, the venue's own moves and what the network does get
none. The other modules state no liveness and no fairness.

## Proofs

`OrderLifecycle_proofs` proves, for any set of orders, any quantity and any
number of crashes: type correctness, `StampAgreesWithState`,
`NoFabricatedOutcome` (assuming `RejectedOnlyAtGate`, without which it
fails), `SettledIsFinal`, `UnknownLeavesByAsking`, `FillsOnlyGrow`,
`RecoveryBlocksWhatItCannotSee` and `KeepsPromise`.

The argument is one lemma, `EveryStep`: whatever the call, answer or crash, a
step takes each row to a row `RowStep` allows, and at most one row changes.
`RowStep` is proved for each mutation separately (`MovedStep`, `FillStep`,
`ResolvedStep`, `DecisionStep`, ...), every other fact is read off it. The types
alone are not inductive: a fill is within the quantity only because the total
is, and the rows' sum only because it never exceeds the total, so `Sound` adds
the relation of sum and total and of stamp and state. Recovery needs the further
invariant that its list covers every order still in doubt (`ListCoversDoubt`),
which a crash re-establishes by emptying the list.

Assumptions: `QuantityAssumption`, `MaxCrashesAssumption`, `CallersAssumption`.

`TestnetExecution_proofs` proves, for any intents, requests, cancellations,
leverages, resets and deaths: `SentAtMostOnce`, `NothingUnaccounted`,
`BooksMatchVenue`, and that the row write outside the lock (`services/testnet.py:285`)
never changes any row's state. The service carries rows, answers and whole maps
of answers across awaits and applies them when they may be old. The argument is
that what is carried only grows older, never false: an answer the venue gave is
`Told(o, answer)`, which says that the venue has the order, is settled as told if
settled was what it told, and has filled at least what it told; the venue settles once and its fills only grow
(`VenueGrows`), and a stamp is never taken back (`OrderGrows`). The invariant
`IInv` says of each order beside the venue (`OrderOK`), and of each coroutine
(`RequestOK`, `CancelOK`, `SweepOK`), what it holds; `OneDriver` says that between
creation and the wire an order is driven by the one call that created it, and
`RequestOK` that nobody else touches it before its stamp, which is why the stale
row is the row. None of the three properties is inductive alone: an
acknowledgement applied late is right only because of what the call held while it
waited. One lemma per action proves the step; the frame lemmas
(`RequestFrame`, `CancelFrame`, `SweepFrame`, `QuietFrame`) carry the coroutines an
action does not run. Assumptions: `TestnetAssumption`, `QuantityAssumption`.

`PaperEngine_proofs` proves, for any orders, prices, limits and days:
`LockedDayStaysLocked` (with dates any number of days behind) and, under
`LevelsResolve`, `NothingRestsPastItsLevels` and `NearestLevelFires`. The invariant (`Standing`) is that whatever is open is at rest at
the price it was last seen at: an entry lies between its levels (`OpensQuiet`), and a
trail that advances stays short of the price that advanced it (`TrailsQuiet`). It is
also what `NearestLevelFires` rests on: no level was reached where the price came from,
and of the levels it has reached since, the choice of the code is one that no other
precedes (`OneIsFirst`, `WhatFires`; the order of levels and ranks is total).
The day's lock has an invariant of its own (`Locking`, `LockStep`): while no call was dated
before the one served before it, no locked date lies after the session's, and at the
session's own date the session carries the lock. Of `Standing` it needs only that a tick
looks at open positions. The proviso is one the code does not enforce, as the run
`midnight` shows.
Assumptions: `EngineAssumption`, `AccountAssumption`. `LevelsResolve` bounds the
leverage by 100: the model's levels are whole hundredths of a tick, and at a price of
one tick a liquidation distance above that leverage rounds to none; the code's
decimals do not round there.

`LedgerBalances` and `WithinLimits` sum over the symbols, whatever their number. Their
invariant is `Books`, the two with the types of the amounts; beside `Standing` it is
inductive. A step changes one position at most, and what that does to a sum is the lemma
`SumMoves` of `Aggregates`: the money moves by as much as the trades and the entry fees
account for, and an exposure grows only where an order was checked against the envelope
(`BooksMove`, `BooksStay`).

`PaperService_proofs` proves, for any callers, calls, prices, days, deaths and ceiling
of the log: `NothingMovesUnderARuling`, `OneEntryPerId` and, under
`NoSnapshotIsNoRow`, `DurableMeansSaved` and `ReportedFillsAreKept`, for any builds. What the engine
makes of an account is opaque to the argument. It rests on the lock (a coroutine
that prices, rules or saves is its holder, so a mutation never finds another at
work, `Mutated`); on a read touching the session and nothing else (`Undisturbed`);
and on what log and index say of each other (`Good`): each id of the log is indexed
once, with its result, so that an id the index does not know was never entered or has
left the log (`SubmissionKeeps`), and rebuilding the index from the log gives back the
index (`IndexRebuilt`), which is why a restart forgets no fill. `Recorded` is that
log and index lose the same ids at the ceiling. None of the four is inductive: a fill
is kept by the row only because the document under way mirrors memory (`Saving`), and
by memory only because the row it was restored from kept it (`ToldInRow`,
`ToldInMemory`). What is durable is compared with what `load` would give back and not with
the row (`RowIsCurrent`): a fresh account over a row of another schema is, until it
writes, exactly what the next start of this build would be. That such a start forgets
fills is no part of these two theorems (see Findings).
Assumptions: `ServiceAssumption`, `AccountAssumption`;
`NoSnapshotIsNoRow` says that the value for a missing row is no row, which is a
property of the model's encoding (TLC takes a model value for it).

`AutonomousLoop_proofs` proves `OneEntryPerBar` for any symbols, readings, bars and
restarts. That an id is submitted once would not do, since the two sides of a bar have
two ids: the invariant (`Known`, `Proposed`) is that the known ids of the last bar name
the side the rules read from it, so that a proposal never differs from an id of its own
bar, also when it is submitted after the bar has passed. It needs that one bar is read
one way, as the rules, which see closed bars only, do.

`Judgement_proofs` proves, of the risk desk, for any limits, proposals, markets and
results: `RulingIsSafe` and `HaltsAreNeverMasked`. The chain is taken ceiling by ceiling:
what a truncating division keeps (`Truncation`), what the derived ceiling bounds
(`CeilingIsSafe`), and that no later link raises what an earlier one allowed
(`ChainOnlyLowers`); an approval is then safe by arithmetic (`ApprovalIsSafe`). The
order of the rules is a fact about the first failing entry of a sequence
(`FirstBroken`, `NoneBroken`), which makes the second theorem a reading of the
list. The invariant beside them is the shape of books, flags and rulings.
Assumption: `DeskAssumption`.

Of the analysis it proves the four properties, for any bars, fetches, parameters and
plans. The invariant (`AnalysisInv`) only says what the state is: candles, never none,
and a position with all the levels of its plan. The properties rest on the operators.

- `SetupIsSound`: any fetch is a series of candles (`FetchedAre`), any stop model gives a
  level that can be compared (`StopIsALevel`), and a level on the wrong side is refused, so
  that the ratio holds as an identity of products (`LevelsAreSound`). A share is at most
  its weight (`ShareWithin`), which bounds the score; a bias means all four conditions
  hold, which is where the 45 points come from.
- `StrategyNeverRepaints`: two series that differ only in a last candle that forms in both
  (`Forming`) have the same closed part (`ClosedPartsAgree`). Fetched newest first they are
  turned round twice, fetched twice over they are refused (`FetchedAgree`); a single
  candle newest first already runs the right way and needs a case of its own.
- `OneReadingNeverExits` and `WorseNeverSoftens`: what an adverse word of each brain rests
  on (`AdverseTechnical` and its companions), what the ladder makes of the words
  (`LadderReads`), and that each word survives a worse look (`WorseReads`).

Assumption: `AnalysisAssumption`. These proofs made the guards of the regime, of the
preparation and of the brains, which overlap where the code tests them in order, into
chains of IF: a CASE leaves open which of two guards that hold is taken, and what was
meant is the first.

`Tools_proofs` proves the eight properties of the run `tools`, for any bars, settings,
grids, splits, readers, keys, universes and queries.

- `Backtest`: `NoLookAhead`, `WorstCaseIsAssumed`, `LedgerAddsUp`. The invariant
  (`BacktestInv`) is the history of every position, open and closed: entered on a bar that
  was read, decided on the one before, its extreme the best price of the bars it rested
  through (`IsBest`), and through each of those none of its levels was reached
  (`RestsThrough`). The property speaks of bars the simulation no longer sees, which is
  why the invariant must carry what it made of them. The ledger needs besides that every
  net is at least the loss of the margin, which is at most the equity it was taken from;
  the metrics follow by sums over the trades. Of a run that ends with a position open the
  theorem says what the report makes of it: the ending balance is the last mark, and the
  close that is booked after it never comes out above (`Unrealised`).
- `Optimizer`: `JudgedOnUnseenBars`, `WinnerIsTheFirstOfTheBest`. Every window a search
  looks at ends where its judge begins (`SearchedUpTo`), and over the folds that bound
  moves by one step a fold (`FoldsReach`). The winner is a fold over the scores that keeps
  the place of the best so far (`Keeps`).
- `MarketFeed`: `OnlySlownessIsCut`, `CachedDataAgesOut`. A call that was never slow has
  spent at most the request timeout and the largest back-off an attempt (`Allowed`), and
  `Budget` covers their sum; what is in the cache was asked one budget before it was
  stored at the earliest.
  The attempt at this proof found the model at fault: a call cut in its sleep was recorded
  as slow for the time it slept. `Cut` no longer times a sleep as an attempt.
- `Scanner`: `ScanIsWhole`. Ranks by a total order are a bijection
  (`StandingsAreOrder`), so sorting loses and repeats no row; the answers come in
  any order, but each names the place that asked (`AnswersOk`), and each place once.

Functions defined by recursion over a sequence (sums, longest runs, greatest drawdown)
are taken apart step by step: what is proved of them is what one more element adds,
by the well-foundedness of the naturals stated as a least element of a set, which needs
no operator parameter. Assumptions: `BacktestAssumption`, `SearchAssumption`,
`FeedAssumption`, `ScannerAssumption`.

Only model-checked: everything under fairness (`RecoveryFinishes`,
`CallsAreAnswered`, `WatchedPositionsAreManaged`; liveness
and ENABLED are beyond the prover). Every other property of a passing run is the
conclusion of a theorem. No module uses a RECURSIVE operator.

## Findings

Four disagreements between the code and what its own text says are violation
runs (`doubt`, `outage`, `spent`, `midnight`); `PROJECT.json` quotes both sides. Others were met
while modelling and have no run of their own; in each the model takes the code's
steps.

Orders and the testnet:

- `engines/order/engine.py:143`: `mark_risk_rejected` checks only the transition
  table, which allows SUBMITTED and RECONCILING to become REJECTED. With
  `RejectedOnlyAtGate = FALSE` the run `one` refutes `NoFabricatedOutcome`.
  `cancel_before_submission` refuses the like (lines 162-166).
- `engines/order/engine.py:265`: `apply_reconciliation` clears the fills when it adopts a
  partial total, and `apply_fill` adds to that total; the fill is then stored beside a
  total it does not account for, so `Readable` fails and no method loads the row again,
  against `adapters/persistence/orders.py:232-235`.
- `services/testnet.py:285`: with a second intent on the same symbol the leverage
  confirmed for one order can be changed at the venue before it arrives, against
  lines 299-300.
- `services/testnet.py:624`: the count of unreconciled orders is read several awaits
  before the order leaves. Two requests pass the gate together, and the second leaves
  although the first is UNKNOWN by then, against `docs/order-engine.md:144` ("While any
  order is unreconciled, no new entry is permitted").
- `services/testnet.py:718-735`: the quantity is sized again from the requested margin, the
  approved leverage and a second price, and not from what the ruling was made of.
- `services/testnet.py:536`: after a suspected reset an order that was ACCEPTED,
  PARTIALLY_FILLED or SUBMITTED keeps a state that blocks nothing, against lines 541-543
  ("continue to block new entries").

Paper trading:

- `engines/paper/engine.py:990`: the fee of an entry can spend the day's budget, and
  only a close engages the lock; the next entry is accepted, against
  `engines/risk/leverage.py:74-75`.
- `services/paper.py:341`: the response states durability before the write it
  depends on is tried, against lines 191-193.
- `services/paper.py:368`: an order for a symbol that is not listed goes straight to the
  paper engine, whose gate (`engines/paper/risk.py:80-128`) does not know of unreconciled
  orders: while one is in doubt the refusal names the lock or the market, against "no path
  around this" (lines 332-335) and the order of authority in `docs/order-engine.md:158`.
  Nothing is opened. `HaltsAreNeverMasked` says doubt of listed symbols only.
- `adapters/persistence/paper.py:117,124`: a row that cannot be read at startup, and a row of
  another schema, are taken for none. The second leaves the store healthy, so the fresh
  account claims DURABLE at once, over a row it does not hold; in both cases the next save
  replaces the row. What was kept before is then not known any more, against
  `README.md:221-223` ("survive a restart"), which makes no exception; the refusal itself is
  deliberate (lines 101-106). `DurableMeansSaved` holds because a restart would refuse the
  row again; `ReportedFillsAreKept` leaves out processes that began so (`adrift`) and fills
  that such a process has written over.
- `services/paper.py:462-471`: a request that names a quantity is ruled on with its
  notional as margin.
- `services/autonomous.py:188`: after the task has failed, arming clears the failure and
  the status says ARMED, but the task is gone and `start()` will not replace it.
- `api/v1/paper.py:318`: the emergency stop does not disarm the loop, against
  `docs/autonomous-trading.md:223`.
- `services/autonomous.py:624`: a replay of a filled id is accepted, so the loop records
  ENTERED ("A position was opened", `domain/autonomous.py:32`) on every iteration of a bar
  whose position was closed; nothing is opened (`OneEntryPerBar`).

Risk and analysis:

- `engines/risk/leverage.py:66`: the derived ceiling is floored at 1x, at which a
  stop-out may still exceed the day's budget; `RulingIsSafe` bounds the loss above 1x.
- `analysis/strategies/registry.py`: `_leverage_decision` says it "always resolves to a
  rejection"; where volatility allows 1x it is approved at 1x.
- `analysis/setup.py`, `services/paper.py`: the setup and the position intelligence read
  candles with the forming one, which the strategy drops; a setup can be ACTIONABLE
  while the strategy is neutral.
- `analysis/position/brains.py:652`: nearness to the target is the absolute distance of
  mark and entry, so a position that lost as much as the target would gain may be
  advised to TRAIL; hence TRAIL ranks with HOLD in `WorseNeverSoftens`.
- `analysis/position/brains.py`: the exit brain says "mark has passed the stop" within a
  quarter of the risk of it, on the right side.
- `analysis/position/orchestrator.py:213`: "No original entry condition still holds."
  also when one in three does; and an unavailable regime or momentum does not stop a
  HOLD.

Scanner:

- `services/scanner.py:424,502`: the reads of a scan catch `ExchangeError`. For a symbol the
  venue no longer lists the adapter raises `SymbolNotFoundError`
  (`adapters/exchange/binance/adapter.py:191`), which is none (`adapters/exchange/errors.py:77`),
  and the whole scan fails, against lines 485-487 ("one delisted-mid-scan instrument must
  not take the whole table down"). `ScanIsWhole` speaks of scans that have a page.

Backtest and optimizer:

- `analysis/backtest/engine.py`: a gap past a stop is filled at the stop, a price the bar
  never traded.
- `analysis/backtest/metrics.py:134`: `ending_balance` is the last point of the curve, where
  a position still open is marked without exit fee and slippage; the close at the end of
  the data is booked after it and counted in `net_pnl`. The equality that
  `tests/unit/test_backtest.py:351` asserts does not hold of such a run; `LedgerAddsUp` says
  by how much it fails.
- `analysis/optimize.py:464-472`: a rejected trial scores 0 and can win over a later
  qualified one that scores 0; the warning "Every candidate was rejected" is then false.
- `analysis/optimize.py:535-539`: a fold counts the trials up to the winner as evaluated,
  against `domain/optimization.py:239-241`.

## Not modelled, and the plan

What is left of the plan:

A refinement of `PaperService` to an abstract ledger of ids, in the manner of
`OrderPromise`.

Simplifications worth knowing of in what is modelled: a paper order's size is given
as margin, and is the size the risk engine approved; in `PaperService` the risk rules
other than the account's own are a refusal that may happen, `RiskDesk` has them all; a
tick takes the open positions in any order, the code in the order they were opened;
a document damaged within its own schema, which `load` refuses like one of another, is
not told apart from it; a backtest's bias and an
analysis' readings are inputs; the ratios of the metrics that take square roots,
evidence texts and confidence figures are left out.

Partly modelled, and why: SQL and column mappings of the stores, signing, clock
offset and payload parsing of the adapters, margin mode and filter arithmetic of the
testnet service decide nothing about an order's course beyond succeeding or failing,
which the actions allow at each of them. Of the public reads `get_klines` stands for
the rest, which follow its pattern. The analysis endpoints that return bare
indicators or the bare regime are read-only projections of what is modelled.

Left out for good: hashing of identities, indicator arithmetic over floats, settings
validation, API request shapes, table definitions and the frontend.
