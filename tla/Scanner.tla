------------------------------ MODULE Scanner ------------------------------
(***************************************************************************)
(* A scan (services/scanner.py): the ticker rows of the universe, the pool *)
(* whose candles are fetched under a semaphore, and the ranked page.       *)
(*                                                                         *)
(* A symbol's ticker is [status, volume], its status "MISSING", "OLD" or   *)
(* "FRESH"; a candle read ends as [status, metric], in "ERROR",            *)
(* "NO_VALUE", "SHORT" or "OK" with the statistic it gave (the setup's     *)
(* score where the query ranks by setups), or in "DELISTED" when the venue *)
(* no longer lists the symbol.  A row is [symbol, volume, state, metric],  *)
(* metric being the statistic or NoFigure.  A query is [sort, descending,  *)
(* include, setups, leastVolume, least, page]: sort is "VOLUME" or the     *)
(* pool's "METRIC" or "SETUP", include and setups ask for metrics and      *)
(* setups beside it, least is a filter on the statistic or NoFigure.       *)
(***************************************************************************)
EXTENDS Integers, Sequences, FiniteSets, FiniteSetsExt, SequencesExt

CONSTANTS
  Universe,            \* the symbols, as numbers in the order of their names
  Tickers,             \* what a symbol's ticker may be
  CandleReads,         \* how a candle read may end
  Queries,
  CandidatePoolSize, SetupPoolSize, MaxMetricSymbols, MetricConcurrency, PageSize,
  NoFigure

ASSUME ScannerAssumption ==
  /\ Universe \subseteq Nat /\ IsFiniteSet(Universe)
  /\ Tickers \subseteq [status : {"MISSING", "OLD", "FRESH"}, volume : Int]
  /\ CandleReads \subseteq [status : {"ERROR", "NO_VALUE", "SHORT", "OK", "DELISTED"}, metric : Int]
  /\ \A q \in Queries : /\ q.sort \in {"VOLUME", "METRIC", "SETUP"} /\ q.descending \in BOOLEAN
                        /\ q.setups \in BOOLEAN /\ q.page \in Nat \ {0}
  /\ NoFigure \notin Int
  /\ {CandidatePoolSize, SetupPoolSize, MaxMetricSymbols, MetricConcurrency, PageSize}
       \subseteq Nat \ {0}

VARIABLES
  query, scan,
  rows,                \* the rows of the page, or of the pool
  fetching,            \* the places in rows whose candles are being fetched
  answers              \* the reads that ended, in that order: [place, symbol, read]

scannerVars == <<query, scan, rows, fetching, answers>>

-----------------------------------------------------------------------------
NeedsSetups(q) == q.sort = "SETUP" \/ q.setups
NeedsPool(q) == NeedsSetups(q) \/ q.sort = "METRIC" \/ q.least # NoFigure

Pool(q) == Min({MaxMetricSymbols, IF NeedsSetups(q) THEN SetupPoolSize ELSE CandidatePoolSize})

FirstOf(seq, n) == SubSeq(seq, 1, Min({n, Len(seq)}))

(* _build_row: a row without a fresh ticker keeps its place and no figure. *)
BuiltRow(symbol, ticker) ==
  [symbol |-> symbol, volume |-> IF ticker.status = "FRESH" THEN ticker.volume ELSE NoFigure,
   state |-> "NOT_REQUESTED", metric |-> NoFigure]

PassesTicker(r, q) == q.leastVolume = NoFigure \/ (r.volume # NoFigure /\ r.volume >= q.leastVolume)
PassesMetric(r, q) == q.least = NoFigure \/ (r.metric # NoFigure /\ r.metric >= q.least)

Figure(r, field) == IF field = "VOLUME" THEN r.volume ELSE r.metric

(* _sort: by value, ties by name, and the rows without a value last        *)
(* whichever way the order runs.                                           *)
Above(a, b, field, descending) ==
  LET x == Figure(a, field)
      y == Figure(b, field)
  IN \/ x = y /\ a.symbol < b.symbol
     \/ x # NoFigure /\ y = NoFigure
     \/ NoFigure \notin {x, y} /\ (IF descending THEN x > y ELSE x < y)

Standing(r, all, field, descending) ==
  Cardinality({s \in all : Above(s, r, field, descending)}) + 1

Sorted(all, field, descending) ==
  [k \in 1..Cardinality(all) |-> CHOOSE r \in all : Standing(r, all, field, descending) = k]

Paginated(all, page) ==
  SubSeq(all, (page - 1) * PageSize + 1, Min({page * PageSize, Len(all)}))

(* What a row becomes of the read of its candles; what is not an           *)
(* ExchangeError (DELISTED) leaves no page to hold the row.                *)
Enriched(r, read) ==
  CASE read.status \in {"ERROR", "NO_VALUE"} -> [r EXCEPT !.state = "UNAVAILABLE"]
    [] read.status = "SHORT" -> [r EXCEPT !.state = "INSUFFICIENT_DATA"]
    [] OTHER -> [r EXCEPT !.state = "CALCULATED", !.metric = read.metric]

(* Wrong: the results are taken in the order they came in. *)
GatheredAsTheyCame(all, ended) ==
  [k \in DOMAIN all |-> IF k \in DOMAIN ended THEN Enriched(all[k], ended[k].read) ELSE all[k]]

(* asyncio.gather: each result goes to the row that asked for it.          *)
Gathered(all, ended) ==
  [k \in DOMAIN all |->
     LET own == {a \in ToSet(ended) : a.place = k}
     IN IF own = {} THEN all[k] ELSE Enriched(all[k], (CHOOSE a \in own : TRUE).read)]

-----------------------------------------------------------------------------
ScannerInit ==
  /\ query \in Queries
  /\ scan = "ASKED" /\ rows = <<>> /\ fetching = {} /\ answers = <<>>

(* get_symbols or get_all_tickers raises. *)
UniverseFails ==
  /\ scan = "ASKED" /\ scan' = "FAILED"
  /\ UNCHANGED <<query, rows, fetching, answers>>

(* The rows of the universe, filtered and cut to the pool or the page.     *)
BuildRows(tickers) ==
  LET passing == {r \in {BuiltRow(s, tickers[s]) : s \in Universe} : PassesTicker(r, query)}
  IN /\ scan = "ASKED"
     /\ rows' = IF NeedsPool(query)
                  THEN FirstOf(Sorted(passing, "VOLUME", TRUE), Pool(query))
                  ELSE Paginated(Sorted(passing, "VOLUME", query.descending), query.page)
     /\ scan' = IF NeedsPool(query) \/ query.include THEN "FETCHING" ELSE "DONE"
     /\ UNCHANGED <<query, fetching, answers>>

Requests == 1..Min({MaxMetricSymbols, Len(rows)})
Ended == {a.place : a \in ToSet(answers)}

(* The semaphore wakes its waiters in order, also after the scan has       *)
(* failed: gather does not cancel the others.                              *)
Fetch ==
  LET waiting == Requests \ (fetching \cup Ended)
  IN /\ scan \in {"FETCHING", "FAILED"} /\ waiting # {} /\ Cardinality(fetching) < MetricConcurrency
     /\ fetching' = fetching \cup {Min(waiting)}
     /\ UNCHANGED <<query, scan, rows, answers>>

(* An ExchangeError is caught and costs the row its figures;               *)
(* SymbolNotFoundError is not one, and goes through gather to the caller.  *)
FetchEnds(k, read) ==
  /\ k \in fetching
  /\ fetching' = fetching \ {k}
  /\ answers' = Append(answers, [place |-> k, symbol |-> rows[k].symbol, read |-> read])
  /\ scan' = IF read.status = "DELISTED" THEN "FAILED" ELSE scan
  /\ UNCHANGED <<query, rows>>

(* The pool is filtered and ranked by what was asked, then cut to the page.*)
Publish ==
  /\ scan = "FETCHING" /\ Requests = Ended
  /\ LET enriched == Gathered(rows, answers)
         kept == {r \in ToSet(enriched) : PassesMetric(r, query)}
     IN rows' = IF NeedsPool(query)
                  THEN Paginated(Sorted(kept, query.sort, query.descending), query.page)
                  ELSE enriched
  /\ scan' = "DONE"
  /\ UNCHANGED <<query, fetching, answers>>

ScannerNext ==
  \/ UniverseFails
  \/ \E tickers \in [Universe -> Tickers] : BuildRows(tickers)
  \/ Fetch
  \/ \E k \in fetching, read \in CandleReads : FetchEnds(k, read)
  \/ Publish

ScannerSpec == ScannerInit /\ [][ScannerNext]_scannerVars

-----------------------------------------------------------------------------
(* Properties. *)

ReadOf(r) == {a.read : a \in {b \in ToSet(answers) : b.symbol = r.symbol}}

RowIsTrue(r) ==
  /\ r.metric # NoFigure => ReadOf(r) = {[status |-> "OK", metric |-> r.metric]}
  /\ \A read \in ReadOf(r) : read.status \in {"ERROR", "NO_VALUE"} => r.state = "UNAVAILABLE"
  /\ ReadOf(r) = {} <=> r.state = "NOT_REQUESTED"

InOrder(a, b) ==
  /\ a.symbol # b.symbol
  /\ Figure(a, query.sort) = NoFigure => Figure(b, query.sort) = NoFigure

(* A finished page says of each row what that symbol's own read gave, a    *)
(* read that failed with an ExchangeError costs its row nothing but the    *)
(* statistic, no symbol is listed or asked for twice, a scan asks for a    *)
(* bounded number of candles, and a row without the ranked figure never    *)
(* stands above one with it (scanner.py:176-237, 362-594).  A scan that    *)
(* failed has no page; one delisted symbol is enough for that (502).       *)
ScanIsWhole ==
  /\ Len(answers) + Cardinality(fetching) <= MaxMetricSymbols
  /\ \A j, k \in DOMAIN answers : answers[j].symbol = answers[k].symbol => j = k
  /\ scan = "DONE" =>
       /\ \A k \in DOMAIN rows : RowIsTrue(rows[k])
       /\ \A j, k \in DOMAIN rows : j < k => InOrder(rows[j], rows[k])
       /\ NeedsPool(query) /\ query.least = NoFigure =>
            Len(rows) = Max({0, Min({PageSize, Len(answers) - (query.page - 1) * PageSize})})

=============================================================================
