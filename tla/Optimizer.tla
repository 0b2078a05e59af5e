----------------------------- MODULE Optimizer -----------------------------
(***************************************************************************)
(* The parameter search (analysis/optimize.py, domain/optimization.py):    *)
(* one grid search over a train, validation and test split, or one         *)
(* selection per walk-forward fold.  A backtest over a window is an input: *)
(* None, or the metrics [trades, gain, factor, drawdown, streak] it gave   *)
(* (percents, and the profit factor in hundredths or None).                *)
(*                                                                         *)
(* `looked` is history: the windows backtested so far, in order, each      *)
(* [from, to, who] with from inclusive, to exclusive.                      *)
(***************************************************************************)
EXTENDS Integers, Sequences, FiniteSets, FiniteSetsExt, SequencesExt

CONSTANTS
  Jobs,              \* what is asked: [kind, specs, bars, train, validation, step]
  Outcomes,          \* what a backtest may give
  MaxCombinations,
  MaxFolds,
  MinTrades,         \* the gate of the objective
  NoMetrics

ASSUME SearchAssumption ==
  /\ \A j \in Jobs :
       /\ j.kind \in {"OPTIMIZE", "WALK_FORWARD"} /\ j.bars \in Nat
       /\ {j.train, j.validation} \subseteq Nat \ {0}
       /\ j.kind = "WALK_FORWARD" => j.step \in Nat \ {0}
  /\ Outcomes \ {NoMetrics} \subseteq
       [trades : Nat, gain : Int, factor : Int \cup {NoMetrics}, drawdown : Int, streak : Nat]
  /\ MinTrades \in Nat

VARIABLES job, phase, trials, folds, looked, chosen, tested

searchVars == <<job, phase, trials, folds, looked, chosen, tested>>

-----------------------------------------------------------------------------
(* The grid. *)

(* ParameterSpec.values: the steps from the minimum, and the maximum.      *)
Values(spec) ==
  LET steps == [k \in 1..((spec.max - spec.min) \div spec.step + 1) |->
                  spec.min + (k - 1) * spec.step]
  IN IF Last(steps) # spec.max THEN Append(steps, spec.max) ELSE steps

(* The product of the two grids, the last one turning fastest.             *)
Grid(specs) ==
  LET fast == Values(specs[1])
      slow == Values(specs[2])
      width == Len(slow)
  IN [k \in 1..(Len(fast) * width) |->
        [fast |-> fast[(k - 1) \div width + 1], slow |-> slow[((k - 1) % width) + 1]]]

(* TrendMomentumParams refuses a fast average that is not faster.          *)
Builds(params) == params.fast < params.slow

Candidates == SelectSeq(Grid(job.specs), Builds)

-----------------------------------------------------------------------------
(* The windows. *)

(* Wrong: the validation window is counted from the start of the series.   *)
SplitFromStart(bars, train, validation) ==
  LET trainEnd == (bars * train) \div 100
      validationEnd == (bars * validation) \div 100
  IN [train |-> <<0, trainEnd>>, validation |-> <<trainEnd, trainEnd + validationEnd>>,
      test |-> <<validationEnd, bars>>]

Split(bars, train, validation) ==
  LET trainEnd == (bars * train) \div 100
      validationEnd == trainEnd + (bars * validation) \div 100
  IN [train |-> <<0, trainEnd>>, validation |-> <<trainEnd, validationEnd>>,
      test |-> <<validationEnd, bars>>]

SplitFits(split) == \A w \in {split.train, split.validation, split.test} : w[1] < w[2]

Windows(bars, train, validation, step) ==
  LET count == IF bars < train + validation THEN 0
               ELSE (bars - train - validation) \div step + 1
  IN [k \in 1..count |->
        LET start == (k - 1) * step
        IN [train |-> <<start, start + train>>,
            validation |-> <<start + train, start + train + validation>>]]

Folds == Windows(job.bars, job.train, job.validation, job.step)
Parts3 == Split(job.bars, job.train, job.validation)

-----------------------------------------------------------------------------
(* The objective. *)

Clamped(percent) == Max({0, Min({100, percent})})

(* score_objective: too few trades are worth nothing.                      *)
Score(m) ==
  IF m = NoMetrics THEN [value |-> 0, rejected |-> "NO_METRICS"]
  ELSE IF m.trades < MinTrades THEN [value |-> 0, rejected |-> "TOO_FEW_TRADES"]
  ELSE [value |-> 35 * Clamped((m.gain * 100) \div 30)
                  + 25 * (IF m.factor = NoMetrics THEN 100 ELSE Clamped(m.factor - 100))
                  + 25 * Clamped(100 - m.drawdown * 4)
                  + 15 * Clamped(100 - m.streak * 10),
        rejected |-> "NO"]

(* Wrong: a later candidate that merely equals the best takes its place.   *)
BestFoundLate(scores) ==
  LET best[k \in 0..Len(scores)] ==
        IF k = 0 THEN 0
        ELSE IF best[k - 1] = 0 \/ scores[k].value >= scores[best[k - 1]].value
          THEN k ELSE best[k - 1]
  IN best[Len(scores)]

(* The place of the candidate the loop keeps, 0 when there is none.        *)
BestFound(scores) ==
  LET best[k \in 0..Len(scores)] ==
        IF k = 0 THEN 0
        ELSE IF best[k - 1] = 0 \/ scores[k].value > scores[best[k - 1]].value
          THEN k ELSE best[k - 1]
  IN best[Len(scores)]

-----------------------------------------------------------------------------
OptimizerInit ==
  /\ job \in Jobs
  /\ phase = "ASKED"
  /\ trials = <<>> /\ folds = <<>> /\ looked = <<>> /\ chosen = 0
  /\ tested = [value |-> 0, rejected |-> "NONE"]

(* Too large a grid, too many folds or an empty window is refused, never   *)
(* cut down.                                                               *)
Begin ==
  /\ phase = "ASKED"
  /\ phase' = IF \/ Len(Grid(job.specs)) > MaxCombinations
                 \/ job.kind = "OPTIMIZE"
                      /\ (job.train + job.validation >= 100 \/ ~SplitFits(Parts3))
                 \/ job.kind = "WALK_FORWARD" /\ Len(Folds) > MaxFolds
              THEN "REFUSED" ELSE "SEARCHING"
  /\ UNCHANGED <<job, trials, folds, looked, chosen, tested>>

Look(window, who) == [from |-> window[1], to |-> window[2], who |-> who]

(* One candidate of the grid search, on both windows. *)
Try(onTrain, onValidation) ==
  /\ phase = "SEARCHING" /\ job.kind = "OPTIMIZE" /\ Len(trials) < Len(Candidates)
  /\ trials' = Append(trials, [params |-> Candidates[Len(trials) + 1],
                               train |-> Score(onTrain), validation |-> Score(onValidation)])
  /\ looked' = Append(Append(looked, Look(Parts3.train, "SEARCH")),
                      Look(Parts3.validation, "SEARCH"))
  /\ UNCHANGED <<job, phase, folds, chosen, tested>>

(* The winner on the validation window is looked at once on the test one.  *)
Choose(onTest) ==
  LET winner == BestFound([k \in DOMAIN trials |-> trials[k].validation])
  IN /\ phase = "SEARCHING" /\ job.kind = "OPTIMIZE" /\ Len(trials) = Len(Candidates)
     /\ chosen' = winner
     /\ phase' = "DONE"
     /\ IF winner = 0 THEN UNCHANGED <<looked, tested>>
        ELSE /\ looked' = Append(looked, Look(Parts3.test, "JUDGE"))
             /\ tested' = Score(onTest)
     /\ UNCHANGED <<job, trials, folds>>

(* One candidate of a fold, on its training window only. *)
TryInFold(onTrain) ==
  /\ phase = "SEARCHING" /\ job.kind = "WALK_FORWARD"
  /\ Len(folds) < Len(Folds) /\ Len(trials) < Len(Candidates)
  /\ trials' = Append(trials, [params |-> Candidates[Len(trials) + 1], train |-> Score(onTrain)])
  /\ looked' = Append(looked, Look(Folds[Len(folds) + 1].train, "SEARCH"))
  /\ UNCHANGED <<job, phase, folds, chosen, tested>>

(* The fold's winner is scored on the window that follows.  evaluated is   *)
(* the count kept when the winner was found, not how many were tried.      *)
CloseFold(onValidation) ==
  LET window == Folds[Len(folds) + 1]
      winner == BestFound([k \in DOMAIN trials |-> trials[k].train])
  IN /\ phase = "SEARCHING" /\ job.kind = "WALK_FORWARD"
     /\ Len(folds) < Len(Folds) /\ Len(trials) = Len(Candidates) /\ trials # <<>>
     /\ folds' = Append(folds, [selected |-> trials[winner].params,
                                train |-> trials[winner].train,
                                validation |-> Score(onValidation),
                                evaluated |-> winner, among |-> trials])
     /\ looked' = Append(looked, Look(window.validation, "JUDGE"))
     /\ trials' = <<>>
     /\ UNCHANGED <<job, phase, chosen, tested>>

(* The report: the parameters most folds selected, the smallest first.     *)
Tally(params) == Cardinality({k \in DOMAIN folds : folds[k].selected = params})
Precedes(a, b) == a.fast < b.fast \/ (a.fast = b.fast /\ a.slow <= b.slow)
MostSelected ==
  LET all == {folds[k].selected : k \in DOMAIN folds}
      most == {p \in all : \A q \in all : Tally(q) <= Tally(p)}
  IN CHOOSE p \in most : \A q \in most : Precedes(p, q)

Report ==
  /\ phase = "SEARCHING" /\ job.kind = "WALK_FORWARD"
  /\ Len(folds) = Len(Folds) \/ Candidates = <<>>
  /\ phase' = "DONE"
  /\ chosen' = IF folds = <<>> THEN 0 ELSE Tally(MostSelected)
  /\ UNCHANGED <<job, trials, folds, looked, tested>>

OptimizerNext ==
  \/ Begin
  \/ \E m, n \in Outcomes : Try(m, n)
  \/ \E m \in Outcomes : Choose(m)
  \/ \E m \in Outcomes : TryInFold(m)
  \/ \E m \in Outcomes : CloseFold(m)
  \/ Report

OptimizerSpec == OptimizerInit /\ [][OptimizerNext]_searchVars

-----------------------------------------------------------------------------
(* Properties. *)

Leads(k, scores) ==
  /\ \A j \in DOMAIN scores : scores[j].value <= scores[k].value
  /\ \A j \in 1..(k - 1) : scores[j].value < scores[k].value

(* The report names the winner its own figures give, and the same one on   *)
(* every run: the first of the best on the window the search chooses by,   *)
(* never one whose too few trades hide behind a better one (optimize.py:   *)
(* 455-462, 523-539).                                                      *)
WinnerIsTheFirstOfTheBest ==
  /\ job.kind = "OPTIMIZE" /\ phase = "DONE" /\ trials # <<>> =>
       /\ chosen \in DOMAIN trials
       /\ Leads(chosen, [k \in DOMAIN trials |-> trials[k].validation])
       /\ trials[chosen].validation.value > 0 => trials[chosen].validation.rejected = "NO"
  /\ \A f \in ToSet(folds) :
       LET scores == [k \in DOMAIN f.among |-> f.among[k].train]
       IN \E k \in DOMAIN scores : Leads(k, scores) /\ f.among[k].params = f.selected

(* What judges a choice is bars no choice was made on, and later ones: the *)
(* test window is looked at once and last, and a fold is judged after      *)
(* every bar it and the folds before it chose on (optimize.py:157-233,     *)
(* domain/optimization.py:73-148).                                         *)
JudgedOnUnseenBars ==
  /\ \A k \in DOMAIN looked : looked[k].who = "JUDGE" =>
       \A j \in 1..(k - 1) : looked[j].who = "SEARCH" => looked[j].to <= looked[k].from
  /\ \A k \in DOMAIN looked : 0 <= looked[k].from /\ looked[k].from < looked[k].to
                              /\ looked[k].to <= job.bars
  /\ job.kind = "OPTIMIZE" =>
       \A k \in DOMAIN looked : looked[k].who = "JUDGE" => k = Len(looked)

=============================================================================
