----------------------------- MODULE OrderRecord -----------------------------
(***************************************************************************)
(* One durable order record and what each method of OrderLifecycleEngine   *)
(* (engines/order/engine.py, reconcile.py) makes of it, as functions of    *)
(* the record.  Every method holds the row lock from its read to its       *)
(* write, so each of these is one atomic step of the modules that use it.  *)
(*                                                                         *)
(* Kept of the row: the lifecycle state, whether the submission stamp is   *)
(* set, the filled total, the stored fill rows (their ids and their sum),  *)
(* whether a discrepancy was ever written, whether an operator settled it. *)
(* Left out: timestamps, prices, averages, the wording of details, and the *)
(* reconciliation_attempts counter, none of which any guard reads.         *)
(***************************************************************************)
EXTENDS OrderMachine, Integers

CONSTANTS
  Quantity,   \* the quantity ordered, in lots
  FillIds     \* identities of the executions a venue may report

ASSUME QuantityAssumption == Quantity \in Nat \ {0}

(* The row exists or it does not; NoOrder has the shape of a row. *)
NoOrder ==
  [state |-> "NONE", reached |-> FALSE, filled |-> 0, fillRows |-> {},
   rowsTotal |-> 0, disputed |-> FALSE, operator |-> FALSE]

(* engine._build: identity comes from the intent, the rest is blank. *)
NewOrder == [NoOrder EXCEPT !.state = "CREATED"]

OrderRows ==
  [state : OrderState \cup {"NONE"}, reached : BOOLEAN, filled : 0..Quantity,
   fillRows : SUBSET FillIds, rowsTotal : 0..Quantity, disputed : BOOLEAN,
   operator : BOOLEAN]

Exists(r) == r.state # "NONE"
IsTerminal(r) == r.state \in TerminalStates
IsOpen(r) == Exists(r) /\ ~IsTerminal(r)
IsUnreconciled(r) == r.state \in UnreconciledStates

(* recover's distinction: sent, and not yet known to be in doubt. *)
InFlight(r) == r.reached /\ ~IsUnreconciled(r)

(* The validator of OrderRecord, which runs on every load: a row whose     *)
(* fills do not add up to its total raises instead of loading.             *)
Readable(r) == r.fillRows = {} \/ r.rowsTotal = r.filled

(* What reconciliation_pending counts against a new entry. *)
Blocks(r) == IsOpen(r) /\ (~Readable(r) \/ IsUnreconciled(r))

(***************************************************************************)
(* The mutators.                                                           *)
(***************************************************************************)
Moved(r, to) == [r EXCEPT !.state = to]

WithDiscrepancy(r) == [r EXCEPT !.disputed = TRUE]

(* mark_submitting stamps the record before the call leaves. *)
Submitting(r) == [r EXCEPT !.state = "SUBMITTED", !.reached = TRUE]

FillTarget(r, q) ==
  IF r.filled + q = Quantity THEN "FILLED" ELSE "PARTIALLY_FILLED"

(* A mutant: the total is replaced by the fill instead of moved by it. *)
WithFillReplaced(r, f, q) ==
  [r EXCEPT !.state = FillTarget(r, q), !.filled = q,
            !.fillRows = @ \cup {f}, !.rowsTotal = q]

(* apply_fill, written through _write_children: the total moves by the     *)
(* fill, but a fill id already stored adds no row.                         *)
WithFill(r, f, q) ==
  [r EXCEPT !.state = FillTarget(r, q),
            !.filled = @ + q,
            !.fillRows = @ \cup {f},
            !.rowsTotal = IF f \in r.fillRows THEN @ ELSE @ + q]

Overfills(r, q) == r.filled + q > Quantity

(***************************************************************************)
(* Reconciliation.  An answer is a VenueOrderView, the venue's "no such    *)
(* order", or no answer at all; a decision is what apply_reconciliation    *)
(* is handed.                                                              *)
(***************************************************************************)
Absent == [state |-> "ABSENT", filled |-> 0]
Unreachable == [state |-> "UNREACHABLE", filled |-> 0]

Decision(action, target, filled) ==
  [action |-> action, target |-> target, filled |-> filled]

(* Why a venue's answer may not be applied. *)
Disagrees(r, view) ==
  \/ IsTerminal(r) /\ view.state # r.state
  \/ view.filled < r.filled
  \/ view.filled > Quantity
  \/ ~Resolvable(view.state)

(* Mutants: absence taken as proof of an order that was sent; the venue's  *)
(* total applied without a look at our own.                                *)
DecideAbsenceIsProof(r, view) ==
  CASE view = Unreachable -> Decision("VENUE_UNREACHABLE", r.state, r.filled)
    [] view = Absent      -> Decision("RESOLVE_NEVER_SUBMITTED", "CANCELLED", r.filled)
    [] OTHER ->
         IF Disagrees(r, view)
           THEN Decision("RECORD_DISCREPANCY", r.state, r.filled)
           ELSE Decision("ADOPT_VENUE_STATE", view.state, view.filled)

DecideTrustingTotals(r, view) ==
  CASE view = Unreachable -> Decision("VENUE_UNREACHABLE", r.state, r.filled)
    [] view = Absent      -> Decision("REMAIN_UNKNOWN", "UNKNOWN", r.filled)
    [] OTHER -> Decision("ADOPT_VENUE_STATE", view.state, view.filled)

Decide(r, view) ==
  CASE view = Unreachable -> Decision("VENUE_UNREACHABLE", r.state, r.filled)
    [] view = Absent ->
         IF r.reached
           THEN Decision("REMAIN_UNKNOWN", "UNKNOWN", r.filled)
           ELSE Decision("RESOLVE_NEVER_SUBMITTED", "CANCELLED", r.filled)
    [] OTHER ->
         IF Disagrees(r, view)
           THEN Decision("RECORD_DISCREPANCY", r.state, r.filled)
           ELSE Decision("ADOPT_VENUE_STATE", view.state, view.filled)

(* A decision that keeps the state writes only its detail: a change of     *)
(* state is checked against the table and raises when it is not there.     *)
KeepsState(r, d) ==
  d.action \in {"RECORD_DISCREPANCY", "VENUE_UNREACHABLE"} \/ d.target = r.state

CanApply(r, d) == KeepsState(r, d) \/ CanTransition(r.state, d.target)

(* Adopting a venue total drops the per-fill rows it supersedes. *)
Adopted(r, d) ==
  [r EXCEPT !.state = d.target, !.filled = d.filled, !.fillRows = {}, !.rowsTotal = 0]

AfterDecision(r, d) ==
  CASE d.action = "RECORD_DISCREPANCY" -> WithDiscrepancy(r)
    [] d.action # "RECORD_DISCREPANCY" /\ KeepsState(r, d) -> r
    [] OTHER -> IF d.action = "ADOPT_VENUE_STATE"
                  THEN Adopted(r, d) ELSE Moved(r, d.target)

(* resolve_manually: UNKNOWN is moved to RECONCILING first, inside the     *)
(* same transaction, so the table is asked about RECONCILING either way.   *)
CanResolve(r, to) == IsUnreconciled(r) /\ Resolvable(to)
ResolvedBy(r, to) == [r EXCEPT !.state = to, !.operator = TRUE]
=============================================================================
