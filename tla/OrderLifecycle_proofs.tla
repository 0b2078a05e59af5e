----------------------- MODULE OrderLifecycle_proofs -----------------------
(***************************************************************************)
(* Proofs about OrderLifecycle for any orders, quantity and number of      *)
(* crashes.  The argument is one lemma, EveryStep: whatever the call, the  *)
(* answer or the crash, one step takes each row to a row that RowStep      *)
(* allows.  Invariants and action properties are read off RowStep.         *)
(***************************************************************************)
EXTENDS OrderLifecycle, TLAPS

(* A row whose parts agree: the strengthening that makes types inductive.  *)
Sound(r) ==
  /\ r \in OrderRows
  /\ r.rowsTotal <= r.filled
  /\ r.reached => r.state \notin DraftStates \cup {"NONE"}
  /\ r.state \in WorkingStates \cup UnreconciledStates => r.reached
  /\ r.state = "NONE" => r.filled = 0

(* Why a settled order is settled, given the venue's last word on it. *)
Justified(r, word) ==
  r.reached /\ IsTerminal(r) => r.operator \/ word = r.state

Final(r, r2) ==
  IsTerminal(r) =>
    r2.state = r.state /\ r2.filled = r.filled /\ r2.operator = r.operator

AskedFirst(r, r2) ==
  r.state = "UNKNOWN" /\ r2.state # "UNKNOWN" =>
    r2.state = "RECONCILING" \/ r2.operator

Forward(r, r2) == r2.filled >= r.filled /\ (r.reached => r2.reached)

(* How the row's phase and total may move together, as OrderPromise has it. *)
PhaseMove(r, r2) ==
  LET pair == <<PhaseOf(r), PhaseOf(r2)>> IN
  \/ PhaseOf(r2) = PhaseOf(r) /\ r2.filled = r.filled
  \/ /\ pair \in {<<"none", "draft">>, <<"draft", "settled">>,
                  <<"draft", "working">>, <<"working", "doubtful">>}
     /\ r2.filled = r.filled
  \/ /\ pair \in {"working", "doubtful"} \X {"working", "settled"}
     /\ r2.filled \in r.filled..Quantity

RowStep(r, word, r2, word2) ==
  /\ Sound(r2) /\ word2 \in Words
  /\ Final(r, r2) /\ AskedFirst(r, r2) /\ Forward(r, r2)
  /\ PhaseMove(r, r2)
  /\ RejectedOnlyAtGate /\ Justified(r, word) => Justified(r2, word2)

(* What a step relies on about the rows, and what it does to all of them. *)
RowsSound ==
  /\ order \in [Orders -> OrderRows] /\ heard \in [Orders -> Words]
  /\ \A o \in Orders : Sound(order[o])

RowsStep ==
  /\ order' \in [Orders -> OrderRows] /\ heard' \in [Orders -> Words]
  /\ \A o \in Orders : RowStep(order[o], heard[o], order'[o], heard'[o])
  /\ \A o, p \in Orders :
       order'[o] # order[o] /\ order'[p] # order[p] => o = p

(* The inductive invariant. *)
IInv ==
  /\ TypeOK
  /\ \A o \in Orders : Sound(order[o])
  /\ RejectedOnlyAtGate => \A o \in Orders : Justified(order[o], heard[o])

USE QuantityAssumption, MaxCrashesAssumption, CallersAssumption

-----------------------------------------------------------------------------
(* The transition table, as the proofs use it: what can precede and follow *)
(* which kind of state.                                                    *)
LEMMA TableFacts ==
  ASSUME NEW s \in OrderState, NEW t, CanTransition(s, t)
  PROVE  /\ t \in OrderState \ {"CREATED"}
         /\ s \notin TerminalStates
         /\ s = "UNKNOWN" => t = "RECONCILING"
         /\ t = "VALIDATING" => s = "CREATED"
         /\ t = "SUBMITTED" => s = "VALIDATING"
         /\ t = "RECONCILING" => s = "UNKNOWN"
         /\ t \in (WorkingStates \ {"SUBMITTED"}) \cup UnreconciledStates
              => s \in WorkingStates \cup UnreconciledStates
  BY DEF CanTransition, LegalTransitions, OrderState, DraftStates,
         WorkingStates, UnreconciledStates, TerminalStates

(* The phases, state by state, and the moves between them. *)
LEMMA PhaseFacts ==
  ASSUME NEW r
  PROVE  /\ r.state = "NONE" => PhaseOf(r) = "none"
         /\ r.state \in DraftStates => PhaseOf(r) = "draft"
         /\ r.state \in WorkingStates => PhaseOf(r) = "working"
         /\ r.state \in UnreconciledStates => PhaseOf(r) = "doubtful"
         /\ r.state \in TerminalStates => PhaseOf(r) = "settled"
  BY DEF PhaseOf, DraftStates, WorkingStates, UnreconciledStates, TerminalStates

LEMMA PhaseMoveFacts ==
  ASSUME NEW r, NEW r2, CanTransition(r.state, r2.state), r2.filled = r.filled,
         r.filled \in 0..Quantity
  PROVE  PhaseMove(r, r2)
  <1>1. \/ r.state \in DraftStates /\ r2.state \in DraftStates \cup TerminalStates \cup {"SUBMITTED"}
        \/ r.state \in WorkingStates /\ r2.state \in WorkingStates \cup TerminalStates \cup {"UNKNOWN"}
        \/ r.state \in UnreconciledStates
              /\ r2.state \in WorkingStates \cup UnreconciledStates \cup TerminalStates
    BY DEF CanTransition, LegalTransitions, DraftStates, WorkingStates,
       UnreconciledStates, TerminalStates
  <1>2. "SUBMITTED" \in WorkingStates /\ "UNKNOWN" \in UnreconciledStates
    BY DEF WorkingStates, UnreconciledStates
  <1>3. r.filled \in r.filled..Quantity
    OBVIOUS
  <1> QED
    BY <1>1, <1>2, <1>3, PhaseFacts DEF PhaseMove

(* Reconciliation concludes neither a draft nor a submission. *)
LEMMA ResolvableFacts ==
  ASSUME NEW t, Resolvable(t)
  PROVE  t \in {"ACCEPTED", "PARTIALLY_FILLED", "UNKNOWN"} \cup TerminalStates
  BY DEF Resolvable, CanTransition, LegalTransitions, OrderState, DraftStates,
         WorkingStates, UnreconciledStates, TerminalStates

-----------------------------------------------------------------------------
(* Each way a row is rewritten, one lemma apiece. *)

(* A row left alone, or marked disputed, is a legal step; a settled row's  *)
(* last word is not rewritten.                                             *)
LEMMA StillStep ==
  ASSUME NEW r, Sound(r), NEW w \in Words, NEW w2 \in Words, IsTerminal(r) => w2 = w
  PROVE  RowStep(r, w, r, w2) /\ RowStep(r, w, WithDiscrepancy(r), w2)
  <1> DEFINE d == WithDiscrepancy(r)
  <1>1. /\ d \in OrderRows
        /\ d.state = r.state /\ d.filled = r.filled /\ d.rowsTotal = r.rowsTotal
        /\ d.reached = r.reached /\ d.operator = r.operator
    BY DEF WithDiscrepancy, Sound, OrderRows
  <1>2. Sound(d)
    BY <1>1 DEF Sound
  <1>3. r.filled \in Int
    BY DEF Sound, OrderRows
  <1>4. Final(r, r) /\ Final(r, d)
    BY <1>1 DEF Final
  <1>5. AskedFirst(r, r) /\ AskedFirst(r, d)
    BY <1>1 DEF AskedFirst
  <1>6. Forward(r, r) /\ Forward(r, d)
    BY <1>1, <1>3 DEF Forward
  <1>7. Justified(r, w) => Justified(r, w2) /\ Justified(d, w2)
    BY <1>1 DEF Justified, IsTerminal
  <1>8. PhaseMove(r, r) /\ PhaseMove(r, d)
    <2>1. PhaseOf(d) = PhaseOf(r)
      BY <1>1 DEF PhaseOf
    <2> QED
      BY <1>1, <2>1 DEF PhaseMove
  <1> QED
    BY <1>2, <1>4, <1>5, <1>6, <1>7, <1>8 DEF RowStep

(* A row not yet settled may be rewritten to any sound row that moves      *)
(* forward, leaves UNKNOWN only by its exit, and is settled with a reason. *)
LEMMA OpenStep ==
  ASSUME NEW r, ~IsTerminal(r), NEW r2, Sound(r2), NEW w, NEW w2 \in Words,
         Forward(r, r2), AskedFirst(r, r2), PhaseMove(r, r2),
         RejectedOnlyAtGate => Justified(r2, w2)
  PROVE  RowStep(r, w, r2, w2)
  BY DEF RowStep, Final

(* A move along the table, other than submission, needs the venue's word   *)
(* only when it settles an order that was sent.                            *)
LEMMA MovedStep ==
  ASSUME NEW r, Sound(r), Exists(r), NEW w \in Words, NEW w2 \in Words,
         NEW t, CanTransition(r.state, t), t # "SUBMITTED",
         RejectedOnlyAtGate /\ r.reached /\ t \in TerminalStates => w2 = t
  PROVE  RowStep(r, w, Moved(r, t), w2)
  <1> DEFINE m == Moved(r, t)
  <1>1. r.state \in OrderState
    BY DEF Sound, OrderRows, Exists
  <1>2. /\ t \in OrderState \ {"CREATED"}
        /\ r.state \notin TerminalStates
        /\ r.state = "UNKNOWN" => t = "RECONCILING"
        /\ t = "VALIDATING" => r.state = "CREATED"
        /\ t \in (WorkingStates \ {"SUBMITTED"}) \cup UnreconciledStates
              => r.state \in WorkingStates \cup UnreconciledStates
    BY <1>1, TableFacts
  <1>3. /\ m \in OrderRows
        /\ m.state = t /\ m.filled = r.filled /\ m.rowsTotal = r.rowsTotal
        /\ m.reached = r.reached
    BY <1>2 DEF Moved, Sound, OrderRows
  <1>4. t # "NONE" /\ (r.reached => t \notin DraftStates)
    BY <1>2 DEF Sound, DraftStates, OrderState, WorkingStates, UnreconciledStates,
       TerminalStates
  <1>5. t \in WorkingStates \cup UnreconciledStates => r.reached
    BY <1>2 DEF Sound
  <1>6. Sound(m)
    BY <1>3, <1>4, <1>5 DEF Sound
  <1>7. r.filled \in Int
    BY DEF Sound, OrderRows
  <1>8. Forward(r, m) /\ AskedFirst(r, m)
    BY <1>2, <1>3, <1>7 DEF Forward, AskedFirst
  <1>9. RejectedOnlyAtGate => Justified(m, w2)
    BY <1>3 DEF Justified, IsTerminal
  <1>10. PhaseMove(r, m)
    BY <1>3, PhaseMoveFacts DEF Sound, OrderRows
  <1> QED
    BY <1>2, <1>6, <1>8, <1>9, <1>10, OpenStep DEF IsTerminal

(* The submission stamp is set in the step that submits. *)
LEMMA SubmittingStep ==
  ASSUME NEW r, Sound(r), Exists(r), NEW w \in Words, CanTransition(r.state, "SUBMITTED")
  PROVE  RowStep(r, w, Submitting(r), w)
  <1> DEFINE m == Submitting(r)
  <1>1. r.state = "VALIDATING"
    BY TableFacts DEF Sound, OrderRows, Exists
  <1>2. /\ m \in OrderRows
        /\ m.state = "SUBMITTED" /\ m.filled = r.filled /\ m.rowsTotal = r.rowsTotal
        /\ m.reached
    BY DEF Submitting, Sound, OrderRows, OrderState, WorkingStates
  <1>3. Sound(m)
    BY <1>2 DEF Sound, DraftStates
  <1>4. r.filled \in Int
    BY DEF Sound, OrderRows
  <1>5. Forward(r, m) /\ AskedFirst(r, m)
    BY <1>1, <1>2, <1>4 DEF Forward, AskedFirst
  <1>6. ~IsTerminal(r) /\ ~IsTerminal(m)
    BY <1>1, <1>2 DEF IsTerminal, TerminalStates
  <1>7. PhaseMove(r, m)
    BY <1>2, PhaseMoveFacts DEF Sound, OrderRows
  <1> QED
    BY <1>3, <1>5, <1>6, <1>7, OpenStep DEF Justified

(* A fill that does not pass the quantity moves the total and the rows. *)
LEMMA FillStep ==
  ASSUME NEW r, Sound(r), Exists(r), r.reached, NEW w \in Words,
         NEW f \in FillIds, NEW q \in 1..Quantity, ~Overfills(r, q),
         CanTransition(r.state, FillTarget(r, q))
  PROVE  RowStep(r, w, WithFill(r, f, q), FillTarget(r, q))
  <1> DEFINE t == FillTarget(r, q)  m == WithFill(r, f, q)
  <1>1. t \in {"FILLED", "PARTIALLY_FILLED"}
    BY DEF FillTarget
  <1>2. r.state \in OrderState
    BY DEF Sound, OrderRows, Exists
  <1>3. r.state \notin TerminalStates /\ r.state # "UNKNOWN"
    BY <1>1, <1>2, TableFacts
  <1>4. r.filled \in 0..Quantity /\ r.rowsTotal \in 0..Quantity /\ r.rowsTotal <= r.filled
    BY DEF Sound, OrderRows
  <1>5. /\ r.filled + q \in 0..Quantity /\ r.rowsTotal + q \in 0..Quantity
        /\ r.rowsTotal <= r.filled + q /\ r.rowsTotal + q <= r.filled + q
        /\ r.filled + q >= r.filled
    BY <1>4 DEF Overfills
  <1>6. t \in OrderState
    BY <1>1 DEF OrderState, WorkingStates, TerminalStates
  <1>7. /\ m \in OrderRows
        /\ m.state = t /\ m.filled = r.filled + q
        /\ m.rowsTotal \in {r.rowsTotal, r.rowsTotal + q}
        /\ m.reached
    BY <1>5, <1>6 DEF WithFill, Sound, OrderRows
  <1>8. Sound(m)
    BY <1>1, <1>5, <1>7 DEF Sound, DraftStates
  <1>9. t \in Words
    BY <1>6 DEF Words
  <1>10. Forward(r, m) /\ AskedFirst(r, m) /\ Justified(m, t)
    BY <1>3, <1>5, <1>7 DEF Forward, AskedFirst, Justified
  <1>11. PhaseMove(r, m)
    <2>1. PhaseOf(r) \in {"working", "doubtful"}
      BY <1>2, <1>3, PhaseFacts DEF Sound, OrderState
    <2>2. PhaseOf(m) \in {"working", "settled"}
      BY <1>1, <1>7, PhaseFacts DEF WorkingStates, TerminalStates
    <2>3. r.filled + q \in r.filled..Quantity
      BY <1>4, <1>5
    <2> QED
      BY <1>7, <2>1, <2>2, <2>3 DEF PhaseMove
  <1> QED
    BY <1>3, <1>8, <1>9, <1>10, <1>11, OpenStep DEF IsTerminal

(* An operator settles only what is unresolved, and is recorded. *)
LEMMA ResolvedStep ==
  ASSUME NEW r, Sound(r), NEW w \in Words, NEW t, CanResolve(r, t)
  PROVE  RowStep(r, w, ResolvedBy(r, t), w)
  <1> DEFINE m == ResolvedBy(r, t)
  <1>1. /\ r.state \in UnreconciledStates
        /\ t \in {"ACCEPTED", "PARTIALLY_FILLED", "UNKNOWN"} \cup TerminalStates
    BY ResolvableFacts DEF CanResolve, IsUnreconciled
  <1>2. r.reached
    BY <1>1 DEF Sound
  <1>3. t \in OrderState /\ t \notin DraftStates \cup {"NONE"}
    BY <1>1 DEF OrderState, WorkingStates, UnreconciledStates, TerminalStates, DraftStates
  <1>4. /\ m \in OrderRows
        /\ m.state = t /\ m.filled = r.filled /\ m.rowsTotal = r.rowsTotal
        /\ m.reached = r.reached /\ m.operator
    BY <1>3 DEF ResolvedBy, Sound, OrderRows
  <1>5. Sound(m)
    BY <1>2, <1>3, <1>4 DEF Sound
  <1>6. r.filled \in Int
    BY DEF Sound, OrderRows
  <1>7. Forward(r, m) /\ AskedFirst(r, m) /\ Justified(m, w)
    BY <1>4, <1>6 DEF Forward, AskedFirst, Justified
  <1>8. ~IsTerminal(r)
    BY <1>1 DEF IsTerminal, UnreconciledStates, TerminalStates
  <1>9. PhaseMove(r, m)
    <2>1. PhaseOf(r) = "doubtful"
      BY <1>1, PhaseFacts
    <2>2. PhaseOf(m) \in {"working", "doubtful", "settled"}
      BY <1>1, <1>4, PhaseFacts DEF WorkingStates, UnreconciledStates
    <2>3. r.filled \in r.filled..Quantity
      BY DEF Sound, OrderRows
    <2> QED
      BY <1>4, <2>1, <2>2, <2>3 DEF PhaseMove
  <1> QED
    BY <1>5, <1>7, <1>8, <1>9, OpenStep

-----------------------------------------------------------------------------
(* Reconciliation, in two lemmas: what decide may conclude of an answer,   *)
(* and what applying the conclusion does to the row.                       *)
LEMMA DecideFacts ==
  ASSUME NEW r, Sound(r), Exists(r), NEW view \in Answers(r)
  PROVE  LET d == Decide(r, view) IN
         \/ d.action \in {"VENUE_UNREACHABLE", "RECORD_DISCREPANCY"}
         \/ /\ d.action = "REMAIN_UNKNOWN" /\ d.target = "UNKNOWN"
            /\ view.state = "ABSENT"
         \/ /\ d.action = "RESOLVE_NEVER_SUBMITTED" /\ d.target = "CANCELLED"
            /\ ~r.reached /\ view.state = "ABSENT"
         \/ /\ d.action = "ADOPT_VENUE_STATE" /\ d.target = view.state
            /\ d.filled = view.filled /\ r.reached /\ view \in VenueViews
            /\ ~Disagrees(r, view)
  <1>1. CASE view = Unreachable
    <2>1. view # Absent
      BY <1>1 DEF Absent, Unreachable
    <2> QED
      BY <1>1, <2>1 DEF Decide, Decision
  <1>2. CASE view = Absent
    <2>1. view # Unreachable /\ view.state = "ABSENT"
      BY <1>2 DEF Absent, Unreachable
    <2> QED
      BY <1>2, <2>1 DEF Decide, Decision
  <1>3. CASE view # Unreachable /\ view # Absent
    <2>1. r.reached /\ view \in VenueViews
      BY <1>3 DEF Answers
    <2> QED
      BY <1>3, <2>1 DEF Decide, Decision
  <1> QED
    BY <1>1, <1>2, <1>3

(* The word heard with a reconciliation: none when the venue is silent. *)
WordAfter(r, view, w) ==
  IF IsTerminal(r) \/ view = Unreachable THEN w ELSE view.state

(* Adopting the venue's account of an open order. *)
LEMMA AdoptStep ==
  ASSUME NEW r, Sound(r), Exists(r), r.reached, ~IsTerminal(r), r.state # "UNKNOWN",
         NEW w \in Words, NEW view \in VenueViews, ~Disagrees(r, view),
         NEW d, d.target = view.state, d.filled = view.filled
  PROVE  RowStep(r, w, Adopted(r, d), view.state)
  <1> DEFINE m == Adopted(r, d)
  <1>1. /\ view.state \in {"ACCEPTED", "PARTIALLY_FILLED", "UNKNOWN"} \cup TerminalStates
        /\ ~(view.filled < r.filled) /\ ~(view.filled > Quantity)
    BY ResolvableFacts DEF Disagrees
  <1>2. view.filled \in 0..Quantity /\ r.filled \in Int /\ view.filled >= r.filled
    BY <1>1 DEF VenueViews, Sound, OrderRows
  <1>3. view.state \in OrderState /\ view.state \notin DraftStates \cup {"NONE"}
    BY <1>1 DEF OrderState, WorkingStates, UnreconciledStates, TerminalStates, DraftStates
  <1>4. /\ m \in OrderRows
        /\ m.state = view.state /\ m.filled = view.filled /\ m.rowsTotal = 0
        /\ m.reached
    <2>1. 0 \in 0..Quantity /\ {} \in SUBSET FillIds
      BY DEF QuantityAssumption
    <2>2. m = [r EXCEPT !.state = view.state, !.filled = view.filled,
                        !.fillRows = {}, !.rowsTotal = 0]
      BY DEF Adopted
    <2> QED
      BY <1>2, <1>3, <2>1, <2>2 DEF Sound, OrderRows
  <1>5. Sound(m)
    BY <1>2, <1>3, <1>4 DEF Sound
  <1>6. Forward(r, m) /\ AskedFirst(r, m) /\ Justified(m, view.state)
    BY <1>2, <1>4 DEF Forward, AskedFirst, Justified
  <1>7. view.state \in Words
    BY <1>3 DEF Words
  <1>8. PhaseMove(r, m)
    <2>1. r.state \in OrderState \ DraftStates
      BY DEF Sound, OrderRows, Exists
    <2>2. PhaseOf(r) \in {"working", "doubtful"}
      BY <2>1, PhaseFacts DEF OrderState, IsTerminal
    <2>3. view.state \in {"ACCEPTED", "PARTIALLY_FILLED"} \cup TerminalStates
      BY <1>1 DEF VenueViews, VenueStates, TerminalStates
    <2>4. PhaseOf(m) \in {"working", "settled"}
      BY <1>4, <2>3, PhaseFacts DEF WorkingStates
    <2>5. m.filled \in r.filled..Quantity
      BY <1>2, <1>4
    <2> QED
      BY <2>2, <2>4, <2>5 DEF PhaseMove
  <1> QED
    BY <1>5, <1>6, <1>7, <1>8, OpenStep

LEMMA DecisionStep ==
  ASSUME NEW r, Sound(r), Exists(r), NEW w \in Words, NEW view \in Answers(r),
         CanApply(r, Decide(r, view))
  PROVE  RowStep(r, w, AfterDecision(r, Decide(r, view)), WordAfter(r, view, w))
  <1> DEFINE d == Decide(r, view)  m == AfterDecision(r, d)  w2 == WordAfter(r, view, w)
  <1>1. w2 \in Words
    BY DEF WordAfter, Words, Answers, Absent, Unreachable, VenueViews, VenueStates,
       OrderState, WorkingStates, TerminalStates
  <1>2. IsTerminal(r) => w2 = w
    BY DEF WordAfter
  <1>3. CASE d.action = "RECORD_DISCREPANCY"
    BY <1>1, <1>2, <1>3, StillStep DEF AfterDecision
  <1>4. CASE d.action # "RECORD_DISCREPANCY" /\ KeepsState(r, d)
    BY <1>1, <1>2, <1>4, StillStep DEF AfterDecision
  <1>5. CASE ~KeepsState(r, d)
    <2>1. /\ CanTransition(r.state, d.target)
          /\ d.action \notin {"RECORD_DISCREPANCY", "VENUE_UNREACHABLE"}
      BY <1>5 DEF CanApply, KeepsState
    <2>2. r.state \in OrderState
      BY DEF Sound, OrderRows, Exists
    <2>3. ~IsTerminal(r)
      BY <2>1, <2>2, TableFacts DEF IsTerminal
    <2>4. CASE d.action = "ADOPT_VENUE_STATE"
      <3>1. /\ d.target = view.state /\ d.filled = view.filled /\ r.reached
            /\ view \in VenueViews /\ ~Disagrees(r, view)
        BY <2>4, DecideFacts
      <3>2. view.state # "RECONCILING" /\ r.state # "UNKNOWN"
        BY <2>1, <2>2, <3>1, TableFacts DEF VenueViews, VenueStates, TerminalStates
      <3>3. view # Unreachable
        BY <3>1 DEF VenueViews, Unreachable, VenueStates, TerminalStates
      <3>4. m = Adopted(r, d) /\ w2 = view.state
        BY <1>5, <2>3, <2>4, <3>3 DEF AfterDecision, WordAfter
      <3> QED
        BY <2>3, <3>1, <3>2, <3>4, AdoptStep
    <2>5. CASE d.action # "ADOPT_VENUE_STATE"
      <3>1. \/ d.target = "UNKNOWN"
            \/ d.target = "CANCELLED" /\ ~r.reached
        BY <2>1, <2>5, DecideFacts
      <3>2. m = Moved(r, d.target)
        BY <1>5, <2>1, <2>5 DEF AfterDecision
      <3> QED
        BY <1>1, <2>1, <3>1, <3>2, MovedStep DEF TerminalStates
    <2> QED
      BY <2>4, <2>5
  <1> QED
    BY <1>3, <1>4, <1>5

-----------------------------------------------------------------------------
(* From one row to all of them. *)
LEMMA StoreStep ==
  ASSUME RowsSound, NEW o \in Orders, NEW r2, NEW w2,
         Store(o, r2), heard' = [heard EXCEPT ![o] = w2],
         RowStep(order[o], heard[o], r2, w2)
  PROVE  RowsStep
  <1>1. r2 \in OrderRows /\ w2 \in Words
    BY DEF RowStep, Sound
  <1>2. order' \in [Orders -> OrderRows] /\ heard' \in [Orders -> Words]
    BY <1>1 DEF RowsSound, Store
  <1>3. ASSUME NEW p \in Orders
        PROVE  RowStep(order[p], heard[p], order'[p], heard'[p])
    <2>1. CASE p = o
      BY <2>1 DEF RowsSound, Store
    <2>2. CASE p # o
      <3>1. order'[p] = order[p] /\ heard'[p] = heard[p]
        BY <2>2 DEF RowsSound, Store
      <3>2. Sound(order[p]) /\ heard[p] \in Words
        BY DEF RowsSound
      <3> QED
        BY <3>1, <3>2, StillStep
    <2> QED
      BY <2>1, <2>2
  <1>4. \A p \in Orders : order'[p] # order[p] => p = o
    BY DEF RowsSound, Store
  <1> QED
    BY <1>2, <1>3, <1>4 DEF RowsStep

LEMMA SilentStoreStep ==
  ASSUME RowsSound, NEW o \in Orders, NEW r2, Store(o, r2), UNCHANGED heard,
         RowStep(order[o], heard[o], r2, heard[o])
  PROVE  RowsStep
  <1>1. heard' = [heard EXCEPT ![o] = heard[o]]
    BY DEF RowsSound
  <1> QED
    BY <1>1, StoreStep

(* A move that needs no word from the venue. *)
LEMMA SilentMoveStep ==
  ASSUME RowsSound, NEW o \in Orders, Exists(order[o]), NEW t,
         CanTransition(order[o].state, t), t # "SUBMITTED",
         t \in TerminalStates => (RejectedOnlyAtGate => ~order[o].reached),
         Store(o, Moved(order[o], t)), UNCHANGED heard
  PROVE  RowsStep
  <1>1. Sound(order[o]) /\ heard[o] \in Words
    BY DEF RowsSound
  <1>2. RowStep(order[o], heard[o], Moved(order[o], t), heard[o])
    BY <1>1, MovedStep
  <1> QED
    BY <1>2, SilentStoreStep

(* One call by a live process. *)
LEMMA CallStep ==
  ASSUME RowsSound, NEW o \in Orders, Call(o)
  PROVE  RowsStep /\ UNCHANGED recovery
  <1>1. Sound(order[o]) /\ heard[o] \in Words
    BY DEF RowsSound
  <1> USE DEF Loaded
  <1>2. CASE CreateOrder(o)
    <2> DEFINE n == NewOrder
    <2>1. 0 \in 0..Quantity /\ {} \in SUBSET FillIds
      BY DEF QuantityAssumption
    <2>2. order[o].filled = 0 /\ order[o].state = "NONE" /\ ~order[o].reached
      BY <1>1, <1>2 DEF Sound, CreateOrder, Exists
    <2>3. /\ n \in OrderRows
          /\ n.state = "CREATED" /\ n.filled = 0 /\ n.rowsTotal = 0 /\ ~n.reached
      BY <2>1 DEF NewOrder, NoOrder, OrderRows, OrderState, DraftStates
    <2>4. Sound(n)
      BY <2>3 DEF Sound, WorkingStates, UnreconciledStates
    <2>5. ~IsTerminal(order[o]) /\ ~IsTerminal(n)
      BY <2>2, <2>3 DEF IsTerminal, TerminalStates
    <2>6. Forward(order[o], n) /\ AskedFirst(order[o], n) /\ Justified(n, heard[o])
      BY <2>2, <2>3, <2>5 DEF Forward, AskedFirst, Justified
    <2>7. RowStep(order[o], heard[o], n, heard[o])
      <3>1. PhaseMove(order[o], n)
        BY <2>2, <2>3, PhaseFacts DEF PhaseMove, DraftStates
      <3> QED
        BY <1>1, <2>4, <2>5, <2>6, <3>1, OpenStep
    <2> QED
      BY <1>2, <2>7, SilentStoreStep DEF CreateOrder, recovery
  <1>3. CASE MarkValidating(o)
    BY <1>3, SilentMoveStep DEF MarkValidating, TerminalStates, recovery
  <1>4. CASE MarkRiskRejected(o)
    BY <1>4, SilentMoveStep DEF MarkRiskRejected, recovery
  <1>5. CASE CancelBeforeSubmission(o)
    BY <1>5, SilentMoveStep DEF CancelBeforeSubmission, recovery
  <1>6. CASE MarkSubmitting(o)
    <2>1. RowStep(order[o], heard[o], Submitting(order[o]), heard[o])
      BY <1>1, <1>6, SubmittingStep DEF MarkSubmitting
    <2> QED
      BY <1>6, <2>1, SilentStoreStep DEF MarkSubmitting, recovery
  <1>7. CASE \E s \in VenueStates : ApplyVenueAck(o, s)
    <2>1. PICK s \in VenueStates : ApplyVenueAck(o, s)
      BY <1>7
    <2>2. s \in OrderState /\ s \in Words /\ s # "SUBMITTED"
      BY DEF VenueStates, Words, OrderState, WorkingStates, TerminalStates
    <2>3. order[o].state \in OrderState
      BY <1>1, <2>1 DEF ApplyVenueAck, Exists, Sound, OrderRows
    <2>4. heard' = [heard EXCEPT ![o] = s]
      BY <2>1, <2>3, TableFacts DEF ApplyVenueAck, Hears, IsTerminal
    <2>5. RowStep(order[o], heard[o], Moved(order[o], s), s)
      BY <1>1, <2>1, <2>2, MovedStep DEF ApplyVenueAck
    <2> QED
      BY <2>1, <2>4, <2>5, StoreStep DEF ApplyVenueAck, recovery
  <1>8. CASE MarkUnknown(o)
    BY <1>8, SilentMoveStep DEF MarkUnknown, TerminalStates, recovery
  <1>9. CASE \E f \in FillIds, q \in 1..Quantity : ApplyFill(o, f, q)
    <2>1. PICK f \in FillIds, q \in 1..Quantity : ApplyFill(o, f, q)
      BY <1>9
    <2>2. CASE Overfills(order[o], q)
      <3>1. RowStep(order[o], heard[o], WithDiscrepancy(order[o]), heard[o])
        BY <1>1, StillStep
      <3> QED
        BY <2>1, <2>2, <3>1, SilentStoreStep DEF ApplyFill, recovery
    <2>3. CASE ~Overfills(order[o], q)
      <3> DEFINE t == FillTarget(order[o], q)
      <3>1. /\ Exists(order[o]) /\ order[o].reached
            /\ CanTransition(order[o].state, t)
            /\ Store(o, WithFill(order[o], f, q)) /\ Hears(o, t)
        BY <2>1, <2>3 DEF ApplyFill
      <3>2. order[o].state \in OrderState
        BY <1>1, <3>1 DEF Exists, Sound, OrderRows
      <3>3. heard' = [heard EXCEPT ![o] = t]
        BY <3>1, <3>2, TableFacts DEF Hears, IsTerminal
      <3>4. RowStep(order[o], heard[o], WithFill(order[o], f, q), t)
        BY <1>1, <2>3, <3>1, FillStep
      <3>5. RowsStep
        BY <3>1, <3>3, <3>4, StoreStep
      <3> QED
        BY <2>1, <3>5 DEF ApplyFill, recovery
    <2> QED
      BY <2>2, <2>3
  <1>10. CASE BeginReconciliation(o)
    BY <1>10, SilentMoveStep DEF BeginReconciliation, TerminalStates, recovery
  <1>11. CASE \E answer \in Answers(order[o]) : Reconcile(o, answer)
    <2>1. PICK answer \in Answers(order[o]) : Reconcile(o, answer)
      BY <1>11
    <2> DEFINE d == Decide(order[o], answer)  w2 == WordAfter(order[o], answer, heard[o])
    <2>2. RowStep(order[o], heard[o], AfterDecision(order[o], d), w2)
      BY <1>1, <2>1, DecisionStep DEF Reconcile
    <2>3. heard' = [heard EXCEPT ![o] = w2]
      BY <2>1 DEF Reconcile, Hears, WordAfter, RowsSound
    <2> QED
      BY <2>1, <2>2, <2>3, StoreStep DEF Reconcile, recovery
  <1>12. CASE \E to \in OrderState : ResolveManually(o, to)
    <2>1. PICK to \in OrderState : ResolveManually(o, to)
      BY <1>12
    <2>2. RowStep(order[o], heard[o], ResolvedBy(order[o], to), heard[o])
      BY <1>1, <2>1, ResolvedStep DEF ResolveManually
    <2> QED
      BY <2>1, <2>2, SilentStoreStep DEF ResolveManually, recovery
  <1> QED
    BY <1>2, <1>3, <1>4, <1>5, <1>6, <1>7, <1>8, <1>9, <1>10, <1>11, <1>12 DEF Call

-----------------------------------------------------------------------------
(* Death and recovery touch rows only to doubt them or to dispute them. *)
RecoveryTypes ==
  /\ boot \in {"up", "recovering", "down"}
  /\ toInterrupt \subseteq Orders /\ toReport \subseteq Orders
  /\ crashes \in 0..MaxCrashes

LEMMA SameRowsStep ==
  ASSUME RowsSound, UNCHANGED <<order, heard>>
  PROVE  RowsStep
  <1>1. \A o \in Orders : Sound(order[o]) /\ heard[o] \in Words
    BY DEF RowsSound
  <1>2. \A o \in Orders : RowStep(order[o], heard[o], order[o], heard[o])
    BY <1>1, StillStep
  <1> QED
    BY <1>2 DEF RowsStep, RowsSound

LEMMA RecoverStep ==
  ASSUME RowsSound, RecoveryTypes, Crash \/ Recover
  PROVE  RowsStep /\ RecoveryTypes'
  <1> USE DEF RecoveryTypes
  <1>1. CASE Crash
    <2>1. crashes' \in 0..MaxCrashes
      BY <1>1 DEF Crash, MaxCrashesAssumption
    <2> QED
      BY <1>1, <2>1, SameRowsStep DEF Crash
  <1>2. CASE RecoverScan
    BY <1>2, SameRowsStep DEF RecoverScan
  <1>3. ASSUME NEW o \in Orders, RecoverInterrupted(o)
        PROVE  RowsStep /\ RecoveryTypes'
    <2>1. Exists(order[o])
      BY <1>3 DEF RecoverInterrupted, Exists, CanTransition, LegalTransitions,
         OrderState, DraftStates, WorkingStates, UnreconciledStates, TerminalStates
    <2> QED
      BY <1>3, <2>1, SilentMoveStep DEF RecoverInterrupted, TerminalStates
  <1>4. ASSUME NEW o \in Orders, RecoverUnreadable(o)
        PROVE  RowsStep /\ RecoveryTypes'
    <2>1. RowStep(order[o], heard[o], WithDiscrepancy(order[o]), heard[o])
      BY StillStep DEF RowsSound
    <2> QED
      BY <1>4, <2>1, SilentStoreStep DEF RecoverUnreadable
  <1>5. CASE RecoverDone
    BY <1>5, SameRowsStep DEF RecoverDone
  <1> QED
    BY <1>1, <1>2, <1>3, <1>4, <1>5 DEF Recover

LEMMA EveryStep ==
  ASSUME IInv, [Next]_vars
  PROVE  RowsStep /\ RecoveryTypes'
  <1>1. RowsSound /\ RecoveryTypes
    BY DEF IInv, TypeOK, RowsSound, RecoveryTypes
  <1>2. ASSUME NEW o \in Orders, Call(o)
        PROVE  RowsStep /\ RecoveryTypes'
    <2>1. RowsStep /\ UNCHANGED recovery
      BY <1>1, <1>2, CallStep
    <2> QED
      BY <1>1, <2>1 DEF RecoveryTypes, recovery
  <1>3. CASE UNCHANGED vars
    BY <1>1, <1>3, SameRowsStep DEF vars, RecoveryTypes
  <1> QED
    BY <1>1, <1>2, <1>3, RecoverStep DEF Next

-----------------------------------------------------------------------------
LEMMA IInvInit == Init => IInv
  <1> SUFFICES ASSUME Init PROVE IInv
    OBVIOUS
  <1>1. 0 \in 0..Quantity /\ 0 \in 0..MaxCrashes /\ {} \in SUBSET FillIds
    BY DEF QuantityAssumption, MaxCrashesAssumption
  <1>2. /\ NoOrder \in OrderRows
        /\ NoOrder.state = "NONE" /\ NoOrder.filled = 0 /\ NoOrder.rowsTotal = 0
        /\ ~NoOrder.reached
    BY <1>1 DEF NoOrder, OrderRows
  <1>3. Sound(NoOrder) /\ Justified(NoOrder, "NOTHING")
    BY <1>2 DEF Sound, Justified, WorkingStates, UnreconciledStates
  <1>4. \A o \in Orders : order[o] = NoOrder /\ heard[o] = "NOTHING"
    BY DEF Init
  <1>5. TypeOK
    BY <1>1, <1>2 DEF Init, TypeOK, Words
  <1> QED
    BY <1>3, <1>4, <1>5 DEF IInv

LEMMA IInvStep == IInv /\ [Next]_vars => IInv'
  <1> SUFFICES ASSUME IInv, [Next]_vars PROVE IInv'
    OBVIOUS
  <1>1. RowsStep /\ RecoveryTypes'
    BY EveryStep
  <1>2. TypeOK'
    BY <1>1 DEF RowsStep, RecoveryTypes, TypeOK
  <1>3. (\A o \in Orders : Sound(order[o]))'
    BY <1>1 DEF RowsStep, RowStep
  <1>4. (RejectedOnlyAtGate => \A o \in Orders : Justified(order[o], heard[o]))'
    BY <1>1 DEF IInv, RowsStep, RowStep
  <1> QED
    BY <1>2, <1>3, <1>4 DEF IInv

THEOREM Inductive == Spec => []IInv
  BY IInvInit, IInvStep, PTL DEF Spec

(* Rows, recovery state and the venue's words keep their types, whatever   *)
(* is called, answered or killed.                                          *)
THEOREM TypeCorrect == Spec => []TypeOK
  <1>1. IInv => TypeOK
    BY DEF IInv
  <1> QED
    BY <1>1, Inductive, PTL

(* The submission stamp and the state never disagree.  It is what decide   *)
(* reads to tell an order that was never sent from one that may have been. *)
THEOREM StampTheorem == Spec => []StampAgreesWithState
  <1>1. IInv => StampAgreesWithState
    BY DEF IInv, Sound, StampAgreesWithState
  <1> QED
    BY <1>1, Inductive, PTL

(* "Never infer a fill": provided callers reject on risk grounds only      *)
(* before sending, a sent order is settled by the venue's word or by an    *)
(* operator.                                                               *)
THEOREM NoFabricatedOutcomeTheorem ==
  ASSUME RejectedOnlyAtGate
  PROVE  Spec => []NoFabricatedOutcome
  <1>1. IInv => NoFabricatedOutcome
    BY DEF IInv, Justified, NoFabricatedOutcome
  <1> QED
    BY <1>1, Inductive, PTL

(* Terminal is terminal, whatever arrives late. *)
THEOREM SettledIsFinalTheorem == Spec => SettledIsFinal
  <1>1. IInv /\ [Next]_vars =>
          [\A o \in Orders :
             IsTerminal(order[o]) =>
               /\ order'[o].state = order[o].state
               /\ order'[o].filled = order[o].filled
               /\ order'[o].operator = order[o].operator]_vars
    BY EveryStep DEF RowsStep, RowStep, Final
  <1> QED
    BY <1>1, Inductive, PTL DEF Spec, SettledIsFinal

(* An order leaves UNKNOWN only by being asked about or by an operator. *)
THEOREM UnknownLeavesByAskingTheorem == Spec => UnknownLeavesByAsking
  <1>1. IInv /\ [Next]_vars =>
          [\A o \in Orders :
             order[o].state = "UNKNOWN" /\ order'[o].state # "UNKNOWN" =>
               order'[o].state = "RECONCILING" \/ order'[o].operator]_vars
    BY EveryStep DEF RowsStep, RowStep, AskedFirst
  <1> QED
    BY <1>1, Inductive, PTL DEF Spec, UnknownLeavesByAsking

(* Executed quantity never goes backwards and no submission is unsent. *)
THEOREM FillsOnlyGrowTheorem == Spec => FillsOnlyGrow
  <1>1. IInv /\ [Next]_vars =>
          [\A o \in Orders :
             /\ order'[o].filled >= order[o].filled
             /\ order[o].reached => order'[o].reached]_vars
    BY EveryStep DEF RowsStep, RowStep, Forward
  <1> QED
    BY <1>1, Inductive, PTL DEF Spec, FillsOnlyGrow

-----------------------------------------------------------------------------
(* While recovery runs, an order that was sent and is not blocking entries *)
(* yet is still on its list, however many passes were cut short before.    *)
ListCoversDoubt ==
  boot = "recovering" =>
    \A o \in Orders :
      IsOpen(order[o]) /\ order[o].reached => o \in Blocking \/ o \in toInterrupt

LEMMA ListStep == IInv /\ ListCoversDoubt /\ [Next]_vars => ListCoversDoubt'
  <1> SUFFICES ASSUME IInv, ListCoversDoubt, [Next]_vars PROVE ListCoversDoubt'
    OBVIOUS
  <1>1. order \in [Orders -> OrderRows]
    BY DEF IInv, TypeOK
  <1>2. CASE UNCHANGED vars
    BY <1>2 DEF vars, ListCoversDoubt, Blocking, Blocks
  <1>3. ASSUME NEW o \in Orders, Call(o) PROVE ListCoversDoubt'
    BY <1>3 DEF ListCoversDoubt, Call, CreateOrder, MarkValidating, MarkRiskRejected,
       CancelBeforeSubmission, MarkSubmitting, ApplyVenueAck, MarkUnknown, ApplyFill,
       BeginReconciliation, Reconcile, ResolveManually, Loaded, recovery
  <1>4. CASE Crash
    BY <1>4 DEF Crash, ListCoversDoubt
  <1>5. CASE RecoverScan
    BY <1>5 DEF RecoverScan, ListCoversDoubt, Blocking, Blocks, InFlight
  <1>6. ASSUME NEW o \in Orders, RecoverInterrupted(o) PROVE ListCoversDoubt'
    <2>1. /\ boot = "recovering" /\ toInterrupt' = toInterrupt \ {o}
          /\ order' = [order EXCEPT ![o] = Moved(order[o], "UNKNOWN")]
      BY <1>6 DEF RecoverInterrupted, Store
    <2>2. \A p \in Orders : p # o => order'[p] = order[p]
      BY <1>1, <2>1
    <2>3. order'[o].state = "UNKNOWN"
      BY <1>1, <2>1 DEF Moved, OrderRows
    <2>4. o \in Blocking'
      BY <2>3 DEF Blocking, Blocks, IsOpen, Exists, IsTerminal, TerminalStates, IsUnreconciled,
         UnreconciledStates
    <2>5. \A p \in Orders : p # o => (p \in Blocking' <=> p \in Blocking)
      BY <2>2 DEF Blocking
    <2> QED
      BY <2>1, <2>2, <2>4, <2>5 DEF ListCoversDoubt
  <1>7. ASSUME NEW o \in Orders, RecoverUnreadable(o) PROVE ListCoversDoubt'
    <2>1. /\ boot = "recovering" /\ toInterrupt' = toInterrupt
          /\ order' = [order EXCEPT ![o] = WithDiscrepancy(order[o])]
      BY <1>7 DEF RecoverUnreadable, Store
    <2>2. \A p \in Orders :
            /\ order'[p].state = order[p].state /\ order'[p].reached = order[p].reached
            /\ order'[p].fillRows = order[p].fillRows
            /\ order'[p].rowsTotal = order[p].rowsTotal
            /\ order'[p].filled = order[p].filled
      BY <1>1, <2>1 DEF WithDiscrepancy, OrderRows
    <2>3. \A p \in Orders : p \in Blocking' <=> p \in Blocking
      BY <2>2 DEF Blocking, Blocks, IsOpen, Exists, IsTerminal, Readable, IsUnreconciled
    <2> QED
      BY <2>1, <2>2, <2>3 DEF ListCoversDoubt, IsOpen, Exists, IsTerminal
  <1>8. CASE RecoverDone
    BY <1>8 DEF RecoverDone, ListCoversDoubt
  <1> QED
    BY <1>2, <1>3, <1>4, <1>5, <1>6, <1>7, <1>8 DEF Next, Recover

(* When recovery ends, every sent and unsettled order blocks new entries,  *)
(* though the pass that ends may be the last of several cut short.         *)
THEOREM RecoveryBlocksTheorem == Spec => RecoveryBlocksWhatItCannotSee
  <1>1. Init => ListCoversDoubt
    BY DEF Init, ListCoversDoubt
  <1>2. ListCoversDoubt /\ IInv /\ [Next]_vars =>
          [boot = "recovering" /\ boot' = "up" =>
             \A o \in Orders : IsOpen(order[o]) /\ order[o].reached => o \in Blocking]_vars
    <2> SUFFICES ASSUME ListCoversDoubt, [Next]_vars, boot = "recovering", boot' = "up",
                        NEW o \in Orders, IsOpen(order[o]), order[o].reached
                 PROVE  o \in Blocking
      OBVIOUS
    <2>1. toInterrupt = {}
      BY DEF Next, Recover, Call, Crash, RecoverScan, RecoverInterrupted,
         RecoverUnreadable, RecoverDone, CreateOrder, MarkValidating, MarkRiskRejected,
         CancelBeforeSubmission, MarkSubmitting, ApplyVenueAck, MarkUnknown, ApplyFill,
         BeginReconciliation, Reconcile, ResolveManually, Loaded, vars
    <2> QED
      BY <2>1 DEF ListCoversDoubt
  <1> QED
    BY <1>1, <1>2, ListStep, Inductive, PTL DEF Spec, RecoveryBlocksWhatItCannotSee

-----------------------------------------------------------------------------
(* Refinement.  A row's PhaseMove is a step of the promise at that order,  *)
(* and no step of the lifecycle moves two rows.                            *)
LEMMA PromiseInit == Init => Promise!PInit
  <1> SUFFICES ASSUME Init PROVE Promise!PInit
    OBVIOUS
  <1>1. \A o \in Orders : PhaseOf(order[o]) = "none" /\ order[o].filled = 0
    BY PhaseFacts DEF Init, NoOrder
  <1> QED
    BY <1>1 DEF Promise!PInit

LEMMA PromiseStep == IInv /\ [Next]_vars => [Promise!PNext]_(Promise!pvars)
  <1> SUFFICES ASSUME IInv, [Next]_vars PROVE [Promise!PNext]_(Promise!pvars)
    OBVIOUS
  <1> DEFINE phase == [o \in Orders |-> PhaseOf(order[o])]
             executed == [o \in Orders |-> order[o].filled]
  <1>1. RowsStep
    BY EveryStep
  <1>2. order \in [Orders -> OrderRows] /\ order' \in [Orders -> OrderRows]
    BY <1>1 DEF IInv, TypeOK, RowsStep
  <1>3. CASE \A o \in Orders : order'[o] = order[o]
    <2>1. order' = order
      BY <1>2, <1>3
    <2> QED
      BY <2>1 DEF Promise!pvars
  <1>4. ASSUME NEW o \in Orders, order'[o] # order[o]
        PROVE  [Promise!PNext]_(Promise!pvars)
    <2>1. \A p \in Orders : p # o => order'[p] = order[p]
      BY <1>1, <1>4 DEF RowsStep
    <2>2. PhaseMove(order[o], order'[o])
      BY <1>1 DEF RowsStep, RowStep
    <2> DEFINE s == PhaseOf(order[o])  t == PhaseOf(order'[o])
    <2>3. phase' = [phase EXCEPT ![o] = t]
      BY <2>1
    <2>4. executed' = [executed EXCEPT ![o] = order'[o].filled]
      BY <2>1
    <2>5. phase[o] = s /\ executed[o] = order[o].filled
      OBVIOUS
    <2> HIDE DEF phase, executed, s, t
    <2>6. CASE t = s /\ order'[o].filled = order[o].filled
      <3>1. phase' = phase /\ executed' = executed
        BY <2>3, <2>4, <2>5, <2>6 DEF phase, executed
      <3> QED
        BY <3>1 DEF Promise!pvars, phase, executed
    <2>7. CASE /\ <<s, t>> \in {<<"none", "draft">>, <<"draft", "settled">>,
                               <<"draft", "working">>, <<"working", "doubtful">>}
               /\ order'[o].filled = order[o].filled
      <3>1. executed' = executed
        BY <2>4, <2>5, <2>7 DEF executed
      <3>2. Promise!Draft(o) \/ Promise!Drop(o) \/ Promise!Send(o) \/ Promise!Doubt(o)
        BY <2>3, <2>5, <2>7, <3>1 DEF Promise!Draft, Promise!Drop, Promise!Send,
           Promise!Doubt, Promise!Enter, phase, executed
      <3> QED
        BY <3>2 DEF Promise!PNext
    <2>8. CASE /\ <<s, t>> \in {"working", "doubtful"} \X {"working", "settled"}
               /\ order'[o].filled \in order[o].filled..Quantity
      <3>1. Promise!Executes(o)
        BY <2>4, <2>5, <2>8 DEF Promise!Executes, executed
      <3>2. Promise!Progress(o) \/ Promise!Resume(o) \/ Promise!Settle(o)
        BY <2>3, <2>5, <2>8, <3>1 DEF Promise!Progress, Promise!Resume,
           Promise!Settle, Promise!Enter, phase
      <3> QED
        BY <3>2 DEF Promise!PNext
    <2> QED
      BY <2>2, <2>6, <2>7, <2>8 DEF PhaseMove, s, t
  <1> QED
    BY <1>3, <1>4

(* The lifecycle implements OrderPromise. *)
THEOREM KeepsPromiseTheorem == Spec => KeepsPromise
  BY PromiseInit, PromiseStep, Inductive, PTL DEF Spec, KeepsPromise, Promise!PSpec
=============================================================================
