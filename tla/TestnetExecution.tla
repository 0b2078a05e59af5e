-------------------------- MODULE TestnetExecution --------------------------
(***************************************************************************)
(* Testnet orders end to end: TestnetExecutionService (services/testnet.py) *)
(* driving the durable lifecycle around a venue it reaches over a network. *)
(* Requests, cancellations and the reconciliation sweep are coroutines of   *)
(* one process and interleave at every await, so every await is a step;    *)
(* each engine call is one step, because it holds the row lock throughout. *)
(*                                                                         *)
(* The venue and the network are external: a request may be delayed past   *)
(* its caller's timeout, lost, or carried out with the answer lost, and the *)
(* venue may forget every order it has (the testnet's monthly reset).      *)
(* Left out: prices, margin mode, sizing arithmetic and the risk rules     *)
(* other than the one on unreconciled orders; each is a refusal that may   *)
(* happen.  One symbol, hence one leverage at the venue.                   *)
(***************************************************************************)
EXTENDS OrderRecord, FiniteSets

CONSTANTS
  Intents,      \* client_order_ids
  Requests,     \* submit calls
  Cancels,      \* cancel calls
  Leverages,    \* leverages the risk engine may approve
  NoIntent,
  MaxCrashes, MaxResets,   \* bounds on process deaths and venue resets
  Sweeping      \* someone calls reconcile_all (nothing in the program does)

ASSUME TestnetAssumption ==
  /\ Leverages \subseteq Nat \ {0} /\ NoIntent \notin Intents
  /\ MaxCrashes \in Nat /\ MaxResets \in Nat /\ Sweeping \in BOOLEAN

VARIABLES
  order,      \* the durable rows
  terms,      \* their venue_leverage column, 0 while null
  request,    \* submit calls: where each is, and its local variables
  cancel,     \* cancel calls
  sweep,      \* the reconcile_all call
  boot,       \* "up" or "down"
  venue,      \* the venue's own orders
  leverage,   \* the symbol's leverage at the venue
  wire,       \* orders on their way to the venue
  sends,      \* history: times each order was put on the wire
  crashes, resets

local == <<request, cancel, sweep>>
remote == <<venue, leverage, wire, resets>>
vars == <<order, terms, request, cancel, sweep, boot, venue, leverage, wire,
          sends, crashes, resets>>

-----------------------------------------------------------------------------
(* The venue's orders, and what the process sees of them. *)

(* Every status with the fills it can have; known is lost in a reset, the  *)
(* rest is kept as history.                                                *)
Placed(state, filled, at) ==
  [state |-> state, filled |-> filled, known |-> TRUE, leverage |-> at]

NotPlaced == [state |-> "NONE", filled |-> 0, known |-> FALSE, leverage |-> 0]

FillsOf(state) ==
  CASE state = "ACCEPTED"         -> {0}
    [] state = "PARTIALLY_FILLED" -> 1..(Quantity - 1)
    [] state = "FILLED"           -> {Quantity}
    [] OTHER                      -> 0..(Quantity - 1)

Live(v) == v.state \in {"ACCEPTED", "PARTIALLY_FILLED"}

View(v) == [state |-> v.state, filled |-> v.filled]

NoView == [state |-> "NONE", filled |-> 0]

QueryOf(v) == IF v.known THEN View(v) ELSE Absent

-----------------------------------------------------------------------------
IdleRequest ==
  [step |-> "idle", order |-> NoIntent, leverage |-> 0, row |-> NoOrder, view |-> NoView]

IdleCancel == [step |-> "idle", order |-> NoIntent, view |-> NoView]

IdleSweep == [step |-> "idle", todo |-> {}, answers |-> [o \in Intents |-> NoView]]

Init ==
  /\ order = [o \in Intents |-> NoOrder]
  /\ terms = [o \in Intents |-> 0]
  /\ request = [q \in Requests |-> IdleRequest]
  /\ cancel = [c \in Cancels |-> IdleCancel]
  /\ sweep = IdleSweep
  /\ boot = "up"
  /\ venue = [o \in Intents |-> NotPlaced]
  /\ leverage \in Leverages
  /\ wire = {}
  /\ sends = [o \in Intents |-> 0]
  /\ crashes = 0 /\ resets = 0

Store(o, r) == order' = [order EXCEPT ![o] = r]

(* An engine call that moves the row, or raises and changes nothing. *)
TryMove(o, to) ==
  IF CanTransition(order[o].state, to)
    THEN Store(o, Moved(order[o], to)) ELSE UNCHANGED order

Goto(q, step) == request' = [request EXCEPT ![q].step = step]
Returned(q) == [request EXCEPT ![q] = [IdleRequest EXCEPT !.step = "returned",
                                                         !.order = request[q].order]]
Returns(q) == request' = Returned(q)

At(q, step) == boot = "up" /\ request[q].step = step

-----------------------------------------------------------------------------
(* submit, one action per await. *)

(* create_or_get: an intent that already has an order replays it. *)
CreateOrGet(q, o) ==
  /\ At(q, "idle")
  /\ \/ /\ Exists(order[o])
        /\ request' = [request EXCEPT ![q].step = "returned", ![q].order = o]
        /\ UNCHANGED order
     \/ /\ ~Exists(order[o])
        /\ Store(o, NewOrder)
        /\ request' = [request EXCEPT ![q].step = "created", ![q].order = o]
  /\ UNCHANGED <<terms, cancel, sweep, boot, remote, sends, crashes>>

MarkValidating(q) ==
  LET o == request[q].order IN
  /\ At(q, "created") /\ CanTransition(order[o].state, "VALIDATING")
  /\ Store(o, Moved(order[o], "VALIDATING"))
  /\ Goto(q, "ruling")
  /\ UNCHANGED <<terms, cancel, sweep, boot, remote, sends, crashes>>

Blocking == {o \in Intents : Blocks(order[o])}

(* _rule: an approval needs nothing unreconciled at the moment it is read; *)
(* everything else it reads can only refuse.                               *)
Rule(q, approved) ==
  /\ At(q, "ruling") /\ Blocking = {}
  /\ request' = [request EXCEPT ![q].step = "approved", ![q].leverage = approved]
  /\ UNCHANGED <<order, terms, cancel, sweep, boot, remote, sends, crashes>>

(* set_leverage: the POST may be carried out though its answer is lost, and *)
(* an answer that is not the approved leverage is a refusal.               *)
SetLeverage(q) ==
  /\ At(q, "approved")
  /\ \/ leverage' = request[q].leverage /\ Goto(q, "levered")
     \/ \E l \in Leverages \cup {leverage} : leverage' = l /\ Goto(q, "refusing")
  /\ UNCHANGED <<order, terms, cancel, sweep, boot, venue, wire, resets, sends, crashes>>

(* After margin mode and sizing: the row is read... *)
ReadRow(q) ==
  /\ At(q, "levered")
  /\ request' = [request EXCEPT ![q].step = "sized", ![q].row = order[request[q].order]]
  /\ UNCHANGED <<order, terms, cancel, sweep, boot, remote, sends, crashes>>

(* ...and written whole, outside any lock. *)
WriteTerms(q) ==
  LET o == request[q].order IN
  /\ At(q, "sized")
  /\ Store(o, request[q].row)
  /\ terms' = [terms EXCEPT ![o] = request[q].leverage]
  /\ request' = [request EXCEPT ![q].step = "stamping", ![q].row = NoOrder]
  /\ UNCHANGED <<cancel, sweep, boot, remote, sends, crashes>>

(* Any check between the ruling and the stamp may refuse. *)
Refuse(q) ==
  /\ At(q, "ruling") \/ At(q, "levered")
  /\ Goto(q, "refusing")
  /\ UNCHANGED <<order, terms, cancel, sweep, boot, remote, sends, crashes>>

MarkRiskRejected(q) ==
  LET o == request[q].order IN
  /\ At(q, "refusing") /\ CanTransition(order[o].state, "REJECTED")
  /\ Store(o, Moved(order[o], "REJECTED"))
  /\ Returns(q)
  /\ UNCHANGED <<terms, cancel, sweep, boot, remote, sends, crashes>>

(* Mutant: the stamp is left until the call has been answered. *)
MarkSubmittingLater(q) ==
  /\ At(q, "stamping")
  /\ Goto(q, "leaving")
  /\ UNCHANGED <<order, terms, cancel, sweep, boot, remote, sends, crashes>>

MarkSubmitting(q) ==
  LET o == request[q].order IN
  /\ At(q, "stamping") /\ CanTransition(order[o].state, "SUBMITTED")
  /\ Store(o, Submitting(order[o]))
  /\ Goto(q, "leaving")
  /\ UNCHANGED <<terms, cancel, sweep, boot, remote, sends, crashes>>

(* adapter.submit: the uncertainty window opens. *)
Send(q) ==
  LET o == request[q].order IN
  /\ At(q, "leaving")
  /\ wire' = wire \cup {o}
  /\ sends' = [sends EXCEPT ![o] = @ + 1]
  /\ Goto(q, "waiting")
  /\ UNCHANGED <<order, terms, cancel, sweep, boot, venue, leverage, resets, crashes>>

SubmitAnswered(q) ==
  /\ At(q, "waiting") /\ request[q].view # NoView
  /\ Goto(q, "acking")
  /\ UNCHANGED <<order, terms, cancel, sweep, boot, remote, sends, crashes>>

(* Mutant: a timed out POST is tried again. *)
SubmitRetried(q) ==
  /\ At(q, "waiting")
  /\ Goto(q, "leaving")
  /\ UNCHANGED <<order, terms, cancel, sweep, boot, remote, sends, crashes>>

(* A timeout, a refusal or an answer that does not parse: one and the same. *)
SubmitFailed(q) ==
  /\ At(q, "waiting")
  /\ Goto(q, "doubting")
  /\ UNCHANGED <<order, terms, cancel, sweep, boot, remote, sends, crashes>>

ApplyVenueAck(q) ==
  /\ At(q, "acking")
  /\ TryMove(request[q].order, request[q].view.state)
  /\ Returns(q)
  /\ UNCHANGED <<terms, cancel, sweep, boot, remote, sends, crashes>>

MarkUnknown(q) ==
  /\ At(q, "doubting")
  /\ TryMove(request[q].order, "UNKNOWN")
  /\ Returns(q)
  /\ UNCHANGED <<terms, cancel, sweep, boot, remote, sends, crashes>>

(* Anything submit does not catch, the database above all: the row is left *)
(* as it stands.  Only adapter.submit is inside a try.                     *)
Raise(q) ==
  /\ boot = "up" /\ request[q].step \notin {"idle", "waiting", "returned"}
  /\ Returns(q)
  /\ UNCHANGED <<order, terms, cancel, sweep, boot, remote, sends, crashes>>

Submit(q) ==
  \/ \E o \in Intents : CreateOrGet(q, o)
  \/ MarkValidating(q)
  \/ \E l \in Leverages : Rule(q, l)
  \/ SetLeverage(q) \/ ReadRow(q) \/ WriteTerms(q)
  \/ Refuse(q) \/ MarkRiskRejected(q)
  \/ MarkSubmitting(q) \/ Send(q)
  \/ SubmitAnswered(q) \/ SubmitFailed(q) \/ ApplyVenueAck(q) \/ MarkUnknown(q)
  \/ Raise(q)

-----------------------------------------------------------------------------
(* The venue and the network. *)

(* The order arrives, perhaps after its caller stopped waiting, and is     *)
(* placed at the leverage in force; a caller still waiting gets the answer. *)
VenueAccepts(o) ==
  \E state \in VenueStates \ {"CANCELLED"} : \E filled \in FillsOf(state) :
    LET v == Placed(state, filled, leverage) IN
    /\ o \in wire /\ wire' = wire \ {o}
    /\ venue[o].state = "NONE"
    /\ venue' = [venue EXCEPT ![o] = v]
    /\ request' = [q \in Requests |->
                     IF request[q].order = o /\ request[q].step = "waiting"
                       THEN [request[q] EXCEPT !.view = View(v)] ELSE request[q]]
    /\ UNCHANGED <<order, terms, cancel, sweep, boot, leverage, resets, sends, crashes>>

(* Lost on the way, refused with an error code, or refused as a duplicate  *)
(* client order id.                                                        *)
VenueDrops(o) ==
  /\ o \in wire /\ wire' = wire \ {o}
  /\ UNCHANGED <<order, terms, local, boot, venue, leverage, resets, sends, crashes>>

(* A live order fills or expires by itself. *)
VenueMoves(o) ==
  \E state \in {"PARTIALLY_FILLED", "FILLED", "EXPIRED"} : \E filled \in FillsOf(state) :
    /\ Live(venue[o]) /\ venue[o].known
    /\ IF state = "EXPIRED" THEN filled = venue[o].filled ELSE filled > venue[o].filled
    /\ venue' = [venue EXCEPT ![o].state = state, ![o].filled = filled]
    /\ UNCHANGED <<order, terms, local, boot, leverage, wire, resets, sends, crashes>>

VenueReset ==
  /\ resets < MaxResets /\ resets' = resets + 1
  /\ \E o \in Intents : venue[o].known
  /\ venue' = [o \in Intents |-> [venue[o] EXCEPT !.known = FALSE]]
  /\ UNCHANGED <<order, terms, local, boot, leverage, wire, sends, crashes>>

External ==
  \/ \E o \in Intents : VenueAccepts(o) \/ VenueDrops(o) \/ VenueMoves(o)
  \/ VenueReset

-----------------------------------------------------------------------------
(* cancel: the row is read, the venue asked, the answer applied. *)
CancelAt(c, step) == boot = "up" /\ cancel[c].step = step

CancelReturns(c) ==
  cancel' = [cancel EXCEPT ![c] = [IdleCancel EXCEPT !.step = "returned"]]

CancelRead(c, o) ==
  /\ CancelAt(c, "idle") /\ IsOpen(order[o])
  /\ cancel' = [cancel EXCEPT ![c].step = "asking", ![c].order = o]
  /\ UNCHANGED <<order, terms, request, sweep, boot, remote, sends, crashes>>

(* The DELETE: the venue cancels a live order and says so, or answers with *)
(* what a settled one became... *)
CancelAnswered(c) ==
  LET o == cancel[c].order
      v == IF Live(venue[o]) THEN [venue[o] EXCEPT !.state = "CANCELLED"] ELSE venue[o]
  IN
  /\ CancelAt(c, "asking") /\ venue[o].known
  /\ venue' = [venue EXCEPT ![o] = v]
  /\ cancel' = [cancel EXCEPT ![c].step = "applying", ![c].view = View(v)]
  /\ UNCHANGED <<order, terms, request, sweep, boot, leverage, wire, resets, sends, crashes>>

(* ...or there is no usable answer, whatever the venue did. *)
CancelFailed(c) ==
  LET o == cancel[c].order IN
  /\ CancelAt(c, "asking")
  /\ \/ UNCHANGED venue
     \/ /\ Live(venue[o]) /\ venue[o].known
        /\ venue' = [venue EXCEPT ![o].state = "CANCELLED"]
  /\ cancel' = [cancel EXCEPT ![c].step = "doubting"]
  /\ UNCHANGED <<order, terms, request, sweep, boot, leverage, wire, resets, sends, crashes>>

(* One reconcile call: raises where the decision is not a legal move. *)
TryReconcile(o, view) ==
  LET d == Decide(order[o], view) IN
  IF CanApply(order[o], d) THEN Store(o, AfterDecision(order[o], d)) ELSE UNCHANGED order

CancelApply(c) ==
  /\ CancelAt(c, "applying")
  /\ TryReconcile(cancel[c].order, cancel[c].view)
  /\ CancelReturns(c)
  /\ UNCHANGED <<terms, request, sweep, boot, remote, sends, crashes>>

(* Mutant: a cancellation that got no answer is taken to have worked. *)
CancelDoubtAssumed(c) ==
  /\ CancelAt(c, "doubting")
  /\ TryMove(cancel[c].order, "CANCELLED")
  /\ CancelReturns(c)
  /\ UNCHANGED <<terms, request, sweep, boot, remote, sends, crashes>>

CancelDoubt(c) ==
  /\ CancelAt(c, "doubting")
  /\ TryMove(cancel[c].order, "UNKNOWN")
  /\ CancelReturns(c)
  /\ UNCHANGED <<terms, request, sweep, boot, remote, sends, crashes>>

Cancel(c) ==
  \/ \E o \in Intents : CancelRead(c, o)
  \/ CancelAnswered(c) \/ CancelFailed(c) \/ CancelApply(c) \/ CancelDoubt(c)

-----------------------------------------------------------------------------
(* reconcile_all. *)
SweepAt(step) == boot = "up" /\ sweep.step = step

SweepScan ==
  LET candidates == {o \in Intents : IsOpen(order[o]) /\ order[o].reached} IN
  /\ Sweeping /\ SweepAt("idle") /\ candidates # {}
  /\ sweep' = [IdleSweep EXCEPT !.step = "asking", !.todo = candidates]
  /\ UNCHANGED <<order, terms, request, cancel, boot, remote, sends, crashes>>

Ask(o, answer) ==
  /\ SweepAt("asking") /\ o \in sweep.todo
  /\ sweep' = [sweep EXCEPT !.todo = @ \ {o}, !.answers[o] = answer]
  /\ UNCHANGED <<order, terms, request, cancel, boot, remote, sends, crashes>>

SweepAsk(o) == Ask(o, QueryOf(venue[o]))
SweepUnreachable(o) == Ask(o, Unreachable)

Candidates == {o \in Intents : sweep.answers[o] # NoView}
Vanished == {o \in Intents : sweep.answers[o] = Absent}
Answered == {o \in Candidates : sweep.answers[o] # Unreachable}

(* Venue-reset protection: everything that answered had vanished. *)
ResetSuspected == Cardinality(Vanished) >= 2 /\ Vanished = Answered

SweepJudge ==
  /\ SweepAt("asking") /\ sweep.todo = {}
  /\ sweep' = IF ResetSuspected
                THEN [sweep EXCEPT !.step = "reporting", !.todo = Vanished]
                ELSE [sweep EXCEPT !.step = "applying", !.todo = Candidates]
  /\ UNCHANGED <<order, terms, request, cancel, boot, remote, sends, crashes>>

AfterItem(o) ==
  IF sweep.todo = {o} THEN IdleSweep ELSE [sweep EXCEPT !.todo = @ \ {o}]

SweepReport(o) ==
  /\ SweepAt("reporting") /\ o \in sweep.todo
  /\ Store(o, WithDiscrepancy(order[o]))
  /\ sweep' = AfterItem(o)
  /\ UNCHANGED <<terms, request, cancel, boot, remote, sends, crashes>>

(* A reconcile that raises ends the sweep; the rest are not looked at. *)
SweepApply(o) ==
  /\ SweepAt("applying") /\ o \in sweep.todo
  /\ TryReconcile(o, sweep.answers[o])
  /\ sweep' = IF CanApply(order[o], Decide(order[o], sweep.answers[o]))
                THEN AfterItem(o) ELSE IdleSweep
  /\ UNCHANGED <<terms, request, cancel, boot, remote, sends, crashes>>

Sweep ==
  \/ SweepScan \/ SweepJudge
  \/ \E o \in Intents :
       SweepAsk(o) \/ SweepUnreachable(o) \/ SweepReport(o) \/ SweepApply(o)

-----------------------------------------------------------------------------
(* Death takes every coroutine with it, and nothing that is on the wire. *)
Crash ==
  /\ boot = "up" /\ crashes < MaxCrashes
  /\ boot' = "down" /\ crashes' = crashes + 1
  /\ request' = [q \in Requests |-> IdleRequest]
  /\ cancel' = [c \in Cancels |-> IdleCancel]
  /\ sweep' = IdleSweep
  /\ UNCHANGED <<order, terms, remote, sends>>

(* recover, which runs alone, before anything is served. *)
Restart ==
  /\ boot = "down" /\ boot' = "up"
  /\ order' = [o \in Intents |->
                 IF IsOpen(order[o]) /\ InFlight(order[o])
                   THEN Moved(order[o], "UNKNOWN") ELSE order[o]]
  /\ UNCHANGED <<terms, local, remote, sends, crashes>>

Next ==
  \/ \E q \in Requests : Submit(q)
  \/ \E c \in Cancels : Cancel(c)
  \/ Sweep \/ External \/ Crash \/ Restart

Spec == Init /\ [][Next]_vars

(***************************************************************************)
(* Not the code's scheduling: nothing under main.py or api/v1 ever calls   *)
(* reconcile_all.  Swept supposes that somebody does, over and over, and   *)
(* reaches the venue over and over.  Only the run that refutes             *)
(* DoubtIsSettled assumes it: not even such an operator settles the order. *)
(***************************************************************************)
Swept ==
  /\ WF_vars(Restart)
  /\ \A q \in Requests : WF_vars(Submit(q) /\ request[q].step # "idle")
  /\ WF_vars(SweepScan) /\ WF_vars(SweepJudge)
  /\ \A o \in Intents :
       /\ WF_vars(SweepReport(o)) /\ WF_vars(SweepApply(o))
       /\ WF_vars(SweepUnreachable(o)) /\ SF_vars(SweepAsk(o))

SweptSpec == Spec /\ Swept

-----------------------------------------------------------------------------
(***************************************************************************)
(* "Never retried": whatever is replayed, restarted or timed out, an       *)
(* intent is put on the wire at most once.                                 *)
(***************************************************************************)
SentAtMostOnce == \A o \in Intents : sends[o] <= 1

(***************************************************************************)
(* Nothing is at the venue, or on its way there, that the books do not     *)
(* carry as sent and open, unless the venue itself settled it.             *)
(***************************************************************************)
NothingUnaccounted ==
  \A o \in Intents :
    o \in wire \/ Live(venue[o]) => order[o].reached /\ IsOpen(order[o])

(***************************************************************************)
(* "No order was given a terminal state" on a guess: a sent order settled  *)
(* in the books was settled at the venue, the same way, and the books      *)
(* never claim more than was executed.  A reset, a silence, an answer gone *)
(* stale or a request still on the wire settles nothing.                   *)
(***************************************************************************)
BooksMatchVenue ==
  \A o \in Intents :
    /\ order[o].reached /\ IsTerminal(order[o]) => order[o].state = venue[o].state
    /\ order[o].filled <= venue[o].filled

(***************************************************************************)
(* "Recorded as UNKNOWN and will be reconciled against the venue": an      *)
(* order in doubt that the venue has settled is settled in the books.      *)
(***************************************************************************)
DoubtIsSettled ==
  \A o \in Intents :
    order[o].state = "UNKNOWN" /\ venue[o].state \in TerminalStates
      ~> IsTerminal(order[o])

=============================================================================
