--------------------------- MODULE OrderLifecycle ---------------------------
(***************************************************************************)
(* OrderLifecycleEngine over its durable store: every public method of     *)
(* engines/order/engine.py that changes an order, called in any order with *)
(* any answer a venue can give, by a process that may die between any two  *)
(* of them and runs recover() each time it starts.                         *)
(*                                                                         *)
(* A method that raises changes nothing, so the condition under which it   *)
(* raises is its guard.  Loading a row that fails its own validator raises *)
(* too, hence Readable in the guard of every method that loads one.        *)
(***************************************************************************)
EXTENDS OrderRecord, FiniteSets

CONSTANTS
  Orders,               \* client_order_ids: what an intent derives
  MaxCrashes,           \* bound on process deaths
  RejectedOnlyAtGate,   \* callers reject on risk grounds only before sending
  RepeatedReports       \* a venue may report one execution more than once

ASSUME MaxCrashesAssumption == MaxCrashes \in Nat
ASSUME CallersAssumption ==
  RejectedOnlyAtGate \in BOOLEAN /\ RepeatedReports \in BOOLEAN

VARIABLES
  order,         \* [Orders -> OrderRows], the durable rows
  boot,          \* "up", "recovering" or "down"
  toInterrupt,   \* what recover()'s scan classified as in flight
  toReport,      \* what it could not read
  crashes,       \* process deaths so far
  heard          \* history: the venue's last word on each order while open

vars == <<order, boot, toInterrupt, toReport, crashes, heard>>
recovery == <<boot, toInterrupt, toReport, crashes>>

Words == OrderState \cup {"NOTHING", "ABSENT"}

(* What a venue may say of an order that was sent to it.  SUBMITTED stands *)
(* for an answer no reconciliation may conclude, Quantity + 1 for a total  *)
(* past the quantity ordered.                                              *)
VenueViews ==
  [state : VenueStates \cup {"SUBMITTED"}, filled : 0..(Quantity + 1)]

Answers(r) ==
  {Absent, Unreachable} \cup (IF r.reached THEN VenueViews ELSE {})

Init ==
  /\ order = [o \in Orders |-> NoOrder]
  /\ boot = "up"
  /\ toInterrupt = {}
  /\ toReport = {}
  /\ crashes = 0
  /\ heard = [o \in Orders |-> "NOTHING"]

(* Every method loads the row under its lock first; the process serving    *)
(* calls is one whose recovery pass has ended.                             *)
Loaded(o) == boot = "up" /\ Exists(order[o]) /\ Readable(order[o])

Store(o, r) == order' = [order EXCEPT ![o] = r]

Hears(o, word) ==
  heard' = IF IsTerminal(order[o]) THEN heard ELSE [heard EXCEPT ![o] = word]

-----------------------------------------------------------------------------
(* Before anything is sent. *)

(* create, and the first create_or_get: a later one returns the stored row. *)
CreateOrder(o) ==
  /\ boot = "up" /\ ~Exists(order[o])
  /\ Store(o, NewOrder)
  /\ UNCHANGED <<recovery, heard>>

MarkValidating(o) ==
  /\ Loaded(o) /\ CanTransition(order[o].state, "VALIDATING")
  /\ Store(o, Moved(order[o], "VALIDATING"))
  /\ UNCHANGED <<recovery, heard>>

MarkRiskRejected(o) ==
  /\ Loaded(o) /\ CanTransition(order[o].state, "REJECTED")
  /\ RejectedOnlyAtGate => ~order[o].reached
  /\ Store(o, Moved(order[o], "REJECTED"))
  /\ UNCHANGED <<recovery, heard>>

CancelBeforeSubmission(o) ==
  /\ Loaded(o) /\ ~order[o].reached
  /\ CanTransition(order[o].state, "CANCELLED")
  /\ Store(o, Moved(order[o], "CANCELLED"))
  /\ UNCHANGED <<recovery, heard>>

-----------------------------------------------------------------------------
(* The uncertainty window. *)

(* Mutant: the submission stamp is left to the acknowledgement. *)
MarkSubmittingUnstamped(o) ==
  /\ Loaded(o) /\ CanTransition(order[o].state, "SUBMITTED")
  /\ Store(o, Moved(order[o], "SUBMITTED"))
  /\ UNCHANGED <<recovery, heard>>

MarkSubmitting(o) ==
  /\ Loaded(o) /\ CanTransition(order[o].state, "SUBMITTED")
  /\ Store(o, Submitting(order[o]))
  /\ UNCHANGED <<recovery, heard>>

(* Mutant: a late acknowledgement is written without consulting the table. *)
ApplyVenueAckUnchecked(o, s) ==
  /\ Loaded(o) /\ order[o].reached
  /\ Store(o, Moved(order[o], s))
  /\ Hears(o, s)
  /\ UNCHANGED recovery

(* A venue acknowledges and fills only what was sent to it, hence the      *)
(* stamp among the guards of this action and of ApplyFill.                 *)
ApplyVenueAck(o, s) ==
  /\ Loaded(o) /\ order[o].reached /\ CanTransition(order[o].state, s)
  /\ Store(o, Moved(order[o], s))
  /\ Hears(o, s)
  /\ UNCHANGED recovery

MarkUnknown(o) ==
  /\ Loaded(o) /\ CanTransition(order[o].state, "UNKNOWN")
  /\ Store(o, Moved(order[o], "UNKNOWN"))
  /\ UNCHANGED <<recovery, heard>>

(* An execution report; one past the quantity ordered is written down and  *)
(* not applied.                                                            *)
ApplyFill(o, f, q) ==
  /\ Loaded(o) /\ order[o].reached
  /\ RepeatedReports \/ f \notin order[o].fillRows
  /\ \/ /\ Overfills(order[o], q)
        /\ Store(o, WithDiscrepancy(order[o]))
        /\ UNCHANGED heard
     \/ /\ ~Overfills(order[o], q)
        /\ CanTransition(order[o].state, FillTarget(order[o], q))
        /\ Store(o, WithFill(order[o], f, q))
        /\ Hears(o, FillTarget(order[o], q))
  /\ UNCHANGED recovery

-----------------------------------------------------------------------------
(* Reconciliation. *)

BeginReconciliation(o) ==
  /\ Loaded(o) /\ CanTransition(order[o].state, "RECONCILING")
  /\ Store(o, Moved(order[o], "RECONCILING"))
  /\ UNCHANGED <<recovery, heard>>

(* decide and apply_reconciliation under one lock. *)
Reconcile(o, answer) ==
  LET d == Decide(order[o], answer) IN
  /\ Loaded(o) /\ CanApply(order[o], d)
  /\ Store(o, AfterDecision(order[o], d))
  /\ IF answer = Unreachable THEN UNCHANGED heard ELSE Hears(o, answer.state)
  /\ UNCHANGED recovery

ResolveManually(o, to) ==
  /\ Loaded(o) /\ CanResolve(order[o], to)
  /\ Store(o, ResolvedBy(order[o], to))
  /\ UNCHANGED <<recovery, heard>>

-----------------------------------------------------------------------------
(* Death and recovery. *)

Crash ==
  /\ crashes < MaxCrashes
  /\ boot' = "down"
  /\ toInterrupt' = {} /\ toReport' = {}
  /\ crashes' = crashes + 1
  /\ UNCHANGED <<order, heard>>

(* Mutants: only unacknowledged submissions are doubted; the scan sweeps   *)
(* up orders that are UNKNOWN already.                                     *)
RecoverScanSubmittedOnly ==
  LET open == {o \in Orders : IsOpen(order[o])} IN
  /\ boot = "down"
  /\ boot' = "recovering"
  /\ toInterrupt' = {o \in open : Readable(order[o]) /\ order[o].state = "SUBMITTED"}
  /\ toReport' = {o \in open : ~Readable(order[o])}
  /\ UNCHANGED <<order, crashes, heard>>

RecoverScanEverySent ==
  LET open == {o \in Orders : IsOpen(order[o])} IN
  /\ boot = "down"
  /\ boot' = "recovering"
  /\ toInterrupt' = {o \in open : Readable(order[o]) /\ order[o].reached}
  /\ toReport' = {o \in open : ~Readable(order[o])}
  /\ UNCHANGED <<order, crashes, heard>>

RecoverScan ==
  LET open == {o \in Orders : IsOpen(order[o])} IN
  /\ boot = "down"
  /\ boot' = "recovering"
  /\ toInterrupt' = {o \in open : Readable(order[o]) /\ InFlight(order[o])}
  /\ toReport' = {o \in open : ~Readable(order[o])}
  /\ UNCHANGED <<order, crashes, heard>>

(* One transaction per interrupted order... *)
RecoverInterrupted(o) ==
  /\ boot = "recovering" /\ o \in toInterrupt
  /\ CanTransition(order[o].state, "UNKNOWN")
  /\ Store(o, Moved(order[o], "UNKNOWN"))
  /\ toInterrupt' = toInterrupt \ {o}
  /\ UNCHANGED <<boot, toReport, crashes, heard>>

(* ... then one per row that would not load. *)
RecoverUnreadable(o) ==
  /\ boot = "recovering" /\ toInterrupt = {} /\ o \in toReport
  /\ Store(o, WithDiscrepancy(order[o]))
  /\ toReport' = toReport \ {o}
  /\ UNCHANGED <<boot, toInterrupt, crashes, heard>>

RecoverDone ==
  /\ boot = "recovering" /\ toInterrupt = {} /\ toReport = {}
  /\ boot' = "up"
  /\ UNCHANGED <<order, toInterrupt, toReport, crashes, heard>>

Recover ==
  \/ RecoverScan
  \/ \E o \in Orders : RecoverInterrupted(o) \/ RecoverUnreadable(o)
  \/ RecoverDone

-----------------------------------------------------------------------------
Call(o) ==
  \/ CreateOrder(o) \/ MarkValidating(o) \/ MarkRiskRejected(o)
  \/ CancelBeforeSubmission(o) \/ MarkSubmitting(o)
  \/ \E s \in VenueStates : ApplyVenueAck(o, s)
  \/ MarkUnknown(o)
  \/ \E f \in FillIds, q \in 1..Quantity : ApplyFill(o, f, q)
  \/ BeginReconciliation(o)
  \/ \E answer \in Answers(order[o]) : Reconcile(o, answer)
  \/ \E to \in OrderState : ResolveManually(o, to)

Next == (\E o \in Orders : Call(o)) \/ Crash \/ Recover

(* Recovery runs to its end once started: startup awaits it.  Nobody is    *)
(* obliged to call the engine and nothing is obliged to crash.             *)
Spec == Init /\ [][Next]_vars /\ WF_vars(Recover)

-----------------------------------------------------------------------------
(* reconciliation_pending: what the risk engine is told blocks an entry. *)
Blocking == {o \in Orders : Blocks(order[o])}

(* Types, and that the recovery pass only runs between a death and a boot. *)
TypeOK ==
  /\ order \in [Orders -> OrderRows]
  /\ boot \in {"up", "recovering", "down"}
  /\ toInterrupt \subseteq Orders /\ toReport \subseteq Orders
  /\ crashes \in 0..MaxCrashes
  /\ heard \in [Orders -> Words]

(***************************************************************************)
(* The submission stamp decides what an absent order means, so it must     *)
(* agree with the state at all times: nothing working or unresolved is     *)
(* unstamped, and nothing stamped can be back among the drafts.            *)
(***************************************************************************)
StampAgreesWithState ==
  \A o \in Orders :
    /\ order[o].reached => order[o].state \notin DraftStates \cup {"NONE"}
    /\ order[o].state \in WorkingStates \cup UnreconciledStates => order[o].reached

(***************************************************************************)
(* "Never infer a fill": an order that was sent is settled only by what    *)
(* the venue last said of it while it was open, or by a named operator.    *)
(* Absence, silence, a timer or a crash settle nothing.                    *)
(***************************************************************************)
NoFabricatedOutcome ==
  \A o \in Orders :
    order[o].reached /\ IsTerminal(order[o]) =>
      order[o].operator \/ heard[o] = order[o].state

(***************************************************************************)
(* Terminal is terminal, whatever arrives late: neither the state, nor the *)
(* total, nor who settled it changes again.                                *)
(***************************************************************************)
SettledIsFinal ==
  [][\A o \in Orders :
       IsTerminal(order[o]) =>
         /\ order'[o].state = order[o].state
         /\ order'[o].filled = order[o].filled
         /\ order'[o].operator = order[o].operator]_vars

(***************************************************************************)
(* UNKNOWN has one exit: an order leaves it by being asked about, or in an *)
(* operator's hands, and then on the record.                               *)
(***************************************************************************)
UnknownLeavesByAsking ==
  [][\A o \in Orders :
       order[o].state = "UNKNOWN" /\ order'[o].state # "UNKNOWN" =>
         order'[o].state = "RECONCILING" \/ order'[o].operator]_vars

(***************************************************************************)
(* Fills only go forward, across reports, adopted totals and crashes, and  *)
(* the submission stamp is never taken back.                               *)
(***************************************************************************)
FillsOnlyGrow ==
  [][\A o \in Orders :
       /\ order'[o].filled >= order[o].filled
       /\ order[o].reached => order'[o].reached]_vars

(***************************************************************************)
(* When recovery ends, every sent and unsettled order blocks new entries,  *)
(* including the ones that could not be read and the ones a first, cut     *)
(* short, recovery pass had already reached.                               *)
(***************************************************************************)
RecoveryBlocksWhatItCannotSee ==
  [][boot = "recovering" /\ boot' = "up" =>
       \A o \in Orders : IsOpen(order[o]) /\ order[o].reached => o \in Blocking]_vars

(* A recovery pass that is not killed ends: none of its moves can raise. *)
RecoveryFinishes == (boot # "up") ~> (boot = "up")

(***************************************************************************)
(* The lifecycle implements OrderPromise: forget everything about a row    *)
(* but its phase and its total.                                            *)
(***************************************************************************)
PhaseOf(r) ==
  CASE r.state \in DraftStates        -> "draft"
    [] r.state \in WorkingStates      -> "working"
    [] r.state \in UnreconciledStates -> "doubtful"
    [] r.state \in TerminalStates     -> "settled"
    [] OTHER                          -> "none"

Promise ==
  INSTANCE OrderPromise WITH
    phase <- [o \in Orders |-> PhaseOf(order[o])],
    executed <- [o \in Orders |-> order[o].filled]

(* Every run of the lifecycle, mapped, is a run the promise allows. *)
KeepsPromise == Promise!PSpec
=============================================================================
