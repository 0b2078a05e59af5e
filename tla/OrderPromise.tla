---------------------------- MODULE OrderPromise ----------------------------
(***************************************************************************)
(* What the order lifecycle promises, without its twelve states: an order  *)
(* is a draft, then working at the venue, then settled; doubt about it is  *)
(* a phase of its own.  A draft that is dropped leaves nothing executed,   *)
(* doubt is entered only by orders that were sent, executed quantity only  *)
(* grows and never passes the quantity ordered, and a settled order is     *)
(* never heard of again.                                                   *)
(*                                                                         *)
(* Documented by docs/order-engine.md, sections 2 and 4; implemented by    *)
(* OrderLifecycle under the mapping that module's theorems use.            *)
(***************************************************************************)
EXTENDS Integers

CONSTANTS Orders, Quantity

VARIABLES
  phase,      \* [Orders -> Phases]
  executed    \* [Orders -> 0..Quantity]

pvars == <<phase, executed>>

Phases == {"none", "draft", "working", "doubtful", "settled"}

PInit ==
  /\ phase = [o \in Orders |-> "none"]
  /\ executed = [o \in Orders |-> 0]

Enter(o, from, to) == phase[o] \in from /\ phase' = [phase EXCEPT ![o] = to]

Executes(o) ==
  \E n \in executed[o]..Quantity : executed' = [executed EXCEPT ![o] = n]

Draft(o) == Enter(o, {"none"}, "draft") /\ UNCHANGED executed
Drop(o) == Enter(o, {"draft"}, "settled") /\ UNCHANGED executed
Send(o) == Enter(o, {"draft"}, "working") /\ UNCHANGED executed
Progress(o) == Enter(o, {"working"}, "working") /\ Executes(o)
Doubt(o) == Enter(o, {"working"}, "doubtful") /\ UNCHANGED executed
Resume(o) == Enter(o, {"doubtful"}, "working") /\ Executes(o)
Settle(o) == Enter(o, {"working", "doubtful"}, "settled") /\ Executes(o)

PNext ==
  \E o \in Orders :
    \/ Draft(o) \/ Drop(o) \/ Send(o) \/ Progress(o)
    \/ Doubt(o) \/ Resume(o) \/ Settle(o)

PSpec == PInit /\ [][PNext]_pvars
=============================================================================
