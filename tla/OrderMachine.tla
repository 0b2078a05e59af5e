---------------------------- MODULE OrderMachine ----------------------------
(***************************************************************************)
(* The order state machine of engines/order/machine.py: the states an      *)
(* order can be in, the one transition table every mutation is checked     *)
(* against, and the classifications the rest of the system reads off a     *)
(* state (domain/enums.py, domain/order.py).                               *)
(*                                                                         *)
(* Pure definitions: a rejected transition raises in the code and changes  *)
(* nothing, so in the modules built on this one CanTransition is a guard.  *)
(***************************************************************************)

TerminalStates == {"FILLED", "CANCELLED", "REJECTED", "EXPIRED"}

(* Never sent: the record has no submission stamp. *)
DraftStates == {"CREATED", "VALIDATING"}

(* Sent, and the venue's last word still stands. *)
WorkingStates == {"SUBMITTED", "ACCEPTED", "PARTIALLY_FILLED", "CANCEL_REQUESTED"}

(* "The exchange has not told us yet": these block new entries. *)
UnreconciledStates == {"UNKNOWN", "RECONCILING"}

OrderState ==
    DraftStates \cup WorkingStates \cup UnreconciledStates \cup TerminalStates

(* The table, as its edges. *)
LegalTransitions ==
  UNION {
    {"CREATED"} \X {"VALIDATING", "CANCELLED", "REJECTED"},
    {"VALIDATING"} \X {"SUBMITTED", "REJECTED", "CANCELLED"},
    {"SUBMITTED"} \X ({"ACCEPTED", "PARTIALLY_FILLED", "UNKNOWN"} \cup TerminalStates),
    {"ACCEPTED"} \X {"PARTIALLY_FILLED", "FILLED", "CANCEL_REQUESTED",
                     "CANCELLED", "EXPIRED", "UNKNOWN"},
    {"PARTIALLY_FILLED"} \X {"PARTIALLY_FILLED", "FILLED", "CANCEL_REQUESTED",
                             "CANCELLED", "EXPIRED", "UNKNOWN"},
    {"CANCEL_REQUESTED"} \X {"CANCELLED", "FILLED", "PARTIALLY_FILLED",
                             "EXPIRED", "UNKNOWN"},
    {"UNKNOWN"} \X {"RECONCILING"},
    {"RECONCILING"} \X ({"ACCEPTED", "PARTIALLY_FILLED", "UNKNOWN"} \cup TerminalStates)}

CanTransition(from, to) == <<from, to>> \in LegalTransitions

(* What reconciliation may conclude about an order. *)
Resolvable(state) == CanTransition("RECONCILING", state)

(***************************************************************************)
(* What an adapter can report: venue_status.py maps every published venue  *)
(* status onto one of these and refuses the rest.                          *)
(***************************************************************************)
VenueStates == {"ACCEPTED", "PARTIALLY_FILLED"} \cup TerminalStates
=============================================================================
