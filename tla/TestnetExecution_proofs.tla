----------------------- MODULE TestnetExecution_proofs -----------------------
(***************************************************************************)
(* Proofs about TestnetExecution for any intents, requests, cancellations, *)
(* deaths and resets.  What makes the books right is that everything a     *)
(* coroutine carries across an await only grows older, never false: the    *)
(* venue settles once, fills only grow, a stamp is not taken back.  IInv   *)
(* says so of each coroutine, and of each order beside the venue.          *)
(***************************************************************************)
EXTENDS TestnetExecution, TLAPS

USE TestnetAssumption, QuantityAssumption

-----------------------------------------------------------------------------
(* Types.  The rows here never store a fill: fills arrive by adoption.     *)
Rows ==
  [state : OrderState \cup {"NONE"}, reached : BOOLEAN, filled : Nat,
   fillRows : {{}}, rowsTotal : {0}, disputed : BOOLEAN, operator : BOOLEAN]

VenueOrders ==
  [state : VenueStates \cup {"NONE"}, filled : Nat, known : BOOLEAN, leverage : Nat]

Views == [state : VenueStates \cup {"NONE", "ABSENT", "UNREACHABLE"}, filled : Nat]

BeforeStamp ==
  {"created", "ruling", "approved", "levered", "refusing", "sized", "stamping"}
AfterSend == {"waiting", "acking", "doubting"}
Driving == BeforeStamp \cup {"leaving"} \cup AfterSend

RequestRecords ==
  [step : Driving \cup {"idle", "returned"}, order : Intents \cup {NoIntent},
   leverage : Nat, row : Rows, view : Views]

CancelRecords ==
  [step : {"idle", "asking", "applying", "doubting", "returned"},
   order : Intents \cup {NoIntent}, view : Views]

SweepRecords ==
  [step : {"idle", "asking", "reporting", "applying"}, todo : SUBSET Intents,
   answers : [Intents -> Views]]

Types ==
  /\ order \in [Intents -> Rows]
  /\ request \in [Requests -> RequestRecords]
  /\ cancel \in [Cancels -> CancelRecords]
  /\ sweep \in SweepRecords
  /\ venue \in [Intents -> VenueOrders]
  /\ leverage \in Nat
  /\ wire \subseteq Intents
  /\ sends \in [Intents -> Nat]

-----------------------------------------------------------------------------
(* The parts of the inductive invariant. *)

(* An order in the books, on the wire and at the venue. *)
OrderOK(o) ==
  /\ sends[o] <= 1
  /\ sends[o] # 0 => order[o].reached
  /\ sends[o] = 0 => o \notin wire /\ venue[o].state = "NONE"
  /\ o \in wire => venue[o].state = "NONE"
  /\ venue[o].known => venue[o].state # "NONE"
  /\ venue[o].state = "NONE" => venue[o].filled = 0
  /\ order[o].reached => order[o].state \notin DraftStates \cup {"NONE"}
  /\ order[o].state \in WorkingStates \cup UnreconciledStates => order[o].reached
  /\ order[o].reached /\ IsTerminal(order[o]) => order[o].state = venue[o].state
  /\ order[o].filled <= venue[o].filled

(* What the venue once said of an order, as far as it still binds. *)
Told(o, view) ==
  /\ view.state \in VenueStates
  /\ venue[o].state # "NONE"
  /\ view.state \in TerminalStates => venue[o].state = view.state
  /\ view.filled <= venue[o].filled

(* A submit call and the order it drives. *)
RequestOK(q) ==
  LET o == request[q].order IN
  /\ request[q].step \in Driving => o \in Intents /\ Exists(order[o])
  /\ request[q].step \in BeforeStamp => ~order[o].reached
  /\ request[q].step = "sized" => request[q].row = order[o]
  /\ request[q].step = "leaving" => order[o].reached /\ sends[o] = 0
  /\ request[q].step \in AfterSend => sends[o] # 0
  /\ request[q].step = "idle" => request[q].view = NoView
  /\ request[q].step = "acking" => request[q].view # NoView
  /\ request[q].view = NoView \/ (o \in Intents /\ Told(o, request[q].view))

OneDriver ==
  \A q, q2 \in Requests :
    /\ request[q].step \in Driving /\ request[q2].step \in Driving
    /\ request[q].order = request[q2].order
    => q = q2

CancelOK(c) ==
  /\ cancel[c].step \in {"asking", "applying", "doubting"} => cancel[c].order \in Intents
  /\ cancel[c].step = "applying" => Told(cancel[c].order, cancel[c].view)

SweepOK(o) ==
  /\ o \in sweep.todo \/ sweep.answers[o] # NoView => order[o].reached
  /\ sweep.step # "asking" /\ o \in sweep.todo => sweep.answers[o] # NoView
  /\ sweep.answers[o] \in {NoView, Absent, Unreachable} \/ Told(o, sweep.answers[o])

IInv ==
  /\ Types
  /\ \A o \in Intents : OrderOK(o) /\ SweepOK(o)
  /\ \A q \in Requests : RequestOK(q)
  /\ OneDriver
  /\ \A c \in Cancels : CancelOK(c)

-----------------------------------------------------------------------------
(* How an order and the venue may move, so that what is held stays true. *)
OrderGrows(o) ==
  /\ order[o].reached => order'[o].reached
  /\ Exists(order[o]) => Exists(order'[o])

VenueGrows(o) ==
  /\ venue[o].state # "NONE" => venue'[o].state # "NONE"
  /\ venue[o].state \in TerminalStates => venue'[o].state = venue[o].state
  /\ venue[o].filled <= venue'[o].filled

(* A row that may take the place of the one stored. *)
RowOK(o, r) ==
  /\ r \in Rows
  /\ order[o].reached => r.reached
  /\ Exists(order[o]) => Exists(r)
  /\ r.reached => r.state \notin DraftStates \cup {"NONE"}
  /\ r.state \in WorkingStates \cup UnreconciledStates => r.reached
  /\ r.reached /\ IsTerminal(r) => r.state = venue[o].state
  /\ r.filled <= venue[o].filled

(* The transition table, as far as these proofs need it. *)
LEMMA MoveFacts ==
  ASSUME NEW s, NEW t, CanTransition(s, t)
  PROVE  /\ t \in OrderState /\ t # "NONE" /\ s # "NONE" /\ s \notin TerminalStates
         /\ t \in DraftStates => s \in DraftStates
         /\ t \in (WorkingStates \ {"SUBMITTED"}) \cup UnreconciledStates
              => s \in WorkingStates \cup UnreconciledStates
  BY DEF CanTransition, LegalTransitions, OrderState, DraftStates,
         WorkingStates, UnreconciledStates, TerminalStates

(* What the venue told stays told. *)
LEMMA ToldKept ==
  ASSUME Types, Types', NEW o \in Intents, VenueGrows(o), NEW view \in Views, Told(o, view)
  PROVE  Told(o, view)'
<1>1. venue[o].filled \in Nat /\ venue'[o].filled \in Nat /\ view.filled \in Nat
  BY DEF Types, VenueOrders, Views
<1>2. view.filled <= venue'[o].filled
  BY <1>1 DEF Told, VenueGrows
<1> QED BY <1>2 DEF Told, VenueGrows

(* So does every cancellation that is under way. *)
LEMMA CancelsKept ==
  ASSUME IInv, Types', cancel' = cancel, \A o \in Intents : VenueGrows(o)
  PROVE  \A c \in Cancels : CancelOK(c)'
<1> SUFFICES ASSUME NEW c \in Cancels PROVE CancelOK(c)'
  OBVIOUS
<1>1. CancelOK(c) /\ cancel[c].view \in Views
  BY DEF IInv, Types, CancelRecords
<1>2. ASSUME cancel[c].step = "applying"
      PROVE  Told(cancel[c].order, cancel[c].view)'
  BY <1>1, <1>2, ToldKept DEF CancelOK, IInv, Types
<1> QED BY <1>1, <1>2 DEF CancelOK

(* The sweep keeps what it was told while orders only grow older. *)
LEMMA SweepKept ==
  ASSUME IInv, Types', sweep' = sweep,
         \A o \in Intents : VenueGrows(o) /\ OrderGrows(o)
  PROVE  \A o \in Intents : SweepOK(o)'
<1> SUFFICES ASSUME NEW o \in Intents PROVE SweepOK(o)'
  OBVIOUS
<1>1. SweepOK(o) /\ sweep.answers[o] \in Views
  BY DEF IInv, Types, SweepRecords
<1>2. Told(o, sweep.answers[o]) => Told(o, sweep.answers[o])'
  BY <1>1, ToldKept DEF IInv
<1> QED BY <1>1, <1>2 DEF SweepOK, OrderGrows

(* A call that does not move keeps what it holds, if nobody takes its      *)
(* order from it before the stamp.                                         *)
LEMMA RequestKept ==
  ASSUME IInv, Types', NEW q \in Requests, request'[q] = request[q],
         \A o \in Intents : VenueGrows(o) /\ OrderGrows(o),
         request[q].step \in Driving =>
           LET o == request[q].order
           IN sends'[o] = sends[o] /\ (order'[o] = order[o] \/ order[o].reached)
  PROVE  RequestOK(q)'
<1> DEFINE o == request[q].order
<1>1. RequestOK(q) /\ request[q].view \in Views
  BY DEF IInv, Types, RequestRecords
<1>2. ASSUME request[q].view # NoView
      PROVE  o \in Intents /\ Told(o, request[q].view)'
  BY <1>1, <1>2, ToldKept DEF RequestOK, IInv
<1>3. ASSUME request[q].step \in Driving
      PROVE  /\ o \in Intents /\ Exists(order'[o])
             /\ request[q].step \in BeforeStamp => ~order'[o].reached
             /\ request[q].step = "sized" => request[q].row = order'[o]
             /\ request[q].step = "leaving" => order'[o].reached /\ sends'[o] = 0
             /\ request[q].step \in AfterSend => sends'[o] # 0
  BY <1>1, <1>3 DEF RequestOK, OrderGrows, BeforeStamp
<1>4. BeforeStamp \cup AfterSend \cup {"sized", "leaving"} \subseteq Driving
  BY DEF Driving, BeforeStamp
<1>5. /\ request[q].step = "idle" => request[q].view = NoView
      /\ request[q].step = "acking" => request[q].view # NoView
  BY <1>1 DEF RequestOK
<1> QED BY <1>2, <1>3, <1>4, <1>5 DEF RequestOK

(* The orders that one stored row leaves as they were, and the one it      *)
(* changes.                                                                *)
LEMMA Stored ==
  ASSUME IInv, NEW o \in Intents, NEW r, Store(o, r), RowOK(o, r),
         UNCHANGED <<venue, wire, sends>>
  PROVE  /\ order' \in [Intents -> Rows]
         /\ order'[o] = r
         /\ \A p \in Intents \ {o} : order'[p] = order[p]
         /\ \A p \in Intents : OrderOK(p)' /\ OrderGrows(p) /\ VenueGrows(p)
<1>1. /\ order' \in [Intents -> Rows] /\ order'[o] = r
      /\ \A p \in Intents \ {o} : order'[p] = order[p]
  BY DEF Store, RowOK, IInv, Types
<1>2. ASSUME NEW p \in Intents
      PROVE  OrderGrows(p) /\ VenueGrows(p)
  <2>1. venue[p].filled \in Nat
    BY DEF IInv, Types, VenueOrders
  <2> QED BY <1>1, <2>1 DEF RowOK, OrderGrows, VenueGrows
<1>3. ASSUME NEW p \in Intents
      PROVE  OrderOK(p)'
  BY <1>1, <1>2 DEF OrderOK, IInv, RowOK, OrderGrows
<1> QED BY <1>1, <1>2, <1>3

(* Nothing stored: everything grows. *)
LEMMA NothingStored ==
  ASSUME IInv, UNCHANGED <<order, venue, wire, sends>>
  PROVE  /\ order' \in [Intents -> Rows]
         /\ \A p \in Intents : OrderOK(p)' /\ OrderGrows(p) /\ VenueGrows(p)
<1>1. ASSUME NEW p \in Intents
      PROVE  OrderOK(p)' /\ OrderGrows(p) /\ VenueGrows(p)
  <2>1. venue[p].filled \in Nat
    BY DEF IInv, Types, VenueOrders
  <2> QED BY <2>1 DEF OrderOK, IInv, OrderGrows, VenueGrows
<1> QED BY <1>1 DEF IInv, Types

(* A step of one call on its own order. *)
LEMMA RequestFrame ==
  ASSUME IInv, NEW q \in Requests, request[q].step \in Driving,
         request' \in [Requests -> RequestRecords],
         \A p \in Requests \ {q} : request'[p] = request[p],
         request'[q].order = request[q].order,
         RequestOK(q)',
         UNCHANGED <<cancel, sweep, venue>>,
         order' \in [Intents -> Rows], leverage' \in Nat,
         wire' \subseteq Intents, sends' \in [Intents -> Nat],
         \A p \in Intents : OrderOK(p)' /\ OrderGrows(p),
         \A p \in Intents \ {request[q].order} : order'[p] = order[p] /\ sends'[p] = sends[p]
  PROVE  IInv'
<1>1. Types'
  BY DEF IInv, Types
<1>2. \A o \in Intents : VenueGrows(o)
  <2>1. \A o \in Intents : venue[o].filled \in Nat
    BY DEF IInv, Types, VenueOrders
  <2> QED BY <2>1 DEF VenueGrows
<1>3. ASSUME NEW p \in Requests PROVE RequestOK(p)'
  <2>1. CASE p = q
    BY <2>1
  <2>2. CASE p # q
    <3>1. request'[p] = request[p]
      BY <2>2
    <3>2. ASSUME request[p].step \in Driving
          PROVE  request[p].order \in Intents \ {request[q].order}
      BY <2>2, <3>2 DEF IInv, OneDriver, RequestOK
    <3> QED BY <1>1, <1>2, <3>1, <3>2, RequestKept
  <2> QED BY <2>1, <2>2
<1>4. OneDriver'
  <2>1. \A p \in Requests : /\ request'[p].order = request[p].order
                            /\ request'[p].step \in Driving => request[p].step \in Driving
    OBVIOUS
  <2> QED BY <2>1 DEF OneDriver, IInv
<1> QED BY <1>1, <1>2, <1>3, <1>4, CancelsKept, SweepKept DEF IInv

-----------------------------------------------------------------------------
(* The rows that the engine's moves make. *)
LEMMA MovedOK ==
  ASSUME IInv, NEW o \in Intents, NEW t, CanTransition(order[o].state, t), t # "SUBMITTED",
         order[o].reached /\ t \in TerminalStates => venue[o].state = t
  PROVE  /\ RowOK(o, Moved(order[o], t))
         /\ Moved(order[o], t).reached = order[o].reached
         /\ Exists(Moved(order[o], t))
<1> DEFINE r == order[o]  m == Moved(r, t)
<1>1. r \in Rows /\ OrderOK(o)
  BY DEF IInv, Types
<1>2. /\ t \in OrderState /\ t # "NONE"
      /\ t \in DraftStates => r.state \in DraftStates
      /\ t \in (WorkingStates \ {"SUBMITTED"}) \cup UnreconciledStates
           => r.state \in WorkingStates \cup UnreconciledStates
  BY MoveFacts
<1>3. /\ m \in Rows
      /\ m.state = t /\ m.reached = r.reached /\ m.filled = r.filled
  BY <1>1, <1>2 DEF Moved, Rows
<1> HIDE DEF m, r
<1>4. m.reached => m.state \notin DraftStates \cup {"NONE"}
  BY <1>1, <1>2, <1>3 DEF OrderOK, r
<1>5. m.state \in WorkingStates \cup UnreconciledStates => m.reached
  BY <1>1, <1>2, <1>3 DEF OrderOK, r
<1>6. m.reached /\ IsTerminal(m) => m.state = venue[o].state
  BY <1>3 DEF IsTerminal, r
<1>7. m.filled <= venue[o].filled
  BY <1>1, <1>3 DEF OrderOK, r
<1> QED BY <1>2, <1>3, <1>4, <1>5, <1>6, <1>7 DEF RowOK, Exists, m, r

(* A guarded move makes the row it would make, or leaves the one there is. *)
LEMMA TryMoved ==
  ASSUME IInv, NEW o \in Intents, NEW t, TryMove(o, t), t # "SUBMITTED",
         order[o].reached /\ t \in TerminalStates => venue[o].state = t,
         UNCHANGED <<venue, wire, sends>>
  PROVE  /\ order' \in [Intents -> Rows]
         /\ \A p \in Intents \ {o} : order'[p] = order[p]
         /\ order'[o].reached = order[o].reached
         /\ \A p \in Intents : OrderOK(p)' /\ OrderGrows(p) /\ VenueGrows(p)
<1>1. CASE CanTransition(order[o].state, t)
  BY <1>1, MovedOK, Stored DEF TryMove
<1>2. CASE ~CanTransition(order[o].state, t)
  BY <1>2, NothingStored DEF TryMove
<1> QED BY <1>1, <1>2

(* The stamp and SUBMITTING in one write, before the wire (engine.py). *)
LEMMA SubmittingOK ==
  ASSUME IInv, NEW o \in Intents
  PROVE  /\ RowOK(o, Submitting(order[o]))
         /\ Submitting(order[o]).reached /\ Exists(Submitting(order[o]))
<1> DEFINE r == order[o]  m == Submitting(r)
<1>1. r \in Rows /\ OrderOK(o)
  BY DEF IInv, Types
<1>2. /\ m \in Rows
      /\ m.state = "SUBMITTED" /\ m.reached /\ m.filled = r.filled
  BY <1>1 DEF Submitting, Rows, OrderState, WorkingStates
<1> QED BY <1>1, <1>2 DEF RowOK, Exists, OrderOK, IsTerminal, TerminalStates, DraftStates

-----------------------------------------------------------------------------
(* A call that goes on: only its step changes. *)
LEMMA GotoFacts ==
  ASSUME Types, NEW q \in Requests, NEW s \in Driving, Goto(q, s)
  PROVE  /\ request' \in [Requests -> RequestRecords]
         /\ \A p \in Requests \ {q} : request'[p] = request[p]
         /\ request'[q].step = s /\ request'[q].order = request[q].order
         /\ request'[q].view = request[q].view /\ request'[q].row = request[q].row
<1>1. request[q] \in RequestRecords /\ request' = [request EXCEPT ![q].step = s]
  BY DEF Types, Goto
<1>2. request'[q] = [request[q] EXCEPT !.step = s]
  BY <1>1 DEF Types
<1>3. /\ request'[q] \in RequestRecords
      /\ request'[q].step = s /\ request'[q].order = request[q].order
      /\ request'[q].view = request[q].view /\ request'[q].row = request[q].row
  BY <1>1, <1>2 DEF RequestRecords
<1> QED BY <1>1, <1>3 DEF Types

(* What a record holds before anything is known. *)
LEMMA Blanks == NoOrder \in Rows /\ NoView \in Views /\ NewOrder \in Rows
  BY DEF NoOrder, NewOrder, NoView, Rows, Views, OrderState, DraftStates

(* A call that returns lets go of its order. *)
LEMMA ReturnFacts ==
  ASSUME Types, NEW q \in Requests, Returns(q)
  PROVE  /\ request' \in [Requests -> RequestRecords]
         /\ \A p \in Requests \ {q} : request'[p] = request[p]
         /\ request'[q].step = "returned" /\ request'[q].order = request[q].order
         /\ request'[q].view = NoView
<1>1. request[q] \in RequestRecords
  BY DEF Types
<1>2. request'[q] = [step |-> "returned", order |-> request[q].order, leverage |-> 0,
                     row |-> NoOrder, view |-> NoView]
  BY DEF Types, Returns, Returned, IdleRequest
<1>3. request'[q] \in RequestRecords
  BY <1>1, <1>2, Blanks DEF RequestRecords
<1> QED BY <1>2, <1>3 DEF Types, Returns, Returned

(* What was told is held while a call goes on. *)
LEMMA ViewHeld ==
  ASSUME IInv, NEW q \in Requests, venue' = venue,
         request'[q].view = request[q].view, request'[q].order = request[q].order
  PROVE  \/ request'[q].view = NoView
         \/ request'[q].order \in Intents /\ Told(request[q].order, request[q].view)'
  BY DEF IInv, RequestOK, Told

(* An order that one call drives is driven by no other. *)
LEMMA Driven ==
  ASSUME IInv, NEW q \in Requests, request[q].step \in Driving
  PROVE  /\ request[q].order \in Intents /\ Exists(order[request[q].order])
         /\ order[request[q].order] \in Rows
  BY DEF IInv, RequestOK, Types

(* A returned call holds nothing. *)
LEMMA ReturnedOK ==
  ASSUME NEW q \in Requests, request'[q].step = "returned", request'[q].view = NoView
  PROVE  RequestOK(q)'
  BY DEF RequestOK, Driving, BeforeStamp, AfterSend

(* A call that goes on without touching its order. *)
LEMMA Advanced ==
  ASSUME IInv, NEW q \in Requests, request[q].step \in Driving,
         request' \in [Requests -> RequestRecords],
         \A p \in Requests \ {q} : request'[p] = request[p],
         request'[q].order = request[q].order,
         RequestOK(q)',
         UNCHANGED <<order, cancel, sweep, venue, wire, sends>>, leverage' \in Nat
  PROVE  IInv'
<1>1. \A p \in Intents : OrderOK(p)' /\ OrderGrows(p)
  BY NothingStored
<1>2. order' \in [Intents -> Rows] /\ wire' \subseteq Intents /\ sends' \in [Intents -> Nat]
  BY DEF IInv, Types
<1>3. \A p \in Intents : order'[p] = order[p] /\ sends'[p] = sends[p]
  OBVIOUS
<1> QED BY <1>1, <1>2, <1>3, RequestFrame

-----------------------------------------------------------------------------
(* submit, action by action. *)
LEMMA CreateOrGetStep ==
  ASSUME IInv, NEW q \in Requests, NEW o \in Intents, CreateOrGet(q, o)
  PROVE  IInv'
<1> USE DEF CreateOrGet, At, remote
<1>1. /\ UNCHANGED <<cancel, sweep, venue, wire, sends, leverage>>
      /\ request[q].step = "idle" /\ request[q].view = NoView
  BY DEF IInv, RequestOK
<1>2. PICK s \in {"created", "returned"} :
        /\ request' = [request EXCEPT ![q].step = s, ![q].order = o]
        /\ s = "created" => ~Exists(order[o]) /\ Store(o, NewOrder)
        /\ s = "returned" => order' = order
  OBVIOUS
<1>3. /\ request' \in [Requests -> RequestRecords]
      /\ \A p \in Requests \ {q} : request'[p] = request[p]
      /\ request'[q].step = s /\ request'[q].order = o /\ request'[q].view = NoView
  <2>1. request[q] \in RequestRecords
    BY DEF IInv, Types
  <2>2. request'[q] = [request[q] EXCEPT !.step = s, !.order = o]
    BY <1>2 DEF IInv, Types
  <2>3. /\ request'[q] \in RequestRecords
        /\ request'[q].step = s /\ request'[q].order = o
        /\ request'[q].view = request[q].view
    BY <2>1, <2>2 DEF RequestRecords, Driving, BeforeStamp
  <2> QED BY <1>1, <1>2, <2>3 DEF IInv, Types
<1>4. /\ order' \in [Intents -> Rows]
      /\ \A p \in Intents : OrderOK(p)' /\ OrderGrows(p) /\ VenueGrows(p)
      /\ \A p \in Intents \ {o} : order'[p] = order[p]
      /\ s = "created" => Exists(order'[o]) /\ ~order'[o].reached /\ ~Exists(order[o])
  <2>1. CASE s = "created"
    <3>1. RowOK(o, NewOrder)
      <4>1. order[o].reached = FALSE
        BY <1>2, <2>1 DEF IInv, Types, Rows, OrderOK, Exists
      <4>2. NewOrder.state = "CREATED" /\ ~NewOrder.reached /\ NewOrder.filled = 0
        BY DEF NewOrder, NoOrder
      <4>3. venue[o].filled \in Nat
        BY DEF IInv, Types, VenueOrders
      <4> QED BY <4>1, <4>2, <4>3, Blanks
            DEF RowOK, Exists, WorkingStates, UnreconciledStates
    <3>2. Exists(NewOrder) /\ ~NewOrder.reached
      BY DEF NewOrder, NoOrder, Exists
    <3> QED BY <1>1, <1>2, <2>1, <3>1, <3>2, Stored
  <2>2. CASE s = "returned"
    BY <1>1, <1>2, <2>2, NothingStored
  <2> QED BY <2>1, <2>2
<1>5. Types'
  BY <1>1, <1>3, <1>4 DEF IInv, Types
<1>6. ASSUME NEW p \in Requests PROVE RequestOK(p)'
  <2>1. CASE p = q
    BY <1>3, <1>4, <2>1 DEF RequestOK, Driving, BeforeStamp, AfterSend
  <2>2. CASE p # q
    <3>1. request[p].step \in Driving => Exists(order[request[p].order])
      BY DEF IInv, RequestOK
    <3>2. request[p].step \in Driving =>
            /\ request[p].order \in Intents
            /\ order'[request[p].order] = order[request[p].order]
      BY <1>2, <1>4, <3>1, Driven
    <3> QED BY <1>1, <1>3, <1>4, <1>5, <2>2, <3>2, RequestKept
  <2> QED BY <2>1, <2>2
<1>7. OneDriver'
  <2>1. ASSUME NEW p \in Requests, p # q, request'[p].step \in Driving,
               request'[q].step \in Driving
        PROVE  request'[p].order # request'[q].order
    BY <1>3, <1>4, <2>1, Driven DEF Driving, BeforeStamp, AfterSend
  <2>2. ASSUME NEW p \in Requests, NEW p2 \in Requests, p # q, p2 # q,
               request'[p].step \in Driving, request'[p2].step \in Driving,
               request'[p].order = request'[p2].order
        PROVE  p = p2
    BY <1>3, <2>2 DEF OneDriver, IInv
  <2> QED BY <2>1, <2>2 DEF OneDriver
<1> QED BY <1>1, <1>4, <1>5, <1>6, <1>7, CancelsKept, SweepKept DEF IInv

(* CREATED becomes VALIDATING. *)
LEMMA MarkValidatingStep ==
  ASSUME IInv, NEW q \in Requests, MarkValidating(q)
  PROVE  IInv'
<1> DEFINE o == request[q].order
<1> USE DEF MarkValidating, At, remote
<1>1. request[q].step \in Driving /\ "ruling" \in Driving
  BY DEF Driving, BeforeStamp
<1>2. o \in Intents /\ ~order[o].reached
  BY <1>1, Driven DEF IInv, RequestOK, BeforeStamp
<1>3. RowOK(o, Moved(order[o], "VALIDATING"))
      /\ ~Moved(order[o], "VALIDATING").reached /\ Exists(Moved(order[o], "VALIDATING"))
  BY <1>2, MovedOK
<1>4. /\ order' \in [Intents -> Rows] /\ ~order'[o].reached /\ Exists(order'[o])
      /\ \A p \in Intents \ {o} : order'[p] = order[p]
      /\ \A p \in Intents : OrderOK(p)' /\ OrderGrows(p)
  BY <1>2, <1>3, Stored
<1>5. /\ request' \in [Requests -> RequestRecords]
      /\ \A p \in Requests \ {q} : request'[p] = request[p]
      /\ request'[q].step = "ruling" /\ request'[q].order = o
      /\ request'[q].view = request[q].view
  BY <1>1, GotoFacts DEF IInv
<1>6. RequestOK(q)'
  BY <1>2, <1>4, <1>5, ViewHeld DEF RequestOK, BeforeStamp, AfterSend
<1> QED BY <1>1, <1>2, <1>4, <1>5, <1>6, RequestFrame DEF IInv, Types

(* The steps before the stamp that only the call itself sees. *)
LEMMA BeforeStampStep ==
  ASSUME IInv, NEW q \in Requests, request[q].step \in BeforeStamp,
         request' \in [Requests -> RequestRecords],
         \A p \in Requests \ {q} : request'[p] = request[p],
         request'[q].order = request[q].order, request'[q].view = request[q].view,
         request'[q].step \in BeforeStamp,
         request'[q].step = "sized" => request'[q].row = order[request[q].order],
         UNCHANGED <<order, cancel, sweep, venue, wire, sends>>, leverage' \in Nat
  PROVE  IInv'
<1>1. request[q].step \in Driving
  BY DEF Driving
<1>2. RequestOK(q)'
  BY <1>1, Driven, ViewHeld DEF RequestOK, IInv, BeforeStamp, AfterSend
<1> QED BY <1>1, <1>2, Advanced

(* The risk ruling is taken and carried across awaits. *)
LEMMA RuleStep ==
  ASSUME IInv, NEW q \in Requests, NEW l \in Leverages, Rule(q, l)
  PROVE  IInv'
<1> USE DEF Rule, At, remote
<1>1. request[q] \in RequestRecords /\ l \in Nat
  BY DEF IInv, Types
<1>2. request'[q] = [request[q] EXCEPT !.step = "approved", !.leverage = l]
  BY DEF IInv, Types
<1>3. /\ request'[q] \in RequestRecords
      /\ request'[q].step = "approved" /\ request'[q].order = request[q].order
      /\ request'[q].view = request[q].view
  <2>1. PICK r : r = request[q]
    OBVIOUS
  <2>2. "approved" \in Driving
    BY DEF Driving, BeforeStamp
  <2>3. [r EXCEPT !.step = "approved", !.leverage = l] \in RequestRecords
    BY <1>1, <2>1, <2>2 DEF RequestRecords
  <2> QED BY <1>1, <1>2, <2>1, <2>3 DEF RequestRecords
<1>4. request' \in [Requests -> RequestRecords]
  BY <1>3 DEF IInv, Types
<1> QED BY <1>3, <1>4, BeforeStampStep DEF BeforeStamp, IInv, Types

(* The venue is told the leverage, or refuses; no row moves. *)
LEMMA SetLeverageStep ==
  ASSUME IInv, NEW q \in Requests, SetLeverage(q)
  PROVE  IInv'
<1> USE DEF SetLeverage, At
<1>1. PICK s \in {"levered", "refusing"} : Goto(q, s)
  OBVIOUS
<1>2. leverage' \in Nat
  BY DEF IInv, Types, RequestRecords
<1>3. s \in Driving /\ s \in BeforeStamp /\ s # "sized" /\ request[q].step \in BeforeStamp
  BY DEF Driving, BeforeStamp
<1> QED BY <1>1, <1>2, <1>3, GotoFacts, BeforeStampStep DEF IInv

(* The row is read for the terms write that follows. *)
LEMMA ReadRowStep ==
  ASSUME IInv, NEW q \in Requests, ReadRow(q)
  PROVE  IInv'
<1> DEFINE o == request[q].order
<1> USE DEF ReadRow, At, remote
<1>1. PICK row \in Rows : row = order[o]
  BY Driven DEF Driving, BeforeStamp
<1>2. PICK old \in RequestRecords : old = request[q]
  BY DEF IInv, Types
<1>3. /\ request'[q] \in RequestRecords
      /\ request'[q].step = "sized" /\ request'[q].order = request[q].order
      /\ request'[q].view = request[q].view /\ request'[q].row = order[o]
  <2>1. request'[q] = [old EXCEPT !.step = "sized", !.row = row]
    BY <1>1, <1>2 DEF IInv, Types
  <2>2. PICK new : new = [old EXCEPT !.step = "sized", !.row = row]
    OBVIOUS
  <2>3. /\ new \in RequestRecords
        /\ new.step = "sized" /\ new.order = old.order
        /\ new.view = old.view /\ new.row = row
    BY <2>2 DEF RequestRecords, Driving, BeforeStamp
  <2> QED BY <2>1, <2>2, <2>3, <1>1, <1>2
<1>4. request' \in [Requests -> RequestRecords]
  BY <1>3 DEF IInv, Types
<1> QED BY <1>3, <1>4, BeforeStampStep DEF BeforeStamp, IInv, Types

(* The row is written as it was read: until the stamp nobody else touches  *)
(* it, so the write outside the lock takes nothing back (testnet.py:285).  *)
LEMMA TermsWriteNothingElse ==
  ASSUME IInv, NEW q \in Requests, WriteTerms(q)
  PROVE  order' = order
<1> DEFINE o == request[q].order
<1>1. o \in Intents /\ request[q].row = order[o] /\ order \in [Intents -> Rows]
  BY Driven DEF WriteTerms, At, IInv, Types, RequestOK, Driving, BeforeStamp
<1>2. order' = [order EXCEPT ![o] = order[o]]
  BY <1>1 DEF WriteTerms, Store
<1> QED BY <1>1, <1>2

(* The terms write outside the lock. *)
LEMMA WriteTermsStep ==
  ASSUME IInv, NEW q \in Requests, WriteTerms(q)
  PROVE  IInv'
<1> USE DEF WriteTerms, At, remote
<1>1. PICK old \in RequestRecords : old = request[q]
  BY DEF IInv, Types
<1>2. PICK new : new = [old EXCEPT !.step = "stamping", !.row = NoOrder]
  OBVIOUS
<1>3. /\ new \in RequestRecords
      /\ new.step = "stamping" /\ new.order = old.order /\ new.view = old.view
  BY <1>2, Blanks DEF RequestRecords, Driving, BeforeStamp
<1>4. /\ request' \in [Requests -> RequestRecords]
      /\ request'[q] = new
      /\ \A p \in Requests \ {q} : request'[p] = request[p]
  BY <1>1, <1>2, <1>3 DEF IInv, Types
<1>5. order' = order
  BY TermsWriteNothingElse
<1> QED BY <1>1, <1>3, <1>4, <1>5, BeforeStampStep DEF BeforeStamp, IInv, Types

(* A local refusal goes on to be recorded. *)
LEMMA RefuseStep ==
  ASSUME IInv, NEW q \in Requests, Refuse(q)
  PROVE  IInv'
<1> USE DEF Refuse, At, remote
<1>1. "refusing" \in Driving /\ "refusing" \in BeforeStamp /\ request[q].step \in BeforeStamp
  BY DEF Driving, BeforeStamp
<1> QED BY <1>1, GotoFacts, BeforeStampStep DEF IInv, Types

(* A call that returns, having moved its order along the table or not. *)
LEMMA ReturnStep ==
  ASSUME IInv, NEW q \in Requests, request[q].step \in Driving, Returns(q),
         order' \in [Intents -> Rows],
         \A p \in Intents \ {request[q].order} : order'[p] = order[p],
         \A p \in Intents : OrderOK(p)' /\ OrderGrows(p),
         UNCHANGED <<cancel, sweep, venue, leverage, wire, sends>>
  PROVE  IInv'
<1>1. /\ request' \in [Requests -> RequestRecords]
      /\ \A p \in Requests \ {q} : request'[p] = request[p]
      /\ request'[q].step = "returned" /\ request'[q].order = request[q].order
      /\ request'[q].view = NoView
  BY ReturnFacts DEF IInv
<1>2. RequestOK(q)'
  BY <1>1, ReturnedOK
<1> QED BY <1>1, <1>2, RequestFrame DEF IInv, Types

(* The refusal is recorded and the call returns. *)
LEMMA MarkRiskRejectedStep ==
  ASSUME IInv, NEW q \in Requests, MarkRiskRejected(q)
  PROVE  IInv'
<1> DEFINE o == request[q].order
<1> USE DEF MarkRiskRejected, At, remote
<1>1. request[q].step \in Driving
  BY DEF Driving, BeforeStamp
<1>2. o \in Intents /\ ~order[o].reached
  BY <1>1, Driven DEF IInv, RequestOK, BeforeStamp
<1>3. RowOK(o, Moved(order[o], "REJECTED"))
  BY <1>2, MovedOK
<1>4. /\ order' \in [Intents -> Rows]
      /\ \A p \in Intents \ {o} : order'[p] = order[p]
      /\ \A p \in Intents : OrderOK(p)' /\ OrderGrows(p)
  BY <1>2, <1>3, Stored
<1> QED BY <1>1, <1>4, ReturnStep

(* The stamp: from here on a send may have happened. *)
LEMMA MarkSubmittingStep ==
  ASSUME IInv, NEW q \in Requests, MarkSubmitting(q)
  PROVE  IInv'
<1> DEFINE o == request[q].order
<1> USE DEF MarkSubmitting, At, remote
<1>1. request[q].step \in Driving /\ "leaving" \in Driving
  BY DEF Driving, BeforeStamp
<1>2. o \in Intents /\ ~order[o].reached /\ OrderOK(o) /\ sends[o] = 0
  BY <1>1, Driven DEF IInv, RequestOK, BeforeStamp, OrderOK
<1>3. /\ RowOK(o, Submitting(order[o]))
      /\ Submitting(order[o]).reached /\ Exists(Submitting(order[o]))
  BY <1>2, SubmittingOK
<1>4. /\ order' \in [Intents -> Rows] /\ order'[o].reached /\ Exists(order'[o])
      /\ \A p \in Intents \ {o} : order'[p] = order[p]
      /\ \A p \in Intents : OrderOK(p)' /\ OrderGrows(p)
  BY <1>2, <1>3, Stored
<1>5. /\ request' \in [Requests -> RequestRecords]
      /\ \A p \in Requests \ {q} : request'[p] = request[p]
      /\ request'[q].step = "leaving" /\ request'[q].order = o
      /\ request'[q].view = request[q].view
  BY <1>1, GotoFacts DEF IInv
<1>6. RequestOK(q)'
  BY <1>2, <1>4, <1>5, ViewHeld DEF RequestOK, BeforeStamp, AfterSend
<1> QED BY <1>1, <1>2, <1>4, <1>5, <1>6, RequestFrame DEF IInv, Types

(* The one request that leaves, by the one call that drives the order. *)
LEMMA SendStep ==
  ASSUME IInv, NEW q \in Requests, Send(q)
  PROVE  IInv'
<1> DEFINE o == request[q].order
<1> USE DEF Send, At
<1>1. request[q].step \in Driving /\ "waiting" \in Driving
  BY DEF Driving, AfterSend
<1>2. o \in Intents /\ order[o].reached /\ sends[o] = 0 /\ Exists(order[o])
  BY <1>1, Driven DEF IInv, RequestOK
<1>3. /\ wire' \subseteq Intents /\ sends' \in [Intents -> Nat]
      /\ sends'[o] = 1
      /\ \A p \in Intents \ {o} : sends'[p] = sends[p] /\ (p \in wire' <=> p \in wire)
  BY <1>2 DEF IInv, Types
<1>4. \A p \in Intents : OrderOK(p)' /\ OrderGrows(p)
  BY <1>2, <1>3 DEF OrderOK, OrderGrows, IInv
<1>5. /\ request' \in [Requests -> RequestRecords]
      /\ \A p \in Requests \ {q} : request'[p] = request[p]
      /\ request'[q].step = "waiting" /\ request'[q].order = o
      /\ request'[q].view = request[q].view
  BY <1>1, GotoFacts DEF IInv
<1>6. RequestOK(q)'
  BY <1>2, <1>3, <1>5, ViewHeld DEF RequestOK, BeforeStamp, AfterSend
<1> QED BY <1>1, <1>2, <1>3, <1>4, <1>5, <1>6, RequestFrame DEF IInv, Types

(* The venue answers: what it says is told from now on. *)
LEMMA AnsweredStep ==
  ASSUME IInv, NEW q \in Requests, SubmitAnswered(q) \/ SubmitFailed(q)
  PROVE  IInv'
<1> DEFINE o == request[q].order
<1> USE DEF SubmitAnswered, SubmitFailed, At, remote
<1>1. PICK s \in {"acking", "doubting"} :
        /\ Goto(q, s) /\ request[q].step = "waiting"
        /\ s = "acking" => request[q].view # NoView
  OBVIOUS
<1>2. request[q].step \in Driving /\ s \in Driving
  BY <1>1 DEF Driving, AfterSend
<1>3. o \in Intents /\ Exists(order[o]) /\ sends[o] # 0
  BY <1>1, <1>2, Driven DEF IInv, RequestOK, AfterSend
<1>4. /\ request' \in [Requests -> RequestRecords]
      /\ \A p \in Requests \ {q} : request'[p] = request[p]
      /\ request'[q].step = s /\ request'[q].order = o
      /\ request'[q].view = request[q].view
  BY <1>1, <1>2, GotoFacts DEF IInv
<1>5. RequestOK(q)'
  BY <1>1, <1>3, <1>4, ViewHeld DEF RequestOK, BeforeStamp, AfterSend
<1> QED BY <1>2, <1>4, <1>5, Advanced DEF IInv, Types

(* The acknowledgement is applied, however late. *)
LEMMA ApplyVenueAckStep ==
  ASSUME IInv, NEW q \in Requests, ApplyVenueAck(q)
  PROVE  IInv'
<1> DEFINE o == request[q].order  t == request[q].view.state
<1> USE DEF ApplyVenueAck, At, remote
<1>1. request[q].step \in Driving
  BY DEF Driving, AfterSend
<1>2. o \in Intents /\ Told(o, request[q].view)
  BY DEF IInv, RequestOK
<1>3. t # "SUBMITTED" /\ (t \in TerminalStates => venue[o].state = t)
  BY <1>2 DEF Told, VenueStates, TerminalStates
<1>4. /\ order' \in [Intents -> Rows]
      /\ \A p \in Intents \ {o} : order'[p] = order[p]
      /\ \A p \in Intents : OrderOK(p)' /\ OrderGrows(p)
  BY <1>2, <1>3, TryMoved
<1> QED BY <1>1, <1>4, ReturnStep

(* No usable answer: UNKNOWN, never a guess. *)
LEMMA MarkUnknownStep ==
  ASSUME IInv, NEW q \in Requests, MarkUnknown(q)
  PROVE  IInv'
<1> USE DEF MarkUnknown, At, remote
<1>1. request[q].step \in Driving
  BY DEF Driving, AfterSend
<1>2. request[q].order \in Intents
  BY <1>1, Driven
<1>3. "UNKNOWN" \notin TerminalStates
  BY DEF TerminalStates
<1> QED BY <1>1, <1>2, <1>3, TryMoved, ReturnStep

(* An error is raised to the caller and the order stays as it is. *)
LEMMA RaiseStep ==
  ASSUME IInv, NEW q \in Requests, Raise(q)
  PROVE  IInv'
<1> USE DEF Raise, remote
<1>1. request[q].step \in Driving
  BY DEF IInv, Types, RequestRecords
<1> QED BY <1>1, NothingStored, ReturnStep

(* Every action of submit. *)
LEMMA SubmitStep ==
  ASSUME IInv, NEW q \in Requests, Submit(q)
  PROVE  IInv'
  BY CreateOrGetStep, MarkValidatingStep, RuleStep, SetLeverageStep, ReadRowStep,
     WriteTermsStep, RefuseStep, MarkRiskRejectedStep, MarkSubmittingStep, SendStep,
     AnsweredStep, ApplyVenueAckStep, MarkUnknownStep, RaiseStep DEF Submit

-----------------------------------------------------------------------------
(* A step of anyone else: no order is touched before its stamp. *)
LEMMA QuietFrame ==
  ASSUME IInv, Types', request' = request, sends' = sends,
         \A o \in Intents : OrderOK(o)' /\ OrderGrows(o) /\ VenueGrows(o) /\ SweepOK(o)',
         \A c \in Cancels : CancelOK(c)',
         \A o \in Intents : order'[o] = order[o] \/ order[o].reached
  PROVE  IInv'
<1>1. ASSUME NEW q \in Requests PROVE RequestOK(q)'
  BY Driven, RequestKept
<1>2. OneDriver'
  BY DEF OneDriver, IInv
<1> QED BY <1>1, <1>2 DEF IInv

(* The venue's order moves on. *)
LEMMA VenueMoved ==
  ASSUME IInv, NEW o \in Intents, venue' \in [Intents -> VenueOrders],
         \A p \in Intents \ {o} : venue'[p] = venue[p],
         venue[o].state # "NONE", VenueGrows(o),
         UNCHANGED <<order, wire, sends>>
  PROVE  \A p \in Intents : OrderOK(p)' /\ OrderGrows(p) /\ VenueGrows(p)
<1> SUFFICES ASSUME NEW p \in Intents PROVE OrderOK(p)' /\ OrderGrows(p) /\ VenueGrows(p)
  OBVIOUS
<1>1. /\ venue[p].filled \in Nat /\ venue'[p].filled \in Nat
      /\ order[p].filled \in Nat /\ sends[p] \in Nat
  BY DEF IInv, Types, VenueOrders, Rows
<1>2. CASE p = o
  BY <1>1, <1>2 DEF OrderOK, OrderGrows, VenueGrows, IInv, IsTerminal
<1>3. CASE p # o
  BY <1>1, <1>3 DEF OrderOK, OrderGrows, VenueGrows, IInv
<1> QED BY <1>2, <1>3

(* A venue that cancels a live order and nothing else. *)
LEMMA CancelledAtVenue ==
  ASSUME IInv, NEW o \in Intents, Live(venue[o]),
         venue' = [venue EXCEPT ![o] = [venue[o] EXCEPT !.state = "CANCELLED"]]
  PROVE  /\ venue' \in [Intents -> VenueOrders]
         /\ \A p \in Intents \ {o} : venue'[p] = venue[p]
         /\ venue[o].state # "NONE" /\ VenueGrows(o)
         /\ venue'[o].state = "CANCELLED" /\ venue'[o].filled = venue[o].filled
<1>1. PICK old \in VenueOrders : old = venue[o]
  BY DEF IInv, Types
<1>2. PICK new : new = [old EXCEPT !.state = "CANCELLED"]
  OBVIOUS
<1>3. new \in VenueOrders /\ new.state = "CANCELLED" /\ new.filled = old.filled
  BY <1>2 DEF VenueOrders, VenueStates, TerminalStates
<1>4. /\ venue' \in [Intents -> VenueOrders] /\ venue'[o] = new
      /\ \A p \in Intents \ {o} : venue'[p] = venue[p]
  BY <1>1, <1>2, <1>3 DEF IInv, Types
<1>5. old.state \in {"ACCEPTED", "PARTIALLY_FILLED"} /\ old.filled \in Nat
  BY <1>1 DEF Live, VenueOrders
<1> QED BY <1>1, <1>3, <1>4, <1>5 DEF VenueGrows, TerminalStates

(* The row as it stands, and as it stands with a discrepancy recorded. *)
LEMMA DisputedOK ==
  ASSUME IInv, NEW o \in Intents
  PROVE  RowOK(o, order[o]) /\ RowOK(o, WithDiscrepancy(order[o]))
<1> DEFINE r == order[o]
<1>1. r \in Rows /\ OrderOK(o)
  BY DEF IInv, Types
<1>2. RowOK(o, r)
  BY <1>1 DEF RowOK, OrderOK
<1>3. PICK m : m = WithDiscrepancy(r)
  OBVIOUS
<1>4. m \in Rows /\ m.state = r.state /\ m.reached = r.reached /\ m.filled = r.filled
  BY <1>1, <1>3 DEF WithDiscrepancy, Rows
<1> QED BY <1>2, <1>3, <1>4 DEF RowOK, Exists, IsTerminal

(* What reconciliation makes of an order that was sent. *)
LEMMA Reconciled ==
  ASSUME IInv, NEW o \in Intents, order[o].reached, NEW view \in Views,
         view \in {Absent, Unreachable} \/ Told(o, view),
         TryReconcile(o, view), UNCHANGED <<venue, wire, sends>>
  PROVE  /\ order' \in [Intents -> Rows]
         /\ \A p \in Intents \ {o} : order'[p] = order[p]
         /\ \A p \in Intents : OrderOK(p)' /\ OrderGrows(p) /\ VenueGrows(p)
<1> DEFINE r == order[o]  d == Decide(r, view)
<1>1. r \in Rows /\ OrderOK(o) /\ venue[o].filled \in Nat
  BY DEF IInv, Types, VenueOrders
<1>2. RowOK(o, r) /\ RowOK(o, WithDiscrepancy(r))
  BY DisputedOK
<1>3. ASSUME CanApply(r, d)
      PROVE  RowOK(o, AfterDecision(r, d))
  <2>1. CASE d.action = "RECORD_DISCREPANCY"
    BY <1>2, <2>1 DEF AfterDecision
  <2>2. CASE d.action # "RECORD_DISCREPANCY" /\ KeepsState(r, d)
    BY <1>2, <2>2 DEF AfterDecision
  <2>3. CASE ~KeepsState(r, d)
    <3>1. /\ CanTransition(r.state, d.target)
          /\ d.action \notin {"RECORD_DISCREPANCY", "VENUE_UNREACHABLE"}
      BY <1>3, <2>3 DEF CanApply, KeepsState
    <3>2. CASE view \in {Absent, Unreachable}
      <4>1. d.action = "REMAIN_UNKNOWN" /\ d.target = "UNKNOWN"
        BY <3>1, <3>2 DEF Decide, Decision, Absent, Unreachable
      <4>2. AfterDecision(r, d) = Moved(r, "UNKNOWN")
        BY <2>3, <4>1 DEF AfterDecision
      <4>3. "UNKNOWN" \notin TerminalStates
        BY DEF TerminalStates
      <4> QED BY <3>1, <4>1, <4>2, <4>3, MovedOK
    <3>3. CASE Told(o, view)
      <4>1. view # Absent /\ view # Unreachable
        BY <3>3 DEF Told, VenueStates, TerminalStates, Absent, Unreachable
      <4>2. /\ d.action = "ADOPT_VENUE_STATE"
            /\ d.target = view.state /\ d.filled = view.filled
        BY <3>1, <4>1 DEF Decide, Decision
      <4>3. AfterDecision(r, d) =
              [r EXCEPT !.state = view.state, !.filled = view.filled,
                        !.fillRows = {}, !.rowsTotal = 0]
        BY <2>3, <4>2 DEF AfterDecision, Adopted
      <4> HIDE DEF d, r
      <4>4. PICK m : m = AfterDecision(r, d)
        OBVIOUS
      <4>5. /\ view.state \in OrderState /\ view.state \notin DraftStates \cup {"NONE"}
            /\ view.filled \in Nat
        BY <3>3 DEF Told, VenueStates, OrderState, WorkingStates, TerminalStates,
                    DraftStates, Views
      <4>6. /\ m \in Rows
            /\ m.state = view.state /\ m.filled = view.filled /\ m.reached = r.reached
        BY <1>1, <4>3, <4>4, <4>5 DEF Rows
      <4> QED BY <1>1, <3>3, <4>4, <4>5, <4>6 DEF RowOK, Told, Exists, IsTerminal, r
    <3> QED BY <3>2, <3>3
  <2> QED BY <2>1, <2>2, <2>3
<1>4. CASE CanApply(r, d)
  BY <1>3, <1>4, Stored DEF TryReconcile
<1>5. CASE ~CanApply(r, d)
  BY <1>5, NothingStored DEF TryReconcile
<1> QED BY <1>4, <1>5

-----------------------------------------------------------------------------
(* cancel *)

(* A step of one cancellation, on the books or at the venue. *)
LEMMA CancelFrame ==
  ASSUME IInv, UNCHANGED <<request, sweep, wire, sends, leverage>>,
         order' \in [Intents -> Rows], venue' \in [Intents -> VenueOrders],
         cancel' \in [Cancels -> CancelRecords],
         \A o \in Intents : OrderOK(o)' /\ OrderGrows(o) /\ VenueGrows(o),
         \A o \in Intents : order'[o] = order[o] \/ order[o].reached,
         NEW c \in Cancels, \A e \in Cancels \ {c} : cancel'[e] = cancel[e],
         CancelOK(c)'
  PROVE  IInv'
<1>1. Types'
  BY DEF IInv, Types
<1>2. ASSUME NEW e \in Cancels PROVE CancelOK(e)'
  <2>1. CASE e = c
    BY <2>1
  <2>2. CASE e # c
    <3>1. CancelOK(e) /\ cancel[e].view \in Views /\ cancel'[e] = cancel[e]
      BY <2>2 DEF IInv, Types, CancelRecords
    <3>2. ASSUME cancel[e].step = "applying"
          PROVE  Told(cancel[e].order, cancel[e].view)'
      BY <1>1, <3>1, <3>2, ToldKept DEF CancelOK, IInv
    <3> QED BY <3>1, <3>2 DEF CancelOK
  <2> QED BY <2>1, <2>2
<1> QED BY <1>1, <1>2, SweepKept, QuietFrame

(* A cancellation that returns holds nothing. *)
LEMMA CancelReturnFacts ==
  ASSUME IInv, NEW c \in Cancels, CancelReturns(c)
  PROVE  /\ cancel' \in [Cancels -> CancelRecords]
         /\ \A e \in Cancels \ {c} : cancel'[e] = cancel[e]
         /\ CancelOK(c)'
<1>1. cancel'[c] = [step |-> "returned", order |-> NoIntent, view |-> NoView]
  BY DEF IInv, Types, CancelReturns, IdleCancel
<1>2. cancel'[c] \in CancelRecords
  BY <1>1, Blanks DEF CancelRecords
<1> QED BY <1>1, <1>2 DEF IInv, Types, CancelReturns, CancelOK

(* The order is read for cancellation. *)
LEMMA CancelReadStep ==
  ASSUME IInv, NEW c \in Cancels, NEW o \in Intents, CancelRead(c, o)
  PROVE  IInv'
<1> USE DEF CancelRead, remote
<1>1. PICK old \in CancelRecords : old = cancel[c]
  BY DEF IInv, Types
<1>2. PICK new : new = [old EXCEPT !.step = "asking", !.order = o]
  OBVIOUS
<1>3. new \in CancelRecords /\ new.step = "asking" /\ new.order = o
  BY <1>2 DEF CancelRecords
<1>4. /\ cancel' \in [Cancels -> CancelRecords] /\ cancel'[c] = new
      /\ \A e \in Cancels \ {c} : cancel'[e] = cancel[e]
  BY <1>1, <1>2, <1>3 DEF IInv, Types
<1>5. CancelOK(c)'
  BY <1>3, <1>4 DEF CancelOK
<1> QED BY <1>4, <1>5, NothingStored, CancelFrame DEF IInv, Types

(* The venue's answer to a cancellation is told to the call as it is made. *)
LEMMA CancelAnsweredStep ==
  ASSUME IInv, NEW c \in Cancels, CancelAnswered(c)
  PROVE  IInv'
<1> DEFINE o == cancel[c].order
<1>1. o \in Intents /\ venue[o] \in VenueOrders /\ venue[o].state # "NONE"
  BY DEF CancelAnswered, CancelAt, IInv, CancelOK, Types, OrderOK
<1>2. PICK v : /\ v = IF Live(venue[o]) THEN [venue[o] EXCEPT !.state = "CANCELLED"]
                                       ELSE venue[o]
               /\ venue' = [venue EXCEPT ![o] = v]
               /\ cancel' = [cancel EXCEPT ![c].step = "applying", ![c].view = View(v)]
  BY DEF CancelAnswered
<1>3. /\ venue' \in [Intents -> VenueOrders] /\ VenueGrows(o)
      /\ \A p \in Intents \ {o} : venue'[p] = venue[p]
      /\ venue'[o] = v /\ v.state \in VenueStates /\ v.filled \in Nat
  <2>1. CASE Live(venue[o])
    <3>1. /\ venue' \in [Intents -> VenueOrders] /\ VenueGrows(o)
          /\ \A p \in Intents \ {o} : venue'[p] = venue[p]
          /\ venue'[o].state = "CANCELLED" /\ venue'[o].filled = venue[o].filled
      BY <1>1, <1>2, <2>1, CancelledAtVenue
    <3>2. venue'[o] = v
      BY <1>1, <1>2 DEF IInv, Types
    <3> QED BY <1>1, <3>1, <3>2 DEF VenueOrders, VenueStates, TerminalStates
  <2>2. CASE ~Live(venue[o])
    <3>1. venue' = venue /\ v = venue[o]
      BY <1>1, <1>2, <2>2 DEF IInv, Types
    <3> QED BY <1>1, <3>1 DEF IInv, Types, VenueGrows, VenueOrders
  <2> QED BY <2>1, <2>2
<1>4. /\ UNCHANGED <<order, request, sweep, wire, sends, leverage>>
  BY DEF CancelAnswered
<1>5. \A p \in Intents : OrderOK(p)' /\ OrderGrows(p) /\ VenueGrows(p)
  BY <1>1, <1>3, <1>4, VenueMoved
<1>6. View(v) \in Views /\ View(v).state = v.state /\ View(v).filled = v.filled
  BY <1>3 DEF View, Views
<1>7. PICK old \in CancelRecords : old = cancel[c]
  BY DEF IInv, Types
<1>8. PICK new, view : view = View(v) /\ new = [old EXCEPT !.step = "applying", !.view = view]
  OBVIOUS
<1>9. /\ new \in CancelRecords /\ new.step = "applying" /\ new.order = o
      /\ new.view = View(v)
  BY <1>6, <1>7, <1>8 DEF CancelRecords
<1>10. /\ cancel' \in [Cancels -> CancelRecords] /\ cancel'[c] = new
       /\ \A e \in Cancels \ {c} : cancel'[e] = cancel[e]
  BY <1>2, <1>7, <1>8, <1>9 DEF IInv, Types
<1>11. /\ venue'[o].state # "NONE" /\ venue'[o].filled = View(v).filled
       /\ venue'[o].state = View(v).state /\ View(v).filled \in Nat
  BY <1>3, <1>6 DEF VenueStates, TerminalStates
<1>12. CancelOK(c)'
  BY <1>1, <1>3, <1>6, <1>9, <1>10, <1>11 DEF CancelOK, Told
<1> QED BY <1>3, <1>4, <1>5, <1>10, <1>12, CancelFrame DEF IInv, Types

(* The cancellation got no answer. *)
LEMMA CancelFailedStep ==
  ASSUME IInv, NEW c \in Cancels, CancelFailed(c)
  PROVE  IInv'
<1> DEFINE o == cancel[c].order
<1>1. o \in Intents /\ cancel[c].step = "asking"
  BY DEF CancelFailed, CancelAt, IInv, CancelOK
<1>2. /\ venue' \in [Intents -> VenueOrders]
      /\ \A p \in Intents : OrderOK(p)' /\ OrderGrows(p) /\ VenueGrows(p)
  <2>1. CASE venue' = venue
    BY <2>1, NothingStored DEF CancelFailed, IInv, Types
  <2>2. CASE venue' # venue
    <3>1. /\ Live(venue[o])
          /\ venue' = [venue EXCEPT ![o] = [venue[o] EXCEPT !.state = "CANCELLED"]]
      BY <2>2 DEF CancelFailed
    <3> QED BY <1>1, <3>1, CancelledAtVenue, VenueMoved DEF CancelFailed
  <2> QED BY <2>1, <2>2
<1>3. PICK old \in CancelRecords : old = cancel[c]
  BY DEF IInv, Types
<1>4. PICK new : new = [old EXCEPT !.step = "doubting"]
  OBVIOUS
<1>5. new \in CancelRecords /\ new.step = "doubting" /\ new.order = o
  BY <1>3, <1>4 DEF CancelRecords
<1>6. /\ cancel' \in [Cancels -> CancelRecords] /\ cancel'[c] = new
      /\ \A e \in Cancels \ {c} : cancel'[e] = cancel[e]
  BY <1>3, <1>4, <1>5 DEF IInv, Types, CancelFailed
<1>7. CancelOK(c)'
  BY <1>1, <1>5, <1>6 DEF CancelOK
<1> QED BY <1>2, <1>6, <1>7, CancelFrame DEF IInv, Types, CancelFailed

(* The venue's answer is applied to the order. *)
LEMMA CancelApplyStep ==
  ASSUME IInv, NEW c \in Cancels, CancelApply(c)
  PROVE  IInv'
<1> DEFINE o == cancel[c].order  view == cancel[c].view
<1> USE DEF CancelApply, CancelAt, remote
<1>1. o \in Intents /\ Told(o, view) /\ view \in Views
  BY DEF IInv, CancelOK, Types, CancelRecords
<1>2. order[o].reached
  BY <1>1 DEF IInv, OrderOK, Told
<1>3. /\ order' \in [Intents -> Rows]
      /\ \A p \in Intents \ {o} : order'[p] = order[p]
      /\ \A p \in Intents : OrderOK(p)' /\ OrderGrows(p) /\ VenueGrows(p)
  BY <1>1, <1>2, Reconciled
<1> QED BY <1>2, <1>3, CancelReturnFacts, CancelFrame DEF IInv, Types

(* An unanswered cancellation leaves the order in doubt. *)
LEMMA CancelDoubtStep ==
  ASSUME IInv, NEW c \in Cancels, CancelDoubt(c)
  PROVE  IInv'
<1> DEFINE o == cancel[c].order
<1> USE DEF CancelDoubt, CancelAt, remote
<1>1. o \in Intents /\ OrderOK(o)
  BY DEF IInv, CancelOK
<1>2. "UNKNOWN" \notin TerminalStates /\ "UNKNOWN" \in UnreconciledStates
  BY DEF TerminalStates, UnreconciledStates
<1>3. /\ order' \in [Intents -> Rows]
      /\ \A p \in Intents \ {o} : order'[p] = order[p]
      /\ \A p \in Intents : OrderOK(p)' /\ OrderGrows(p) /\ VenueGrows(p)
  BY <1>1, <1>2, TryMoved
<1>4. order'[o] = order[o] \/ order[o].reached
  BY <1>1, <1>2, MoveFacts DEF TryMove, OrderOK
<1> QED BY <1>3, <1>4, CancelReturnFacts, CancelFrame DEF IInv, Types

(* Every action of cancel. *)
LEMMA CancelStep ==
  ASSUME IInv, NEW c \in Cancels, Cancel(c)
  PROVE  IInv'
  BY CancelReadStep, CancelAnsweredStep, CancelFailedStep, CancelApplyStep, CancelDoubtStep
     DEF Cancel

-----------------------------------------------------------------------------
(* reconcile_all: a step of the sweep disturbs rows and nothing else. *)
LEMMA SweepFrame ==
  ASSUME IInv, UNCHANGED <<request, cancel, venue, wire, sends, leverage>>,
         sweep' \in SweepRecords, order' \in [Intents -> Rows],
         \A o \in Intents : OrderOK(o)' /\ OrderGrows(o) /\ VenueGrows(o) /\ SweepOK(o)',
         \A o \in Intents : order'[o] = order[o] \/ order[o].reached
  PROVE  IInv'
<1>1. Types'
  BY DEF IInv, Types
<1> QED BY <1>1, CancelsKept, QuietFrame

(* The sweep looks at no order it was not told of, and forgets at most. *)
LEMMA SweepHeld ==
  ASSUME IInv, sweep' \in SweepRecords, venue' = venue,
         \A p \in Intents :
           /\ OrderGrows(p)
           /\ p \in sweep'.todo => p \in sweep.todo \/ sweep.answers[p] # NoView
           /\ sweep'.answers[p] \in {sweep.answers[p], NoView}
           /\ p \in sweep'.todo => sweep'.answers[p] # NoView
  PROVE  \A p \in Intents : SweepOK(p)'
<1> SUFFICES ASSUME NEW p \in Intents PROVE SweepOK(p)'
  OBVIOUS
<1>1. SweepOK(p) /\ OrderGrows(p)
  BY DEF IInv
<1> QED BY <1>1 DEF SweepOK, OrderGrows, Told

(* The sweep lists the orders to ask about. *)
LEMMA SweepScanStep ==
  ASSUME IInv, SweepScan
  PROVE  IInv'
<1>1. PICK candidates :
        /\ candidates = {o \in Intents : IsOpen(order[o]) /\ order[o].reached}
        /\ sweep' = [IdleSweep EXCEPT !.step = "asking", !.todo = candidates]
  BY DEF SweepScan
<1>2. PICK none : none = [o \in Intents |-> NoView]
  OBVIOUS
<1>3. none \in [Intents -> Views] /\ \A o \in Intents : none[o] = NoView
  BY <1>2, Blanks
<1>4. sweep' = [step |-> "asking", todo |-> candidates, answers |-> none]
  BY <1>1, <1>2 DEF IdleSweep
<1>5. candidates \subseteq Intents /\ \A o \in candidates : order[o].reached
  BY <1>1
<1>6. sweep' \in SweepRecords
  BY <1>3, <1>4, <1>5 DEF SweepRecords
<1>7. sweep'.step = "asking" /\ sweep'.todo = candidates /\ sweep'.answers = none
  BY <1>4
<1>8. order' = order
  BY DEF SweepScan
<1>9. \A o \in Intents : SweepOK(o)'
  BY <1>3, <1>5, <1>7, <1>8 DEF SweepOK
<1> QED BY <1>6, <1>9, NothingStored, SweepFrame DEF SweepScan, remote

(* One answer of the venue, or none, is held for the orders asked about. *)
LEMMA AskStep ==
  ASSUME IInv, NEW o \in Intents, NEW answer \in Views,
         answer \in {Absent, Unreachable} \/ Told(o, answer), Ask(o, answer)
  PROVE  IInv'
<1> USE DEF Ask, remote
<1>1. PICK old \in SweepRecords : old = sweep
  BY DEF IInv, Types
<1>2. PICK told : told = [old.answers EXCEPT ![o] = answer]
  OBVIOUS
<1>3. /\ told \in [Intents -> Views] /\ told[o] = answer
      /\ \A p \in Intents \ {o} : told[p] = old.answers[p]
  BY <1>2 DEF SweepRecords
<1>4. PICK left : left = old.todo \ {o}
  OBVIOUS
<1>5. sweep' = [step |-> old.step, todo |-> left, answers |-> told]
  BY <1>1, <1>2, <1>4 DEF SweepRecords
<1>6. sweep' \in SweepRecords
  BY <1>3, <1>4, <1>5 DEF SweepRecords
<1>0. old.step = "asking"
  BY <1>1 DEF SweepAt
<1> HIDE DEF Ask
<1>7. sweep'.step = "asking" /\ sweep'.todo = left /\ sweep'.answers = told
  <2>1. PICK new : new = [step |-> old.step, todo |-> left, answers |-> told]
    OBVIOUS
  <2>2. new.step = "asking" /\ new.todo = left /\ new.answers = told
    BY <1>0, <2>1
  <2>3. sweep' = new
    BY <1>5, <2>1
  <2> HIDE DEF SweepRecords
  <2> QED BY <2>2, <2>3
<1>8. ASSUME NEW p \in Intents PROVE SweepOK(p)'
  <2>1. CASE p = o
    <3>1. order'[o].reached
      BY <1>1 DEF IInv, SweepOK, Ask
    <3>2. Told(o, answer) => Told(o, answer)'
      BY DEF Told, Ask
    <3> QED BY <1>3, <1>7, <2>1, <3>1, <3>2 DEF SweepOK
  <2>2. CASE p # o
    <3>1. PICK held : held = sweep.answers[p]
      OBVIOUS
    <3>2. sweep'.answers[p] = held /\ (p \in sweep'.todo => p \in sweep.todo)
      BY <1>1, <1>3, <1>4, <1>7, <2>2, <3>1
    <3>3. Told(p, held) => Told(p, held)'
      BY DEF Told, Ask
    <3>4. SweepOK(p) /\ order' = order
      BY DEF IInv, Ask
    <3> QED BY <1>7, <3>1, <3>2, <3>3, <3>4 DEF SweepOK
  <2> QED BY <2>1, <2>2
<1> QED BY <1>6, <1>8, NothingStored, SweepFrame DEF IInv, Types, Ask

(* What the venue says when asked is what it holds. *)
LEMMA SweepAskStep ==
  ASSUME IInv, NEW o \in Intents, SweepAsk(o) \/ SweepUnreachable(o)
  PROVE  IInv'
<1> DEFINE v == venue[o]
<1>1. v \in VenueOrders /\ OrderOK(o)
  BY DEF IInv, Types
<1>2. Absent \in Views /\ Unreachable \in Views
  BY DEF Absent, Unreachable, Views
<1>3. CASE v.known
  <2>1. PICK view : view = View(v)
    OBVIOUS
  <2>2. view \in Views /\ view.state = v.state /\ view.filled = v.filled
    BY <1>1, <2>1 DEF View, Views, VenueOrders
  <2>3. v.state # "NONE" /\ v.state \in VenueStates /\ v.filled \in Nat
    BY <1>1, <1>3 DEF OrderOK, VenueOrders
  <2>4. Told(o, view)
    BY <2>2, <2>3 DEF Told
  <2> QED BY <1>2, <1>3, <2>1, <2>2, <2>4, AskStep DEF SweepAsk, SweepUnreachable, QueryOf
<1>4. CASE ~v.known
  BY <1>2, <1>4, AskStep DEF SweepAsk, SweepUnreachable, QueryOf
<1> QED BY <1>3, <1>4

(* All answers are in: apply them, or report a suspected venue reset. *)
LEMMA SweepJudgeStep ==
  ASSUME IInv, SweepJudge
  PROVE  IInv'
<1>1. PICK old \in SweepRecords : old = sweep
  BY DEF IInv, Types
<1>2. PICK step \in {"reporting", "applying"}, todo \in {Vanished, Candidates} :
        sweep' = [old EXCEPT !.step = step, !.todo = todo]
  BY <1>1 DEF SweepJudge
<1>3. todo \subseteq Intents /\ \A o \in todo : sweep.answers[o] # NoView
  BY DEF Vanished, Candidates, Absent, NoView
<1> HIDE DEF Vanished, Candidates
<1>4. /\ sweep' \in SweepRecords /\ sweep'.todo = todo /\ sweep'.answers = sweep.answers
  BY <1>1, <1>2, <1>3 DEF SweepRecords
<1>5. /\ order' \in [Intents -> Rows]
      /\ \A o \in Intents : OrderOK(o)' /\ OrderGrows(o) /\ VenueGrows(o)
  BY NothingStored DEF SweepJudge, remote
<1>6. \A o \in Intents : SweepOK(o)'
  BY <1>3, <1>4, <1>5, SweepHeld DEF SweepJudge, remote
<1> QED BY <1>4, <1>5, <1>6, SweepFrame DEF SweepJudge, remote

(* Going on to the next item, or ending. *)
LEMMA NextItem ==
  ASSUME IInv, NEW o \in Intents, sweep' \in {AfterItem(o), IdleSweep}
  PROVE  /\ sweep' \in SweepRecords
         /\ sweep'.todo \subseteq sweep.todo
         /\ \A p \in Intents : sweep'.answers[p] \in {sweep.answers[p], NoView}
         /\ \A p \in sweep'.todo : sweep'.answers[p] = sweep.answers[p]
<1>1. PICK old \in SweepRecords : old = sweep
  BY DEF IInv, Types
<1>2. CASE sweep' = IdleSweep
  BY <1>2, Blanks DEF IdleSweep, SweepRecords
<1>3. CASE sweep' # IdleSweep
  <2>1. sweep' = [old EXCEPT !.todo = old.todo \ {o}]
    BY <1>1, <1>3 DEF AfterItem
  <2>2. sweep' \in SweepRecords /\ sweep'.todo = old.todo \ {o} /\ sweep'.answers = old.answers
    BY <2>1 DEF SweepRecords
  <2> QED BY <1>1, <2>2
<1> QED BY <1>2, <1>3

(* One order is reported or reconciled, and the sweep goes on. *)
LEMMA SweepItemStep ==
  ASSUME IInv, NEW o \in Intents, SweepReport(o) \/ SweepApply(o)
  PROVE  IInv'
<1> DEFINE view == sweep.answers[o]
<1>1. o \in sweep.todo /\ order[o].reached /\ view \in Views
  BY DEF IInv, Types, SweepRecords, SweepOK, SweepReport, SweepApply
<1>2. /\ order' \in [Intents -> Rows]
      /\ \A p \in Intents \ {o} : order'[p] = order[p]
      /\ \A p \in Intents : OrderOK(p)' /\ OrderGrows(p) /\ VenueGrows(p)
  <2>1. CASE SweepReport(o)
    BY <1>1, <2>1, DisputedOK, Stored DEF SweepReport, remote
  <2>2. CASE SweepApply(o)
    <3>1. view \in {Absent, Unreachable} \/ Told(o, view)
      BY <2>2 DEF IInv, SweepOK, SweepApply, SweepAt
    <3> QED BY <1>1, <2>2, <3>1, Reconciled DEF SweepApply, remote
  <2> QED BY <2>1, <2>2
<1>3. /\ sweep' \in SweepRecords
      /\ sweep'.todo \subseteq sweep.todo
      /\ \A p \in Intents : sweep'.answers[p] \in {sweep.answers[p], NoView}
      /\ \A p \in sweep'.todo : sweep'.answers[p] = sweep.answers[p]
  BY NextItem DEF SweepReport, SweepApply
<1>4. \A p \in Intents : p \in sweep'.todo => sweep'.answers[p] # NoView
  BY <1>3 DEF SweepReport, SweepApply, SweepAt, IInv, SweepOK
<1>5. \A p \in Intents : SweepOK(p)'
  BY <1>2, <1>3, <1>4, SweepHeld DEF SweepReport, SweepApply, remote
<1> QED BY <1>1, <1>2, <1>3, <1>5, SweepFrame DEF SweepReport, SweepApply, remote

(* Every action of reconcile_all. *)
LEMMA SweepStep ==
  ASSUME IInv, Sweep
  PROVE  IInv'
  BY SweepScanStep, SweepJudgeStep, SweepAskStep, SweepItemStep DEF Sweep

-----------------------------------------------------------------------------
(* The venue and the network. *)
LEMMA VenueAcceptsStep ==
  ASSUME IInv, NEW o \in Intents, VenueAccepts(o)
  PROVE  IInv'
<1>1. PICK state, filled, v, view :
        /\ state \in VenueStates \ {"CANCELLED"} /\ filled \in FillsOf(state)
        /\ v = Placed(state, filled, leverage) /\ view = View(v)
        /\ venue' = [venue EXCEPT ![o] = v]
        /\ request' = [q \in Requests |->
                         IF request[q].order = o /\ request[q].step = "waiting"
                           THEN [request[q] EXCEPT !.view = view] ELSE request[q]]
        /\ o \in wire /\ wire' = wire \ {o} /\ venue[o].state = "NONE"
        /\ UNCHANGED <<order, cancel, sweep, leverage, sends>>
  BY DEF VenueAccepts
<1>2. filled \in Nat
  BY <1>1 DEF FillsOf
<1>3. /\ v \in VenueOrders /\ v.state = state /\ v.filled = filled
      /\ view \in Views /\ view.state = state /\ view.filled = filled
      /\ state # "NONE"
  BY <1>1, <1>2 DEF Placed, View, VenueOrders, Views, IInv, Types, VenueStates, TerminalStates
<1>4. /\ venue' \in [Intents -> VenueOrders] /\ venue'[o] = v
      /\ \A p \in Intents \ {o} : venue'[p] = venue[p]
  BY <1>1, <1>3 DEF IInv, Types
<1>5. ASSUME NEW q \in Requests
      PROVE  /\ request'[q] \in RequestRecords
             /\ request'[q].step = request[q].step /\ request'[q].order = request[q].order
             /\ request'[q].row = request[q].row
             /\ request'[q].view = view \/ request'[q] = request[q]
             /\ request'[q] # request[q] => request[q].order = o /\ request[q].step = "waiting"
  <2>1. PICK old \in RequestRecords : old = request[q]
    BY DEF IInv, Types
  <2>2. PICK new : new = [old EXCEPT !.view = view]
    OBVIOUS
  <2>3. /\ new \in RequestRecords /\ new.step = old.step /\ new.order = old.order
        /\ new.row = old.row /\ new.view = view
    BY <1>3, <2>2 DEF RequestRecords
  <2>4. \/ request'[q] = new /\ old.order = o /\ old.step = "waiting"
        \/ request'[q] = old
    BY <1>1, <2>1, <2>2
  <2> QED BY <2>1, <2>3, <2>4
<1>6. Types'
  <2>1. request' \in [Requests -> RequestRecords]
    BY <1>1, <1>5
  <2> QED BY <1>1, <1>4, <2>1 DEF IInv, Types
<1>7. ASSUME NEW p \in Intents
      PROVE  OrderOK(p)' /\ OrderGrows(p) /\ VenueGrows(p)
  <2>1. /\ venue[p].filled \in Nat /\ venue'[p].filled \in Nat
        /\ order[p].filled \in Nat /\ sends[p] \in Nat /\ OrderOK(p)
    BY <1>6 DEF IInv, Types, VenueOrders, Rows
  <2>2. CASE p = o
    <3>1. sends[o] # 0 /\ order[o].reached /\ ~IsTerminal(order[o])
      BY <1>1, <2>1, <2>2 DEF OrderOK, IsTerminal, TerminalStates
    <3>2. venue[o].state \notin TerminalStates /\ venue[o].filled = 0
      BY <1>1, <2>1, <2>2 DEF TerminalStates, OrderOK
    <3> QED BY <1>1, <1>2, <1>3, <1>4, <2>1, <2>2, <3>1, <3>2
          DEF OrderOK, OrderGrows, VenueGrows
  <2>3. CASE p # o
    BY <1>1, <1>4, <2>1, <2>3 DEF OrderOK, OrderGrows, VenueGrows
  <2> QED BY <2>2, <2>3
<1>8. ASSUME NEW q \in Requests PROVE RequestOK(q)'
  <2>1. CASE request'[q] = request[q]
    BY <1>1, <1>6, <1>7, <2>1, RequestKept
  <2>2. CASE request'[q] # request[q]
    <3>1. /\ request'[q].step = "waiting" /\ request'[q].order = o /\ request'[q].view = view
          /\ request[q].step = "waiting" /\ request[q].order = o
      BY <1>5, <2>2
    <3>2. Told(o, view)'
      BY <1>1, <1>2, <1>3, <1>4 DEF Told
    <3>3. Exists(order[o]) /\ sends[o] # 0
      BY <3>1 DEF IInv, RequestOK, Driving, AfterSend
    <3> QED BY <1>1, <3>1, <3>2, <3>3 DEF RequestOK, BeforeStamp, AfterSend
  <2> QED BY <2>1, <2>2
<1>9. OneDriver'
  BY <1>5 DEF OneDriver, IInv
<1> QED BY <1>1, <1>6, <1>7, <1>8, <1>9, CancelsKept, SweepKept DEF IInv

(* The request is lost on its way. *)
LEMMA VenueDropsStep ==
  ASSUME IInv, NEW o \in Intents, VenueDrops(o)
  PROVE  IInv'
<1> USE DEF VenueDrops, local
<1>1. Types'
  BY DEF IInv, Types
<1>2. ASSUME NEW p \in Intents
      PROVE  OrderOK(p)' /\ OrderGrows(p) /\ VenueGrows(p)
  <2>1. venue[p].filled \in Nat
    BY DEF IInv, Types, VenueOrders
  <2> QED BY <2>1 DEF IInv, OrderOK, OrderGrows, VenueGrows
<1> QED BY <1>1, <1>2, CancelsKept, SweepKept, QuietFrame

(* The venue fills or expires a live order by itself. *)
LEMMA VenueMovesStep ==
  ASSUME IInv, NEW o \in Intents, VenueMoves(o)
  PROVE  IInv'
<1> USE DEF local
<1>1. PICK state \in {"PARTIALLY_FILLED", "FILLED", "EXPIRED"} :
        \E filled \in FillsOf(state) :
          /\ Live(venue[o])
          /\ IF state = "EXPIRED" THEN filled = venue[o].filled ELSE filled > venue[o].filled
          /\ venue' = [venue EXCEPT ![o].state = state, ![o].filled = filled]
          /\ UNCHANGED <<order, local, leverage, wire, sends>>
  BY DEF VenueMoves
<1>2. PICK filled \in FillsOf(state) :
        /\ Live(venue[o])
        /\ IF state = "EXPIRED" THEN filled = venue[o].filled ELSE filled > venue[o].filled
        /\ venue' = [venue EXCEPT ![o].state = state, ![o].filled = filled]
        /\ UNCHANGED <<order, local, leverage, wire, sends>>
  BY <1>1
<1>3. PICK old \in VenueOrders : old = venue[o]
  BY DEF IInv, Types
<1>4. PICK new : new = [old EXCEPT !.state = state, !.filled = filled]
  OBVIOUS
<1>5. filled \in Nat /\ old.filled \in Nat /\ filled >= old.filled
  BY <1>2, <1>3 DEF FillsOf, VenueOrders
<1>6. new \in VenueOrders /\ new.state = state /\ new.filled = filled
  BY <1>4, <1>5 DEF VenueOrders, VenueStates, TerminalStates
<1>7. /\ venue' \in [Intents -> VenueOrders] /\ venue'[o] = new
      /\ \A p \in Intents \ {o} : venue'[p] = venue[p]
  BY <1>2, <1>3, <1>4, <1>6 DEF IInv, Types
<1>8. venue[o].state # "NONE" /\ VenueGrows(o)
  BY <1>2, <1>3, <1>5, <1>6, <1>7 DEF VenueGrows, Live, TerminalStates
<1>9. Types'
  BY <1>2, <1>7 DEF IInv, Types
<1>10. \A p \in Intents : OrderOK(p)' /\ OrderGrows(p) /\ VenueGrows(p)
  BY <1>2, <1>7, <1>8, VenueMoved
<1> QED BY <1>2, <1>9, <1>10, CancelsKept, SweepKept, QuietFrame

(* The testnet venue forgets its orders. *)
LEMMA VenueResetStep ==
  ASSUME IInv, VenueReset
  PROVE  IInv'
<1> USE DEF VenueReset, local
<1>1. ASSUME NEW p \in Intents
      PROVE  /\ venue'[p] \in VenueOrders
             /\ venue'[p].state = venue[p].state /\ venue'[p].filled = venue[p].filled
             /\ ~venue'[p].known /\ venue[p].filled \in Nat
  <2>1. PICK old \in VenueOrders : old = venue[p]
    BY DEF IInv, Types
  <2>2. PICK new : new = [old EXCEPT !.known = FALSE]
    OBVIOUS
  <2>3. /\ new \in VenueOrders /\ new.state = old.state /\ new.filled = old.filled
        /\ ~new.known /\ old.filled \in Nat
    BY <2>2 DEF VenueOrders
  <2> QED BY <2>1, <2>2, <2>3
<1>2. Types'
  BY <1>1 DEF IInv, Types
<1>3. \A p \in Intents : OrderOK(p)' /\ OrderGrows(p) /\ VenueGrows(p)
  BY <1>1 DEF IInv, OrderOK, OrderGrows, VenueGrows
<1> QED BY <1>2, <1>3, CancelsKept, SweepKept, QuietFrame

-----------------------------------------------------------------------------
(* Death and restart. *)
LEMMA CrashStep ==
  ASSUME IInv, Crash
  PROVE  IInv'
<1> USE DEF Crash, remote
<1>1. IdleRequest \in RequestRecords /\ IdleCancel \in CancelRecords
  BY Blanks DEF IdleRequest, IdleCancel, RequestRecords, CancelRecords
<1>2. /\ IdleSweep \in SweepRecords /\ IdleSweep.todo = {}
      /\ \A o \in Intents : IdleSweep.answers[o] = NoView
  BY Blanks DEF IdleSweep, SweepRecords
<1>3. Types'
  BY <1>1, <1>2 DEF IInv, Types
<1>4. \A o \in Intents : OrderOK(o)' /\ SweepOK(o)'
  BY <1>2, NothingStored DEF SweepOK
<1>5. \A q \in Requests : request'[q].step = "idle" /\ request'[q].view = NoView
  BY DEF IdleRequest
<1>6. \A q \in Requests : RequestOK(q)'
  BY <1>5 DEF RequestOK, Driving, BeforeStamp, AfterSend
<1>7. OneDriver'
  BY <1>5 DEF OneDriver, Driving, BeforeStamp, AfterSend
<1>8. \A c \in Cancels : CancelOK(c)'
  BY DEF CancelOK, IdleCancel
<1> QED BY <1>3, <1>4, <1>6, <1>7, <1>8 DEF IInv

(* Startup recovery: what was in flight becomes UNKNOWN. *)
LEMMA RestartStep ==
  ASSUME IInv, Restart
  PROVE  IInv'
<1> USE DEF Restart, local, remote
<1>1. ASSUME NEW o \in Intents
      PROVE  RowOK(o, order'[o]) /\ (order'[o] = order[o] \/ order[o].reached)
  <2>1. CASE IsOpen(order[o]) /\ InFlight(order[o])
    <3>1. PICK old \in Rows : old = order[o]
      BY DEF IInv, Types
    <3>2. PICK new : new = [old EXCEPT !.state = "UNKNOWN"]
      OBVIOUS
    <3>3. new \in Rows /\ new.state = "UNKNOWN" /\ new.reached = old.reached /\ new.filled = old.filled
      BY <3>2 DEF Rows, OrderState, UnreconciledStates
    <3>4. order'[o] = new /\ old.reached
      BY <2>1, <3>1, <3>2 DEF Moved, InFlight
    <3>5. old.filled <= venue[o].filled
      BY <3>1 DEF IInv, OrderOK
    <3> QED BY <3>1, <3>3, <3>4, <3>5
          DEF RowOK, Exists, IsTerminal, TerminalStates, DraftStates
  <2>2. CASE ~(IsOpen(order[o]) /\ InFlight(order[o]))
    BY <2>2, DisputedOK
  <2> QED BY <2>1, <2>2
<1>2. order' \in [Intents -> Rows]
  BY <1>1 DEF RowOK
<1>3. Types'
  BY <1>2 DEF IInv, Types
<1>4. ASSUME NEW o \in Intents
      PROVE  OrderOK(o)' /\ OrderGrows(o) /\ VenueGrows(o)
  <2>1. venue[o].filled \in Nat
    BY DEF IInv, Types, VenueOrders
  <2> QED BY <1>1, <2>1 DEF IInv, RowOK, OrderOK, OrderGrows, VenueGrows
<1> QED BY <1>1, <1>3, <1>4, CancelsKept, SweepKept, QuietFrame

-----------------------------------------------------------------------------
(* Nothing is placed, held or sent at the start. *)
LEMMA TestnetStarts == Init => IInv
<1> SUFFICES ASSUME Init PROVE IInv
  OBVIOUS
<1> USE DEF Init
<1>1. IdleRequest \in RequestRecords /\ IdleCancel \in CancelRecords
  BY Blanks DEF IdleRequest, IdleCancel, RequestRecords, CancelRecords
<1>2. IdleSweep \in SweepRecords
  BY Blanks DEF IdleSweep, SweepRecords
<1>3. NotPlaced \in VenueOrders
  BY DEF NotPlaced, VenueOrders
<1>4. Types
  BY <1>1, <1>2, <1>3, Blanks DEF Types
<1>5. \A o \in Intents : OrderOK(o)
  BY DEF OrderOK, NoOrder, NotPlaced, WorkingStates, UnreconciledStates
<1>6. \A o \in Intents : SweepOK(o)
  BY DEF SweepOK, IdleSweep
<1>7. \A q \in Requests : request[q].step = "idle" /\ request[q].view = NoView
  BY DEF IdleRequest
<1>8. \A q \in Requests : RequestOK(q)
  BY <1>7 DEF RequestOK, Driving, BeforeStamp, AfterSend
<1>9. OneDriver
  BY <1>7 DEF OneDriver, Driving, BeforeStamp, AfterSend
<1>10. \A c \in Cancels : CancelOK(c)
  BY DEF CancelOK, IdleCancel
<1> QED BY <1>4, <1>5, <1>6, <1>8, <1>9, <1>10 DEF IInv

(* A stuttering step. *)
LEMMA TestnetStutters ==
  ASSUME IInv, UNCHANGED vars
  PROVE  IInv'
<1>1. Types'
  BY DEF vars, IInv, Types
<1>2. \A p \in Intents : OrderOK(p)' /\ OrderGrows(p) /\ VenueGrows(p)
  BY NothingStored DEF vars
<1> QED BY <1>1, <1>2, CancelsKept, SweepKept, QuietFrame DEF vars

(* Every step keeps the invariant. *)
LEMMA TestnetStep ==
  ASSUME IInv, [Next]_vars
  PROVE  IInv'
  BY SubmitStep, CancelStep, SweepStep, VenueAcceptsStep, VenueDropsStep, VenueMovesStep,
     VenueResetStep, CrashStep, RestartStep, TestnetStutters DEF Next, External

(* The inductive invariant, at all times: each row agrees with the venue   *)
(* as far as it can, and each coroutine of services/testnet.py carries     *)
(* nothing across an await that has become false.                          *)
THEOREM TestnetInvariant == Spec => []IInv
<1>1. IInv /\ [Next]_vars => IInv'
  BY TestnetStep
<1> QED BY <1>1, TestnetStarts, PTL DEF Spec

(* No order is sent twice, however many duplicate submissions, lost        *)
(* answers, deaths and sweeps there are: submit stamps the order before    *)
(* the one request leaves and nothing else sends (testnet.py submit).      *)
THEOREM NeverRetried == Spec => []SentAtMostOnce
<1>1. IInv => SentAtMostOnce
  BY DEF IInv, OrderOK, SentAtMostOnce
<1> QED BY <1>1, TestnetInvariant, PTL

(* Whatever is on the wire or live at the venue has an open, stamped row,  *)
(* which the next sweep and every restart will find (reconcile_all).       *)
THEOREM EverythingIsAccounted == Spec => []NothingUnaccounted
<1>1. IInv => NothingUnaccounted
  <2> SUFFICES ASSUME IInv, NEW o \in Intents, o \in wire \/ Live(venue[o])
               PROVE  order[o].reached /\ IsOpen(order[o])
    BY DEF NothingUnaccounted
  <2>1. OrderOK(o)
    BY DEF IInv
  <2>2. sends[o] # 0 /\ order[o].reached
    BY <2>1 DEF OrderOK, Live
  <2>3. ~IsTerminal(order[o])
    BY <2>1, <2>2 DEF OrderOK, Live, IsTerminal, TerminalStates
  <2> QED BY <2>1, <2>2, <2>3 DEF OrderOK, IsOpen, Exists
<1> QED BY <1>1, TestnetInvariant, PTL

(* The books never report a settlement or a fill that the venue did not    *)
(* make, whichever coroutine wrote last (apply_venue_ack, reconcile_one).  *)
THEOREM BooksNeverGuess == Spec => []BooksMatchVenue
<1>1. IInv => BooksMatchVenue
  BY DEF IInv, OrderOK, BooksMatchVenue
<1> QED BY <1>1, TestnetInvariant, PTL

(* submit writes the terms back from a row it read before an await and     *)
(* outside the order lock (testnet.py:285); no other coroutine can have    *)
(* moved the row meanwhile, so the stale write undoes nothing.             *)
THEOREM UnlockedWriteIsHarmless ==
  Spec => [][\A q \in Requests : WriteTerms(q) => order' = order]_vars
<1>1. IInv /\ [Next]_vars => [\A q \in Requests : WriteTerms(q) => order' = order]_vars
  BY TermsWriteNothingElse
<1> QED BY <1>1, TestnetInvariant, PTL DEF Spec

=============================================================================
