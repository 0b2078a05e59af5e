------------------------- MODULE AutonomousLoop_proofs -------------------------
(***************************************************************************)
(* A proof about AutonomousLoop for any symbols, watchlist, readings, bars *)
(* and restarts: the loop enters a symbol at most once on a closed bar.    *)
(***************************************************************************)
EXTENDS AutonomousLoop, TLAPS

Fields == {"step", "todo", "seen", "bar", "bias", "evaluated", "failures"}

Shaped ==
  /\ DOMAIN loop = Fields /\ bar \in Nat
  /\ entered \in [Symbols -> [Bars -> Nat]]

(* An id that is known names a bar that has closed, and on the last one    *)
(* the side the rules read: a bar is read the same way whenever it is.     *)
Known ==
  \A s, b, side : KeyOf(s, b, side) \in index =>
    b \in Nat /\ b <= bar /\ (b = bar => side = bias[s])

(* What the task is about to submit names a side no id of that bar differs *)
(* from, also when the bar it read is no longer the last.                  *)
Proposed ==
  At("submitting") =>
    /\ loop.bar \in Nat /\ loop.bar <= bar /\ (loop.bar = bar => loop.bias = bias[Current])
    /\ \A side : KeyOf(Current, loop.bar, side) \in index => side = loop.bias

(* What was entered is known. *)
EnteredIsKnown ==
  \A s \in Symbols, b \in Bars :
    /\ entered[s][b] <= 1
    /\ entered[s][b] # 0 => \E side : KeyOf(s, b, side) \in index

IInv == Shaped /\ Known /\ Proposed /\ EnteredIsKnown

LEMMA FreshIsShaped ==
  /\ NothingEntered \in [Symbols -> [Bars -> Nat]]
  /\ \A s \in Symbols, b \in Bars : NothingEntered[s][b] = 0
BY DEF NothingEntered

LEMMA AsleepIsShaped == DOMAIN Asleep = Fields /\ Asleep.step = "asleep"
BY DEF Asleep, Fields

LEMMA Starts == Init => IInv
<1> SUFFICES ASSUME Init PROVE IInv
  OBVIOUS
<1>1. Shaped
  BY FreshIsShaped, AsleepIsShaped DEF Init, Shaped
<1>2. Known
  BY DEF Init, Known
<1>3. Proposed
  BY AsleepIsShaped DEF Init, Proposed, At
<1>4. EnteredIsKnown
  BY FreshIsShaped DEF Init, EnteredIsKnown
<1> QED BY <1>1, <1>2, <1>3, <1>4 DEF IInv

(* A step of the task that enters nothing and proposes nothing. *)
LEMMA Elsewhere ==
  ASSUME IInv, DOMAIN loop' = Fields, loop'.step # "submitting",
         index' = index, entered' = entered, bar' = bar, bias' = bias
  PROVE  IInv'
<1>1. Shaped' /\ Known' /\ EnteredIsKnown'
  BY DEF IInv, Shaped, Known, EnteredIsKnown
<1>2. Proposed'
  BY DEF Proposed, At
<1> QED BY <1>1, <1>2 DEF IInv

(* A step of another. *)
LEMMA Beside ==
  ASSUME IInv, loop' = loop, index' = index, entered' = entered, bar' = bar, bias' = bias
  PROVE  IInv'
<1>1. Shaped' /\ Known' /\ EnteredIsKnown'
  BY DEF IInv, Shaped, Known, EnteredIsKnown
<1>2. Proposed'
  BY DEF IInv, Proposed, At, Current
<1> QED BY <1>1, <1>2 DEF IInv

(* Both endings of a symbol leave the task refreshing. *)
LEMMA Ends ==
  ASSUME Shaped, NEW s, Passed(s) \/ Failed(s)
  PROVE  DOMAIN loop' = Fields /\ loop'.step # "submitting"
BY DEF Shaped, Passed, Failed, Fields

LEMMA FetchStep == ASSUME IInv, Fetch PROVE IInv'
<1> DEFINE s == Current
<1>1. index' = index /\ entered' = entered /\ bar' = bar /\ bias' = bias
  BY DEF Fetch, paper, market
<1>2. \/ loop' = [loop EXCEPT !.step = "closing"]
      \/ Passed(s) \/ Failed(s)
      \/ loop' = [loop EXCEPT !.step = "submitting", !.bar = bar, !.bias = bias[s]]
  BY DEF Fetch
<1>3. CASE loop' = [loop EXCEPT !.step = "closing"]
  <2>1. DOMAIN loop' = Fields /\ loop'.step # "submitting"
    BY <1>3 DEF IInv, Shaped, Fields
  <2> QED BY <1>1, <2>1, Elsewhere
<1>4. CASE Passed(s) \/ Failed(s)
  <2>1. DOMAIN loop' = Fields /\ loop'.step # "submitting"
    BY <1>4, Ends DEF IInv
  <2> QED BY <1>1, <2>1, Elsewhere
<1>5. CASE loop' = [loop EXCEPT !.step = "submitting", !.bar = bar, !.bias = bias[s]]
  <2>1. /\ DOMAIN loop' = Fields /\ loop'.bar = bar /\ loop'.bias = bias[s]
        /\ loop'.todo = loop.todo
    BY <1>5 DEF IInv, Shaped, Fields
  <2>2. Shaped' /\ Known' /\ EnteredIsKnown'
    BY <1>1, <2>1 DEF IInv, Shaped, Known, EnteredIsKnown
  <2>3. Current' = s
    BY <2>1 DEF Current
  <2>4. Proposed'
    BY <1>1, <2>1, <2>3 DEF IInv, Shaped, Known, Proposed
  <2> QED BY <2>2, <2>4 DEF IInv
<1> QED BY <1>2, <1>3, <1>4, <1>5

(* The step that enters: its id is not known, and no id of its bar names   *)
(* another side, so the bar has not been entered.                          *)
LEMMA SubmitStep == ASSUME IInv, Submit PROVE IInv'
<1> DEFINE s == Current
           key == KeyOf(s, loop.bar, loop.bias)
<1>1. /\ At("submitting") /\ bar' = bar /\ bias' = bias
      /\ \/ index' = index /\ entered' = entered
         \/ key \notin index /\ index' = index \cup {key} /\ entered' = entered
         \/ /\ key \notin index /\ index' = index \cup {key}
            /\ entered' = [entered EXCEPT ![s][loop.bar] = @ + 1]
  BY DEF Submit, Opens, market
<1>2. DOMAIN loop' = Fields /\ loop'.step # "submitting"
  BY Ends DEF Submit, IInv
<1>3. CASE index' = index /\ entered' = entered
  BY <1>1, <1>2, <1>3, Elsewhere
<1>4. CASE key \notin index /\ index' = index \cup {key}
  <2>1. \A side : KeyOf(s, loop.bar, side) \notin index
    BY <1>1, <1>4 DEF IInv, Proposed
  <2>2. \A t, b, side : KeyOf(t, b, side) = key => t = s /\ b = loop.bar /\ side = loop.bias
    BY DEF KeyOf
  <2>3. Known'
    BY <1>1, <1>4, <2>2 DEF IInv, Known, Proposed
  <2>4. Proposed'
    BY <1>2 DEF Proposed, At
  <2>5. \A t \in Symbols, b \in Bars : t = s /\ b = loop.bar => entered[t][b] = 0
    BY <2>1 DEF IInv, EnteredIsKnown
  <2>6. \/ entered' = entered
        \/ entered' = [entered EXCEPT ![s][loop.bar] = entered[s][loop.bar] + 1]
    BY <1>1, <1>4
  <2>7. entered' \in [Symbols -> [Bars -> Nat]]
    BY <2>6 DEF IInv, Shaped
  <2>8. ASSUME NEW t \in Symbols, NEW b \in Bars
        PROVE  /\ entered'[t][b] <= 1
               /\ entered'[t][b] # 0 => \E side : KeyOf(t, b, side) \in index'
    <3>1. /\ entered[t][b] <= 1
          /\ entered[t][b] # 0 => \E side : KeyOf(t, b, side) \in index'
      BY <1>4 DEF IInv, EnteredIsKnown
    <3>2. CASE t = s /\ b = loop.bar
      <4>1. entered'[t][b] \in {0, 1}
        BY <2>5, <2>6, <3>2 DEF IInv, Shaped
      <4>2. KeyOf(t, b, loop.bias) \in index'
        BY <1>4, <3>2
      <4> QED BY <4>1, <4>2
    <3>3. CASE ~(t = s /\ b = loop.bar)
      <4>1. entered'[t][b] = entered[t][b]
        BY <2>6, <3>3 DEF IInv, Shaped
      <4> QED BY <3>1, <4>1
    <3> QED BY <3>2, <3>3
  <2> QED BY <1>1, <1>2, <2>3, <2>4, <2>7, <2>8 DEF IInv, Shaped, EnteredIsKnown
<1> QED BY <1>1, <1>3, <1>4

LEMMA TaskStep == ASSUME IInv, LoopStep PROVE IInv'
<1>1. CASE Begin
  <2>1. DOMAIN loop' = Fields /\ loop'.step # "submitting"
    BY <1>1, AsleepIsShaped DEF Begin, At, IInv, Shaped, Fields
  <2> QED BY <1>1, <2>1, Elsewhere DEF Begin, paper, market
<1>2. CASE Tick
  <2>1. DOMAIN loop' = Fields /\ loop'.step # "submitting"
    BY <1>2 DEF Tick, IInv, Shaped, Fields
  <2> QED BY <1>2, <2>1, Elsewhere DEF Tick, market
<1>3. CASE TaskFails
  <2>1. DOMAIN loop' = Fields /\ loop'.step # "submitting"
    BY <1>3, AsleepIsShaped DEF TaskFails, Fields
  <2> QED BY <1>3, <2>1, Elsewhere DEF TaskFails, paper, market
<1>4. CASE FetchFails
  <2>1. DOMAIN loop' = Fields /\ loop'.step # "submitting"
    BY <1>4, Ends DEF FetchFails, IInv
  <2> QED BY <1>4, <2>1, Elsewhere DEF FetchFails, paper, market
<1>5. CASE Close
  <2>1. DOMAIN loop' = Fields /\ loop'.step # "submitting"
    BY <1>5, Ends DEF Close, IInv
  <2> QED BY <1>5, <2>1, Elsewhere DEF Close, market
<1>6. CASE Refresh
  <2>1. DOMAIN loop' = Fields /\ loop'.step # "submitting"
    BY <1>6, AsleepIsShaped DEF Refresh, IInv, Shaped, Fields
  <2> QED BY <1>6, <2>1, Elsewhere DEF Refresh, paper, market
<1> QED BY <1>1, <1>2, <1>3, <1>4, <1>5, <1>6, FetchStep, SubmitStep DEF LoopStep

(* The account begins again: nothing is known, and nothing was entered.    *)
LEMMA FreshStep ==
  ASSUME IInv, FreshAccount, loop' = loop \/ loop' = Asleep, bar' = bar, bias' = bias
  PROVE  IInv'
<1>1. Shaped'
  BY FreshIsShaped, AsleepIsShaped DEF IInv, Shaped, FreshAccount
<1>2. Known' /\ EnteredIsKnown'
  BY FreshIsShaped DEF FreshAccount, Known, EnteredIsKnown
<1>3. Proposed'
  BY AsleepIsShaped DEF IInv, Proposed, At, Current, FreshAccount
<1> QED BY <1>1, <1>2, <1>3 DEF IInv

(* A new bar leaves what was read of the old one behind. *)
LEMMA NewBarStep == ASSUME IInv, NewBar PROVE IInv'
<1>1. bar' = bar + 1 /\ loop' = loop /\ index' = index /\ entered' = entered /\ bar \in Nat
  BY DEF NewBar, paper, IInv, Shaped
<1>2. Shaped' /\ EnteredIsKnown'
  BY <1>1 DEF IInv, Shaped, EnteredIsKnown
<1>3. Known'
  BY <1>1 DEF IInv, Known
<1>4. Proposed'
  BY <1>1 DEF IInv, Proposed, At, Current
<1> QED BY <1>2, <1>3, <1>4 DEF IInv

LEMMA WorldStep == ASSUME IInv, Arm \/ Request \/ NewBar \/ Restart PROVE IInv'
<1>1. CASE Arm
  BY <1>1, Beside DEF Arm, paper, market
<1>2. CASE Request
  <2>1. loop' = loop /\ bar' = bar /\ bias' = bias
    BY <1>2 DEF Request, market
  <2>2. (index' = index /\ entered' = entered) \/ FreshAccount
    BY <1>2 DEF Request, RequestOpen, RequestClose, RequestStop
  <2> QED BY <2>1, <2>2, Beside, FreshStep
<1>3. CASE Restart
  <2>1. loop' = Asleep /\ bar' = bar /\ bias' = bias
    BY <1>3 DEF Restart, market
  <2>2. (index' = index /\ entered' = entered) \/ FreshAccount
    BY <1>3 DEF Restart, paper
  <2>3. DOMAIN loop' = Fields /\ loop'.step # "submitting"
    BY <2>1, AsleepIsShaped
  <2> QED BY <2>1, <2>2, <2>3, Elsewhere, FreshStep
<1> QED BY <1>1, <1>2, <1>3, NewBarStep

(* "At most one autonomous entry per symbol per closed bar"                *)
(* (build_client_order_id): the id is made of the bar and the side the     *)
(* rules read from it, and one bar is read one way.                        *)
THEOREM OneEntryPerBarHolds == Spec => []OneEntryPerBar
<1>1. Init => IInv
  BY Starts
<1>2. IInv /\ [Next]_vars => IInv'
  <2> SUFFICES ASSUME IInv, [Next]_vars PROVE IInv'
    OBVIOUS
  <2>1. CASE UNCHANGED vars
    BY <2>1, Beside DEF vars, paper, market
  <2> QED BY <2>1, TaskStep, WorldStep DEF Next
<1>3. IInv => OneEntryPerBar
  BY DEF IInv, EnteredIsKnown, OneEntryPerBar
<1> QED BY <1>1, <1>2, <1>3, PTL DEF Spec

=============================================================================
