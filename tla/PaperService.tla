---------------------------- MODULE PaperService ----------------------------
(***************************************************************************)
(* Paper trading end to end: PaperTradingService (services/paper.py) with  *)
(* the engine's account, its log of orders, and the snapshot it is saved   *)
(* to (adapters/persistence/paper.py).  Calls are coroutines of one        *)
(* process and interleave at every await; the writers hold one lock from   *)
(* their first await to their last, the readers hold none.                 *)
(*                                                                         *)
(* The market is external: a price is whatever Marks allows when it is     *)
(* used, a lookup may raise, and the rules of the risk engine other than   *)
(* the account's own (data, volatility, cooldown, leverage, filters,       *)
(* unreconciled orders) are a refusal that may happen; the margin of an    *)
(* order is the one the risk engine approved.  The clock moves over        *)
(* midnight at any await, and a start may be of another build, which       *)
(* reads and writes the snapshot under a schema of its own.                *)
(***************************************************************************)
EXTENDS PaperAccount, SequencesExt

CONSTANTS
  Callers,        \* coroutines that may be in flight together
  Ids,            \* client_order_ids
  Calls,          \* calls that may be made, see CallRecords
  Marks,          \* prices that may be observed
  Nobody,         \* no one holds the write lock
  NoId,           \* an order the engine names itself
  NoSnapshot,     \* the row does not exist yet
  NoCall,         \* an idle coroutine's call
  MaxOrderLog,    \* max_order_log
  Builds,         \* the builds that may run, each with its SCHEMA_VERSION
  BootReadsFail,  \* the snapshot may be unreadable at a start
  MaxCalls, MaxDays, MaxCrashes   \* bounds on calls, days and process deaths

WriteKinds == {"submit", "tick", "close", "reset", "stop", "release"}

(* A submit carries its order, the other calls the fields they use. *)
CallRecords ==
  [kind : WriteKinds \cup {"read"}, id : Ids \cup {NoId},
   order : [symbol : Symbols, side : Sides, margin : Nat \ {0},
            stop : 0..99, target : 0..99, trail : 0..99]]

ASSUME ServiceAssumption ==
  /\ Calls \subseteq CallRecords /\ Nobody \notin Callers /\ NoId \notin Ids
  /\ \A k \in Calls : k.kind = "submit" => k.id \in Ids
  /\ Marks \subseteq [usable : BOOLEAN, last : Nat \ {0}, bid : Nat, ask : Nat]
  /\ Builds # {} /\ MaxOrderLog \in Nat \ {0} /\ BootReadsFail \in BOOLEAN
  /\ MaxCalls \in Nat /\ MaxDays \in Nat \ {0} /\ MaxCrashes \in Nat

VARIABLES
  state,      \* the engine's PaperState
  saved,      \* the snapshot row
  bound,      \* a snapshot store is bound
  healthy,    \* the store's last access worked
  holder,     \* who holds the write lock
  caller,     \* per coroutine: where it is, and its local variables
  up, today,
  build,      \* the build of the process
  told,       \* history: filled orders reported to their callers since the last reset
  adrift,     \* history: the process began without the row, and has not written it yet
  calls, crashes

vars == <<state, saved, bound, healthy, holder, caller, up, today, build, told, adrift,
          calls, crashes>>
store == <<saved, bound, healthy>>
process == <<up, build, adrift>>

-----------------------------------------------------------------------------
(* The state the engine keeps: the account, the log of orders, the index   *)
(* of the log by client id, and two histories that share its fate.         *)

FreshState ==
  [account |-> Fresh(StartingBalance), log |-> <<>>, index |-> [i \in Ids |-> "none"],
   entered |-> [i \in Ids |-> 0],   \* history: positions opened for an id
   gone |-> {}]                     \* history: ids that have left the log

On(st, day) == [st EXCEPT !.account = EnsureSession(@, day)]

(* _record_order: the oldest leave the log and the index together. *)
WithOrder(st, id, result) ==
  LET log == Append(st.log, [id |-> id, result |-> result])
      overflow == IF Len(log) > MaxOrderLog THEN Len(log) - MaxOrderLog ELSE 0
      evicted == {log[n].id : n \in 1..overflow}
  IN [account |-> st.account,
      log |-> SubSeq(log, overflow + 1, Len(log)),
      index |-> [i \in Ids |-> CASE i \in evicted -> "none"
                                 [] i = id /\ i \notin evicted -> result
                                 [] OTHER -> st.index[i]],
      entered |-> st.entered,
      gone |-> st.gone \cup (evicted \cap Ids)]

(* A refusal is recorded like any other order. *)
Refused(st, id, day) == WithOrder(On(st, day), id, "rejected")

(* submit_order of the engine. *)
SubmittedTo(st, r, id, mark, day) ==
  LET b == On(st, day)
  IN IF MayOpen(b.account, r, mark)
       THEN [WithOrder([b EXCEPT !.account = Opened(@, r, mark)], id, "filled")
               EXCEPT !.entered[id] = @ + 1]
       ELSE WithOrder(b, id, "rejected")

ClosedIn(st, s, mark, day) ==
  LET a == ClosedByHand(st.account, s, mark, day)
  IN WithOrder([st EXCEPT !.account = a], NoId,
               IF IsOpen(st.account, s) /\ mark.usable THEN "filled" ELSE "rejected")

(* tick, over the positions in the order given. *)
Ticked(st, symbols, marks, day) ==
  [st EXCEPT !.account = FoldLeft(LAMBDA a, s : Managed(a, s, marks[s], day),
                                  EnsureSession(@, day), symbols)]

ResetOn(day) == On(FreshState, day)

StoppedIn(st, engaged, day) == [On(st, day) EXCEPT !.account.stopped = engaged]

(* Wrong: the snapshot holds the account and not its log. *)
ToSnapshotWithoutLog(st, schema) ==
  [schema |-> schema, account |-> st.account, log |-> <<>>, entered |-> st.entered,
   gone |-> st.gone]

(* to_snapshot leaves the index out and from_snapshot rebuilds it. *)
ToSnapshot(st, schema) ==
  [schema |-> schema, account |-> st.account, log |-> st.log, entered |-> st.entered,
   gone |-> st.gone]

(* Wrong: the index starts empty. *)
IndexOfNone(log) == [i \in Ids |-> "none"]

IndexOf(log) ==
  [i \in Ids |-> IF \E n \in DOMAIN log : log[n].id = i
                   THEN (CHOOSE o \in ToSet(log) : o.id = i).result ELSE "none"]

FromSnapshot(row) ==
  [account |-> row.account, log |-> row.log, index |-> IndexOf(row.log),
   entered |-> row.entered, gone |-> row.gone]

(* load: a row that is not there and a row of another schema are both None, *)
(* and None starts fresh, with the store none the worse for it.             *)
Readable(row, schema) == row # NoSnapshot /\ row.schema = schema

Loaded(row, schema) == IF Readable(row, schema) THEN FromSnapshot(row) ELSE FreshState

-----------------------------------------------------------------------------
Resting ==
  [step |-> "idle", call |-> NoCall, day |-> 0, view |-> Fresh(StartingBalance),
   result |-> "none", document |-> NoSnapshot]

(* Wrong: a bound store is durable. *)
DurableIfBound == bound

Durable == bound /\ healthy

Init ==
  /\ state = FreshState
  /\ saved = NoSnapshot
  /\ bound \in BOOLEAN /\ healthy = TRUE
  /\ holder = Nobody
  /\ caller = [c \in Callers |-> Resting]
  /\ up = TRUE /\ today = 1
  /\ build = CHOOSE b \in Builds : TRUE
  /\ told = {} /\ adrift = FALSE
  /\ calls = 0 /\ crashes = 0

At(c, step) == up /\ caller[c].step = step
Doing(c, kind) == caller[c].call.kind = kind

(* The mutation is done, the answer built, and the document _persist is    *)
(* about to write rendered.                                                *)
Mutates(c, st, result) ==
  /\ state' = st
  /\ caller' = [caller EXCEPT ![c].step = "saving", ![c].result = result,
                              ![c].view = Resting.view,
                              ![c].document =
                                IF bound THEN ToSnapshot(st, build) ELSE NoSnapshot]

Released(c) == holder' = Nobody /\ caller' = [caller EXCEPT ![c] = Resting]

bounds == <<calls, crashes>>

-----------------------------------------------------------------------------
(* The calls, one action per await. *)

Call(c) ==
  \E k \in Calls :
    /\ At(c, "idle") /\ calls < MaxCalls
    /\ calls' = calls + 1
    /\ caller' = [caller EXCEPT ![c].call = k,
                    ![c].step = IF k.kind = "read" THEN "reading" ELSE "queued",
                    ![c].day = IF k.kind = "read" THEN today ELSE 0]
    /\ UNCHANGED <<state, store, holder, process, today, told, crashes>>

(* get_account and position_intelligence read the clock, await prices and  *)
(* only then take their snapshot, without the lock.                        *)
Read(c) ==
  /\ At(c, "reading")
  /\ state' = On(state, caller[c].day)
  /\ caller' = [caller EXCEPT ![c] = Resting]
  /\ UNCHANGED <<store, holder, process, today, told, bounds>>

(* A writer has the lock.  What needs no price is done at once; the rest   *)
(* awaits prices, with the clock already read except by a close.           *)
Enters(c) ==
  /\ holder' = c
  /\ CASE Doing(c, "reset")   -> Mutates(c, ResetOn(today), "none")
       [] Doing(c, "stop")    -> Mutates(c, StoppedIn(state, TRUE, today), "none")
       [] Doing(c, "release") -> Mutates(c, StoppedIn(state, FALSE, today), "none")
       [] OTHER -> /\ caller' = [caller EXCEPT ![c].step = "pricing", ![c].day = today]
                   /\ UNCHANGED state
  /\ told' = IF Doing(c, "reset") THEN {} ELSE told
  /\ UNCHANGED <<store, process, today, bounds>>

(* Wrong: the lock is not asked for. *)
AcquireAtOnce(c) == At(c, "queued") /\ Enters(c)

Acquire(c) == At(c, "queued") /\ holder = Nobody /\ Enters(c)

(* A lookup raises: the caller gets the error and nothing is changed.  A   *)
(* tick, and a submit of a known id, look up the open symbols alone.       *)
LooksUp(c) ==
  \/ OpenSymbols(state.account) # {}
  \/ Doing(c, "close")
  \/ Doing(c, "submit") /\ state.index[caller[c].call.id] = "none"

(* Wrong: the lock is not handed back. *)
LookupRaisesLocked(c) ==
  /\ At(c, "pricing") /\ LooksUp(c)
  /\ caller' = [caller EXCEPT ![c] = Resting]
  /\ UNCHANGED <<state, store, holder, process, today, told, bounds>>

LookupRaises(c) ==
  /\ At(c, "pricing") /\ LooksUp(c)
  /\ Released(c)
  /\ UNCHANGED <<state, store, process, today, told, bounds>>

(* submit: a known id is answered from the index; an unlisted symbol is    *)
(* refused by the engine; otherwise the account is shown to the risk       *)
(* engine as it is now, and the count of unreconciled orders is awaited.   *)
PriceSubmit(c) ==
  LET id == caller[c].call.id
      day == caller[c].day
      known == state.index[id]
  IN /\ At(c, "pricing") /\ Doing(c, "submit")
     /\ \/ known # "none" /\ Mutates(c, On(state, day), known)
        \/ known = "none" /\ Mutates(c, Refused(state, id, day), "rejected")
        \/ /\ known = "none"
           /\ state' = On(state, day)
           /\ caller' = [caller EXCEPT ![c].step = "ruling", ![c].view = state'.account]
     /\ UNCHANGED <<store, holder, process, today, told, bounds>>

(* The emergency stop is read live, the rest from the view.                *)
RiskAllows(c) == MayOpenAnything([caller[c].view EXCEPT !.stopped = state.account.stopped])

Rule(c) ==
  LET k == caller[c].call
      day == caller[c].day
  IN /\ At(c, "ruling")
     /\ \/ Mutates(c, Refused(state, k.id, day), "rejected")
        \/ /\ RiskAllows(c)
           /\ \E mark \in Marks :
                LET st == SubmittedTo(state, k.order, k.id, mark, day)
                IN Mutates(c, st, st.index[k.id])
     /\ UNCHANGED <<store, holder, process, today, told, bounds>>

PriceTick(c) ==
  LET open == OpenSymbols(state.account)
  IN /\ At(c, "pricing") /\ Doing(c, "tick")
     /\ \E symbols \in SetToSeqs(open), marks \in [open -> Marks] :
          Mutates(c, Ticked(state, symbols, marks, caller[c].day), "none")
     /\ UNCHANGED <<store, holder, process, today, told, bounds>>

PriceClose(c) ==
  /\ At(c, "pricing") /\ Doing(c, "close")
  /\ \E mark \in Marks :
       Mutates(c, ClosedIn(state, caller[c].call.order.symbol, mark, today), "none")
  /\ UNCHANGED <<store, holder, process, today, told, bounds>>

(* The answer goes out, and the lock with it. *)
Answers(c, before) ==
  /\ Released(c)
  /\ told' = IF caller[c].result = "filled"
               THEN before \cup {[id |-> caller[c].call.id,
                                  row |-> IF Durable' THEN "LANDED" ELSE "FAILED"]}
               ELSE before

WrittenOver(t) ==
  [id |-> t.id, row |-> IF t.row = "LANDED" THEN "WRITTEN OVER" ELSE t.row]

(* _persist never raises.  A write that is reported failed may have been   *)
(* carried out: the connection can be lost under the commit.  The first    *)
(* write of a process that began without the row replaces what was there.  *)
Persist(c) ==
  /\ At(c, "saving")
  /\ \/ ~bound /\ UNCHANGED <<store, adrift>> /\ Answers(c, told)
     \/ /\ bound /\ saved' = caller[c].document /\ healthy' \in BOOLEAN
        /\ UNCHANGED bound /\ adrift' = FALSE
        /\ Answers(c, IF adrift THEN {WrittenOver(t) : t \in told} ELSE told)
     \/ /\ bound /\ healthy' = FALSE /\ UNCHANGED <<saved, bound, adrift>>
        /\ Answers(c, told)
  /\ UNCHANGED <<state, up, today, build, bounds>>

-----------------------------------------------------------------------------
(* The world. *)

Midnight ==
  /\ today < MaxDays
  /\ today' = today + 1
  /\ UNCHANGED <<state, store, holder, caller, process, told, bounds>>

Crash ==
  /\ up /\ crashes < MaxCrashes
  /\ up' = FALSE /\ crashes' = crashes + 1
  /\ state' = FreshState
  /\ caller' = [c \in Callers |-> Resting]
  /\ holder' = Nobody
  /\ UNCHANGED <<store, today, build, told, adrift, calls>>

(* Startup binds the store only if the database answers, and restores what *)
(* load gives it.  A row that cannot be read degrades the store; a row of  *)
(* another schema does not.                                                *)
Start ==
  /\ ~up /\ up' = TRUE /\ build' \in Builds
  /\ \/ bound' = FALSE /\ healthy' = TRUE /\ state' = FreshState
        /\ adrift' = (saved # NoSnapshot)
     \/ bound' = TRUE /\ healthy' = TRUE /\ state' = Loaded(saved, build')
        /\ adrift' = (saved # NoSnapshot /\ ~Readable(saved, build'))
     \/ BootReadsFail /\ bound' = TRUE /\ healthy' = FALSE /\ state' = FreshState
        /\ adrift' = (saved # NoSnapshot)
  /\ UNCHANGED <<saved, holder, caller, today, told, bounds>>

CallerStep(c) ==
  \/ Read(c) \/ LookupRaises(c) \/ PriceSubmit(c) \/ Rule(c)
  \/ PriceTick(c) \/ PriceClose(c) \/ Persist(c)

Next ==
  \/ \E c \in Callers : Call(c) \/ Acquire(c) \/ CallerStep(c)
  \/ Midnight \/ Crash \/ Start

Spec == Init /\ [][Next]_vars

(* Awaits end, and the lock is handed on in the order it was asked for.    *)
FairSpec ==
  /\ Spec
  /\ \A c \in Callers : WF_vars(CallerStep(c)) /\ SF_vars(Acquire(c))

-----------------------------------------------------------------------------
(* Properties. *)

(* An account but for the day's session, which a read may exchange.        *)
ButForSession(a) == [a EXCEPT !.session = NewSession(0)]

\* The account an order is ruled on is the account it is filled in: between the
\* risk engine's view and the fill no reset, close, stop or other entry lands.
\* Only the day's session may be exchanged, by a read.
NothingMovesUnderARuling ==
  \A c \in Callers : caller[c].step = "ruling" =>
    ButForSession(state.account) = ButForSession(caller[c].view)

\* A retry never opens a second position in an account for its id, whatever other calls,
\* crashes and restores lie in between, unless the id has left the log meanwhile ("a
\* replay of a very old one would be treated as new", engines/paper/engine.py).
OneEntryPerId == \A i \in Ids \ state.gone : state.entered[i] <= 1

\* Whenever the account claims to be durable and no write is under way, a restart of
\* this build would bring back what memory holds (but for the session a read may have
\* started): over failed writes, writes that were reported failed and landed, rows that
\* could not be read and rows of another schema, which are refused again.
DurableMeansSaved ==
  up /\ holder = Nobody /\ Durable =>
    LET restored == Loaded(saved, build)
    IN /\ ButForSession(restored.account) = ButForSession(state.account)
       /\ restored.log = state.log /\ restored.index = state.index
       /\ restored.entered = state.entered /\ restored.gone = state.gone

\* A fill that was reported, and whose write landed, is known (or has left the log at
\* its ceiling) whenever the account claims to be durable, across crashes, starts
\* without a database and failed writes, so a retry of it is answered, never filled
\* again.  Two things end that: a reset, and a process that began without the row (it
\* could not be read, or its schema is another's) - until it writes, such a process
\* does not know the fill, and once it has written nobody does.
ReportedFillsAreKept ==
  up /\ holder = Nobody /\ Durable /\ ~adrift =>
    \A t \in told : t.row = "LANDED" /\ t.id \in Ids \ state.gone => state.index[t.id] = "filled"

\* Every call is answered, unless the process dies under it.
CallsAreAnswered ==
  \A c \in Callers : caller[c].step # "idle" ~> caller[c].step = "idle"

=============================================================================
