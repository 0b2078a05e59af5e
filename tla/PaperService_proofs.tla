------------------------- MODULE PaperService_proofs -------------------------
(***************************************************************************)
(* Proofs about PaperService for any callers, ids, calls, prices, days and *)
(* deaths.  What the engine makes of an account is opaque here: the proofs *)
(* rest on who may touch it while a call awaits, on what the log and its   *)
(* index say of each other, and on what the row holds of both.             *)
(***************************************************************************)
EXTENDS PaperService, TLAPS

LEMMA SomeLog == MaxOrderLog \in Nat /\ MaxOrderLog > 0
  BY ServiceAssumption

(* No row is taken for a missing one. *)
RowOf(v, a, l, e, g) ==
  [schema |-> v, account |-> a, log |-> l, entered |-> e, gone |-> g]
NoSnapshotIsNoRow == \A v, a, l, e, g : NoSnapshot # RowOf(v, a, l, e, g)

-----------------------------------------------------------------------------
(* Log and index. *)
Results == {"filled", "rejected"}
Entries == [id : Ids \cup {NoId}, result : Results]

(* The index names each id of the log once, with its result, and an id     *)
(* that was entered and has not left the log is filled in it.              *)
Good(l, x, e, g) ==
  /\ l \in Seq(Entries)
  /\ x \in [Ids -> Results \cup {"none"}]
  /\ e \in [Ids -> Nat]
  /\ g \subseteq Ids
  /\ \A n, m \in 1..Len(l) : l[n].id = l[m].id /\ l[n].id \in Ids => n = m
  /\ \A n \in 1..Len(l) : l[n].id \in Ids => x[l[n].id] = l[n].result
  /\ \A i \in Ids : x[i] # "none" => \E n \in 1..Len(l) : l[n].id = i
  /\ \A i \in Ids \ g : e[i] <= 1 /\ (e[i] # 0 => x[i] = "filled")

StateOf(a, l, x, e, g) ==
  [account |-> a, log |-> l, index |-> x, entered |-> e, gone |-> g]

SoundState(st) == \E a, l, x, e, g : st = StateOf(a, l, x, e, g) /\ Good(l, x, e, g)
SoundRow(r) == \E v, a, l, e, g : r = RowOf(v, a, l, e, g) /\ Good(l, IndexOf(l), e, g)

Keeps(st, i) == i \in st.gone \/ st.index[i] = "filled"
RowKeeps(r, i) == i \in r.gone \/ IndexOf(r.log)[i] = "filled"

(* An account touched by nothing but a reading of the clock. *)
Same(st, old) ==
  /\ ButForSession(st.account) = ButForSession(old.account)
  /\ st.log = old.log /\ st.index = old.index
  /\ st.entered = old.entered /\ st.gone = old.gone

(* What a mutation may do to a state: keep it sound, and forget no fill.   *)
Keeping(st, old) == SoundState(st) /\ \A i \in Ids : Keeps(old, i) => Keeps(st, i)

(* A row that holds a state, but for its session. *)
Mirror(r, st) ==
  /\ ButForSession(r.account) = ButForSession(st.account)
  /\ r.log = st.log /\ r.entered = st.entered /\ r.gone = st.gone

(* A reading of the log gives back the index: from_snapshot. *)
LEMMA IndexRebuilt ==
  ASSUME NEW l, NEW x, NEW e, NEW g, Good(l, x, e, g)
  PROVE  IndexOf(l) = x
<1>1. DOMAIN l = 1..Len(l)
  BY DEF Good
<1>2. ASSUME NEW i \in Ids PROVE IndexOf(l)[i] = x[i]
  <2>1. CASE \E n \in DOMAIN l : l[n].id = i
    <3>1. PICK n \in DOMAIN l : l[n].id = i
      BY <2>1
    <3>2. l[n] \in ToSet(l) /\ l[n].id = i
      BY <3>1 DEF ToSet
    <3> DEFINE o == CHOOSE o \in ToSet(l) : o.id = i
    <3>3. o \in ToSet(l) /\ o.id = i
      BY <3>2
    <3> HIDE DEF o
    <3>4. PICK m \in DOMAIN l : l[m] = o
      BY <3>3 DEF ToSet
    <3>5. x[i] = o.result
      BY <1>1, <3>3, <3>4 DEF Good
    <3> QED BY <2>1, <3>5 DEF IndexOf, o
  <2>2. CASE ~ \E n \in DOMAIN l : l[n].id = i
    <3>1. x[i] = "none"
      BY <1>1, <2>2 DEF Good
    <3> QED BY <2>2, <3>1 DEF IndexOf
  <2> QED BY <2>1, <2>2
<1>3. IndexOf(l) = [i \in Ids |-> IndexOf(l)[i]]
  BY DEF IndexOf
<1>4. x = [i \in Ids |-> x[i]]
  BY DEF Good
<1> HIDE DEF Good
<1> QED BY <1>2, <1>3, <1>4

-----------------------------------------------------------------------------
(* _record_order *)

Extended(log, y, l, id, result) ==
  /\ log \in Seq(Entries) /\ Len(log) = Len(l) + 1
  /\ log[Len(log)].id = id /\ log[Len(log)].result = result
  /\ \A n, m \in 1..Len(log) : log[n].id = log[m].id /\ log[n].id \in Ids => n = m
  /\ \A n \in 1..Len(log) : log[n].id \in Ids => y[log[n].id] = log[n].result
  /\ \A i \in Ids : y[i] # "none" => \E n \in 1..Len(log) : log[n].id = i

(* Appending an order under an id that the index does not know.            *)
LEMMA Appended ==
  ASSUME NEW l, NEW x, NEW e, NEW g, Good(l, x, e, g),
         NEW id \in Ids \cup {NoId}, id \in Ids => x[id] = "none",
         NEW result \in Results,
         NEW log, log = Append(l, [id |-> id, result |-> result]),
         NEW y, y = [i \in Ids |-> IF i = id THEN result ELSE x[i]]
  PROVE  Extended(log, y, l, id, result)
<1> DEFINE entry == [id |-> id, result |-> result]
<1>1. entry \in Entries /\ entry.id = id /\ entry.result = result
  BY DEF Entries
<1>2. l \in Seq(Entries) /\ Len(l) \in Nat
  BY DEF Good
<1> HIDE DEF entry
<1>3. /\ log \in Seq(Entries) /\ Len(log) = Len(l) + 1
      /\ log[Len(log)] = entry
      /\ \A n \in 1..Len(l) : log[n] = l[n]
  BY <1>1, <1>2 DEF entry
<1>4. ASSUME NEW n \in 1..Len(l), l[n].id \in Ids PROVE l[n].id # id
  <2>1. x[l[n].id] = l[n].result /\ l[n] \in Entries
    BY <1>2, <1>4 DEF Good
  <2>2. l[n].result # "none"
    BY <2>1 DEF Entries, Results
  <2> QED BY <2>1, <2>2, <1>4
<1>5. \A n \in 1..Len(log) : n = Len(log) \/ n \in 1..Len(l)
  BY <1>2, <1>3
<1>6. ASSUME NEW n \in 1..Len(log), NEW m \in 1..Len(log),
             log[n].id = log[m].id, log[n].id \in Ids
      PROVE  n = m
  <2>1. CASE n \in 1..Len(l) /\ m \in 1..Len(l)
    BY <1>3, <1>6, <2>1 DEF Good
  <2>2. CASE n = Len(log) /\ m \in 1..Len(l)
    BY <1>1, <1>3, <1>4, <1>6, <2>2
  <2>3. CASE m = Len(log) /\ n \in 1..Len(l)
    BY <1>1, <1>3, <1>4, <1>6, <2>3
  <2> QED BY <1>5, <2>1, <2>2, <2>3
<1>7. ASSUME NEW n \in 1..Len(log), log[n].id \in Ids
      PROVE  y[log[n].id] = log[n].result
  <2>1. CASE n \in 1..Len(l)
    <3>1. x[l[n].id] = l[n].result /\ log[n] = l[n] /\ l[n].id # id
      BY <1>3, <1>4, <1>7, <2>1 DEF Good
    <3> QED BY <3>1, <1>7
  <2>2. CASE n = Len(log)
    BY <1>1, <1>3, <1>7, <2>2
  <2> QED BY <1>5, <2>1, <2>2
<1>8. ASSUME NEW i \in Ids, y[i] # "none" PROVE \E n \in 1..Len(log) : log[n].id = i
  <2>1. CASE i = id
    <3>1. Len(log) \in 1..Len(log)
      BY <1>2, <1>3
    <3> QED BY <1>1, <1>3, <2>1, <3>1
  <2>2. CASE i # id
    <3>1. PICK n \in 1..Len(l) : l[n].id = i
      BY <1>8, <2>2 DEF Good
    <3>2. n \in 1..Len(log) /\ log[n] = l[n]
      BY <1>2, <1>3
    <3> QED BY <3>1, <3>2
  <2> QED BY <2>1, <2>2
<1> QED BY <1>1, <1>3, <1>6, <1>7, <1>8 DEF Extended

(* The oldest leave: what stays is still indexed once, the rest is gone.   *)
LEMMA Recorded ==
  ASSUME NEW a, NEW l, NEW x, NEW e, NEW g, Good(l, x, e, g),
         NEW id \in Ids \cup {NoId}, id \in Ids => x[id] = "none",
         NEW result \in Results
  PROVE  \E l2, x2, g2 :
           /\ WithOrder(StateOf(a, l, x, e, g), id, result) = StateOf(a, l2, x2, e, g2)
           /\ Good(l2, x2, e, g2)
           /\ g \subseteq g2
           /\ \A i \in Ids : x[i] = "filled" => i \in g2 \/ x2[i] = "filled"
           /\ id \in Ids => x2[id] = result
<1> DEFINE log == Append(l, [id |-> id, result |-> result])
           y == [i \in Ids |-> IF i = id THEN result ELSE x[i]]
           k == IF Len(log) > MaxOrderLog THEN Len(log) - MaxOrderLog ELSE 0
           evicted == {log[n].id : n \in 1..k}
           l2 == SubSeq(log, k + 1, Len(log))
           g2 == g \cup (evicted \cap Ids)
           x2 == [i \in Ids |-> CASE i \in evicted -> "none"
                                  [] i = id /\ i \notin evicted -> result
                                  [] OTHER -> x[i]]
<1>1. WithOrder(StateOf(a, l, x, e, g), id, result) = StateOf(a, l2, x2, e, g2)
  <2>1. PICK st : st = StateOf(a, l, x, e, g)
    OBVIOUS
  <2>2. st.account = a /\ st.log = l /\ st.gone = g /\ st.index = x /\ st.entered = e
    BY <2>1 DEF StateOf
  <2> DEFINE Log == Append(st.log, [id |-> id, result |-> result])
             K == IF Len(Log) > MaxOrderLog THEN Len(Log) - MaxOrderLog ELSE 0
             Evicted == {Log[n].id : n \in 1..K}
             Index == [i \in Ids |-> CASE i \in Evicted -> "none"
                                       [] i = id /\ i \notin Evicted -> result
                                       [] OTHER -> st.index[i]]
  <2>3. WithOrder(st, id, result) =
          StateOf(st.account, SubSeq(Log, K + 1, Len(Log)), Index, st.entered,
                  st.gone \cup (Evicted \cap Ids))
    BY DEF WithOrder, StateOf
  <2>4. Log = log
    BY <2>2
  <2> HIDE DEF Log, log
  <2>5. K = k
    BY <2>4
  <2> HIDE DEF K, k
  <2>6. Evicted = evicted
    BY <2>4, <2>5
  <2> HIDE DEF Evicted, evicted
  <2>7. Index = x2
    BY <2>2, <2>6
  <2> HIDE DEF Index, x2
  <2> QED BY <2>1, <2>2, <2>3, <2>4, <2>5, <2>6, <2>7
<1>2. Extended(log, y, l, id, result)
  <2> HIDE DEF k, evicted, l2, g2, x2
  <2> QED BY Appended
<1>3. Len(l) \in Nat
  BY DEF Good
<1> HIDE DEF log, y
<1> USE DEF Extended
<1>4. k \in Nat /\ k < Len(log)
  BY <1>2, <1>3, SomeLog
<1> HIDE DEF k
<1>5. /\ l2 \in Seq(Entries) /\ Len(l2) = Len(log) - k
      /\ \A n \in 1..Len(l2) : n + k \in 1..Len(log) /\ l2[n] = log[n + k]
  BY <1>2, <1>4
<1>6. ASSUME NEW n \in 1..Len(log), log[n].id \in Ids
      PROVE  log[n].id \in evicted <=> n <= k
  BY <1>2, <1>4, <1>6
<1>7. id \in Ids => id \notin evicted
  BY <1>2, <1>3, <1>4, <1>6
<1> HIDE DEF evicted, l2
<1>8. ASSUME NEW i \in Ids
      PROVE  x2[i] = IF i \in evicted THEN "none" ELSE y[i]
  BY DEF y
<1>9. y \in [Ids -> Results \cup {"none"}]
  BY DEF y, Good
<1>10. x2 \in [Ids -> Results \cup {"none"}]
  BY <1>8, <1>9
<1>11. \A i \in Ids : x[i] = "filled" => y[i] = "filled"
  BY DEF y
<1>12. id \in Ids => y[id] = result
  BY DEF y
<1> HIDE DEF x2
<1>13. Good(l2, x2, e, g2)
  <2>1. \A n, m \in 1..Len(l2) : l2[n].id = l2[m].id /\ l2[n].id \in Ids => n = m
    <3> SUFFICES ASSUME NEW n \in 1..Len(l2), NEW m \in 1..Len(l2),
                        l2[n].id = l2[m].id, l2[n].id \in Ids
                 PROVE  n = m
      OBVIOUS
    <3>1. n + k = m + k
      BY <1>2, <1>5
    <3> QED BY <1>4, <3>1
  <2>2. ASSUME NEW n \in 1..Len(l2), l2[n].id \in Ids
        PROVE  x2[l2[n].id] = l2[n].result
    <3>1. l2[n] = log[n + k] /\ n + k \in 1..Len(log) /\ ~(n + k <= k)
      BY <1>4, <1>5
    <3>2. l2[n].id \notin evicted
      BY <1>6, <2>2, <3>1
    <3> QED BY <1>2, <1>8, <2>2, <3>1, <3>2
  <2>3. ASSUME NEW i \in Ids, x2[i] # "none"
        PROVE  \E n \in 1..Len(l2) : l2[n].id = i
    <3>1. i \notin evicted /\ y[i] # "none"
      BY <1>8, <2>3
    <3>2. PICK m \in 1..Len(log) : log[m].id = i
      BY <1>2, <3>1
    <3>3. m - k \in 1..Len(l2) /\ m = (m - k) + k
      BY <1>4, <1>5, <1>6, <3>1, <3>2
    <3> QED BY <1>5, <3>2, <3>3
  <2>4. ASSUME NEW i \in Ids \ g2
        PROVE  e[i] <= 1 /\ (e[i] # 0 => x2[i] = "filled")
    <3>1. e[i] <= 1 /\ (e[i] # 0 => x[i] = "filled")
      BY DEF Good
    <3>2. i \notin evicted
      OBVIOUS
    <3> QED BY <1>8, <1>11, <3>1, <3>2
  <2> QED BY <1>5, <1>10, <2>1, <2>2, <2>3, <2>4 DEF Good
<1>14. \A i \in Ids : x[i] = "filled" => i \in g2 \/ x2[i] = "filled"
  BY <1>8, <1>11
<1>15. id \in Ids => x2[id] = result
  BY <1>7, <1>8, <1>12
<1> QED BY <1>1, <1>13, <1>14, <1>15

-----------------------------------------------------------------------------
(* The engine's operations on a sound state. *)

LEMMA SessionIsAll ==
  ASSUME NEW a, NEW d
  PROVE  ButForSession(EnsureSession(a, d)) = ButForSession(a)
<1>1. ASSUME NEW x PROVE ButForSession([a EXCEPT !.session = x]) = ButForSession(a)
  <2> DEFINE b == [a EXCEPT !.session = x]
  <2>1. b = [k \in DOMAIN a |-> IF k = "session" THEN x ELSE a[k]]
    OBVIOUS
  <2>2. ButForSession(a) = [k \in DOMAIN a |-> IF k = "session" THEN NewSession(0) ELSE a[k]]
    BY DEF ButForSession
  <2>3. ButForSession(b) = [k \in DOMAIN b |-> IF k = "session" THEN NewSession(0) ELSE b[k]]
    BY DEF ButForSession
  <2>4. DOMAIN b = DOMAIN a /\ \A k \in DOMAIN a : k # "session" => b[k] = a[k]
    BY <2>1
  <2> HIDE DEF b
  <2>5. ButForSession(b) = ButForSession(a)
    BY <2>2, <2>3, <2>4
  <2> QED BY <2>5 DEF b
<1> QED BY <1>1 DEF EnsureSession

(* Whatever the account becomes, the log and its index stay. *)
LEMMA AccountOnly ==
  ASSUME NEW st, SoundState(st), NEW a
  PROVE  LET new == [st EXCEPT !.account = a]
         IN /\ Keeping(new, st)
            /\ new.account = a /\ new.log = st.log /\ new.index = st.index
            /\ new.entered = st.entered /\ new.gone = st.gone
<1>1. PICK b, l, x, e, g : st = StateOf(b, l, x, e, g) /\ Good(l, x, e, g)
  BY DEF SoundState
<1>2. [st EXCEPT !.account = a] = StateOf(a, l, x, e, g)
  BY <1>1 DEF StateOf
<1>3. SoundState(StateOf(a, l, x, e, g))
  BY <1>1 DEF SoundState
<1> QED BY <1>1, <1>2, <1>3 DEF Keeping, Keeps, StateOf

LEMMA OnIsSame ==
  ASSUME NEW st, SoundState(st), NEW d
  PROVE  Keeping(On(st, d), st) /\ Same(On(st, d), st)
BY AccountOnly, SessionIsAll DEF On, Same

LEMMA ResetIsSound == ASSUME NEW d PROVE SoundState(FreshState) /\ SoundState(ResetOn(d))
<1> DEFINE x == [i \in Ids |-> "none"]
           e == [i \in Ids |-> 0]
<1>1. Good(<<>>, x, e, {})
  <2>1. <<>> \in Seq(Entries) /\ Len(<<>>) = 0
    OBVIOUS
  <2>2. x \in [Ids -> Results \cup {"none"}] /\ e \in [Ids -> Nat]
    OBVIOUS
  <2>3. \A i \in Ids : x[i] = "none" /\ e[i] = 0
    OBVIOUS
  <2> HIDE DEF x, e
  <2> QED BY <2>1, <2>2, <2>3 DEF Good
<1>2. FreshState = StateOf(Fresh(StartingBalance), <<>>, x, e, {})
  BY DEF FreshState, StateOf
<1> HIDE DEF x, e
<1>3. SoundState(FreshState)
  BY <1>1, <1>2 DEF SoundState
<1> QED BY <1>3, OnIsSame DEF ResetOn, Keeping

LEMMA StopKeeps ==
  ASSUME NEW st, SoundState(st), NEW b, NEW d
  PROVE  Keeping(StoppedIn(st, b, d), st)
<1>1. SoundState(On(st, d)) /\ \A i \in Ids : Keeps(st, i) => Keeps(On(st, d), i)
  BY OnIsSame DEF Keeping
<1>2. StoppedIn(st, b, d) =
        [On(st, d) EXCEPT !.account = [On(st, d).account EXCEPT !.stopped = b]]
  BY DEF StoppedIn
<1>3. Keeping(StoppedIn(st, b, d), On(st, d))
  BY <1>1, <1>2, AccountOnly
<1> QED BY <1>1, <1>3 DEF Keeping

LEMMA TickKeeps ==
  ASSUME NEW st, SoundState(st), NEW symbols, NEW marks, NEW d
  PROVE  Keeping(Ticked(st, symbols, marks, d), st)
BY AccountOnly DEF Ticked

(* An order under an id the log does not hold, or under none. *)
LEMMA OrderKeeps ==
  ASSUME NEW st, SoundState(st), NEW id \in Ids \cup {NoId},
         id \in Ids => st.index[id] = "none", NEW result \in Results
  PROVE  /\ Keeping(WithOrder(st, id, result), st)
         /\ WithOrder(st, id, result).entered = st.entered
         /\ st.gone \subseteq WithOrder(st, id, result).gone
         /\ id \in Ids => WithOrder(st, id, result).index[id] = result
<1>1. PICK a, l, x, e, g : st = StateOf(a, l, x, e, g) /\ Good(l, x, e, g)
  BY DEF SoundState
<1>2. st.index = x /\ st.entered = e /\ st.gone = g
  BY <1>1 DEF StateOf
<1>3. PICK l2, x2, g2 :
        /\ WithOrder(StateOf(a, l, x, e, g), id, result) = StateOf(a, l2, x2, e, g2)
        /\ Good(l2, x2, e, g2)
        /\ g \subseteq g2
        /\ \A i \in Ids : x[i] = "filled" => i \in g2 \/ x2[i] = "filled"
        /\ id \in Ids => x2[id] = result
  BY <1>1, <1>2, Recorded
<1> DEFINE new == WithOrder(st, id, result)
<1>4. new = StateOf(a, l2, x2, e, g2)
  BY <1>1, <1>3
<1> HIDE DEF new
<1>5. new.index = x2 /\ new.entered = e /\ new.gone = g2
  BY <1>4 DEF StateOf
<1>6. SoundState(new)
  BY <1>3, <1>4 DEF SoundState
<1>7. Keeping(new, st)
  BY <1>2, <1>3, <1>5, <1>6 DEF Keeping, Keeps
<1> QED BY <1>2, <1>3, <1>5, <1>7 DEF new

LEMMA CloseKeeps ==
  ASSUME NEW st, SoundState(st), NEW s, NEW mark, NEW d
  PROVE  Keeping(ClosedIn(st, s, mark, d), st)
<1> DEFINE b == [st EXCEPT !.account = ClosedByHand(st.account, s, mark, d)]
           r == IF IsOpen(st.account, s) /\ mark.usable THEN "filled" ELSE "rejected"
<1>1. ClosedIn(st, s, mark, d) = WithOrder(b, NoId, r)
  BY DEF ClosedIn
<1>2. Keeping(b, st)
  BY AccountOnly
<1>3. r \in Results
  BY DEF Results
<1> HIDE DEF b, r
<1>4. NoId \notin Ids
  BY ServiceAssumption
<1>5. Keeping(WithOrder(b, NoId, r), b)
  BY <1>2, <1>3, <1>4, OrderKeeps DEF Keeping
<1> QED BY <1>1, <1>2, <1>5 DEF Keeping

LEMMA RefusalKeeps ==
  ASSUME NEW st, SoundState(st), NEW id \in Ids, st.index[id] = "none", NEW d
  PROVE  Keeping(Refused(st, id, d), st)
<1>1. Keeping(On(st, d), st) /\ On(st, d).index[id] = "none"
  BY OnIsSame DEF Same
<1>2. Keeping(WithOrder(On(st, d), id, "rejected"), On(st, d))
  BY <1>1, OrderKeeps DEF Keeping, Results
<1> QED BY <1>1, <1>2 DEF Keeping, Refused

(* The one operation that opens a position under an id: the id was not     *)
(* indexed, so it was never entered, or it has left the log.               *)
LEMMA SubmissionKeeps ==
  ASSUME NEW st, SoundState(st), NEW id \in Ids, st.index[id] = "none",
         NEW r, NEW mark, NEW d
  PROVE  Keeping(SubmittedTo(st, r, id, mark, d), st)
<1> DEFINE b == On(st, d)
           c == [b EXCEPT !.account = Opened(b.account, r, mark)]
           w == WithOrder(c, id, "filled")
           f == [w EXCEPT !.entered[id] = w.entered[id] + 1]
<1>1. Keeping(b, st) /\ Same(b, st)
  BY OnIsSame
<1>2. SubmittedTo(st, r, id, mark, d) =
        IF MayOpen(b.account, r, mark) THEN f ELSE WithOrder(b, id, "rejected")
  BY DEF SubmittedTo
<1> HIDE DEF b
<1>3. CASE ~ MayOpen(b.account, r, mark)
  <2>1. Keeping(WithOrder(b, id, "rejected"), b)
    BY <1>1, OrderKeeps DEF Keeping, Same, Results
  <2> QED BY <1>1, <1>2, <1>3, <2>1 DEF Keeping
<1>4. CASE MayOpen(b.account, r, mark)
  <2>1. SoundState(b) /\ b.index[id] = "none"
    BY <1>1 DEF Keeping, Same
  <2>2. Keeping(c, b) /\ c.index = b.index /\ c.entered = b.entered /\ c.gone = b.gone
    BY <2>1, AccountOnly
  <2> HIDE DEF c
  <2>3. /\ Keeping(w, c) /\ w.entered = c.entered /\ c.gone \subseteq w.gone
        /\ w.index[id] = "filled"
    BY <2>1, <2>2, OrderKeeps DEF Keeping, Results
  <2> HIDE DEF w
  <2>4. PICK a, l, x, e, g : w = StateOf(a, l, x, e, g) /\ Good(l, x, e, g)
    BY <2>3 DEF Keeping, SoundState
  <2> DEFINE e2 == [e EXCEPT ![id] = e[id] + 1]
  <2>5. w.entered = e /\ w.gone = g /\ w.index = x
    BY <2>4 DEF StateOf
  <2>6. f = StateOf(a, l, x, e2, g)
    BY <2>4, <2>5 DEF StateOf
  <2>7. id \notin g => e[id] = 0
    <3> SUFFICES ASSUME id \notin g PROVE e[id] = 0
      OBVIOUS
    <3>1. PICK a1, l1, x1, e1, g1 : b = StateOf(a1, l1, x1, e1, g1) /\ Good(l1, x1, e1, g1)
      BY <2>1 DEF SoundState
    <3>2. e1 = e /\ x1[id] = "none" /\ id \notin g1
      BY <2>1, <2>2, <2>3, <2>5, <3>1 DEF StateOf
    <3> QED BY <3>1, <3>2 DEF Good
  <2>8. Good(l, x, e2, g)
    <3>1. e \in [Ids -> Nat]
      BY <2>4 DEF Good
    <3>2. e2 \in [Ids -> Nat]
      BY <3>1
    <3>3. ASSUME NEW i \in Ids \ g
          PROVE  e2[i] <= 1 /\ (e2[i] # 0 => x[i] = "filled")
      <4>1. e[i] <= 1 /\ (e[i] # 0 => x[i] = "filled")
        BY <2>4 DEF Good
      <4>2. CASE i = id
        BY <2>3, <2>5, <2>7, <3>1, <4>2
      <4>3. CASE i # id
        BY <3>1, <4>1, <4>3
      <4> QED BY <4>2, <4>3
    <3> HIDE DEF e2
    <3> QED BY <2>4, <3>2, <3>3 DEF Good
  <2> HIDE DEF e2, f
  <2>9. SoundState(f) /\ f.index = x /\ f.gone = g
    BY <2>6, <2>8 DEF SoundState, StateOf
  <2>10. \A i \in Ids : Keeps(w, i) => Keeps(f, i)
    BY <2>5, <2>9 DEF Keeps
  <2> QED BY <1>1, <1>2, <1>4, <2>2, <2>3, <2>9, <2>10 DEF Keeping
<1> QED BY <1>3, <1>4

(* What is written and read back. *)
LEMMA Written ==
  ASSUME NEW st, SoundState(st), NEW v
  PROVE  LET r == ToSnapshot(st, v) IN SoundRow(r) /\ Mirror(r, st) /\ r.schema = v
<1>1. PICK a, l, x, e, g : st = StateOf(a, l, x, e, g) /\ Good(l, x, e, g)
  BY DEF SoundState
<1>2. ToSnapshot(st, v) = RowOf(v, a, l, e, g)
  BY <1>1 DEF StateOf, RowOf, ToSnapshot
<1>3. Good(l, IndexOf(l), e, g)
  BY <1>1, IndexRebuilt
<1>4. SoundRow(ToSnapshot(st, v))
  BY <1>2, <1>3 DEF SoundRow
<1>5. Mirror(ToSnapshot(st, v), st) /\ ToSnapshot(st, v).schema = v
  BY DEF Mirror, ToSnapshot
<1> QED BY <1>4, <1>5

LEMMA ReadBack ==
  ASSUME NEW r, SoundRow(r)
  PROVE  /\ SoundState(FromSnapshot(r)) /\ Mirror(r, FromSnapshot(r))
         /\ \A i \in Ids : RowKeeps(r, i) => Keeps(FromSnapshot(r), i)
<1>1. PICK v, a, l, e, g : r = RowOf(v, a, l, e, g) /\ Good(l, IndexOf(l), e, g)
  BY DEF SoundRow
<1>2. FromSnapshot(r) = StateOf(a, l, IndexOf(l), e, g)
  BY <1>1 DEF StateOf, RowOf, FromSnapshot
<1>3. SoundState(FromSnapshot(r))
  BY <1>1, <1>2 DEF SoundState
<1>4. Mirror(r, FromSnapshot(r)) /\ \A i \in Ids : RowKeeps(r, i) => Keeps(FromSnapshot(r), i)
  BY DEF Mirror, FromSnapshot, RowKeeps, Keeps
<1> QED BY <1>3, <1>4

(* A row that mirrors a state gives it back. *)
LEMMA MirrorLoads ==
  ASSUME NEW st, SoundState(st), NEW r, Mirror(r, st)
  PROVE  Same(FromSnapshot(r), st)
<1>1. PICK a, l, x, e, g : st = StateOf(a, l, x, e, g) /\ Good(l, x, e, g)
  BY DEF SoundState
<1>2. st.log = l /\ st.index = x
  BY <1>1 DEF StateOf
<1>3. IndexOf(r.log) = st.index
  BY <1>1, <1>2, IndexRebuilt DEF Mirror
<1> QED BY <1>3 DEF Mirror, Same, FromSnapshot

LEMMA MirrorKeeps ==
  ASSUME NEW r, NEW st, SoundState(st), Mirror(r, st), NEW i \in Ids, Keeps(st, i)
  PROVE  RowKeeps(r, i)
<1>1. PICK a, l, x, e, g : st = StateOf(a, l, x, e, g) /\ Good(l, x, e, g)
  BY DEF SoundState
<1>2. r.log = l /\ r.gone = g /\ st.index = x /\ st.gone = g
  BY <1>1 DEF StateOf, Mirror
<1>3. IndexOf(l) = x
  BY <1>1, IndexRebuilt
<1> QED BY <1>2, <1>3 DEF Keeps, RowKeeps

-----------------------------------------------------------------------------
(* The inductive invariant. *)

Fields == {"step", "call", "day", "view", "result", "document"}
Held == {"pricing", "ruling", "saving"}

Shaped == /\ caller = [c \in Callers |-> caller[c]]
          /\ \A c \in Callers : DOMAIN caller[c] = Fields

(* What a coroutine may count on where it stands. *)
Placed(c) ==
  /\ caller[c].step # "idle" => up /\ caller[c].call \in Calls
  /\ caller[c].step \in Held => holder = c
RulingOn(c) ==
  caller[c].step = "ruling" =>
    /\ caller[c].call.kind = "submit" /\ state.index[caller[c].call.id] = "none"
    /\ ButForSession(state.account) = ButForSession(caller[c].view)
Saving(c) ==
  caller[c].step = "saving" =>
    /\ caller[c].result = "filled" =>
         caller[c].call.id \in Ids /\ Keeps(state, caller[c].call.id)
    /\ bound => /\ SoundRow(caller[c].document) /\ Mirror(caller[c].document, state)
                /\ caller[c].document.schema = build

Sound == SoundState(state) /\ (saved # NoSnapshot => SoundRow(saved))

(* What was told, and landed, is in the row, and in memory while the store  *)
(* is bound and the process began with the row; and what a restart of the  *)
(* build would bring back is what memory holds.                            *)
ToldInRow ==
  \A t \in told : t.row = "LANDED" =>
    t.id \in Ids /\ saved # NoSnapshot /\ RowKeeps(saved, t.id)
ToldInMemory ==
  up /\ bound /\ ~adrift => \A t \in told : t.row = "LANDED" => Keeps(state, t.id)
RowIsCurrent ==
  up /\ Durable /\ (\A c \in Callers : caller[c].step # "saving") =>
    Same(Loaded(saved, build), state)

IInv ==
  /\ Shaped
  /\ \A c \in Callers : Placed(c) /\ RulingOn(c) /\ Saving(c)
  /\ Sound
  /\ NoSnapshotIsNoRow => ToldInRow /\ ToldInMemory /\ RowIsCurrent

LEMMA Starts == Init => IInv
<1> SUFFICES ASSUME Init PROVE IInv
  OBVIOUS
<1>1. SoundState(FreshState)
  BY ResetIsSound
<1>2. \A c \in Callers : caller[c] = Resting /\ Resting.step = "idle" /\ DOMAIN Resting = Fields
  BY DEF Init, Resting, Fields
<1>3. Shaped
  BY <1>2 DEF Init, Shaped
<1>4. \A c \in Callers : Placed(c) /\ RulingOn(c) /\ Saving(c)
  BY <1>2 DEF Placed, RulingOn, Saving, Held
<1>5. Sound
  BY <1>1 DEF Init, Sound
<1>6. ToldInRow /\ ToldInMemory
  BY DEF Init, ToldInRow, ToldInMemory
<1>7. RowIsCurrent
  BY DEF Init, RowIsCurrent, Loaded, Readable, Same
<1> QED BY <1>3, <1>4, <1>5, <1>6, <1>7 DEF IInv

(* The session alone changes, and no coroutine takes another step that     *)
(* matters: a read, a lookup that raised, a ruling begun, a call, a day.   *)
LEMMA Undisturbed ==
  ASSUME IInv,
         Shaped',
         \A c \in Callers : Placed(c)',
         SoundState(state'), Same(state', state),
         UNCHANGED process,
         saved' = saved, bound' = bound, healthy' = healthy, told' = told,
         \A c \in Callers : \/ caller'[c].step = caller[c].step /\ caller'[c] = caller[c]
                            \/ /\ caller[c].step # "saving"
                               /\ caller'[c].step # "saving"
                               /\ RulingOn(c)'
  PROVE  IInv'
<1>1. \A c \in Callers : RulingOn(c)'
  BY DEF IInv, RulingOn, Same
<1>2. \A i : Keeps(state', i) <=> Keeps(state, i)
  BY DEF Same, Keeps
<1>3. /\ \A r : Mirror(r, state') <=> Mirror(r, state)
      /\ \A st : Same(st, state') <=> Same(st, state)
  BY DEF Same, Mirror
<1>4. \A c \in Callers : Saving(c)'
  BY <1>2, <1>3 DEF IInv, Saving, process
<1>5. Sound'
  BY DEF IInv, Sound
<1>6. NoSnapshotIsNoRow => (ToldInRow /\ ToldInMemory /\ RowIsCurrent)'
  <2> SUFFICES ASSUME NoSnapshotIsNoRow PROVE (ToldInRow /\ ToldInMemory /\ RowIsCurrent)'
    OBVIOUS
  <2>1. ToldInRow'
    BY DEF IInv, ToldInRow
  <2>2. ToldInMemory'
    BY <1>2 DEF IInv, ToldInMemory, process
  <2>3. RowIsCurrent'
    BY <1>3 DEF IInv, RowIsCurrent, Durable, process
  <2> QED BY <2>1, <2>2, <2>3
<1> QED BY <1>1, <1>4, <1>5, <1>6 DEF IInv

(* The holder of the lock, or who just took it, mutates the state. *)
LEMMA Mutated ==
  ASSUME IInv,
         NEW c \in Callers, up, caller[c].step # "idle", holder \in {c, Nobody},
         NEW st, SoundState(st), NEW result, Mutates(c, st, result), holder' = c,
         result = "filled" => caller[c].call.id \in Ids /\ Keeps(st, caller[c].call.id),
         \/ told' = {}
         \/ told' = told /\ \A i \in Ids : Keeps(state, i) => Keeps(st, i),
         saved' = saved, bound' = bound, healthy' = healthy, UNCHANGED process
  PROVE  IInv'
<1> DEFINE doc == IF bound THEN ToSnapshot(st, build) ELSE NoSnapshot
<1>1. state' = st
  BY DEF Mutates
<1>2. /\ Shaped' /\ \A b \in Callers \ {c} : caller'[b] = caller[b]
      /\ caller'[c].step = "saving" /\ caller'[c].result = result
      /\ caller'[c].document = doc /\ caller'[c].call = caller[c].call
  BY DEF IInv, Shaped, Mutates, Fields
<1>3. \A b \in Callers \ {c} : caller[b].step \notin Held
  BY ServiceAssumption DEF IInv, Placed
<1>4. \A b \in Callers : Placed(b)'
  BY <1>2, <1>3 DEF IInv, Placed, process
<1>5. \A b \in Callers : RulingOn(b)'
  BY <1>2, <1>3 DEF RulingOn, Held
<1>6. \A b \in Callers : Saving(b)'
  <2>1. Saving(c)'
    BY <1>1, <1>2, Written DEF Saving, process
  <2> QED BY <1>2, <1>3, <2>1 DEF Saving, Held
<1>7. Sound'
  BY <1>1 DEF IInv, Sound
<1>8. NoSnapshotIsNoRow => (ToldInRow /\ ToldInMemory /\ RowIsCurrent)'
  <2> SUFFICES ASSUME NoSnapshotIsNoRow PROVE (ToldInRow /\ ToldInMemory /\ RowIsCurrent)'
    OBVIOUS
  <2>1. ToldInRow'
    BY DEF IInv, ToldInRow
  <2>2. ToldInMemory'
    BY <1>1 DEF IInv, ToldInMemory, ToldInRow, process
  <2>3. RowIsCurrent'
    BY <1>2 DEF RowIsCurrent
  <2> QED BY <2>1, <2>2, <2>3
<1> QED BY <1>2, <1>4, <1>5, <1>6, <1>7, <1>8 DEF IInv

-----------------------------------------------------------------------------
(* The steps. *)

LEMMA SubmitsAnId ==
  ASSUME IInv, NEW c \in Callers, caller[c].step # "idle", Doing(c, "submit")
  PROVE  caller[c].call.id \in Ids
BY ServiceAssumption DEF IInv, Placed, Doing

LEMMA CallStep == ASSUME IInv, NEW c \in Callers, Call(c) PROVE IInv'
<1>1. PICK k \in Calls :
        /\ At(c, "idle")
        /\ caller' = [caller EXCEPT ![c].call = k,
                        ![c].step = IF k.kind = "read" THEN "reading" ELSE "queued",
                        ![c].day = IF k.kind = "read" THEN today ELSE 0]
        /\ UNCHANGED <<state, store, holder, process, today, told, crashes>>
  BY DEF Call
<1>2. /\ Shaped' /\ \A b \in Callers \ {c} : caller'[b] = caller[b]
      /\ caller'[c].step \in {"reading", "queued"} /\ caller'[c].call = k
  BY <1>1 DEF IInv, Shaped, Fields
<1>3. \A b \in Callers : Placed(b)'
  BY <1>1, <1>2 DEF IInv, Placed, Held, At, process
<1>4. RulingOn(c)' /\ caller[c].step # "saving" /\ caller'[c].step # "saving"
  BY <1>1, <1>2 DEF RulingOn, At
<1>5. SoundState(state') /\ Same(state', state)
  BY <1>1 DEF IInv, Sound, Same
<1> QED BY <1>1, <1>2, <1>3, <1>4, <1>5, Undisturbed DEF store

(* A coroutine that leaves without having mutated anything but a session.  *)
LEMMA Leaves ==
  ASSUME IInv, NEW c \in Callers, caller[c].step \notin {"idle", "saving"},
         caller' = [caller EXCEPT ![c] = Resting],
         SoundState(state'), Same(state', state),
         holder' = holder \/ holder = c,
         UNCHANGED <<store, process, told>>
  PROVE  IInv'
<1>1. /\ Shaped' /\ \A b \in Callers \ {c} : caller'[b] = caller[b]
      /\ caller'[c].step = "idle"
  BY DEF IInv, Shaped, Resting, Fields
<1>2. \A b \in Callers : Placed(b)'
  BY <1>1 DEF IInv, Placed, Held, process
<1>3. RulingOn(c)'
  BY <1>1 DEF RulingOn
<1> QED BY <1>1, <1>2, <1>3, Undisturbed DEF store

LEMMA ReadStep == ASSUME IInv, NEW c \in Callers, Read(c) PROVE IInv'
<1>1. SoundState(state') /\ Same(state', state)
  BY OnIsSame DEF Read, IInv, Sound, Keeping
<1> QED BY <1>1, Leaves DEF Read, At

LEMMA RaiseStep == ASSUME IInv, NEW c \in Callers, LookupRaises(c) PROVE IInv'
<1>1. caller[c].step = "pricing" /\ holder = c
  BY DEF LookupRaises, At, IInv, Placed, Held
<1>2. SoundState(state') /\ Same(state', state)
  BY DEF LookupRaises, IInv, Sound, Same
<1> QED BY <1>1, <1>2, Leaves DEF LookupRaises, Released

LEMMA AcquireStep == ASSUME IInv, NEW c \in Callers, Acquire(c) PROVE IInv'
<1>1. /\ up /\ caller[c].step = "queued" /\ holder = Nobody /\ holder' = c
      /\ saved' = saved /\ bound' = bound /\ healthy' = healthy /\ UNCHANGED process
  BY DEF Acquire, Enters, At, store
<1>2. SoundState(state)
  BY DEF IInv, Sound
<1>3. CASE Doing(c, "reset")
  <2>1. Mutates(c, ResetOn(today), "none") /\ told' = {}
    <3>1. Enters(c)
      BY DEF Acquire
    <3> QED BY <1>3, <3>1 DEF Enters, Doing
  <2>2. SoundState(ResetOn(today))
    BY ResetIsSound
  <2> QED BY <1>1, <2>1, <2>2, Mutated
<1>4. CASE ~Doing(c, "reset") /\ Doing(c, "stop")
  <2>1. Mutates(c, StoppedIn(state, TRUE, today), "none") /\ told' = told
    BY <1>4 DEF Acquire, Enters, Doing
  <2>2. Keeping(StoppedIn(state, TRUE, today), state)
    BY <1>2, StopKeeps
  <2> QED BY <1>1, <2>1, <2>2, Mutated DEF Keeping
<1>5. CASE ~Doing(c, "reset") /\ ~Doing(c, "stop") /\ Doing(c, "release")
  <2>1. Mutates(c, StoppedIn(state, FALSE, today), "none") /\ told' = told
    <3>1. Enters(c)
      BY DEF Acquire
    <3> QED BY <1>5, <3>1 DEF Enters, Doing
  <2>2. Keeping(StoppedIn(state, FALSE, today), state)
    BY <1>2, StopKeeps
  <2> QED BY <1>1, <2>1, <2>2, Mutated DEF Keeping
<1>6. CASE ~Doing(c, "reset") /\ ~Doing(c, "stop") /\ ~Doing(c, "release")
  <2>1. /\ caller' = [caller EXCEPT ![c].step = "pricing", ![c].day = today]
        /\ state' = state /\ told' = told
    BY <1>6 DEF Acquire, Enters
  <2>2. /\ Shaped' /\ \A b \in Callers \ {c} : caller'[b] = caller[b]
        /\ caller'[c].step = "pricing" /\ caller'[c].call = caller[c].call
    BY <2>1 DEF IInv, Shaped, Fields
  <2>3. \A b \in Callers : Placed(b)'
    BY <1>1, <2>2, ServiceAssumption DEF IInv, Placed, process
  <2>4. RulingOn(c)'
    BY <2>2 DEF RulingOn
  <2>5. Same(state', state)
    BY <2>1 DEF Same
  <2> QED BY <1>1, <1>2, <2>1, <2>2, <2>3, <2>4, <2>5, Undisturbed
<1> QED BY <1>3, <1>4, <1>5, <1>6

LEMMA PriceSubmitStep == ASSUME IInv, NEW c \in Callers, PriceSubmit(c) PROVE IInv'
<1> DEFINE id == caller[c].call.id
           day == caller[c].day
           known == state.index[id]
<1>1. /\ up /\ caller[c].step = "pricing" /\ Doing(c, "submit") /\ UNCHANGED <<store, holder, process, told>>
      /\ \/ known # "none" /\ Mutates(c, On(state, day), known)
         \/ known = "none" /\ Mutates(c, Refused(state, id, day), "rejected")
         \/ /\ known = "none"
            /\ state' = On(state, day)
            /\ caller' = [caller EXCEPT ![c].step = "ruling", ![c].view = state'.account]
  BY DEF PriceSubmit, At
<1>2. holder = c /\ holder' = c /\ id \in Ids /\ SoundState(state)
  BY <1>1, SubmitsAnId DEF IInv, Placed, Held, Sound
<1>3. saved' = saved /\ bound' = bound /\ healthy' = healthy /\ UNCHANGED process /\ told' = told
  BY <1>1 DEF store
<1>4. Keeping(On(state, day), state) /\ Same(On(state, day), state)
  BY <1>2, OnIsSame
<1>5. CASE known # "none" /\ Mutates(c, On(state, day), known)
  <2>1. known = "filled" => Keeps(On(state, day), id)
    BY <1>4 DEF Same, Keeps
  <2> QED BY <1>1, <1>2, <1>3, <1>4, <1>5, <2>1, Mutated DEF Keeping
<1>6. CASE known = "none" /\ Mutates(c, Refused(state, id, day), "rejected")
  <2>1. Keeping(Refused(state, id, day), state)
    BY <1>2, <1>6, RefusalKeeps
  <2> QED BY <1>1, <1>2, <1>3, <1>6, <2>1, Mutated DEF Keeping
<1>7. CASE /\ known = "none"
           /\ state' = On(state, day)
           /\ caller' = [caller EXCEPT ![c].step = "ruling", ![c].view = state'.account]
  <2>1. /\ Shaped' /\ \A b \in Callers \ {c} : caller'[b] = caller[b]
        /\ caller'[c].step = "ruling" /\ caller'[c].call = caller[c].call
        /\ caller'[c].view = state'.account
    BY <1>7 DEF IInv, Shaped, Fields
  <2>2. \A b \in Callers : Placed(b)'
    BY <1>1, <1>2, <2>1 DEF IInv, Placed, Held, process
  <2>3. RulingOn(c)'
    BY <1>1, <1>4, <1>7, <2>1 DEF RulingOn, Doing, Same
  <2>4. SoundState(state') /\ Same(state', state)
    BY <1>4, <1>7 DEF Keeping
  <2> QED BY <1>1, <1>3, <2>1, <2>2, <2>3, <2>4, Undisturbed
<1> QED BY <1>1, <1>5, <1>6, <1>7

LEMMA RuleStep == ASSUME IInv, NEW c \in Callers, Rule(c) PROVE IInv'
<1> DEFINE k == caller[c].call
           day == caller[c].day
<1>1. /\ up /\ caller[c].step = "ruling" /\ UNCHANGED <<store, holder, process, told>>
      /\ \/ Mutates(c, Refused(state, k.id, day), "rejected")
         \/ \E mark \in Marks :
              Mutates(c, SubmittedTo(state, k.order, k.id, mark, day),
                      SubmittedTo(state, k.order, k.id, mark, day).index[k.id])
  BY DEF Rule, At
<1>2. /\ holder = c /\ holder' = c /\ k.id \in Ids /\ SoundState(state)
      /\ state.index[k.id] = "none"
  BY <1>1, SubmitsAnId DEF IInv, Placed, Held, Sound, RulingOn, Doing
<1>3. saved' = saved /\ bound' = bound /\ healthy' = healthy /\ UNCHANGED process /\ told' = told
  BY <1>1 DEF store
<1>4. CASE Mutates(c, Refused(state, k.id, day), "rejected")
  <2>1. Keeping(Refused(state, k.id, day), state)
    BY <1>2, RefusalKeeps
  <2> QED BY <1>1, <1>2, <1>3, <1>4, <2>1, Mutated DEF Keeping
<1>5. ASSUME NEW mark \in Marks,
             Mutates(c, SubmittedTo(state, k.order, k.id, mark, day),
                     SubmittedTo(state, k.order, k.id, mark, day).index[k.id])
      PROVE  IInv'
  <2> DEFINE st == SubmittedTo(state, k.order, k.id, mark, day)
  <2>1. Keeping(st, state)
    BY <1>2, SubmissionKeeps
  <2>2. st.index[k.id] = "filled" => Keeps(st, k.id)
    BY DEF Keeps
  <2>3. Mutates(c, st, st.index[k.id])
    BY <1>5
  <2> HIDE DEF st
  <2> QED BY <1>1, <1>2, <1>3, <2>1, <2>2, <2>3, Mutated DEF Keeping
<1> QED BY <1>1, <1>4, <1>5

LEMMA PriceTickStep == ASSUME IInv, NEW c \in Callers, PriceTick(c) PROVE IInv'
<1>1. PICK symbols, marks : Mutates(c, Ticked(state, symbols, marks, caller[c].day), "none")
  BY DEF PriceTick
<1>2. /\ up /\ caller[c].step = "pricing" /\ holder = c /\ holder' = c
      /\ saved' = saved /\ bound' = bound /\ healthy' = healthy /\ UNCHANGED process /\ told' = told
  BY DEF PriceTick, At, store, IInv, Placed, Held
<1>3. Keeping(Ticked(state, symbols, marks, caller[c].day), state)
  BY TickKeeps DEF IInv, Sound
<1> QED BY <1>1, <1>2, <1>3, Mutated DEF Keeping

LEMMA PriceCloseStep == ASSUME IInv, NEW c \in Callers, PriceClose(c) PROVE IInv'
<1>1. PICK mark : Mutates(c, ClosedIn(state, caller[c].call.order.symbol, mark, today), "none")
  BY DEF PriceClose
<1>2. /\ up /\ caller[c].step = "pricing" /\ holder = c /\ holder' = c
      /\ saved' = saved /\ bound' = bound /\ healthy' = healthy /\ UNCHANGED process /\ told' = told
  BY DEF PriceClose, At, store, IInv, Placed, Held
<1>3. Keeping(ClosedIn(state, caller[c].call.order.symbol, mark, today), state)
  BY CloseKeeps DEF IInv, Sound
<1> QED BY <1>1, <1>2, <1>3, Mutated DEF Keeping

(* The write ends, well or not: the row is the document, which holds the   *)
(* state, or it is what it was and the store no longer claims to be well.  *)
LEMMA PersistStep == ASSUME IInv, NEW c \in Callers, Persist(c) PROVE IInv'
<1> DEFINE doc == caller[c].document
           id == caller[c].call.id
           new == [id |-> id, row |-> IF Durable' THEN "LANDED" ELSE "FAILED"]
<1>1. /\ up /\ up' = up /\ build' = build /\ caller[c].step = "saving" /\ holder' = Nobody
      /\ state' = state /\ bound' = bound /\ caller' = [caller EXCEPT ![c] = Resting]
  BY DEF Persist, At, Answers, Released, store
<1>2. \E before :
        /\ told' = IF caller[c].result = "filled" THEN before \cup {new} ELSE before
        /\ \/ ~bound /\ saved' = saved /\ adrift' = adrift /\ before = told
           \/ /\ bound /\ saved' = doc /\ ~adrift'
              /\ before = IF adrift THEN {WrittenOver(t) : t \in told} ELSE told
           \/ bound /\ ~healthy' /\ saved' = saved /\ adrift' = adrift /\ before = told
  BY DEF Persist, Answers, store
<1>3. /\ holder = c /\ SoundState(state)
      /\ bound => SoundRow(doc) /\ Mirror(doc, state) /\ doc.schema = build
      /\ caller[c].result = "filled" => id \in Ids /\ Keeps(state, id)
  BY <1>1 DEF IInv, Placed, Held, Sound, Saving
<1>4. /\ Shaped' /\ \A b \in Callers \ {c} : caller'[b] = caller[b]
      /\ caller'[c].step = "idle"
  BY <1>1 DEF IInv, Shaped, Resting, Fields
<1>5. \A b \in Callers \ {c} : caller[b].step \notin Held
  BY <1>3 DEF IInv, Placed
<1>6. \A b \in Callers : Placed(b)' /\ RulingOn(b)' /\ Saving(b)'
  BY <1>1, <1>4, <1>5 DEF IInv, Placed, RulingOn, Saving, Held
<1>7. Sound'
  BY <1>1, <1>2, <1>3 DEF IInv, Sound
<1>8. NoSnapshotIsNoRow => (ToldInRow /\ ToldInMemory /\ RowIsCurrent)'
  <2> SUFFICES ASSUME NoSnapshotIsNoRow PROVE (ToldInRow /\ ToldInMemory /\ RowIsCurrent)'
    OBVIOUS
  <2>1. bound => doc # NoSnapshot
    BY <1>3 DEF NoSnapshotIsNoRow, SoundRow
  <2>2. ToldInRow /\ ToldInMemory
    BY DEF IInv
  <2>3. new.row = "LANDED" => bound /\ healthy'
    BY <1>1 DEF Durable
  <2>4. \A t : WrittenOver(t).row # "LANDED"
    BY DEF WrittenOver
  <2> HIDE DEF new
  <2>5. ASSUME NEW t \in told', t.row = "LANDED"
        PROVE  \/ t \in told /\ ((saved' = saved /\ adrift' = adrift) \/ (bound /\ saved' = doc /\ ~adrift))
               \/ t = new /\ caller[c].result = "filled" /\ bound /\ saved' = doc
    BY <1>2, <2>3, <2>4, <2>5
  <2>6. ASSUME NEW t \in told', t.row = "LANDED"
        PROVE  t.id \in Ids /\ saved' # NoSnapshot /\ RowKeeps(saved', t.id)
    <3>1. CASE t \in told /\ saved' = saved
      BY <2>2, <2>6, <3>1 DEF ToldInRow
    <3>2. CASE bound /\ saved' = doc /\ t.id \in Ids /\ Keeps(state, t.id)
      BY <1>3, <2>1, <3>2, MirrorKeeps
    <3>3. CASE t \in told /\ bound /\ saved' = doc /\ ~adrift
      BY <1>1, <2>2, <2>6, <3>2, <3>3 DEF ToldInRow, ToldInMemory
    <3>4. CASE t = new /\ caller[c].result = "filled" /\ bound /\ saved' = doc
      BY <1>3, <3>2, <3>4 DEF new
    <3> QED BY <2>5, <2>6, <3>1, <3>3, <3>4
  <2>7. ToldInRow'
    BY <2>6 DEF ToldInRow
  <2>8. ToldInMemory'
    <3> SUFFICES ASSUME bound', ~adrift', NEW t \in told', t.row = "LANDED"
                 PROVE  Keeps(state, t.id)
      BY <1>1 DEF ToldInMemory
    <3>1. CASE t \in told /\ ~adrift
      BY <1>1, <2>2, <3>1 DEF ToldInMemory
    <3>2. CASE t = new /\ caller[c].result = "filled"
      BY <1>3, <3>2 DEF new
    <3> QED BY <2>5, <3>1, <3>2
  <2>9. RowIsCurrent'
    <3> SUFFICES ASSUME Durable' PROVE Same(Loaded(saved', build'), state')
      BY DEF RowIsCurrent
    <3>1. bound /\ saved' = doc
      BY <1>1, <1>2 DEF Durable
    <3>2. Loaded(saved', build') = FromSnapshot(doc)
      BY <1>1, <1>3, <2>1, <3>1 DEF Loaded, Readable
    <3> QED BY <1>1, <1>3, <3>1, <3>2, MirrorLoads
  <2> QED BY <2>7, <2>8, <2>9
<1> QED BY <1>4, <1>6, <1>7, <1>8 DEF IInv

LEMMA CrashStep == ASSUME IInv, Crash PROVE IInv'
<1>1. /\ ~up' /\ state' = FreshState /\ saved' = saved /\ told' = told
      /\ caller' = [c \in Callers |-> Resting]
  BY DEF Crash, store
<1>2. \A c \in Callers : caller'[c].step = "idle" /\ DOMAIN caller'[c] = Fields
  BY <1>1 DEF Resting, Fields
<1>3. Shaped'
  BY <1>1, <1>2 DEF Shaped
<1>4. \A c \in Callers : Placed(c)' /\ RulingOn(c)' /\ Saving(c)'
  BY <1>2 DEF Placed, RulingOn, Saving, Held
<1>5. Sound'
  BY <1>1, ResetIsSound DEF IInv, Sound
<1>6. NoSnapshotIsNoRow => (ToldInRow /\ ToldInMemory /\ RowIsCurrent)'
  BY <1>1 DEF IInv, ToldInRow, ToldInMemory, RowIsCurrent
<1> QED BY <1>3, <1>4, <1>5, <1>6 DEF IInv

LEMMA StartStep == ASSUME IInv, Start PROVE IInv'
<1>1. ~up /\ up' /\ saved' = saved /\ caller' = caller /\ holder' = holder /\ told' = told
  BY DEF Start
<1>2. \A c \in Callers : caller[c].step = "idle"
  BY <1>1 DEF IInv, Placed
<1>3. Shaped' /\ \A c \in Callers : Placed(c)' /\ RulingOn(c)' /\ Saving(c)'
  BY <1>1, <1>2 DEF IInv, Shaped, Placed, RulingOn, Saving, Held
<1>4. \/ ~bound' /\ state' = FreshState
      \/ /\ state' = Loaded(saved, build')
         /\ ~adrift' => saved = NoSnapshot \/ Readable(saved, build')
      \/ ~healthy' /\ state' = FreshState /\ (~adrift' => saved = NoSnapshot)
  BY DEF Start
<1>5. SoundState(FreshState)
  BY ResetIsSound
<1>6. saved # NoSnapshot =>
        /\ SoundState(FromSnapshot(saved))
        /\ \A i \in Ids : RowKeeps(saved, i) => Keeps(FromSnapshot(saved), i)
  BY ReadBack DEF IInv, Sound
<1>7. SoundState(state')
  BY <1>4, <1>5, <1>6 DEF Loaded, Readable
<1>8. Sound'
  BY <1>1, <1>7 DEF IInv, Sound
<1>9. NoSnapshotIsNoRow => (ToldInRow /\ ToldInMemory /\ RowIsCurrent)'
  <2> SUFFICES ASSUME NoSnapshotIsNoRow PROVE (ToldInRow /\ ToldInMemory /\ RowIsCurrent)'
    OBVIOUS
  <2>1. ToldInRow /\ ToldInRow'
    BY <1>1 DEF IInv, ToldInRow
  <2>2. ToldInMemory'
    <3> SUFFICES ASSUME bound', ~adrift', NEW t \in told, t.row = "LANDED"
                 PROVE  Keeps(state', t.id)
      BY <1>1 DEF ToldInMemory
    <3>1. t.id \in Ids /\ saved # NoSnapshot /\ RowKeeps(saved, t.id)
      BY <2>1 DEF ToldInRow
    <3>2. state' = FromSnapshot(saved)
      BY <1>4, <3>1 DEF Loaded
    <3> QED BY <1>6, <3>1, <3>2
  <2>3. RowIsCurrent'
    BY <1>1, <1>4 DEF RowIsCurrent, Durable, Same
  <2> QED BY <2>1, <2>2, <2>3
<1> QED BY <1>3, <1>8, <1>9 DEF IInv

LEMMA MidnightStep == ASSUME IInv, Midnight PROVE IInv'
<1>1. /\ state' = state /\ caller' = caller /\ holder' = holder /\ told' = told /\ UNCHANGED process
      /\ saved' = saved /\ bound' = bound /\ healthy' = healthy
  BY DEF Midnight, store, process
<1>2. Shaped' /\ \A c \in Callers : Placed(c)'
  BY <1>1 DEF IInv, Shaped, Placed, process
<1>3. SoundState(state') /\ Same(state', state)
  BY <1>1 DEF IInv, Sound, Same
<1> QED BY <1>1, <1>2, <1>3, Undisturbed

LEMMA StutterStep == ASSUME IInv, UNCHANGED vars PROVE IInv'
<1>1. /\ state' = state /\ caller' = caller /\ holder' = holder /\ told' = told /\ UNCHANGED process
      /\ saved' = saved /\ bound' = bound /\ healthy' = healthy
  BY DEF vars, process
<1>2. Shaped' /\ \A c \in Callers : Placed(c)'
  BY <1>1 DEF IInv, Shaped, Placed, process
<1>3. SoundState(state') /\ Same(state', state)
  BY <1>1 DEF IInv, Sound, Same
<1> QED BY <1>1, <1>2, <1>3, Undisturbed

(* The log, its index, the callers and the row fit each other, always.     *)
THEOREM InvariantHolds == Spec => []IInv
<1>1. Init => IInv
  BY Starts
<1>2. IInv /\ [Next]_vars => IInv'
  <2> SUFFICES ASSUME IInv, [Next]_vars PROVE IInv'
    OBVIOUS
  <2>1. ASSUME NEW c \in Callers, Call(c) \/ Acquire(c) \/ CallerStep(c) PROVE IInv'
    BY <2>1, CallStep, AcquireStep, ReadStep, RaiseStep, PriceSubmitStep, RuleStep,
       PriceTickStep, PriceCloseStep, PersistStep DEF CallerStep
  <2> QED BY <2>1, MidnightStep, CrashStep, StartStep, StutterStep DEF Next
<1> QED BY <1>1, <1>2, PTL DEF Spec

-----------------------------------------------------------------------------
(* The account an order is ruled on is the account it is filled in: the    *)
(* write lock of submit is held from the view to the fill, and a read that *)
(* slips in between exchanges the day's session and nothing else.          *)
THEOREM NothingMovesUnderARulingHolds == Spec => []NothingMovesUnderARuling
<1>1. IInv => NothingMovesUnderARuling
  BY DEF IInv, RulingOn, NothingMovesUnderARuling
<1> QED BY <1>1, InvariantHolds, PTL

(* A retry never opens a second position for an id the log still holds,    *)
(* for any ceiling of the log and any run of calls, crashes and restores.  *)
THEOREM OneEntryPerIdHolds == Spec => []OneEntryPerId
<1>1. IInv => OneEntryPerId
  <2> SUFFICES ASSUME IInv PROVE OneEntryPerId
    OBVIOUS
  <2>1. PICK a, l, x, e, g : state = StateOf(a, l, x, e, g) /\ Good(l, x, e, g)
    BY DEF IInv, Sound, SoundState
  <2>2. state.entered = e /\ state.gone = g
    BY <2>1 DEF StateOf
  <2> QED BY <2>1, <2>2 DEF Good, OneEntryPerId
<1> QED BY <1>1, InvariantHolds, PTL

(* While no write is under way, an account that claims to be durable is    *)
(* the account a restart of the build would bring back, whatever the       *)
(* process found at its start: when the row's absence is not itself a row. *)
THEOREM DurableMeansSavedHolds ==
  NoSnapshotIsNoRow => (Spec => []DurableMeansSaved)
<1>1. NoSnapshotIsNoRow /\ IInv => DurableMeansSaved
  <2> SUFFICES ASSUME NoSnapshotIsNoRow, IInv, up, holder = Nobody, Durable
               PROVE  Same(Loaded(saved, build), state)
    BY DEF DurableMeansSaved, Same
  <2>1. \A c \in Callers : caller[c].step # "saving"
    BY ServiceAssumption DEF IInv, Placed, Held
  <2> QED BY <2>1 DEF IInv, RowIsCurrent
<1> SUFFICES ASSUME NoSnapshotIsNoRow PROVE Spec => []DurableMeansSaved
  OBVIOUS
<1>2. IInv => DurableMeansSaved
  BY <1>1
<1> QED BY <1>2, InvariantHolds, PTL

(* A fill that was reported and whose write landed is known whenever the   *)
(* account claims to be durable, so a retry of it is answered: unless a    *)
(* reset, or the write of a process that began without the row, ended it.  *)
THEOREM ReportedFillsAreKeptHolds ==
  NoSnapshotIsNoRow => (Spec => []ReportedFillsAreKept)
<1>1. NoSnapshotIsNoRow /\ IInv => ReportedFillsAreKept
  BY DEF IInv, ToldInMemory, Durable, Keeps, ReportedFillsAreKept
<1> SUFFICES ASSUME NoSnapshotIsNoRow PROVE Spec => []ReportedFillsAreKept
  OBVIOUS
<1>2. IInv => ReportedFillsAreKept
  BY <1>1
<1> QED BY <1>2, InvariantHolds, PTL

=============================================================================
