--------------------------- MODULE MCPaperService ---------------------------
(* Instances of PaperService for TLC. *)
EXTENDS PaperService, TLC

Quoted(price) == [usable |-> TRUE, last |-> price, bid |-> price - 1, ask |-> price + 1]
Unusable == [usable |-> FALSE, last |-> 100, bid |-> 0, ask |-> 0]

\* 88 is past the stop of an entry at 100, and the loss is the day's budget.
AllMarks == {Quoted(100), Quoted(88), Unusable}

Long(s) == [symbol |-> s, side |-> "LONG", margin |-> 60, stop |-> 10, target |-> 0, trail |-> 0]

MCOrder == Long(CHOOSE s \in Symbols : TRUE)
Submits == {[kind |-> "submit", id |-> i, order |-> MCOrder] : i \in Ids}
Other(kind) == [kind |-> kind, id |-> NoId, order |-> MCOrder]

AllCalls ==
  Submits \cup {Other(k) : k \in {"tick", "close", "reset", "stop", "release", "read"}}

=============================================================================
