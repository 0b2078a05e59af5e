--------------------------- MODULE MCPaperEngine ---------------------------
(* Instances of PaperEngine for TLC. *)
EXTENDS PaperEngine, TLC

\* A usable price with a book one tick wide around it, one without a book, and
\* a price that may not be acted on.
Quoted(price) == [usable |-> TRUE, last |-> price, bid |-> price - 1, ask |-> price + 1]
Bare(price) == [usable |-> TRUE, last |-> price, bid |-> 0, ask |-> 0]
Unusable == [usable |-> FALSE, last |-> 100, bid |-> 0, ask |-> 0]

Order(s, side, margin, stop, target, trail) ==
  [symbol |-> s, side |-> side, margin |-> margin, stop |-> stop, target |-> target,
   trail |-> trail]

\* With leverage 2 these reach a stop, pass over a stop and a liquidation at once,
\* ratchet a trail past an entry at 100, reach the target of one at 92 and fall back;
\* at 92 and at 120 the day's budget or target is reached.
MCMarks == {Quoted(x) : x \in {45, 92, 100}} \cup {Bare(120), Unusable}

\* Every kind of level set in one symbol; two sizes in the others, which fill the
\* envelope beside it in one way and overfill it in another.
MCOrders ==
  LET first == CHOOSE s \in Symbols : TRUE
      levels == {<<8, 20, 10>>, <<0, 20, 0>>}
  IN {Order(first, side, 110, l[1], l[2], l[3]) : side \in Sides, l \in levels}
     \cup {Order(s, "LONG", 110, 10, 0, 0) : s \in Symbols \ {first}}
     \cup {Order(s, "SHORT", 60, 10, 0, 0) : s \in Symbols \ {first}}

=============================================================================
