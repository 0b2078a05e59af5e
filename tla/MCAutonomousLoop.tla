-------------------------- MODULE MCAutonomousLoop --------------------------
(* AutonomousLoop on instances TLC can exhaust. *)
EXTENDS AutonomousLoop, TLC

MCWatchlist == SetToSeq(Symbols)

\* From one bar to the next a side may stay, reverse, or give way to none.
MCReadings ==
  LET first == CHOOSE s \in Symbols : TRUE
      Reading(a, b) == [s \in Symbols |-> IF s = first THEN a ELSE b]
  IN {Reading("LONG", "LONG"), Reading("SHORT", "NEUTRAL")}
=============================================================================
