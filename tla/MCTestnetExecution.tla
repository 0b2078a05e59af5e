------------------------- MODULE MCTestnetExecution -------------------------
(* TestnetExecution on instances TLC can exhaust. *)
EXTENDS TestnetExecution, TLC

(* A behaviour follows one order through a death of the process and a       *)
(* cancellation, or two orders through a suspected reset, at one leverage   *)
(* and without partial fills.                                              *)
VARIABLE scene

Scenes == {"ONE ORDER", "TWO ORDERS"}
(* The intents a row or a request names. *)
Named == {o \in Intents : order[o] # NoOrder \/ \E q \in Requests : request[q].order = o}

MCInit ==
  /\ Init /\ scene \in Scenes
  /\ scene = "TWO ORDERS" => leverage = CHOOSE l \in Leverages : TRUE

MCNext ==
  /\ Next /\ UNCHANGED scene
  /\ scene = "ONE ORDER" => Cardinality(Named') <= 1 /\ resets' = 0
  /\ scene = "TWO ORDERS" =>
       /\ crashes' = 0 /\ cancel' = cancel
       /\ \A o \in Intents : venue'[o].filled \in {0, Quantity}
       /\ leverage' = leverage /\ \A q \in Requests : request'[q].leverage \in {0, leverage}

MCSpec == MCInit /\ [][MCNext]_<<scene, vars>>

Interchangeable == Permutations(Intents) \cup Permutations(Requests)
=============================================================================
