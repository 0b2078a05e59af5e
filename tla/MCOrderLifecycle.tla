-------------------------- MODULE MCOrderLifecycle --------------------------
(* OrderLifecycle on instances TLC can exhaust.  Executions of one order   *)
(* are interchangeable: no guard tells two fill ids apart.                 *)
EXTENDS OrderLifecycle, TLC

FillSymmetry == Permutations(FillIds)
=============================================================================
