----------------------------- MODULE MCTimerWorker -----------------------------
(***************************************************************************)
(* Instances of TimerWorker: four transfers that expire one after the      *)
(* other, so that the array has three levels, and timeouts that may be     *)
(* shorter than the wait for the first of them.                            *)
(***************************************************************************)
EXTENDS TimerWorker, TLC

CONSTANTS a, b, c, d

MCDate == [x \in Items |-> (a :> 2 @@ b :> 3 @@ c :> 4 @@ d :> 6)[x]]
=============================================================================
