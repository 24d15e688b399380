------------------------------ MODULE MCRunBatch ------------------------------
(* A small instance of RunBatch for TLC: two documents of two priorities.  *)
EXTENDS RunBatch, TLC

CONSTANTS j1, j2

TwoPages == j1 :> 2 @@ j2 :> 1
TwoPriorities == j1 :> 1 @@ j2 :> 0
TwoInOrder == <<j1, j2>>
=============================================================================
