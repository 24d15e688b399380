----------------------------- MODULE MCModelPool -----------------------------
(* A small instance of ModelPool for TLC: its model values are in the      *)
(* configuration.                                                          *)
EXTENDS ModelPool, TLC
=============================================================================
