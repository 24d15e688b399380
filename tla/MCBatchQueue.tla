----------------------------- MODULE MCBatchQueue -----------------------------
(* Small instances of BatchQueue for TLC: two slots of different size.     *)
EXTENDS BatchQueue, TLC

CONSTANTS w1, w2

Sizes == w1 :> 3 @@ w2 :> 2
=============================================================================
