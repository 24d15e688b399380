-------------------------- MODULE MCRecognitionPool --------------------------
(* A small instance of RecognitionPool for TLC.                            *)
EXTENDS RecognitionPool, TLC

CONSTANTS c1, c2, c3, c4, c5
\* Both limits bind: of c1, c2 and c3 two fit at once, c4 fits only alone, and
\* c5 never.
Sizes == [c \in Crop |-> CASE c = c4 -> 3 [] c = c5 -> 4 [] OTHER -> 1]

WorkerSymmetry == Permutations(Worker)
CropSymmetry == Permutations({c1, c2, c3}) \cup WorkerSymmetry
=============================================================================
