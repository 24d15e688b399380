-------------------------- MODULE MCServerScheduler --------------------------
(* Small instances of ServerScheduler for TLC.                             *)
EXTENDS ServerScheduler, TLC

\* Jobs that differ in priority: the model values of the configurations.
CONSTANTS j1, j2
SamePriority == [j \in Id |-> 0]
SecondFirst == [j \in Id |-> IF j = j2 THEN 1 ELSE 0]

\* Threads of one kind, and jobs of one priority, are interchangeable.
ThreadSymmetry == Permutations(Readers) \cup Permutations(PageWorkers)
JobSymmetry == Permutations(Id) \cup ThreadSymmetry
=============================================================================
