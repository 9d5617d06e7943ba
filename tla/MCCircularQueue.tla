--------------------------- MODULE MCCircularQueue ---------------------------
(* Instance: two producers share mutexPush_, one consumer, a ring of two    *)
(* slots, and counts that wrap after four, so every run wraps them.         *)
EXTENDS CircularQueue, TLC

\* Threads of one side and values are interchangeable.
Symmetry == Permutations(Producers) \cup Permutations(Values)
=============================================================================
