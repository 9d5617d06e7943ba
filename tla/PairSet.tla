------------------------------ MODULE PairSet ------------------------------
(* What the master needs of its connection matrix: a set of pairs of nodes  *)
(* to which pairs are added and which a new configuration empties.  The     *)
(* process may also end.                                                    *)
CONSTANT Ids
VARIABLES pairs, over

Init == pairs = {} /\ over = FALSE

Add   == ~over /\ \E p \in Ids \X Ids : pairs' = pairs \cup {p} /\ UNCHANGED over
Empty == ~over /\ pairs' = {} /\ UNCHANGED over
End   == ~over /\ over' = TRUE /\ UNCHANGED pairs

Next == Add \/ Empty \/ End
Spec == Init /\ [][Next]_<<pairs, over>>
=============================================================================
