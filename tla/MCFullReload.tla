----------------------------- MODULE MCFullReload -----------------------------
(* FullReload for TLC: the loop and one request to run a cycle now.  The     *)
(* view starts with no row or with one, and may change to any contents: a    *)
(* copy of its second version may then be partial without being empty.       *)
(* Symmetry reduction would be unsound for liveness; this replaces it.       *)
EXTENDS FullReload

First == CHOOSE row \in Rows : TRUE

MCInit == Init /\ history[1] \in {{}, {First}}

MCSpec == MCInit /\ [][Next]_vars /\ Fairness
=============================================================================
