----------------------------- MODULE MCDataModels -----------------------------
(* DataModels for TLC: two names, two attributes, three overlapping calls.   *)
EXTENDS DataModels, TLC

CallSymmetry == Permutations(Calls) \cup Permutations(Names)
=============================================================================
