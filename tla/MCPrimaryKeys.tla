----------------------------- MODULE MCPrimaryKeys -----------------------------
(* PrimaryKeys for TLC: two keys, two requests in flight at a time.         *)
EXTENDS PrimaryKeys, TLC

RequestSymmetry == Permutations(Requests)
=============================================================================
