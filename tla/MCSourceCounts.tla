--------------------------- MODULE MCSourceCounts ---------------------------
(* SourceCounts for TLC.                                                   *)
EXTENDS SourceCounts, TLC

CountSymmetry == Permutations(Counts)
=============================================================================
