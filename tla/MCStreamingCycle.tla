--------------------------- MODULE MCStreamingCycle ---------------------------
(* StreamingCycle for TLC: the last of the days is the first of 2025.      *)
EXTENDS StreamingCycle, TLC

KeySymmetry == Permutations(Keys)

NewYear == [d \in 1..MaxDay |-> IF d = MaxDay THEN 125001 ELSE 124367 - MaxDay + d]
=============================================================================
