--------------------------- MODULE MCStagingWriters ---------------------------
(* StagingWriters for TLC: two rows, two runs, one orphan at a time.       *)
EXTENDS StagingWriters
=============================================================================
