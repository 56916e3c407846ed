---------------------------- MODULE MCMigrationRuns ----------------------------
(***************************************************************************)
(* MigrationRuns for TLC.  The source has one part: no action relates two  *)
(* parts, so that what happens to any one of several happens to this one,  *)
(* which a run asks for or not.                                            *)
(***************************************************************************)
EXTENDS MigrationRuns

CONSTANT rows

ThePart == {rows}
=============================================================================
