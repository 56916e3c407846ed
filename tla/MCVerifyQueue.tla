--------------------------- MODULE MCVerifyQueue ---------------------------
(* VerifyQueue on small instances. *)
EXTENDS VerifyQueue
=============================================================================
