---------------------------- MODULE SnapshotTable ----------------------------
(***************************************************************************)
(* What a full reload promises the readers of a staging table: at every    *)
(* moment they see one complete copy of the Oracle view, copies are        *)
(* published whole and in the order they were taken, and a copy with no    *)
(* rows never replaces one that has rows.                                  *)
(***************************************************************************)
EXTENDS Naturals, Sequences

CONSTANT Rows      \* the rows the Oracle view may contain

VARIABLES
  history,         \* the contents the view has had; the last one is current
  live             \* the staging table that readers query

snapshotVars == <<history, live>>

NoTable == [present |-> FALSE, version |-> 0, rows |-> {}, dup |-> FALSE]

Copy(hist, v) == [present |-> TRUE, version |-> v, rows |-> hist[v], dup |-> FALSE]

Init ==
  /\ \E contents \in SUBSET Rows : history = <<contents>>
  /\ live \in {NoTable, Copy(history, 1)}

SourceChanges ==
  /\ \E contents \in SUBSET Rows : history' = Append(history, contents)
  /\ UNCHANGED live

Publish ==
  /\ \E v \in 1..Len(history) :
       /\ live.version <= v
       /\ live.rows # {} => history[v] # {}
       /\ live' = Copy(history, v)
  /\ UNCHANGED history

Next == SourceChanges \/ Publish

Spec == Init /\ [][Next]_snapshotVars
=============================================================================
