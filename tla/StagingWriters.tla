--------------------------- MODULE StagingWriters ---------------------------
(***************************************************************************)
(* The rows of one staging table under the writers that share it: full     *)
(* migrations, watermark repairs and PK repairs, one run at a time, and    *)
(* beside them the cycles of incremental streaming, which nothing keeps    *)
(* apart from the runs.  An ora2pg may outlive the run or cycle that       *)
(* started it, and then goes on to insert its rows: an orphan.             *)
(*                                                                         *)
(* Rows are numbered in the order in which they appear in the view; the    *)
(* number is both the key and the marker of a row.                         *)
(***************************************************************************)
EXTENDS Integers, FiniteSets

CONSTANTS
  MaxRow,          \* bound on the rows of the view
  MaxRuns,         \* bound on the runs started
  MaxOrphans       \* bound on the orphans at work at one time

ASSUME MaxRowAssumption == MaxRow \in Nat
ASSUME MaxRunsAssumption == MaxRuns \in Nat
ASSUME MaxOrphansAssumption == MaxOrphans \in Nat

Rows == 1..MaxRow
Kinds == {"full", "watermark", "pk"}
Nobody == 0
Cycle == MaxRuns + 1
Tags == 0..Cycle

NoCursor == -1

VARIABLES
  view,            \* how many rows the view has
  hasKey,          \* whether primary_key_columns is set
  exists,          \* whether the table exists
  copies,          \* how often each row is in it
  tag,             \* _migrate_run_id of each row
  default,         \* the DEFAULT of _migrate_run_id
  index,           \* whether the unique index on the key exists
  cursor,          \* last_watermark
  started,         \* how many runs were started
  run,             \* the run in flight
  cycle,           \* the streaming cycle in flight
  orphans,         \* the ora2pg processes that nobody waits for any more
  by,              \* ghost: who wrote each row
  whole,           \* ghost: nothing was left unfinished that the cursor cannot see
  met              \* ghost: which writers overlapped on this table

table == <<exists, copies, tag, by>>
vars ==
  <<view, hasKey, table, default, index, cursor, started, run, cycle, orphans, whole, met>>

-----------------------------------------------------------------------------
NoRun == [stage |-> "none"]
Run(kind, from, upto) ==
  [stage |-> "begun", kind |-> kind, from |-> from, upto |-> upto, left |-> {}, mends |-> TRUE]

NoCycle == [stage |-> "none"]

Staged == {k \in Rows : copies[k] > 0}
MaxOf(set) == CHOOSE m \in set : \A k \in set : k <= m
UniqueKeys == \A k \in Rows : copies[k] <= 1

\* A second copy stands for any number of them.
OneMore(k) == IF copies[k] = 0 THEN 1 ELSE 2

\* A row takes the DEFAULT of the moment for its tag.
Insert(k, who) ==
  /\ copies' = [copies EXCEPT ![k] = OneMore(k)]
  /\ tag' = [tag EXCEPT ![k] = default]
  /\ by' = [by EXCEPT ![k] = who]
  /\ UNCHANGED exists

Empty ==
  /\ copies' = [k \in Rows |-> 0]
  /\ tag' = [k \in Rows |-> Nobody]
  /\ by' = [k \in Rows |-> Nobody]

\* A full migration that anyone overlaps, a watermark repair beside an ora2pg
\* that still copies without regard to conflicts, and any other two writers.
Overlaps == {"full", "copy", "other"}

Overlap(kind) ==
  CASE cycle = NoCycle /\ orphans = {} -> {}
    [] kind = "full" -> {"full"}
    [] kind = "watermark" /\ (\E o \in orphans : ~o.skips) -> {"copy"}
    [] OTHER -> {"other"}

\* The ora2pg of the run or of the cycle, if it is at work.
OfRun ==
  IF run.stage = "copying"
    THEN {[by |-> started, skips |-> run.kind = "pk", left |-> run.left]} ELSE {}
OfCycle ==
  IF cycle.stage = "pulling"
    THEN {[by |-> Cycle, skips |-> TRUE, left |-> cycle.left]} ELSE {}

Orphaned(processes) ==
  /\ orphans' = orphans \cup processes
  /\ Cardinality(orphans') <= MaxOrphans

Active(kinds, stage) == run.stage = stage /\ run.kind \in kinds

Go(stage) == run' = [run EXCEPT !.stage = stage]
GoCycle(stage) == cycle' = [cycle EXCEPT !.stage = stage]

Outside == UNCHANGED <<view, hasKey>>

-----------------------------------------------------------------------------
\* A table that was never loaded, or that was loaded before.
Init ==
  /\ view \in 0..MaxRow
  /\ hasKey \in BOOLEAN
  /\ exists \in BOOLEAN
  /\ \E n \in 0..view : copies = [k \in Rows |-> IF exists /\ k <= n THEN 1 ELSE 0]
  /\ tag = [k \in Rows |-> Nobody]
  /\ by = tag
  /\ default = Nobody
  /\ index \in BOOLEAN
  /\ index => exists
  /\ cursor = NoCursor
  /\ started = 0
  /\ run = NoRun
  /\ cycle = NoCycle
  /\ orphans = {}
  /\ whole = TRUE
  /\ met = {}

\* start_migration, repair_table: a full migration may be capped (test_rows), a
\* watermark repair has a cutoff, a PK repair needs the key.
StartRun ==
  /\ run = NoRun
  /\ started < MaxRuns
  /\ started' = started + 1
  /\ \/ \E cap \in 1..MaxRow : run' = Run("full", 1, cap)
     \/ \E cutoff \in Rows : run' = Run("watermark", cutoff, MaxRow)
     \/ hasKey /\ run' = Run("pk", 1, MaxRow)
  /\ met' = met \cup Overlap(run'.kind)
  /\ Outside /\ UNCHANGED <<table, default, index, cursor, cycle, orphans, whole>>

\* _apply_ddl: DROP TABLE and CREATE TABLE; the index and the DEFAULT go too.
Recreate ==
  /\ Active({"full"}, "begun")
  /\ exists' = TRUE
  /\ Empty
  /\ default' = Nobody
  /\ index' = FALSE
  /\ whole' = FALSE
  /\ met' = Overlap("full")
  /\ Go("made")
  /\ Outside /\ UNCHANGED <<cursor, started, cycle, orphans>>

\* TagRunIfUntagged, ClearNothing, ClearRangeAbove and FailCycleForward are bugs
\* for the properties to notice; no action contains them.
TagRunIfUntagged ==
  /\ \/ Active({"full"}, "made")
     \/ Active({"watermark", "pk"}, "begun")
  /\ exists
  /\ default' = IF default = Nobody THEN started ELSE default
  /\ Go("tagged")
  /\ Outside /\ UNCHANGED <<table, index, cursor, started, cycle, orphans, whole, met>>

\* _ensure_audit_cols
TagRun ==
  /\ \/ Active({"full"}, "made")
     \/ Active({"watermark", "pk"}, "begun")
  /\ exists
  /\ default' = started
  /\ Go("tagged")
  /\ Outside /\ UNCHANGED <<table, index, cursor, started, cycle, orphans, whole, met>>

\* _ensure_unique_index, whose failure a full migration only reports.
IndexForRun ==
  /\ Active({"full", "pk"}, "tagged")
  /\ run.kind = "pk" => index \/ UniqueKeys
  /\ index' = (index \/ (hasKey /\ UniqueKeys))
  /\ Go("ready")
  /\ Outside /\ UNCHANGED <<table, default, cursor, started, cycle, orphans, whole, met>>

ClearNothing ==
  /\ Active({"watermark"}, "tagged")
  /\ run' = [run EXCEPT !.stage = "ready", !.mends = 1..(run.from - 1) \subseteq Staged]
  /\ whole' = FALSE
  /\ Outside /\ UNCHANGED <<table, default, index, cursor, started, cycle, orphans, met>>

ClearRangeAbove ==
  /\ Active({"watermark"}, "tagged")
  /\ copies' = [k \in Rows |-> IF k > run.from THEN 0 ELSE copies[k]]
  /\ run' = [run EXCEPT !.stage = "ready", !.mends = 1..(run.from - 1) \subseteq Staged]
  /\ whole' = FALSE
  /\ Outside /\ UNCHANGED <<exists, tag, by, default, index, cursor, started, cycle, orphans, met>>

\* _repair_worker deletes the range and commits.
ClearRange ==
  /\ Active({"watermark"}, "tagged")
  /\ copies' = [k \in Rows |-> IF k >= run.from THEN 0 ELSE copies[k]]
  /\ run' = [run EXCEPT !.stage = "ready", !.mends = 1..(run.from - 1) \subseteq Staged]
  /\ whole' = FALSE
  /\ Outside /\ UNCHANGED <<exists, tag, by, default, index, cursor, started, cycle, orphans, met>>

\* ora2pg reads the rows it asks for; TRUNCATE_TABLE only for a full migration.
StartCopy ==
  /\ run.stage = "ready"
  /\ run' = [run EXCEPT !.stage = "copying", !.upto = IF view < @ THEN view ELSE @,
                        !.left = {k \in Rows : run.from <= k /\ k <= view /\ k <= run.upto}]
  /\ IF run.kind = "full" THEN Empty ELSE UNCHANGED <<copies, tag, by>>
  /\ whole' = FALSE
  /\ Outside /\ UNCHANGED <<exists, default, index, cursor, started, cycle, orphans, met>>

\* Its jobs insert in no particular order; only an INSERT skips conflicts.
CopyRow ==
  /\ run.stage = "copying"
  /\ \E k \in run.left :
       /\ run' = [run EXCEPT !.left = @ \ {k}]
       /\ IF index /\ copies[k] > 0
          THEN run.kind = "pk" /\ UNCHANGED table
          ELSE Insert(k, started)
  /\ Outside /\ UNCHANGED <<default, index, cursor, started, cycle, orphans, whole, met>>

\* Whether a run that ends well has made up for what was left unfinished.
Made(r) == r.mends /\ (r.kind = "full" => r.upto = view)

\* ora2pg exits with 0 when it has sent every row that it was to copy.
Succeed ==
  /\ run.stage = "copying"
  /\ run.left = {}
  /\ run' = NoRun
  /\ whole' = (whole \/ Made(run))
  /\ Outside /\ UNCHANGED <<table, default, index, cursor, started, cycle, orphans, met>>

\* The stream breaks and the run fails, or the exit code is not known yet and
\* it counts as a success: either way its ora2pg goes on.
LoseRun ==
  /\ run.stage = "copying"
  /\ run' = NoRun
  /\ Orphaned(OfRun)
  /\ Outside /\ UNCHANGED <<table, default, index, cursor, started, cycle, whole, met>>

\* Any stage may fail with nothing left at work: Oracle or Docker, the DDL, the
\* index, a conflict.
FailRun ==
  /\ run # NoRun
  /\ run' = NoRun
  /\ Outside /\ UNCHANGED <<table, default, index, cursor, started, cycle, orphans, whole, met>>

-----------------------------------------------------------------------------
\* run_cycle: the cursor, or the greatest staged marker; streaming_pull_once.
StartCycle ==
  /\ cycle = NoCycle
  /\ exists
  /\ cycle' = [stage |-> "begun",
               from |-> CASE cursor # NoCursor -> cursor
                          [] cursor = NoCursor /\ Staged # {} -> MaxOf(Staged)
                          [] OTHER -> 0,
               left |-> {}]
  /\ met' = met \cup (CASE run = NoRun /\ orphans = {} -> {}
                         [] run # NoRun /\ run.kind = "full" -> {"full"}
                         [] OTHER -> {"other"})
  /\ Outside /\ UNCHANGED <<table, default, index, cursor, started, run, orphans, whole>>

TagCycle ==
  /\ cycle.stage = "begun"
  /\ exists
  /\ default' = Cycle
  /\ GoCycle("tagged")
  /\ Outside /\ UNCHANGED <<table, index, cursor, started, run, orphans, whole, met>>

IndexForCycle ==
  /\ cycle.stage = "tagged"
  /\ index \/ UniqueKeys
  /\ index' = TRUE
  /\ GoCycle("ready")
  /\ Outside /\ UNCHANGED <<table, default, cursor, started, run, orphans, whole, met>>

Query ==
  /\ cycle.stage = "ready"
  /\ cycle' = [cycle EXCEPT !.stage = "pulling",
                            !.left = {k \in Rows : cycle.from <= k /\ k <= view}]
  /\ Outside /\ UNCHANGED <<table, default, index, cursor, started, run, orphans, whole, met>>

\* INSERT ... ON CONFLICT DO NOTHING: without an index nothing conflicts.
PullRow ==
  /\ cycle.stage = "pulling"
  /\ \E k \in cycle.left :
       /\ cycle' = [cycle EXCEPT !.left = @ \ {k}]
       /\ IF index /\ copies[k] > 0 THEN UNCHANGED table ELSE Insert(k, Cycle)
  /\ Outside /\ UNCHANGED <<default, index, cursor, started, run, orphans, whole, met>>

Advance ==
  /\ cycle.stage = "pulling"
  /\ cycle.left = {}
  /\ cycle' = NoCycle
  /\ cursor' = IF Staged # {} THEN MaxOf(Staged) ELSE cycle.from
  /\ Outside /\ UNCHANGED <<table, default, index, started, run, orphans, whole, met>>

FailCycleForward ==
  /\ cycle # NoCycle
  /\ cycle' = NoCycle
  /\ cursor' = IF Staged # {} THEN MaxOf(Staged) ELSE cycle.from
  /\ Outside /\ UNCHANGED <<table, default, index, started, run, orphans, whole, met>>

\* _finish saves the cursor the cycle began with, if only just initialised.
FailCycle ==
  /\ cycle # NoCycle
  /\ cycle' = NoCycle
  /\ cursor' = cycle.from
  /\ Outside /\ UNCHANGED <<table, default, index, started, run, orphans, whole, met>>

\* The stream breaks: the cycle has failed, and its ora2pg goes on.
LoseCycle ==
  /\ cycle.stage = "pulling"
  /\ cycle' = NoCycle
  /\ cursor' = cycle.from
  /\ Orphaned(OfCycle)
  /\ Outside /\ UNCHANGED <<table, default, index, started, run, whole, met>>

\* The exit code is not known yet, and the cursor passes rows still to come.
AdvanceUnknown ==
  /\ cycle.stage = "pulling"
  /\ cycle' = NoCycle
  /\ cursor' = IF Staged # {} THEN MaxOf(Staged) ELSE cycle.from
  /\ Orphaned(OfCycle)
  /\ whole' = FALSE
  /\ run' = IF run.stage = "copying" THEN [run EXCEPT !.mends = FALSE] ELSE run
  /\ Outside /\ UNCHANGED <<table, default, index, started, met>>

-----------------------------------------------------------------------------
\* An orphan inserts under the DEFAULT of whoever came after it.
OrphanInserts ==
  /\ \E o \in orphans : \E k \in o.left :
       /\ orphans' = (orphans \ {o}) \cup {[o EXCEPT !.left = @ \ {k}]}
       /\ IF index /\ copies[k] > 0 THEN o.skips /\ UNCHANGED table ELSE Insert(k, o.by)
  /\ Outside /\ UNCHANGED <<default, index, cursor, started, run, cycle, whole, met>>

\* It is done, or it fails, as a COPY does at the first conflict.
OrphanEnds ==
  /\ \E o \in orphans : orphans' = orphans \ {o}
  /\ Outside /\ UNCHANGED <<table, default, index, cursor, started, run, cycle, whole, met>>

\* The backend dies: neither outcome nor cursor is saved, and either ora2pg may
\* go on.  A cycle that was the first has left no cursor to begin again from.
Crash ==
  /\ run # NoRun \/ cycle # NoCycle
  /\ run' = NoRun
  /\ cycle' = NoCycle
  /\ \E processes \in SUBSET (OfRun \cup OfCycle) : Orphaned(processes)
  /\ whole' = (whole /\ ~(cycle.stage = "pulling" /\ cursor = NoCursor))
  /\ Outside /\ UNCHANGED <<table, default, index, cursor, started, met>>

RowAppears ==
  /\ view < MaxRow
  /\ view' = view + 1
  /\ UNCHANGED <<hasKey, table, default, index, cursor, started, run, cycle, orphans, whole, met>>

Migrate == StartRun \/ Recreate \/ TagRun \/ IndexForRun \/ ClearRange
             \/ StartCopy \/ CopyRow \/ Succeed \/ LoseRun \/ FailRun
Stream == StartCycle \/ TagCycle \/ IndexForCycle \/ Query \/ PullRow \/ Advance
            \/ FailCycle \/ LoseCycle \/ AdvanceUnknown
Stray == OrphanInserts \/ OrphanEnds

Next == Migrate \/ Stream \/ Stray \/ Crash \/ RowAppears

Spec == Init /\ [][Next]_vars

-----------------------------------------------------------------------------
Stages == {"begun", "made", "tagged", "ready", "copying"}

TypeOK ==
  /\ view \in 0..MaxRow
  /\ hasKey \in BOOLEAN
  /\ exists \in BOOLEAN
  /\ copies \in [Rows -> 0..2]
  /\ tag \in [Rows -> Tags] /\ by \in [Rows -> Tags]
  /\ default \in Tags
  /\ index \in BOOLEAN
  /\ cursor \in -1..MaxRow
  /\ started \in 0..MaxRuns
  /\ run \in {NoRun} \cup [stage : Stages, kind : Kinds, from : Nat, upto : Nat,
                           left : SUBSET Rows, mends : BOOLEAN]
  /\ cycle \in {NoCycle} \cup [stage : {"begun", "tagged", "ready", "pulling"},
                               from : 0..MaxRow, left : SUBSET Rows]
  /\ orphans \subseteq [by : Tags, skips : BOOLEAN, left : SUBSET Rows]
  /\ whole \in BOOLEAN /\ met \subseteq Overlaps

(***************************************************************************)
(* No row is in the table twice, with or without an index and through any  *)
(* sequence of loads, repairs, cycles, failures and crashes, repairs that  *)
(* a cycle overlaps included: a repair deletes what it copies again, and   *)
(* everyone else skips what is there.  Two overlaps may lead to            *)
(* duplicates: a full migration with a cycle or an orphan, as it takes the *)
(* index from under their INSERTs, and a watermark repair with an orphan   *)
(* that copies the same rows.                                              *)
(***************************************************************************)
NoDuplicates == met \cap {"full", "copy"} # {} \/ UniqueKeys

(***************************************************************************)
(* A row carries the id of the run or cycle that wrote it, although the id *)
(* is only a DEFAULT that every writer sets for itself and an orphan goes  *)
(* on to use, unless two writers overlapped since the table was last       *)
(* created: a run and a cycle, or an orphan and whoever came after it.     *)
(***************************************************************************)
TagsAreTrue == met # {} \/ \A k \in Staged : tag[k] = by[k]

(***************************************************************************)
(* Every row below the streaming cursor is in the table, so that no row is *)
(* out of the reach of the cycles to come: full migrations and repairs     *)
(* move rows without a look at the cursor, and orphans insert rows in any  *)
(* order while cycles advance.  Excepted is a full migration that anyone   *)
(* overlaps, and the time until a later run has made up for a run that was *)
(* capped or cut short, a range beyond the end of the table, a cycle that  *)
(* took an unknown exit for success, or a crash in the first cycle, whose  *)
(* cursor nobody had saved.                                                *)
(***************************************************************************)
NothingBehindCursor == "full" \in met \/ ~whole \/ \A k \in Rows : k <= cursor => k \in Staged

(***************************************************************************)
(* A run whose ora2pg has exited with 0 has every row it was asked for in  *)
(* the table exactly once: the whole view, the capped part, the range from *)
(* the cutoff, or whatever was missing; whatever cycles and orphans        *)
(* overlap, with the exceptions of NoDuplicates.  Of a run that took an    *)
(* unknown exit for success nothing is said.                               *)
(***************************************************************************)
RunIsComplete ==
  [][Succeed => met \cap {"full", "copy"} # {}
                  \/ \A k \in run.from..run.upto : copies[k] = 1]_vars
=============================================================================
