------------------------------ MODULE FullReload ------------------------------
(***************************************************************************)
(* full_reload_once: the streaming cycle of a table that has no watermark  *)
(* column (or no upsert key).  The whole view is copied into <target>_new  *)
(* and swapped into place.  A reloader is a thread that runs such a cycle: *)
(* the background loop, or a request to run one cycle now.  Nothing keeps  *)
(* two of them apart, and all of them use the same temporary table.        *)
(*                                                                         *)
(* Each action is one statement the thread sends to Postgres, or one stage *)
(* of the ora2pg process it starts in the other container.  A table is a   *)
(* record: whether it exists, which content of the view it is a complete   *)
(* copy of (0: not a complete copy), the rows in it, and whether some row  *)
(* is in it twice.                                                         *)
(***************************************************************************)
EXTENDS Naturals, Sequences, FiniteSets

CONSTANTS
  Rows,            \* the rows the Oracle view may contain
  Reloaders,       \* the threads that run reload cycles
  Loop,            \* the one of them that is the background poll loop
  MaxVersions,     \* bound on the contents the view goes through
  Disturbances     \* which of the rarer faults below may happen

PossibleDisturbances == {"count_error", "unknown_exit", "orphan"}

ASSUME LoopAssumption == Loop \in Reloaders
ASSUME MaxVersionsAssumption == MaxVersions \in Nat \ {0}
ASSUME DisturbancesAssumption == Disturbances \subseteq PossibleDisturbances

VARIABLES
  history,         \* the contents the view has had; the last one is current
  live,            \* <target>
  fresh,           \* <target>_new
  pc,              \* where each reloader is in full_reload_once
  before,          \* whether its rows_before was above zero
  exec,            \* the ora2pg COPY each reloader is waiting for
  orphan,          \* an ora2pg COPY that nobody waits for any more
  clean,           \* ghost: no overlap of cycles and no disturbance so far
  leftover         \* ghost: a crash or a failed DROP left <target>_new behind

tables == <<history, live, fresh>>
threads == <<pc, before, exec>>
ghosts == <<clean, leftover>>
vars == <<tables, threads, orphan, ghosts>>

Snapshots == INSTANCE SnapshotTable

-----------------------------------------------------------------------------
NoTable == Snapshots!NoTable
EmptyTable == [present |-> TRUE, version |-> 0, rows |-> {}, dup |-> FALSE]

Table == [present : BOOLEAN, version : Nat, rows : SUBSET Rows, dup : BOOLEAN]

NoExec == [on |-> FALSE, version |-> 0, sent |-> {}]
Exec == [on : BOOLEAN, version : Nat, sent : SUBSET Rows]

Stages == {"idle", "counted", "cleared", "created", "tagged", "copying",
           "copied", "checked"}

Busy == {r \in Reloaders : pc[r] # "idle"}

HasRows(table) == table.present /\ table.rows # {}

\* _count_target swallows every error, so a count that fails reads like zero.
CountAnswers(table) ==
  {HasRows(table)} \cup (IF "count_error" \in Disturbances THEN {FALSE} ELSE {})

\* The rows an ora2pg job has not written yet; JOBS and DATA_LIMIT make it
\* commit them in chunks.
Remaining(job) == history[job.version] \ job.sent

SentMore(job, new) ==
  [on |-> TRUE, version |-> job.version, sent |-> job.sent \cup new]

Holding(rows, twice) ==
  [present |-> TRUE, version |-> 0, rows |-> rows, dup |-> twice]

WithRows(table, new) ==
  Holding(table.rows \cup new,
          IF table.rows \cap new = {} THEN table.dup ELSE TRUE)

StampedBy(table, job) ==
  IF table = Holding(history[job.version], FALSE)
    THEN Snapshots!Copy(history, job.version)
    ELSE table

Finish(r) ==
  /\ pc' = [pc EXCEPT ![r] = "idle"]
  /\ exec' = [exec EXCEPT ![r] = NoExec]
  /\ UNCHANGED before

Move(r, stage) ==
  /\ pc' = [pc EXCEPT ![r] = stage]
  /\ UNCHANGED <<before, exec>>

Init ==
  /\ \E contents \in SUBSET Rows : history = <<contents>>
  /\ live \in {NoTable, Snapshots!Copy(history, 1)}
  /\ fresh = NoTable
  /\ pc = [r \in Reloaders |-> "idle"]
  /\ before = [r \in Reloaders |-> FALSE]
  /\ exec = [r \in Reloaders |-> NoExec]
  /\ orphan = NoExec
  /\ clean = TRUE
  /\ leftover = FALSE

-----------------------------------------------------------------------------
(* The stages of one cycle.  CopyDoneWhateverExit, FailWithoutDrop,        *)
(* RefuseEmptyAlways and AcceptAnyCopy are wrong on purpose: they stand    *)
(* for bugs that the properties must notice, and no action uses them.      *)

CountBefore(r) ==
  /\ pc[r] = "idle"
  /\ \E answer \in CountAnswers(live) :
       /\ before' = [before EXCEPT ![r] = answer]
       /\ clean' = (clean /\ Busy = {} /\ answer = HasRows(live))
  /\ pc' = [pc EXCEPT ![r] = "counted"]
  /\ UNCHANGED <<tables, exec, orphan, leftover>>

ClearTemp(r) ==
  /\ pc[r] = "counted"
  /\ fresh' = NoTable
  /\ leftover' = FALSE
  /\ Move(r, "cleared")
  /\ UNCHANGED <<history, live, orphan, clean>>

\* The ora2pg container cannot be reached: an early return that drops nothing.
Unreachable(r) ==
  /\ pc[r] = "cleared"
  /\ Finish(r)
  /\ UNCHANGED <<tables, orphan, ghosts>>

\* The schema export succeeded.  A blank DDL file is accepted without checking
\* that the table exists.
CreateTemp(r) ==
  /\ pc[r] = "cleared"
  /\ fresh' \in {EmptyTable, fresh}
  /\ Move(r, "created")
  /\ UNCHANGED <<history, live, orphan, ghosts>>

\* The audit columns, then the best-effort unique index.
TagTemp(r) ==
  /\ pc[r] = "created"
  /\ fresh.present
  /\ Move(r, "tagged")
  /\ UNCHANGED <<tables, orphan, ghosts>>

\* ora2pg empties its output table (TRUNCATE_TABLE 1) and queries the view.
StartCopy(r) ==
  /\ pc[r] = "tagged"
  /\ fresh.present
  /\ fresh' = EmptyTable
  /\ exec' = [exec EXCEPT ![r] =
                [on |-> TRUE, version |-> Len(history), sent |-> {}]]
  /\ pc' = [pc EXCEPT ![r] = "copying"]
  /\ UNCHANGED <<history, live, before, orphan, ghosts>>

CopyChunk(r) ==
  /\ pc[r] = "copying"
  /\ fresh.present
  /\ \E new \in SUBSET Remaining(exec[r]) \ {{}} :
       /\ fresh' = WithRows(fresh, new)
       /\ exec' = [exec EXCEPT ![r] = SentMore(exec[r], new)]
  /\ UNCHANGED <<history, live, pc, before, orphan, ghosts>>

CopyDoneWhateverExit(r) ==
  /\ pc[r] = "copying"
  /\ fresh' = StampedBy(fresh, exec[r])
  /\ Move(r, "copied")
  /\ UNCHANGED <<history, live, orphan, ghosts>>

CopyDone(r) ==
  /\ pc[r] = "copying"
  /\ Remaining(exec[r]) = {}
  /\ fresh' = StampedBy(fresh, exec[r])
  /\ Move(r, "copied")
  /\ UNCHANGED <<history, live, orphan, ghosts>>

FailWithoutDrop(r) ==
  /\ pc[r] \in {"counted", "cleared", "created", "tagged", "copying", "checked"}
  /\ Finish(r)
  /\ UNCHANGED <<tables, orphan, ghosts>>

\* A step of the cycle fails: the schema export, any statement, or the COPY
\* with an exit code.  The handler drops the temporary table and gives up.
FailAndDrop(r) ==
  /\ pc[r] \in {"counted", "cleared", "created", "tagged", "copying", "checked"}
  /\ fresh' = NoTable
  /\ Finish(r)
  /\ UNCHANGED <<history, live, orphan, ghosts>>

\* The connection to Postgres is lost: a step fails, and so does the DROP in its
\* handler.
FailUndropped(r) ==
  /\ pc[r] # "idle"
  /\ pc[r] = "copied" => before[r] /\ FALSE \in CountAnswers(fresh)
  /\ leftover' = (leftover \/ fresh.present)
  /\ Finish(r)
  /\ UNCHANGED <<tables, orphan, clean>>

\* Docker's stream breaks while ora2pg goes on in its own container.
LoseStream(r) ==
  /\ "orphan" \in Disturbances
  /\ pc[r] = "copying" /\ ~orphan.on
  /\ orphan' = exec[r]
  /\ fresh' = NoTable
  /\ clean' = FALSE
  /\ Finish(r)
  /\ UNCHANGED <<history, live, leftover>>

\* The stream ends with no exit code yet, which counts as success.
UnknownExit(r) ==
  /\ "unknown_exit" \in Disturbances
  /\ pc[r] = "copying" /\ ~orphan.on
  /\ orphan' = exec[r]
  /\ clean' = FALSE
  /\ Move(r, "copied")
  /\ UNCHANGED <<tables, leftover>>

RefuseEmptyAlways(r) ==
  /\ pc[r] = "copied"
  /\ FALSE \in CountAnswers(fresh)
  /\ fresh' = NoTable
  /\ Finish(r)
  /\ UNCHANGED <<history, live, orphan, ghosts>>

\* The guard against publishing an empty copy over data.
RefuseEmpty(r) ==
  /\ pc[r] = "copied"
  /\ before[r]
  /\ FALSE \in CountAnswers(fresh)
  /\ fresh' = NoTable
  /\ Finish(r)
  /\ UNCHANGED <<history, live, orphan, ghosts>>

AcceptAnyCopy(r) ==
  /\ pc[r] = "copied"
  /\ Move(r, "checked")
  /\ UNCHANGED <<tables, orphan, ghosts>>

AcceptCopy(r) ==
  /\ pc[r] = "copied"
  /\ before[r] => HasRows(fresh)
  /\ Move(r, "checked")
  /\ UNCHANGED <<tables, orphan, ghosts>>

\* One transaction: rename <target> away, rename <target>_new to <target>,
\* drop the old table.  With no <target>_new it rolls back: FailAndDrop.
Swap(r) ==
  /\ pc[r] = "checked"
  /\ fresh.present
  /\ live' = fresh
  /\ fresh' = NoTable
  /\ Finish(r)
  /\ UNCHANGED <<history, orphan, ghosts>>

-----------------------------------------------------------------------------
(* The environment.                                                        *)

\* The backend dies.  An ora2pg that it started either dies with it (the whole
\* stack restarts) or goes on alone.
Crash ==
  /\ Busy # {}
  /\ pc' = [r \in Reloaders |-> "idle"]
  /\ exec' = [r \in Reloaders |-> NoExec]
  /\ leftover' = (leftover \/ fresh.present)
  /\ \/ UNCHANGED <<orphan, clean>>
     \/ /\ "orphan" \in Disturbances /\ ~orphan.on
        /\ \E r \in Reloaders : pc[r] = "copying" /\ orphan' = exec[r]
        /\ clean' = FALSE
  /\ UNCHANGED <<tables, before>>

OrphanChunk ==
  /\ orphan.on /\ fresh.present
  /\ \E new \in SUBSET Remaining(orphan) \ {{}} :
       /\ fresh' = WithRows(fresh, new)
       /\ orphan' = SentMore(orphan, new)
  /\ UNCHANGED <<history, live, threads, ghosts>>

OrphanEnds ==
  /\ orphan.on
  /\ Remaining(orphan) = {} \/ ~fresh.present
  /\ orphan' = NoExec
  /\ UNCHANGED <<tables, threads, ghosts>>

SourceChanges ==
  /\ Len(history) < MaxVersions
  /\ \E contents \in SUBSET Rows : history' = Append(history, contents)
  /\ UNCHANGED <<live, fresh, threads, orphan, ghosts>>

Cycle(r) ==
  \/ CountBefore(r)
  \/ ClearTemp(r)
  \/ Unreachable(r)
  \/ CreateTemp(r)
  \/ TagTemp(r)
  \/ StartCopy(r)
  \/ CopyChunk(r)
  \/ CopyDone(r)
  \/ FailAndDrop(r)
  \/ FailUndropped(r)
  \/ LoseStream(r)
  \/ UnknownExit(r)
  \/ RefuseEmpty(r)
  \/ AcceptCopy(r)
  \/ Swap(r)

Next ==
  \/ \E r \in Reloaders : Cycle(r)
  \/ Crash
  \/ OrphanChunk
  \/ OrphanEnds
  \/ SourceChanges

Spec == Init /\ [][Next]_vars

(***************************************************************************)
(* The loop polls for ever and no thread stalls in the middle of a cycle.  *)
(* Requests to run a cycle now are not fair.                               *)
(***************************************************************************)
Fairness ==
  /\ WF_vars(CountBefore(Loop))
  /\ \A r \in Reloaders : WF_vars(pc[r] # "idle" /\ Cycle(r))

FairSpec == Spec /\ Fairness

-----------------------------------------------------------------------------
TypeOK ==
  /\ history \in Seq(SUBSET Rows)
  /\ live \in Table
  /\ fresh \in Table
  /\ pc \in [Reloaders -> Stages]
  /\ before \in [Reloaders -> BOOLEAN]
  /\ exec \in [Reloaders -> Exec]
  /\ orphan \in Exec
  /\ clean \in BOOLEAN
  /\ leftover \in BOOLEAN

IsSnapshot(table) ==
  /\ table.version \in 1..Len(history)
  /\ table = Snapshots!Copy(history, table.version)

(***************************************************************************)
(* Readers of <target> (the Type B outbound queries) see either no table   *)
(* yet or one complete copy of the view, never a partial, doubled or mixed *)
(* one, as long as reload cycles did not overlap and no ora2pg process     *)
(* outlived its cycle; crashes, failed stages, blank DDL files and changes *)
(* of the view during the copy are all allowed.                            *)
(***************************************************************************)
LiveIsSnapshot == clean => live = NoTable \/ IsSnapshot(live)

(***************************************************************************)
(* While no cycles overlapped, every step of the reload is a step of       *)
(* SnapshotTable: copies are published whole, never older than the one     *)
(* they replace, and never an empty copy over rows (_atomic_swap and the   *)
(* non-empty guard of full_reload_once).                                   *)
(***************************************************************************)
PublishesInOrder == [][clean' => Snapshots!Next \/ UNCHANGED <<history, live>>]_vars

(***************************************************************************)
(* A cycle that ends, however it ends, leaves no <target>_new: the table   *)
(* exists only while a cycle is past its DDL stage, or because the backend *)
(* died or lost Postgres in the middle of one and no later cycle has       *)
(* cleared it.                                                             *)
(***************************************************************************)
TempOnlyInCycle ==
  clean /\ fresh.present =>
    leftover \/ \E r \in Reloaders :
                  pc[r] \in {"created", "tagged", "copying", "copied", "checked"}

(***************************************************************************)
(* If from some time on the backend stays up, Oracle answers and no        *)
(* statement fails of its own accord, the polled table ends up equal to    *)
(* the view, whatever failed or was left behind before; unless the view    *)
(* really became empty, which the non-empty guard refuses for ever.        *)
(***************************************************************************)
Fault ==
  \/ Crash
  \/ \E r \in Reloaders :
       \/ Unreachable(r)
       \/ CreateTemp(r) /\ fresh' # EmptyTable
       \/ RefuseEmpty(r) /\ HasRows(fresh)
       \/ FailUndropped(r)
       \/ FailAndDrop(r) /\ (fresh.present \/ pc[r] \notin {"created", "tagged", "checked"})

Current ==
  \/ live.version = Len(history)
  \/ history[Len(history)] = {} /\ live.rows # {}

ReloadCatchesUp == []clean /\ <>[][~Fault]_vars => <>[]Current

\* Every running ora2pg job reads a content that the view has had.
JobsReadView ==
  /\ \A r \in Reloaders : pc[r] = "copying" => exec[r].version \in 1..Len(history)
  /\ orphan.on => orphan.version \in 1..Len(history)

(***************************************************************************)
(* The inductive invariant behind the three safety properties: with no     *)
(* overlap and no disturbance at most one thread is in a cycle, and the    *)
(* temporary table is exactly what its stage has made of it.               *)
(***************************************************************************)
OneAtATime == \A r, s \in Busy : r = s

FreshWanted ==
  /\ IsSnapshot(fresh)
  /\ live.version <= fresh.version

StageInv(r) ==
  /\ pc[r] # "idle" => (before[r] <=> HasRows(live))
  /\ pc[r] = "cleared" => fresh = NoTable
  /\ pc[r] = "created" => fresh \in {NoTable, EmptyTable}
  /\ pc[r] = "tagged" => fresh = EmptyTable
  /\ pc[r] = "copying" =>
       /\ live.version <= exec[r].version
       /\ exec[r].sent \subseteq history[exec[r].version]
       /\ fresh = Holding(exec[r].sent, FALSE)
  /\ pc[r] \in {"copied", "checked"} => FreshWanted
  /\ pc[r] = "checked" => (live.rows # {} => fresh.rows # {})

CleanInv ==
  clean =>
    /\ ~orphan.on
    /\ OneAtATime
    /\ live = NoTable \/ IsSnapshot(live)
    /\ live.version <= Len(history)
    /\ \A r \in Reloaders : StageInv(r)

(***************************************************************************)
(* The comment on full_reload_once: the live target is never empty for     *)
(* readers, and an empty table is never published over good data.          *)
(***************************************************************************)
NeverEmptied == [][live.rows # {} => live'.rows # {}]_vars
=============================================================================
