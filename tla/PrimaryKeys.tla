------------------------------ MODULE PrimaryKeys ------------------------------
(***************************************************************************)
(* The primary key of one staging table in the three places that keep it:  *)
(* the migration job (canonical, with the source it came from), the copy   *)
(* in the streaming configuration, and the unique index of the table that  *)
(* ON CONFLICT uses.  Operators set, clear and scan for it, the server     *)
(* seeds a reference key whenever it starts, migrations and streaming      *)
(* cycles build the index.  Every DDL statement commits by itself; a       *)
(* session writes, in one transaction at its end, the columns it changed.  *)
(***************************************************************************)
EXTENDS Naturals

CONSTANTS
  Keys,            \* the sets of columns that may serve as a key
  Reference,       \* the one in jde_default_primary_keys.json
  None,            \* no key, no index
  Requests         \* the requests, runs and cycles that may be in flight

ASSUME ReferenceAssumption == Reference \in Keys
ASSUME NoneAssumption == None \notin Keys

VARIABLES
  job,             \* the key and its source in migration_jobs, the streaming copy
  idx,             \* the key of the index ux_<target>_pk
  tmp,             \* the key of the index ux_<target>_pk_new
  exists,          \* whether the staging table exists
  unique,          \* the keys that no two of its rows share
  op,              \* what each request does
  late,            \* ghost: a session wrote over a row that had changed since
  orphan,          \* ghost: a rebuild left a second index, or none, behind
  cleared          \* ghost: the key was cleared, and nobody set it or scanned

indexes == <<idx, tmp>>
vars == <<job, indexes, exists, unique, op, late, orphan, cleared>>

-----------------------------------------------------------------------------
Sources == {"none", "reference", "scanned", "manual"}
Kinds == {"set", "clear", "scan", "cycle", "load"}
Building == {"drop_tmp", "create", "drop_idx", "rename"}
Stages == Building \cup
  {"load", "commit", "ensure", "create_idx", "cleanup", "recreate", "reload", "insert", "finish"}

Idle == [stage |-> "idle"]

Job(pk, source, copy) == [pk |-> pk, source |-> source, copy |-> copy]

\* effective_pk
Effective(j) == IF j.pk # None THEN j.pk ELSE j.copy

\* A request begins; alone: no other was in flight while it was.
Begin(r, kind, stage, key) ==
  op' = [q \in Requests |->
           IF q = r
           THEN [kind |-> kind, stage |-> stage, key |-> key, seen |-> job,
                 alone |-> \A p \in Requests : op[p] = Idle]
           ELSE IF op[q] = Idle THEN Idle ELSE [op[q] EXCEPT !.alone = FALSE]]

Go(r, stage) == op' = [op EXCEPT ![r].stage = stage]
End(r) == op' = [op EXCEPT ![r] = Idle]

At(r, stage) == op[r].stage = stage

\* What follows the index, built or not.
Built(r) ==
  IF op[r].kind = "set" THEN Go(r, "load") ELSE Go(r, "insert")

\* A full migration only reports the failure.
NotBuilt(r) ==
  CASE op[r].kind = "set" -> Go(r, "cleanup")
    [] op[r].kind = "cycle" -> Go(r, "finish")
    [] op[r].kind = "load" -> Go(r, "insert")

NotTheJob == UNCHANGED <<job, late, cleared>>
NotTheIndex == UNCHANGED <<indexes, exists, unique, orphan>>

-----------------------------------------------------------------------------
\* A server that has just seeded the key for the first time.
Init ==
  /\ job = Job(Reference, "reference", None)
  /\ idx = None
  /\ tmp = None
  /\ exists \in BOOLEAN
  /\ unique \in SUBSET Keys
  /\ op = [r \in Requests |-> Idle]
  /\ late = FALSE
  /\ orphan = FALSE
  /\ cleared = FALSE

\* set_primary_key: _pk_has_duplicates may fail and then finds none.
StartSet(r) ==
  /\ op[r] = Idle
  /\ \E k \in Keys : Begin(r, "set", IF exists THEN "drop_tmp" ELSE "load", k)
  /\ NotTheJob /\ NotTheIndex

\* clear_primary_key drops the index and goes on if it cannot.
StartClear(r) ==
  /\ op[r] = Idle
  /\ idx' \in {idx, None}
  /\ Begin(r, "clear", "load", None)
  /\ NotTheJob /\ UNCHANGED <<tmp, exists, unique, orphan>>

\* discover_keys: what Oracle says.
StartScan(r) ==
  /\ op[r] = Idle
  /\ \E k \in Keys : Begin(r, "scan", "load", k)
  /\ NotTheJob /\ NotTheIndex

\* start_migration hands the key of the job to the worker.
StartLoad(r) ==
  /\ op[r] = Idle
  /\ Begin(r, "load", "recreate", job.pk)
  /\ NotTheJob /\ NotTheIndex

\* run_cycle of a table with a date marker: Case A needs a key and the table.
StartCycle(r) ==
  /\ op[r] = Idle
  /\ Begin(r, "cycle",
           CASE Effective(job) = None -> "reload"
             [] Effective(job) # None /\ exists -> "ensure"
             [] OTHER -> "finish",
           Effective(job))
  /\ NotTheJob /\ NotTheIndex

Start(r) == StartSet(r) \/ StartClear(r) \/ StartScan(r) \/ StartLoad(r) \/ StartCycle(r)

-----------------------------------------------------------------------------
\* _apply_ddl: the table is new and empty, and so are its indexes.
Recreate(r) ==
  /\ At(r, "recreate")
  /\ exists' = TRUE
  /\ unique' = Keys
  /\ idx' = None /\ tmp' = None
  /\ orphan' = FALSE
  /\ Go(r, IF op[r].key = None THEN "insert" ELSE "ensure")
  /\ NotTheJob

\* full_reload_once of Case B: another table without a key, or the old one.
Reload(r) ==
  /\ At(r, "reload")
  /\ \/ /\ exists' = TRUE
        /\ unique' \in SUBSET Keys
        /\ idx' = None /\ tmp' = None
        /\ orphan' = FALSE
     \/ NotTheIndex
  /\ Go(r, "finish")
  /\ NotTheJob

\* EnsureAnyIndex, CreateTmpCarelessly, LoadJobAlways and WantedUnsynced are bugs
\* for the properties to notice; no action contains them.
EnsureAnyIndex(r) ==
  /\ At(r, "ensure")
  /\ IF idx # None THEN Built(r) ELSE Go(r, "create_idx")
  /\ NotTheJob /\ NotTheIndex

\* _ensure_unique_index compares the columns of the index.
Ensure(r) ==
  /\ At(r, "ensure")
  /\ IF idx = op[r].key THEN Built(r)
     ELSE Go(r, IF idx = None THEN "create_idx" ELSE "drop_tmp")
  /\ NotTheJob /\ NotTheIndex

\* Every statement may fail by itself: a lock or statement timeout, a lost connection.
CreateIdx(r) ==
  /\ At(r, "create_idx")
  /\ \/ idx = None /\ op[r].key \in unique /\ idx' = op[r].key /\ Built(r)
     \/ NotBuilt(r) /\ UNCHANGED idx
  /\ NotTheJob /\ UNCHANGED <<tmp, exists, unique, orphan>>

\* The four statements of a rebuild, the same in _rebuild_unique_index.
DropTmp(r) ==
  /\ At(r, "drop_tmp")
  /\ \/ tmp' = None /\ Go(r, "create")
     \/ NotBuilt(r) /\ UNCHANGED tmp
  /\ NotTheJob /\ UNCHANGED <<idx, exists, unique, orphan>>

CreateTmpCarelessly(r) ==
  /\ At(r, "create")
  /\ tmp' = IF tmp = None /\ op[r].key \in unique THEN op[r].key ELSE tmp
  /\ Go(r, "drop_idx")
  /\ NotTheJob /\ UNCHANGED <<idx, exists, unique, orphan>>

CreateTmp(r) ==
  /\ At(r, "create")
  /\ \/ tmp = None /\ op[r].key \in unique /\ tmp' = op[r].key /\ Go(r, "drop_idx")
     \/ NotBuilt(r) /\ UNCHANGED tmp
  /\ NotTheJob /\ UNCHANGED <<idx, exists, unique, orphan>>

\* _ensure_unique_index has no handler: what fails from here on leaves its index behind.
DropIdx(r) ==
  /\ At(r, "drop_idx")
  /\ \/ idx' = None /\ Go(r, "rename") /\ UNCHANGED orphan
     \/ idx' \in {idx, None} /\ NotBuilt(r) /\ orphan' = TRUE
  /\ NotTheJob /\ UNCHANGED <<tmp, exists, unique>>

Rename(r) ==
  /\ At(r, "rename")
  /\ \/ /\ tmp # None /\ idx = None
        /\ idx' = tmp /\ tmp' = None
        /\ orphan' = (orphan /\ ~op[r].alone)
        /\ Built(r)
     \/ NotBuilt(r) /\ orphan' = TRUE /\ UNCHANGED indexes
  /\ NotTheJob /\ UNCHANGED <<exists, unique>>

\* The handler of _rebuild_unique_index, whatever failed, and the 409.
CleanUp(r) ==
  /\ At(r, "cleanup")
  /\ tmp' \in {tmp, None}
  /\ orphan' = (orphan /\ ~(op[r].alone /\ tmp' = None))
  /\ End(r)
  /\ NotTheJob /\ UNCHANGED <<idx, exists, unique>>

\* Rows of a COPY or an INSERT may share any key that no index enforces.
Insert(r) ==
  /\ At(r, "insert")
  /\ unique' \in {u \in SUBSET unique : {idx, tmp} \ {None} \subseteq u}
  /\ IF op[r].kind = "cycle" THEN Go(r, "finish") ELSE End(r)
  /\ NotTheJob /\ UNCHANGED <<indexes, exists, orphan>>

Index(r) ==
  \/ Recreate(r) \/ Reload(r) \/ Ensure(r) \/ CreateIdx(r)
  \/ DropTmp(r) \/ CreateTmp(r) \/ DropIdx(r) \/ Rename(r) \/ CleanUp(r)
  \/ Insert(r)

-----------------------------------------------------------------------------
LoadJobAlways(r) ==
  /\ At(r, "load")
  /\ op' = [op EXCEPT ![r].stage = "commit", ![r].seen = job]
  /\ NotTheJob /\ NotTheIndex

\* The session reads both rows; a scan leaves a manual key alone.
LoadJob(r) ==
  /\ At(r, "load")
  /\ op' = IF op[r].kind = "scan" /\ job.source = "manual"
           THEN [op EXCEPT ![r] = Idle]
           ELSE [op EXCEPT ![r].stage = "commit", ![r].seen = job]
  /\ NotTheJob /\ NotTheIndex

WantedUnsynced(r) ==
  CASE op[r].kind = "set" -> Job(op[r].key, "manual", op[r].key)
    [] op[r].kind = "scan" -> Job(op[r].key, "scanned", op[r].key)
    [] op[r].kind = "clear" -> Job(None, "none", op[r].seen.copy)

\* The assignments of the three endpoints, _sync_streaming_pk included.
Wanted(r) ==
  CASE op[r].kind = "set" -> Job(op[r].key, "manual", op[r].key)
    [] op[r].kind = "scan" -> Job(op[r].key, "scanned", op[r].key)
    [] op[r].kind = "clear" -> Job(None, "none", None)

\* The UPDATE of a session has the columns that differ from what it loaded.
Column(now, seen, want) == IF want = seen THEN now ELSE want

Merged(r) ==
  Job(Column(job.pk, op[r].seen.pk, Wanted(r).pk),
      Column(job.source, op[r].seen.source, Wanted(r).source),
      Column(job.copy, op[r].seen.copy, Wanted(r).copy))

Commit(r) ==
  /\ At(r, "commit")
  /\ job' = Merged(r)
  /\ late' = (op[r].seen # job)
  /\ cleared' = (op[r].kind = "clear")
  /\ End(r)
  /\ NotTheIndex

\* _finish saves the copy that run_cycle took over from the job.
Finish(r) ==
  /\ At(r, "finish")
  /\ LET took == op[r].key # op[r].seen.copy
     IN  /\ job' = IF took THEN [job EXCEPT !.copy = op[r].key] ELSE job
         /\ late' = (late \/ (took /\ op[r].seen # job))
  /\ End(r)
  /\ NotTheIndex /\ UNCHANGED cleared

\* The server stops or dies, and seeds the key before it serves again.
Restart ==
  /\ op' = [r \in Requests |-> Idle]
  /\ job' = IF job.source \in {"manual", "scanned"} THEN job
            ELSE Job(Reference, "reference", job.copy)
  /\ orphan' = (orphan \/ tmp # None \/ \E r \in Requests : At(r, "rename"))
  /\ UNCHANGED <<indexes, exists, unique, late, cleared>>

Next ==
  \/ \E r \in Requests : Start(r) \/ Index(r) \/ LoadJob(r) \/ Commit(r) \/ Finish(r)
  \/ Restart

Spec == Init /\ [][Next]_vars

-----------------------------------------------------------------------------
JobRow == [pk : Keys \cup {None}, source : Sources, copy : Keys \cup {None}]

TypeOK ==
  /\ job \in JobRow
  /\ idx \in Keys \cup {None} /\ tmp \in Keys \cup {None}
  /\ exists \in BOOLEAN
  /\ unique \subseteq Keys
  /\ op \in [Requests -> {Idle} \cup [kind : Kinds, stage : Stages, key : Keys \cup {None},
                                       seen : JobRow, alone : BOOLEAN]]
  /\ late \in BOOLEAN /\ orphan \in BOOLEAN /\ cleared \in BOOLEAN

(***************************************************************************)
(* "manual > scanned > reference": a key an operator has set changes, or   *)
(* loses its source, only when an operator sets or clears it, or by a scan *)
(* that read the job before it was set; no restart and no cycle does it.   *)
(***************************************************************************)
ManualWins ==
  [][job.source = "manual" /\ <<job'.pk, job'.source>> # <<job.pk, job.source>> =>
       \E r \in Requests :
         Commit(r) /\ (op[r].kind = "scan" => op[r].seen.source # "manual")]_vars

(***************************************************************************)
(* Migration and streaming use one key: a job has a key if it has a source *)
(* for it, and where it has none streaming has none of its own; unless a   *)
(* session has written over a change it had not seen, and until a session  *)
(* that saw everything sets, scans or clears the key.                      *)
(***************************************************************************)
KeysAgree ==
  \/ late
  \/ /\ (job.pk = None) = (job.source = "none")
     /\ job.pk = None => job.copy = None

Guarded == {idx, tmp} # {None}

(***************************************************************************)
(* A rebuild of the index keeps the table under a unique index at every    *)
(* step: a table that has one loses it only when the key is cleared or the *)
(* table is replaced, when two requests overlap, or once a rebuild was     *)
(* left half done: by a crash, an overlap, or its own DROP or RENAME       *)
(* failing after the new index was built.  A CREATE that fails, which is   *)
(* what a key that is not unique does, costs no index.                     *)
(***************************************************************************)
NeverUnguarded ==
  [][Guarded /\ ~Guarded' =>
       \/ orphan
       \/ \E r \in Requests : op'[r] # Idle /\ op'[r].kind = "clear"
       \/ \E r \in Requests :
            op[r] # Idle /\ (op[r].stage \in {"recreate", "reload"} \/ ~op[r].alone)]_vars

(***************************************************************************)
(* When a cycle inserts, the key it means to upsert on is the only one     *)
(* that a unique index enforces, so that ON CONFLICT, which names none,    *)
(* skips no other row; whatever sets, clears, refused keys and loads went  *)
(* before.  Excepted are a cycle that another request overlaps and a       *)
(* rebuild left half done by a crash, an overlap, or its own DROP or       *)
(* RENAME failing; until a rebuild or the handler of one has cleaned up.   *)
(***************************************************************************)
InsertsOnItsKey ==
  \A r \in Requests :
    At(r, "insert") /\ op[r].kind = "cycle" /\ op[r].alone /\ ~orphan =>
      idx = op[r].key /\ tmp \in {None, idx}

(***************************************************************************)
(* "a CLEARED PK must STAY cleared" (streaming_service.py:278-279): once   *)
(* an operator has cleared it, a cycle has no key until one is set or      *)
(* found by a scan.                                                        *)
(***************************************************************************)
ClearedStaysCleared == cleared => Effective(job) = None

(***************************************************************************)
(* "the prior ux_<t>_pk is untouched on failure"                           *)
(* (ora2pg_dashboard.py:777): a set that ends with an error, and that no   *)
(* other request overlapped, does not take the last unique index from a    *)
(* table that had one.                                                     *)
(***************************************************************************)
FailureKeepsIndex ==
  [][Guarded /\ ~Guarded' => ~\E r \in Requests : CleanUp(r) /\ op[r].alone]_vars
=============================================================================
