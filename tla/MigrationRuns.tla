----------------------------- MODULE MigrationRuns -----------------------------
(***************************************************************************)
(* The runs of one staging table started from the migration dashboard: a   *)
(* request to start or repair looks at the latest run, commits a row for   *)
(* its own run and launches a daemon thread, which drives ora2pg, keeps a  *)
(* live snapshot in memory (_PROGRESS), saves the row as best it can and   *)
(* at last compares row counts.                                            *)
(*                                                                         *)
(* Requests are numbered in the order they arrive, and the run a request   *)
(* creates has its number: created_at is the start of its transaction.     *)
(***************************************************************************)
EXTENDS Naturals, FiniteSets

CONSTANTS
  MaxRequests,     \* bound on the requests made
  Parts,           \* parts of the source, each of rows that a run asks for together
  Disturbances     \* which of the rarer faults below may happen

PossibleDisturbances == {"persist_fails", "docker_dies", "unknown_exit", "orphan"}

ASSUME MaxRequestsAssumption == MaxRequests \in Nat
ASSUME DisturbancesAssumption == Disturbances \subseteq PossibleDisturbances

Requests == 1..MaxRequests

VARIABLES
  req,             \* how far each request has come
  kind,            \* what each run does to the table
  asked,           \* the parts of the source that it asks for
  row,             \* the status in the migration_runs row of each run
  progress,        \* the status in its live snapshot
  worker,          \* where its thread is
  target,          \* the staging table: the last run that began to fill it, the
                   \* parts it holds whole, and those it held when that run began
  orphans,         \* ora2pg processes that no thread waits for any more
  raced,           \* ghost: two requests were between check and launch at once
  spoiled,         \* ghost: a run was launched while another was loading, or while
                   \* an ora2pg that nobody waits for was
  unsure           \* ghost: runs that took an unknown exit for success

requests == <<req, kind, asked>>
table == <<target, orphans>>
ghosts == <<raced, spoiled, unsure>>
vars == <<requests, row, progress, worker, table, ghosts>>

-----------------------------------------------------------------------------
Unfinished == {"pending", "running"}
Terminal == {"success", "failed"}

\* Before the thread has shown an outcome, and after it.
Loading == {"queued", "begun", "preparing", "copying"}
Closing == {"failing", "succeeding", "reconciling"}
WorkerStages == {"none", "dead", "done"} \cup Loading \cup Closing

RequestStages == {"none", "checked", "committed", "launched", "refused", "lost"}

\* A load drops and recreates the table; the two repairs keep it.  A load that
\* is capped at test_rows and a repair of a range of the watermark ask for some
\* of the rows, another load and a repair by the key for all.
Repairs == {"range", "key"}
Kinds == {"load"} \cup Repairs

Requested(k) == IF k = "key" THEN {Parts} ELSE SUBSET Parts

\* Of a migration_runs row only the status decides anything.
Statuses == {"absent"} \cup Unfinished \cup Terminal

Tables == [run : 0..MaxRequests, holds : SUBSET Parts, held : SUBSET Parts]

InFlight == {q \in Requests : worker[q] \in Loading}
Alive == {q \in Requests : worker[q] \in Loading \cup Closing}
Deciding == {q \in Requests : req[q] \in {"checked", "committed"}}

IsLatest(p) ==
  /\ row[p] # "absent"
  /\ \A r \in Requests : r > p => row[r] = "absent"

RunRunning ==
  \E p \in Requests :
    /\ IsLatest(p)
    /\ row[p] = "running"
    /\ progress[p] = "running"

RowInProgress ==
  \E p \in Requests :
    /\ IsLatest(p)
    /\ row[p] \in Unfinished

\* The guard of start_migration and repair_table.
RunInProgress ==
  \E p \in Requests :
    /\ IsLatest(p)
    /\ row[p] \in Unfinished
    /\ progress[p] \in Unfinished

\* _persist swallows every error.
Saves == {TRUE} \cup (IF "persist_fails" \in Disturbances THEN {FALSE} ELSE {})

SaveStatus(q, status) ==
  \E saved \in Saves : row' = IF saved THEN [row EXCEPT ![q] = status] ELSE row

Step(q, stage) == worker' = [worker EXCEPT ![q] = stage]

KeptByTruncate(q) == {}

\* What is left of the table when run q has prepared it: nothing is after the
\* DROP of a load, and a range repair deletes the range it asks for.
Kept(q) ==
  CASE kind[q] = "range" -> target.holds \ asked[q]
    [] kind[q] = "key" -> target.holds
    [] OTHER -> {}

Init ==
  /\ req = [q \in Requests |-> "none"]
  /\ kind = [q \in Requests |-> "load"]
  /\ asked = [q \in Requests |-> {}]
  /\ row = [q \in Requests |-> "absent"]
  /\ progress = [q \in Requests |-> "absent"]
  /\ worker = [q \in Requests |-> "none"]
  /\ target = [run |-> 0, holds |-> Parts, held |-> {}]
  /\ orphans = {}
  /\ raced = FALSE
  /\ spoiled = FALSE
  /\ unsure = {}

-----------------------------------------------------------------------------
(* A request: start_migration, or repair_table.  RunRunning, RowInProgress *)
(* and KeptByTruncate above and FailSilently below are wrong on purpose:   *)
(* bugs for the properties to notice, which no action contains.            *)

Arrives(q) ==
  /\ req[q] = "none"
  /\ \A p \in Requests : p < q => req[p] # "none"

Refuse(q) ==
  /\ Arrives(q)
  /\ RunInProgress
  /\ req' = [req EXCEPT ![q] = "refused"]
  /\ UNCHANGED <<kind, asked, row, progress, worker, table, ghosts>>

Check(q) ==
  /\ Arrives(q)
  /\ ~RunInProgress
  /\ req' = [req EXCEPT ![q] = "checked"]
  /\ \E k \in Kinds : \E parts \in Requested(k) :
       /\ kind' = [kind EXCEPT ![q] = k]
       /\ asked' = [asked EXCEPT ![q] = parts]
  /\ raced' = (raced \/ Deciding # {})
  /\ UNCHANGED <<row, progress, worker, table, spoiled, unsure>>

Commit(q) ==
  /\ req[q] = "checked"
  /\ req' = [req EXCEPT ![q] = "committed"]
  /\ row' = [row EXCEPT ![q] = "pending"]
  /\ UNCHANGED <<kind, asked, progress, worker, table, ghosts>>

Launch(q) ==
  /\ req[q] = "committed"
  /\ req' = [req EXCEPT ![q] = "launched"]
  /\ progress' = [progress EXCEPT ![q] = "pending"]
  /\ Step(q, "queued")
  /\ spoiled' = (spoiled \/ InFlight # {} \/ orphans # {})
  /\ UNCHANGED <<kind, asked, row, table, raced, unsure>>

-----------------------------------------------------------------------------
(* The thread of a run: _worker, _repair_worker or _repair_pk_worker.      *)

Begin(q) ==
  /\ worker[q] = "queued"
  /\ progress' = [progress EXCEPT ![q] = "running"]
  /\ Step(q, "begun")
  /\ UNCHANGED <<requests, row, table, ghosts>>

SaveRunning(q) ==
  /\ worker[q] = "begun"
  /\ SaveStatus(q, "running")
  /\ Step(q, "preparing")
  /\ UNCHANGED <<requests, progress, table, ghosts>>

\* The DDL of a load or the DELETE of a range commits before any row is copied.
Prepare(q) ==
  /\ worker[q] = "preparing"
  /\ target' = [run |-> q, holds |-> Kept(q), held |-> target.holds]
  /\ Step(q, "copying")
  /\ UNCHANGED <<requests, row, progress, orphans, ghosts>>

\* The rows of a part have all arrived, from the ora2pg that the thread waits
\* for or from one that nobody waits for.
LoadPart(q) ==
  /\ worker[q] = "copying" \/ q \in orphans
  /\ \E part \in asked[q] \ target.holds :
       target' = [target EXCEPT !.holds = @ \cup {part}]
  /\ UNCHANGED <<requests, row, progress, worker, orphans, ghosts>>

FailSilently(q) ==
  /\ worker[q] \in {"preparing", "copying"}
  /\ Step(q, "failing")
  /\ UNCHANGED <<requests, row, progress, table, ghosts>>

Fail(q) ==
  /\ worker[q] \in {"preparing", "copying"}
  /\ progress' = [progress EXCEPT ![q] = "failed"]
  /\ Step(q, "failing")
  /\ UNCHANGED <<requests, row, table, ghosts>>

\* The stream of the COPY breaks; ora2pg goes on in its own container.
LoseStream(q) ==
  /\ "orphan" \in Disturbances
  /\ worker[q] = "copying"
  /\ orphans' = orphans \cup {q}
  /\ progress' = [progress EXCEPT ![q] = "failed"]
  /\ Step(q, "failing")
  /\ UNCHANGED <<requests, row, target, ghosts>>

\* The exec of the schema export raises, which nothing catches in _worker.
Die(q) ==
  /\ "docker_dies" \in Disturbances
  /\ worker[q] = "preparing" /\ kind[q] \notin Repairs
  /\ Step(q, "dead")
  /\ UNCHANGED <<requests, row, progress, table, ghosts>>

SaveFailed(q) ==
  /\ worker[q] = "failing"
  /\ SaveStatus(q, "failed")
  /\ Step(q, "done")
  /\ UNCHANGED <<requests, progress, table, ghosts>>

\* ora2pg exits with 0 when it has sent every row that it was asked for.  They
\* are in the table unless another run has begun to fill it since.
Succeed(q) ==
  /\ worker[q] = "copying"
  /\ \E parts \in (IF target.run = q THEN {asked[q]} ELSE SUBSET asked[q]) :
       target' = [target EXCEPT !.holds = @ \cup parts]
  /\ progress' = [progress EXCEPT ![q] = "success"]
  /\ Step(q, "succeeding")
  /\ UNCHANGED <<requests, row, orphans, ghosts>>

\* The exit code is not known yet, which counts as success.
SucceedUnknown(q) ==
  /\ "unknown_exit" \in Disturbances
  /\ worker[q] = "copying"
  /\ orphans' = orphans \cup {q}
  /\ progress' = [progress EXCEPT ![q] = "success"]
  /\ unsure' = unsure \cup {q}
  /\ Step(q, "succeeding")
  /\ UNCHANGED <<requests, row, target, raced, spoiled>>

SaveSuccess(q) ==
  /\ worker[q] = "succeeding"
  /\ SaveStatus(q, "success")
  /\ Step(q, "reconciling")
  /\ UNCHANGED <<requests, progress, table, ghosts>>

\* validate_target_table and reconcile_ora2pg_run count the table and commit counts
\* and a verdict beside the status, or fail; any error is swallowed.
Reconcile(q) ==
  /\ worker[q] = "reconciling"
  /\ Step(q, "done")
  /\ UNCHANGED <<requests, row, progress, table, ghosts>>

-----------------------------------------------------------------------------
(* The environment.                                                        *)

\* The backend dies and comes back: memory is gone, rows stay as they are.
Crash ==
  /\ Alive \cup Deciding # {}
  /\ req' = [q \in Requests |-> IF q \in Deciding THEN "lost" ELSE req[q]]
  /\ progress' = [q \in Requests |-> "absent"]
  /\ worker' = [q \in Requests |-> IF q \in Alive THEN "done" ELSE worker[q]]
  /\ orphans' \in {orphans} \cup
       (IF "orphan" \in Disturbances
          THEN {orphans \cup {q \in Requests : worker[q] = "copying"}} ELSE {})
  /\ UNCHANGED <<kind, asked, row, target, ghosts>>

OrphanEnds(q) ==
  /\ q \in orphans
  /\ orphans' = orphans \ {q}
  /\ UNCHANGED <<requests, row, progress, worker, target, ghosts>>

Handle(q) == Refuse(q) \/ Check(q) \/ Commit(q) \/ Launch(q)

Work(q) ==
  \/ Begin(q)
  \/ SaveRunning(q)
  \/ Prepare(q)
  \/ Fail(q)
  \/ LoseStream(q)
  \/ Die(q)
  \/ SaveFailed(q)
  \/ Succeed(q)
  \/ SucceedUnknown(q)
  \/ SaveSuccess(q)
  \/ Reconcile(q)

Next ==
  \/ \E q \in Requests :
       \/ Handle(q)
       \/ Work(q)
       \/ LoadPart(q)
       \/ OrphanEnds(q)
  \/ Crash

Spec == Init /\ [][Next]_vars

(***************************************************************************)
(* A thread goes on to its end, and the ora2pg it waits for ends.  No      *)
(* request need ever be made or carried through, and a process that        *)
(* outlives its thread may run for ever.                                   *)
(***************************************************************************)
Fairness == \A q \in Requests : WF_vars(Work(q) /\ worker'[q] # worker[q])

FairSpec == Spec /\ Fairness

-----------------------------------------------------------------------------
TypeOK ==
  /\ req \in [Requests -> RequestStages]
  /\ kind \in [Requests -> Kinds]
  /\ asked \in [Requests -> SUBSET Parts]
  /\ row \in [Requests -> Statuses]
  /\ progress \in [Requests -> Statuses]
  /\ worker \in [Requests -> WorkerStages]
  /\ target \in Tables
  /\ orphans \subseteq Requests
  /\ raced \in BOOLEAN
  /\ spoiled \in BOOLEAN
  /\ unsure \subseteq Requests

(***************************************************************************)
(* One run at a time fills the table: as long as no two requests were      *)
(* between the check and the launch together, the guard of start_migration *)
(* and repair_table keeps a second thread from loading, whatever crashes,  *)
(* lost saves or dead threads came before.                                 *)
(***************************************************************************)
SingleFlight == ~raced => \A p, q \in InFlight : p = q

(***************************************************************************)
(* The saved row never tells of an outcome that the thread has not shown:  *)
(* fail() and the success path of the workers set the live snapshot before *)
(* they save, and nothing saves a later status over an outcome.            *)
(***************************************************************************)
RowFollowsProgress ==
  \A q \in Requests :
    row[q] \in Terminal => progress[q] \in {"absent", row[q]}

(***************************************************************************)
(* A run that the dashboard shows as a success, and that was the last to   *)
(* begin to fill the table, left in it all it asked for: the source after  *)
(* a load or a repair by the key, the rows up to the cap or the range      *)
(* after the others.  And a repair has lost nothing that it found there.   *)
(* Excepted are a run that took an unknown exit for success, and all after *)
(* a run was launched on top of another or of an ora2pg that nobody waits  *)
(* for.  That requests raced does no harm by itself.                       *)
(***************************************************************************)
SuccessIsWhole ==
  ~spoiled =>
    \A q \in Requests \ unsure :
      "success" \in {row[q], progress[q]} /\ target.run = q =>
        /\ asked[q] \subseteq target.holds
        /\ kind[q] \in Repairs => target.held \subseteq target.holds

(***************************************************************************)
(* Only a run in flight, or one whose thread died of an exception, makes   *)
(* the guard refuse: rows left pending or running by a crash do not.       *)
(***************************************************************************)
BlockedOnlyByThread ==
  RunInProgress => \E q \in Requests : worker[q] \in Loading \cup {"dead"}

(***************************************************************************)
(* Unless a thread died, the guard never refuses for ever.                 *)
(***************************************************************************)
NeverBlockedForGood ==
  [](\A q \in Requests : worker[q] # "dead") => []<>~RunInProgress

(***************************************************************************)
(* The comment on the guard: a request is refused if a run is already in   *)
(* flight.                                                                 *)
(***************************************************************************)
StartIsExclusive == \A p, q \in InFlight : p = q

RefusedOnlyInFlight == [][\A q \in Requests : Refuse(q) => InFlight # {}]_vars

(***************************************************************************)
(* The inductive invariant behind SingleFlight, RowFollowsProgress and     *)
(* BlockedOnlyByThread.                                                    *)
(***************************************************************************)
RunInv(q) ==
  /\ worker[q] # "none" => req[q] = "launched" /\ row[q] # "absent"
  /\ worker[q] \in Loading => row[q] \in Unfinished
  /\ worker[q] \in Loading <=> progress[q] \in Unfinished /\ worker[q] # "dead"
  /\ req[q] \in {"none", "checked", "refused"} => row[q] = "absent"
  /\ req[q] = "committed" => row[q] \in Unfinished
  /\ worker[q] = "failing" => progress[q] = "failed"
  /\ worker[q] = "succeeding" => progress[q] = "success"
  /\ row[q] \in Terminal => progress[q] \in {"absent", row[q]}

Active == Deciding \cup InFlight

SingleInv ==
  ~raced =>
    \A p \in Active :
      /\ \A q \in Active : p = q
      /\ \A r \in Requests : r > p => row[r] = "absent"

InOrder ==
  \A p, q \in Requests : p < q /\ req[p] = "none" => req[q] = "none"

FlightInv == SingleInv /\ InOrder /\ \A q \in Requests : RunInv(q)

(***************************************************************************)
(* The inductive invariant behind SuccessIsWhole: while nothing is         *)
(* spoiled, one run loads at most, it fills a table that no orphan writes  *)
(* to, and what it takes out of the table to repair it asks for again.     *)
(***************************************************************************)
FillOf(q) ==
  /\ worker[q] = "none" => "success" \notin {row[q], progress[q]}
  /\ worker[q] = "copying" =>
       /\ target.run = q
       /\ kind[q] \in Repairs => target.held \subseteq target.holds \cup asked[q]
  /\ "success" \in {row[q], progress[q]} /\ target.run = q /\ q \notin unsure =>
       /\ asked[q] \subseteq target.holds
       /\ kind[q] \in Repairs => target.held \subseteq target.holds

FillInv ==
  ~spoiled =>
    /\ \A p, q \in InFlight : p = q
    /\ InFlight # {} => orphans = {}
    /\ \A q \in Requests : FillOf(q)
=============================================================================
