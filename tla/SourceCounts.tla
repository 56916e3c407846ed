---------------------------- MODULE SourceCounts ----------------------------
(***************************************************************************)
(* The cached number of rows of one source view, and the verdicts that     *)
(* come of it: verifiers (the worker of the queue, and requests to /verify *)
(* beside it) compare an exact count at Oracle with the staging table and  *)
(* stamp the latest run; the refresher writes estimates into the same      *)
(* cache row.  Numbers of rows are only compared, so a count is any value. *)
(***************************************************************************)
EXTENDS Naturals

CONSTANTS
  Counts,          \* numbers of rows
  NoCount,         \* no number: NULL, a missing table, or no answer
  Verifiers,       \* threads that run perform_verify
  Refresher,       \* the task that refreshes the estimates
  MaxRuns          \* bound on the runs of the table

ASSUME CountsAssumption == NoCount \notin Counts
ASSUME RefresherAssumption == Refresher \notin Verifiers
ASSUME MaxRunsAssumption == MaxRuns \in Nat

Writers == Verifiers \cup {Refresher}

VARIABLES
  source,          \* the rows of the view at Oracle
  staged,          \* the rows of the staging table, if there is one
  latest,          \* the latest run of the table, 0 if there is none
  stamps,          \* what a verify has stamped on each run
  cache,           \* the row in ora2pg_source_counts
  at,              \* where each writer is
  run,             \* the run it has picked
  target,          \* its count of the staging table
  answer,          \* what Oracle told it
  seen,            \* the cache row as it last read it
  mixed,           \* ghost: an estimate and an exact count were between reading
                   \* the cache row and writing it at the same time
  sure,            \* ghost: verifiers that got an answer if they asked, and
                   \* that nothing has disturbed
  confirmed        \* ghost: the numbers that exact counts have returned

environment == <<source, staged, latest>>
picked == <<run, target>>
ghosts == <<mixed, sure, confirmed>>
vars == <<environment, stamps, cache, at, picked, answer, seen, ghosts>>

-----------------------------------------------------------------------------
Maybe == Counts \cup {NoCount}

Runs == 1..MaxRuns

Stages == {"idle", "picked", "counted", "asked", "loaded", "written", "read"}

CacheRow == [present : BOOLEAN, count : Maybe, mode : {"none", "estimate", "exact"},
             approximate : BOOLEAN, status : {"ok", "stale"}]
NoRow == [present |-> FALSE, count |-> NoCount, mode |-> "none",
          approximate |-> TRUE, status |-> "ok"]

Official == {"MATCH", "MISMATCH"}

Stamp == [verdict : {"none"} \cup Official, source : Maybe, target : Maybe]
NoStamp == [verdict |-> "none", source |-> NoCount, target |-> NoCount]

Mode(w) == IF w = Refresher THEN "estimate" ELSE "exact"

IsExact(row) == row.mode = "exact" /\ ~row.approximate

VerdictByMode(row, rows) ==
  IF row.count = NoCount THEN "PENDING"
  ELSE IF row.mode = "none" THEN "ESTIMATE"
  ELSE IF rows = NoCount THEN "PENDING"
  ELSE IF row.count = rows THEN "MATCH" ELSE "MISMATCH"

\* source_verdict
Verdict(row, rows) ==
  IF row.count = NoCount THEN "PENDING"
  ELSE IF ~IsExact(row) THEN "ESTIMATE"
  ELSE IF rows = NoCount THEN "PENDING"
  ELSE IF row.count = rows THEN "MATCH" ELSE "MISMATCH"

\* The source count that goes into the stamp.
SourceOf(row) == IF row.status = "ok" THEN row.count ELSE NoCount

\* Only an official verdict is stamped, and only if there is a run.
Recorded(verdict, r) == verdict \in Official /\ r # 0

\* What upsert_source_count makes of the row it has read.
WantedLabel(w) ==
  [present |-> TRUE,
   count |-> IF answer[w] = NoCount THEN seen[w].count ELSE answer[w],
   mode |-> Mode(w), approximate |-> w = Refresher,
   status |-> IF answer[w] = NoCount THEN "stale" ELSE "ok"]

Wanted(w) ==
  IF answer[w] = NoCount
    THEN [present |-> TRUE, count |-> seen[w].count, mode |-> seen[w].mode,
          approximate |-> seen[w].approximate, status |-> "stale"]
    ELSE [present |-> TRUE, count |-> answer[w], mode |-> Mode(w),
          approximate |-> w = Refresher, status |-> "ok"]

\* A column is written only if its value differs from the one that was read.
Column(old, new, now) == IF new = old THEN now ELSE new

MergedWhole(w) == Wanted(w)

Merged(w) ==
  LET old == seen[w]
      new == Wanted(w)
  IN [present |-> TRUE,
      count |-> Column(old.count, new.count, cache.count),
      mode |-> Column(old.mode, new.mode, cache.mode),
      approximate |-> Column(old.approximate, new.approximate, cache.approximate),
      status |-> Column(old.status, new.status, cache.status)]

Init ==
  /\ source \in Counts
  /\ staged = NoCount
  /\ latest = 0
  /\ stamps = [r \in Runs |-> NoStamp]
  /\ cache = NoRow
  /\ at = [w \in Writers |-> "idle"]
  /\ run = [w \in Writers |-> 0]
  /\ target = [w \in Writers |-> NoCount]
  /\ answer = [w \in Writers |-> NoCount]
  /\ seen = [w \in Writers |-> NoRow]
  /\ mixed = FALSE
  /\ sure = {}
  /\ confirmed = {}

Go(w, stage) == at' = [at EXCEPT ![w] = stage]

Rest(w) ==
  /\ Go(w, "idle")
  /\ run' = [run EXCEPT ![w] = 0]
  /\ target' = [target EXCEPT ![w] = NoCount]
  /\ answer' = [answer EXCEPT ![w] = NoCount]
  /\ seen' = [seen EXCEPT ![w] = NoRow]
  /\ sure' = sure \ {w}

-----------------------------------------------------------------------------
(* A verifier: perform_verify.  VerdictByMode, WantedLabel and MergedWhole *)
(* are bugs for the properties to notice; no action contains them.         *)

Pick(v) ==
  /\ at[v] = "idle"
  /\ Go(v, "picked")
  /\ run' = [run EXCEPT ![v] = latest]
  /\ sure' = IF \A x \in Verifiers : at[x] = "idle" THEN {v} ELSE {}
  /\ UNCHANGED <<environment, stamps, cache, target, answer, seen, mixed, confirmed>>

\* _count_target: any error is a missing table.
CountTarget(v) ==
  /\ at[v] = "picked"
  /\ Go(v, "counted")
  /\ \E rows \in {staged, NoCount} : target' = [target EXCEPT ![v] = rows]
  /\ UNCHANGED <<environment, stamps, cache, run, answer, seen, ghosts>>

\* exact_oracle_count
AskExact(v) ==
  /\ at[v] = "counted"
  /\ Go(v, "asked")
  /\ \E rows \in {source, NoCount} :
       /\ answer' = [answer EXCEPT ![v] = rows]
       /\ confirmed' = confirmed \cup ({rows} \cap Counts)
       /\ sure' = IF rows = NoCount THEN sure \ {v} ELSE sure
  /\ UNCHANGED <<environment, stamps, cache, picked, seen, mixed>>

\* estimate_oracle_counts
AskEstimate ==
  /\ at[Refresher] = "idle"
  /\ Go(Refresher, "asked")
  /\ \E rows \in Maybe : answer' = [answer EXCEPT ![Refresher] = rows]
  /\ UNCHANGED <<environment, stamps, cache, picked, seen, ghosts>>

\* The read of the cache row in upsert_source_count.
Mixing(w) ==
  /\ answer[w] # NoCount
  /\ \E x \in Writers :
       at[x] = "loaded" /\ answer[x] # NoCount /\ Mode(x) # Mode(w)

Load(w) ==
  /\ at[w] = "asked"
  /\ Go(w, "loaded")
  /\ seen' = [seen EXCEPT ![w] = cache]
  /\ mixed' = (mixed \/ Mixing(w))
  /\ sure' = IF Mixing(w) THEN {} ELSE sure
  /\ UNCHANGED <<environment, stamps, cache, picked, answer, confirmed>>

\* Its commit, after which SQLAlchemy forgets what it has read.
Write(w) ==
  /\ at[w] = "loaded"
  /\ seen[w].present \/ ~cache.present
  /\ cache' = Merged(w)
  /\ IF w = Refresher THEN Rest(w)
     ELSE /\ Go(w, "written")
          /\ answer' = [answer EXCEPT ![w] = NoCount]
          /\ seen' = [seen EXCEPT ![w] = NoRow]
          /\ UNCHANGED <<picked, sure>>
  /\ UNCHANGED <<environment, stamps, mixed, confirmed>>

\* Two have found no row and insert one: the second violates the unique key.
Conflict(w) ==
  /\ at[w] = "loaded"
  /\ ~seen[w].present /\ cache.present
  /\ Rest(w)
  /\ UNCHANGED <<environment, stamps, cache, mixed, confirmed>>

\* The refresh of the row in upsert_source_count.
Reread(v) ==
  /\ at[v] = "written"
  /\ Go(v, "read")
  /\ seen' = [seen EXCEPT ![v] = cache]
  /\ UNCHANGED <<environment, stamps, cache, picked, answer, ghosts>>

Judge(v) ==
  /\ at[v] = "read"
  /\ LET verdict == Verdict(seen[v], target[v])
     IN stamps' = IF Recorded(verdict, run[v])
                    THEN [stamps EXCEPT ![run[v]] =
                            [verdict |-> verdict, source |-> SourceOf(seen[v]),
                             target |-> target[v]]]
                    ELSE stamps
  /\ Rest(v)
  /\ UNCHANGED <<environment, cache, mixed, confirmed>>

\* A statement raises, or the backend dies.
Abort(w) ==
  /\ at[w] # "idle"
  /\ Rest(w)
  /\ UNCHANGED <<environment, stamps, cache, mixed, confirmed>>

-----------------------------------------------------------------------------
(* The environment: JDE, loads and streaming, and new runs of the table.   *)

SourceChanges ==
  /\ source' \in Counts
  /\ sure' = {}
  /\ UNCHANGED <<staged, latest, stamps, cache, at, picked, answer, seen, mixed, confirmed>>

StagedChanges ==
  /\ staged' \in Maybe
  /\ sure' = {}
  /\ UNCHANGED <<source, latest, stamps, cache, at, picked, answer, seen, mixed, confirmed>>

NewRun ==
  /\ latest < MaxRuns
  /\ latest' = latest + 1
  /\ sure' = {}
  /\ UNCHANGED <<source, staged, stamps, cache, at, picked, answer, seen, mixed, confirmed>>

Upsert(w) == Load(w) \/ Write(w) \/ Conflict(w) \/ Abort(w)

Verify(v) ==
  Pick(v) \/ CountTarget(v) \/ AskExact(v) \/ Reread(v) \/ Judge(v)

Next ==
  \/ \E v \in Verifiers : Verify(v)
  \/ AskEstimate
  \/ \E w \in Writers : Upsert(w)
  \/ SourceChanges \/ StagedChanges \/ NewRun

Spec == Init /\ [][Next]_vars

-----------------------------------------------------------------------------
TypeOK ==
  /\ source \in Counts
  /\ staged \in Maybe
  /\ latest \in 0..MaxRuns
  /\ stamps \in [Runs -> Stamp]
  /\ cache \in CacheRow
  /\ at \in [Writers -> Stages]
  /\ run \in [Writers -> 0..MaxRuns]
  /\ target \in [Writers -> Maybe]
  /\ answer \in [Writers -> Maybe]
  /\ seen \in [Writers -> CacheRow]
  /\ mixed \in BOOLEAN
  /\ sure \subseteq Verifiers
  /\ confirmed \subseteq Counts

(***************************************************************************)
(* A cached number that counts as exact was once returned by an exact      *)
(* count, whatever failures, estimates and other verifies came before and  *)
(* since; unless an estimate and an exact count met between reading the    *)
(* row and writing it, when each writes only the columns it has changed.   *)
(***************************************************************************)
ExactIsConfirmed ==
  ~mixed /\ IsExact(cache) => cache.count \in confirmed

(***************************************************************************)
(* A failure at Oracle never wipes a usable number, and never turns it     *)
(* into another or an estimate into an exact number (the docstring of      *)
(* upsert_source_count), even if other writers come in between.            *)
(***************************************************************************)
FailureKeepsCount ==
  [][\A w \in Writers :
       /\ at[w] = "loaded" /\ at'[w] # "loaded"
       /\ answer[w] = NoCount /\ cache.present
       => /\ cache'.count = cache.count
          /\ IsExact(cache') = IsExact(cache)]_vars

(***************************************************************************)
(* A verify whose count at Oracle succeeded, and during which no other     *)
(* verify, new run or change of the view or the table came, stamps nothing *)
(* but the truth, and on the latest run, even if the refresher writes      *)
(* estimates at any time (unless the two mixed).  Only the source count    *)
(* may be missing: the refresher can mark the row stale before its reread. *)
(***************************************************************************)
StampsAreTrue ==
  [][\A v \in sure :
       stamps' # stamps =>
         \E shown \in {source, NoCount} :
           stamps' = [stamps EXCEPT ![latest] =
                        [verdict |-> IF source = staged THEN "MATCH" ELSE "MISMATCH",
                         source |-> shown, target |-> staged]]]_vars

(***************************************************************************)
(* The inductive invariants behind ExactIsConfirmed and StampsAreTrue: what *)
(* may happen to the cache row between a read and the write after it.      *)
(***************************************************************************)
Writing(w) == at[w] = "loaded" /\ answer[w] # NoCount

SameLabel(a, b) == a.mode = b.mode /\ a.approximate = b.approximate

WriteInv ==
  /\ \A v \in Verifiers : answer[v] # NoCount => answer[v] \in confirmed
  /\ ExactIsConfirmed
  /\ ~mixed /\ Writing(Refresher) =>
       /\ \A v \in Verifiers : ~Writing(v)
       /\ SameLabel(seen[Refresher], cache)
  /\ ~mixed =>
       \A v \in Verifiers :
         Writing(v) => cache.count = seen[v].count \/ cache.count \in confirmed

SureOf(v) ==
  /\ at[v] # "idle" /\ run[v] = latest
  /\ \A x \in Verifiers : x # v => at[x] = "idle"
  /\ at[v] # "picked" => target[v] \in {staged, NoCount}
  /\ at[v] \in {"asked", "loaded"} => answer[v] = source
  /\ at[v] = "loaded" =>
       /\ ~Writing(Refresher)
       /\ seen[v].count = cache.count /\ SameLabel(seen[v], cache)
  /\ at[v] = "written" =>
       /\ IsExact(cache) => cache.count = source
       /\ Writing(Refresher) => SameLabel(seen[Refresher], cache)
  /\ at[v] = "read" /\ IsExact(seen[v]) => seen[v].count = source

SureInv == \A v \in sure : SureOf(v)
=============================================================================
