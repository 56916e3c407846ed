---------------------------- MODULE VerifyQueue ----------------------------
(***************************************************************************)
(* The queue that verifies many tables one after the other: a request      *)
(* registers a batch, makes sure that the worker thread exists and puts    *)
(* its tables in the queue; the worker takes them one at a time and writes *)
(* their status into the batch, which the client polls.                    *)
(*                                                                         *)
(* Requests are numbered in the order in which they register, which is the *)
(* order of _status; a batch has the number of its request, and a worker   *)
(* thread that of the request that started it.                             *)
(***************************************************************************)
EXTENDS Naturals, FiniteSets, Sequences, Functions

CONSTANTS
  Known,           \* names that are in the catalog
  Unknown,         \* names that are not
  MaxRequests,     \* bound on the requests made
  MaxNames,        \* bound on the names of a request
  MaxBatches       \* _MAX_BATCHES

ASSUME MaxRequestsAssumption == MaxRequests \in Nat
ASSUME MaxNamesAssumption == MaxNames \in Nat
ASSUME MaxBatchesAssumption == MaxBatches \in Nat \ {0}
ASSUME NamesAssumption == Known \cap Unknown = {}

Names == Known \cup Unknown
Requests == 1..MaxRequests

VARIABLES
  caller,          \* how far the handler of each request has come
  order,           \* the names of each batch, in order
  put,             \* how many of them are in the queue
  listed,          \* the batches in _status
  status,          \* the status of each name in each batch
  queue,           \* _q
  thread,          \* where each worker thread is
  job              \* the job it has taken

requests == <<caller, order, put>>
workers == <<thread, job>>
vars == <<requests, listed, status, queue, workers>>

-----------------------------------------------------------------------------
Jobs == Requests \X Names
NoJob == <<>>

Ended == {"done", "error"}

Absent == [n \in Names |-> "absent"]

\* The lists that are left of a request without its repetitions; verify_batch
\* refuses one without a name.
Orders == UNION {Injection(1..n, Names) : n \in 1..MaxNames}

NamesOf(b) == Range(order[b])

Finished(b) == \A n \in NamesOf(b) : status[b][n] \in Ended

\* The oldest batches of a set go until no more than _MAX_BATCHES are left.
OldestOf(batches, all) ==
  {b \in batches :
     Cardinality({a \in batches : a <= b}) + MaxBatches <= Cardinality(all)}

EvictedUpToPending(all) ==
  {b \in OldestOf({b \in all \cap listed : Finished(b)}, all) :
     \A a \in all : a < b => Finished(a)}

EvictedAny(all) == OldestOf(all, all)

Evicted(all) == OldestOf({b \in all \cap listed : Finished(b)}, all)

Alive == {w \in Requests : thread[w] # "none"}

\* _set_table: a batch that is gone keeps no status.
SetStatus(b, n, s) ==
  status' = IF b \in listed THEN [status EXCEPT ![b][n] = s] ELSE status

Init ==
  /\ caller = [r \in Requests |-> "none"]
  /\ order = [r \in Requests |-> <<>>]
  /\ put = [r \in Requests |-> 0]
  /\ listed = {}
  /\ status = [r \in Requests |-> Absent]
  /\ queue = <<>>
  /\ thread = [w \in Requests |-> "none"]
  /\ job = [w \in Requests |-> NoJob]

-----------------------------------------------------------------------------
(* A request: verify_batch and enqueue_batch.  EvictedUpToPending and      *)
(* EvictedAny above, StartWorker and EndOnError below are bugs for the     *)
(* properties to notice; no action contains them.                          *)

\* The batch is registered, and old ones are evicted, under _lock.
Register(r) ==
  /\ caller[r] = "none"
  /\ \A p \in Requests : p < r => caller[p] # "none"
  /\ caller' = [caller EXCEPT ![r] = "registered"]
  /\ \E names \in Orders :
       /\ order' = [order EXCEPT ![r] = names]
       /\ LET all == listed \cup {r}
              gone == Evicted(all)
          IN /\ listed' = all \ gone
             /\ status' = [b \in Requests |->
                             IF b \in gone THEN Absent
                             ELSE IF b = r
                               THEN [n \in Names |-> IF n \in Range(names)
                                                       THEN "queued" ELSE "absent"]
                               ELSE status[b]]
  /\ UNCHANGED <<put, queue, workers>>

StartWorker(r) ==
  /\ caller[r] = "registered"
  /\ caller' = [caller EXCEPT ![r] = "putting"]
  /\ thread' = [thread EXCEPT ![r] = "waiting"]
  /\ UNCHANGED <<order, put, listed, status, queue, job>>

\* _ensure_worker, under _lock.
EnsureWorker(r) ==
  /\ caller[r] = "registered"
  /\ caller' = [caller EXCEPT ![r] = "putting"]
  /\ thread' = IF Alive = {} THEN [thread EXCEPT ![r] = "waiting"] ELSE thread
  /\ UNCHANGED <<order, put, listed, status, queue, job>>

Put(r) ==
  /\ caller[r] = "putting"
  /\ put' = [put EXCEPT ![r] = put[r] + 1]
  /\ queue' = Append(queue, <<r, order[r][put[r] + 1]>>)
  /\ caller' = IF put'[r] = Len(order[r])
                 THEN [caller EXCEPT ![r] = "returned"] ELSE caller
  /\ UNCHANGED <<order, listed, status, workers>>

-----------------------------------------------------------------------------
(* A worker thread: _worker_loop.                                          *)

Take(w) ==
  /\ thread[w] = "waiting"
  /\ queue # <<>>
  /\ job' = [job EXCEPT ![w] = Head(queue)]
  /\ queue' = Tail(queue)
  /\ thread' = [thread EXCEPT ![w] = "taken"]
  /\ UNCHANGED <<requests, listed, status>>

MarkRunning(w) ==
  /\ thread[w] = "taken"
  /\ SetStatus(job[w][1], job[w][2], "running")
  /\ thread' = [thread EXCEPT ![w] = "verifying"]
  /\ UNCHANGED <<requests, listed, queue, job>>

\* perform_verify returns or raises; an unknown name does not get that far.
Results(n) == IF n \in Known THEN Ended ELSE {"error"}

EndOnError(w) ==
  /\ thread[w] = "verifying"
  /\ \E s \in Results(job[w][2]) :
       /\ SetStatus(job[w][1], job[w][2], s)
       /\ thread' = [thread EXCEPT ![w] = IF s = "error" THEN "none" ELSE "waiting"]
  /\ job' = [job EXCEPT ![w] = NoJob]
  /\ UNCHANGED <<requests, listed, queue>>

Finish(w) ==
  /\ thread[w] = "verifying"
  /\ \E s \in Results(job[w][2]) : SetStatus(job[w][1], job[w][2], s)
  /\ thread' = [thread EXCEPT ![w] = "waiting"]
  /\ job' = [job EXCEPT ![w] = NoJob]
  /\ UNCHANGED <<requests, listed, queue>>

\* The backend dies and comes back without its memory.
Crash ==
  /\ listed # {}
  /\ caller' = [r \in Requests |-> IF caller[r] = "none" THEN "none" ELSE "lost"]
  /\ order' = [r \in Requests |-> <<>>]
  /\ put' = [r \in Requests |-> 0]
  /\ listed' = {}
  /\ status' = [r \in Requests |-> Absent]
  /\ queue' = <<>>
  /\ thread' = [w \in Requests |-> "none"]
  /\ job' = [w \in Requests |-> NoJob]

Handle(r) == EnsureWorker(r) \/ Put(r)

Work(w) == Take(w) \/ MarkRunning(w) \/ Finish(w)

Next ==
  \/ \E r \in Requests : Register(r) \/ Handle(r) \/ Work(r)
  \/ Crash

Spec == Init /\ [][Next]_vars

(***************************************************************************)
(* A handler that has registered its batch goes on, and so does a worker   *)
(* thread, whose count at Oracle ends some time; requests need not come.   *)
(***************************************************************************)
Fairness == \A r \in Requests : WF_vars(Handle(r)) /\ WF_vars(Work(r))

FairSpec == Spec /\ Fairness

-----------------------------------------------------------------------------
TypeOK ==
  /\ caller \in [Requests -> {"none", "registered", "putting", "returned", "lost"}]
  /\ order \in [Requests -> Seq(Names)]
  /\ put \in [Requests -> 0..MaxNames]
  /\ listed \subseteq Requests
  /\ status \in [Requests -> [Names -> {"absent", "queued", "running"} \cup Ended]]
  /\ queue \in Seq(Jobs)
  /\ thread \in [Requests -> {"none", "waiting", "taken", "verifying"}]
  /\ job \in [Requests -> Jobs \cup {NoJob}]

\* What the client is shown of a job: its batch, and a status that is not final.
ShownPending(j) ==
  j[1] \in listed /\ status[j[1]][j[2]] \in {"queued", "running"}

(***************************************************************************)
(* Eviction never drops the status of in-flight work (the comment in       *)
(* enqueue_batch): as long as a job is to be put, queued or taken, its     *)
(* batch is in _status and shows it queued or running.                     *)
(***************************************************************************)
PendingIsListed ==
  /\ \A r \in Requests : caller[r] \in {"registered", "putting"} =>
       \A i \in (put[r] + 1)..Len(order[r]) : ShownPending(<<r, order[r][i]>>)
  /\ \A i \in 1..Len(queue) : ShownPending(queue[i])
  /\ \A w \in Requests : job[w] # NoJob => ShownPending(job[w])

(***************************************************************************)
(* The tables of a batch are verified one at a time, in the order they     *)
(* were asked for, however handlers and the worker interleave.             *)
(***************************************************************************)
VerifiedInOrder ==
  \A b \in listed : \A i, j \in 1..Len(order[b]) :
    i < j /\ status[b][order[b][j]] # "queued" => status[b][order[b][i]] \in Ended

(***************************************************************************)
(* _status outgrows _MAX_BATCHES only by unfinished batches: when it does, *)
(* the registration that made it do so has left no finished one in it.     *)
(***************************************************************************)
OverfullOnlyOfPending ==
  [][listed' \ listed # {} =>
       \/ Cardinality(listed') <= MaxBatches
       \/ \A b \in listed' : ~Finished(b)']_vars

(***************************************************************************)
(* A client that polls a batch sees it finished some time, whatever other  *)
(* batches and bad tables do to the queue, unless the backend dies or a    *)
(* later registration evicts the finished batch between two polls.         *)
(***************************************************************************)
BatchFinishes ==
  \A r \in Requests :
    r \in listed ~> (r \in listed /\ Finished(r)) \/ caller[r] = "lost"

(***************************************************************************)
(* The inductive invariant behind PendingIsListed: every job is in one     *)
(* place only, still to be put, in the queue, or with one worker.          *)
(***************************************************************************)
BatchInv(r) ==
  /\ IsInjective(order[r]) /\ put[r] <= Len(order[r]) /\ Len(order[r]) <= MaxNames
  /\ caller[r] \in {"none", "registered"} => put[r] = 0
  /\ caller[r] \in {"registered", "putting"} => put[r] < Len(order[r])
  /\ r \in listed => caller[r] # "none"

WorkerInv(w) == thread[w] \in {"taken", "verifying"} <=> job[w] # NoJob

\* A job that has been put, and not yet taken or not yet ended.
WasPut(j) == \E k \in 1..put[j[1]] : j[2] = order[j[1]][k]

JobsInv ==
  /\ \A i \in 1..Len(queue) : WasPut(queue[i])
  /\ \A i, j \in 1..Len(queue) : queue[i] = queue[j] => i = j
  /\ \A w \in Requests : job[w] # NoJob =>
       /\ WasPut(job[w])
       /\ \A i \in 1..Len(queue) : queue[i] # job[w]
       /\ \A x \in Requests : job[x] = job[w] => x = w
PendingInv ==
  /\ PendingIsListed
  /\ JobsInv
  /\ \A r \in Requests : BatchInv(r) /\ WorkerInv(r)

(***************************************************************************)
(* The inductive invariants behind VerifiedInOrder.  There is one worker,  *)
(* and behind a job in the queue, or with the worker, wait all those of    *)
(* its batch that were put after it; the status of a job follows from      *)
(* where it is: a job that is nowhere any more has ended.                  *)
(***************************************************************************)
JobAt(b, k) == <<b, order[b][k]>>

Behind(i, b, k) ==
  \A l \in (k + 1)..put[b] : \E m \in (i + 1)..Len(queue) : queue[m] = JobAt(b, l)

Queued(j) == \E i \in 1..Len(queue) : queue[i] = j

OneWorker == \A v, w \in Alive : v = w

OrderInv ==
  \A b \in Requests : \A k \in 1..put[b] :
    /\ \A i \in 1..Len(queue) : queue[i] = JobAt(b, k) => Behind(i, b, k)
    /\ \A w \in Requests : job[w] = JobAt(b, k) => Behind(0, b, k)

StatusInv ==
  \A b \in listed : \A k \in 1..Len(order[b]) :
    /\ k > put[b] \/ Queued(JobAt(b, k)) => status[b][order[b][k]] = "queued"
    /\ \/ k > put[b]
       \/ Queued(JobAt(b, k))
       \/ \E w \in Requests : job[w] = JobAt(b, k)
       \/ status[b][order[b][k]] \in Ended
=============================================================================
