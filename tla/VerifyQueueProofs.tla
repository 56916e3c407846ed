--------------------------- MODULE VerifyQueueProofs ---------------------------
(***************************************************************************)
(* Theorems about VerifyQueue, for any number of requests and names and    *)
(* any limit of batches: its type invariant, that eviction never drops the *)
(* status of work in flight and leaves no finished batch in a _status that *)
(* outgrows its limit, and that a batch is verified in its order.          *)
(***************************************************************************)
EXTENDS VerifyQueue, SequenceTheorems, FiniteSetTheorems, NaturalsInduction,
        WellFoundedInduction, TLAPS

Statuses == {"absent", "queued", "running"} \cup Ended

LEMMA OrderTypes ==
  ASSUME NEW names \in Orders
  PROVE  /\ names \in Seq(Names) /\ IsInjective(names)
         /\ Len(names) \in 1..MaxNames
<1>1. PICK n \in 1..MaxNames : names \in Injection(1..n, Names)
  BY DEF Orders
<1>2. names \in [1..n -> Names] /\ IsInjective(names) /\ n \in Nat
  BY <1>1, MaxNamesAssumption DEF Injection
<1>3. names \in Seq(Names) /\ Len(names) = n
  BY <1>2
<1> QED
  BY <1>1, <1>2, <1>3

LEMMA JobIsJob == NoJob \notin Jobs
<1> SUFFICES ASSUME NoJob \in Jobs PROVE FALSE
  OBVIOUS
<1>1. PICK r \in Requests, n \in Names : NoJob = <<r, n>>
  BY DEF Jobs
<1>2. Len(NoJob) = 0 /\ Len(<<r, n>>) = 2
  BY DEF NoJob
<1> QED
  BY <1>1, <1>2

LEMMA StatusSet ==
  ASSUME status \in [Requests -> [Names -> Statuses]],
         NEW b \in Requests, NEW n \in Names, NEW s \in Statuses, SetStatus(b, n, s)
  PROVE  /\ status' \in [Requests -> [Names -> Statuses]]
         /\ \A r \in Requests : \A m \in Names :
              r # b \/ m # n => status'[r][m] = status[r][m]
         /\ b \in listed => status'[b][n] = s
<1>1. CASE b \in listed
  <2>1. status' = [status EXCEPT ![b] = [status[b] EXCEPT ![n] = s]]
    BY <1>1 DEF SetStatus
  <2>2. status[b] \in [Names -> Statuses]
    OBVIOUS
  <2>3. [status[b] EXCEPT ![n] = s] \in [Names -> Statuses]
    BY <2>2
  <2>4. status'[b] = [status[b] EXCEPT ![n] = s]
    BY <2>1
  <2>5. \A r \in Requests : r # b => status'[r] = status[r]
    BY <2>1
  <2>6. status' \in [Requests -> [Names -> Statuses]]
    BY <2>1, <2>3
  <2> QED
    BY <2>2, <2>4, <2>5, <2>6
<1>2. CASE b \notin listed
  BY <1>2 DEF SetStatus
<1> QED
  BY <1>1, <1>2

-----------------------------------------------------------------------------
(* TypeOK is an invariant: what the variables of VerifyQueue may hold.     *)
(* The names a handler has put are counted up to those of its batch, so    *)
(* BatchInv goes with it; a worker has a job when it works on one.         *)

ITyped == TypeOK /\ \A r \in Requests : BatchInv(r) /\ WorkerInv(r)

LEMMA EmptyBatch ==
  /\ <<>> \in Seq(Names) /\ Len(<<>>) = 0 /\ IsInjective(<<>>)
  /\ 0 \in 0..MaxNames
  /\ Absent \in [Names -> Statuses]
BY MaxNamesAssumption DEF IsInjective, Absent, Statuses

LEMMA TypedInductive == ITyped /\ [Next]_vars => ITyped'
<1> SUFFICES ASSUME TypeOK, \A r \in Requests : BatchInv(r) /\ WorkerInv(r), [Next]_vars
             PROVE  TypeOK' /\ \A r \in Requests : BatchInv(r)' /\ WorkerInv(r)'
  BY DEF ITyped
<1>a. status \in [Requests -> [Names -> Statuses]]
  BY DEF TypeOK, Statuses
<1>b. Ended \subseteq Statuses /\ {"queued", "running", "absent"} \subseteq Statuses
  BY DEF Ended, Statuses
<1>c. \A r \in Requests : Len(order[r]) \in Nat /\ order[r] \in Seq(Names) /\ put[r] \in Nat
  BY MaxNamesAssumption DEF TypeOK
<1>1. ASSUME NEW r \in Requests, Register(r)
      PROVE  TypeOK' /\ \A q \in Requests : BatchInv(q)' /\ WorkerInv(q)'
  <2> DEFINE all == listed \cup {r}
             gone == Evicted(all)
  <2>1. PICK names \in Orders :
          /\ order' = [order EXCEPT ![r] = names]
          /\ listed' = all \ gone
          /\ status' = [b \in Requests |->
                          IF b \in gone THEN Absent
                          ELSE IF b = r
                            THEN [n \in Names |-> IF n \in Range(names)
                                                    THEN "queued" ELSE "absent"]
                            ELSE status[b]]
    BY <1>1 DEF Register
  <2>2. names \in Seq(Names) /\ IsInjective(names) /\ Len(names) \in 1..MaxNames
    BY OrderTypes
  <2>3. caller[r] = "none" /\ caller' = [caller EXCEPT ![r] = "registered"]
        /\ UNCHANGED <<put, queue, thread, job>>
    BY <1>1 DEF Register, workers
  <2> HIDE DEF gone
  <2>4. [n \in Names |-> IF n \in Range(names) THEN "queued" ELSE "absent"]
          \in [Names -> Statuses]
    BY <1>b
  <2>5. status' \in [Requests -> [Names -> Statuses]]
    BY <1>a, <2>1, <2>4, EmptyBatch
  <2>6. TypeOK'
    BY <2>1, <2>2, <2>3, <2>5 DEF TypeOK, Statuses
  <2>7. ASSUME NEW q \in Requests PROVE BatchInv(q)'
    <3>1. CASE q = r
      BY <2>1, <2>2, <2>3, <3>1 DEF BatchInv, TypeOK
    <3>2. CASE q # r
      BY <2>1, <2>3, <3>2 DEF BatchInv, TypeOK
    <3> QED
      BY <3>1, <3>2
  <2>8. \A q \in Requests : WorkerInv(q)'
    BY <2>3 DEF WorkerInv
  <2> QED
    BY <2>6, <2>7, <2>8
<1>2. ASSUME NEW r \in Requests, EnsureWorker(r)
      PROVE  TypeOK' /\ \A q \in Requests : BatchInv(q)' /\ WorkerInv(q)'
  <2>1. TypeOK'
    BY <1>2 DEF EnsureWorker, TypeOK
  <2>2. \A q \in Requests : BatchInv(q)'
    BY <1>2 DEF EnsureWorker, TypeOK, BatchInv
  <2>3. \A q \in Requests : WorkerInv(q)'
    BY <1>2 DEF EnsureWorker, TypeOK, WorkerInv, Alive
  <2> QED
    BY <2>1, <2>2, <2>3
<1>3. ASSUME NEW r \in Requests, Put(r)
      PROVE  TypeOK' /\ \A q \in Requests : BatchInv(q)' /\ WorkerInv(q)'
  <2>1. /\ caller[r] = "putting" /\ put[r] < Len(order[r])
        /\ put' = [put EXCEPT ![r] = put[r] + 1]
        /\ caller' = IF put'[r] = Len(order[r])
                       THEN [caller EXCEPT ![r] = "returned"] ELSE caller
        /\ UNCHANGED <<order, listed, status, thread, job>>
    BY <1>3 DEF Put, BatchInv, workers
  <2>2. \A q \in Requests : BatchInv(q)'
    BY <1>c, <2>1 DEF BatchInv, TypeOK
  <2>3. <<r, order[r][put[r] + 1]>> \in Jobs
    BY <1>c, <2>1 DEF Jobs
  <2>4. queue' \in Seq(Jobs)
    BY <1>3, <2>3, AppendProperties DEF Put, TypeOK
  <2>5. put[r] + 1 \in 0..MaxNames
    BY <1>c, <2>1, MaxNamesAssumption DEF TypeOK, BatchInv
  <2>6. \A q \in Requests : WorkerInv(q)'
    BY <2>1 DEF WorkerInv
  <2> QED
    BY <2>1, <2>2, <2>4, <2>5, <2>6 DEF TypeOK
<1>4. ASSUME NEW w \in Requests, Take(w)
      PROVE  TypeOK' /\ \A q \in Requests : BatchInv(q)' /\ WorkerInv(q)'
  <2>1. Head(queue) \in Jobs /\ Tail(queue) \in Seq(Jobs)
    BY <1>4, HeadTailProperties DEF Take, TypeOK
  <2>2. TypeOK'
    BY <1>4, <2>1 DEF Take, TypeOK, requests
  <2>3. \A q \in Requests : BatchInv(q)'
    BY <1>4 DEF Take, BatchInv, requests
  <2>4. \A q \in Requests : WorkerInv(q)'
    BY <1>4, <2>1, JobIsJob DEF Take, TypeOK, WorkerInv
  <2> QED
    BY <2>2, <2>3, <2>4
<1>5. ASSUME NEW w \in Requests, MarkRunning(w) \/ Finish(w)
      PROVE  TypeOK' /\ \A q \in Requests : BatchInv(q)' /\ WorkerInv(q)'
  <2>1. job[w] \in Jobs
    BY <1>5 DEF TypeOK, WorkerInv, MarkRunning, Finish
  <2>2. PICK s \in Statuses : SetStatus(job[w][1], job[w][2], s)
    <3>1. CASE MarkRunning(w)
      BY <1>b, <3>1 DEF MarkRunning
    <3>2. CASE Finish(w)
      <4>1. Results(job[w][2]) \subseteq Statuses
        BY <1>b DEF Results, Ended
      <4> QED
        BY <3>2, <4>1 DEF Finish
    <3> QED
      BY <1>5, <3>1, <3>2
  <2>3. status' \in [Requests -> [Names -> Statuses]]
    BY <1>a, <2>1, <2>2, StatusSet DEF Jobs
  <2>4. TypeOK'
    BY <1>5, <2>3 DEF MarkRunning, Finish, TypeOK, requests, Statuses
  <2>5. \A q \in Requests : BatchInv(q)'
    BY <1>5 DEF MarkRunning, Finish, BatchInv, requests
  <2>6. \A q \in Requests : WorkerInv(q)'
    BY <1>5 DEF MarkRunning, Finish, TypeOK, WorkerInv
  <2> QED
    BY <2>4, <2>5, <2>6
<1>6. ASSUME Crash PROVE TypeOK' /\ \A q \in Requests : BatchInv(q)' /\ WorkerInv(q)'
  <2>1. TypeOK'
    BY <1>6, EmptyBatch DEF Crash, TypeOK, Statuses
  <2>2. \A q \in Requests : BatchInv(q)'
    BY <1>6, EmptyBatch, MaxNamesAssumption DEF Crash, BatchInv, TypeOK
  <2>3. \A q \in Requests : WorkerInv(q)'
    BY <1>6 DEF Crash, WorkerInv
  <2> QED
    BY <2>1, <2>2, <2>3
<1>7. CASE UNCHANGED vars
  BY <1>7 DEF vars, requests, workers, TypeOK, BatchInv, WorkerInv
<1> QED
  BY <1>1, <1>2, <1>3, <1>4, <1>5, <1>6, <1>7 DEF Next, Handle, Work

(***************************************************************************)
(* TypeOK holds in every behaviour of the queue (verify_service), however  *)
(* many requests and names there are.                                      *)
(***************************************************************************)
THEOREM TypeInvariant == Spec => []TypeOK
<1>1. Init => ITyped
  <2> SUFFICES ASSUME Init PROVE ITyped
    OBVIOUS
  <2>1. TypeOK
    BY EmptyBatch DEF Init, TypeOK, Statuses
  <2>2. \A r \in Requests : BatchInv(r)
    BY EmptyBatch, MaxNamesAssumption DEF Init, BatchInv
  <2>3. \A r \in Requests : WorkerInv(r)
    BY DEF Init, WorkerInv
  <2> QED
    BY <2>1, <2>2, <2>3 DEF ITyped
<1>2. ITyped => TypeOK
  BY DEF ITyped
<1> QED
  BY <1>1, <1>2, TypedInductive, PTL DEF Spec

-----------------------------------------------------------------------------
(* PendingIsListed is an invariant.  A job that is pending is in one place *)
(* only (JobsInv), so that nobody else ends it; and since it is one of the *)
(* names of its batch and not ended, its batch is not finished, and so it  *)
(* is not one of those that a registration evicts.                         *)

Shown(j) == j \in Jobs /\ ShownPending(j) /\ j[2] \in NamesOf(j[1])

LEMMA ShownIsUnfinished ==
  ASSUME NEW j, Shown(j) PROVE ~Finished(j[1])
BY DEF Shown, ShownPending, Finished, Ended

\* A name that is still to be put is not the one of a job that has been.
LEMMA PutOnce ==
  ASSUME ITyped, NEW j \in Jobs, WasPut(j),
         NEW r \in Requests, NEW i \in (put[r] + 1)..Len(order[r])
  PROVE  j # <<r, order[r][i]>>
<1> SUFFICES ASSUME j = <<r, order[r][i]>> PROVE FALSE
  OBVIOUS
<1>1. PICK k \in 1..put[r] : order[r][i] = order[r][k]
  BY DEF WasPut
<1>2. put[r] \in Nat /\ put[r] <= Len(order[r]) /\ order[r] \in Seq(Names)
      /\ IsInjective(order[r])
  BY MaxNamesAssumption DEF ITyped, TypeOK, BatchInv
<1>3. i \in DOMAIN order[r] /\ k \in DOMAIN order[r] /\ i # k
  BY <1>2
<1> QED
  BY <1>1, <1>2, <1>3 DEF IsInjective

\* What was put, and what is still to be put, is one of the names of its batch.
LEMMA JobsAreNamed ==
  ASSUME ITyped
  PROVE  /\ \A j \in Jobs : WasPut(j) => j[2] \in NamesOf(j[1])
         /\ \A r \in Requests : \A i \in (put[r] + 1)..Len(order[r]) :
              <<r, order[r][i]>> \in Jobs /\ order[r][i] \in NamesOf(r)
<1>1. \A r \in Requests : put[r] \in Nat /\ put[r] <= Len(order[r])
                             /\ order[r] \in Seq(Names)
  BY MaxNamesAssumption DEF ITyped, TypeOK, BatchInv
<1>2. ASSUME NEW j \in Jobs, WasPut(j) PROVE j[2] \in NamesOf(j[1])
  <2>1. j[1] \in Requests
    BY DEF Jobs
  <2>2. PICK k \in 1..put[j[1]] : j[2] = order[j[1]][k]
    BY <1>2 DEF WasPut
  <2>3. k \in DOMAIN order[j[1]]
    BY <1>1, <2>1
  <2> QED
    BY <2>2, <2>3 DEF NamesOf, Range
<1>3. ASSUME NEW r \in Requests, NEW i \in (put[r] + 1)..Len(order[r])
      PROVE  <<r, order[r][i]>> \in Jobs /\ order[r][i] \in NamesOf(r)
  <2>1. i \in DOMAIN order[r] /\ order[r][i] \in Names
    BY <1>1
  <2> QED
    BY <2>1 DEF NamesOf, Range, Jobs
<1> QED
  BY <1>2, <1>3

\* The three places of a pending job, as facts about Shown.
LEMMA PendingIsShown ==
  ASSUME ITyped, PendingInv
  PROVE  /\ \A r \in Requests : caller[r] \in {"registered", "putting"} =>
              \A i \in (put[r] + 1)..Len(order[r]) : Shown(<<r, order[r][i]>>)
         /\ \A i \in 1..Len(queue) : Shown(queue[i])
         /\ \A w \in Requests : job[w] # NoJob => Shown(job[w])
<1>1. \A i \in 1..Len(queue) : queue[i] \in Jobs
  BY DEF ITyped, TypeOK
<1>2. \A w \in Requests : job[w] # NoJob => job[w] \in Jobs
  BY DEF ITyped, TypeOK
<1> QED
  BY <1>1, <1>2, JobsAreNamed DEF PendingInv, PendingIsListed, JobsInv, Shown

LEMMA RegisterKeepsPending ==
  ASSUME ITyped, PendingInv, NEW r \in Requests, Register(r)
  PROVE  PendingIsListed' /\ JobsInv'
<1> DEFINE all == listed \cup {r}
           gone == Evicted(all)
<1>1. PICK names \in Orders :
        /\ order' = [order EXCEPT ![r] = names]
        /\ listed' = all \ gone
        /\ status' = [b \in Requests |->
                        IF b \in gone THEN Absent
                        ELSE IF b = r
                          THEN [n \in Names |-> IF n \in Range(names)
                                                  THEN "queued" ELSE "absent"]
                          ELSE status[b]]
  BY DEF Register
<1>2. names \in Seq(Names)
  BY OrderTypes
<1>3. caller[r] = "none" /\ caller' = [caller EXCEPT ![r] = "registered"]
      /\ UNCHANGED <<put, queue, thread, job>>
  BY DEF Register, workers
<1>4. put[r] = 0 /\ r \notin listed
  BY <1>3 DEF ITyped, BatchInv
<1>5. \A b \in gone : b \in listed /\ Finished(b)
  BY DEF Evicted, OldestOf
<1>6. r \notin gone
  BY <1>4, <1>5
<1> HIDE DEF gone
<1>7. ASSUME NEW j, Shown(j), j[1] # r PROVE ShownPending(j)'
  <2>1. j[1] \notin gone
    BY <1>5, <1>7, ShownIsUnfinished
  <2>2. j[1] \in Requests /\ j[1] \in listed
    BY <1>7 DEF Shown, ShownPending, Jobs
  <2>3. j[1] \in listed' /\ status'[j[1]] = status[j[1]]
    BY <1>1, <1>7, <2>1, <2>2
  <2> QED
    BY <1>7, <2>3 DEF Shown, ShownPending
<1>8. ASSUME NEW j \in Jobs, WasPut(j) PROVE j[1] # r /\ WasPut(j)'
  <2>1. j[1] # r
    BY <1>4, <1>8 DEF WasPut
  <2>2. order'[j[1]] = order[j[1]]
    BY <1>1, <2>1 DEF ITyped, TypeOK, Jobs
  <2> QED
    BY <1>3, <1>8, <2>1, <2>2 DEF WasPut
<1>9. \A i \in 1..Len(queue) : queue[i] \in Jobs
  BY DEF ITyped, TypeOK
<1>10. \A w \in Requests : job[w] # NoJob => job[w] \in Jobs
  BY DEF ITyped, TypeOK
<1>11. ASSUME NEW q \in Requests, caller'[q] \in {"registered", "putting"},
              NEW i \in (put'[q] + 1)..Len(order'[q])
       PROVE  ShownPending(<<q, order[q][i]>>)'
  <2>1. CASE q = r
    <3>1. order'[r] = names /\ i \in 1..Len(names)
      BY <1>1, <1>3, <1>4, <1>11, <2>1 DEF ITyped, TypeOK
    <3>2. names[i] \in Range(names) /\ names[i] \in Names
      BY <1>2, <3>1 DEF Range
    <3>3. r \in listed' /\ status'[r][names[i]] = "queued"
      BY <1>1, <1>6, <3>2
    <3> QED
      BY <2>1, <3>1, <3>3 DEF ShownPending
  <2>2. CASE q # r
    <3>1. order'[q] = order[q] /\ put'[q] = put[q] /\ caller'[q] = caller[q]
      BY <1>1, <1>3, <2>2 DEF ITyped, TypeOK
    <3>2. Shown(<<q, order[q][i]>>)
      BY <1>11, <3>1, PendingIsShown
    <3>3. ShownPending(<<q, order[q][i]>>)'
      BY <1>7, <2>2, <3>1, <3>2 DEF ShownPending
    <3> QED
      BY <3>3
  <2> QED
    BY <2>1, <2>2
<1>12. PendingIsListed'
  <2>1. \A i \in 1..Len(queue') : ShownPending(queue[i])'
    BY <1>3, <1>7, <1>8, <1>9, PendingIsShown DEF PendingInv, JobsInv, ShownPending
  <2>2. \A w \in Requests : job'[w] # NoJob => ShownPending(job[w])'
    BY <1>3, <1>7, <1>8, <1>10, PendingIsShown DEF PendingInv, JobsInv, ShownPending
  <2> QED
    BY <1>11, <2>1, <2>2 DEF PendingIsListed
<1>13. JobsInv'
  BY <1>3, <1>8, <1>9, <1>10 DEF PendingInv, JobsInv, WasPut
<1> QED
  BY <1>12, <1>13

LEMMA PutKeepsPending ==
  ASSUME ITyped, PendingInv, NEW r \in Requests, Put(r)
  PROVE  PendingIsListed' /\ JobsInv'
<1>0. PICK J : J = <<r, order[r][put[r] + 1]>>
  OBVIOUS
<1>1. /\ caller[r] = "putting" /\ put' = [put EXCEPT ![r] = put[r] + 1]
      /\ queue' = Append(queue, J)
      /\ caller' = IF put'[r] = Len(order[r])
                     THEN [caller EXCEPT ![r] = "returned"] ELSE caller
      /\ UNCHANGED <<order, listed, status, thread, job>>
  BY <1>0 DEF Put, workers
<1>2. put[r] \in Nat /\ put[r] < Len(order[r]) /\ Len(order[r]) \in Nat
  BY <1>1, MaxNamesAssumption DEF ITyped, TypeOK, BatchInv
<1>3. \A q \in Requests : put[q] \in Nat /\ put'[q] \in {put[q], put[q] + 1}
  BY <1>1, MaxNamesAssumption DEF ITyped, TypeOK
<1>4. put[r] + 1 \in (put[r] + 1)..Len(order[r])
  BY <1>2
<1>5. Shown(J)
  BY <1>0, <1>1, <1>4, PendingIsShown
<1>6. J \in Jobs
  BY <1>5 DEF Shown
<1>7. queue \in Seq(Jobs) /\ Len(queue') = Len(queue) + 1
      /\ (\A i \in 1..Len(queue) : queue'[i] = queue[i] /\ queue[i] \in Jobs)
      /\ queue'[Len(queue) + 1] = J /\ Len(queue) \in Nat
  BY <1>1, <1>6 DEF ITyped, TypeOK
<1>8. \A j \in Jobs : WasPut(j) => WasPut(j)' /\ j # J
  <2> SUFFICES ASSUME NEW j \in Jobs, WasPut(j) PROVE WasPut(j)' /\ j # J
    OBVIOUS
  <2>1. j[1] \in Requests
    BY DEF Jobs
  <2>2. WasPut(j)'
    BY <1>1, <1>3, <2>1 DEF WasPut
  <2>3. j # J
    BY <1>0, <1>4, PutOnce
  <2> QED
    BY <2>2, <2>3
<1>9. WasPut(J)'
  <2>1. put'[r] = put[r] + 1 /\ order' = order
    BY <1>1 DEF ITyped, TypeOK
  <2>2. put[r] + 1 \in 1..put'[r]
    BY <1>2, <2>1
  <2>3. J[1] = r /\ J[2] = order[r][put[r] + 1]
    BY <1>0
  <2> QED
    BY <1>1, <2>1, <2>2, <2>3 DEF WasPut
<1>10. \A j : ShownPending(j) => ShownPending(j)'
  BY <1>1 DEF ShownPending
<1>11. PendingIsListed'
  <2>1. ASSUME NEW q \in Requests, caller'[q] \in {"registered", "putting"},
               NEW i \in (put'[q] + 1)..Len(order'[q])
        PROVE  ShownPending(<<q, order[q][i]>>)'
    <3>1. caller[q] \in {"registered", "putting"}
      BY <1>1, <2>1 DEF ITyped, TypeOK
    <3>2. i \in (put[q] + 1)..Len(order[q])
      BY <1>1, <1>3, <2>1
    <3>3. ShownPending(<<q, order[q][i]>>)
      BY <3>1, <3>2 DEF PendingInv, PendingIsListed
    <3> QED
      BY <1>1, <3>3 DEF ShownPending
  <2>2. ASSUME NEW i \in 1..Len(queue') PROVE ShownPending(queue[i])'
    <3>1. CASE i \in 1..Len(queue)
      BY <1>7, <1>10, <3>1 DEF PendingInv, PendingIsListed, ShownPending
    <3>2. CASE i = Len(queue) + 1
      BY <1>1, <1>5, <1>7, <3>2 DEF Shown, ShownPending
    <3> QED
      BY <1>7, <2>2, <3>1, <3>2
  <2>3. ASSUME NEW w \in Requests, job'[w] # NoJob PROVE ShownPending(job[w])'
    BY <1>1, <2>3 DEF PendingInv, PendingIsListed, ShownPending
  <2> QED
    BY <2>1, <2>2, <2>3 DEF PendingIsListed
<1>12. JobsInv'
  <2>1. \A i \in 1..Len(queue) : queue[i] # J
    BY <1>7, <1>8 DEF PendingInv, JobsInv
  <2>2. \A w \in Requests : job[w] # NoJob => job[w] \in Jobs /\ job[w] # J
    BY <1>8 DEF PendingInv, JobsInv, ITyped, TypeOK
  <2>3. \A i \in 1..Len(queue') : i \in 1..Len(queue) \/ i = Len(queue) + 1
    BY <1>7
  <2>4. ASSUME NEW i \in 1..Len(queue') PROVE WasPut(queue[i])'
    <3>1. CASE i \in 1..Len(queue)
      <4>1. WasPut(queue[i])
        BY <3>1 DEF PendingInv, JobsInv
      <4>2. WasPut(queue[i])'
        BY <1>1, <1>7, <1>8, <3>1, <4>1 DEF WasPut
      <4> QED
        BY <4>2
    <3>2. CASE i = Len(queue) + 1
      BY <1>1, <1>7, <1>9, <3>2 DEF WasPut
    <3> QED
      BY <2>3, <3>1, <3>2
  <2>5. \A i, j \in 1..Len(queue') : queue'[i] = queue'[j] => i = j
    BY <1>7, <2>1, <2>3 DEF PendingInv, JobsInv
  <2>6. ASSUME NEW w \in Requests, job'[w] # NoJob
        PROVE  /\ WasPut(job[w])'
               /\ \A i \in 1..Len(queue') : queue'[i] # job'[w]
               /\ \A x \in Requests : job'[x] = job'[w] => x = w
    <3>1. job' = job /\ job[w] # NoJob /\ job[w] \in Jobs
      BY <1>1, <2>2, <2>6
    <3>2. WasPut(job[w])'
      BY <1>1, <1>8, <3>1 DEF PendingInv, JobsInv, WasPut
    <3>3. \A i \in 1..Len(queue') : queue'[i] # job[w]
      BY <1>7, <2>2, <2>3, <3>1 DEF PendingInv, JobsInv
    <3> QED
      BY <3>1, <3>2, <3>3 DEF PendingInv, JobsInv
  <2> QED
    BY <2>4, <2>5, <2>6 DEF JobsInv
<1> QED
  BY <1>11, <1>12

LEMMA TakeKeepsPending ==
  ASSUME ITyped, PendingInv, NEW w \in Requests, Take(w)
  PROVE  PendingIsListed' /\ JobsInv'
<1>1. /\ queue \in Seq(Jobs) /\ queue # <<>>
      /\ queue' = Tail(queue)
      /\ job' = [job EXCEPT ![w] = Head(queue)]
      /\ UNCHANGED <<caller, order, put, listed, status>>
  BY DEF Take, ITyped, TypeOK, requests
<1>2. /\ Len(queue) \in Nat /\ 1 \in 1..Len(queue)
      /\ Len(queue') = Len(queue) - 1
      /\ \A i \in 1..Len(queue') : i + 1 \in 1..Len(queue) /\ queue'[i] = queue[i + 1]
                                    /\ i + 1 # 1
  BY <1>1
<1>3. job'[w] = queue[1] /\ \A x \in Requests : x # w => job'[x] = job[x]
  BY <1>1 DEF ITyped, TypeOK
<1>4. job[w] = NoJob
  BY DEF ITyped, WorkerInv, Take
<1>5. queue[1] # NoJob
  BY <1>1, <1>2, JobIsJob
<1>6. \A x \in Requests : x # w /\ job[x] # NoJob => job[x] # queue[1]
  BY <1>2 DEF PendingInv, JobsInv
<1>7. PendingIsListed'
  <2>1. \A i \in 1..Len(queue') : ShownPending(queue[i])'
    BY <1>1, <1>2 DEF PendingInv, PendingIsListed, ShownPending
  <2>2. \A x \in Requests : job'[x] # NoJob => ShownPending(job[x])'
    BY <1>1, <1>2, <1>3 DEF PendingInv, PendingIsListed, ShownPending
  <2> QED
    BY <1>1, <2>1, <2>2 DEF PendingInv, PendingIsListed, ShownPending
<1>8. JobsInv'
  <2>1. \A i \in 1..Len(queue') : WasPut(queue[i])'
    BY <1>1, <1>2 DEF PendingInv, JobsInv, WasPut
  <2>2. \A i, j \in 1..Len(queue') : queue'[i] = queue'[j] => i = j
    BY <1>2 DEF PendingInv, JobsInv
  <2>3. ASSUME NEW x \in Requests, job'[x] # NoJob
        PROVE  /\ WasPut(job[x])'
               /\ \A i \in 1..Len(queue') : queue'[i] # job'[x]
               /\ \A y \in Requests : job'[y] = job'[x] => y = x
    <3>1. CASE x = w
      <4>1. WasPut(queue[1])
        BY <1>2 DEF PendingInv, JobsInv
      <4>2. WasPut(job[x])'
        BY <1>1, <1>3, <3>1, <4>1 DEF WasPut
      <4>3. \A i \in 1..Len(queue') : queue'[i] # job'[x]
        BY <1>2, <1>3, <3>1 DEF PendingInv, JobsInv
      <4>4. \A y \in Requests : job'[y] = job'[x] => y = x
        BY <1>3, <1>5, <1>6, <3>1
      <4> QED
        BY <4>2, <4>3, <4>4
    <3>2. CASE x # w
      <4>1. job'[x] = job[x] /\ job[x] # NoJob
        BY <1>3, <2>3, <3>2
      <4>2. WasPut(job[x])'
        BY <1>1, <4>1 DEF PendingInv, JobsInv, WasPut
      <4>3. \A i \in 1..Len(queue') : queue'[i] # job'[x]
        BY <1>2, <4>1 DEF PendingInv, JobsInv
      <4>4. \A y \in Requests : job'[y] = job'[x] => y = x
        BY <1>3, <1>6, <3>2, <4>1 DEF PendingInv, JobsInv
      <4> QED
        BY <4>2, <4>3, <4>4
    <3> QED
      BY <3>1, <3>2
  <2> QED
    BY <2>1, <2>2, <2>3 DEF JobsInv
<1> QED
  BY <1>7, <1>8

\* A worker writes the status of its own job, which is nobody else's.
LEMMA WorkKeepsPending ==
  ASSUME ITyped, PendingInv, NEW w \in Requests, MarkRunning(w) \/ Finish(w)
  PROVE  PendingIsListed' /\ JobsInv'
<1>1. UNCHANGED <<caller, order, put, listed, queue>>
  BY DEF MarkRunning, Finish, requests
<1>2. job[w] # NoJob /\ job[w] \in Jobs /\ WasPut(job[w])
  BY DEF MarkRunning, Finish, ITyped, WorkerInv, TypeOK, PendingInv, JobsInv
<1>3. status \in [Requests -> [Names -> Statuses]]
  BY DEF ITyped, TypeOK, Statuses
<1>4. \A j \in Jobs : j # job[w] /\ ShownPending(j) => ShownPending(j)'
  <2>1. PICK s \in Statuses : SetStatus(job[w][1], job[w][2], s)
    <3>1. Results(job[w][2]) \subseteq Statuses /\ "running" \in Statuses
      BY DEF Results, Ended, Statuses
    <3> QED
      BY <3>1 DEF MarkRunning, Finish
  <2>2. SUFFICES ASSUME NEW j \in Jobs, j # job[w], ShownPending(j)
                 PROVE  ShownPending(j)'
    OBVIOUS
  <2>3. j[1] # job[w][1] \/ j[2] # job[w][2]
    BY <1>2, <2>2 DEF Jobs
  <2>4. status'[j[1]][j[2]] = status[j[1]][j[2]]
    BY <1>2, <1>3, <2>1, <2>3, StatusSet DEF Jobs
  <2> QED
    BY <1>1, <2>2, <2>4 DEF ShownPending
<1>5. \A x \in Requests : job'[x] # NoJob => job'[x] = job[x]
  BY DEF MarkRunning, Finish, ITyped, TypeOK
<1>6. \A x \in Requests : job'[x] # NoJob => ShownPending(job[x])'
  <2> SUFFICES ASSUME NEW x \in Requests, job'[x] # NoJob PROVE ShownPending(job[x])'
    OBVIOUS
  <2>1. job'[x] = job[x] /\ job[x] \in Jobs /\ ShownPending(job[x])
    BY <1>5 DEF ITyped, TypeOK, PendingInv, PendingIsListed
  <2>2. CASE x # w
    <3>1. job[x] # job[w]
      BY <1>2, <2>2 DEF PendingInv, JobsInv
    <3>2. PICK j : j = job[x]
      OBVIOUS
    <3>3. ShownPending(j)'
      BY <1>4, <2>1, <3>1, <3>2
    <3> QED
      BY <2>1, <3>2, <3>3 DEF ShownPending
  <2>3. CASE x = w
    <3>1. MarkRunning(w)
      BY <2>3 DEF Finish, ITyped, TypeOK
    <3>2. SetStatus(job[w][1], job[w][2], "running") /\ job[w][1] \in listed
      BY <2>1, <2>3, <3>1 DEF MarkRunning, ShownPending
    <3>3. status'[job[w][1]][job[w][2]] = "running"
      <4>1. "running" \in Statuses
        BY DEF Statuses
      <4> QED
        BY <1>2, <1>3, <3>2, <4>1, StatusSet DEF Jobs
    <3> QED
      BY <1>1, <2>1, <2>3, <3>2, <3>3 DEF ShownPending
  <2> QED
    BY <2>2, <2>3
<1>7. PendingIsListed'
  <2>1. ASSUME NEW r \in Requests, caller'[r] \in {"registered", "putting"},
               NEW i \in (put'[r] + 1)..Len(order'[r])
        PROVE  ShownPending(<<r, order[r][i]>>)'
    <3>1. Shown(<<r, order[r][i]>>)
      BY <1>1, <2>1, PendingIsShown
    <3>2. PICK j : j = <<r, order[r][i]>>
      OBVIOUS
    <3>3. j # job[w]
      BY <1>1, <1>2, <2>1, <3>2, PutOnce
    <3>4. ShownPending(j)'
      BY <1>4, <3>1, <3>2, <3>3 DEF Shown
    <3> QED
      BY <1>1, <3>2, <3>4 DEF ShownPending
  <2>2. ASSUME NEW i \in 1..Len(queue') PROVE ShownPending(queue[i])'
    <3>1. PICK j : j = queue[i]
      OBVIOUS
    <3>2. j \in Jobs /\ ShownPending(j) /\ j # job[w]
      BY <1>1, <1>2, <2>2, <3>1 DEF ITyped, TypeOK, PendingInv, PendingIsListed, JobsInv
    <3>3. ShownPending(j)'
      BY <1>4, <3>2
    <3> QED
      BY <1>1, <3>1, <3>3 DEF ShownPending
  <2> QED
    BY <1>6, <2>1, <2>2 DEF PendingIsListed
<1>8. JobsInv'
  BY <1>1, <1>5 DEF PendingInv, JobsInv, WasPut
<1> QED
  BY <1>7, <1>8

LEMMA PendingInductive == ITyped /\ PendingInv /\ [Next]_vars => PendingInv'
<1> SUFFICES ASSUME ITyped, PendingInv, [Next]_vars PROVE PendingInv'
  OBVIOUS
<1>1. \A r \in Requests : BatchInv(r)' /\ WorkerInv(r)'
  BY TypedInductive DEF ITyped
<1>2. ASSUME NEW r \in Requests, EnsureWorker(r) PROVE PendingIsListed' /\ JobsInv'
  <2>1. UNCHANGED <<order, put, listed, status, queue, job>>
        /\ \A q \in Requests : caller'[q] \in {"registered", "putting"} =>
                               caller[q] \in {"registered", "putting"}
    BY <1>2 DEF EnsureWorker, ITyped, TypeOK
  <2>2. PendingIsListed'
    BY <2>1 DEF PendingInv, PendingIsListed, ShownPending
  <2>3. JobsInv'
    BY <2>1 DEF PendingInv, JobsInv, WasPut
  <2> QED
    BY <2>2, <2>3
<1>3. ASSUME Crash PROVE PendingIsListed' /\ JobsInv'
  <2>1. /\ \A r \in Requests : caller'[r] \notin {"registered", "putting"}
        /\ queue' = <<>>
        /\ \A w \in Requests : job'[w] = NoJob
    BY <1>3 DEF Crash
  <2> QED
    BY <2>1 DEF PendingIsListed, JobsInv
<1>4. CASE UNCHANGED vars
  BY <1>4 DEF vars, requests, workers, PendingInv, PendingIsListed, ShownPending,
              JobsInv, WasPut, BatchInv, WorkerInv
<1>5. ASSUME NEW r \in Requests, Register(r) PROVE PendingIsListed' /\ JobsInv'
  BY <1>5, RegisterKeepsPending
<1>6. ASSUME NEW r \in Requests, Put(r) PROVE PendingIsListed' /\ JobsInv'
  BY <1>6, PutKeepsPending
<1>7. ASSUME NEW r \in Requests, Take(r) PROVE PendingIsListed' /\ JobsInv'
  BY <1>7, TakeKeepsPending
<1>8. ASSUME NEW r \in Requests, MarkRunning(r) \/ Finish(r)
      PROVE  PendingIsListed' /\ JobsInv'
  BY <1>8, WorkKeepsPending
<1> QED
  BY <1>1, <1>2, <1>3, <1>4, <1>5, <1>6, <1>7, <1>8 DEF Next, Handle, Work, PendingInv

LEMMA InitIsPending == Init => ITyped /\ PendingInv
<1> SUFFICES ASSUME Init PROVE ITyped /\ PendingInv
  OBVIOUS
<1>1. TypeOK
  BY EmptyBatch DEF Init, TypeOK, Statuses
<1>2. \A r \in Requests : BatchInv(r) /\ WorkerInv(r)
  BY EmptyBatch, MaxNamesAssumption DEF Init, BatchInv, WorkerInv
<1>3. PendingIsListed /\ JobsInv
  BY DEF Init, PendingIsListed, JobsInv
<1> QED
  BY <1>1, <1>2, <1>3 DEF ITyped, PendingInv

(***************************************************************************)
(* PendingIsListed holds in every behaviour: whatever requests, evictions, *)
(* worker and crashes do, _status shows each job that is to be put, queued *)
(* or taken as queued or running (enqueue_batch, _worker_loop).            *)
(***************************************************************************)
THEOREM PendingJobsAreShown == Spec => []PendingIsListed
<1>1. PendingInv => PendingIsListed
  BY DEF PendingInv
<1> QED
  BY <1>1, InitIsPending, TypedInductive, PendingInductive, PTL DEF Spec

-----------------------------------------------------------------------------
(* VerifiedInOrder is an invariant.  There is one worker, and the jobs of  *)
(* a batch are in the queue in the order of its names (OrderInv), so that  *)
(* a job the worker has begun has before it only jobs that are in neither  *)
(* place any more, and those have ended (StatusInv).                       *)

\* The jobs of a batch differ from each other and from those of other batches.
LEMMA JobAtIsOne ==
  ASSUME ITyped, NEW b \in Requests, NEW k \in 1..Len(order[b])
  PROVE  /\ JobAt(b, k) \in Jobs /\ JobAt(b, k) # NoJob
         /\ order[b][k] \in Names
         /\ \A c \in Requests : \A l \in 1..Len(order[c]) :
              JobAt(b, k) = JobAt(c, l) => b = c /\ k = l
         /\ \A n : JobAt(b, k) = <<b, n>> => n = order[b][k]
<1>1. \A c \in Requests : order[c] \in Seq(Names) /\ IsInjective(order[c])
  BY DEF ITyped, TypeOK, BatchInv
<1>2. order[b][k] \in Names
  BY <1>1
<1>3. JobAt(b, k) \in Jobs
  BY <1>2 DEF JobAt, Jobs
<1>4. ASSUME NEW c \in Requests, NEW l \in 1..Len(order[c]), JobAt(b, k) = JobAt(c, l)
      PROVE  b = c /\ k = l
  <2>1. b = c /\ order[b][k] = order[c][l]
    BY <1>4 DEF JobAt
  <2>2. k \in DOMAIN order[b] /\ l \in DOMAIN order[b]
    BY <1>1, <2>1
  <2> QED
    BY <1>1, <2>1, <2>2 DEF IsInjective
<1> QED
  BY <1>2, <1>3, <1>4, JobIsJob DEF JobAt

\* A job that was put stands at a place of its batch that was put.
LEMMA PutPlaces ==
  ASSUME ITyped
  PROVE  /\ \A b \in Requests : /\ put[b] \in Nat /\ Len(order[b]) \in Nat
                                /\ put[b] <= Len(order[b])
                                /\ 1..put[b] \subseteq 1..Len(order[b])
         /\ \A j \in Jobs : WasPut(j) =>
              \E b \in Requests : \E k \in 1..put[b] : j = JobAt(b, k)
<1>1. \A b \in Requests : put[b] \in Nat /\ Len(order[b]) \in Nat /\ put[b] <= Len(order[b])
  BY MaxNamesAssumption DEF ITyped, TypeOK, BatchInv
<1>2. ASSUME NEW j \in Jobs, WasPut(j)
      PROVE  \E b \in Requests : \E k \in 1..put[b] : j = JobAt(b, k)
  BY <1>2 DEF WasPut, JobAt, Jobs
<1> QED
  BY <1>1, <1>2

LEMMA SameJobs ==
  ASSUME UNCHANGED <<put, queue>>
  PROVE  /\ \A j : Queued(j)' <=> Queued(j)
         /\ \A b, k : order'[b] = order[b] => JobAt(b, k)' = JobAt(b, k)
         /\ \A b, i, k : order'[b] = order[b] => (Behind(i, b, k)' <=> Behind(i, b, k))
BY DEF Queued, JobAt, Behind

LEMMA OneWorkerStep == ITyped /\ OneWorker /\ [Next]_vars => OneWorker'
<1> SUFFICES ASSUME ITyped, OneWorker, [Next]_vars PROVE OneWorker'
  OBVIOUS
<1>1. thread \in [Requests -> {"none", "waiting", "taken", "verifying"}]
  BY DEF ITyped, TypeOK
<1>2. ASSUME NEW r \in Requests, EnsureWorker(r) PROVE OneWorker'
  BY <1>1, <1>2 DEF EnsureWorker, OneWorker, Alive
<1>3. ASSUME NEW w \in Requests, Work(w) PROVE OneWorker'
  <2>1. Alive' = Alive
    BY <1>1, <1>3 DEF Work, Take, MarkRunning, Finish, Alive
  <2> QED
    BY <2>1 DEF OneWorker
<1>4. CASE UNCHANGED thread
  BY <1>4 DEF OneWorker, Alive
<1>5. CASE Crash
  BY <1>5 DEF Crash, OneWorker, Alive
<1> QED
  BY <1>2, <1>3, <1>4, <1>5 DEF Next, Handle, Register, Put, vars, workers

LEMMA OrderStep == ITyped /\ PendingInv /\ OneWorker /\ OrderInv /\ [Next]_vars => OrderInv'
<1> SUFFICES ASSUME ITyped, PendingInv, OneWorker, OrderInv, [Next]_vars PROVE OrderInv'
  OBVIOUS
<1>1. ASSUME NEW r \in Requests, Register(r) PROVE OrderInv'
  <2>1. put[r] = 0 /\ UNCHANGED <<put, queue, job>>
    BY <1>1 DEF Register, workers, ITyped, BatchInv
  <2>2. \A b \in Requests : b # r => order'[b] = order[b]
    BY <1>1 DEF Register, ITyped, TypeOK
  <2>3. \A b \in Requests : b # r => \A k : /\ JobAt(b, k)' = JobAt(b, k)
                                              /\ \A i : Behind(i, b, k)' <=> Behind(i, b, k)
    BY <2>1, <2>2, SameJobs
  <2>4. 1..put[r] = {}
    BY <2>1
  <2> QED
    BY <2>1, <2>3, <2>4 DEF OrderInv
<1>2. ASSUME NEW r \in Requests, Put(r) PROVE OrderInv'
  <2>1. PICK J : J = JobAt(r, put[r] + 1)
    OBVIOUS
  <2>2. /\ put' = [put EXCEPT ![r] = put[r] + 1] /\ queue' = Append(queue, J)
        /\ UNCHANGED <<order, job>> /\ caller[r] = "putting"
    BY <1>2, <2>1 DEF Put, workers, JobAt
  <2>3. put[r] \in Nat /\ put[r] + 1 \in 1..Len(order[r])
    BY <2>2, PutPlaces DEF ITyped, BatchInv
  <2>4. J \in Jobs
    BY <2>1, <2>3, JobAtIsOne
  <2>5. queue \in Seq(Jobs) /\ Len(queue) \in Nat /\ Len(queue') = Len(queue) + 1
        /\ (\A i \in 1..Len(queue) : queue'[i] = queue[i]) /\ queue'[Len(queue) + 1] = J
    BY <2>2, <2>4 DEF ITyped, TypeOK
  <2>6. put'[r] = put[r] + 1 /\ \A b \in Requests : b # r => put'[b] = put[b]
    BY <2>2 DEF ITyped, TypeOK
  <2>7. \A b, k : JobAt(b, k)' = JobAt(b, k)
    BY <2>2 DEF JobAt
  <2>8. ASSUME NEW b \in Requests, NEW k \in 1..put'[b], ~(b = r /\ k = put[r] + 1),
               NEW i \in 0..Len(queue), Behind(i, b, k)
        PROVE  Behind(i, b, k)'
    <3> SUFFICES ASSUME NEW l \in (k + 1)..put'[b]
                 PROVE  \E m \in (i + 1)..Len(queue') : queue'[m] = JobAt(b, l)
      BY <2>7 DEF Behind
    <3>1. CASE b = r /\ l = put[r] + 1
      BY <2>1, <2>5, <3>1
    <3>2. CASE ~(b = r /\ l = put[r] + 1)
      <4>1. l \in (k + 1)..put[b]
        BY <2>3, <2>6, <3>2, PutPlaces
      <4> QED
        BY <2>5, <2>8, <4>1 DEF Behind
    <3> QED
      BY <3>1, <3>2
  <2>9. ASSUME NEW i, NEW k, k = put[r] + 1 PROVE Behind(i, r, k)'
    BY <2>3, <2>6, <2>9 DEF Behind
  <2> SUFFICES ASSUME NEW b \in Requests, NEW k \in 1..put'[b],
                      ~(b = r /\ k = put[r] + 1)
               PROVE  /\ \A i \in 1..Len(queue') : queue'[i] = JobAt(b, k) => Behind(i, b, k)'
                      /\ \A w \in Requests : job[w] = JobAt(b, k) => Behind(0, b, k)'
    BY <2>2, <2>7, <2>9 DEF OrderInv
  <2>10. k \in 1..put[b] /\ k \in 1..Len(order[b])
    BY <2>3, <2>6, PutPlaces
  <2>11. JobAt(b, k) # J
    BY <2>1, <2>3, <2>10, JobAtIsOne
  <2> QED
    BY <2>5, <2>8, <2>10, <2>11 DEF OrderInv
<1>3. ASSUME NEW w \in Requests, Take(w) PROVE OrderInv'
  <2>1. /\ queue \in Seq(Jobs) /\ queue # <<>> /\ queue' = Tail(queue)
        /\ job' = [job EXCEPT ![w] = Head(queue)]
        /\ UNCHANGED <<order, put>>
    BY <1>3 DEF Take, ITyped, TypeOK, requests
  <2>2. /\ Len(queue) \in Nat /\ Len(queue) >= 1 /\ Len(queue') = Len(queue) - 1
        /\ \A i \in 1..Len(queue') : queue'[i] = queue[i + 1]
    BY <2>1
  <2>3. job'[w] = queue[1]
    BY <2>1 DEF ITyped, TypeOK
  <2>4. \A x \in Requests : x # w => job'[x] = NoJob
    BY <1>3, <2>1 DEF ITyped, TypeOK, WorkerInv, OneWorker, Alive, Take
  <2>5. \A b, k : JobAt(b, k)' = JobAt(b, k)
    BY <2>1 DEF JobAt
  <2>6. ASSUME NEW b \in Requests, NEW k \in 1..put[b], NEW i \in 0..Len(queue'),
               Behind(i + 1, b, k)
        PROVE  Behind(i, b, k)'
    <3> SUFFICES ASSUME NEW l \in (k + 1)..put[b]
                 PROVE  \E m \in (i + 1)..Len(queue') : queue'[m] = JobAt(b, l)
      BY <2>1, <2>5 DEF Behind
    <3>1. PICK m \in (i + 1 + 1)..Len(queue) : queue[m] = JobAt(b, l)
      BY <2>6 DEF Behind
    <3>2. m - 1 \in (i + 1)..Len(queue') /\ m - 1 \in 1..Len(queue')
      BY <2>2
    <3>3. queue'[m - 1] = queue[m - 1 + 1] /\ m - 1 + 1 = m
      BY <2>2, <3>2
    <3> QED
      BY <3>1, <3>2, <3>3
  <2> SUFFICES ASSUME NEW b \in Requests, NEW k \in 1..put[b]
               PROVE  /\ \A i \in 1..Len(queue') : queue'[i] = JobAt(b, k) => Behind(i, b, k)'
                      /\ \A x \in Requests : job'[x] = JobAt(b, k) => Behind(0, b, k)'
    BY <2>1, <2>5 DEF OrderInv
  <2>7. ASSUME NEW i \in 1..Len(queue'), queue'[i] = JobAt(b, k) PROVE Behind(i, b, k)'
    <3>1. i + 1 \in 1..Len(queue) /\ queue[i + 1] = JobAt(b, k)
      BY <2>2, <2>7
    <3>2. Behind(i + 1, b, k)
      BY <3>1 DEF OrderInv
    <3> QED
      BY <2>2, <2>6, <3>2
  <2>8. ASSUME NEW x \in Requests, job'[x] = JobAt(b, k) PROVE Behind(0, b, k)'
    <3>1. x = w
      BY <2>4, <2>8, JobAtIsOne, PutPlaces
    <3>2. Behind(1, b, k)
      BY <2>2, <2>3, <2>8, <3>1 DEF OrderInv
    <3> QED
      BY <2>2, <2>6, <3>2
  <2> QED
    BY <2>7, <2>8
<1>4. ASSUME NEW w \in Requests, MarkRunning(w) \/ Finish(w) PROVE OrderInv'
  <2>1. UNCHANGED <<order, put, queue>>
    BY <1>4 DEF MarkRunning, Finish, requests
  <2>2. \A x \in Requests : job'[x] # NoJob => job'[x] = job[x]
    BY <1>4 DEF MarkRunning, Finish, ITyped, TypeOK
  <2>3. \A b \in Requests : \A k \in 1..put[b] : JobAt(b, k) # NoJob
    BY JobAtIsOne, PutPlaces
  <2>4. \A b, k : /\ JobAt(b, k)' = JobAt(b, k)
                  /\ \A i : Behind(i, b, k)' <=> Behind(i, b, k)
    BY <2>1, SameJobs
  <2>5. \A b \in Requests : \A k \in 1..put[b] : \A x \in Requests :
          job'[x] = JobAt(b, k) => job[x] = JobAt(b, k)
    BY <2>2, <2>3
  <2> QED
    BY <2>1, <2>4, <2>5 DEF OrderInv
<1>5. CASE Crash
  BY <1>5 DEF Crash, OrderInv
<1>6. CASE UNCHANGED <<order, put, queue, job>>
  <2>1. \A b, k : /\ JobAt(b, k)' = JobAt(b, k)
                  /\ \A i : Behind(i, b, k)' <=> Behind(i, b, k)
    BY <1>6, SameJobs
  <2> QED
    BY <1>6, <2>1 DEF OrderInv
<1> QED
  BY <1>1, <1>2, <1>3, <1>4, <1>5, <1>6 DEF Next, Handle, Work, EnsureWorker, vars,
     requests, workers

LEMMA StatusStep == ITyped /\ PendingInv /\ StatusInv /\ [Next]_vars => StatusInv'
<1> SUFFICES ASSUME ITyped, PendingInv, StatusInv, [Next]_vars PROVE StatusInv'
  OBVIOUS
<1>a. listed \subseteq Requests
  BY DEF ITyped, TypeOK
<1>1. ASSUME NEW r \in Requests, Register(r) PROVE StatusInv'
  <2> DEFINE gone == Evicted(listed \cup {r})
  <2>1. PICK names \in Orders :
          /\ order' = [order EXCEPT ![r] = names]
          /\ listed' = (listed \cup {r}) \ gone
          /\ status' = [b \in Requests |->
                          IF b \in gone THEN Absent
                          ELSE IF b = r
                            THEN [n \in Names |-> IF n \in Range(names)
                                                    THEN "queued" ELSE "absent"]
                            ELSE status[b]]
    BY <1>1 DEF Register
  <2>2. names \in Seq(Names)
    BY OrderTypes
  <2>3. put[r] = 0 /\ UNCHANGED <<put, queue, job>>
    BY <1>1 DEF Register, workers, ITyped, BatchInv
  <2> HIDE DEF gone
  <2> SUFFICES ASSUME NEW b \in listed', NEW k \in 1..Len(order'[b])
               PROVE  /\ k > put[b] \/ Queued(JobAt(b, k))' => status'[b][order'[b][k]] = "queued"
                      /\ \/ k > put[b] \/ Queued(JobAt(b, k))'
                         \/ \E w \in Requests : job[w] = JobAt(b, k)'
                         \/ status'[b][order'[b][k]] \in Ended
    BY <2>3 DEF StatusInv
  <2>4. CASE b = r
    <3>1. order'[r] = names
      BY <2>1 DEF ITyped, TypeOK
    <3>2. names[k] \in Names /\ names[k] \in Range(names) /\ k > 0
      BY <2>2, <2>4, <3>1 DEF Range
    <3>3. status'[r][names[k]] = "queued"
      BY <2>1, <2>4, <3>2
    <3> QED
      BY <2>3, <2>4, <3>1, <3>2, <3>3
  <2>5. CASE b # r
    <3>1. b \in listed /\ order'[b] = order[b] /\ status'[b] = status[b]
      BY <1>a, <2>1, <2>5 DEF ITyped, TypeOK
    <3> QED
      BY <2>3, <3>1 DEF StatusInv, JobAt, Queued
  <2> QED
    BY <2>4, <2>5
<1>2. ASSUME NEW r \in Requests, Put(r) PROVE StatusInv'
  <2>1. PICK J : J = JobAt(r, put[r] + 1)
    OBVIOUS
  <2>2. /\ put' = [put EXCEPT ![r] = put[r] + 1] /\ queue' = Append(queue, J)
        /\ UNCHANGED <<order, listed, status, job>> /\ caller[r] = "putting"
    BY <1>2, <2>1 DEF Put, workers, JobAt
  <2>3. put[r] \in Nat /\ put[r] + 1 \in 1..Len(order[r])
    BY <2>2, PutPlaces DEF ITyped, BatchInv
  <2>4. J \in Jobs
    BY <2>1, <2>3, JobAtIsOne
  <2>5. queue \in Seq(Jobs) /\ Len(queue) \in Nat /\ Len(queue') = Len(queue) + 1
        /\ (\A i \in 1..Len(queue) : queue'[i] = queue[i]) /\ queue'[Len(queue) + 1] = J
    BY <2>2, <2>4 DEF ITyped, TypeOK
  <2>6. \A j : Queued(j)' <=> Queued(j) \/ j = J
    BY <2>5 DEF Queued
  <2>7. put'[r] = put[r] + 1 /\ \A b \in Requests : b # r => put'[b] = put[b]
    BY <2>2 DEF ITyped, TypeOK
  <2>8. ASSUME NEW b \in listed, NEW k \in 1..Len(order[b])
        PROVE  k > put[b] <=> k > put'[b] \/ JobAt(b, k) = J
    BY <1>a, <2>1, <2>3, <2>7, JobAtIsOne, PutPlaces
  <2> SUFFICES ASSUME NEW b \in listed, NEW k \in 1..Len(order[b])
               PROVE  /\ k > put'[b] \/ Queued(JobAt(b, k))' => status[b][order[b][k]] = "queued"
                      /\ \/ k > put'[b] \/ Queued(JobAt(b, k))'
                         \/ \E w \in Requests : job[w] = JobAt(b, k)
                         \/ status[b][order[b][k]] \in Ended
    BY <2>2 DEF StatusInv, JobAt
  <2>9. Queued(JobAt(b, k))' <=> Queued(JobAt(b, k)) \/ JobAt(b, k) = J
    BY <2>2, <2>6 DEF JobAt, Queued
  <2> QED
    BY <2>8, <2>9 DEF StatusInv
<1>3. ASSUME NEW w \in Requests, Take(w) PROVE StatusInv'
  <2>1. /\ queue \in Seq(Jobs) /\ queue # <<>> /\ queue' = Tail(queue)
        /\ job' = [job EXCEPT ![w] = Head(queue)] /\ job[w] = NoJob
        /\ UNCHANGED <<order, put, listed, status>>
    BY <1>3 DEF Take, ITyped, TypeOK, requests, WorkerInv
  <2>2. /\ Len(queue) \in Nat /\ Len(queue) >= 1 /\ Len(queue') = Len(queue) - 1
        /\ \A i \in 1..Len(queue') : queue'[i] = queue[i + 1]
    BY <2>1
  <2>3. job'[w] = queue[1] /\ \A x \in Requests : x # w => job'[x] = job[x]
    BY <2>1 DEF ITyped, TypeOK
  <2>4. ASSUME NEW j, Queued(j) PROVE Queued(j)' \/ j = queue[1]
    <3>1. PICK i \in 1..Len(queue) : queue[i] = j
      BY <2>4 DEF Queued
    <3>2. CASE i # 1
      <4>1. i - 1 \in 1..Len(queue') /\ i - 1 + 1 = i
        BY <2>2, <3>2
      <4> QED
        BY <2>2, <3>1, <4>1 DEF Queued
    <3> QED
      BY <3>1, <3>2
  <2>5. ASSUME NEW j, Queued(j)' PROVE Queued(j)
    <3>1. PICK i \in 1..Len(queue') : queue'[i] = j
      BY <2>5 DEF Queued
    <3>2. i + 1 \in 1..Len(queue) /\ queue[i + 1] = j
      BY <2>2, <3>1
    <3> QED
      BY <3>2 DEF Queued
  <2> SUFFICES ASSUME NEW b \in listed, NEW k \in 1..Len(order[b])
               PROVE  /\ k > put[b] \/ Queued(JobAt(b, k))' => status[b][order[b][k]] = "queued"
                      /\ \/ k > put[b] \/ Queued(JobAt(b, k))'
                         \/ \E x \in Requests : job'[x] = JobAt(b, k)
                         \/ status[b][order[b][k]] \in Ended
    <3>1. \A b, k : JobAt(b, k)' = JobAt(b, k)
      BY <2>1 DEF JobAt
    <3> QED
      BY <2>1, <3>1 DEF StatusInv
  <2>6. PICK j : j = JobAt(b, k)
    OBVIOUS
  <2>7. j # NoJob
    BY <1>a, <2>6, JobAtIsOne
  <2>8. Queued(JobAt(b, k))' <=> Queued(j)'
    BY <2>1, <2>6 DEF JobAt, Queued
  <2>9. \A x \in Requests : job[x] = j => job'[x] = j
    BY <2>1, <2>3, <2>7
  <2> QED
    BY <2>3, <2>4, <2>5, <2>6, <2>8, <2>9 DEF StatusInv
<1>4. ASSUME NEW w \in Requests, MarkRunning(w) \/ Finish(w) PROVE StatusInv'
  <2>1. UNCHANGED <<order, put, listed, queue>>
    BY <1>4 DEF MarkRunning, Finish, requests
  <2>2. job[w] # NoJob /\ job[w] \in Jobs /\ WasPut(job[w])
        /\ \A i \in 1..Len(queue) : queue[i] # job[w]
    BY <1>4 DEF MarkRunning, Finish, ITyped, WorkerInv, TypeOK, PendingInv, JobsInv
  <2>a. PICK b1 \in Requests : \E k \in 1..put[b1] : job[w] = JobAt(b1, k)
    BY <2>2, PutPlaces
  <2>3. PICK k1 \in 1..put[b1] : job[w] = JobAt(b1, k1)
    BY <2>a
  <2>4. k1 \in 1..Len(order[b1])
    BY <2>3, PutPlaces
  <2>5. status \in [Requests -> [Names -> Statuses]]
    BY DEF ITyped, TypeOK, Statuses
  <2>6. /\ \A x \in Requests : x # w => job'[x] = job[x]
        /\ MarkRunning(w) => job'[w] = job[w]
    BY <1>4 DEF MarkRunning, Finish, ITyped, TypeOK
  <2>7. PICK s \in Statuses : /\ SetStatus(b1, order[b1][k1], s)
                              /\ MarkRunning(w) \/ s \in Ended
    <3>1. job[w][1] = b1 /\ job[w][2] = order[b1][k1]
      BY <2>3 DEF JobAt
    <3>2. Results(job[w][2]) \subseteq Ended /\ Ended \subseteq Statuses
          /\ "running" \in Statuses
      BY DEF Results, Ended, Statuses
    <3> QED
      BY <1>4, <3>1, <3>2 DEF MarkRunning, Finish
  <2>8. order[b1][k1] \in Names
    BY <2>4, JobAtIsOne
  <2> SUFFICES ASSUME NEW b \in listed, NEW k \in 1..Len(order[b])
               PROVE  /\ k > put[b] \/ Queued(JobAt(b, k)) => status'[b][order[b][k]] = "queued"
                      /\ \/ k > put[b] \/ Queued(JobAt(b, k))
                         \/ \E x \in Requests : job'[x] = JobAt(b, k)
                         \/ status'[b][order[b][k]] \in Ended
    <3>1. \A b, k : /\ JobAt(b, k)' = JobAt(b, k)
                    /\ Queued(JobAt(b, k))' <=> Queued(JobAt(b, k))
      BY <2>1 DEF JobAt, Queued
    <3> QED
      BY <2>1, <3>1 DEF StatusInv
  <2>9. CASE b = b1 /\ k = k1
    <3>1. status'[b][order[b][k]] = s
      BY <2>5, <2>7, <2>8, <2>9, StatusSet
    <3>2. ~(k > put[b]) /\ ~Queued(JobAt(b, k))
      BY <2>2, <2>3, <2>9, PutPlaces DEF Queued
    <3> QED
      BY <2>3, <2>6, <2>7, <2>9, <3>1, <3>2
  <2>10. CASE ~(b = b1 /\ k = k1)
    <3>1. JobAt(b, k) # job[w]
      BY <1>a, <2>3, <2>4, <2>10, JobAtIsOne
    <3>2. b # b1 \/ order[b][k] # order[b1][k1]
      BY <2>3, <3>1 DEF JobAt
    <3>3. b \in Requests /\ order[b][k] \in Names
      BY <1>a, JobAtIsOne
    <3>4. status'[b][order[b][k]] = status[b][order[b][k]]
      BY <2>5, <2>7, <2>8, <3>2, <3>3, StatusSet
    <3>5. \A x \in Requests : job[x] = JobAt(b, k) => job'[x] = JobAt(b, k)
      BY <2>6, <3>1
    <3> QED
      BY <3>4, <3>5 DEF StatusInv
  <2> QED
    BY <2>9, <2>10
<1>5. CASE Crash
  BY <1>5 DEF Crash, StatusInv
<1>6. CASE UNCHANGED <<order, put, queue, job, listed, status>>
  <2>1. \A b, k : /\ JobAt(b, k)' = JobAt(b, k)
                  /\ Queued(JobAt(b, k))' <=> Queued(JobAt(b, k))
    BY <1>6 DEF JobAt, Queued
  <2> QED
    BY <1>6, <2>1 DEF StatusInv
<1> QED
  BY <1>1, <1>2, <1>3, <1>4, <1>5, <1>6 DEF Next, Handle, Work, EnsureWorker, vars,
     requests, workers

LEMMA OrderedStatus ==
  ITyped /\ PendingInv /\ OrderInv /\ StatusInv => VerifiedInOrder
<1> SUFFICES ASSUME ITyped, PendingInv, OrderInv, StatusInv,
                    NEW b \in listed, NEW i \in 1..Len(order[b]), NEW j \in 1..Len(order[b]),
                    i < j, status[b][order[b][j]] # "queued"
             PROVE  status[b][order[b][i]] \in Ended
  BY DEF VerifiedInOrder
<1>1. b \in Requests /\ put[b] \in Nat /\ queue \in Seq(Jobs)
  BY MaxNamesAssumption DEF ITyped, TypeOK
<1>2. j <= put[b] /\ ~Queued(JobAt(b, j))
  BY <1>1 DEF StatusInv
<1>3. i \in 1..put[b] /\ j \in (i + 1)..put[b]
  BY <1>1, <1>2
<1>4. \A n \in Nat : ~Behind(n, b, i)
  BY <1>1, <1>2, <1>3 DEF Behind, Queued
<1>5. ~Queued(JobAt(b, i)) /\ \A w \in Requests : job[w] # JobAt(b, i)
  BY <1>1, <1>3, <1>4 DEF OrderInv, Queued
<1> QED
  BY <1>1, <1>3, <1>5 DEF StatusInv

(***************************************************************************)
(* VerifiedInOrder holds in every behaviour: however many handlers         *)
(* interleave with the worker, and whichever restarts it, the tables of a  *)
(* batch are verified one at a time in the order they were asked for       *)
(* (_ensure_worker, enqueue_batch, _worker_loop).                          *)
(***************************************************************************)
THEOREM BatchesAreVerifiedInOrder == Spec => []VerifiedInOrder
<1>1. Init => ITyped /\ PendingInv
  BY InitIsPending
<1>2. Init => OneWorker /\ OrderInv /\ StatusInv
  BY DEF Init, OneWorker, Alive, OrderInv, StatusInv
<1> QED
  BY <1>1, <1>2, TypedInductive, PendingInductive, OneWorkerStep, OrderStep, StatusStep,
     OrderedStatus, PTL DEF Spec

-----------------------------------------------------------------------------
(* OverfullOnlyOfPending: what a registration leaves of the finished       *)
(* batches is newer than the ones it evicts.  If it leaves one, the oldest *)
(* it leaves has only evicted ones before it, and so many of them that     *)
(* what remains is not more than _MAX_BATCHES.                             *)

LEMMA LeastExists ==
  ASSUME NEW S \in SUBSET Nat, S # {}
  PROVE  \E c \in S : \A a \in S : c <= a
<1> DEFINE Less == {w \in Nat \X Nat : w[1] < w[2]}
<1>1. IsWellFoundedOn(Less, Nat)
  BY NatLessThanWellFounded DEF OpToRel
<1>2. PICK c \in S : \A a \in S : <<a, c>> \notin Less
  <2> HIDE DEF Less
  <2> QED
    BY <1>1, WFMin
<1>3. ASSUME NEW a \in S PROVE c <= a
  <2>1. ~(a < c)
    BY <1>2
  <2> QED
    BY <2>1
<1> QED
  BY <1>3

LEMMA EvictionSuffices ==
  ASSUME NEW all \in SUBSET Requests, NEW done \in SUBSET all,
         NEW b \in done, b \notin OldestOf(done, all)
  PROVE  Cardinality(all \ OldestOf(done, all)) <= MaxBatches
<1> DEFINE gone == OldestOf(done, all)
           UpTo(c) == {a \in done : a <= c}
<1>1. gone = {c \in done : Cardinality(UpTo(c)) + MaxBatches <= Cardinality(all)}
  BY DEF OldestOf
<1>2. IsFiniteSet(all) /\ Requests \subseteq Nat
  <2>1. 1 \in Int /\ MaxRequests \in Int /\ Requests \subseteq Nat
    BY MaxRequestsAssumption DEF Requests
  <2>2. IsFiniteSet(Requests)
    BY <2>1, FS_Interval DEF Requests
  <2> QED
    BY <2>1, <2>2, FS_Subset
<1>3. IsFiniteSet(gone) /\ gone \in SUBSET all /\ IsFiniteSet(all \ gone)
  BY <1>1, <1>2, FS_Subset
<1>4. \A c : IsFiniteSet(UpTo(c)) /\ Cardinality(UpTo(c)) \in Nat
  <2>1. \A c : UpTo(c) \in SUBSET all
    OBVIOUS
  <2> QED
    BY <1>2, <2>1, FS_Subset, FS_CardinalityType
<1> HIDE DEF gone
<1>5. done \ gone \in SUBSET Nat /\ done \ gone # {}
  BY <1>2 DEF gone
<1>6. PICK c \in done \ gone : \A a \in done \ gone : c <= a
  BY <1>5, LeastExists
<1>7. UpTo(c) \subseteq gone \cup {c}
  <2> SUFFICES ASSUME NEW a \in done, a <= c, a # c PROVE a \in gone
    OBVIOUS
  <2>1. a \in Nat /\ c \in Nat
    BY <1>2
  <2> QED
    BY <1>6, <2>1
<1>8. Cardinality(gone \cup {c}) = Cardinality(gone) + 1 /\ IsFiniteSet(gone \cup {c})
  BY <1>3, <1>6, FS_AddElement
<1>9. Cardinality(UpTo(c)) <= Cardinality(gone) + 1
  <2> HIDE DEF UpTo
  <2> QED
    BY <1>7, <1>8, FS_Subset
<1>10. ~(Cardinality(UpTo(c)) + MaxBatches <= Cardinality(all))
  BY <1>1, <1>6
<1>11. Cardinality(all \ gone) = Cardinality(all) - Cardinality(gone)
  <2>1. all \cap gone = gone
    BY <1>3
  <2> QED
    BY <1>2, <2>1, FS_Difference
<1>12. /\ Cardinality(all) \in Nat /\ Cardinality(gone) \in Nat
       /\ Cardinality(all \ gone) \in Nat /\ Cardinality(UpTo(c)) \in Nat
  BY <1>2, <1>3, <1>4, FS_CardinalityType
<1>13. Cardinality(all \ gone) <= MaxBatches
  <2> HIDE DEF UpTo
  <2> QED
    BY <1>9, <1>10, <1>11, <1>12, MaxBatchesAssumption
<1> QED
  BY <1>13 DEF gone

(***************************************************************************)
(* OverfullOnlyOfPending holds of every step, for any _MAX_BATCHES: after  *)
(* a registration _status is no larger than that, or holds no finished     *)
(* batch at all (the eviction of enqueue_batch).                           *)
(***************************************************************************)
THEOREM OverfullIsPending == Spec => OverfullOnlyOfPending
<1> DEFINE Fits == listed' \ listed # {} =>
                     \/ Cardinality(listed') <= MaxBatches
                     \/ \A b \in listed' : ~Finished(b)'
<1>1. ASSUME ITyped, PendingInv, Next PROVE Fits
  <2> SUFFICES ASSUME listed' \ listed # {} PROVE Fits
    OBVIOUS
  <2>1. PICK r \in Requests : Register(r)
    BY <1>1 DEF Next, Handle, Work, EnsureWorker, Put, Take, MarkRunning, Finish, Crash
  <2> DEFINE all == listed \cup {r}
             done == {b \in all \cap listed : Finished(b)}
             gone == OldestOf(done, all)
  <2>2. PICK names \in Orders :
          /\ order' = [order EXCEPT ![r] = names]
          /\ listed' = all \ gone
          /\ status' = [b \in Requests |->
                          IF b \in gone THEN Absent
                          ELSE IF b = r
                            THEN [n \in Names |-> IF n \in Range(names)
                                                    THEN "queued" ELSE "absent"]
                            ELSE status[b]]
    BY <2>1 DEF Register, Evicted
  <2>3. names \in Seq(Names) /\ Len(names) \in 1..MaxNames
    BY OrderTypes
  <2>4. all \in SUBSET Requests /\ done \in SUBSET all
    BY <1>1 DEF ITyped, TypeOK
  <2>5. gone \subseteq done
    BY DEF OldestOf
  <2> HIDE DEF gone
  <2>6. r \notin listed
    BY <1>1, <2>1 DEF Register, ITyped, BatchInv
  <2>7. ~Finished(r)'
    <3>1. 1 \in DOMAIN names /\ order'[r] = names
      BY <1>1, <2>2, <2>3 DEF ITyped, TypeOK
    <3>2. names[1] \in Names /\ names[1] \in Range(names)
      BY <2>3, <3>1 DEF Range
    <3>3. status'[r][names[1]] = "queued"
      BY <2>2, <2>5, <2>6, <3>2
    <3> QED
      BY <3>1, <3>2, <3>3 DEF Finished, NamesOf, Ended
  <2>8. ASSUME NEW b \in listed', Finished(b)' PROVE Cardinality(listed') <= MaxBatches
    <3>1. b # r /\ b \in listed /\ b \notin gone /\ b \in Requests
      BY <2>2, <2>4, <2>7, <2>8
    <3>2. order'[b] = order[b] /\ status'[b] = status[b]
      BY <1>1, <2>2, <3>1 DEF ITyped, TypeOK
    <3>3. b \in done
      BY <2>8, <3>1, <3>2 DEF Finished, NamesOf
    <3>4. Cardinality(all \ gone) <= MaxBatches
      <4> HIDE DEF all, done
      <4> QED
        BY <2>4, <3>1, <3>3, EvictionSuffices DEF gone
    <3> QED
      BY <2>2, <3>4
  <2> QED
    BY <2>8
<1>2. ITyped /\ PendingInv /\ [Next]_vars => [Fits]_vars
  BY <1>1
<1> QED
  BY <1>2, InitIsPending, TypedInductive, PendingInductive, PTL
     DEF Spec, OverfullOnlyOfPending
=============================================================================
