-------------------------- MODULE MigrationRunsProofs --------------------------
(***************************************************************************)
(* Proofs about MigrationRuns, for any number of requests and any set of   *)
(* disturbances.                                                           *)
(***************************************************************************)
EXTENDS MigrationRuns, TLAPS

\* Saving a status touches the row of one run only.
LEMMA SaveStatusEffect ==
  ASSUME row \in [Requests -> Statuses], NEW q \in Requests,
         NEW status \in Unfinished \cup Terminal, SaveStatus(q, status)
  PROVE  /\ row' \in [Requests -> Statuses]
         /\ \A p \in Requests : p # q => row'[p] = row[p]
         /\ row'[q] \in {row[q], status}
<1>1. PICK saved \in Saves : row' = IF saved THEN [row EXCEPT ![q] = status] ELSE row
  BY DEF SaveStatus
<1> QED
  BY <1>1 DEF Statuses

LEMMA KeptType ==
  ASSUME target \in Tables, NEW q \in Requests
  PROVE  Kept(q) \in SUBSET Parts
  BY DEF Tables, Kept

LEMMA LoadedType ==
  ASSUME target \in Tables, NEW parts \in SUBSET Parts
  PROVE  [target EXCEPT !.holds = @ \cup parts] \in Tables
  BY DEF Tables

(***************************************************************************)
(* Every variable keeps its type.                                          *)
(***************************************************************************)
THEOREM TypeInvariant == Spec => []TypeOK
<1>1. Init => TypeOK
  <2> SUFFICES ASSUME Init PROVE TypeOK
    OBVIOUS
  <2>1. target \in Tables
    BY MaxRequestsAssumption DEF Init, Tables
  <2>2. req \in [Requests -> RequestStages] /\ worker \in [Requests -> WorkerStages]
    BY DEF Init, RequestStages, WorkerStages
  <2>3. row \in [Requests -> Statuses] /\ progress \in [Requests -> Statuses]
    BY DEF Init, Statuses
  <2>4. asked \in [Requests -> SUBSET Parts]
    BY DEF Init
  <2>5. kind \in [Requests -> Kinds]
    BY DEF Init, Kinds
  <2>6. orphans \subseteq Requests /\ unsure \subseteq Requests
        /\ raced \in BOOLEAN /\ spoiled \in BOOLEAN
    BY DEF Init
  <2> QED
    BY <2>1, <2>2, <2>3, <2>4, <2>5, <2>6 DEF TypeOK
<1>2. TypeOK /\ [Next]_vars => TypeOK'
  <2> SUFFICES ASSUME TypeOK, [Next]_vars PROVE TypeOK'
    OBVIOUS
  <2> USE DEF TypeOK, requests, table, ghosts, Step, RequestStages,
              WorkerStages, Loading, Closing, Unfinished, Terminal, Statuses
  <2>1. ASSUME NEW q \in Requests, Handle(q) PROVE TypeOK'
    <3>1. CASE Refuse(q)
      BY <3>1 DEF Refuse
    <3>2. CASE Check(q)
      <4>1. PICK k \in Kinds : \E parts \in Requested(k) :
              kind' = [kind EXCEPT ![q] = k] /\ asked' = [asked EXCEPT ![q] = parts]
        BY <3>2 DEF Check
      <4>2. PICK parts \in Requested(k) : asked' = [asked EXCEPT ![q] = parts]
        BY <4>1
      <4>3. parts \in SUBSET Parts
        BY <4>2 DEF Requested
      <4> QED
        BY <3>2, <4>1, <4>2, <4>3 DEF Check
    <3>3. CASE Commit(q)
      BY <3>3 DEF Commit
    <3>4. CASE Launch(q)
      BY <3>4 DEF Launch
    <3> QED
      BY <2>1, <3>1, <3>2, <3>3, <3>4 DEF Handle
  <2>2. ASSUME NEW q \in Requests, Work(q) PROVE TypeOK'
    <3>1. CASE Begin(q)
      BY <3>1 DEF Begin
    <3>2. CASE SaveRunning(q)
      BY <3>2, SaveStatusEffect DEF SaveRunning
    <3>3. CASE Prepare(q)
      <4>1. [run |-> q, holds |-> Kept(q), held |-> target.holds] \in Tables
        BY KeptType DEF Tables, Requests
      <4> QED
        BY <3>3, <4>1 DEF Prepare
    <3>4. CASE Fail(q)
      BY <3>4 DEF Fail
    <3>5. CASE LoseStream(q)
      BY <3>5 DEF LoseStream
    <3>6. CASE Die(q)
      BY <3>6 DEF Die
    <3>7. CASE SaveFailed(q)
      BY <3>7, SaveStatusEffect DEF SaveFailed
    <3>8. CASE Succeed(q)
      <4>1. PICK parts \in SUBSET asked[q] : target' = [target EXCEPT !.holds = @ \cup parts]
        BY <3>8 DEF Succeed
      <4>2. parts \in SUBSET Parts
        BY <4>1
      <4>3. target' \in Tables
        BY <4>1, <4>2, LoadedType
      <4> QED
        BY <3>8, <4>3 DEF Succeed
    <3>9. CASE SucceedUnknown(q)
      BY <3>9 DEF SucceedUnknown
    <3>10. CASE SaveSuccess(q)
      BY <3>10, SaveStatusEffect DEF SaveSuccess
    <3>11. CASE Reconcile(q)
      BY <3>11 DEF Reconcile
    <3> QED
      BY <2>2, <3>1, <3>2, <3>3, <3>4, <3>5, <3>6, <3>7, <3>8, <3>9, <3>10, <3>11
         DEF Work
  <2>3. ASSUME NEW q \in Requests, LoadPart(q) \/ OrphanEnds(q) PROVE TypeOK'
    <3>1. CASE LoadPart(q)
      <4>1. PICK part \in asked[q] : target' = [target EXCEPT !.holds = @ \cup {part}]
        BY <3>1 DEF LoadPart
      <4>2. {part} \in SUBSET Parts
        BY <4>1
      <4>3. target' \in Tables
        BY <4>1, <4>2, LoadedType
      <4> QED
        BY <3>1, <4>3 DEF LoadPart
    <3>2. CASE OrphanEnds(q)
      BY <3>2 DEF OrphanEnds
    <3> QED
      BY <2>3, <3>1, <3>2
  <2>4. CASE Crash
    <3>1. req' \in [Requests -> RequestStages]
      BY <2>4 DEF Crash
    <3>2. worker' \in [Requests -> WorkerStages]
      BY <2>4 DEF Crash
    <3>3. orphans' \subseteq Requests
      BY <2>4 DEF Crash
    <3> QED
      BY <2>4, <3>1, <3>2, <3>3 DEF Crash
  <2>5. CASE UNCHANGED vars
    BY <2>5 DEF vars
  <2> QED
    BY <2>1, <2>2, <2>3, <2>4, <2>5 DEF Next
<1> QED
  BY <1>1, <1>2, PTL DEF Spec

-----------------------------------------------------------------------------
\* A step of a thread brings no run into flight, adds no row and changes no request.
WorkFacts(q) ==
  /\ req' = req /\ raced' = raced
  /\ \A p \in Requests :
       p # q => worker'[p] = worker[p] /\ row'[p] = row[p] /\ progress'[p] = progress[p]
  /\ worker'[q] \in Loading => worker[q] \in Loading
  /\ row'[q] = "absent" <=> row[q] = "absent"
  /\ RunInv(q)'

LEMMA WorkEffect ==
  ASSUME TypeOK, NEW q \in Requests, RunInv(q), Work(q)
  PROVE  WorkFacts(q)
<1> USE DEF TypeOK, requests, table, ghosts, Step, WorkerStages, Loading, Closing,
            Unfinished, Terminal
<1>1. CASE Begin(q)
  BY <1>1 DEF Begin, WorkFacts, RunInv
<1>2. CASE SaveRunning(q)
  BY <1>2, SaveStatusEffect DEF SaveRunning, WorkFacts, RunInv
<1>3. CASE Prepare(q)
  BY <1>3 DEF Prepare, WorkFacts, RunInv
<1>4. CASE Fail(q) \/ LoseStream(q) \/ Die(q) \/ Succeed(q) \/ SucceedUnknown(q)
  BY <1>4 DEF Fail, LoseStream, Die, Succeed, SucceedUnknown, WorkFacts, RunInv
<1>5. CASE SaveFailed(q) \/ SaveSuccess(q)
  BY <1>5, SaveStatusEffect DEF SaveFailed, SaveSuccess, WorkFacts, RunInv
<1>6. CASE Reconcile(q)
  BY <1>6 DEF Reconcile, WorkFacts, RunInv
<1> QED
  BY <1>1, <1>2, <1>3, <1>4, <1>5, <1>6 DEF Work

\* The invariant survives every step.
LEMMA FlightStep == TypeOK /\ FlightInv /\ [Next]_vars => FlightInv'
<1> SUFFICES ASSUME TypeOK, FlightInv, [Next]_vars PROVE FlightInv'
  OBVIOUS
<1> USE DEF TypeOK, requests, table, ghosts
<1>1. ASSUME NEW q \in Requests, Work(q) PROVE FlightInv'
  <2>1. WorkFacts(q)
    BY <1>1, WorkEffect DEF FlightInv
  <2>2. \A p \in Requests : RunInv(p)'
    BY <2>1 DEF WorkFacts, FlightInv, RunInv
  <2>3. Active' \subseteq Active
    BY <2>1 DEF WorkFacts, Active, Deciding, InFlight
  <2>4. \A r \in Requests : row[r] = "absent" => row'[r] = "absent"
    BY <2>1 DEF WorkFacts
  <2>5. SingleInv'
    BY <2>1, <2>3, <2>4 DEF WorkFacts, FlightInv, SingleInv
  <2>6. InOrder'
    BY <2>1 DEF WorkFacts, FlightInv, InOrder
  <2> QED
    BY <2>2, <2>5, <2>6 DEF FlightInv
<1>2. ASSUME NEW q \in Requests, Refuse(q) PROVE FlightInv'
  <2>1. \A p \in Requests : RunInv(p)'
    BY <1>2 DEF Refuse, Arrives, FlightInv, RunInv
  <2>2. Active' = Active /\ raced' = raced /\ row' = row
    BY <1>2 DEF Refuse, Arrives, Active, Deciding, InFlight
  <2>3. SingleInv'
    BY <2>2 DEF FlightInv, SingleInv
  <2>4. InOrder'
    BY <1>2 DEF Refuse, Arrives, FlightInv, InOrder, Requests
  <2> QED
    BY <2>1, <2>3, <2>4 DEF FlightInv
<1>3. ASSUME NEW q \in Requests, Check(q) PROVE FlightInv'
  <2>1. \A p \in Requests : RunInv(p)'
    BY <1>3 DEF Check, Arrives, FlightInv, RunInv
  <2>2. /\ Active' = Active \cup {q} /\ row' = row
        /\ InFlight' = InFlight
    BY <1>3 DEF Check, Arrives, Active, Deciding, InFlight
  <2>3. ASSUME ~raced' PROVE Active = {}
    <3>1. ~raced /\ Deciding = {}
      BY <1>3, <2>3 DEF Check
    <3>2. ASSUME NEW p \in InFlight PROVE FALSE
      <4>1. /\ p \in Requests /\ row[p] \in Unfinished /\ progress[p] \in Unfinished
            /\ \A r \in Requests : r > p => row[r] = "absent"
        BY <3>1 DEF FlightInv, RunInv, SingleInv, Active, InFlight
      <4>2. IsLatest(p)
        BY <4>1 DEF IsLatest, Unfinished
      <4> QED
        BY <1>3, <4>1, <4>2 DEF Check, RunInProgress
    <3> QED
      BY <3>1, <3>2 DEF Active
  <2>4. \A r \in Requests : r > q => row[r] = "absent"
    <3> SUFFICES ASSUME NEW r \in Requests, r > q PROVE row[r] = "absent"
      OBVIOUS
    <3>1. req[r] = "none"
      BY <1>3 DEF Check, Arrives, FlightInv, InOrder
    <3> QED
      BY <3>1 DEF FlightInv, RunInv
  <2>5. SingleInv'
    BY <2>2, <2>3, <2>4 DEF SingleInv
  <2>6. InOrder'
    BY <1>3 DEF Check, Arrives, FlightInv, InOrder, Requests
  <2> QED
    BY <2>1, <2>5, <2>6 DEF FlightInv
<1>4. ASSUME NEW q \in Requests, Commit(q) \/ Launch(q) PROVE FlightInv'
  <2>1. \A p \in Requests : RunInv(p)'
    <3>1. CASE Commit(q)
      BY <3>1 DEF Commit, FlightInv, RunInv, Unfinished, Terminal, Loading
    <3>2. CASE Launch(q)
      <4>1. RunInv(q)'
        BY <3>2 DEF Launch, Step, FlightInv, RunInv, Unfinished, Terminal, Loading, WorkerStages
      <4>2. \A p \in Requests \ {q} : RunInv(p)'
        BY <3>2 DEF Launch, Step, FlightInv, RunInv
      <4> QED
        BY <4>1, <4>2
    <3> QED
      BY <1>4, <3>1, <3>2
  <2>2. /\ Active' = Active /\ raced' = raced /\ q \in Active
        /\ \A r \in Requests : r # q => row'[r] = row[r]
    BY <1>4 DEF Commit, Launch, Step, Active, Deciding, InFlight, Loading
  <2>3. SingleInv'
    BY <2>2 DEF FlightInv, SingleInv, Requests
  <2>4. InOrder'
    BY <1>4 DEF Commit, Launch, FlightInv, InOrder
  <2> QED
    BY <2>1, <2>3, <2>4 DEF FlightInv
<1>5. CASE Crash
  <2>1. \A p \in Requests : RunInv(p)'
    BY <1>5 DEF Crash, FlightInv, RunInv, Deciding, Alive, Loading, Closing, Unfinished,
                Terminal, WorkerStages
  <2>2. Active' = {}
    BY <1>5 DEF Crash, Active, Deciding, InFlight, Alive, Loading, Closing
  <2>3. InOrder'
    BY <1>5 DEF Crash, FlightInv, InOrder, Deciding
  <2> QED
    BY <2>1, <2>2, <2>3 DEF FlightInv, SingleInv
<1>6. CASE UNCHANGED <<req, row, progress, worker, raced>>
  BY <1>6 DEF FlightInv, SingleInv, InOrder, RunInv, Active, Deciding, InFlight
<1>7. ASSUME NEW q \in Requests, LoadPart(q) \/ OrphanEnds(q) PROVE FlightInv'
  BY <1>6, <1>7 DEF LoadPart, OrphanEnds
<1> QED
  BY <1>1, <1>2, <1>3, <1>4, <1>5, <1>6, <1>7 DEF Next, Handle, vars

LEMMA FlightIsInductive == Spec => [](TypeOK /\ FlightInv)
<1>1. Init => FlightInv
  BY DEF Init, FlightInv, SingleInv, InOrder, RunInv, Active, Deciding, InFlight,
         Loading, Unfinished, Terminal
<1> QED
  BY <1>1, FlightStep, TypeInvariant, PTL DEF Spec

-----------------------------------------------------------------------------
(***************************************************************************)
(* Unless two requests raced through the check, at most one run fills the  *)
(* table, however many requests, crashes and lost saves there are.         *)
(***************************************************************************)
THEOREM OneRunInFlight == Spec => []SingleFlight
<1>1. FlightInv => SingleFlight
  BY DEF FlightInv, SingleInv, SingleFlight, Active
<1> QED
  BY <1>1, FlightIsInductive, PTL

(***************************************************************************)
(* What makes the guard refuse is a thread in flight or a dead one.        *)
(***************************************************************************)
THEOREM OnlyThreadsBlock == Spec => []BlockedOnlyByThread
<1>1. FlightInv => BlockedOnlyByThread
  BY DEF FlightInv, RunInv, BlockedOnlyByThread, RunInProgress
<1> QED
  BY <1>1, FlightIsInductive, PTL

(***************************************************************************)
(* A saved outcome is the one that the live snapshot shows, if there still *)
(* is a live snapshot.                                                     *)
(***************************************************************************)
THEOREM RowNeverAhead == Spec => []RowFollowsProgress
<1>1. FlightInv => RowFollowsProgress
  BY DEF FlightInv, RunInv, RowFollowsProgress
<1> QED
  BY <1>1, FlightIsInductive, PTL

-----------------------------------------------------------------------------
\* What a step of a thread does to the other runs, and to the table when it is
\* not loading.
LEMMA OthersStay ==
  ASSUME TypeOK, NEW q \in Requests, Work(q)
  PROVE  /\ \A p \in Requests : p # q =>
              /\ worker'[p] = worker[p] /\ row'[p] = row[p]
              /\ progress'[p] = progress[p] /\ (p \in unsure' <=> p \in unsure)
         /\ worker'[q] \in Loading => worker[q] \in Loading
         /\ q \notin InFlight => UNCHANGED table
         /\ spoiled' = spoiled /\ kind' = kind /\ asked' = asked
<1> USE DEF TypeOK, requests, table, ghosts, Step, InFlight, Loading
<1>1. CASE SaveRunning(q) \/ SaveFailed(q) \/ SaveSuccess(q)
  BY <1>1, SaveStatusEffect DEF SaveRunning, SaveFailed, SaveSuccess, Unfinished, Terminal
<1>2. CASE Begin(q) \/ Prepare(q) \/ Reconcile(q)
  BY <1>2 DEF Begin, Prepare, Reconcile
<1>3. CASE Fail(q) \/ LoseStream(q) \/ Die(q) \/ Succeed(q) \/ SucceedUnknown(q)
  BY <1>3 DEF Fail, LoseStream, Die, Succeed, SucceedUnknown
<1> QED
  BY <1>1, <1>2, <1>3 DEF Work

\* A step of a thread, as far as its own run is concerned.
LEMMA FillByThread ==
  ASSUME TypeOK, FlightInv, FillInv, NEW q \in Requests, Work(q), ~spoiled
  PROVE  FillOf(q)' /\ (q \in InFlight' => orphans' = {})
<1> USE DEF TypeOK, requests, table, ghosts, Step
<1>1. /\ FillOf(q) /\ RunInv(q)
      /\ q \in InFlight => orphans = {}
  BY DEF FillInv, FlightInv
<1>2. CASE Begin(q)
  BY <1>1, <1>2 DEF Begin, FillOf, InFlight, RunInv, Loading, Unfinished
<1>3. CASE SaveRunning(q)
  <2>1. row'[q] \in {row[q], "running"}
    BY <1>3, SaveStatusEffect DEF SaveRunning, Unfinished
  <2> QED
    BY <1>1, <1>3, <2>1 DEF SaveRunning, FillOf, InFlight, RunInv, Loading, Unfinished
<1>4. CASE Prepare(q)
  <2>1. /\ target'.run = q /\ target'.held = target.holds /\ target'.holds = Kept(q)
        /\ worker[q] = "preparing" /\ orphans' = orphans
        /\ UNCHANGED <<row, progress, kind, asked>>
    BY <1>4 DEF Prepare
  <2>2. "success" \notin {row[q], progress[q]}
    BY <1>1, <2>1 DEF RunInv, Loading, Unfinished
  <2>3. kind[q] \in Repairs => target.holds \subseteq Kept(q) \cup asked[q]
    BY DEF Repairs, Kept
  <2> QED
    BY <1>1, <2>1, <2>2, <2>3 DEF FillOf, InFlight, Loading
<1>5. CASE Fail(q) \/ LoseStream(q) \/ Die(q)
  BY <1>1, <1>5 DEF Fail, LoseStream, Die, FillOf, InFlight, RunInv, Loading, Unfinished
<1>6. CASE SaveFailed(q)
  <2>1. row'[q] \in {row[q], "failed"}
    BY <1>6, SaveStatusEffect DEF SaveFailed, Terminal
  <2> QED
    BY <1>1, <1>6, <2>1 DEF SaveFailed, FillOf, InFlight, RunInv, Loading
<1>7. CASE Succeed(q)
  <2>1. target.run = q /\ (kind[q] \in Repairs => target.held \subseteq target.holds \cup asked[q])
    BY <1>1, <1>7 DEF Succeed, FillOf
  <2>2. /\ target' = [target EXCEPT !.holds = @ \cup asked[q]]
        /\ worker'[q] = "succeeding" /\ UNCHANGED <<kind, asked>>
    BY <1>7, <2>1 DEF Succeed
  <2>3. target'.held = target.held /\ target'.holds = target.holds \cup asked[q]
    BY <2>2 DEF Tables
  <2> QED
    BY <2>1, <2>2, <2>3 DEF FillOf, InFlight, Loading
<1>8. CASE SucceedUnknown(q)
  BY <1>8 DEF SucceedUnknown, FillOf, InFlight, Loading
<1>9. CASE SaveSuccess(q)
  <2>1. row'[q] \in {row[q], "success"}
    BY <1>9, SaveStatusEffect DEF SaveSuccess, Terminal
  <2> QED
    BY <1>1, <1>9, <2>1 DEF SaveSuccess, FillOf, InFlight, RunInv, Loading
<1>10. CASE Reconcile(q)
  BY <1>1, <1>10 DEF Reconcile, FillOf, InFlight, Loading
<1> QED
  BY <1>2, <1>3, <1>4, <1>5, <1>6, <1>7, <1>8, <1>9, <1>10 DEF Work

\* A thread that moves the table does so while no other run is loading.
LEMMA FillOfOthers ==
  ASSUME TypeOK, FillInv, NEW q \in Requests, Work(q), ~spoiled,
         NEW p \in Requests, p # q
  PROVE  FillOf(p)' /\ (p \in InFlight' => p \in InFlight)
<1> USE DEF TypeOK, requests, table, ghosts, Step
<1>1. /\ FillOf(p) /\ FillOf(q)
      /\ worker'[p] = worker[p] /\ row'[p] = row[p] /\ progress'[p] = progress[p]
      /\ p \in unsure' <=> p \in unsure
      /\ kind' = kind /\ asked' = asked
  BY OthersStay DEF FillInv
<1>2. p \in InFlight' => p \in InFlight
  BY <1>1 DEF InFlight
<1>3. CASE target' = target
  BY <1>1, <1>2, <1>3 DEF FillOf
<1>4. CASE target'.run = q /\ q \in InFlight
  <2>1. worker[p] # "copying"
    BY <1>4 DEF FillInv, InFlight, Loading
  <2> QED
    BY <1>1, <1>2, <1>4, <2>1 DEF FillOf
<1>5. target' = target \/ (target'.run = q /\ q \in InFlight)
  <2>1. CASE Prepare(q)
    BY <2>1 DEF Prepare, InFlight, Loading
  <2>2. CASE Succeed(q)
    <3>1. target.run = q /\ q \in InFlight
      BY <1>1, <2>2 DEF Succeed, FillOf, InFlight, Loading
    <3>2. target' = [target EXCEPT !.holds = @ \cup asked[q]]
      BY <2>2, <3>1 DEF Succeed
    <3> QED
      BY <3>1, <3>2 DEF Tables
  <2>3. CASE LoseStream(q) \/ SucceedUnknown(q)
    BY <2>3 DEF LoseStream, SucceedUnknown
  <2>4. CASE UNCHANGED table
    BY <2>4
  <2> QED
    BY <2>1, <2>2, <2>3, <2>4 DEF Work, Begin, SaveRunning, Fail, Die, SaveFailed,
       SaveSuccess, Reconcile
<1> QED
  BY <1>2, <1>3, <1>4, <1>5

LEMMA FillStep == TypeOK /\ FlightInv /\ FillInv /\ [Next]_vars => FillInv'
<1> SUFFICES ASSUME TypeOK, FlightInv, FillInv, [Next]_vars, ~spoiled'
             PROVE  /\ \A p, q \in InFlight' : p = q
                    /\ InFlight' # {} => orphans' = {}
                    /\ \A q \in Requests : FillOf(q)'
  BY DEF FillInv
<1> DEFINE Goal == /\ \A p, q \in InFlight' : p = q
                   /\ InFlight' # {} => orphans' = {}
                   /\ \A q \in Requests : FillOf(q)'
<1> USE DEF TypeOK, requests, table, ghosts, Step
<1>1. ASSUME NEW q \in Requests, Work(q) PROVE Goal
  <2>1. /\ ~spoiled
        /\ q \in InFlight' => q \in InFlight
        /\ q \notin InFlight => UNCHANGED table
    BY <1>1, OthersStay DEF InFlight
  <2>2. InFlight' \subseteq InFlight
    BY <1>1, <2>1, FillOfOthers DEF InFlight
  <2>3. InFlight' # {} => orphans' = {}
    BY <1>1, <2>1, <2>2, FillByThread DEF FillInv
  <2>4. \A p \in Requests : FillOf(p)'
    BY <1>1, <2>1, FillByThread, FillOfOthers
  <2> QED
    BY <2>1, <2>2, <2>3, <2>4 DEF FillInv
<1>2. ASSUME UNCHANGED <<progress, worker, table, spoiled, unsure>>,
             \A p \in Requests : worker[p] # "none" => kind'[p] = kind[p] /\ asked'[p] = asked[p],
             \A p \in Requests : row'[p] = row[p] \/ row'[p] = "pending",
             \A p \in Requests : worker[p] = "none" =>
               "success" \notin {row'[p], progress[p]}
      PROVE  Goal
  <2>1. ~spoiled /\ InFlight' = InFlight
    BY <1>2 DEF InFlight
  <2>2. \A p \in Requests : FillOf(p)'
    BY <1>2, <2>1 DEF FillInv, FillOf
  <2> QED
    BY <1>2, <2>1, <2>2 DEF FillInv
<1>3. ASSUME NEW q \in Requests, Refuse(q) \/ Check(q) \/ Commit(q) PROVE Goal
  <2>1. worker[q] = "none"
    BY <1>3 DEF Refuse, Check, Commit, Arrives, FlightInv, RunInv
  <2>2. \A p \in Requests : worker[p] = "none" =>
          "success" \notin {row[p], progress[p]}
    BY <1>3 DEF Refuse, Check, Commit, FillInv, FillOf
  <2>3. ~spoiled
    BY <1>3 DEF Refuse, Check, Commit
  <2> QED
    BY <1>2, <1>3, <2>1, <2>2, <2>3 DEF Refuse, Check, Commit, FillInv, FillOf
<1>4. ASSUME NEW q \in Requests, Launch(q) PROVE Goal
  <2>1. /\ ~spoiled /\ InFlight = {} /\ orphans = {}
        /\ UNCHANGED <<row, target, orphans, unsure, kind, asked>>
        /\ progress' = [progress EXCEPT ![q] = "pending"]
        /\ worker' = [worker EXCEPT ![q] = "queued"]
    BY <1>4 DEF Launch
  <2>2. \A p \in InFlight' : p = q
    BY <2>1 DEF InFlight
  <2>3. \A p \in Requests : FillOf(p)'
    BY <2>1 DEF FillInv, FillOf
  <2> QED
    BY <2>1, <2>2, <2>3
<1>5. ASSUME NEW q \in Requests, LoadPart(q) PROVE Goal
  <2>1. /\ ~spoiled /\ InFlight' = InFlight
        /\ UNCHANGED <<row, progress, worker, orphans, unsure, kind, asked>>
    BY <1>5 DEF LoadPart, InFlight
  <2>2. target'.run = target.run /\ target'.held = target.held /\ target.holds \subseteq target'.holds
    BY <1>5 DEF LoadPart, Tables
  <2>3. \A p \in Requests : FillOf(p)'
    BY <2>1, <2>2 DEF FillInv, FillOf
  <2> QED
    BY <2>1, <2>3 DEF FillInv
<1>6. ASSUME NEW q \in Requests, OrphanEnds(q) PROVE Goal
  BY <1>6 DEF OrphanEnds, FillInv, FillOf, InFlight
<1>7. CASE Crash
  <2>1. InFlight' = {}
    BY <1>7 DEF Crash, Alive, InFlight, Loading, Closing
  <2>2. /\ ~spoiled /\ UNCHANGED <<row, target, kind, asked, unsure>>
        /\ \A p \in Requests : progress'[p] = "absent"
        /\ \A p \in Requests : worker'[p] # "copying"
        /\ \A p \in Requests : worker'[p] = "none" => worker[p] = "none"
    BY <1>7 DEF Crash, Alive, Loading
  <2>3. \A p \in Requests : FillOf(p)'
    BY <2>2 DEF FillInv, FillOf
  <2> QED
    BY <2>1, <2>3
<1>8. CASE UNCHANGED vars
  <2>1. InFlight' = InFlight /\ orphans' = orphans /\ spoiled' = spoiled
    BY <1>8 DEF vars, InFlight
  <2>2. \A p \in Requests : FillOf(p)' = FillOf(p)
    BY <1>8 DEF vars, FillOf
  <2> QED
    BY <2>1, <2>2 DEF FillInv
<1> QED
  BY <1>1, <1>3, <1>4, <1>5, <1>6, <1>7, <1>8 DEF Next, Handle

-----------------------------------------------------------------------------
(***************************************************************************)
(* A run shown as a success that was the last to touch the table has left  *)
(* in it all it asked for, and as a repair has lost nothing, for any       *)
(* number of requests, crashes, lost saves and broken streams.  Excepted   *)
(* are a run that took an unknown exit for success and what follows the    *)
(* launch of a run on top of another or of an ora2pg still at work.        *)
(***************************************************************************)
THEOREM SuccessMeansWhole == Spec => []SuccessIsWhole
<1>1. Init => FillInv
  BY DEF Init, FillInv, FillOf, InFlight, Loading
<1>2. FillInv /\ TypeOK /\ FlightInv /\ [Next]_vars => FillInv'
  BY FillStep
<1>3. FillInv => SuccessIsWhole
  BY DEF FillInv, FillOf, SuccessIsWhole
<1> QED
  BY <1>1, <1>2, <1>3, FlightIsInductive, PTL DEF Spec
=============================================================================
