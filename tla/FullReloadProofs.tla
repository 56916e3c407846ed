--------------------------- MODULE FullReloadProofs ---------------------------
(***************************************************************************)
(* Proofs about FullReload, for any rows, any number of reloaders, any     *)
(* bound and any set of disturbances.                                      *)
(***************************************************************************)
EXTENDS FullReload, TLAPS

\* The content of the view at an earlier time does not change when the view does.
LEMMA HistoryGrows ==
  ASSUME history \in Seq(SUBSET Rows), NEW contents \in SUBSET Rows,
         history' = Append(history, contents)
  PROVE  /\ history' \in Seq(SUBSET Rows)
         /\ Len(history') = Len(history) + 1
         /\ \A v \in 1..Len(history) : history'[v] = history[v]
  OBVIOUS

\* The records that stand for tables and jobs keep their types.
LEMMA TableOps ==
  /\ NoTable \in Table
  /\ EmptyTable \in Table
  /\ NoExec \in Exec
  /\ ~NoTable.present
  /\ ~NoExec.on
  BY DEF NoTable, EmptyTable, Table, NoExec, Exec, Snapshots!NoTable

LEMMA WithRowsType ==
  ASSUME NEW table \in Table, NEW new \in SUBSET Rows
  PROVE  WithRows(table, new) \in Table
<1> DEFINE twice == IF table.rows \cap new = {} THEN table.dup ELSE TRUE
<1>1. twice \in BOOLEAN
  BY DEF Table
<1>2. table.rows \cup new \in SUBSET Rows
  BY DEF Table
<1> HIDE DEF twice
<1>3. Holding(table.rows \cup new, twice) \in Table
  BY <1>1, <1>2 DEF Holding, Table
<1> QED
  BY <1>3 DEF WithRows, twice

LEMMA RemainingType ==
  ASSUME history \in Seq(SUBSET Rows), NEW job, job.version \in 1..Len(history),
         NEW new \in SUBSET Remaining(job)
  PROVE  new \in SUBSET Rows
  BY DEF Remaining

LEMMA SentMoreType ==
  ASSUME NEW job \in Exec, NEW new \in SUBSET Rows
  PROVE  SentMore(job, new) \in Exec
  BY DEF SentMore, Exec

LEMMA CopyType ==
  ASSUME NEW hist \in Seq(SUBSET Rows), NEW v \in 1..Len(hist)
  PROVE  Snapshots!Copy(hist, v) \in Table
<1>1. hist[v] \in SUBSET Rows /\ v \in Nat
  OBVIOUS
<1> QED
  BY <1>1 DEF Snapshots!Copy, Table

LEMMA StampType ==
  ASSUME NEW table \in Table, NEW job \in Exec
  PROVE  StampedBy(table, job) \in Table
  BY DEF StampedBy, Table, Exec, Holding, Snapshots!Copy

\* The type invariant, strengthened by what makes it inductive: a COPY that has not
\* finished reads a content the view has had.
IType == TypeOK /\ JobsReadView /\ Len(history) > 0

LEMMA TypeIsInductive == Spec => []IType
<1>1. Init => IType
  <2> SUFFICES ASSUME Init PROVE IType
    OBVIOUS
  <2>1. PICK contents \in SUBSET Rows : history = <<contents>>
    BY DEF Init
  <2>2. history \in Seq(SUBSET Rows) /\ Len(history) = 1 /\ history[1] = contents
    BY <2>1
  <2>3. live \in Table
    <3>1. Snapshots!Copy(history, 1) \in Table
      BY <2>2, CopyType
    <3> QED
      BY <3>1, TableOps DEF Init
  <2>4. TypeOK
    BY <2>2, <2>3, TableOps DEF Init, TypeOK, Stages
  <2>5. JobsReadView
    BY DEF Init, JobsReadView, NoExec
  <2> QED
    BY <2>2, <2>4, <2>5 DEF IType
<1>2. IType /\ [Next]_vars => IType'
  <2> SUFFICES ASSUME IType, [Next]_vars PROVE IType'
    OBVIOUS
  <2> USE TableOps DEF IType, TypeOK, JobsReadView, tables, threads, ghosts, Stages
  <2>0. Len(history) \in Nat /\ Len(history) > 0
    OBVIOUS
  <2>1. ASSUME NEW r \in Reloaders, Cycle(r) PROVE IType'
    <3>1. CASE CountBefore(r)
      BY <3>1 DEF CountBefore, CountAnswers, HasRows
    <3>2. CASE ClearTemp(r)
      BY <3>2 DEF ClearTemp, Move
    <3>3. CASE Unreachable(r)
      BY <3>3 DEF Unreachable, Finish
    <3>4. CASE CreateTemp(r)
      BY <3>4 DEF CreateTemp, Move
    <3>5. CASE TagTemp(r)
      BY <3>5 DEF TagTemp, Move
    <3>6. CASE StartCopy(r)
      <4> DEFINE job == [on |-> TRUE, version |-> Len(history), sent |-> {}]
      <4>1. /\ job \in Exec
            /\ job.version = Len(history)
        BY DEF Exec
      <4> HIDE DEF job
      <4>2. exec' = [exec EXCEPT ![r] = job]
        BY <3>6 DEF StartCopy, job
      <4>3. Len(history) \in 1..Len(history)
        BY <2>0
      <4> QED
        BY <3>6, <4>1, <4>2, <4>3 DEF StartCopy
    <3>7. CASE CopyChunk(r)
      <4>1. PICK new \in SUBSET Remaining(exec[r]) :
              /\ fresh' = WithRows(fresh, new)
              /\ exec' = [exec EXCEPT ![r] = SentMore(exec[r], new)]
        BY <3>7 DEF CopyChunk
      <4>2. new \in SUBSET Rows
        BY <3>7, <4>1, RemainingType DEF CopyChunk
      <4>3. /\ fresh' \in Table
            /\ exec'[r] \in Exec
            /\ exec'[r].version = exec[r].version
        BY <4>1, <4>2, WithRowsType, SentMoreType DEF SentMore
      <4> QED
        BY <3>7, <4>1, <4>3 DEF CopyChunk
    <3>8. CASE CopyDone(r)
      BY <3>8, StampType DEF CopyDone, Move
    <3>9. CASE FailAndDrop(r)
      BY <3>9 DEF FailAndDrop, Finish
    <3>10. CASE LoseStream(r)
      BY <3>10 DEF LoseStream, Finish
    <3>11. CASE UnknownExit(r)
      BY <3>11 DEF UnknownExit, Move
    <3>12. CASE RefuseEmpty(r)
      BY <3>12 DEF RefuseEmpty, Finish
    <3>13. CASE AcceptCopy(r)
      BY <3>13 DEF AcceptCopy, Move
    <3>14. CASE Swap(r)
      BY <3>14 DEF Swap, Finish
    <3>15. CASE FailUndropped(r)
      <4>1. leftover' \in BOOLEAN
        BY <3>15 DEF FailUndropped, Table
      <4> QED
        BY <3>15, <4>1 DEF FailUndropped, Finish
    <3> QED
      BY <2>1, <3>1, <3>2, <3>3, <3>4, <3>5, <3>6, <3>7, <3>8, <3>9, <3>10,
         <3>11, <3>12, <3>13, <3>14, <3>15 DEF Cycle
  <2>2. CASE Crash
    <3>1. /\ orphan' \in Exec
          /\ orphan'.on => orphan'.version \in 1..Len(history)
      BY <2>2 DEF Crash
    <3>2. fresh.present \in BOOLEAN /\ leftover' \in BOOLEAN
      BY <2>2 DEF Crash, Table
    <3>3. clean' \in BOOLEAN
      BY <2>2 DEF Crash
    <3> QED
      BY <2>2, <3>1, <3>2, <3>3 DEF Crash
  <2>3. CASE OrphanChunk
    <3>1. PICK new \in SUBSET Remaining(orphan) :
            /\ fresh' = WithRows(fresh, new)
            /\ orphan' = SentMore(orphan, new)
      BY <2>3 DEF OrphanChunk
    <3>2. new \in SUBSET Rows
      BY <2>3, <3>1, RemainingType DEF OrphanChunk
    <3>3. /\ fresh' \in Table
          /\ orphan' \in Exec
          /\ orphan'.version = orphan.version
      BY <3>1, <3>2, WithRowsType, SentMoreType DEF SentMore
    <3> QED
      BY <2>3, <3>3 DEF OrphanChunk
  <2>4. CASE OrphanEnds
    BY <2>4 DEF OrphanEnds
  <2>5. CASE SourceChanges
    <3>1. /\ history' \in Seq(SUBSET Rows)
          /\ Len(history') = Len(history) + 1
      BY <2>5, HistoryGrows DEF SourceChanges
    <3>2. 1..Len(history) \subseteq 1..Len(history')
      BY <2>0, <3>1
    <3>3. TypeOK'
      BY <2>5, <3>1 DEF SourceChanges
    <3>4. JobsReadView'
      BY <2>5, <3>2 DEF SourceChanges
    <3>5. Len(history') > 0
      BY <2>0, <3>1
    <3> QED
      BY <3>3, <3>4, <3>5
  <2>6. CASE UNCHANGED vars
    BY <2>6 DEF vars
  <2> QED
    BY <2>1, <2>2, <2>3, <2>4, <2>5, <2>6 DEF Next
<1> QED
  BY <1>1, <1>2, PTL DEF Spec

-----------------------------------------------------------------------------
LiveInv ==
  /\ live = NoTable \/ IsSnapshot(live)
  /\ live.version <= Len(history)

\* A step of one thread that leaves the reload clean is a step of the only thread
\* that is in a cycle, or the first step of a cycle when no thread is in one.
LEMMA OnlyOneSteps ==
  ASSUME IType, CleanInv, clean, clean', NEW r \in Reloaders, Cycle(r)
  PROVE  /\ \A s \in Reloaders \ {r} : pc[s] = "idle" /\ pc'[s] = "idle"
         /\ ~orphan'.on
         /\ history' = history
<1> USE DEF IType, TypeOK, tables, threads, ghosts
<1>1. \A s \in Reloaders \ {r} : pc[s] = "idle"
  <2>1. CASE CountBefore(r)
    BY <2>1 DEF CountBefore, Busy
  <2>2. CASE ~CountBefore(r)
    <3>1. pc[r] # "idle"
      BY <2>2 DEF Cycle, ClearTemp, Unreachable, CreateTemp, TagTemp, StartCopy, CopyChunk,
                  CopyDone, FailAndDrop, FailUndropped, LoseStream, UnknownExit, RefuseEmpty, AcceptCopy,
         Swap
    <3> QED
      BY <3>1 DEF CleanInv, OneAtATime, Busy
  <2> QED
    BY <2>1, <2>2
<1>2. \A s \in Reloaders \ {r} : pc'[s] = pc[s]
  BY DEF Cycle, CountBefore, ClearTemp, Unreachable, CreateTemp, TagTemp, StartCopy, CopyChunk,
         CopyDone, FailAndDrop, FailUndropped, LoseStream, UnknownExit, RefuseEmpty, AcceptCopy,
         Swap,
         Move, Finish
<1>3. orphan' = orphan /\ history' = history
  BY DEF Cycle, CountBefore, ClearTemp, Unreachable, CreateTemp, TagTemp, StartCopy, CopyChunk,
         CopyDone, FailAndDrop, FailUndropped, LoseStream, UnknownExit, RefuseEmpty, AcceptCopy,
         Swap
<1> QED
  BY <1>1, <1>2, <1>3 DEF CleanInv

\* What the stages of a cycle make of the temporary and the live table.
LEMMA StageSteps ==
  ASSUME IType, CleanInv, clean, clean', NEW r \in Reloaders, Cycle(r)
  PROVE  LiveInv' /\ StageInv(r)'
<1> USE TableOps DEF IType, TypeOK, JobsReadView, tables, threads, ghosts, Stages
<1>0. LiveInv /\ StageInv(r) /\ history' = history
  BY OnlyOneSteps DEF CleanInv, LiveInv
<1>1. CASE CountBefore(r)
  BY <1>0, <1>1 DEF CountBefore, LiveInv, StageInv, IsSnapshot, HasRows
<1>2. CASE ClearTemp(r)
  BY <1>0, <1>2 DEF ClearTemp, Move, LiveInv, StageInv, IsSnapshot, HasRows
<1>3. CASE Unreachable(r)
  BY <1>0, <1>3 DEF Unreachable, Finish, LiveInv, StageInv, IsSnapshot
<1>4. CASE CreateTemp(r)
  BY <1>0, <1>4 DEF CreateTemp, Move, LiveInv, StageInv, IsSnapshot, HasRows
<1>5. CASE TagTemp(r)
  BY <1>0, <1>5 DEF TagTemp, Move, LiveInv, StageInv, IsSnapshot, HasRows
<1>6. CASE StartCopy(r)
  BY <1>0, <1>6 DEF StartCopy, LiveInv, StageInv, IsSnapshot, HasRows, EmptyTable, Holding
<1>7. CASE CopyChunk(r)
  <2>1. PICK new \in SUBSET Remaining(exec[r]) :
          /\ fresh' = WithRows(fresh, new)
          /\ exec' = [exec EXCEPT ![r] = SentMore(exec[r], new)]
    BY <1>7 DEF CopyChunk
  <2>2. pc[r] = "copying" /\ pc' = pc /\ before' = before /\ live' = live
    BY <1>7 DEF CopyChunk
  <2>3. /\ exec'[r].version = exec[r].version
        /\ exec'[r].sent = exec[r].sent \cup new
    BY <2>1 DEF SentMore
  <2>4. exec[r].sent \cap new = {} /\ new \subseteq history[exec[r].version]
    BY <2>1 DEF Remaining
  <2>5. fresh = Holding(exec[r].sent, FALSE)
    BY <1>0, <2>2 DEF StageInv
  <2>6. fresh.rows = exec[r].sent /\ fresh.dup = FALSE
    BY <2>5 DEF Holding
  <2>7. fresh' = Holding(exec'[r].sent, FALSE)
    BY <2>1, <2>3, <2>4, <2>6 DEF WithRows
  <2>8. live.version <= exec'[r].version /\ exec'[r].sent \subseteq history[exec'[r].version]
    BY <1>0, <2>2, <2>3, <2>4 DEF StageInv
  <2>9. LiveInv'
    BY <1>0, <2>2 DEF LiveInv, IsSnapshot
  <2> QED
    BY <1>0, <2>2, <2>7, <2>8, <2>9 DEF StageInv, HasRows
<1>8. CASE CopyDone(r)
  <2>1. /\ pc[r] = "copying"
        /\ pc' = [pc EXCEPT ![r] = "copied"]
        /\ before' = before /\ live' = live
        /\ Remaining(exec[r]) = {}
        /\ fresh' = StampedBy(fresh, exec[r])
    BY <1>8 DEF CopyDone, Move
  <2>2. /\ exec[r].version \in 1..Len(history)
        /\ live.version <= exec[r].version
        /\ fresh = Holding(exec[r].sent, FALSE)
        /\ exec[r].sent \subseteq history[exec[r].version]
    BY <1>0, <2>1 DEF StageInv
  <2>3. exec[r].sent = history[exec[r].version]
    BY <2>1, <2>2 DEF Remaining
  <2>4. fresh' = Snapshots!Copy(history, exec[r].version)
    BY <2>1, <2>2, <2>3 DEF StampedBy
  <2>5. fresh'.version = exec[r].version
    BY <2>4 DEF Snapshots!Copy
  <2>6. FreshWanted'
    BY <1>0, <2>1, <2>2, <2>4, <2>5 DEF FreshWanted, IsSnapshot
  <2>7. LiveInv'
    BY <1>0, <2>1 DEF LiveInv, IsSnapshot
  <2> QED
    BY <1>0, <2>1, <2>6, <2>7 DEF StageInv, HasRows
<1>9. CASE FailAndDrop(r)
  BY <1>0, <1>9 DEF FailAndDrop, Finish, LiveInv, StageInv, IsSnapshot
<1>10. CASE LoseStream(r)
  BY <1>10 DEF LoseStream
<1>11. CASE UnknownExit(r)
  BY <1>11 DEF UnknownExit
<1>12. CASE RefuseEmpty(r)
  BY <1>0, <1>12 DEF RefuseEmpty, Finish, LiveInv, StageInv, IsSnapshot
<1>13. CASE AcceptCopy(r)
  <2>1. /\ pc[r] = "copied" /\ pc'[r] = "checked"
        /\ before' = before /\ live' = live /\ fresh' = fresh
        /\ before[r] => HasRows(fresh)
    BY <1>13 DEF AcceptCopy, Move
  <2>2. live.rows # {} => live.present
    BY <1>0 DEF LiveInv, IsSnapshot, NoTable, Snapshots!NoTable, Snapshots!Copy
  <2>3. live.rows # {} => fresh.rows # {}
    BY <1>0, <2>1, <2>2 DEF StageInv, HasRows
  <2>4. FreshWanted'
    BY <1>0, <2>1 DEF StageInv, FreshWanted, IsSnapshot
  <2>5. LiveInv'
    BY <1>0, <2>1 DEF LiveInv, IsSnapshot
  <2> QED
    BY <1>0, <2>1, <2>3, <2>4, <2>5 DEF StageInv, HasRows
<1>14. CASE Swap(r)
  <2>1. /\ pc[r] = "checked" /\ pc'[r] = "idle"
        /\ live' = fresh
    BY <1>14 DEF Swap, Finish
  <2>2. IsSnapshot(fresh)
    BY <1>0, <2>1 DEF StageInv, FreshWanted
  <2>3. LiveInv'
    BY <1>0, <2>1, <2>2 DEF LiveInv, IsSnapshot
  <2> QED
    BY <2>1, <2>3 DEF StageInv
<1>15. CASE FailUndropped(r)
  BY <1>0, <1>15 DEF FailUndropped, Finish, LiveInv, StageInv, IsSnapshot
<1> QED
  BY <1>1, <1>2, <1>3, <1>4, <1>5, <1>6, <1>7, <1>8, <1>9, <1>10, <1>11, <1>12,
     <1>13, <1>14, <1>15 DEF Cycle

\* Steps of the environment, and steps of a thread that spoil the reload.
LEMMA CleanStep == IType /\ CleanInv /\ [Next]_vars => CleanInv'
<1> SUFFICES ASSUME IType, CleanInv, [Next]_vars, clean' PROVE CleanInv'
  BY DEF CleanInv
<1> USE DEF IType, TypeOK, tables, threads, ghosts
<1>0. clean
  BY DEF Next, Cycle, CountBefore, ClearTemp, Unreachable, CreateTemp, TagTemp, StartCopy,
         CopyChunk, CopyDone, FailAndDrop, FailUndropped, LoseStream, UnknownExit, RefuseEmpty, AcceptCopy,
         Swap, Crash, OrphanChunk, OrphanEnds, SourceChanges, vars
<1>1. ASSUME NEW r \in Reloaders, Cycle(r) PROVE CleanInv'
  <2>1. /\ \A s \in Reloaders \ {r} : pc'[s] = "idle"
        /\ ~orphan'.on
    BY <1>0, <1>1, OnlyOneSteps
  <2>2. LiveInv' /\ StageInv(r)'
    BY <1>0, <1>1, StageSteps
  <2>3. \A s \in Reloaders \ {r} : StageInv(s)'
    BY <2>1 DEF StageInv
  <2>4. OneAtATime'
    BY <2>1 DEF OneAtATime, Busy
  <2> QED
    BY <2>1, <2>2, <2>3, <2>4 DEF CleanInv, LiveInv
<1>2. CASE Crash
  <2>1. /\ \A r \in Reloaders : pc'[r] = "idle"
        /\ orphan' = orphan /\ live' = live /\ history' = history
    BY <1>2 DEF Crash
  <2>2. \A r \in Reloaders : StageInv(r)'
    BY <2>1 DEF StageInv
  <2>3. LiveInv'
    BY <1>0, <2>1 DEF CleanInv, LiveInv, IsSnapshot
  <2> QED
    BY <1>0, <2>1, <2>2, <2>3 DEF CleanInv, LiveInv, OneAtATime, Busy
<1>3. CASE OrphanChunk \/ OrphanEnds
  BY <1>0, <1>3 DEF CleanInv, OrphanChunk, OrphanEnds
<1>4. CASE SourceChanges
  <2>1. /\ \A v \in 1..Len(history) : v \in 1..Len(history') /\ history'[v] = history[v]
        /\ Len(history') = Len(history) + 1
    BY <1>4, HistoryGrows DEF SourceChanges
  <2>2. live' = live /\ fresh' = fresh /\ pc' = pc /\ before' = before /\ exec' = exec
        /\ orphan' = orphan
    BY <1>4 DEF SourceChanges
  <2>4. IsSnapshot(live) => IsSnapshot(live)'
    BY <2>1, <2>2 DEF IsSnapshot, Snapshots!Copy
  <2>5. LiveInv'
    BY <1>0, <2>1, <2>2, <2>4 DEF CleanInv, LiveInv, Table
  <2>6. FreshWanted => FreshWanted'
    BY <2>1, <2>2 DEF FreshWanted, IsSnapshot, Snapshots!Copy
  <2>7. ASSUME NEW r \in Reloaders PROVE StageInv(r)'
    <3>1. StageInv(r)
      BY <1>0 DEF CleanInv
    <3>2. pc[r] = "copying" => exec[r].version \in 1..Len(history)
      BY DEF JobsReadView
    <3> QED
      BY <2>1, <2>2, <2>6, <3>1, <3>2 DEF StageInv, HasRows
  <2> QED
    BY <1>0, <2>2, <2>5, <2>7 DEF CleanInv, LiveInv, OneAtATime, Busy
<1>5. CASE UNCHANGED vars
  BY <1>5 DEF vars, CleanInv, OneAtATime, Busy, StageInv, FreshWanted, IsSnapshot, HasRows
<1> QED
  BY <1>1, <1>2, <1>3, <1>4, <1>5 DEF Next

LEMMA CleanIsInductive == Spec => [](IType /\ CleanInv)
<1>1. Init => CleanInv
  <2> SUFFICES ASSUME Init PROVE CleanInv
    OBVIOUS
  <2>1. Len(history) = 1
    BY DEF Init
  <2>2. live = NoTable \/ IsSnapshot(live)
    BY <2>1 DEF Init, IsSnapshot, Snapshots!Copy
  <2>3. live.version <= Len(history)
    BY <2>1 DEF Init, NoTable, Snapshots!NoTable, Snapshots!Copy
  <2>4. \A r \in Reloaders : StageInv(r)
    BY DEF Init, StageInv
  <2> QED
    BY <2>2, <2>3, <2>4, TableOps DEF Init, CleanInv, OneAtATime, Busy
<1> QED
  BY <1>1, CleanStep, TypeIsInductive, PTL DEF Spec

-----------------------------------------------------------------------------
(***************************************************************************)
(* Every variable keeps its type.                                          *)
(***************************************************************************)
THEOREM TypeInvariant == Spec => []TypeOK
<1>1. IType => TypeOK
  BY DEF IType
<1> QED
  BY <1>1, TypeIsInductive, PTL

(***************************************************************************)
(* While the reload is clean, readers of the staging table see no table or *)
(* one complete copy of the view.                                          *)
(***************************************************************************)
THEOREM ReadersSeeSnapshots == Spec => []LiveIsSnapshot
<1>1. CleanInv => LiveIsSnapshot
  BY DEF CleanInv, LiveIsSnapshot
<1> QED
  BY <1>1, CleanIsInductive, PTL

(***************************************************************************)
(* While the reload is clean, <target>_new exists only in the stages of a  *)
(* cycle that need it, or because a crash or a lost connection left it.    *)
(***************************************************************************)
THEOREM TempIsCleanedUp == Spec => []TempOnlyInCycle
<1> DEFINE Late == {"created", "tagged", "copying", "copied", "checked"}
<1>1. Init => TempOnlyInCycle
  BY TableOps DEF Init, TempOnlyInCycle
<1>2. IType /\ CleanInv /\ TempOnlyInCycle /\ [Next]_vars => TempOnlyInCycle'
  <2> SUFFICES ASSUME IType, CleanInv, TempOnlyInCycle, [Next]_vars, clean', fresh'.present
               PROVE  leftover' \/ \E r \in Reloaders : pc'[r] \in Late
    BY DEF TempOnlyInCycle
  <2> USE TableOps DEF IType, TypeOK, tables, threads, ghosts
  <2>1. ASSUME NEW r \in Reloaders, Cycle(r)
        PROVE  leftover' \/ \E s \in Reloaders : pc'[s] \in Late
    <3>1. CASE CountBefore(r)
      BY <3>1 DEF CountBefore, TempOnlyInCycle, Busy
    <3>2. CASE CreateTemp(r) \/ TagTemp(r) \/ StartCopy(r) \/ CopyChunk(r) \/ CopyDone(r)
               \/ AcceptCopy(r)
      BY <3>2 DEF CreateTemp, TagTemp, StartCopy, CopyChunk, CopyDone, AcceptCopy, Move
    <3>3. CASE ClearTemp(r) \/ FailAndDrop(r) \/ RefuseEmpty(r) \/ Swap(r)
      BY <3>3 DEF ClearTemp, FailAndDrop, RefuseEmpty, Swap
    <3>4. CASE LoseStream(r) \/ UnknownExit(r)
      BY <3>4 DEF LoseStream, UnknownExit
    <3>5. CASE Unreachable(r)
      BY <3>5 DEF Unreachable, CleanInv, StageInv
    <3>6. CASE FailUndropped(r)
      BY <3>6 DEF FailUndropped
    <3> QED
      BY <2>1, <3>1, <3>2, <3>3, <3>4, <3>5, <3>6 DEF Cycle
  <2>2. CASE Crash
    BY <2>2 DEF Crash
  <2>3. CASE OrphanChunk \/ OrphanEnds \/ SourceChanges \/ UNCHANGED vars
    BY <2>3 DEF OrphanChunk, OrphanEnds, SourceChanges, vars, TempOnlyInCycle, CleanInv
  <2> QED
    BY <2>1, <2>2, <2>3 DEF Next
<1> QED
  BY <1>1, <1>2, CleanIsInductive, PTL DEF Spec

\* A step of the reload that leaves it clean is a step of the abstract table.
LEMMA StepPublishes ==
  ASSUME IType, CleanInv, [Next]_vars, clean'
  PROVE  Snapshots!Next \/ UNCHANGED <<history, live>>
<1> USE DEF tables, threads, ghosts
<1>0. clean
  BY DEF Next, Cycle, CountBefore, ClearTemp, Unreachable, CreateTemp, TagTemp, StartCopy,
         CopyChunk, CopyDone, FailAndDrop, FailUndropped, LoseStream, UnknownExit, RefuseEmpty, AcceptCopy,
         Swap, Crash, OrphanChunk, OrphanEnds, SourceChanges, vars
<1>1. ASSUME NEW r \in Reloaders, Swap(r) PROVE Snapshots!Publish
  <2>1. /\ IsSnapshot(fresh)
        /\ live.version <= fresh.version
        /\ live.rows # {} => fresh.rows # {}
    BY <1>0, <1>1 DEF CleanInv, StageInv, FreshWanted, Swap
  <2>2. fresh.rows = history[fresh.version]
    BY <2>1 DEF IsSnapshot, Snapshots!Copy
  <2>3. live' = Snapshots!Copy(history, fresh.version) /\ history' = history
    BY <1>1, <2>1 DEF Swap, IsSnapshot
  <2> QED
    BY <2>1, <2>2, <2>3 DEF IsSnapshot, Snapshots!Publish
<1>2. CASE SourceChanges
  BY <1>2 DEF SourceChanges, Snapshots!Next, Snapshots!SourceChanges
<1>3. CASE ~SourceChanges /\ ~\E r \in Reloaders : Swap(r)
  BY <1>3 DEF Next, Cycle, CountBefore, ClearTemp, Unreachable, CreateTemp, TagTemp, StartCopy,
         CopyChunk, CopyDone, FailAndDrop, FailUndropped, LoseStream, UnknownExit, RefuseEmpty, AcceptCopy,
         Crash, OrphanChunk, OrphanEnds, vars
<1> QED
  BY <1>1, <1>2, <1>3 DEF Snapshots!Next

(***************************************************************************)
(* While the reload is clean, every step of it is a step of SnapshotTable. *)
(***************************************************************************)
THEOREM PublishesSnapshotsInOrder == Spec => PublishesInOrder
<1>1. IType /\ CleanInv /\ [Next]_vars
        => [clean' => Snapshots!Next \/ UNCHANGED <<history, live>>]_vars
  BY StepPublishes
<1> QED
  BY <1>1, CleanIsInductive, PTL DEF Spec, PublishesInOrder

(***************************************************************************)
(* A deployment in which only the poll loop reloads the table, counts do   *)
(* not fail, and no ora2pg process outlives its cycle, implements          *)
(* SnapshotTable outright: crashes, failed stages, blank DDL files and a   *)
(* view that changes during the copy never show to a reader.               *)
(***************************************************************************)
THEOREM LoneLoopImplementsSnapshots ==
  ASSUME Reloaders = {Loop}, Disturbances = {}
  PROVE  Spec => Snapshots!Spec
<1>1. Init => Snapshots!Init
  BY DEF Init, Snapshots!Init, NoTable
<1>2. Init => clean
  BY DEF Init
<1>3. clean /\ [Next]_vars => clean'
  <2> SUFFICES ASSUME clean, [Next]_vars PROVE clean'
    OBVIOUS
  <2> USE DEF tables, threads, ghosts
  <2>1. ASSUME NEW r \in Reloaders, CountBefore(r) PROVE clean'
    BY <2>1 DEF CountBefore, CountAnswers, Busy
  <2>2. CASE ~\E r \in Reloaders : CountBefore(r)
    BY <2>2 DEF Next, Cycle, ClearTemp, Unreachable, CreateTemp, TagTemp, StartCopy,
         CopyChunk, CopyDone, FailAndDrop, FailUndropped, LoseStream, UnknownExit, RefuseEmpty, AcceptCopy,
         Swap, Crash, OrphanChunk, OrphanEnds, SourceChanges, vars
  <2> QED
    BY <2>1, <2>2
<1>4. IType /\ CleanInv /\ clean' /\ [Next]_vars
        => [Snapshots!Next]_(Snapshots!snapshotVars)
  BY StepPublishes DEF Snapshots!snapshotVars
<1> QED
  BY <1>1, <1>2, <1>3, <1>4, CleanIsInductive, PTL DEF Spec, Snapshots!Spec
=============================================================================
