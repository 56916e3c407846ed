------------------------ MODULE StagingWritersProofs ------------------------
(***************************************************************************)
(* Theorems about StagingWriters: its type invariant, and that for any     *)
(* number of rows and runs the loads, repairs and cycles of one table      *)
(* leave no duplicates, no wrong tags, no run that misses a row and no row *)
(* behind the streaming cursor, except as the properties say.              *)
(***************************************************************************)
EXTENDS StagingWriters, WellFoundedInduction, TLAPS

Running == [stage : Stages, kind : Kinds, from : Nat, upto : Nat,
            left : SUBSET Rows, mends : BOOLEAN]
Cycling == [stage : {"begun", "tagged", "ready", "pulling"},
            from : 0..MaxRow, left : SUBSET Rows]

LEMMA RunShape ==
  ASSUME TypeOK
  PROVE  /\ run \in {NoRun} \cup Running
         /\ run # NoRun <=> run.stage \in Stages
         /\ run # NoRun => run \in Running
         /\ NoRun \notin Running /\ NoRun.stage = "none" /\ "none" \notin Stages
         /\ cycle \in {NoCycle} \cup Cycling
         /\ cycle # NoCycle <=> cycle.stage \in {"begun", "tagged", "ready", "pulling"}
         /\ cycle # NoCycle => cycle \in Cycling
         /\ NoCycle \notin Cycling /\ NoCycle.stage = "none"
BY DEF TypeOK, Running, Cycling, NoRun, NoCycle, Stages

\* A nonempty set of rows has a greatest one.
LEMMA LastRow ==
  ASSUME NEW S \in SUBSET Rows, S # {}
  PROVE  MaxOf(S) \in S /\ \A k \in S : k <= MaxOf(S)
<1> USE MaxRowAssumption DEF Rows
<1> DEFINE Less == {w \in Nat \X Nat : w[1] < w[2]}
<1> DEFINE Gaps == {n \in Nat : \E k \in S : n = MaxRow - k}
<1>1. IsWellFoundedOn(Less, Nat)
  BY NatLessThanWellFounded DEF OpToRel
<1>2. Gaps \subseteq Nat /\ Gaps # {}
  <2>1. \A k \in S : MaxRow - k \in Nat
    OBVIOUS
  <2> QED
    BY <2>1
<1>3. PICK gap \in Gaps : \A n \in Gaps : <<n, gap>> \notin Less
  <2> HIDE DEF Gaps, Less
  <2> QED
    BY <1>1, <1>2, WFMin
<1>4. PICK last \in S : gap = MaxRow - last
  OBVIOUS
<1>5. ASSUME NEW k \in S PROVE k <= last
  <2>1. MaxRow - k \in Gaps
    OBVIOUS
  <2>2. ~ (MaxRow - k < gap)
    BY <1>3, <2>1
  <2> QED
    BY <1>4, <2>2
<1> QED
  BY <1>5 DEF MaxOf

\* Going to the next stage changes nothing else of a run.
LEMMA GoFacts ==
  ASSUME run \in Running, NEW stage \in Stages, Go(stage)
  PROVE  /\ run' \in Running /\ run' # NoRun
         /\ run'.stage = stage /\ run'.kind = run.kind /\ run'.from = run.from
         /\ run'.upto = run.upto /\ run'.left = run.left
BY DEF Go, Running, NoRun, Stages

LEMMA GoCycleFacts ==
  ASSUME cycle \in Cycling, NEW stage \in {"begun", "tagged", "ready", "pulling"}, GoCycle(stage)
  PROVE  /\ cycle' \in Cycling /\ cycle' # NoCycle
         /\ cycle'.stage = stage /\ cycle'.from = cycle.from /\ cycle'.left = cycle.left
BY DEF GoCycle, Cycling, NoCycle

-----------------------------------------------------------------------------
LEMMA StagedRows ==
  ASSUME TypeOK
  PROVE  /\ Staged \subseteq Rows
         /\ Staged # {} => MaxOf(Staged) \in 0..MaxRow
<1>1. Staged \subseteq Rows
  BY DEF Staged
<1>2. Staged # {} => MaxOf(Staged) \in Rows
  <2> HIDE DEF Rows
  <2> QED
    BY <1>1, LastRow
<1> QED
  BY <1>1, <1>2, MaxRowAssumption DEF Rows

\* What becomes an orphan is the ora2pg of the run or of the cycle.
Process == [by : Tags, skips : BOOLEAN, left : SUBSET Rows]

LEMMA OrphanTypes ==
  ASSUME TypeOK
  PROVE  OfRun \subseteq Process /\ OfCycle \subseteq Process /\ orphans \subseteq Process
<1>1. orphans \subseteq Process
  BY DEF TypeOK, Process
<1>2. started \in Tags /\ Cycle \in Tags
  BY MaxRunsAssumption DEF TypeOK, Tags, Cycle
<1>3. OfRun \subseteq Process
  <2>1. CASE run.stage = "copying"
    <3>1. run.left \in SUBSET Rows
      BY <2>1, RunShape DEF Running, Stages
    <3> QED
      BY <1>2, <2>1, <3>1 DEF OfRun, Process
  <2>2. CASE run.stage # "copying"
    BY <2>2 DEF OfRun
  <2> QED
    BY <2>1, <2>2
<1>4. OfCycle \subseteq Process
  <2>1. CASE cycle.stage = "pulling"
    <3>1. cycle.left \in SUBSET Rows
      BY <2>1, RunShape DEF Cycling
    <3> QED
      BY <1>2, <2>1, <3>1 DEF OfCycle, Process
  <2>2. CASE cycle.stage # "pulling"
    BY <2>2 DEF OfCycle
  <2> QED
    BY <2>1, <2>2
<1> QED
  BY <1>1, <1>3, <1>4

LEMMA TypeStep ==
  ASSUME TypeOK, [Next]_vars
  PROVE  TypeOK'
<1> USE MaxRowAssumption, MaxRunsAssumption, RunShape DEF Tags, Nobody, Cycle
<1>1. CASE StartRun
  <2>1. PICK kind \in Kinds, from \in Nat, upto \in Nat : run' = Run(kind, from, upto)
    BY <1>1 DEF StartRun, Kinds, Rows
  <2>2. run' \in Running /\ run'.kind = kind
    BY <2>1 DEF Run, Running, Stages
  <2>3. met' \subseteq Overlaps
    BY <1>1, <2>2 DEF StartRun, Overlap, Overlaps, TypeOK
  <2> QED
    BY <1>1, <2>2, <2>3 DEF StartRun, Outside, table, TypeOK, Running
<1>2. CASE Recreate
  <2>1. run \in Running
    BY <1>2 DEF Recreate, Active, Stages
  <2>2. run' \in Running
    BY <1>2, <2>1, GoFacts DEF Recreate, Stages
  <2>3. copies' \in [Rows -> 0..2] /\ tag' \in [Rows -> Tags] /\ by' \in [Rows -> Tags]
    BY <1>2 DEF Recreate, Empty
  <2>4. met' \subseteq Overlaps
    BY <1>2 DEF Recreate, Overlap, Overlaps
  <2> QED
    <3>1. exists' = TRUE /\ default' = 0 /\ index' = FALSE /\ whole' = FALSE
      BY <1>2 DEF Recreate
    <3>2. UNCHANGED <<view, hasKey, cursor, started, cycle, orphans>>
      BY <1>2 DEF Recreate, Outside
    <3>3. run' \in {NoRun} \cup Running
      BY <2>2
    <3>4. /\ exists' \in BOOLEAN /\ index' \in BOOLEAN
          /\ whole' \in BOOLEAN
      BY <3>1, Zenon
    <3>5. default' \in Tags
      BY <3>1
    <3>6. /\ view' \in 0..MaxRow /\ hasKey' \in BOOLEAN /\ cursor' \in -1..MaxRow
          /\ started' \in 0..MaxRuns /\ cycle' = cycle /\ orphans' = orphans
      BY <3>2 DEF TypeOK
    <3> QED
      BY <2>3, <2>4, <3>3, <3>4, <3>5, <3>6 DEF TypeOK, Running
<1>3. CASE TagRun
  <2>1. run \in Running
    BY <1>3 DEF TagRun, Active, Stages
  <2>2. run' \in Running
    BY <1>3, <2>1, GoFacts DEF TagRun, Stages
  <2> QED
    BY <1>3, <2>2 DEF TagRun, table, Outside, TypeOK, Running
<1>4. CASE IndexForRun
  <2>1. run \in Running
    BY <1>4 DEF IndexForRun, Active, Stages
  <2>2. run' \in Running
    BY <1>4, <2>1, GoFacts DEF IndexForRun, Stages
  <2>3. index' \in BOOLEAN
    BY <1>4 DEF IndexForRun, UniqueKeys, TypeOK
  <2> QED
    BY <1>4, <2>2, <2>3 DEF IndexForRun, table, Outside, TypeOK, Running
<1>5. CASE ClearRange
  <2>1. run \in Running
    BY <1>5 DEF ClearRange, Active, Stages
  <2>2. run' \in Running
    <3> DEFINE known == 1..(run.from - 1) \subseteq Staged
    <3>1. known \in BOOLEAN /\ run' = [run EXCEPT !.stage = "ready", !.mends = known]
      BY <1>5 DEF ClearRange
    <3> HIDE DEF known
    <3> QED
      BY <2>1, <3>1 DEF Running, Stages
  <2>3. copies' \in [Rows -> 0..2]
    BY <1>5 DEF ClearRange, TypeOK
  <2>4. /\ UNCHANGED <<view, hasKey, exists, tag, by, default, index, cursor, started, cycle,
                       orphans, met>>
        /\ whole' = FALSE
    BY <1>5 DEF ClearRange, Outside
  <2> QED
    BY <2>2, <2>3, <2>4 DEF TypeOK, Running
<1>6. CASE StartCopy
  <2>1. run \in Running
    BY <1>6 DEF StartCopy, Stages
  <2>2. run' \in Running
    <3>1. PICK upto \in Nat, left \in SUBSET Rows :
            run' = [run EXCEPT !.stage = "copying", !.upto = upto, !.left = left]
      <4> DEFINE last == IF view < run.upto THEN view ELSE run.upto
      <4> DEFINE asked == {k \in Rows : run.from <= k /\ k <= view /\ k <= run.upto}
      <4>1. last \in Nat /\ asked \in SUBSET Rows
        BY <2>1 DEF TypeOK, Running
      <4>2. run' = [run EXCEPT !.stage = "copying", !.upto = last, !.left = asked]
        BY <1>6 DEF StartCopy
      <4> HIDE DEF last, asked
      <4> QED
        BY <4>1, <4>2
    <3> QED
      BY <2>1, <3>1 DEF Running, Stages
  <2>3. copies' \in [Rows -> 0..2] /\ tag' \in [Rows -> Tags] /\ by' \in [Rows -> Tags]
    BY <1>6 DEF StartCopy, Empty, TypeOK
  <2>4. /\ UNCHANGED <<view, hasKey, exists, default, index, cursor, started, cycle, orphans, met>>
        /\ whole' = FALSE
    BY <1>6 DEF StartCopy, Outside
  <2> QED
    BY <2>2, <2>3, <2>4 DEF TypeOK, Running
<1>7. CASE CopyRow
  <2>1. run \in Running
    BY <1>7 DEF CopyRow, Stages
  <2>2. run' \in Running
    BY <1>7, <2>1 DEF CopyRow, Running
  <2>3. copies' \in [Rows -> 0..2] /\ tag' \in [Rows -> Tags] /\ by' \in [Rows -> Tags]
        /\ exists' \in BOOLEAN
    BY <1>7 DEF CopyRow, Insert, OneMore, table, TypeOK
  <2> QED
    BY <1>7, <2>2, <2>3 DEF CopyRow, Outside, TypeOK, Running
<1>8. CASE Succeed
  <2>1. run \in Running
    BY <1>8 DEF Succeed, Stages
  <2>2. Made(run) \in BOOLEAN
    BY <2>1 DEF Made, Running, Kinds
  <2> QED
    BY <1>8, <2>2 DEF Succeed, table, Outside, TypeOK, Running
<1>9. CASE FailRun
  BY <1>9 DEF FailRun, table, Outside, TypeOK
<1>10. CASE StartCycle
  <2>1. cycle' \in Cycling
    <3>1. CASE cursor # NoCursor
      BY <1>10, <3>1 DEF StartCycle, Cycling, TypeOK, NoCursor
    <3>2. CASE cursor = NoCursor /\ Staged # {}
      BY <1>10, <3>2, StagedRows DEF StartCycle, Cycling
    <3>3. CASE cursor = NoCursor /\ Staged = {}
      BY <1>10, <3>3 DEF StartCycle, Cycling
    <3> QED
      BY <3>1, <3>2, <3>3
  <2>2. met' \subseteq Overlaps
    BY <1>10 DEF StartCycle, Overlaps, TypeOK
  <2> QED
    BY <1>10, <2>1, <2>2 DEF StartCycle, table, Outside, TypeOK, Cycling
<1>11. CASE TagCycle
  <2>1. cycle' \in Cycling
    BY <1>11, GoCycleFacts DEF TagCycle
  <2> QED
    BY <1>11, <2>1 DEF TagCycle, table, Outside, TypeOK, Cycling
<1>12. CASE IndexForCycle
  <2>1. cycle' \in Cycling
    BY <1>12, GoCycleFacts DEF IndexForCycle
  <2> QED
    BY <1>12, <2>1 DEF IndexForCycle, table, Outside, TypeOK, Cycling
<1>13. CASE Query
  <2>1. cycle' \in Cycling
    <3> DEFINE asked == {k \in Rows : cycle.from <= k /\ k <= view}
    <3>1. /\ cycle.stage = "ready" /\ asked \in SUBSET Rows
          /\ cycle' = [cycle EXCEPT !.stage = "pulling", !.left = asked]
      BY <1>13 DEF Query
    <3> HIDE DEF asked
    <3> QED
      BY <3>1 DEF Cycling
  <2>2. UNCHANGED <<view, hasKey, table, default, index, cursor, started, run, orphans, whole, met>>
    BY <1>13 DEF Query, Outside
  <2> QED
    BY <2>1, <2>2 DEF table, TypeOK, Cycling
<1>14. CASE PullRow
  <2>1. cycle' \in Cycling
    BY <1>14 DEF PullRow, Cycling
  <2>2. copies' \in [Rows -> 0..2] /\ tag' \in [Rows -> Tags] /\ by' \in [Rows -> Tags]
        /\ exists' \in BOOLEAN
    BY <1>14 DEF PullRow, Insert, OneMore, table, TypeOK
  <2> QED
    BY <1>14, <2>1, <2>2 DEF PullRow, Outside, TypeOK, Cycling
<1>15. CASE Advance
  <2>1. cursor' \in -1..MaxRow
    BY <1>15, StagedRows DEF Advance, Cycling
  <2> QED
    BY <1>15, <2>1 DEF Advance, table, Outside, TypeOK
<1>16. CASE FailCycle
  BY <1>16 DEF FailCycle, table, Outside, TypeOK, Cycling
<1>17. CASE RowAppears
  BY <1>17 DEF RowAppears, table, TypeOK
<1>19. CASE LoseRun
  BY <1>19, OrphanTypes DEF LoseRun, Orphaned, table, Outside, TypeOK, Process
<1>20. CASE LoseCycle
  BY <1>20, OrphanTypes DEF LoseCycle, Orphaned, table, Outside, TypeOK, Cycling, Process
<1>21. CASE AdvanceUnknown
  <2>1. cursor' \in -1..MaxRow
    BY <1>21, StagedRows DEF AdvanceUnknown, Cycling
  <2>2. run' \in {NoRun} \cup Running
    BY <1>21 DEF AdvanceUnknown, Running
  <2> QED
    BY <1>21, <2>1, <2>2, OrphanTypes DEF AdvanceUnknown, Orphaned, table, Outside, TypeOK, Running, Process
<1>22. CASE OrphanInserts
  <2>1. PICK o \in orphans : \E k \in o.left :
          /\ orphans' = (orphans \ {o}) \cup {[o EXCEPT !.left = @ \ {k}]}
          /\ UNCHANGED table \/ Insert(k, o.by)
    BY <1>22 DEF OrphanInserts
  <2>2. PICK k \in o.left :
          /\ orphans' = (orphans \ {o}) \cup {[o EXCEPT !.left = @ \ {k}]}
          /\ UNCHANGED table \/ Insert(k, o.by)
    BY <2>1
  <2>3. o \in Process
    BY DEF TypeOK, Process
  <2>4. orphans' \subseteq Process
    BY <2>2, <2>3 DEF Process, TypeOK
  <2>5. copies' \in [Rows -> 0..2] /\ tag' \in [Rows -> Tags] /\ by' \in [Rows -> Tags]
        /\ exists' \in BOOLEAN
    BY <2>2, <2>3 DEF Insert, OneMore, table, TypeOK, Process
  <2> QED
    BY <1>22, <2>4, <2>5 DEF OrphanInserts, Outside, TypeOK, Process
<1>23. CASE OrphanEnds
  BY <1>23 DEF OrphanEnds, table, Outside, TypeOK
<1>24. CASE Crash
  BY <1>24, OrphanTypes DEF Crash, Orphaned, table, Outside, TypeOK, Process
<1>18. CASE UNCHANGED vars
  BY <1>18 DEF vars, table, TypeOK
<1> QED
  BY <1>1, <1>2, <1>3, <1>4, <1>5, <1>6, <1>7, <1>8, <1>9, <1>10, <1>11, <1>12, <1>13,
     <1>14, <1>15, <1>16, <1>17, <1>18, <1>19, <1>20, <1>21, <1>22, <1>23, <1>24
  DEF Next, Migrate, Stream, Stray

LEMMA TypeInit == Init => TypeOK
<1> SUFFICES ASSUME Init PROVE TypeOK
  OBVIOUS
<1>1. copies \in [Rows -> 0..2]
  BY DEF Init
<1> QED
  BY <1>1, MaxRowAssumption, MaxRunsAssumption DEF Init, TypeOK, Tags, Nobody, Cycle, NoCursor

(***************************************************************************)
(* Every variable keeps its type: the counts, the tags, the cursor and the *)
(* stages of the run and the cycle in flight.                              *)
(***************************************************************************)
THEOREM TypeInvariant == Spec => []TypeOK
BY TypeInit, TypeStep, PTL DEF Spec

-----------------------------------------------------------------------------
RunAt(kinds, stages) == run # NoRun /\ run.kind \in kinds /\ run.stage \in stages

\* A PK repair has the key, and from its copy on the index.
KeyInv ==
  RunAt({"pk"}, Stages) => hasKey /\ (run.stage \in {"ready", "copying"} => index)

IndexInv == index => UniqueKeys

\* Unless a full migration is overlapped, every INSERT of a cycle, and of an orphan
\* of one, has the index.
ApartInv ==
  "full" \notin met =>
    /\ RunAt({"full"}, Stages) => cycle = NoCycle /\ orphans = {}
    /\ cycle.stage \in {"ready", "pulling"} => index
    /\ \A o \in orphans : o.skips => index

Alone == met \cap {"full", "copy"} = {}

\* Nobody copies beside an orphan that copies.
LoneInv ==
  Alone =>
    /\ RunAt({"watermark"}, Stages) => \A o \in orphans : o.skips
    /\ \A o, p \in orphans : o.skips \/ p.skips \/ o = p

\* Without the index, what a run or an orphan is about to copy is not in the table.
ClearInv ==
  Alone =>
    /\ UniqueKeys
    /\ ~index =>
         /\ RunAt({"watermark"}, {"ready"}) =>
              \A k \in Rows : k >= run.from => copies[k] = 0
         /\ RunAt(Kinds, {"copying"}) => \A k \in run.left : copies[k] = 0
         /\ \A o \in orphans : \A k \in o.left : copies[k] = 0

\* What a run has to copy is left to be copied, or in the table.
FillInv ==
  /\ run # NoRun => run.from > 0
  /\ "full" \notin met /\ RunAt(Kinds, {"copying"}) =>
       \A k \in run.from..run.upto : k \in Rows /\ (k \in run.left \/ copies[k] > 0)

\* Without an overlap, the DEFAULT is the id of whoever inserts next.
TagInv ==
  met = {} =>
    /\ run = NoRun \/ cycle = NoCycle
    /\ orphans = {} \/ (run = NoRun /\ cycle = NoCycle)
    /\ RunAt(Kinds, {"tagged", "ready", "copying"}) => default = started
    /\ cycle.stage \in {"tagged", "ready", "pulling"} => default = Cycle
    /\ \A o \in orphans : o.by = default
    /\ \A k \in Staged : tag[k] = by[k]

IInv == TypeOK /\ KeyInv /\ IndexInv /\ ApartInv /\ LoneInv /\ ClearInv /\ FillInv

\* What the invariant says of a step that leaves the rows, the run, the orphans and
\* the index alone.
LEMMA QuietStep ==
  ASSUME IInv, TypeOK',
         UNCHANGED <<hasKey, copies, index, run, orphans>>, met \subseteq met',
         "full" \notin met' =>
           /\ RunAt({"full"}, Stages) => cycle' = NoCycle
           /\ cycle'.stage \in {"ready", "pulling"} => cycle.stage \in {"ready", "pulling"}
  PROVE  IInv'
<1>1. KeyInv' /\ IndexInv' /\ FillInv'
  BY DEF IInv, KeyInv, IndexInv, FillInv, RunAt, UniqueKeys
<1>2. ApartInv'
  BY DEF IInv, ApartInv, RunAt
<1>3. LoneInv'
  BY DEF IInv, LoneInv, Alone, RunAt
<1>4. ClearInv'
  BY DEF IInv, ClearInv, Alone, RunAt, UniqueKeys
<1> QED
  BY <1>1, <1>2, <1>3, <1>4 DEF IInv

\* What becomes an orphan goes on with what it had left; without the index it is
\* the ora2pg of a run, as a cycle has the index.
LEMMA OrphanedStep ==
  ASSUME IInv, TypeOK', UNCHANGED <<hasKey, copies, index, met>>,
         NEW P \in SUBSET (OfRun \cup OfCycle), orphans' = orphans \cup P,
         \/ run' = NoRun
         \/ /\ P \subseteq OfCycle
            /\ run = NoRun <=> run' = NoRun
            /\ run'.stage = run.stage
            /\ run # NoRun => /\ run'.kind = run.kind /\ run'.from = run.from
                              /\ run'.upto = run.upto /\ run'.left = run.left,
         cycle' = NoCycle \/ (cycle' = cycle /\ P \subseteq OfRun)
  PROVE  IInv'
<1> USE RunShape DEF IInv
<1>1. KeyInv' /\ IndexInv' /\ FillInv'
  BY DEF KeyInv, IndexInv, FillInv, RunAt, UniqueKeys
<1>2. ASSUME NEW o \in OfRun
      PROVE  /\ run \in Running /\ run # NoRun /\ run.stage = "copying"
             /\ o.skips = (run.kind = "pk") /\ o.left = run.left
             /\ \A p \in OfRun : p = o
  BY <1>2 DEF OfRun, Stages
<1>3. ASSUME NEW o \in OfCycle
      PROVE  cycle # NoCycle /\ cycle.stage = "pulling" /\ o.skips = TRUE
  BY <1>3 DEF OfCycle
<1>4. ASSUME "full" \notin met, NEW o \in orphans', o.skips PROVE index
  <2>1. CASE o \in orphans
    BY <1>4, <2>1 DEF ApartInv
  <2>2. CASE o \in OfRun
    <3>1. run \in Running /\ run # NoRun /\ run.stage = "copying" /\ o.skips = (run.kind = "pk")
      BY <1>2, <2>2
    <3>2. run.kind = "pk"
      BY <1>4, <3>1, Zenon
    <3> QED
      BY <3>1, <3>2 DEF KeyInv, RunAt, Running
  <2>3. CASE o \in OfCycle
    BY <1>3, <1>4, <2>3 DEF ApartInv
  <2> QED
    BY <1>4, <2>1, <2>2, <2>3
<1>5. ASSUME "full" \notin met, RunAt({"full"}, Stages)' PROVE cycle' = NoCycle /\ orphans' = {}
  <2>1. RunAt({"full"}, Stages) /\ P \subseteq OfCycle
    BY <1>5 DEF RunAt
  <2>2. cycle = NoCycle /\ orphans = {}
    BY <1>5, <2>1 DEF ApartInv
  <2>3. OfCycle = {}
    BY <2>2 DEF OfCycle
  <2> QED
    BY <2>1, <2>2, <2>3
<1>6. ApartInv'
  BY <1>4, <1>5 DEF ApartInv
<1>7. ASSUME Alone, RunAt({"watermark"}, Stages)', NEW o \in orphans' PROVE o.skips
  <2>1. RunAt({"watermark"}, Stages) /\ P \subseteq OfCycle
    BY <1>7 DEF RunAt
  <2> QED
    BY <1>3, <1>7, <2>1 DEF LoneInv
<1>8. ASSUME Alone, NEW o \in OfRun, ~o.skips, NEW p \in orphans PROVE p.skips
  <2>1. /\ run \in Running /\ run # NoRun /\ run.stage = "copying"
        /\ o.skips = (run.kind = "pk")
    BY <1>2, <1>8
  <2>2. run.kind # "pk"
    BY <1>8, <2>1, Zenon
  <2>3. RunAt({"full"}, Stages) \/ RunAt({"watermark"}, Stages)
    BY <2>1, <2>2 DEF RunAt, Running, Kinds
  <2> QED
    BY <1>8, <2>3 DEF LoneInv, ApartInv, Alone
<1>9. ASSUME Alone, NEW o \in orphans', NEW p \in orphans' PROVE o.skips \/ p.skips \/ o = p
  BY <1>2, <1>3, <1>8, <1>9 DEF LoneInv
<1>10. LoneInv'
  BY <1>7, <1>9 DEF LoneInv, Alone
<1>11. ASSUME Alone, ~index, NEW o \in orphans', NEW k \in o.left PROVE copies[k] = 0
  <2>1. CASE o \in orphans
    BY <1>11, <2>1 DEF ClearInv
  <2>2. CASE o \in OfRun
    BY <1>2, <1>11, <2>2 DEF ClearInv, RunAt, Running
  <2>3. CASE o \in OfCycle
    BY <1>3, <1>11, <2>3 DEF ApartInv, Alone
  <2> QED
    BY <1>11, <2>1, <2>2, <2>3
<1>12. ClearInv'
  BY <1>11 DEF ClearInv, Alone, RunAt, UniqueKeys
<1> QED
  BY <1>1, <1>6, <1>10, <1>12

\* The steps of a run, from its start to its last row.
LEMMA RunSteps ==
  ASSUME IInv, TypeOK', Migrate
  PROVE  IInv'
<1> USE RunShape DEF IInv
<1>1. CASE StartRun
  <2>1. PICK kind \in Kinds, from \in Nat \ {0}, upto \in Nat :
          /\ run' = Run(kind, from, upto)
          /\ kind = "pk" => hasKey
    BY <1>1, MaxRowAssumption DEF StartRun, Kinds, Rows
  <2>2. /\ run' \in Running /\ run' # NoRun /\ run'.kind = kind /\ run'.stage = "begun"
        /\ run'.from = from
    BY <2>1 DEF Run, Running, Stages, NoRun
  <2>3. UNCHANGED <<hasKey, copies, index, cycle, orphans>> /\ run = NoRun
    BY <1>1 DEF StartRun, Outside, table
  <2>4. /\ met \subseteq met'
        /\ "full" \notin met' => (kind = "full" => cycle = NoCycle /\ orphans = {})
        /\ "copy" \notin met' => (kind = "watermark" => \A o \in orphans : o.skips)
    BY <1>1, <2>2 DEF StartRun, Overlap
  <2>5. KeyInv' /\ IndexInv' /\ FillInv'
    BY <2>1, <2>2, <2>3 DEF KeyInv, IndexInv, FillInv, RunAt, UniqueKeys
  <2>6. ApartInv'
    BY <2>2, <2>3, <2>4 DEF ApartInv, RunAt
  <2>7. LoneInv'
    BY <2>2, <2>3, <2>4 DEF LoneInv, Alone, RunAt
  <2>8. ClearInv'
    BY <2>2, <2>3, <2>4 DEF ClearInv, Alone, RunAt, UniqueKeys
  <2> QED
    BY <2>5, <2>6, <2>7, <2>8
<1>2. CASE Recreate
  <2>1. run \in Running /\ run.kind = "full"
    BY <1>2 DEF Recreate, Active, Stages
  <2>2. run' \in Running /\ run'.kind = "full" /\ run'.stage = "made" /\ run'.from = run.from
    BY <1>2, <2>1, GoFacts DEF Recreate, Stages
  <2>3. /\ index' = FALSE /\ cycle' = cycle /\ orphans' = orphans
        /\ "full" \notin met' => cycle = NoCycle /\ orphans = {}
    BY <1>2 DEF Recreate, Overlap
  <2>4. UniqueKeys'
    BY <1>2 DEF Recreate, Empty, UniqueKeys
  <2>5. KeyInv' /\ IndexInv' /\ FillInv'
    BY <2>1, <2>2, <2>3 DEF KeyInv, IndexInv, FillInv, RunAt
  <2>6. ApartInv'
    BY <2>3 DEF ApartInv
  <2>7. LoneInv'
    BY <2>3 DEF LoneInv, Alone
  <2>8. ClearInv'
    BY <2>2, <2>3, <2>4 DEF ClearInv, Alone, RunAt
  <2> QED
    BY <2>5, <2>6, <2>7, <2>8
<1>3. CASE TagRun
  <2>1. run \in Running
    BY <1>3 DEF TagRun, Active, Stages
  <2>2. /\ run' \in Running /\ run' # NoRun /\ run'.kind = run.kind /\ run'.stage = "tagged"
        /\ run'.from = run.from
    BY <1>3, <2>1, GoFacts DEF TagRun, Stages
  <2>3. UNCHANGED <<hasKey, copies, index, cycle, orphans, met>>
    BY <1>3 DEF TagRun, Outside, table
  <2>4. KeyInv' /\ IndexInv' /\ FillInv'
    BY <2>1, <2>2, <2>3 DEF KeyInv, IndexInv, FillInv, RunAt, UniqueKeys, Running
  <2>5. ApartInv'
    BY <2>1, <2>2, <2>3 DEF ApartInv, RunAt, Running
  <2>6. LoneInv'
    BY <2>1, <2>2, <2>3 DEF LoneInv, Alone, RunAt, Running
  <2>7. ClearInv'
    BY <2>2, <2>3 DEF ClearInv, Alone, RunAt, UniqueKeys
  <2> QED
    BY <2>4, <2>5, <2>6, <2>7
<1>4. CASE IndexForRun
  <2>1. run \in Running /\ run.kind \in {"full", "pk"}
    BY <1>4 DEF IndexForRun, Active, Stages
  <2>2. /\ run' \in Running /\ run' # NoRun /\ run'.kind = run.kind /\ run'.stage = "ready"
        /\ run'.from = run.from
    BY <1>4, <2>1, GoFacts DEF IndexForRun, Stages
  <2>3. /\ UNCHANGED <<hasKey, copies, cycle, orphans, met>>
        /\ (index => index') /\ (index' => index \/ UniqueKeys)
    BY <1>4 DEF IndexForRun, Outside, table
  <2>4. run.kind = "pk" => hasKey /\ index'
    BY <1>4, <2>1 DEF IndexForRun, KeyInv, RunAt, Running
  <2>5. KeyInv' /\ IndexInv' /\ FillInv'
    BY <2>1, <2>2, <2>3, <2>4 DEF KeyInv, IndexInv, FillInv, RunAt, UniqueKeys, Running
  <2>6. ApartInv'
    BY <2>1, <2>2, <2>3 DEF ApartInv, RunAt, Running
  <2>7. LoneInv'
    BY <2>1, <2>2, <2>3 DEF LoneInv, Alone, RunAt, Running
  <2>8. ClearInv'
    BY <2>1, <2>2, <2>3 DEF ClearInv, Alone, RunAt, UniqueKeys
  <2> QED
    BY <2>5, <2>6, <2>7, <2>8
<1>5. CASE ClearRange
  <2>1. run \in Running /\ run.kind = "watermark"
    BY <1>5 DEF ClearRange, Active, Stages
  <2>2. /\ run' \in Running /\ run' # NoRun /\ run'.kind = "watermark" /\ run'.stage = "ready"
        /\ run'.from = run.from
    <3> DEFINE known == 1..(run.from - 1) \subseteq Staged
    <3>1. run' = [run EXCEPT !.stage = "ready", !.mends = known] /\ known \in BOOLEAN
      BY <1>5 DEF ClearRange
    <3> HIDE DEF known
    <3> QED
      BY <2>1, <3>1 DEF Running, Stages, NoRun
  <2>3. /\ UNCHANGED <<hasKey, index, cycle, orphans, met>>
        /\ \A k \in Rows : copies'[k] = IF k >= run.from THEN 0 ELSE copies[k]
    BY <1>5 DEF ClearRange, Outside
  <2>4. UniqueKeys => UniqueKeys'
    BY <2>3 DEF UniqueKeys
  <2>5. KeyInv' /\ IndexInv' /\ FillInv'
    BY <2>1, <2>2, <2>3, <2>4 DEF IndexInv, KeyInv, FillInv, RunAt
  <2>6. ApartInv'
    BY <2>1, <2>2, <2>3 DEF ApartInv, RunAt, Running
  <2>7. LoneInv'
    BY <2>1, <2>2, <2>3 DEF LoneInv, Alone, RunAt, Running
  <2>8. ASSUME Alone, ~index, NEW o \in orphans, NEW k \in o.left PROVE copies'[k] = 0
    <3>1. k \in Rows /\ copies[k] = 0
      BY <2>8 DEF ClearInv, TypeOK
    <3> QED
      BY <2>3, <3>1
  <2>9. ClearInv'
    BY <2>2, <2>3, <2>4, <2>8 DEF ClearInv, Alone, RunAt
  <2> QED
    BY <2>5, <2>6, <2>7, <2>9
<1>6. CASE StartCopy
  <2>1. run \in Running
    BY <1>6 DEF StartCopy, Stages
  <2>2. PICK upto \in Nat, left \in SUBSET Rows :
          /\ run' = [run EXCEPT !.stage = "copying", !.upto = upto, !.left = left]
          /\ \A k \in run.from..upto : k \in Rows /\ k \in left
          /\ \A k \in left : k >= run.from
    <3> DEFINE last == IF view < run.upto THEN view ELSE run.upto
    <3> DEFINE asked == {k \in Rows : run.from <= k /\ k <= view /\ k <= run.upto}
    <3>1. last \in Nat /\ asked \in SUBSET Rows
      BY <2>1 DEF TypeOK, Running
    <3>2. \A k \in run.from..last : k \in Rows /\ k \in asked
      BY <2>1, MaxRowAssumption DEF FillInv, TypeOK, Running, Rows
    <3>3. run' = [run EXCEPT !.stage = "copying", !.upto = last, !.left = asked]
      BY <1>6 DEF StartCopy
    <3>4. \A k \in asked : k >= run.from
      BY <2>1 DEF Running, Rows
    <3> HIDE DEF last, asked
    <3> QED
      BY <3>1, <3>2, <3>3, <3>4
  <2>3. /\ run' \in Running /\ run' # NoRun /\ run'.kind = run.kind /\ run'.stage = "copying"
        /\ run'.from = run.from /\ run'.upto = upto /\ run'.left = left
    BY <2>1, <2>2 DEF Running, Stages, NoRun
  <2>4. /\ UNCHANGED <<hasKey, index, cycle, orphans, met>>
        /\ run.kind = "full" => copies' = [k \in Rows |-> 0]
        /\ run.kind # "full" => copies' = copies
    BY <1>6 DEF StartCopy, Outside, Empty
  <2>5. UniqueKeys => UniqueKeys'
    BY <2>4 DEF UniqueKeys
  <2>6. KeyInv' /\ IndexInv' /\ FillInv'
    <3>1. run.stage = "ready"
      BY <1>6 DEF StartCopy
    <3>2. KeyInv'
      BY <2>1, <2>3, <2>4, <3>1 DEF KeyInv, RunAt, Running
    <3>3. IndexInv'
      BY <2>4, <2>5 DEF IndexInv
    <3>4. FillInv'
      BY <2>1, <2>2, <2>3 DEF FillInv, RunAt
    <3> QED
      BY <3>2, <3>3, <3>4
  <2>7. ApartInv'
    BY <2>1, <2>3, <2>4 DEF ApartInv, RunAt, Running
  <2>8. ASSUME Alone, ~index, NEW k \in left
        PROVE  copies'[k] = 0
    <3>1. CASE run.kind = "full"
      BY <2>4, <3>1
    <3>2. CASE run.kind = "watermark"
      BY <1>6, <2>1, <2>2, <2>4, <2>8, <3>2 DEF StartCopy, ClearInv, RunAt
    <3>3. CASE run.kind = "pk"
      BY <1>6, <2>1, <2>8, <3>3 DEF StartCopy, KeyInv, RunAt, Stages
    <3> QED
      BY <2>1, <3>1, <3>2, <3>3 DEF Running, Kinds
  <2>9. ASSUME Alone, ~index, NEW o \in orphans, NEW k \in o.left PROVE copies'[k] = 0
    <3>1. k \in Rows /\ copies[k] = 0
      BY <2>9 DEF ClearInv, TypeOK
    <3> QED
      BY <2>1, <2>4, <3>1 DEF Running
  <2>10. ClearInv'
    BY <2>3, <2>4, <2>5, <2>8, <2>9 DEF ClearInv, Alone, RunAt
  <2>11. LoneInv'
    BY <2>1, <2>3, <2>4 DEF LoneInv, Alone, RunAt, Running
  <2> QED
    BY <2>6, <2>7, <2>10, <2>11
<1>7. CASE CopyRow
  <2>1. run \in Running /\ run.stage = "copying"
    BY <1>7 DEF CopyRow, Stages
  <2>2. PICK k \in run.left :
          /\ run' = [run EXCEPT !.left = @ \ {k}]
          /\ IF index /\ copies[k] > 0
             THEN run.kind = "pk" /\ UNCHANGED table
             ELSE Insert(k, started)
    BY <1>7 DEF CopyRow
  <2>3. /\ run' \in Running /\ run' # NoRun /\ run'.kind = run.kind /\ run'.stage = "copying"
        /\ run'.from = run.from /\ run'.upto = run.upto /\ run'.left = run.left \ {k}
    BY <2>1, <2>2 DEF Running, NoRun
  <2>4. UNCHANGED <<hasKey, index, cycle, orphans, met>> /\ k \in Rows
    BY <1>7, <2>1 DEF CopyRow, Outside, Running
  <2>5. /\ copies'[k] > 0
        /\ \A j \in Rows : j # k => copies'[j] = copies[j]
        /\ copies'[k] = copies[k] \/ (copies[k] = 0 /\ copies'[k] = 1)
           \/ (~index /\ copies[k] > 0 /\ copies'[k] = 2)
    BY <2>2, <2>4 DEF Insert, OneMore, TypeOK, table
  <2>6. /\ index => UniqueKeys'
        /\ Alone => UniqueKeys'
    BY <2>1, <2>4, <2>5 DEF IndexInv, ClearInv, UniqueKeys, RunAt, Running, TypeOK
  <2>7. KeyInv' /\ IndexInv'
    BY <2>1, <2>3, <2>4, <2>6 DEF KeyInv, IndexInv, RunAt, Running
  <2>8. FillInv'
    BY <2>1, <2>3, <2>4, <2>5 DEF FillInv, RunAt, Running
  <2>9. ApartInv'
    BY <2>1, <2>3, <2>4 DEF ApartInv, RunAt, Running
  <2>10. LoneInv'
    BY <2>1, <2>3, <2>4 DEF LoneInv, Alone, RunAt, Running
  <2>11. ASSUME Alone, ~index PROVE orphans = {}
    <3>1. run.kind = "watermark" \/ run.kind = "full"
      BY <2>1, <2>11 DEF KeyInv, RunAt, Running, Kinds, Stages
    <3>2. CASE run.kind = "full"
      BY <2>1, <2>11, <3>2 DEF ApartInv, Alone, RunAt, Stages
    <3>3. CASE run.kind = "watermark"
      <4>1. \A o \in orphans : o.skips
        BY <2>1, <2>11, <3>3 DEF LoneInv, RunAt, Stages
      <4> QED
        BY <2>11, <4>1 DEF ApartInv, Alone
    <3> QED
      BY <3>1, <3>2, <3>3
  <2>12. ClearInv'
    BY <2>1, <2>3, <2>4, <2>5, <2>6, <2>11 DEF ClearInv, Alone, RunAt, Running
  <2> QED
    BY <2>7, <2>8, <2>9, <2>10, <2>12
<1>8. CASE Succeed \/ FailRun
  <2>1. run' = NoRun /\ UNCHANGED <<hasKey, copies, index, cycle, orphans, met>>
    BY <1>8 DEF Succeed, FailRun, Outside, table
  <2> QED
    BY <2>1 DEF KeyInv, IndexInv, ApartInv, LoneInv, Alone, ClearInv, FillInv, RunAt, UniqueKeys
<1>9. CASE LoseRun
  <2>1. run' = NoRun /\ UNCHANGED <<hasKey, copies, index, cycle, met>>
        /\ orphans' = orphans \cup OfRun
    BY <1>9 DEF LoseRun, Orphaned, Outside, table
  <2> QED
    BY <2>1, OrphanedStep
<1> QED
  BY <1>1, <1>2, <1>3, <1>4, <1>5, <1>6, <1>7, <1>8, <1>9 DEF Migrate

\* The steps of a cycle and of an orphan, a crash, and a row that appears in the view.
LEMMA OtherSteps ==
  ASSUME IInv, TypeOK', Stream \/ Stray \/ Crash \/ RowAppears \/ UNCHANGED vars
  PROVE  IInv'
<1> USE RunShape DEF IInv
<1>1. CASE StartCycle
  <2>1. /\ UNCHANGED <<hasKey, copies, index, run, orphans>> /\ cycle'.stage = "begun"
        /\ met \subseteq met'
        /\ "full" \notin met' => ~RunAt({"full"}, Stages)
    BY <1>1 DEF StartCycle, Outside, table, RunAt
  <2> QED
    BY <2>1, QuietStep
<1>2. CASE TagCycle
  <2>1. /\ UNCHANGED <<hasKey, copies, index, run, orphans, met>>
        /\ cycle # NoCycle /\ cycle'.stage = "tagged"
    BY <1>2, GoCycleFacts DEF TagCycle, Outside, table
  <2> QED
    BY <2>1, QuietStep DEF ApartInv
<1>3. CASE IndexForCycle
  <2>1. /\ UNCHANGED <<hasKey, copies, run, orphans, met>> /\ index' = TRUE
        /\ cycle # NoCycle /\ (index \/ UniqueKeys)
    BY <1>3 DEF IndexForCycle, Outside, table
  <2>2. UniqueKeys'
    BY <2>1 DEF IndexInv, UniqueKeys
  <2> QED
    BY <2>1, <2>2 DEF KeyInv, IndexInv, ApartInv, LoneInv, Alone, ClearInv, FillInv, RunAt
<1>4. CASE Query
  <2>1. /\ UNCHANGED <<hasKey, copies, index, run, orphans, met>>
        /\ cycle # NoCycle /\ cycle.stage = "ready"
    BY <1>4 DEF Query, Outside, table
  <2> QED
    BY <2>1, QuietStep DEF ApartInv
<1>5. CASE PullRow
  <2>1. /\ UNCHANGED <<hasKey, index, run, orphans, met>> /\ cycle \in Cycling /\ cycle.stage = "pulling"
    BY <1>5 DEF PullRow, Outside
  <2>2. PICK k \in cycle.left :
          /\ cycle' = [cycle EXCEPT !.left = @ \ {k}]
          /\ IF index /\ copies[k] > 0 THEN UNCHANGED table ELSE Insert(k, Cycle)
    BY <1>5 DEF PullRow
  <2>3. k \in Rows /\ cycle' # NoCycle /\ cycle'.stage = "pulling"
    BY <2>1, <2>2 DEF Cycling, NoCycle
  <2>4. /\ copies'[k] > 0
        /\ \A j \in Rows : j # k => copies'[j] = copies[j]
        /\ index => (copies'[k] = copies[k] \/ copies'[k] = 1)
    BY <2>2, <2>3 DEF Insert, OneMore, TypeOK, table
  <2>5. "full" \notin met => index
    BY <2>1 DEF ApartInv
  <2>6. index => UniqueKeys'
    BY <2>4 DEF IndexInv, UniqueKeys
  <2>7. KeyInv' /\ IndexInv'
    BY <2>1, <2>6 DEF KeyInv, IndexInv, RunAt
  <2>8. FillInv'
    BY <2>1, <2>4 DEF FillInv, RunAt
  <2>9. ApartInv' /\ LoneInv' /\ ClearInv'
    BY <2>1, <2>3, <2>5, <2>6 DEF ApartInv, LoneInv, ClearInv, Alone, RunAt
  <2> QED
    BY <2>7, <2>8, <2>9
<1>6. CASE Advance \/ FailCycle
  <2>1. UNCHANGED <<hasKey, copies, index, run, orphans, met>> /\ cycle' = NoCycle
    BY <1>6 DEF Advance, FailCycle, Outside, table
  <2> QED
    BY <2>1, QuietStep
<1>7. CASE RowAppears \/ UNCHANGED vars
  <2>1. UNCHANGED <<hasKey, copies, index, run, orphans, met, cycle>>
    BY <1>7 DEF RowAppears, vars, table
  <2> QED
    BY <2>1, QuietStep DEF ApartInv
<1>8. CASE LoseCycle
  <2>1. UNCHANGED <<hasKey, copies, index, run, met>> /\ cycle' = NoCycle
        /\ orphans' = orphans \cup OfCycle
    BY <1>8 DEF LoseCycle, Orphaned, Outside, table
  <2> QED
    BY <2>1, OrphanedStep
<1>9. CASE AdvanceUnknown
  <2>1. UNCHANGED <<hasKey, copies, index, met>> /\ cycle' = NoCycle
        /\ orphans' = orphans \cup OfCycle
        /\ run' = IF run.stage = "copying" THEN [run EXCEPT !.mends = FALSE] ELSE run
    BY <1>9 DEF AdvanceUnknown, Orphaned, Outside, table
  <2>2. /\ run = NoRun <=> run' = NoRun
        /\ run'.stage = run.stage
        /\ run # NoRun => /\ run'.kind = run.kind /\ run'.from = run.from
                          /\ run'.upto = run.upto /\ run'.left = run.left
    <3>1. CASE run.stage = "copying"
      BY <2>1, <3>1 DEF Running, Stages
    <3>2. CASE run.stage # "copying"
      BY <2>1, <3>2
    <3> QED
      BY <3>1, <3>2
  <2> QED
    BY <2>1, <2>2, OrphanedStep
<1>10. CASE Crash
  <2>1. UNCHANGED <<hasKey, copies, index, met>> /\ cycle' = NoCycle /\ run' = NoRun
    BY <1>10 DEF Crash, Outside, table
  <2>2. PICK P \in SUBSET (OfRun \cup OfCycle) : orphans' = orphans \cup P
    BY <1>10 DEF Crash, Orphaned
  <2> QED
    BY <2>1, <2>2, OrphanedStep
<1>11. CASE OrphanInserts
  <2>1. PICK o \in orphans : \E k \in o.left :
          /\ orphans' = (orphans \ {o}) \cup {[o EXCEPT !.left = @ \ {k}]}
          /\ IF index /\ copies[k] > 0 THEN o.skips /\ UNCHANGED table ELSE Insert(k, o.by)
    BY <1>11 DEF OrphanInserts
  <2>2. PICK k \in o.left :
          /\ orphans' = (orphans \ {o}) \cup {[o EXCEPT !.left = @ \ {k}]}
          /\ IF index /\ copies[k] > 0 THEN o.skips /\ UNCHANGED table ELSE Insert(k, o.by)
    BY <2>1
  <2>3. /\ UNCHANGED <<hasKey, index, run, cycle, met>> /\ o \in Process /\ k \in Rows
    BY <1>11, OrphanTypes DEF OrphanInserts, Outside, Process
  <2>4. PICK new \in Process :
          /\ new.skips = o.skips /\ new.left = o.left \ {k}
          /\ orphans' = (orphans \ {o}) \cup {new}
    BY <2>2, <2>3 DEF Process
  <2>5. /\ copies'[k] > 0
        /\ \A j \in Rows : j # k => copies'[j] = copies[j]
        /\ copies'[k] = copies[k] \/ (copies[k] = 0 /\ copies'[k] = 1)
           \/ (~index /\ copies[k] > 0 /\ copies'[k] = 2)
    BY <2>2, <2>3 DEF Insert, OneMore, TypeOK, table
  <2>6. index => UniqueKeys'
    BY <2>3, <2>5 DEF IndexInv, UniqueKeys
  <2>7. ASSUME Alone, ~index PROVE ~o.skips /\ orphans = {o} /\ copies[k] = 0
    <3>1. \A p \in orphans : ~p.skips
      BY <2>7 DEF ApartInv, Alone
    <3>2. \A p \in orphans : p = o
      BY <2>7, <3>1 DEF LoneInv
    <3> QED
      BY <2>2, <2>7, <3>1, <3>2 DEF ClearInv
  <2>8. ASSUME Alone, ~index, RunAt(Kinds, {"ready", "copying"}) PROVE FALSE
    <3>1. run.kind = "watermark" \/ run.kind = "full"
      BY <2>8 DEF KeyInv, RunAt, Kinds, Stages
    <3> QED
      BY <2>7, <2>8, <3>1 DEF LoneInv, ApartInv, Alone, RunAt, Stages
  <2>9. Alone => UniqueKeys'
    <3>1. Alone /\ ~index => UniqueKeys'
      BY <2>5, <2>7 DEF ClearInv, UniqueKeys
    <3> QED
      BY <2>6, <3>1
  <2>10. KeyInv' /\ IndexInv'
    BY <2>3, <2>6 DEF KeyInv, IndexInv, RunAt
  <2>11. FillInv'
    BY <2>3, <2>5 DEF FillInv, RunAt
  <2>12. ApartInv'
    BY <2>3, <2>4 DEF ApartInv, RunAt
  <2>13. LoneInv'
    BY <2>3, <2>4 DEF LoneInv, Alone, RunAt
  <2>14. ASSUME Alone, ~index, NEW p \in orphans', NEW j \in p.left PROVE copies'[j] = 0
    <3>1. p = new /\ j \in o.left /\ j # k /\ j \in Rows
      BY <2>3, <2>4, <2>7, <2>14 DEF Process
    <3> QED
      BY <2>5, <2>7, <2>14, <3>1 DEF ClearInv
  <2>15. ClearInv'
    BY <2>3, <2>8, <2>9, <2>14 DEF ClearInv, Alone, RunAt, Kinds
  <2> QED
    BY <2>10, <2>11, <2>12, <2>13, <2>15
<1>12. CASE OrphanEnds
  <2>1. UNCHANGED <<hasKey, copies, index, run, cycle, met>> /\ orphans' \subseteq orphans
    BY <1>12 DEF OrphanEnds, Outside, table
  <2>2. KeyInv' /\ IndexInv' /\ FillInv'
    BY <2>1 DEF KeyInv, IndexInv, FillInv, RunAt, UniqueKeys
  <2>3. ApartInv' /\ LoneInv'
    BY <2>1 DEF ApartInv, LoneInv, Alone, RunAt
  <2>4. ClearInv'
    BY <2>1 DEF ClearInv, Alone, RunAt, UniqueKeys
  <2> QED
    BY <2>2, <2>3, <2>4
<1> QED
  BY <1>1, <1>2, <1>3, <1>4, <1>5, <1>6, <1>7, <1>8, <1>9, <1>10, <1>11, <1>12 DEF Stream, Stray

LEMMA InductiveInvariant == Spec => []IInv
<1>1. Init => IInv
  <2> SUFFICES ASSUME Init PROVE IInv
    OBVIOUS
  <2>1. run = NoRun /\ cycle = NoCycle /\ NoCycle.stage = "none" /\ orphans = {}
    BY DEF Init, NoCycle
  <2>2. UniqueKeys
    BY DEF Init, UniqueKeys
  <2> QED
    BY <2>1, <2>2, TypeInit DEF IInv, KeyInv, IndexInv, ApartInv, LoneInv, ClearInv, FillInv, RunAt
<1>2. IInv /\ [Next]_vars => IInv'
  BY TypeStep, RunSteps, OtherSteps DEF IInv, Next
<1> QED
  BY <1>1, <1>2, PTL DEF Spec

(***************************************************************************)
(* No row is in the table twice, for any number of rows, runs and orphans  *)
(* and any failures and crashes, unless a cycle or an orphan has           *)
(* overlapped a full migration, or an orphan that copies a watermark       *)
(* repair.                                                                 *)
(***************************************************************************)
THEOREM RowsAreUnique == Spec => []NoDuplicates
<1>1. IInv => NoDuplicates
  BY DEF IInv, ClearInv, Alone, NoDuplicates
<1> QED
  BY <1>1, InductiveInvariant, PTL

(***************************************************************************)
(* A run whose ora2pg has exited with 0 has every row it was asked for in  *)
(* the table, once, with the exceptions of RowsAreUnique.                  *)
(***************************************************************************)
THEOREM RunsAreComplete == Spec => RunIsComplete
<1>1. IInv /\ Succeed => ~Alone \/ \A k \in run.from..run.upto : copies[k] = 1
  <2> SUFFICES ASSUME IInv, Succeed, Alone, NEW k \in run.from..run.upto
               PROVE  copies[k] = 1
    OBVIOUS
  <2>1. run \in Running /\ run.stage = "copying" /\ run.left = {}
    BY RunShape DEF IInv, Succeed, Stages
  <2>2. k \in Rows /\ copies[k] > 0
    BY <2>1, RunShape DEF IInv, FillInv, Alone, RunAt, Running
  <2> QED
    BY <2>2 DEF IInv, ClearInv, UniqueKeys, TypeOK
<1>2. IInv /\ [Next]_vars =>
        [Succeed => met \cap {"full", "copy"} # {} \/ \A k \in run.from..run.upto : copies[k] = 1]_vars
  BY <1>1 DEF Alone
<1> QED
  BY <1>2, InductiveInvariant, PTL DEF Spec, RunIsComplete

-----------------------------------------------------------------------------
\* Whoever inserts has set the DEFAULT, and nobody else has since.
LEMMA TagStep ==
  ASSUME TypeOK, TypeOK', TagInv, [Next]_vars
  PROVE  TagInv'
<1> USE RunShape DEF RunAt
<1> SUFFICES ASSUME met' = {} PROVE TagInv'
  BY DEF TagInv
<1>1. CASE StartRun
  <2>1. /\ UNCHANGED <<copies, tag, by, default, cycle, orphans>> /\ run = NoRun
        /\ run'.stage = "begun" /\ cycle = NoCycle /\ orphans = {} /\ met = {}
    BY <1>1 DEF StartRun, Overlap, Run, Outside, table
  <2> QED
    BY <2>1 DEF TagInv, Staged
<1>2. CASE Recreate
  <2>1. run \in Running
    BY <1>2 DEF Recreate, Active, Stages
  <2>2. run'.stage = "made"
    BY <1>2, <2>1, GoFacts DEF Recreate, Stages
  <2>3. cycle' = NoCycle /\ orphans' = {}
    BY <1>2 DEF Recreate, Overlap
  <2>4. Staged' = {}
    BY <1>2 DEF Recreate, Empty, Staged
  <2> QED
    BY <2>2, <2>3, <2>4 DEF TagInv
<1>3. CASE TagRun
  <2>1. run \in Running
    BY <1>3 DEF TagRun, Active, Stages
  <2>2. run'.stage = "tagged" /\ run # NoRun
    BY <1>3, <2>1, GoFacts DEF TagRun, Stages
  <2>3. UNCHANGED <<copies, tag, by, started, cycle, orphans, met>> /\ default' = started
    BY <1>3 DEF TagRun, Outside, table
  <2>4. cycle = NoCycle /\ cycle' = NoCycle /\ orphans' = {}
    BY <2>2, <2>3 DEF TagInv
  <2> QED
    BY <2>3, <2>4 DEF TagInv, Staged
<1>4. CASE IndexForRun
  <2>1. run \in Running /\ run.stage = "tagged"
    BY <1>4 DEF IndexForRun, Active, Stages
  <2>2. run'.stage = "ready" /\ run'.kind = run.kind /\ run' # NoRun
    BY <1>4, <2>1, GoFacts DEF IndexForRun, Stages
  <2>3. UNCHANGED <<copies, tag, by, started, cycle, orphans, met, default>>
    BY <1>4 DEF IndexForRun, Outside, table
  <2> QED
    BY <2>1, <2>2, <2>3 DEF TagInv, Staged, Running
<1>5. CASE ClearRange
  <2>1. run \in Running /\ run.stage = "tagged"
    BY <1>5 DEF ClearRange, Active, Stages
  <2>2. UNCHANGED <<tag, by, started, cycle, orphans, met, default>>
    BY <1>5 DEF ClearRange, Outside
  <2>3. \A k \in Rows : copies'[k] = copies[k] \/ copies'[k] = 0
    BY <1>5 DEF ClearRange
  <2> QED
    BY <2>1, <2>2, <2>3 DEF TagInv, Staged, Running
<1>6. CASE StartCopy
  <2>1. run \in Running /\ run.stage = "ready"
    BY <1>6 DEF StartCopy, Stages
  <2>2. UNCHANGED <<started, cycle, orphans, met, default>>
    BY <1>6 DEF StartCopy, Outside
  <2>3. \A k \in Staged' : k \in Staged /\ tag'[k] = tag[k] /\ by'[k] = by[k]
    BY <1>6 DEF StartCopy, Empty, Staged
  <2> QED
    BY <2>1, <2>2, <2>3 DEF TagInv, Running
<1>7. CASE CopyRow
  <2>1. run \in Running /\ run.stage = "copying"
    BY <1>7 DEF CopyRow, Stages
  <2>2. PICK k \in run.left : UNCHANGED table \/ Insert(k, started)
    BY <1>7 DEF CopyRow
  <2>3. UNCHANGED <<started, cycle, orphans, met, default>> /\ k \in Rows
    BY <1>7, <2>1 DEF CopyRow, Outside, Running
  <2>4. default = started /\ cycle = NoCycle /\ orphans = {}
    BY <2>1, <2>3 DEF TagInv, Running
  <2>5. \A j \in Staged' : tag'[j] = by'[j]
    BY <2>2, <2>3, <2>4 DEF TagInv, Insert, Staged, table, TypeOK
  <2> QED
    BY <2>3, <2>4, <2>5 DEF TagInv
<1>8. CASE Succeed \/ FailRun
  <2>1. run' = NoRun /\ UNCHANGED <<copies, tag, by, default, cycle, orphans, met>>
    BY <1>8 DEF Succeed, FailRun, Outside, table
  <2> QED
    BY <2>1 DEF TagInv, Staged
<1>9. CASE StartCycle
  <2>1. UNCHANGED <<copies, tag, by, default, run, orphans>> /\ cycle'.stage = "begun"
    BY <1>9 DEF StartCycle, Outside, table
  <2>2. met = {} /\ run = NoRun /\ orphans = {}
    BY <1>9 DEF StartCycle
  <2> QED
    BY <2>1, <2>2 DEF TagInv, Staged
<1>10. CASE TagCycle
  <2>1. UNCHANGED <<copies, tag, by, run, orphans, met>> /\ default' = Cycle /\ cycle # NoCycle
    BY <1>10 DEF TagCycle, Outside, table
  <2>2. run' = NoRun /\ orphans' = {}
    BY <2>1 DEF TagInv
  <2> QED
    BY <2>1, <2>2 DEF TagInv, Staged
<1>11. CASE IndexForCycle \/ Query
  <2>1. /\ UNCHANGED <<copies, tag, by, default, run, orphans, met>>
        /\ cycle \in Cycling /\ cycle.stage \in {"tagged", "ready"}
    BY <1>11 DEF IndexForCycle, Query, Outside, table
  <2>2. default = Cycle /\ run = NoRun /\ orphans = {}
    BY <2>1 DEF TagInv
  <2> QED
    BY <2>1, <2>2 DEF TagInv, Staged
<1>12. CASE PullRow
  <2>1. UNCHANGED <<default, run, orphans, met>> /\ cycle \in Cycling /\ cycle.stage = "pulling"
    BY <1>12 DEF PullRow, Outside
  <2>2. PICK k \in cycle.left : UNCHANGED table \/ Insert(k, Cycle)
    BY <1>12 DEF PullRow
  <2>3. default = Cycle /\ run = NoRun /\ orphans = {} /\ k \in Rows
    BY <2>1 DEF TagInv, Cycling
  <2>4. \A j \in Staged' : tag'[j] = by'[j]
    BY <2>1, <2>2, <2>3 DEF TagInv, Insert, Staged, table, TypeOK
  <2> QED
    BY <2>1, <2>3, <2>4 DEF TagInv
<1>13. CASE Advance \/ FailCycle
  <2>1. cycle' = NoCycle /\ UNCHANGED <<copies, tag, by, default, run, started, orphans, met>>
    BY <1>13 DEF Advance, FailCycle, Outside, table
  <2> QED
    BY <2>1 DEF TagInv, Staged
<1>14. CASE RowAppears \/ UNCHANGED vars
  <2>1. UNCHANGED <<copies, tag, by, default, run, started, orphans, met, cycle>>
    BY <1>14 DEF RowAppears, vars, table
  <2> QED
    BY <2>1 DEF TagInv, Staged
<1>15. ASSUME NEW o \in OfRun, met = {} PROVE o.by = default /\ cycle = NoCycle
  <2>1. run \in Running /\ run # NoRun /\ run.stage = "copying" /\ o.by = started
    BY <1>15 DEF OfRun, Stages
  <2> QED
    BY <1>15, <2>1 DEF TagInv, Running
<1>16. ASSUME NEW o \in OfCycle, met = {} PROVE o.by = default /\ run = NoRun
  <2>1. cycle.stage = "pulling" /\ cycle # NoCycle /\ o.by = Cycle
    BY <1>16 DEF OfCycle
  <2> QED
    BY <1>16, <2>1 DEF TagInv
<1>17. CASE LoseRun \/ LoseCycle \/ AdvanceUnknown \/ Crash
  <2>1. UNCHANGED <<copies, tag, by, default, met>> /\ (run' = NoRun \/ cycle' = NoCycle)
    BY <1>17 DEF LoseRun, LoseCycle, AdvanceUnknown, Crash, Outside, table
  <2>2. \A o \in orphans' : o \in orphans \/ o \in OfRun \/ o \in OfCycle
    BY <1>17 DEF LoseRun, LoseCycle, AdvanceUnknown, Crash, Orphaned
  <2>3. run' = NoRun /\ cycle' = NoCycle
    <3>1. CASE LoseRun
      <4>1. run # NoRun /\ run' = NoRun /\ cycle' = cycle
        BY <3>1 DEF LoseRun, Stages
      <4> QED
        BY <2>1, <4>1 DEF TagInv
    <3>2. CASE LoseCycle \/ AdvanceUnknown
      <4>1. cycle # NoCycle /\ cycle' = NoCycle
        BY <3>2 DEF LoseCycle, AdvanceUnknown
      <4>2. run = NoRun
        BY <2>1, <4>1 DEF TagInv
      <4> QED
        BY <3>2, <4>1, <4>2 DEF LoseCycle, AdvanceUnknown
    <3>3. CASE Crash
      BY <3>3 DEF Crash
    <3> QED
      BY <1>17, <3>1, <3>2, <3>3
  <2> QED
    BY <1>15, <1>16, <2>1, <2>2, <2>3 DEF TagInv, Staged
<1>18. CASE OrphanInserts
  <2>1. PICK o \in orphans : \E k \in o.left :
          /\ orphans' = (orphans \ {o}) \cup {[o EXCEPT !.left = @ \ {k}]}
          /\ UNCHANGED table \/ Insert(k, o.by)
    BY <1>18 DEF OrphanInserts
  <2>2. PICK k \in o.left :
          /\ orphans' = (orphans \ {o}) \cup {[o EXCEPT !.left = @ \ {k}]}
          /\ UNCHANGED table \/ Insert(k, o.by)
    BY <2>1
  <2>3. UNCHANGED <<default, run, cycle, met>> /\ o \in Process /\ k \in Rows
    BY <1>18, OrphanTypes DEF OrphanInserts, Outside, Process
  <2>4. o.by = default /\ run = NoRun /\ cycle = NoCycle
    BY <2>3 DEF TagInv
  <2>5. \A p \in orphans' : p.by = default
    BY <2>2, <2>3 DEF TagInv, Process
  <2>6. \A j \in Staged' : tag'[j] = by'[j]
    BY <2>2, <2>3, <2>4 DEF TagInv, Insert, Staged, table, TypeOK
  <2> QED
    BY <2>3, <2>4, <2>5, <2>6 DEF TagInv
<1>19. CASE OrphanEnds
  <2>1. UNCHANGED <<copies, tag, by, default, run, started, cycle, met>> /\ orphans' \subseteq orphans
    BY <1>19 DEF OrphanEnds, Outside, table
  <2> QED
    BY <2>1 DEF TagInv, Staged
<1> QED
  BY <1>1, <1>2, <1>3, <1>4, <1>5, <1>6, <1>7, <1>8, <1>9, <1>10, <1>11, <1>12, <1>13,
     <1>14, <1>17, <1>18, <1>19 DEF Next, Migrate, Stream, Stray

(***************************************************************************)
(* Every row carries the id of the run or cycle that wrote it, unless a    *)
(* run and a cycle have overlapped since the table was created, or an      *)
(* orphan and whoever came after it.                                       *)
(***************************************************************************)
THEOREM TagsNameTheWriter == Spec => []TagsAreTrue
<1>1. Init => TagInv
  <2> SUFFICES ASSUME Init PROVE TagInv
    OBVIOUS
  <2> QED
    BY DEF Init, TagInv, RunAt, NoRun, NoCycle, Staged
<1>2. TagInv => TagsAreTrue
  BY DEF TagInv, TagsAreTrue
<1>3. TypeOK /\ TypeOK' /\ TagInv /\ [Next]_vars => TagInv'
  BY TagStep
<1> QED
  BY <1>1, <1>2, <1>3, TypeInvariant, PTL DEF Spec

-----------------------------------------------------------------------------
(* NothingBehindCursor is an invariant.  Behind a mark there are no gaps   *)
(* when all rows after it, as far as the cursor, the cycle and the orphans *)
(* have come, are in the table or about to be pulled.  Cycles keep it so   *)
(* for any mark; a run takes rows away, but what it copies again reaches   *)
(* to the end that the view had then, and so beyond the cursor and the     *)
(* orphans of that moment.                                                 *)

\* The rows that orphans have still to insert.
Coming == UNION {o.left : o \in orphans}

Gapless(mark) ==
  /\ \A k \in Rows : mark < k /\ k <= cursor => k \in Staged
  /\ cycle # NoCycle => \A k \in Rows : mark < k /\ k <= cycle.from => k \in Staged
  /\ cycle.stage = "pulling" =>
       \A k \in Staged \cup cycle.left \cup Coming : \A j \in Rows :
         mark < j /\ j <= k => j \in Staged \cup cycle.left
  /\ cursor = NoCursor /\ cycle.stage # "pulling" =>
       \A k \in Staged \cup Coming : \A j \in Rows : mark < j /\ j <= k => j \in Staged

\* Nobody is ahead of the view.
SeenInv ==
  /\ \A k \in Staged : k <= view
  /\ cursor <= view
  /\ cycle # NoCycle => cycle.from <= view /\ \A k \in cycle.left : k <= view
  /\ \A k \in Coming : k <= view
  /\ RunAt(Kinds, {"copying"}) => run.upto <= view /\ \A k \in run.left : k <= run.upto

\* Where a run begins and where it is to end, and what a watermark repair knows of
\* the rows before that.
StartInv ==
  /\ RunAt({"full", "pk"}, Stages) => run.from = 1
  /\ RunAt({"watermark", "pk"}, Stages \ {"copying"}) => run.upto = MaxRow
  /\ RunAt({"watermark"}, {"ready", "copying"}) /\ run.mends =>
       \A k \in Rows : k < run.from => k \in Staged
  /\ RunAt(Kinds, {"copying"}) => ~whole

ReachInv ==
  "full" \notin met =>
    /\ whole => Gapless(0)
    /\ RunAt({"watermark", "pk"}, {"copying"}) /\ run.mends => Gapless(run.upto)

Reached == IInv /\ SeenInv /\ StartInv /\ ReachInv

LEMMA RowTypes ==
  ASSUME TypeOK
  PROVE  /\ Rows \subseteq Nat /\ view \in Nat /\ view <= MaxRow /\ cursor \in Int /\ NoCursor = -1
         /\ Staged \subseteq Rows
         /\ run # NoRun => run.from \in Nat /\ run.upto \in Nat /\ run.left \subseteq Rows
         /\ cycle # NoCycle => cycle.from \in Nat /\ cycle.left \subseteq Rows
         /\ \A k \in Rows : k > 0
         /\ Coming \subseteq Rows
<1>1. Coming \subseteq Rows
  BY DEF TypeOK, Coming
<1>2. /\ Rows \subseteq Nat /\ view \in Nat /\ view <= MaxRow /\ cursor \in Int
      /\ \A k \in Rows : k > 0
  BY MaxRowAssumption DEF TypeOK, Rows
<1>3. run # NoRun => run.from \in Nat /\ run.upto \in Nat /\ run.left \subseteq Rows
  BY RunShape DEF Running
<1>4. cycle # NoCycle => cycle.from \in Nat /\ cycle.left \subseteq Rows
  BY RunShape, MaxRowAssumption DEF Cycling
<1> QED
  BY <1>1, <1>2, <1>3, <1>4, StagedRows DEF NoCursor

\* A run that adds rows up to the mark leaves no gap behind it.
LEMMA GaplessByRun ==
  ASSUME TypeOK, NEW mark \in Nat, Gapless(mark), UNCHANGED <<cursor, cycle, orphans>>,
         \A k \in Staged : k \in Staged',
         \A k \in Staged' : k \in Rows /\ (k \in Staged \/ k <= mark)
  PROVE  Gapless(mark)'
<1> USE RowTypes
<1>1. \A k \in Rows : mark < k /\ k <= cursor' => k \in Staged'
  BY DEF Gapless
<1>2. cycle' # NoCycle => \A k \in Rows : mark < k /\ k <= cycle'.from => k \in Staged'
  BY DEF Gapless
<1>3. Coming' = Coming
  BY DEF Coming
<1>4. ASSUME cycle'.stage = "pulling", NEW k \in Staged' \cup cycle'.left \cup Coming',
             NEW j \in Rows, mark < j, j <= k
      PROVE  j \in Staged' \cup cycle'.left
  <2>1. cycle # NoCycle
    BY <1>4, RunShape
  <2>2. k \in Staged \cup cycle.left \cup Coming
    BY <1>3, <1>4, <2>1
  <2> QED
    BY <1>4, <2>2 DEF Gapless
<1>5. ASSUME cursor' = NoCursor, cycle'.stage # "pulling", NEW k \in Staged' \cup Coming',
             NEW j \in Rows, mark < j, j <= k
      PROVE  j \in Staged'
  <2>1. k \in Staged \cup Coming
    BY <1>3, <1>5
  <2> QED
    BY <1>5, <2>1 DEF Gapless
<1> QED
  BY <1>1, <1>2, <1>4, <1>5 DEF Gapless

\* An orphan inserts one of the rows that it had left.
LEMMA OrphanStages ==
  ASSUME TypeOK, OrphanInserts
  PROVE  /\ \A k \in Staged : k \in Staged'
         /\ \A k \in Staged' : k \in Staged \cup Coming
         /\ \A k \in Coming' : k \in Coming
<1>1. PICK o \in orphans : \E k \in o.left :
        /\ orphans' = (orphans \ {o}) \cup {[o EXCEPT !.left = @ \ {k}]}
        /\ UNCHANGED table \/ Insert(k, o.by)
  BY DEF OrphanInserts
<1>2. PICK k \in o.left :
        /\ orphans' = (orphans \ {o}) \cup {[o EXCEPT !.left = @ \ {k}]}
        /\ UNCHANGED table \/ Insert(k, o.by)
  BY <1>1
<1>3. o \in Process /\ k \in Rows /\ k \in Coming
  BY OrphanTypes DEF Process, Coming
<1>4. \A j \in Staged : j \in Staged'
  BY <1>2, <1>3 DEF Insert, OneMore, Staged, table, TypeOK
<1>5. \A j \in Staged' : j \in Staged \/ j = k
  BY <1>2, <1>3 DEF Insert, Staged, table, TypeOK
<1>6. PICK new : new.left \subseteq o.left /\ orphans' = (orphans \ {o}) \cup {new}
  BY <1>2, <1>3 DEF Process
<1>7. ASSUME NEW p \in orphans', NEW j \in p.left PROVE j \in Coming
  BY <1>6, <1>7 DEF Coming
<1>8. \A j \in Coming' : j \in Coming
  BY <1>7 DEF Coming
<1> QED
  BY <1>3, <1>4, <1>5, <1>8

\* The steps of a cycle and of the orphans leave none either, nor does a row that
\* appears; only an unknown exit lets the cursor pass what is still to come.
LEMMA GaplessByCycle ==
  ASSUME TypeOK, TypeOK', SeenInv, Stream \/ Stray \/ RowAppears \/ UNCHANGED vars, ~AdvanceUnknown,
         NEW mark \in Nat, Gapless(mark)
  PROVE  Gapless(mark)'
<1> USE RowTypes, RunShape
<1>1. CASE StartCycle
  <2>1. /\ cycle = NoCycle /\ cycle' # NoCycle /\ cycle'.stage = "begun"
        /\ UNCHANGED <<cursor, copies, orphans>>
        /\ cycle'.from = CASE cursor # NoCursor -> cursor
                           [] cursor = NoCursor /\ Staged # {} -> MaxOf(Staged)
                           [] OTHER -> 0
    BY <1>1 DEF StartCycle, table, NoCycle
  <2>2. Staged' = Staged /\ Coming' = Coming
    BY <2>1 DEF Staged, Coming
  <2>3. ASSUME NEW k \in Rows, mark < k, k <= cycle'.from PROVE k \in Staged
    <3>1. CASE cursor # NoCursor
      BY <2>1, <2>3, <3>1 DEF Gapless
    <3>2. CASE cursor = NoCursor /\ Staged # {}
      <4>1. MaxOf(Staged) \in Staged
        BY <3>2, LastRow
      <4> QED
        BY <2>1, <2>3, <3>2, <4>1 DEF Gapless
    <3>3. CASE cursor = NoCursor /\ Staged = {}
      BY <2>1, <2>3, <3>3
    <3> QED
      BY <3>1, <3>2, <3>3
  <2> QED
    BY <2>1, <2>2, <2>3 DEF Gapless
<1>2. CASE TagCycle \/ IndexForCycle
  <2>1. /\ cycle # NoCycle /\ cycle' # NoCycle /\ cycle'.stage # "pulling"
        /\ cycle.stage # "pulling"
        /\ cycle'.from = cycle.from /\ UNCHANGED <<cursor, copies, orphans>>
    BY <1>2, GoCycleFacts DEF TagCycle, IndexForCycle, table
  <2>2. Staged' = Staged /\ Coming' = Coming
    BY <2>1 DEF Staged, Coming
  <2> QED
    BY <2>1, <2>2 DEF Gapless
<1>3. CASE Query
  <2>1. /\ cycle \in Cycling /\ cycle.stage = "ready" /\ UNCHANGED <<cursor, copies, orphans>>
        /\ cycle' = [cycle EXCEPT !.stage = "pulling",
                                  !.left = {k \in Rows : cycle.from <= k /\ k <= view}]
    BY <1>3 DEF Query, table
  <2>2. Staged' = Staged /\ Coming' = Coming
    BY <2>1 DEF Staged, Coming
  <2>3. /\ cycle' # NoCycle /\ cycle'.stage = "pulling" /\ cycle'.from = cycle.from
        /\ cycle'.left = {k \in Rows : cycle.from <= k /\ k <= view}
    BY <2>1 DEF Cycling, NoCycle
  <2>4. ASSUME NEW k \in Staged \cup cycle'.left \cup Coming, NEW j \in Rows, mark < j, j <= k
        PROVE  j \in Staged \cup cycle'.left
    <3>1. k <= view /\ k \in Rows
      BY <2>3 DEF SeenInv
    <3>2. CASE j < cycle.from
      BY <2>1, <2>4, <3>2 DEF Gapless
    <3>3. CASE j >= cycle.from
      BY <2>1, <2>3, <2>4, <3>1, <3>3
    <3> QED
      BY <2>1, <3>2, <3>3
  <2> QED
    BY <2>1, <2>2, <2>3, <2>4 DEF Gapless
<1>4. CASE PullRow
  <2>1. /\ cycle \in Cycling /\ cycle.stage = "pulling" /\ UNCHANGED <<cursor, orphans>>
    BY <1>4 DEF PullRow
  <2>2. PICK k \in cycle.left :
          /\ cycle' = [cycle EXCEPT !.left = @ \ {k}]
          /\ IF index /\ copies[k] > 0 THEN UNCHANGED table ELSE Insert(k, Cycle)
    BY <1>4 DEF PullRow
  <2>3. /\ k \in Rows /\ cycle' # NoCycle /\ cycle'.stage = "pulling"
        /\ cycle'.from = cycle.from /\ cycle'.left = cycle.left \ {k}
    BY <2>1, <2>2 DEF Cycling, NoCycle
  <2>4. Staged' = Staged \cup {k}
    BY <2>2, <2>3 DEF Insert, OneMore, TypeOK, table, Staged
  <2>5. Staged' \cup cycle'.left = Staged \cup cycle.left /\ Coming' = Coming
    BY <2>1, <2>2, <2>3, <2>4 DEF Coming
  <2> QED
    BY <2>1, <2>3, <2>4, <2>5 DEF Gapless
<1>5. CASE Advance
  <2>1. /\ cycle.stage = "pulling" /\ cycle.left = {} /\ cycle' = NoCycle /\ UNCHANGED copies
        /\ cursor' = IF Staged # {} THEN MaxOf(Staged) ELSE cycle.from
    BY <1>5 DEF Advance, table
  <2>2. Staged' = Staged
    BY <2>1 DEF Staged
  <2>3. cursor' # NoCursor
    BY <2>1, LastRow
  <2>4. ASSUME NEW k \in Rows, mark < k, k <= cursor' PROVE k \in Staged
    <3>1. CASE Staged # {}
      <4>1. MaxOf(Staged) \in Staged
        BY <3>1, LastRow
      <4> QED
        BY <2>1, <2>4, <3>1, <4>1 DEF Gapless
    <3>2. CASE Staged = {}
      BY <2>1, <2>4, <3>2 DEF Gapless
    <3> QED
      BY <3>1, <3>2
  <2> QED
    BY <2>1, <2>2, <2>3, <2>4 DEF Gapless
<1>6. CASE FailCycle \/ LoseCycle
  <2>1. /\ cycle # NoCycle /\ cycle' = NoCycle /\ UNCHANGED copies /\ cursor' = cycle.from
    BY <1>6 DEF FailCycle, LoseCycle, table
  <2>2. Staged' = Staged
    BY <2>1 DEF Staged
  <2> QED
    BY <2>1, <2>2 DEF Gapless
<1>7. CASE RowAppears \/ UNCHANGED vars
  <2>1. UNCHANGED <<copies, cursor, cycle, orphans>>
    BY <1>7 DEF RowAppears, vars, table
  <2>2. Staged' = Staged /\ Coming' = Coming
    BY <2>1 DEF Staged, Coming
  <2> QED
    BY <2>1, <2>2 DEF Gapless
<1>8. CASE OrphanInserts
  <2>1. UNCHANGED <<cursor, cycle>>
    BY <1>8 DEF OrphanInserts
  <2>2. /\ \A k \in Staged : k \in Staged'
        /\ \A k \in Staged' : k \in Staged \cup Coming
        /\ \A k \in Coming' : k \in Coming
    BY <1>8, OrphanStages
  <2>3. ASSUME cycle.stage = "pulling", NEW k \in Staged' \cup cycle.left \cup Coming', NEW j \in Rows,
               mark < j, j <= k
        PROVE  j \in Staged' \cup cycle.left
    <3>1. k \in Staged \cup cycle.left \cup Coming
      BY <2>2, <2>3
    <3> QED
      BY <2>2, <2>3, <3>1 DEF Gapless
  <2>4. ASSUME cursor = NoCursor, cycle.stage # "pulling", NEW k \in Staged' \cup Coming',
               NEW j \in Rows, mark < j, j <= k
        PROVE  j \in Staged'
    <3>1. k \in Staged \cup Coming
      BY <2>2, <2>4
    <3> QED
      BY <2>2, <2>4, <3>1 DEF Gapless
  <2> QED
    BY <2>1, <2>2, <2>3, <2>4 DEF Gapless
<1>9. CASE OrphanEnds
  <2>1. UNCHANGED <<copies, cursor, cycle>> /\ orphans' \subseteq orphans
    BY <1>9 DEF OrphanEnds, table
  <2>2. Staged' = Staged /\ Coming' \subseteq Coming
    BY <2>1 DEF Staged, Coming
  <2> QED
    BY <2>1, <2>2 DEF Gapless
<1> QED
  BY <1>1, <1>2, <1>3, <1>4, <1>5, <1>6, <1>7, <1>8, <1>9 DEF Stream, Stray

\* At the end of the view there is nothing to have a gap before.
LEMMA GaplessAtEnd ==
  ASSUME TypeOK, SeenInv, NEW mark \in Nat, \A k \in Rows : mark < k /\ k <= view => k \in Staged
  PROVE  Gapless(mark)
<1> USE RowTypes, RunShape
<1>1. \A k \in Rows : mark < k /\ k <= cursor => k \in Staged
  BY DEF SeenInv
<1>2. cycle # NoCycle => \A k \in Rows : mark < k /\ k <= cycle.from => k \in Staged
  BY DEF SeenInv
<1>3. ASSUME cycle.stage = "pulling", NEW k \in Staged \cup cycle.left \cup Coming, NEW j \in Rows,
             mark < j, j <= k
      PROVE  j \in Staged
  <2>1. k <= view /\ k \in Rows
    BY <1>3 DEF SeenInv
  <2> QED
    BY <1>3, <2>1
<1>4. ASSUME NEW k \in Staged \cup Coming, NEW j \in Rows, mark < j, j <= k PROVE j \in Staged
  <2>1. k <= view
    BY DEF SeenInv
  <2> QED
    BY <1>4, <2>1
<1> QED
  BY <1>1, <1>2, <1>3, <1>4 DEF Gapless

\* What is in the table up to the mark closes the gaps before it.
LEMMA GaplessFromStart ==
  ASSUME TypeOK, NEW mark \in Nat, Gapless(mark), \A k \in Rows : k <= mark => k \in Staged
  PROVE  Gapless(0)
<1>1. \A k \in Rows : k \in Staged \/ mark < k
  BY RowTypes
<1> QED
  BY <1>1 DEF Gapless

LEMMA SeenStep ==
  ASSUME IInv, TypeOK', SeenInv, [Next]_vars
  PROVE  SeenInv'
<1> USE RowTypes, RunShape DEF IInv, RunAt
<1>1. CASE StartRun \/ FailRun \/ Succeed
  <2>1. /\ UNCHANGED <<copies, view, cursor, cycle, orphans>>
        /\ run'.stage # "copying"
    BY <1>1 DEF StartRun, FailRun, Succeed, Outside, table, Run
  <2> QED
    BY <2>1 DEF SeenInv, Staged, Coming
<1>2. CASE Recreate \/ TagRun \/ IndexForRun \/ ClearRange
  <2>1. run \in Running
    BY <1>2 DEF Recreate, TagRun, IndexForRun, ClearRange, Active, Stages
  <2>2. run'.stage # "copying"
    BY <1>2, <2>1, GoFacts DEF Recreate, TagRun, IndexForRun, ClearRange, Stages, Running
  <2>3. UNCHANGED <<view, cursor, cycle, orphans>>
    BY <1>2 DEF Recreate, TagRun, IndexForRun, ClearRange, Outside
  <2>4. \A k \in Staged' : k \in Staged
    BY <1>2 DEF Recreate, TagRun, IndexForRun, ClearRange, Empty, Staged, table
  <2> QED
    BY <2>2, <2>3, <2>4 DEF SeenInv, Coming
<1>3. CASE StartCopy
  <2>1. run \in Running
    BY <1>3 DEF StartCopy, Stages
  <2>2. /\ run'.upto = IF view < run.upto THEN view ELSE run.upto
        /\ run'.left = {k \in Rows : run.from <= k /\ k <= view /\ k <= run.upto}
    BY <1>3, <2>1 DEF StartCopy, Running
  <2>3. UNCHANGED <<view, cursor, cycle, orphans>>
    BY <1>3 DEF StartCopy, Outside
  <2>4. \A k \in Staged' : k \in Staged
    BY <1>3 DEF StartCopy, Empty, Staged
  <2>5. run'.upto <= view /\ \A k \in run'.left : k <= run'.upto
    BY <2>1, <2>2 DEF Running
  <2> QED
    BY <2>3, <2>4, <2>5 DEF SeenInv, Coming
<1>4. CASE CopyRow
  <2>1. run \in Running /\ run.stage = "copying" /\ run # NoRun
    BY <1>4 DEF CopyRow, Stages
  <2>2. PICK k \in run.left :
          /\ run' = [run EXCEPT !.left = @ \ {k}]
          /\ UNCHANGED table \/ Insert(k, started)
    BY <1>4 DEF CopyRow
  <2>3. k \in Rows /\ k <= view /\ run.kind \in Kinds
    BY <2>1 DEF SeenInv, Running
  <2>4. UNCHANGED <<view, cursor, cycle, orphans>>
    BY <1>4 DEF CopyRow, Outside
  <2>5. \A j \in Staged' : j \in Staged \/ j = k
    BY <2>2, <2>3 DEF Insert, Staged, table, TypeOK
  <2>6. run'.upto = run.upto /\ run'.left \subseteq run.left
    BY <2>1, <2>2 DEF Running
  <2> QED
    BY <2>1, <2>3, <2>4, <2>5, <2>6 DEF SeenInv, Coming
<1>5. CASE StartCycle
  <2>1. /\ UNCHANGED <<copies, view, cursor, run, orphans>> /\ cycle'.left = {}
        /\ cycle'.from = CASE cursor # NoCursor -> cursor
                           [] cursor = NoCursor /\ Staged # {} -> MaxOf(Staged)
                           [] OTHER -> 0
    BY <1>5 DEF StartCycle, Outside, table
  <2>2. Staged # {} => MaxOf(Staged) \in Staged
    BY LastRow
  <2>3. cycle'.from <= view
    BY <2>1, <2>2 DEF SeenInv
  <2> QED
    BY <2>1, <2>3 DEF SeenInv, Staged, Coming
<1>6. CASE TagCycle \/ IndexForCycle
  <2>1. /\ UNCHANGED <<copies, view, cursor, run, orphans>>
        /\ cycle # NoCycle /\ cycle'.left = cycle.left /\ cycle'.from = cycle.from
    BY <1>6, GoCycleFacts DEF TagCycle, IndexForCycle, Outside, table
  <2> QED
    BY <2>1 DEF SeenInv, Staged, Coming
<1>7. CASE Query
  <2>1. /\ UNCHANGED <<copies, view, cursor, run, orphans>> /\ cycle # NoCycle
        /\ cycle'.from = cycle.from
        /\ cycle'.left = {k \in Rows : cycle.from <= k /\ k <= view}
    BY <1>7 DEF Query, Outside, table, Cycling
  <2> QED
    BY <2>1 DEF SeenInv, Staged, Coming
<1>8. CASE PullRow
  <2>1. /\ cycle \in Cycling /\ cycle # NoCycle /\ UNCHANGED <<view, cursor, run, orphans>>
    BY <1>8 DEF PullRow, Outside
  <2>2. PICK k \in cycle.left :
          /\ cycle' = [cycle EXCEPT !.left = @ \ {k}]
          /\ UNCHANGED table \/ Insert(k, Cycle)
    BY <1>8 DEF PullRow
  <2>3. k \in Rows /\ k <= view
    BY <2>1 DEF SeenInv, Cycling
  <2>4. \A j \in Staged' : j \in Staged \/ j = k
    BY <2>2, <2>3 DEF Insert, Staged, table, TypeOK
  <2>5. cycle'.from = cycle.from /\ cycle'.left \subseteq cycle.left
    BY <2>1, <2>2 DEF Cycling
  <2> QED
    BY <2>1, <2>3, <2>4, <2>5 DEF SeenInv, Coming
<1>9. CASE Advance \/ FailCycle
  <2>1. /\ UNCHANGED <<copies, view, run, orphans>> /\ cycle' = NoCycle /\ cycle # NoCycle
        /\ \/ Staged # {} /\ cursor' = MaxOf(Staged)
           \/ cursor' = cycle.from
    BY <1>9 DEF Advance, FailCycle, Outside, table
  <2>2. Staged # {} => MaxOf(Staged) \in Staged
    BY LastRow
  <2> QED
    BY <2>1, <2>2 DEF SeenInv, Staged, Coming
<1>10. CASE RowAppears \/ UNCHANGED vars
  <2>1. UNCHANGED <<copies, cursor, run, cycle, orphans>> /\ view' >= view /\ view' \in Nat
    BY <1>10 DEF RowAppears, vars, table
  <2>2. Staged' = Staged
    BY <2>1 DEF Staged
  <2>3. \A k \in Staged' : k <= view'
    BY <2>1, <2>2 DEF SeenInv
  <2>4. cursor' <= view'
    BY <2>1 DEF SeenInv
  <2>5. cycle' # NoCycle => cycle'.from <= view' /\ \A k \in cycle'.left : k <= view'
    BY <2>1 DEF SeenInv
  <2>6. run'.stage = "copying" /\ run' # NoRun /\ run'.kind \in Kinds =>
          run'.upto <= view' /\ \A k \in run'.left : k <= run'.upto
    BY <2>1 DEF SeenInv
  <2>7. \A k \in Coming' : k <= view'
    BY <2>1 DEF SeenInv, Coming
  <2> QED
    BY <2>3, <2>4, <2>5, <2>6, <2>7 DEF SeenInv
<1>11. ASSUME NEW k \in UNION {o.left : o \in OfRun \cup OfCycle} PROVE k \in Rows /\ k <= view
  <2>1. PICK o \in OfRun \cup OfCycle : k \in o.left
    OBVIOUS
  <2>2. CASE o \in OfRun
    <3>1. run \in Running /\ run # NoRun /\ run.stage = "copying" /\ k \in run.left
      BY <2>1, <2>2 DEF OfRun, Stages
    <3> QED
      BY <3>1 DEF SeenInv, Running
  <2>3. CASE o \in OfCycle
    <3>1. cycle # NoCycle /\ k \in cycle.left
      BY <2>1, <2>3 DEF OfCycle
    <3> QED
      BY <3>1 DEF SeenInv
  <2> QED
    BY <2>2, <2>3
<1>12. CASE LoseRun \/ LoseCycle \/ AdvanceUnknown \/ Crash
  <2>1. /\ UNCHANGED <<copies, view>>
        /\ cycle' = NoCycle \/ cycle' = cycle
        /\ \/ run' = run
           \/ run'.stage # "copying"
           \/ /\ run' \in Running /\ run # NoRun /\ run.stage = "copying"
              /\ run'.kind = run.kind /\ run'.upto = run.upto /\ run'.left = run.left
    <3>1. CASE LoseRun \/ LoseCycle \/ Crash
      <4>1. /\ UNCHANGED <<copies, view>>
            /\ cycle' = NoCycle \/ cycle' = cycle
            /\ run' = NoRun \/ run' = run
        BY <3>1 DEF LoseRun, LoseCycle, Crash, Outside, table
      <4> QED
        BY <4>1
    <3>2. CASE AdvanceUnknown
      <4>1. /\ UNCHANGED <<copies, view>> /\ cycle' = NoCycle
            /\ run' = IF run.stage = "copying" THEN [run EXCEPT !.mends = FALSE] ELSE run
        BY <3>2 DEF AdvanceUnknown, Outside, table
      <4>2. CASE run.stage = "copying"
        <5>1. run \in Running /\ run # NoRun /\ run' = [run EXCEPT !.mends = FALSE]
          BY <4>1, <4>2 DEF Stages
        <5>2. /\ run' \in Running /\ run'.kind = run.kind /\ run'.upto = run.upto
              /\ run'.left = run.left
          BY <5>1 DEF Running
        <5> QED
          BY <4>1, <4>2, <5>1, <5>2
      <4>3. CASE run.stage # "copying"
        BY <4>1, <4>3
      <4> QED
        BY <4>1, <4>2, <4>3
    <3> QED
      BY <1>12, <3>1, <3>2
  <2>2. Staged' = Staged
    BY <2>1 DEF Staged
  <2>3. cursor' <= view
    <3>1. Staged # {} => MaxOf(Staged) \in Staged
      BY LastRow
    <3>2. \/ cursor' = cursor
          \/ cycle # NoCycle /\ cursor' = cycle.from
          \/ Staged # {} /\ cursor' = MaxOf(Staged)
      BY <1>12 DEF LoseRun, LoseCycle, AdvanceUnknown, Crash
    <3> QED
      BY <3>1, <3>2 DEF SeenInv
  <2>4. orphans' \subseteq orphans \cup OfRun \cup OfCycle
    BY <1>12 DEF LoseRun, LoseCycle, AdvanceUnknown, Crash, Orphaned
  <2>5. \A k \in Coming' : k <= view
    BY <1>11, <2>4 DEF SeenInv, Coming
  <2> QED
    BY <2>1, <2>2, <2>3, <2>5 DEF SeenInv
<1>13. CASE OrphanInserts
  <2>1. UNCHANGED <<view, cursor, run, cycle>>
    BY <1>13 DEF OrphanInserts, Outside
  <2> QED
    BY <1>13, <2>1, OrphanStages DEF SeenInv
<1>14. CASE OrphanEnds
  <2>1. UNCHANGED <<copies, view, cursor, run, cycle>> /\ orphans' \subseteq orphans
    BY <1>14 DEF OrphanEnds, Outside, table
  <2> QED
    BY <2>1 DEF SeenInv, Staged, Coming
<1> QED
  BY <1>1, <1>2, <1>3, <1>4, <1>5, <1>6, <1>7, <1>8, <1>9, <1>10, <1>12, <1>13, <1>14
  DEF Next, Migrate, Stream, Stray

LEMMA StartStep ==
  ASSUME TypeOK, TypeOK', StartInv, [Next]_vars
  PROVE  StartInv'
<1> USE RowTypes, RunShape DEF RunAt
<1>1. CASE StartRun
  <2>1. /\ run'.stage = "begun"
        /\ run'.kind \in {"full", "pk"} => run'.from = 1
        /\ run'.kind \in {"watermark", "pk"} => run'.upto = MaxRow
    BY <1>1 DEF StartRun, Run
  <2> QED
    BY <2>1 DEF StartInv
<1>2. CASE Recreate \/ TagRun \/ IndexForRun
  <2>1. run \in Running
    BY <1>2 DEF Recreate, TagRun, IndexForRun, Active, Stages
  <2>2. /\ run # NoRun /\ run.stage \in Stages \ {"copying"}
        /\ run'.kind = run.kind /\ run'.from = run.from /\ run'.upto = run.upto
        /\ run'.stage \in {"made", "tagged", "ready"}
        /\ run'.stage = "ready" => run.kind # "watermark"
    BY <1>2, <2>1, GoFacts DEF Recreate, TagRun, IndexForRun, Active, Stages
  <2> QED
    BY <2>2 DEF StartInv
<1>3. CASE ClearRange
  <2>1. run \in Running /\ run.kind = "watermark" /\ run.stage = "tagged" /\ run # NoRun
    BY <1>3 DEF ClearRange, Active, Stages
  <2>2. /\ run'.kind = run.kind /\ run'.from = run.from /\ run'.stage = "ready"
        /\ run'.upto = run.upto
        /\ run'.mends = (1..(run.from - 1) \subseteq Staged)
    <3> DEFINE known == 1..(run.from - 1) \subseteq Staged
    <3>1. run' = [run EXCEPT !.stage = "ready", !.mends = known]
      BY <1>3 DEF ClearRange
    <3> HIDE DEF known
    <3>2. /\ run'.kind = run.kind /\ run'.from = run.from /\ run'.stage = "ready"
          /\ run'.upto = run.upto /\ run'.mends = known
      BY <2>1, <3>1 DEF Running
    <3> QED
      BY <3>2 DEF known
  <2>3. \A k \in Rows : k < run.from => copies'[k] = copies[k]
    BY <1>3, <2>1 DEF ClearRange, Running
  <2>4. ASSUME run'.mends, NEW k \in Rows, k < run.from PROVE k \in Staged'
    <3>1. k \in 1..(run.from - 1)
      BY <2>1, <2>4
    <3>2. k \in Staged
      BY <2>2, <2>4, <3>1
    <3> QED
      BY <2>3, <2>4, <3>2 DEF Staged
  <2> QED
    BY <2>1, <2>2, <2>4 DEF StartInv, Stages
<1>4. CASE StartCopy
  <2>1. run \in Running /\ run.stage = "ready" /\ run # NoRun
    BY <1>4 DEF StartCopy, Stages
  <2>2. /\ run'.kind = run.kind /\ run'.from = run.from /\ run'.stage = "copying"
        /\ run'.mends = run.mends
    BY <1>4, <2>1 DEF StartCopy, Running
  <2>3. run.kind = "watermark" => Staged' = Staged
    BY <1>4 DEF StartCopy, Staged
  <2>4. whole' = FALSE
    BY <1>4 DEF StartCopy
  <2> QED
    BY <2>1, <2>2, <2>3, <2>4 DEF StartInv, Stages
<1>5. CASE CopyRow
  <2>1. run \in Running /\ run.stage = "copying" /\ run # NoRun
    BY <1>5 DEF CopyRow, Stages
  <2>2. PICK k \in run.left :
          /\ run' = [run EXCEPT !.left = @ \ {k}]
          /\ UNCHANGED table \/ Insert(k, started)
    BY <1>5 DEF CopyRow
  <2>3. /\ run'.kind = run.kind /\ run'.from = run.from /\ run'.stage = run.stage
        /\ run'.mends = run.mends /\ k \in Rows /\ UNCHANGED whole
    BY <1>5, <2>1, <2>2 DEF CopyRow, Running
  <2>4. \A j \in Staged : j \in Staged'
    BY <2>2, <2>3 DEF Insert, OneMore, Staged, table, TypeOK
  <2> QED
    BY <2>1, <2>3, <2>4 DEF StartInv, Stages
<1>6. CASE Succeed \/ FailRun
  <2>1. run' = NoRun
    BY <1>6 DEF Succeed, FailRun
  <2> QED
    BY <2>1 DEF StartInv
<1>7. CASE PullRow
  <2>1. PICK k \in cycle.left : UNCHANGED table \/ Insert(k, Cycle)
    BY <1>7 DEF PullRow
  <2>2. k \in Rows /\ UNCHANGED <<run, whole>>
    BY <1>7 DEF PullRow
  <2>3. \A j \in Staged : j \in Staged'
    BY <2>1, <2>2 DEF Insert, OneMore, Staged, table, TypeOK
  <2> QED
    BY <2>2, <2>3 DEF StartInv
<1>8. CASE (Stream /\ ~PullRow /\ ~AdvanceUnknown) \/ OrphanEnds \/ RowAppears \/ UNCHANGED vars
  <2>1. UNCHANGED <<copies, run, whole>>
    BY <1>8 DEF Stream, StartCycle, TagCycle, IndexForCycle, Query, Advance, FailCycle, LoseCycle,
       OrphanEnds, RowAppears, vars, table
  <2> QED
    BY <2>1 DEF StartInv, Staged
<1>9. CASE LoseRun \/ Crash
  <2>1. run' = NoRun
    BY <1>9 DEF LoseRun, Crash
  <2> QED
    BY <2>1 DEF StartInv
<1>10. CASE AdvanceUnknown
  <2>1. UNCHANGED copies /\ whole' = FALSE
        /\ run' = IF run.stage = "copying" THEN [run EXCEPT !.mends = FALSE] ELSE run
    BY <1>10 DEF AdvanceUnknown, table
  <2>2. CASE run.stage = "copying"
    <3>1. /\ run \in Running /\ run # NoRun /\ run'.kind = run.kind /\ run'.from = run.from
          /\ run'.stage = "copying" /\ run'.mends = FALSE
      BY <2>1, <2>2 DEF Running, Stages
    <3> QED
      BY <2>1, <2>2, <3>1 DEF StartInv, Stages
  <2>3. CASE run.stage # "copying"
    BY <2>1, <2>3 DEF StartInv, Staged
  <2> QED
    BY <2>2, <2>3
<1>11. CASE OrphanInserts
  <2>1. UNCHANGED <<run, whole>>
    BY <1>11 DEF OrphanInserts
  <2> QED
    BY <1>11, <2>1, OrphanStages DEF StartInv
<1> QED
  BY <1>1, <1>2, <1>3, <1>4, <1>5, <1>6, <1>7, <1>8, <1>9, <1>10, <1>11
  DEF Next, Migrate, Stream, Stray

\* What a run that ends well has in the table, and what that says of its mark.
LEMMA MadeIsGapless ==
  ASSUME Reached, "full" \notin met, Succeed, Made(run)
  PROVE  Gapless(0)
<1> USE RowTypes, RunShape DEF Reached, IInv
<1>1. run \in Running /\ run # NoRun /\ run.stage = "copying" /\ run.left = {}
  BY DEF Succeed, Stages
<1>2. \A k \in run.from..run.upto : k \in Staged
  BY <1>1 DEF FillInv, RunAt, Running, Staged
<1>3. CASE run.kind = "full"
  <2>1. run.from = 1 /\ run.upto = view
    BY <1>1, <1>3 DEF StartInv, RunAt, Made, Stages
  <2>2. \A k \in Rows : 0 < k /\ k <= view => k \in Staged
    BY <1>2, <2>1
  <2> QED
    BY <2>2, GaplessAtEnd
<1>4. CASE run.kind # "full"
  <2>1. run.kind \in {"watermark", "pk"} /\ run.upto \in Nat /\ run.mends
    BY <1>1, <1>4 DEF Running, Kinds, Made
  <2>2. Gapless(run.upto)
    BY <1>1, <2>1 DEF ReachInv, RunAt
  <2>3. \A k \in Rows : k < run.from => k \in Staged
    <3>1. CASE run.kind = "pk"
      <4>1. run.from = 1
        BY <1>1, <3>1 DEF StartInv, RunAt, Stages
      <4> QED
        BY <4>1
    <3>2. CASE run.kind = "watermark"
      <4> QED
        BY <1>1, <2>1, <3>2 DEF StartInv, RunAt
    <3> QED
      BY <2>1, <3>1, <3>2
  <2>4. \A k \in Rows : k <= run.upto => k \in Staged
    BY <1>1, <1>2, <2>3 DEF Running
  <2> QED
    BY <2>1, <2>2, <2>4, GaplessFromStart
<1> QED
  BY <1>3, <1>4

LEMMA ReachStep ==
  ASSUME Reached, TypeOK', SeenInv', [Next]_vars
  PROVE  ReachInv'
<1> USE RowTypes, RunShape DEF Reached, IInv
<1> SUFFICES ASSUME "full" \notin met'
             PROVE  /\ whole' => Gapless(0)'
                    /\ RunAt({"watermark", "pk"}, {"copying"})' /\ run'.mends => Gapless(run.upto)'
  BY DEF ReachInv
<1>1. CASE StartRun \/ FailRun
  <2>1. /\ UNCHANGED <<copies, cursor, cycle, orphans, whole>> /\ run'.stage # "copying"
        /\ "full" \notin met
    BY <1>1 DEF StartRun, FailRun, Outside, table, Run
  <2>2. Gapless(0) => Gapless(0)'
    BY <2>1 DEF Gapless, Staged, Coming
  <2> QED
    BY <2>1, <2>2 DEF ReachInv, RunAt
<1>2. CASE Recreate \/ ClearRange
  <2>1. run \in Running
    BY <1>2 DEF Recreate, ClearRange, Active, Stages
  <2>2. run'.stage # "copying" /\ whole' = FALSE
    BY <1>2, <2>1, GoFacts DEF Recreate, ClearRange, Stages, Running
  <2> QED
    BY <2>2 DEF RunAt
<1>3. CASE TagRun \/ IndexForRun
  <2>1. run \in Running
    BY <1>3 DEF TagRun, IndexForRun, Active, Stages
  <2>2. run'.stage # "copying" /\ UNCHANGED <<copies, cursor, cycle, orphans, whole, met>>
    BY <1>3, <2>1, GoFacts DEF TagRun, IndexForRun, Stages, Outside, table
  <2>3. Gapless(0) => Gapless(0)'
    BY <2>2 DEF Gapless, Staged, Coming
  <2> QED
    BY <2>2, <2>3 DEF ReachInv, RunAt
<1>4. CASE StartCopy
  <2>1. run \in Running
    BY <1>4 DEF StartCopy, Stages
  <2>2. run'.kind = run.kind /\ run'.upto = IF view < run.upto THEN view ELSE run.upto
    BY <1>4, <2>1 DEF StartCopy, Running
  <2>3. whole' = FALSE /\ view' = view
    BY <1>4 DEF StartCopy, Outside
  <2>4. PICK mark \in Nat : mark = run'.upto
    BY <2>1, <2>2 DEF Running
  <2>5. run.kind \in {"watermark", "pk"} => mark = view
    <3>1. view <= MaxRow /\ run.stage = "ready"
      BY <1>4 DEF StartCopy
    <3>2. run.kind \in {"watermark", "pk"} => run.upto = MaxRow
      BY <2>1, <3>1 DEF StartInv, RunAt, Stages
    <3> QED
      BY <2>2, <2>4, <3>1, <3>2, MaxRowAssumption
  <2>6. ASSUME run.kind \in {"watermark", "pk"} PROVE Gapless(mark)'
    <3>1. Gapless(mark)
      BY <2>5, <2>6, GaplessAtEnd
    <3>2. UNCHANGED <<copies, cursor, cycle, orphans>>
      BY <1>4, <2>6 DEF StartCopy
    <3> QED
      BY <3>1, <3>2 DEF Gapless, Staged, Coming
  <2> QED
    BY <2>2, <2>3, <2>4, <2>6 DEF RunAt
<1>5. CASE CopyRow
  <2>1. run \in Running /\ run.stage = "copying" /\ run # NoRun
    BY <1>5 DEF CopyRow, Stages
  <2>2. PICK k \in run.left :
          /\ run' = [run EXCEPT !.left = @ \ {k}]
          /\ UNCHANGED table \/ Insert(k, started)
    BY <1>5 DEF CopyRow
  <2>3. /\ run'.kind = run.kind /\ run'.upto = run.upto
        /\ run'.mends = run.mends
        /\ k \in Rows /\ UNCHANGED <<whole, cursor, cycle, orphans, met>>
    BY <1>5, <2>1, <2>2 DEF CopyRow, Running, Outside
  <2>4. \A j \in Staged : j \in Staged'
    BY <2>2, <2>3 DEF Insert, OneMore, Staged, table, TypeOK
  <2>5. \A j \in Staged' : j \in Staged \/ j = k
    BY <2>2, <2>3 DEF Insert, Staged, table, TypeOK
  <2>6. k <= run.upto /\ ~whole
    BY <2>1 DEF SeenInv, StartInv, RunAt, Running
  <2>7. PICK mark \in Nat : mark = run.upto
    BY <2>1 DEF Running
  <2>8. \A j \in Staged' : j \in Rows /\ (j \in Staged \/ j <= mark)
    <3>1. \A j \in Staged' : j \in Rows
      BY DEF Staged
    <3> QED
      BY <2>5, <2>6, <2>7, <3>1
  <2>9. Gapless(mark) => Gapless(mark)'
    BY <2>3, <2>4, <2>8, GaplessByRun
  <2> QED
    BY <2>1, <2>3, <2>6, <2>7, <2>9 DEF ReachInv, RunAt
<1>6. CASE Succeed
  <2>1. /\ UNCHANGED <<copies, cursor, cycle, orphans, met>> /\ run' = NoRun
        /\ whole' = (whole \/ Made(run))
    BY <1>6 DEF Succeed, Outside, table
  <2>2. whole' => Gapless(0)
    BY <1>6, <2>1, MadeIsGapless DEF ReachInv
  <2>3. Gapless(0) => Gapless(0)'
    BY <2>1 DEF Gapless, Staged, Coming
  <2> QED
    BY <2>1, <2>2, <2>3 DEF RunAt
<1>7. CASE (Stream \/ Stray \/ RowAppears \/ UNCHANGED vars) /\ ~AdvanceUnknown
  <2>1. UNCHANGED <<run, whole>> /\ "full" \notin met
    BY <1>7 DEF Stream, StartCycle, TagCycle, IndexForCycle, Query, PullRow, Advance, FailCycle,
       LoseCycle, Stray, OrphanInserts, OrphanEnds, RowAppears, vars
  <2>2. Gapless(0) => Gapless(0)'
    BY <1>7, GaplessByCycle
  <2>3. ASSUME RunAt({"watermark", "pk"}, {"copying"})', run'.mends PROVE Gapless(run.upto)'
    <3>1. PICK mark \in Nat : mark = run.upto
      BY <2>1, <2>3 DEF RunAt
    <3>2. Gapless(mark)
      BY <2>1, <2>3, <3>1 DEF ReachInv, RunAt
    <3>3. Gapless(mark)'
      BY <1>7, <3>2, GaplessByCycle
    <3> QED
      BY <2>1, <3>1, <3>3
  <2> QED
    BY <2>1, <2>2, <2>3 DEF ReachInv
<1>8. CASE AdvanceUnknown
  <2>1. whole' = FALSE
        /\ run' = IF run.stage = "copying" THEN [run EXCEPT !.mends = FALSE] ELSE run
    BY <1>8 DEF AdvanceUnknown
  <2>2. run.stage = "copying" => run'.mends = FALSE
    BY <2>1 DEF Running, Stages
  <2> QED
    BY <2>1, <2>2 DEF RunAt
<1>9. CASE LoseRun
  <2>1. run' = NoRun /\ UNCHANGED whole /\ ~whole
    BY <1>9 DEF LoseRun, StartInv, RunAt, Running, Stages
  <2> QED
    BY <2>1 DEF RunAt
<1>10. CASE Crash
  <2>1. /\ run' = NoRun /\ cycle' = NoCycle /\ UNCHANGED <<copies, cursor, met>>
        /\ whole' = (whole /\ ~(cycle.stage = "pulling" /\ cursor = NoCursor))
        /\ orphans' \subseteq orphans \cup OfRun \cup OfCycle
    BY <1>10 DEF Crash, Orphaned, table
  <2>2. ASSUME whole' PROVE Gapless(0)'
    <3>1. Gapless(0) /\ (cursor = NoCursor => cycle.stage # "pulling")
      BY <2>1, <2>2 DEF ReachInv
    <3>2. cycle'.stage # "pulling" /\ Staged' = Staged
      BY <2>1 DEF Staged
    <3>3. ASSUME cursor = NoCursor PROVE Coming' \subseteq Coming
      <4>1. OfCycle = {}
        BY <3>1, <3>3 DEF OfCycle
      <4>2. OfRun = {}
        BY <2>1, <2>2 DEF OfRun, StartInv, RunAt, Running, Stages
      <4> QED
        BY <2>1, <4>1, <4>2 DEF Coming
    <3> QED
      BY <2>1, <3>1, <3>2, <3>3 DEF Gapless
  <2> QED
    BY <2>1, <2>2 DEF RunAt
<1> QED
  BY <1>1, <1>2, <1>3, <1>4, <1>5, <1>6, <1>7, <1>8, <1>9, <1>10 DEF Next, Migrate, Stream

(***************************************************************************)
(* NothingBehindCursor holds in every behaviour, for any number of rows    *)
(* and runs: once what was left unfinished is made up for, and unless a    *)
(* cycle or an orphan has overlapped a full migration, no row below the    *)
(* streaming cursor is missing, although no run looks at the cursor and    *)
(* orphans insert their rows in any order (run_cycle, _run_worker,         *)
(* _repair_worker).                                                        *)
(***************************************************************************)
THEOREM CursorLeavesNothing == Spec => []NothingBehindCursor
<1>1. Init => SeenInv /\ StartInv /\ ReachInv
  <2> SUFFICES ASSUME Init PROVE SeenInv /\ StartInv /\ ReachInv
    OBVIOUS
  <2>1. /\ run = NoRun /\ cycle = NoCycle /\ NoCycle.stage = "none" /\ cursor = -1
        /\ Coming = {}
    BY DEF Init, NoCycle, NoCursor, Coming
  <2>2. PICK n \in 0..view : copies = [k \in Rows |-> IF exists /\ k <= n THEN 1 ELSE 0]
    BY DEF Init
  <2>3. \A k \in Rows : k \in Staged <=> exists /\ k <= n
    BY <2>2 DEF Staged
  <2>4. TypeOK
    BY TypeInit
  <2>5. SeenInv /\ StartInv
    BY <2>1, <2>3, <2>4, RowTypes DEF SeenInv, StartInv, RunAt
  <2>6. Gapless(0)
    BY <2>1, <2>3, <2>4, RowTypes DEF Gapless
  <2> QED
    BY <2>1, <2>5, <2>6 DEF ReachInv, RunAt
<1>2. IInv /\ IInv' /\ SeenInv /\ StartInv /\ ReachInv /\ [Next]_vars =>
        SeenInv' /\ StartInv' /\ ReachInv'
  BY SeenStep, StartStep, ReachStep DEF IInv, Reached
<1>3. TypeOK /\ ReachInv => NothingBehindCursor
  BY RowTypes DEF ReachInv, Gapless, NothingBehindCursor
<1> QED
  BY <1>1, <1>2, <1>3, InductiveInvariant, TypeInvariant, PTL DEF Spec
=============================================================================
