-------------------------- MODULE PrimaryKeysProofs --------------------------
(***************************************************************************)
(* Theorems about PrimaryKeys, for any keys and any number of requests: a  *)
(* key set by hand stays, the job and the streaming copy agree, and the    *)
(* rebuilds of the index leave the table guarded.                          *)
(***************************************************************************)
EXTENDS PrimaryKeys, TLAPS

Busy == [kind : Kinds, stage : Stages, key : Keys \cup {None}, seen : JobRow, alone : BOOLEAN]

\* Which kinds of request come to a stage.
Fits(stage, kind) ==
  /\ stage \in {"load", "commit"} => kind \in {"set", "clear", "scan"}
  /\ stage \in Building \cup {"ensure", "create_idx"} => kind \in {"set", "cycle", "load"}
  /\ stage = "cleanup" => kind = "set"
  /\ stage \in {"reload", "finish"} => kind = "cycle"
  /\ stage = "recreate" => kind = "load"
  /\ stage = "insert" => kind \in {"cycle", "load"}

\* What a request is about never changes, and a scan commits only over what
\* was no manual key when it looked.
Sane(o) ==
  /\ Fits(o.stage, o.kind)
  /\ o.kind \in {"set", "scan"} => o.key \in Keys
  /\ o.kind = "cycle" => o.key = Effective(o.seen)
  /\ o.stage = "commit" /\ o.kind = "scan" => o.seen.source # "manual"

OpInv == \A r \in Requests : op[r] # Idle => Sane(op[r])

Alone(r) == op[r] # Idle /\ op[r].alone

\* One that is alone shares the table with nobody.
AloneInv == \A r, q \in Requests : Alone(r) /\ q # r => op[q] = Idle

\* The second index exists only during a rebuild, or an orphan is on record.
TmpInv ==
  tmp # None /\ ~orphan => \E r \in Requests : op[r].stage \in {"drop_idx", "rename"}

\* A rebuild that is alone has built its index before it drops the old one.
BuiltInv ==
  \A r \in Requests :
    Alone(r) =>
      /\ op[r].stage \in {"drop_idx", "rename"} => tmp = op[r].key /\ op[r].key \in Keys
      /\ op[r].stage = "insert" /\ op[r].kind = "cycle" => idx = op[r].key

IInv == TypeOK /\ OpInv /\ AloneInv /\ TmpInv /\ BuiltInv

-----------------------------------------------------------------------------
LEMMA OpShape ==
  ASSUME TypeOK, NEW r \in Requests
  PROVE  /\ op[r] \in {Idle} \cup Busy
         /\ op[r] # Idle <=> op[r].stage \in Stages
         /\ op[r] # Idle => op[r] \in Busy
         /\ Idle \notin Busy /\ Idle.stage = "idle" /\ "idle" \notin Stages
<1>1. op[r] \in {Idle} \cup Busy
  BY DEF TypeOK, Busy
<1>2. Idle.stage = "idle" /\ "idle" \notin Stages
  BY DEF Idle, Stages, Building
<1>3. \A o \in Busy : o.stage \in Stages
  BY DEF Busy
<1> QED
  BY <1>1, <1>2, <1>3

LEMMA Keyed ==
  ASSUME TypeOK
  PROVE  /\ job.pk \in Keys \cup {None} /\ job.copy \in Keys \cup {None}
         /\ job.source \in Sources
         /\ Effective(job) \in Keys \cup {None}
BY DEF TypeOK, JobRow, Effective

\* A request that goes on stays what it is.
LEMMA GoFacts ==
  ASSUME TypeOK, NEW r \in Requests, op[r] # Idle, NEW stage \in Stages, Go(r, stage)
  PROVE  /\ op' \in [Requests -> {Idle} \cup Busy]
         /\ op'[r] \in Busy /\ op'[r] # Idle
         /\ op'[r].stage = stage /\ op'[r].kind = op[r].kind /\ op'[r].key = op[r].key
         /\ op'[r].seen = op[r].seen /\ op'[r].alone = op[r].alone
         /\ \A q \in Requests : q # r => op'[q] = op[q]
<1>1. op[r] \in Busy
  BY OpShape
<1>2. PICK o : o = [op[r] EXCEPT !.stage = stage]
  OBVIOUS
<1>3. /\ o \in Busy /\ o.stage = stage /\ o.kind = op[r].kind /\ o.key = op[r].key
      /\ o.seen = op[r].seen /\ o.alone = op[r].alone
  BY <1>1, <1>2 DEF Busy
<1>4. op' = [op EXCEPT ![r] = o]
  BY <1>2 DEF Go
<1> QED
  BY <1>3, <1>4, OpShape DEF TypeOK, Busy

LEMMA EndFacts ==
  ASSUME TypeOK, NEW r \in Requests, End(r)
  PROVE  /\ op' \in [Requests -> {Idle} \cup Busy]
         /\ op'[r] = Idle
         /\ \A q \in Requests : q # r => op'[q] = op[q]
BY DEF TypeOK, Busy, End

\* Beginning makes everybody else known to have company.
LEMMA BeginFacts ==
  ASSUME TypeOK, NEW r \in Requests, op[r] = Idle,
         NEW kind \in Kinds, NEW stage \in Stages, NEW key \in Keys \cup {None},
         Begin(r, kind, stage, key)
  PROVE  /\ op' \in [Requests -> {Idle} \cup Busy]
         /\ op'[r] \in Busy /\ op'[r] # Idle
         /\ op'[r].stage = stage /\ op'[r].kind = kind /\ op'[r].key = key
         /\ op'[r].seen = job
         /\ op'[r].alone => \A p \in Requests : op[p] = Idle
         /\ \A q \in Requests : q # r /\ op[q] = Idle => op'[q] = Idle
         /\ \A q \in Requests : q # r /\ op[q] # Idle =>
              /\ op'[q] # Idle /\ ~op'[q].alone
              /\ op'[q].stage = op[q].stage /\ op'[q].kind = op[q].kind
              /\ op'[q].key = op[q].key /\ op'[q].seen = op[q].seen
<1>1. PICK b \in BOOLEAN : b = \A p \in Requests : op[p] = Idle
  OBVIOUS
<1>2. PICK new : new = [kind |-> kind, stage |-> stage, key |-> key, seen |-> job, alone |-> b]
  OBVIOUS
<1>3. /\ new \in Busy /\ new # Idle /\ new.stage = stage /\ new.kind = kind /\ new.key = key
      /\ new.seen = job /\ new.alone = b
  <2>1. new \in Busy
    BY <1>2 DEF Busy, TypeOK
  <2> QED
    BY <1>2, <2>1, OpShape
<1>4. op' = [q \in Requests |->
               IF q = r THEN new
               ELSE IF op[q] = Idle THEN Idle ELSE [op[q] EXCEPT !.alone = FALSE]]
  BY <1>1, <1>2 DEF Begin
<1>5. ASSUME NEW q \in Requests, q # r, op[q] # Idle
      PROVE  /\ op'[q] \in Busy /\ op'[q] # Idle /\ op'[q].alone = FALSE
             /\ op'[q].stage = op[q].stage /\ op'[q].kind = op[q].kind
             /\ op'[q].key = op[q].key /\ op'[q].seen = op[q].seen
  <2>1. op[q] \in Busy
    BY <1>5, OpShape
  <2>2. op'[q] = [op[q] EXCEPT !.alone = FALSE]
    BY <1>4, <1>5
  <2>3. op'[q] \in Busy
    BY <2>1, <2>2 DEF Busy
  <2> QED
    BY <2>1, <2>2, <2>3, OpShape DEF Busy
<1>6. \A q \in Requests : q # r /\ op[q] = Idle => op'[q] = Idle
  BY <1>4
<1>7. op'[r] = new
  BY <1>4
<1>8. op' \in [Requests -> {Idle} \cup Busy]
  <2>1. \A q \in Requests : op'[q] \in {Idle} \cup Busy
    BY <1>3, <1>5, <1>6, <1>7
  <2> QED
    BY <1>4, <2>1
<1> QED
  BY <1>1, <1>3, <1>5, <1>6, <1>7, <1>8

-----------------------------------------------------------------------------
\* A step of Start: what begins, and for what key.
LEMMA StartFacts ==
  ASSUME TypeOK, NEW r \in Requests, Start(r)
  PROVE  /\ op[r] = Idle
         /\ \E kind \in Kinds, stage \in Stages, key \in Keys \cup {None} :
              /\ Begin(r, kind, stage, key)
              /\ Fits(stage, kind)
              /\ stage \notin {"commit", "drop_idx", "rename", "insert"}
              /\ kind \in {"set", "scan"} => key \in Keys
              /\ kind = "cycle" => key = Effective(job)
              /\ idx' = idx \/ kind = "clear"
         /\ idx' \in {idx, None}
         /\ UNCHANGED <<job, tmp, exists, unique, late, orphan, cleared>>
<1> USE Keyed DEF Kinds, Stages, Building, Fits, NotTheJob, NotTheIndex, indexes
<1>1. CASE StartSet(r)
  BY <1>1 DEF StartSet
<1>2. CASE StartClear(r)
  BY <1>2 DEF StartClear
<1>3. CASE StartScan(r)
  BY <1>3 DEF StartScan
<1>4. CASE StartLoad(r)
  BY <1>4 DEF StartLoad
<1>5. CASE StartCycle(r)
  <2> DEFINE stage == CASE Effective(job) = None -> "reload"
                        [] Effective(job) # None /\ exists -> "ensure"
                        [] OTHER -> "finish"
  <2>1. stage \in {"reload", "ensure", "finish"}
    OBVIOUS
  <2>2. Begin(r, "cycle", stage, Effective(job))
    BY <1>5 DEF StartCycle
  <2>3. op[r] = Idle /\ UNCHANGED <<job, idx, tmp, exists, unique, late, orphan, cleared>>
    BY <1>5 DEF StartCycle
  <2> HIDE DEF stage
  <2> QED
    BY <2>1, <2>2, <2>3
<1> QED
  BY <1>1, <1>2, <1>3, <1>4, <1>5 DEF Start

\* A statement about the index, of a request that is under way.
LEMMA IndexFacts ==
  ASSUME TypeOK, OpInv, NEW r \in Requests, Index(r)
  PROVE  /\ op[r] # Idle
         /\ \/ End(r)
            \/ \E stage \in Stages \ {"commit"} : Go(r, stage) /\ Fits(stage, op[r].kind)
         /\ UNCHANGED <<job, late, cleared>>
         /\ exists' \in BOOLEAN /\ unique' \subseteq Keys /\ orphan' \in BOOLEAN
         /\ idx' \in Keys \cup {None} /\ tmp' \in Keys \cup {None}
<1> USE OpShape DEF Stages, Building, NotTheJob, NotTheIndex, indexes, At
<1>1. op[r] # Idle /\ op[r] \in Busy
  BY DEF Index, Recreate, Reload, Ensure, CreateIdx, DropTmp, CreateTmp, DropIdx, Rename,
         CleanUp, Insert
<1>2. Fits(op[r].stage, op[r].kind)
  BY <1>1 DEF OpInv, Sane
<1>3. ASSUME Built(r), op[r].stage \in {"ensure", "create_idx", "rename"}
      PROVE  \E stage \in Stages \ {"commit"} : Go(r, stage) /\ Fits(stage, op[r].kind)
  BY <1>2, <1>3 DEF Built, Fits
<1>4. ASSUME NotBuilt(r), op[r].stage \in Building \cup {"create_idx"}
      PROVE  \E stage \in Stages \ {"commit"} : Go(r, stage) /\ Fits(stage, op[r].kind)
  <2>1. op[r].kind \in {"set", "cycle", "load"}
    BY <1>2, <1>4 DEF Fits
  <2>2. CASE op[r].kind = "set"
    BY <1>4, <2>2 DEF NotBuilt, Fits
  <2>3. CASE op[r].kind = "cycle"
    BY <1>4, <2>3 DEF NotBuilt, Fits
  <2>4. CASE op[r].kind = "load"
    BY <1>4, <2>4 DEF NotBuilt, Fits
  <2> QED
    BY <2>1, <2>2, <2>3, <2>4
<1>5. CASE Recreate(r)
  BY <1>1, <1>2, <1>5 DEF Recreate, Fits, TypeOK
<1>6. CASE Reload(r)
  BY <1>1, <1>2, <1>6 DEF Reload, Fits, TypeOK
<1>7. CASE Ensure(r)
  <2>1. \/ Built(r) \/ Go(r, "create_idx") \/ Go(r, "drop_tmp")
    BY <1>7 DEF Ensure
  <2>2. UNCHANGED <<job, late, cleared, idx, tmp, exists, unique, orphan>> /\ op[r].stage = "ensure"
    BY <1>7 DEF Ensure
  <2> QED
    BY <1>1, <1>2, <1>3, <2>1, <2>2 DEF Fits, TypeOK
<1>8. CASE CreateIdx(r)
  <2>1. \/ Built(r) /\ idx' = op[r].key
        \/ NotBuilt(r) /\ idx' = idx
    BY <1>8 DEF CreateIdx
  <2>2. UNCHANGED <<job, late, cleared, tmp, exists, unique, orphan>> /\ op[r].stage = "create_idx"
    BY <1>8 DEF CreateIdx
  <2>3. op[r].key \in Keys \cup {None}
    BY <1>1 DEF Busy
  <2> QED
    BY <1>1, <1>3, <1>4, <2>1, <2>2, <2>3 DEF TypeOK
<1>9. CASE DropTmp(r)
  <2>1. \/ Go(r, "create") /\ tmp' = None
        \/ NotBuilt(r) /\ tmp' = tmp
    BY <1>9 DEF DropTmp
  <2>2. UNCHANGED <<job, late, cleared, idx, exists, unique, orphan>> /\ op[r].stage = "drop_tmp"
    BY <1>9 DEF DropTmp
  <2> QED
    BY <1>1, <1>2, <1>4, <2>1, <2>2 DEF TypeOK, Fits
<1>10. CASE CreateTmp(r)
  <2>1. \/ Go(r, "drop_idx") /\ tmp' = op[r].key
        \/ NotBuilt(r) /\ tmp' = tmp
    BY <1>10 DEF CreateTmp
  <2>2. UNCHANGED <<job, late, cleared, idx, exists, unique, orphan>> /\ op[r].stage = "create"
    BY <1>10 DEF CreateTmp
  <2>3. op[r].key \in Keys \cup {None}
    BY <1>1 DEF Busy
  <2> QED
    BY <1>1, <1>2, <1>4, <2>1, <2>2, <2>3 DEF TypeOK, Fits
<1>11. CASE DropIdx(r)
  <2>1. \/ Go(r, "rename") /\ orphan' = orphan
        \/ NotBuilt(r) /\ orphan' = TRUE
    BY <1>11 DEF DropIdx
  <2>2. /\ UNCHANGED <<job, late, cleared, tmp, exists, unique>> /\ op[r].stage = "drop_idx"
        /\ idx' \in {idx, None}
    BY <1>11 DEF DropIdx
  <2>3. idx' \in Keys \cup {None} /\ orphan' \in BOOLEAN
    BY <2>1, <2>2 DEF TypeOK
  <2>4. \E stage \in Stages \ {"commit"} : Go(r, stage) /\ Fits(stage, op[r].kind)
    <3>1. Fits("rename", op[r].kind)
      BY <1>2, <2>2 DEF Fits
    <3> QED
      BY <1>4, <2>1, <2>2, <3>1
  <2> QED
    BY <1>1, <2>2, <2>3, <2>4 DEF TypeOK
<1>12. CASE Rename(r)
  <2>1. \/ Built(r) /\ idx' = tmp /\ tmp' = None /\ orphan' = (orphan /\ ~op[r].alone)
        \/ NotBuilt(r) /\ idx' = idx /\ tmp' = tmp /\ orphan' = TRUE
    BY <1>12 DEF Rename
  <2>2. UNCHANGED <<job, late, cleared, exists, unique>> /\ op[r].stage = "rename"
    BY <1>12 DEF Rename
  <2>3. orphan' \in BOOLEAN
    BY <2>1
  <2> QED
    BY <1>1, <1>3, <1>4, <2>1, <2>2, <2>3 DEF TypeOK
<1>13. CASE CleanUp(r)
  BY <1>1, <1>13 DEF CleanUp, TypeOK
<1>14. CASE Insert(r)
  <2>1. UNCHANGED <<job, late, cleared, idx, tmp, exists, orphan>>
    BY <1>14 DEF Insert
  <2>2. unique' \subseteq Keys
    BY <1>14 DEF Insert, TypeOK
  <2>3. End(r) \/ (op[r].kind = "cycle" /\ Go(r, "finish"))
    BY <1>14 DEF Insert
  <2> QED
    BY <1>1, <1>2, <2>1, <2>2, <2>3 DEF Fits, TypeOK
<1> QED
  BY <1>5, <1>6, <1>7, <1>8, <1>9, <1>10, <1>11, <1>12, <1>13, <1>14 DEF Index

-----------------------------------------------------------------------------
\* What the end of a session writes: the job of the operator, or what changed since.
LEMMA CommitFacts ==
  ASSUME TypeOK, OpInv, NEW r \in Requests, Commit(r)
  PROVE  /\ op[r] # Idle /\ End(r) /\ NotTheIndex
         /\ job' \in JobRow
         /\ op[r].seen = job => job' = Wanted(r)
         /\ late' = (op[r].seen # job)
         /\ cleared' \in BOOLEAN
         /\ (Wanted(r).pk = None) = (Wanted(r).source = "none")
         /\ Wanted(r).pk = None => Wanted(r).copy = None
<1>1. op[r] \in Busy /\ op[r].stage = "commit"
  BY OpShape DEF Commit, At, Stages
<1>2. op[r].kind \in {"set", "clear", "scan"} /\ (op[r].kind \in {"set", "scan"} => op[r].key \in Keys)
  BY <1>1, OpShape DEF OpInv, Sane, Fits
<1>3. PICK pk, source, copy :
        /\ Wanted(r) = Job(pk, source, copy)
        /\ pk \in Keys \cup {None} /\ source \in Sources /\ copy \in Keys \cup {None}
        /\ (pk = None) = (source = "none")
        /\ pk = None => copy = None
  <2>1. CASE op[r].kind \in {"set", "scan"}
    <3>1. Wanted(r) \in {Job(op[r].key, "manual", op[r].key), Job(op[r].key, "scanned", op[r].key)}
      BY <2>1 DEF Wanted
    <3> QED
      BY <1>2, <2>1, <3>1, NoneAssumption DEF Sources
  <2>2. CASE op[r].kind = "clear"
    BY <2>2 DEF Wanted, Sources
  <2> QED
    BY <1>2, <2>1, <2>2
<1>4. /\ Wanted(r).pk = pk /\ Wanted(r).source = source /\ Wanted(r).copy = copy
  BY <1>3 DEF Job
<1>5. job' = Job(Column(job.pk, op[r].seen.pk, pk), Column(job.source, op[r].seen.source, source),
                 Column(job.copy, op[r].seen.copy, copy))
  BY <1>4 DEF Commit, Merged
<1>6. \A a, b, c : Column(a, b, c) \in {a, c} /\ Column(a, a, c) = c
  BY DEF Column
<1>7. job' \in JobRow
  BY <1>3, <1>5, <1>6, Keyed DEF Job, JobRow
<1>8. op[r].seen = job => job' = Wanted(r)
  BY <1>3, <1>5, <1>6
<1>9. cleared' \in BOOLEAN /\ late' = (op[r].seen # job) /\ End(r) /\ NotTheIndex /\ op[r] # Idle
  BY <1>1, OpShape DEF Commit
<1> QED
  BY <1>3, <1>4, <1>7, <1>8, <1>9

\* Only a cycle finishes: it saves the key it took over, and nothing else of the job.
LEMMA FinishFacts ==
  ASSUME TypeOK, OpInv, NEW r \in Requests, Finish(r)
  PROVE  /\ op[r] # Idle /\ op[r].kind = "cycle" /\ End(r) /\ NotTheIndex /\ UNCHANGED cleared
         /\ job' \in JobRow /\ job'.pk = job.pk /\ job'.source = job.source
         /\ late' \in BOOLEAN /\ (late => late')
         /\ ~late' => \/ job' = job
                      \/ op[r].seen = job /\ job'.copy = op[r].key /\ op[r].key # job.copy
<1>1. op[r] \in Busy /\ op[r].stage = "finish"
  BY OpShape DEF Finish, At, Stages
<1>2. op[r].kind = "cycle" /\ op[r].key \in Keys \cup {None}
  BY <1>1, OpShape DEF OpInv, Sane, Fits, Busy
<1>3. PICK took \in BOOLEAN : took = (op[r].key # op[r].seen.copy)
  OBVIOUS
<1>4. /\ job' = IF took THEN [job EXCEPT !.copy = op[r].key] ELSE job
      /\ late' = (late \/ (took /\ op[r].seen # job))
  BY <1>3 DEF Finish
<1>5. job \in JobRow /\ late \in BOOLEAN
  BY DEF TypeOK
<1>6. /\ job' \in JobRow /\ job'.pk = job.pk /\ job'.source = job.source
      /\ took => job'.copy = op[r].key
  BY <1>2, <1>4, <1>5 DEF JobRow
<1>7. late' \in BOOLEAN /\ (late => late') /\ (~late' => ~took \/ op[r].seen = job)
  BY <1>4, <1>5
<1>8. ~took => job' = job
  BY <1>4
<1>9. End(r) /\ NotTheIndex /\ UNCHANGED cleared /\ op[r] # Idle
  BY <1>1, OpShape DEF Finish
<1> QED
  BY <1>2, <1>3, <1>6, <1>7, <1>8, <1>9

\* A scan that found a manual key ends; every other session keeps what it read.
LEMMA LoadFacts ==
  ASSUME TypeOK, OpInv, NEW r \in Requests, LoadJob(r)
  PROVE  /\ op[r] # Idle /\ op[r].kind \in {"set", "clear", "scan"}
         /\ NotTheJob /\ NotTheIndex
         /\ op' \in [Requests -> {Idle} \cup Busy]
         /\ \A q \in Requests : q # r => op'[q] = op[q]
         /\ op'[r] # Idle =>
              /\ op'[r].stage = "commit" /\ op'[r].kind = op[r].kind /\ op'[r].key = op[r].key
              /\ op'[r].seen = job /\ op'[r].alone = op[r].alone
              /\ op[r].kind = "scan" => job.source # "manual"
<1>1. op[r] \in Busy /\ op[r] # Idle /\ op[r].stage = "load"
  BY OpShape DEF LoadJob, At, Stages
<1>2. op[r].kind \in {"set", "clear", "scan"}
  BY <1>1 DEF OpInv, Sane, Fits
<1>3. PICK o : o = [op[r] EXCEPT !.stage = "commit", !.seen = job]
  OBVIOUS
<1>4. /\ o \in Busy /\ o.stage = "commit" /\ o.kind = op[r].kind /\ o.key = op[r].key
      /\ o.seen = job /\ o.alone = op[r].alone
  BY <1>1, <1>3 DEF Busy, Stages, TypeOK
<1>5. op' = [op EXCEPT ![r] = IF op[r].kind = "scan" /\ job.source = "manual" THEN Idle ELSE o]
  BY <1>3 DEF LoadJob
<1>6. NotTheJob /\ NotTheIndex
  BY DEF LoadJob
<1> QED
  BY <1>1, <1>2, <1>4, <1>5, <1>6 DEF TypeOK, Busy

LEMMA RestartFacts ==
  ASSUME TypeOK, Restart
  PROVE  /\ \A r \in Requests : op'[r] = Idle
         /\ op' \in [Requests -> {Idle} \cup Busy]
         /\ UNCHANGED <<idx, tmp, exists, unique, late, cleared>>
         /\ orphan' \in BOOLEAN /\ (orphan \/ tmp # None => orphan')
         /\ job' \in JobRow
         /\ job.source = "manual" => job' = job
         /\ job' # job => job'.pk = Reference /\ job'.source = "reference"
<1>1. /\ job' = IF job.source \in {"manual", "scanned"} THEN job
                ELSE [pk |-> Reference, source |-> "reference", copy |-> job.copy]
      /\ op' = [r \in Requests |-> Idle]
      /\ UNCHANGED <<idx, tmp, exists, unique, late, cleared>>
  BY DEF Restart, Job, indexes
<1>2. job' \in JobRow
  BY <1>1, Keyed, ReferenceAssumption DEF JobRow, Sources, TypeOK
<1>3. orphan' \in BOOLEAN /\ (orphan \/ tmp # None => orphan')
  BY DEF Restart
<1> QED
  BY <1>1, <1>2, <1>3

-----------------------------------------------------------------------------
LEMMA TypeStep ==
  ASSUME TypeOK, OpInv, [Next]_vars
  PROVE  TypeOK'
<1> USE DEF NotTheJob, NotTheIndex, indexes
<1>1. ASSUME NEW r \in Requests, Start(r) PROVE TypeOK'
  <2>1. op' \in [Requests -> {Idle} \cup Busy]
    BY <1>1, StartFacts, BeginFacts
  <2> QED
    BY <1>1, <2>1, StartFacts DEF TypeOK, Busy
<1>2. ASSUME NEW r \in Requests, Index(r) PROVE TypeOK'
  <2>1. op' \in [Requests -> {Idle} \cup Busy]
    BY <1>2, IndexFacts, GoFacts, EndFacts
  <2> QED
    BY <1>2, <2>1, IndexFacts DEF TypeOK, Busy
<1>3. ASSUME NEW r \in Requests, LoadJob(r) PROVE TypeOK'
  BY <1>3, LoadFacts DEF TypeOK, Busy
<1>4. ASSUME NEW r \in Requests, Commit(r) PROVE TypeOK'
  BY <1>4, CommitFacts, EndFacts DEF TypeOK, Busy
<1>5. ASSUME NEW r \in Requests, Finish(r) PROVE TypeOK'
  BY <1>5, FinishFacts, EndFacts DEF TypeOK, Busy
<1>6. CASE Restart
  BY <1>6, RestartFacts DEF TypeOK, Busy
<1>7. CASE UNCHANGED vars
  BY <1>7 DEF vars, TypeOK
<1> QED
  BY <1>1, <1>2, <1>3, <1>4, <1>5, <1>6, <1>7 DEF Next

LEMMA OpStep ==
  ASSUME TypeOK, OpInv, [Next]_vars
  PROVE  OpInv'
<1>1. ASSUME NEW r \in Requests, Start(r) PROVE OpInv'
  <2>1. PICK kind \in Kinds, stage \in Stages, key \in Keys \cup {None} :
          /\ Begin(r, kind, stage, key)
          /\ Fits(stage, kind) /\ stage # "commit"
          /\ kind \in {"set", "scan"} => key \in Keys
          /\ kind = "cycle" => key = Effective(job)
    BY <1>1, StartFacts
  <2>2. op[r] = Idle
    BY <1>1, StartFacts
  <2>3. Sane(op'[r])
    BY <2>1, <2>2, BeginFacts DEF Sane
  <2>4. ASSUME NEW q \in Requests, q # r, op'[q] # Idle PROVE Sane(op'[q])
    BY <2>1, <2>2, <2>4, BeginFacts DEF Sane, OpInv
  <2> QED
    BY <2>3, <2>4 DEF OpInv
<1>2. ASSUME NEW r \in Requests, Index(r) PROVE OpInv'
  <2>1. CASE End(r)
    BY <2>1, EndFacts DEF OpInv
  <2>2. ASSUME NEW stage \in Stages \ {"commit"}, Go(r, stage), Fits(stage, op[r].kind)
        PROVE  OpInv'
    <3>1. op[r] # Idle
      BY <1>2, IndexFacts
    <3>2. Sane(op'[r])
      BY <2>2, <3>1, GoFacts DEF OpInv, Sane
    <3> QED
      BY <2>2, <3>1, <3>2, GoFacts DEF OpInv
  <2> QED
    BY <1>2, <2>1, <2>2, IndexFacts
<1>3. ASSUME NEW r \in Requests, LoadJob(r) PROVE OpInv'
  <2>1. op'[r] # Idle => Sane(op'[r])
    BY <1>3, LoadFacts DEF OpInv, Sane, Fits, Building
  <2> QED
    BY <1>3, <2>1, LoadFacts DEF OpInv
<1>4. ASSUME NEW r \in Requests, End(r) PROVE OpInv'
  BY <1>4, EndFacts DEF OpInv
<1>5. CASE Restart
  BY <1>5, RestartFacts DEF OpInv
<1>6. CASE UNCHANGED vars
  BY <1>6 DEF vars, OpInv
<1> QED
  BY <1>1, <1>2, <1>3, <1>4, <1>5, <1>6, CommitFacts, FinishFacts DEF Next

LEMMA TypeAndOps == Spec => [](TypeOK /\ OpInv)
<1>1. Init => TypeOK /\ OpInv
  <2> SUFFICES ASSUME Init PROVE TypeOK /\ OpInv
    OBVIOUS
  <2>1. job \in JobRow
    BY ReferenceAssumption DEF Init, Job, JobRow, Sources
  <2>2. op \in [Requests -> {Idle}] /\ OpInv
    BY DEF Init, OpInv
  <2> QED
    BY <2>1, <2>2 DEF Init, TypeOK
<1>2. TypeOK /\ OpInv /\ [Next]_vars => TypeOK' /\ OpInv'
  BY TypeStep, OpStep
<1> QED
  BY <1>1, <1>2, PTL DEF Spec

(***************************************************************************)
(* Every variable keeps its type, those of the requests included.          *)
(***************************************************************************)
THEOREM TypeInvariant == Spec => []TypeOK
BY TypeAndOps, PTL

(***************************************************************************)
(* A key set by an operator outlives every restart, every cycle and every  *)
(* scan that could see it: only set_primary_key and clear_primary_key and  *)
(* a scan that had read the job before change it.                          *)
(***************************************************************************)
THEOREM ManualKeysStay == Spec => ManualWins
<1> DEFINE Changed == job.source = "manual" /\ <<job'.pk, job'.source>> # <<job.pk, job.source>>
<1>1. ASSUME TypeOK, OpInv, [Next]_vars, Changed
      PROVE  \E r \in Requests :
               Commit(r) /\ (op[r].kind = "scan" => op[r].seen.source # "manual")
  <2>1. ASSUME NEW r \in Requests, Start(r) \/ Index(r) \/ LoadJob(r) \/ Finish(r)
        PROVE  FALSE
    BY <1>1, <2>1, StartFacts, IndexFacts, LoadFacts, FinishFacts DEF NotTheJob
  <2>2. CASE Restart
    BY <1>1, <2>2, RestartFacts
  <2>3. CASE UNCHANGED vars
    BY <1>1, <2>3 DEF vars
  <2>4. ASSUME NEW r \in Requests, Commit(r)
        PROVE  op[r].kind = "scan" => op[r].seen.source # "manual"
    BY <1>1, <2>4, CommitFacts DEF OpInv, Sane, Commit, At
  <2> QED
    BY <1>1, <2>1, <2>2, <2>3, <2>4 DEF Next
<1>2. TypeOK /\ OpInv /\ [Next]_vars =>
        [Changed => \E r \in Requests :
           Commit(r) /\ (op[r].kind = "scan" => op[r].seen.source # "manual")]_vars
  BY <1>1
<1> QED
  BY <1>2, TypeAndOps, PTL DEF Spec, ManualWins

(***************************************************************************)
(* The job and the streaming copy agree on whether there is a key, unless  *)
(* a session wrote over a change it had not seen.                          *)
(***************************************************************************)
THEOREM JobAndCopyAgree == Spec => []KeysAgree
<1>1. Init => KeysAgree
  BY ReferenceAssumption, NoneAssumption DEF Init, KeysAgree, Job
<1>2. ASSUME TypeOK, OpInv, KeysAgree, [Next]_vars PROVE KeysAgree'
  <2>1. ASSUME NEW r \in Requests, Start(r) \/ Index(r) \/ LoadJob(r)
        PROVE  UNCHANGED <<job, late>>
    BY <1>2, <2>1, StartFacts, IndexFacts, LoadFacts DEF NotTheJob
  <2>2. ASSUME NEW r \in Requests, Commit(r) PROVE KeysAgree'
    BY <1>2, <2>2, CommitFacts DEF KeysAgree
  <2>3. ASSUME NEW r \in Requests, Finish(r) PROVE KeysAgree'
    <3>1. SUFFICES ASSUME ~late' PROVE KeysAgree'
      BY DEF KeysAgree
    <3>2. CASE job' = job
      BY <1>2, <2>3, <3>1, <3>2, FinishFacts DEF KeysAgree
    <3>3. CASE op[r].seen = job /\ job'.copy = op[r].key /\ op[r].key # job.copy
      <4>1. op[r].key = Effective(job)
        BY <1>2, <2>3, <3>3, FinishFacts DEF OpInv, Sane
      <4>2. job.pk # None
        BY <3>3, <4>1 DEF Effective
      <4> QED
        BY <1>2, <2>3, <3>1, <4>2, FinishFacts DEF KeysAgree
    <3> QED
      BY <1>2, <2>3, <3>1, <3>2, <3>3, FinishFacts
  <2>4. CASE Restart
    BY <1>2, <2>4, RestartFacts, ReferenceAssumption, NoneAssumption DEF KeysAgree
  <2>5. CASE UNCHANGED vars
    BY <1>2, <2>5 DEF vars, KeysAgree
  <2>6. UNCHANGED <<job, late>> => KeysAgree'
    BY <1>2 DEF KeysAgree
  <2> QED
    BY <1>2, <2>1, <2>2, <2>3, <2>4, <2>5, <2>6 DEF Next
<1>3. TypeOK /\ OpInv /\ KeysAgree /\ [Next]_vars => KeysAgree'
  BY <1>2
<1> QED
  BY <1>1, <1>3, TypeAndOps, PTL DEF Spec

-----------------------------------------------------------------------------
LEMMA AloneStep ==
  ASSUME TypeOK, OpInv, AloneInv, [Next]_vars
  PROVE  AloneInv'
<1>1. ASSUME NEW r \in Requests, Start(r) PROVE AloneInv'
  <2>1. PICK kind \in Kinds, stage \in Stages, key \in Keys \cup {None} :
          Begin(r, kind, stage, key)
    BY <1>1, StartFacts
  <2>2. op[r] = Idle
    BY <1>1, StartFacts
  <2> QED
    BY <2>1, <2>2, BeginFacts DEF AloneInv, Alone
<1>2. ASSUME NEW r \in Requests, Index(r) PROVE AloneInv'
  <2>1. CASE End(r)
    BY <2>1, EndFacts DEF AloneInv, Alone
  <2>2. ASSUME NEW stage \in Stages, Go(r, stage) PROVE AloneInv'
    <3>1. op[r] # Idle
      BY <1>2, IndexFacts
    <3> QED
      BY <2>2, <3>1, GoFacts DEF AloneInv, Alone
  <2> QED
    BY <1>2, <2>1, <2>2, IndexFacts
<1>3. ASSUME NEW r \in Requests, LoadJob(r) PROVE AloneInv'
  BY <1>3, LoadFacts DEF AloneInv, Alone
<1>4. ASSUME NEW r \in Requests, End(r) PROVE AloneInv'
  BY <1>4, EndFacts DEF AloneInv, Alone
<1>5. CASE Restart
  BY <1>5, RestartFacts DEF AloneInv, Alone
<1>6. CASE UNCHANGED vars
  BY <1>6 DEF vars, AloneInv, Alone
<1> QED
  BY <1>1, <1>2, <1>3, <1>4, <1>5, <1>6, CommitFacts, FinishFacts DEF Next

Rebuilding(r) == op[r].stage \in {"drop_idx", "rename"}
RebuildInv == TmpInv /\ BuiltInv

\* While a request is alone, only its own rebuild has a second index.
LEMMA AloneWithTmp ==
  ASSUME TypeOK, AloneInv, TmpInv, NEW r \in Requests, Alone(r), ~Rebuilding(r), ~orphan
  PROVE  tmp = None
<1>1. \A q \in Requests : q # r => ~Rebuilding(q)
  BY OpShape DEF AloneInv, Rebuilding, Idle
<1> QED
  BY <1>1 DEF TmpInv, Rebuilding

\* The part of TmpInv that a request outside a rebuild cannot disturb.
LEMMA TmpKept ==
  ASSUME TmpInv, NEW r \in Requests, ~Rebuilding(r), tmp' \in {tmp, None}, orphan' = orphan,
         \A q \in Requests : q # r => (Rebuilding(q) => Rebuilding(q)')
  PROVE  TmpInv'
BY DEF TmpInv, Rebuilding

\* BuiltInv for one request.
Ready(r) ==
  Alone(r) =>
    /\ Rebuilding(r) => tmp = op[r].key /\ op[r].key \in Keys
    /\ op[r].stage = "insert" /\ op[r].kind = "cycle" => idx = op[r].key

LEMMA IndexStep ==
  ASSUME TypeOK, OpInv, AloneInv, TmpInv, BuiltInv, NEW r \in Requests, Index(r)
  PROVE  TmpInv' /\ BuiltInv'
<1> USE DEF At, NotTheJob, NotTheIndex, indexes
<1>1. op[r] \in Busy /\ op[r] # Idle /\ Fits(op[r].stage, op[r].kind)
  BY IndexFacts, OpShape DEF OpInv, Sane
<1>2. /\ \A q \in Requests : q # r => op'[q] = op[q]
      /\ op'[r] # Idle => /\ op'[r].kind = op[r].kind /\ op'[r].key = op[r].key
                         /\ op'[r].alone = op[r].alone
  BY IndexFacts, GoFacts, EndFacts
<1>3. \A q \in Requests : q # r => ~Alone(q)'
  BY <1>1, <1>2 DEF AloneInv, Alone
<1>4. Ready(r)' => BuiltInv'
  BY <1>3 DEF BuiltInv, Ready, Rebuilding
<1>5. \A q \in Requests : q # r => (Rebuilding(q) => Rebuilding(q)')
  BY <1>2 DEF Rebuilding
<1>6. ~Rebuilding(r) /\ tmp' \in {tmp, None} /\ orphan' = orphan => TmpInv'
  BY <1>5, TmpKept
<1>7. tmp' = None \/ orphan' \/ Rebuilding(r)' => TmpInv'
  BY DEF TmpInv, Rebuilding
<1>8. ASSUME NEW stage \in Stages, Go(r, stage)
      PROVE  op'[r].stage = stage
  BY <1>1, <1>8, GoFacts
<1>9. End(r) => Ready(r)'
  BY EndFacts DEF Ready, Alone
<1>10. ASSUME NEW stage \in Stages, Go(r, stage),
              stage \notin {"drop_idx", "rename"},
              stage = "insert" /\ op[r].kind = "cycle" /\ Alone(r) => idx' = op[r].key
       PROVE  Ready(r)'
  BY <1>1, <1>2, <1>8, <1>10 DEF Ready, Rebuilding, Alone
<1>11. ASSUME Built(r), Alone(r) => idx' = op[r].key PROVE Ready(r)'
  BY <1>10, <1>11 DEF Built, Stages, Building
<1>12. ASSUME NotBuilt(r), op[r].kind \in {"set", "cycle", "load"} PROVE Ready(r)'
  <2>1. CASE op[r].kind = "set"
    BY <1>10, <1>12, <2>1 DEF NotBuilt, Stages
  <2>2. CASE op[r].kind = "cycle"
    BY <1>10, <1>12, <2>2 DEF NotBuilt, Stages
  <2>3. CASE op[r].kind = "load"
    BY <1>10, <1>12, <2>3 DEF NotBuilt, Stages
  <2> QED
    BY <1>12, <2>1, <2>2, <2>3
<1> USE DEF Stages, Building
<1>13. CASE Recreate(r)
  <2>1. op[r].kind = "load" /\ tmp' = None
    BY <1>1, <1>13 DEF Recreate, Fits
  <2>2. Go(r, "insert") \/ Go(r, "ensure")
    BY <1>13 DEF Recreate
  <2> QED
    BY <1>4, <1>7, <1>10, <2>1, <2>2
<1>14. CASE Reload(r)
  <2>1. Go(r, "finish") /\ ~Rebuilding(r)
    BY <1>14 DEF Reload, Rebuilding
  <2>2. tmp' = None \/ (tmp' = tmp /\ orphan' = orphan)
    BY <1>14 DEF Reload
  <2> QED
    BY <1>4, <1>6, <1>7, <1>10, <2>1, <2>2
<1>15. CASE Ensure(r)
  <2>1. ~Rebuilding(r) /\ UNCHANGED <<idx, tmp, orphan>>
    BY <1>15 DEF Ensure, Rebuilding
  <2>2. (Built(r) /\ idx = op[r].key) \/ Go(r, "create_idx") \/ Go(r, "drop_tmp")
    BY <1>15 DEF Ensure
  <2> QED
    BY <1>4, <1>6, <1>10, <1>11, <2>1, <2>2
<1>16. CASE CreateIdx(r)
  <2>1. ~Rebuilding(r) /\ UNCHANGED <<tmp, orphan>> /\ op[r].kind \in {"set", "cycle", "load"}
    BY <1>1, <1>16 DEF CreateIdx, Rebuilding, Fits
  <2>2. (Built(r) /\ idx' = op[r].key) \/ NotBuilt(r)
    BY <1>16 DEF CreateIdx
  <2> QED
    BY <1>4, <1>6, <1>11, <1>12, <2>1, <2>2
<1>17. CASE DropTmp(r)
  <2>1. ~Rebuilding(r) /\ orphan' = orphan /\ op[r].kind \in {"set", "cycle", "load"}
    BY <1>1, <1>17 DEF DropTmp, Rebuilding, Fits
  <2>2. (Go(r, "create") /\ tmp' = None) \/ (NotBuilt(r) /\ tmp' = tmp)
    BY <1>17 DEF DropTmp
  <2> QED
    BY <1>4, <1>6, <1>10, <1>12, <2>1, <2>2
<1>18. CASE CreateTmp(r)
  <2>1. ~Rebuilding(r) /\ UNCHANGED <<idx, orphan>> /\ op[r].kind \in {"set", "cycle", "load"}
    BY <1>1, <1>18 DEF CreateTmp, Rebuilding, Fits
  <2>2. CASE NotBuilt(r) /\ tmp' = tmp
    BY <1>4, <1>6, <1>12, <2>1, <2>2
  <2>3. CASE Go(r, "drop_idx") /\ tmp' = op[r].key /\ op[r].key \in unique
    <3>1. op'[r].stage = "drop_idx"
      BY <1>8, <2>3
    <3>2. Ready(r)'
      BY <1>1, <1>2, <2>3, <3>1 DEF Ready, Rebuilding, Alone, TypeOK
    <3> QED
      BY <1>4, <1>7, <3>1, <3>2 DEF Rebuilding
  <2> QED
    BY <1>18, <2>2, <2>3 DEF CreateTmp
<1>19. CASE DropIdx(r)
  <2>1. Rebuilding(r) /\ tmp' = tmp /\ op[r].kind \in {"set", "cycle", "load"}
    BY <1>1, <1>19 DEF DropIdx, Rebuilding, Fits
  <2>2. CASE Go(r, "rename")
    <3>1. op'[r].stage = "rename"
      BY <1>8, <2>2
    <3>2. Ready(r)'
      BY <1>1, <1>2, <2>1, <3>1 DEF Ready, Rebuilding, BuiltInv, Alone
    <3> QED
      BY <1>4, <1>7, <3>1, <3>2 DEF Rebuilding
  <2>3. CASE NotBuilt(r) /\ orphan'
    BY <1>4, <1>7, <1>12, <2>1, <2>3
  <2> QED
    BY <1>19, <2>2, <2>3 DEF DropIdx
<1>20. CASE Rename(r)
  <2>1. Rebuilding(r) /\ op[r].kind \in {"set", "cycle", "load"}
    BY <1>1, <1>20 DEF Rename, Rebuilding, Fits
  <2>2. \/ Built(r) /\ idx' = tmp /\ tmp' = None
        \/ NotBuilt(r) /\ orphan'
    BY <1>20 DEF Rename
  <2>3. Alone(r) => tmp = op[r].key
    BY <2>1 DEF BuiltInv, Rebuilding
  <2> QED
    BY <1>4, <1>7, <1>11, <1>12, <2>1, <2>2, <2>3
<1>21. CASE CleanUp(r)
  <2>1. ~Rebuilding(r) /\ tmp' \in {tmp, None} /\ End(r)
    BY <1>21 DEF CleanUp, Rebuilding
  <2>2. orphan' = orphan \/ tmp' = None
    BY <1>21 DEF CleanUp, TypeOK
  <2> QED
    BY <1>4, <1>6, <1>7, <1>9, <2>1, <2>2
<1>22. CASE Insert(r)
  <2>1. ~Rebuilding(r) /\ UNCHANGED <<idx, tmp, orphan>> /\ (Go(r, "finish") \/ End(r))
    BY <1>22 DEF Insert, Rebuilding
  <2> QED
    BY <1>4, <1>6, <1>9, <1>10, <2>1
<1> QED
  BY <1>13, <1>14, <1>15, <1>16, <1>17, <1>18, <1>19, <1>20, <1>21, <1>22 DEF Index

LEMMA RebuildStep ==
  ASSUME TypeOK, OpInv, AloneInv, TmpInv, BuiltInv, [Next]_vars
  PROVE  TmpInv' /\ BuiltInv'
<1>1. ASSUME NEW r \in Requests, Start(r) PROVE TmpInv' /\ BuiltInv'
  <2>1. PICK kind \in Kinds, stage \in Stages, key \in Keys \cup {None} :
          Begin(r, kind, stage, key) /\ stage \notin {"drop_idx", "rename", "insert"}
    BY <1>1, StartFacts
  <2>2. op[r] = Idle /\ UNCHANGED <<tmp, orphan>>
    BY <1>1, StartFacts
  <2>3. /\ op'[r].stage \notin {"drop_idx", "rename", "insert"}
        /\ \A q \in Requests : q # r => ~Alone(q)' /\ (Rebuilding(q) => Rebuilding(q)')
    BY <2>1, <2>2, BeginFacts DEF Alone, Rebuilding
  <2>4. ~Rebuilding(r)
    BY <2>2 DEF Rebuilding, Idle
  <2> QED
    BY <2>2, <2>3, <2>4, TmpKept DEF BuiltInv
<1>2. ASSUME NEW r \in Requests, LoadJob(r) \/ Commit(r) \/ Finish(r)
      PROVE  TmpInv' /\ BuiltInv'
  <2>1. UNCHANGED <<idx, tmp, orphan>> /\ ~Rebuilding(r)
    BY <1>2 DEF LoadJob, Commit, Finish, NotTheIndex, indexes, Rebuilding, At
  <2>2. /\ op'[r] # Idle => op'[r].stage = "commit"
        /\ \A q \in Requests : q # r => op'[q] = op[q]
    BY <1>2, LoadFacts, CommitFacts, FinishFacts, EndFacts
  <2>3. \A q \in Requests : q # r => (Rebuilding(q) => Rebuilding(q)')
    BY <2>2 DEF Rebuilding
  <2>4. TmpInv'
    BY <2>1, <2>3, TmpKept
  <2> QED
    BY <2>1, <2>2, <2>4 DEF BuiltInv, Alone
<1>3. CASE Restart
  BY <1>3, RestartFacts DEF TmpInv, BuiltInv, Alone
<1>4. CASE UNCHANGED vars
  BY <1>4 DEF vars, indexes, TmpInv, BuiltInv, Alone
<1> QED
  BY <1>1, <1>2, <1>3, <1>4, IndexStep DEF Next

LEMMA InductiveInvariant == Spec => []IInv
<1>1. Init => AloneInv /\ TmpInv /\ BuiltInv
  BY DEF Init, AloneInv, TmpInv, BuiltInv, Alone
<1>2. TypeOK /\ OpInv /\ AloneInv /\ TmpInv /\ BuiltInv /\ [Next]_vars =>
        AloneInv' /\ TmpInv' /\ BuiltInv'
  BY AloneStep, RebuildStep
<1> QED
  BY <1>1, <1>2, TypeAndOps, PTL DEF Spec, IInv

(***************************************************************************)
(* A cycle that shares the table with nobody inserts when the index of its *)
(* key is the only unique index, unless a rebuild was left half done.      *)
(***************************************************************************)
THEOREM CyclesUpsertOnTheirKey == Spec => []InsertsOnItsKey
<1>1. IInv => InsertsOnItsKey
  <2> SUFFICES ASSUME IInv, NEW r \in Requests,
                      At(r, "insert"), op[r].kind = "cycle", op[r].alone, ~orphan
               PROVE  idx = op[r].key /\ tmp = None
    BY DEF InsertsOnItsKey
  <2>1. Alone(r) /\ ~Rebuilding(r)
    BY OpShape DEF IInv, At, Alone, Rebuilding, Stages
  <2> QED
    BY <2>1, AloneWithTmp DEF IInv, BuiltInv, At
<1> QED
  BY <1>1, InductiveInvariant, PTL

(***************************************************************************)
(* No rebuild of a request that is alone takes the last unique index away, *)
(* at any of its statements.                                               *)
(***************************************************************************)
THEOREM TableStaysGuarded == Spec => NeverUnguarded
<1> DEFINE Excused ==
      \/ orphan
      \/ \E r \in Requests : op'[r] # Idle /\ op'[r].kind = "clear"
      \/ \E r \in Requests :
           op[r] # Idle /\ (op[r].stage \in {"recreate", "reload"} \/ ~op[r].alone)
<1>1. ASSUME IInv, [Next]_vars, Guarded, ~Excused
      PROVE  Guarded'
  <2> USE DEF IInv, NotTheIndex, indexes
  <2>1. idx # None \/ tmp # None
    BY <1>1 DEF Guarded
  <2>2. idx' # None \/ tmp' # None => Guarded'
    BY DEF Guarded
  <2>3. UNCHANGED <<idx, tmp>> => Guarded'
    BY <2>1, <2>2
  <2>4. ASSUME NEW r \in Requests, Start(r) PROVE Guarded'
    <3>1. PICK kind \in Kinds, stage \in Stages, key \in Keys \cup {None} :
            Begin(r, kind, stage, key) /\ (idx' = idx \/ kind = "clear")
      BY <1>1, <2>4, StartFacts
    <3>2. op'[r] # Idle /\ op'[r].kind = kind /\ tmp' = tmp
      BY <1>1, <2>4, <3>1, StartFacts, BeginFacts
    <3> QED
      BY <1>1, <2>3, <3>1, <3>2
  <2>5. ASSUME NEW r \in Requests, Index(r) PROVE Guarded'
    <3>1. op[r] # Idle /\ op[r].stage \notin {"recreate", "reload"} /\ Alone(r)
      BY <1>1, <2>5, IndexFacts DEF Alone
    <3>2. ~Rebuilding(r) => tmp = None /\ idx # None
      BY <1>1, <2>1, <3>1, AloneWithTmp
    <3>3. Rebuilding(r) => tmp # None
      BY <1>1, <3>1, NoneAssumption DEF BuiltInv, Rebuilding
    <3>4. None \notin unique
      BY <1>1, NoneAssumption DEF TypeOK
    <3>5. CASE Ensure(r) \/ Insert(r)
      BY <2>3, <3>5 DEF Ensure, Insert
    <3>6. CASE CreateIdx(r)
      BY <2>2, <2>3, <3>4, <3>6 DEF CreateIdx
    <3>7. CASE DropTmp(r) \/ CleanUp(r)
      BY <2>2, <3>2, <3>7 DEF DropTmp, CleanUp, At, Rebuilding
    <3>8. CASE CreateTmp(r)
      BY <2>2, <2>3, <3>4, <3>8 DEF CreateTmp
    <3>9. CASE DropIdx(r)
      BY <2>2, <3>3, <3>9 DEF DropIdx, At, Rebuilding
    <3>10. CASE Rename(r)
      BY <2>2, <2>3, <3>10 DEF Rename
    <3> QED
      BY <2>5, <3>1, <3>5, <3>6, <3>7, <3>8, <3>9, <3>10 DEF Index, Recreate, Reload, At
  <2>6. ASSUME NEW r \in Requests, LoadJob(r) \/ Commit(r) \/ Finish(r) PROVE Guarded'
    BY <2>3, <2>6 DEF LoadJob, Commit, Finish
  <2>7. CASE Restart
    BY <1>1, <2>3, <2>7, RestartFacts
  <2>8. CASE UNCHANGED vars
    BY <2>3, <2>8 DEF vars
  <2> QED
    BY <1>1, <2>4, <2>5, <2>6, <2>7, <2>8 DEF Next
<1>2. IInv /\ [Next]_vars => [Guarded /\ ~Guarded' => Excused]_vars
  BY <1>1
<1> QED
  BY <1>2, InductiveInvariant, PTL DEF Spec, NeverUnguarded
=============================================================================
