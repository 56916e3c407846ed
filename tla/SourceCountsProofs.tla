-------------------------- MODULE SourceCountsProofs --------------------------
(***************************************************************************)
(* Theorems about SourceCounts, for any number of verifiers beside the     *)
(* refresher: its type invariant, that a number marked exact is one, that  *)
(* failures keep numbers, and that an undisturbed verify stamps the truth. *)
(***************************************************************************)
EXTENDS SourceCounts, TLAPS

LEMMA RowTypes ==
  /\ NoCount \in Maybe /\ Counts \subseteq Maybe
  /\ NoRow \in CacheRow
  /\ NoStamp \in Stamp
  /\ 0 \in 0..MaxRuns
  /\ Refresher \in Writers /\ Verifiers \subseteq Writers
BY MaxRunsAssumption
   DEF Maybe, NoRow, CacheRow, NoStamp, Stamp, Writers

LEMMA MergedFields ==
  ASSUME TypeOK, NEW w \in Writers
  PROVE  /\ Merged(w) \in CacheRow
         /\ answer[w] = NoCount =>
              Merged(w).count = cache.count /\ SameLabel(Merged(w), cache)
         /\ answer[w] # NoCount =>
              /\ Merged(w).count = Column(seen[w].count, answer[w], cache.count)
              /\ Merged(w).mode = Column(seen[w].mode, Mode(w), cache.mode)
              /\ Merged(w).approximate =
                   Column(seen[w].approximate, w = Refresher, cache.approximate)
<1>1. seen[w] \in CacheRow /\ cache \in CacheRow /\ answer[w] \in Maybe
  BY DEF TypeOK
<1>2. Mode(w) \in {"none", "estimate", "exact"} /\ (w = Refresher) \in BOOLEAN
  BY DEF Mode
<1>3. Wanted(w) \in CacheRow
  BY <1>1, <1>2 DEF Wanted, CacheRow
<1>4. Merged(w) \in CacheRow
  <2>1. \A a, b, c : Column(a, b, c) \in {b, c}
    BY DEF Column
  <2> DEFINE new == Wanted(w)
  <2>2. new \in CacheRow
    BY <1>3
  <2> HIDE DEF new
  <2>3. Merged(w) = [present |-> TRUE,
                     count |-> Column(seen[w].count, new.count, cache.count),
                     mode |-> Column(seen[w].mode, new.mode, cache.mode),
                     approximate |-> Column(seen[w].approximate, new.approximate,
                                            cache.approximate),
                     status |-> Column(seen[w].status, new.status, cache.status)]
    BY DEF Merged, new
  <2> QED
    BY <1>1, <2>1, <2>2, <2>3 DEF CacheRow
<1>5. ASSUME answer[w] = NoCount
      PROVE  Merged(w).count = cache.count /\ SameLabel(Merged(w), cache)
  BY <1>5 DEF Merged, Wanted, Column, SameLabel
<1>6. ASSUME answer[w] # NoCount
      PROVE  /\ Merged(w).count = Column(seen[w].count, answer[w], cache.count)
             /\ Merged(w).mode = Column(seen[w].mode, Mode(w), cache.mode)
             /\ Merged(w).approximate =
                  Column(seen[w].approximate, w = Refresher, cache.approximate)
  BY <1>6 DEF Merged, Wanted
<1> QED
  BY <1>4, <1>5, <1>6

-----------------------------------------------------------------------------
(* TypeOK is an invariant: what the variables of SourceCounts may hold.    *)
THEOREM TypeInvariant == Spec => []TypeOK
<1>1. Init => TypeOK
  BY RowTypes DEF Init, TypeOK, Stages
<1>2. ASSUME TypeOK, [Next]_vars PROVE TypeOK'
  <2> USE <1>2, RowTypes
  <2> DEFINE Resting(w) ==
        /\ at' \in [Writers -> Stages]
        /\ run' \in [Writers -> 0..MaxRuns]
        /\ target' \in [Writers -> Maybe]
        /\ answer' \in [Writers -> Maybe]
        /\ seen' \in [Writers -> CacheRow]
        /\ sure' \subseteq Verifiers
  <2>1. ASSUME NEW w \in Writers, Rest(w) PROVE Resting(w)
    BY <2>1 DEF TypeOK, Rest, Go, Stages
  <2> HIDE DEF Resting
  <2>2. ASSUME NEW v \in Verifiers, Pick(v) PROVE TypeOK'
    BY <2>2 DEF TypeOK, Pick, Go, Stages, environment
  <2>3. ASSUME NEW v \in Verifiers, CountTarget(v) PROVE TypeOK'
    BY <2>3 DEF TypeOK, CountTarget, Go, Stages, environment, ghosts
  <2>4. ASSUME NEW v \in Verifiers, AskExact(v) PROVE TypeOK'
    BY <2>4 DEF TypeOK, AskExact, Go, Stages, environment, picked
  <2>5. ASSUME AskEstimate PROVE TypeOK'
    BY <2>5 DEF TypeOK, AskEstimate, Go, Stages, environment, picked, ghosts
  <2>6. ASSUME NEW w \in Writers, Load(w) PROVE TypeOK'
    <3>1. mixed' \in BOOLEAN /\ sure' \subseteq Verifiers
      BY <2>6 DEF TypeOK, Load, Mixing
    <3> QED
      BY <2>6, <3>1 DEF TypeOK, Load, Go, Stages, environment, picked
  <2>7. ASSUME NEW w \in Writers, Write(w) PROVE TypeOK'
    <3>1. cache' \in CacheRow
      BY <2>7, MergedFields DEF Write
    <3>2. CASE w = Refresher
      BY <2>1, <2>7, <3>1, <3>2 DEF TypeOK, Write, Resting, environment
    <3>3. CASE w # Refresher
      BY <2>7, <3>1, <3>3 DEF TypeOK, Write, Go, Stages, environment, picked
    <3> QED
      BY <3>2, <3>3
  <2>8. ASSUME NEW w \in Writers, Conflict(w) \/ Abort(w) PROVE TypeOK'
    <3>1. Resting(w)
      BY <2>1, <2>8 DEF Conflict, Abort
    <3> QED
      BY <2>8, <3>1 DEF TypeOK, Conflict, Abort, Resting, environment
  <2>9. ASSUME NEW v \in Verifiers, Reread(v) PROVE TypeOK'
    BY <2>9 DEF TypeOK, Reread, Go, Stages, environment, picked, ghosts
  <2>10. ASSUME NEW v \in Verifiers, Judge(v) PROVE TypeOK'
    <3>1. Resting(v)
      BY <2>1, <2>10 DEF Judge
    <3>2. stamps' \in [Runs -> Stamp]
      <4> DEFINE verdict == Verdict(seen[v], target[v])
                 mark == [verdict |-> verdict, source |-> SourceOf(seen[v]),
                          target |-> target[v]]
      <4>1. seen[v] \in CacheRow /\ target[v] \in Maybe
        BY DEF TypeOK
      <4>2. SourceOf(seen[v]) \in Maybe
        BY <4>1 DEF SourceOf, CacheRow
      <4>3. verdict \in Official => mark \in Stamp
        BY <4>1, <4>2 DEF Stamp
      <4>4. stamps' = IF Recorded(verdict, run[v])
                        THEN [stamps EXCEPT ![run[v]] = mark] ELSE stamps
        BY <2>10 DEF Judge
      <4> HIDE DEF verdict, mark
      <4> QED
        BY <4>3, <4>4 DEF TypeOK, Recorded
    <3> QED
      BY <2>10, <3>1, <3>2 DEF TypeOK, Judge, Resting, environment
  <2>11. ASSUME SourceChanges \/ StagedChanges \/ NewRun PROVE TypeOK'
    BY <2>11, MaxRunsAssumption
       DEF TypeOK, SourceChanges, StagedChanges, NewRun, picked
  <2>12. CASE UNCHANGED vars
    BY <2>12 DEF TypeOK, vars, environment, picked, ghosts
  <2> QED
    BY <2>2, <2>3, <2>4, <2>5, <2>6, <2>7, <2>8, <2>9, <2>10, <2>11, <2>12
       DEF Next, Verify, Upsert
<1> QED
  BY <1>1, <1>2, PTL DEF Spec

-----------------------------------------------------------------------------
(* What an upsert does to the labels and the number, given that nothing     *)
(* but other verifies and failures came between its read and its write.     *)

LEMMA EstimateIsLabelled ==
  ASSUME TypeOK, answer[Refresher] # NoCount, SameLabel(seen[Refresher], cache)
  PROVE  ~IsExact(Merged(Refresher))
<1>1. /\ Merged(Refresher).mode = Column(seen[Refresher].mode, "estimate", cache.mode)
      /\ Merged(Refresher).approximate =
           Column(seen[Refresher].approximate, TRUE, cache.approximate)
  BY RowTypes, MergedFields DEF Mode
<1>2. CASE seen[Refresher].mode = "estimate"
  BY <1>1, <1>2 DEF Column, SameLabel, IsExact
<1>3. CASE seen[Refresher].mode # "estimate"
  BY <1>1, <1>3 DEF Column, IsExact
<1> QED
  BY <1>2, <1>3

LEMMA ExactIsWritten ==
  ASSUME TypeOK, NEW v \in Verifiers, answer[v] \in confirmed,
         cache.count = seen[v].count \/ cache.count \in confirmed
  PROVE  Merged(v).count \in confirmed
<1>1. v \in Writers /\ answer[v] # NoCount
  BY RowTypes, CountsAssumption DEF TypeOK
<1>2. Merged(v).count = Column(seen[v].count, answer[v], cache.count)
  BY <1>1, MergedFields
<1> QED
  BY <1>2 DEF Column

\* A writer that comes to rest writes nothing any more.
LEMMA RestingWriters ==
  ASSUME TypeOK, NEW w \in Writers, Rest(w)
  PROVE  /\ ~Writing(w)' /\ at'[w] = "idle"
         /\ \A x \in Writers : x # w =>
              /\ at'[x] = at[x] /\ run'[x] = run[x] /\ target'[x] = target[x]
              /\ answer'[x] = answer[x] /\ seen'[x] = seen[x]
         /\ answer'[w] = NoCount
         /\ sure' = sure \ {w}
BY DEF TypeOK, Rest, Go, Writing

IWrite == TypeOK /\ WriteInv

\* If neither cache nor confirmed change, and no writer gets into its window,
\* WriteInv is kept.
LEMMA WriteInvKept ==
  ASSUME WriteInv, UNCHANGED <<cache, confirmed, mixed>>,
         \A v \in Verifiers : answer'[v] \in {answer[v], NoCount},
         \A w \in Writers : Writing(w)' => Writing(w) /\ seen'[w] = seen[w]
  PROVE  WriteInv'
<1>1. \A v \in Verifiers : answer'[v] # NoCount => answer'[v] \in confirmed'
  BY DEF WriteInv
<1>2. ExactIsConfirmed'
  BY DEF WriteInv, ExactIsConfirmed, IsExact
<1>3. (~mixed /\ Writing(Refresher) =>
         /\ \A v \in Verifiers : ~Writing(v)
         /\ SameLabel(seen[Refresher], cache))'
  BY RowTypes DEF WriteInv, SameLabel
<1>4. (~mixed => \A v \in Verifiers :
         Writing(v) => cache.count = seen[v].count \/ cache.count \in confirmed)'
  BY RowTypes DEF WriteInv
<1> QED
  BY <1>1, <1>2, <1>3, <1>4 DEF WriteInv

LEMMA WriteInductive == IWrite /\ [Next]_vars => WriteInv'
<1> SUFFICES ASSUME TypeOK, WriteInv, [Next]_vars PROVE WriteInv'
  BY DEF IWrite
<1> USE RowTypes
<1>1. ASSUME NEW v \in Verifiers, Pick(v) \/ CountTarget(v) PROVE WriteInv'
  BY <1>1, WriteInvKept
     DEF TypeOK, Pick, CountTarget, Go, Writing, ghosts
<1>2. ASSUME NEW v \in Verifiers, AskExact(v) PROVE WriteInv'
  <2>1. /\ UNCHANGED <<cache, seen, mixed>> /\ confirmed \subseteq confirmed'
        /\ \A x \in Writers : Writing(x)' => Writing(x)
    BY <1>2 DEF TypeOK, AskExact, Go, Writing
  <2>2. \A x \in Verifiers : answer'[x] # NoCount => answer'[x] \in confirmed'
    BY <1>2 DEF TypeOK, WriteInv, AskExact, Maybe
  <2>3. ExactIsConfirmed'
    BY <2>1 DEF WriteInv, ExactIsConfirmed, IsExact
  <2> QED
    BY <2>1, <2>2, <2>3 DEF WriteInv, SameLabel
<1>3. ASSUME AskEstimate PROVE WriteInv'
  <2>1. \A v \in Verifiers : v # Refresher
    BY RefresherAssumption
  <2> QED
    BY <1>3, <2>1, WriteInvKept DEF TypeOK, AskEstimate, Go, Writing, ghosts
<1>4. ASSUME NEW w \in Writers, Load(w) PROVE WriteInv'
  <2>1. /\ UNCHANGED <<cache, answer, confirmed>>
        /\ at'[w] = "loaded" /\ seen'[w] = cache
        /\ \A x \in Writers : x # w => seen'[x] = seen[x] /\ at'[x] = at[x]
        /\ ~mixed' => ~mixed /\ ~Mixing(w)
    BY <1>4 DEF TypeOK, Load, Go
  <2>2. ExactIsConfirmed'
    BY <2>1 DEF WriteInv, ExactIsConfirmed, IsExact
  <2>3. \A v \in Verifiers : v # Refresher /\ Mode(v) # Mode(Refresher)
    BY RefresherAssumption DEF Mode
  <2>4. ASSUME ~mixed', Writing(Refresher)'
        PROVE  /\ \A v \in Verifiers : ~Writing(v)'
               /\ SameLabel(seen[Refresher], cache)'
    <3>1. CASE w = Refresher
      <4>1. \A v \in Verifiers : ~Writing(v)
        BY <2>1, <2>3, <2>4, <3>1 DEF Mixing, Writing
      <4> QED
        BY <2>1, <2>3, <3>1, <4>1 DEF Writing, SameLabel
    <3>2. CASE w # Refresher
      <4>1. Writing(Refresher)
        BY <2>1, <2>4, <3>2 DEF Writing
      <4>2. answer[w] = NoCount
        BY <2>1, <2>3, <2>4, <3>2, <4>1 DEF Mixing, Writing, Writers, Mode
      <4> QED
        BY <2>1, <2>4, <3>2, <4>1, <4>2 DEF WriteInv, Writing, SameLabel
    <3> QED
      BY <3>1, <3>2
  <2>5. ASSUME ~mixed', NEW v \in Verifiers, Writing(v)'
        PROVE  cache'.count = seen'[v].count \/ cache'.count \in confirmed'
    <3>1. CASE v = w
      BY <2>1, <3>1
    <3>2. CASE v # w
      BY <2>1, <2>5, <3>2 DEF WriteInv, Writing
    <3> QED
      BY <3>1, <3>2
  <2> QED
    BY <2>1, <2>2, <2>4, <2>5 DEF WriteInv
<1>5. ASSUME NEW w \in Writers, Write(w) PROVE WriteInv'
  <2>1. /\ cache' = Merged(w) /\ UNCHANGED <<mixed, confirmed>>
        /\ at[w] = "loaded" /\ ~Writing(w)'
        /\ answer'[w] = NoCount
        /\ \A x \in Writers : x # w =>
             seen'[x] = seen[x] /\ at'[x] = at[x] /\ answer'[x] = answer[x]
    BY <1>5, RestingWriters DEF TypeOK, Write, Go, Writing
  <2>2. \A x \in Writers : Writing(x)' => x # w /\ Writing(x)
    BY <2>1 DEF Writing
  <2>3. \A v \in Verifiers : answer'[v] # NoCount => answer'[v] \in confirmed'
    BY <2>1 DEF WriteInv
  <2>4. CASE answer[w] = NoCount
    <3>1. cache'.count = cache.count /\ SameLabel(cache', cache)
      BY <2>1, <2>4, MergedFields
    <3>2. ExactIsConfirmed'
      BY <2>1, <3>1 DEF WriteInv, ExactIsConfirmed, IsExact, SameLabel
    <3> QED
      BY <2>1, <2>2, <2>3, <3>1, <3>2 DEF WriteInv, SameLabel
  <2>5. CASE answer[w] # NoCount
    <3>1. Writing(w)
      BY <2>1, <2>5 DEF Writing
    <3>2. CASE mixed
      BY <2>1, <2>3, <3>2 DEF WriteInv, ExactIsConfirmed
    <3>3. CASE ~mixed /\ w = Refresher
      <4>1. ~IsExact(cache')
        BY <2>1, <2>5, <3>1, <3>3, EstimateIsLabelled DEF WriteInv
      <4>2. \A v \in Verifiers : ~Writing(v)'
        BY <2>2, <3>1, <3>3 DEF WriteInv
      <4> QED
        BY <2>1, <2>2, <2>3, <3>3, <4>1, <4>2 DEF WriteInv, ExactIsConfirmed
    <3>4. CASE ~mixed /\ w # Refresher
      <4>1. w \in Verifiers
        BY <3>4 DEF Writers
      <4>2. cache'.count \in confirmed
        BY <2>1, <2>5, <3>1, <3>4, <4>1, ExactIsWritten DEF WriteInv
      <4>3. ~Writing(Refresher)'
        BY <2>2, <3>1, <3>4, <4>1 DEF WriteInv
      <4> QED
        BY <2>1, <2>3, <4>2, <4>3 DEF WriteInv, ExactIsConfirmed
    <3> QED
      BY <3>2, <3>3, <3>4
  <2> QED
    BY <2>4, <2>5
<1>6. ASSUME NEW w \in Writers, Conflict(w) \/ Abort(w) PROVE WriteInv'
  BY <1>6, RestingWriters, WriteInvKept DEF Conflict, Abort, Writing
<1>7. ASSUME NEW v \in Verifiers, Reread(v) PROVE WriteInv'
  BY <1>7, WriteInvKept DEF TypeOK, Reread, Go, Writing, ghosts
<1>8. ASSUME NEW v \in Verifiers, Judge(v) PROVE WriteInv'
  <2>1. Rest(v) /\ UNCHANGED <<cache, mixed, confirmed>>
    BY <1>8 DEF Judge
  <2> QED
    BY <2>1, RestingWriters, WriteInvKept DEF Writing
<1>9. ASSUME SourceChanges \/ StagedChanges \/ NewRun PROVE WriteInv'
  BY <1>9, WriteInvKept DEF SourceChanges, StagedChanges, NewRun, picked, Writing
<1>10. CASE UNCHANGED vars
  BY <1>10, WriteInvKept DEF vars, picked, ghosts, Writing
<1> QED
  BY <1>1, <1>2, <1>3, <1>4, <1>5, <1>6, <1>7, <1>8, <1>9, <1>10
     DEF Next, Verify, Upsert

(* source_verdict relies on the label of the cached number: unless an      *)
(* estimate and an exact count mixed, a number marked exact was returned   *)
(* by an exact count.                                                      *)
THEOREM ExactNumbersAreExact == Spec => []ExactIsConfirmed
<1>1. Init => WriteInv
  BY RowTypes DEF Init, WriteInv, ExactIsConfirmed, IsExact, NoRow, Writing
<1>2. IWrite /\ [Next]_vars => WriteInv'
  BY WriteInductive
<1>3. WriteInv => ExactIsConfirmed
  BY DEF WriteInv
<1> QED
  BY <1>1, <1>2, <1>3, TypeInvariant, PTL DEF Spec, IWrite

(* upsert_source_count: a write after a failed count leaves the number and *)
(* its label as they are by then, whoever wrote in between.                *)
THEOREM FailuresKeepNumbers == Spec => FailureKeepsCount
<1> DEFINE Keeps(w) ==
      /\ at[w] = "loaded" /\ at'[w] # "loaded"
      /\ answer[w] = NoCount /\ cache.present
      => /\ cache'.count = cache.count
         /\ IsExact(cache') = IsExact(cache)
<1>1. ASSUME TypeOK, [Next]_vars, NEW w \in Writers PROVE Keeps(w)
  <2> SUFFICES ASSUME at[w] = "loaded", at'[w] # "loaded", answer[w] = NoCount
               PROVE  cache'.count = cache.count /\ IsExact(cache') = IsExact(cache)
    OBVIOUS
  <2> USE <1>1, RowTypes
  <2>1. ASSUME UNCHANGED cache
        PROVE  cache'.count = cache.count /\ IsExact(cache') = IsExact(cache)
    BY <2>1 DEF IsExact
  <2>2. ASSUME NEW x \in Writers, Write(x)
        PROVE  cache'.count = cache.count /\ IsExact(cache') = IsExact(cache)
    <3>1. x = w
      BY <2>2 DEF TypeOK, Write, Rest, Go
    <3>2. cache'.count = cache.count /\ SameLabel(cache', cache)
      BY <2>2, <3>1, MergedFields DEF Write
    <3> QED
      BY <3>2 DEF SameLabel, IsExact
  <2>3. ASSUME NEW v \in Verifiers, Verify(v) PROVE UNCHANGED cache
    BY <2>3 DEF Verify, Pick, CountTarget, AskExact, Reread, Judge
  <2>4. ASSUME NEW x \in Writers, Load(x) \/ Conflict(x) \/ Abort(x) PROVE UNCHANGED cache
    BY <2>4 DEF Load, Conflict, Abort
  <2>5. ASSUME AskEstimate \/ SourceChanges \/ StagedChanges \/ NewRun \/ UNCHANGED vars
        PROVE  UNCHANGED cache
    BY <2>5 DEF AskEstimate, SourceChanges, StagedChanges, NewRun, vars
  <2> QED
    BY <2>1, <2>2, <2>3, <2>4, <2>5 DEF Next, Upsert
<1>2. TypeOK /\ [Next]_vars => [\A w \in Writers : Keeps(w)]_vars
  BY <1>1
<1> QED
  BY <1>2, TypeInvariant, PTL DEF Spec, FailureKeepsCount

-----------------------------------------------------------------------------
(* What an undisturbed verify relies on at each of its steps.              *)

ISure == TypeOK /\ SureInv

\* A verifier's own write leaves its answer in the row, labelled as exact.
LEMMA AnswerIsWritten ==
  ASSUME TypeOK, NEW v \in Verifiers, answer[v] # NoCount,
         seen[v].count = cache.count, SameLabel(seen[v], cache)
  PROVE  Merged(v).count = answer[v]
<1>1. Merged(v).count = Column(seen[v].count, answer[v], cache.count)
  BY RowTypes, MergedFields
<1> QED
  BY <1>1 DEF Column

LEMMA SureInductive == ISure /\ [Next]_vars => SureInv'
<1> SUFFICES ASSUME TypeOK, SureInv, [Next]_vars, NEW v \in sure' PROVE SureOf(v)'
  BY DEF ISure, SureInv
<1>0. sure \subseteq Verifiers /\ \A x \in sure : SureOf(x)
  BY DEF SureInv, TypeOK
<1>a. \A x \in Verifiers : x # Refresher /\ x \in Writers /\ Mode(x) # Mode(Refresher)
  BY RowTypes, RefresherAssumption DEF Mode
<1> USE RowTypes, <1>a
<1>1. ASSUME NEW w \in Verifiers, Pick(w) PROVE SureOf(v)'
  <2>1. v = w /\ \A x \in Verifiers : at[x] = "idle"
    BY <1>1 DEF Pick
  <2> QED
    BY <1>1, <2>1 DEF TypeOK, Pick, Go, SureOf, environment
<1>2. ASSUME NEW w \in Verifiers, CountTarget(w) \/ AskExact(w) \/ Reread(w)
      PROVE  SureOf(v)'
  <2>1. v \in sure /\ at[w] # "idle"
    BY <1>2 DEF CountTarget, AskExact, Reread, ghosts
  <2>2. v = w /\ v \in Verifiers
    BY <1>0, <2>1 DEF SureOf
  <2>3. CASE CountTarget(w)
    BY <1>0, <2>1, <2>2, <2>3 DEF TypeOK, CountTarget, Go, SureOf, environment
  <2>4. CASE AskExact(w)
    <3>1. answer'[v] = source
      BY <2>2, <2>4 DEF TypeOK, AskExact
    <3> QED
      BY <1>0, <2>1, <2>2, <2>4, <3>1
         DEF TypeOK, AskExact, Go, SureOf, environment, picked
  <2>5. CASE Reread(w)
    BY <1>0, <2>1, <2>2, <2>5
       DEF TypeOK, Reread, Go, SureOf, environment, picked, IsExact
  <2> QED
    BY <1>2, <2>3, <2>4, <2>5
<1>3. ASSUME AskEstimate PROVE SureOf(v)'
  <2>1. v \in sure /\ ~Writing(Refresher)' /\ v # Refresher
    BY <1>0, <1>3 DEF TypeOK, AskEstimate, Go, Writing, ghosts
  <2>2. UNCHANGED <<environment, cache, picked, seen>>
    BY <1>3 DEF AskEstimate
  <2>3. \A x \in Verifiers : at'[x] = at[x] /\ answer'[x] = answer[x]
    BY <1>3 DEF TypeOK, AskEstimate, Go
  <2> QED
    BY <1>0, <2>1, <2>2, <2>3 DEF SureOf, environment, picked, IsExact, SameLabel
<1>4. ASSUME NEW w \in Writers, Load(w) PROVE SureOf(v)'
  <2>1. v \in sure /\ ~Mixing(w) /\ at[w] # "idle"
    BY <1>4 DEF Load
  <2>2. v \in Verifiers /\ SureOf(v)
    BY <1>0, <2>1
  <2>3. /\ UNCHANGED <<environment, cache, picked, answer>>
        /\ at[w] = "asked" /\ at'[w] = "loaded" /\ seen'[w] = cache
        /\ \A x \in Writers : x # w => seen'[x] = seen[x] /\ at'[x] = at[x]
    BY <1>4 DEF TypeOK, Load, Go
  <2>4. CASE w = v
    <3>1. ~Writing(Refresher)'
      <4>1. answer[v] # NoCount
        BY <2>2, <2>3, <2>4, CountsAssumption DEF SureOf, TypeOK
      <4> QED
        BY <2>1, <2>2, <2>3, <2>4, <4>1 DEF Mixing, Writing
    <3> QED
      BY <2>2, <2>3, <2>4, <3>1 DEF SureOf, environment, picked, SameLabel
  <2>5. CASE w # v
    <3>1. w = Refresher
      BY <2>1, <2>2, <2>5 DEF SureOf, Writers
    <3>2. ASSUME at[v] = "loaded" PROVE ~Writing(Refresher)'
      <4>1. answer[v] # NoCount
        BY <2>2, <3>2, CountsAssumption DEF SureOf, TypeOK
      <4> QED
        BY <2>1, <2>2, <2>3, <3>1, <3>2, <4>1 DEF Mixing, Writing
    <3> QED
      BY <2>2, <2>3, <2>5, <3>1, <3>2
         DEF SureOf, environment, picked, SameLabel, IsExact
  <2> QED
    BY <2>4, <2>5
<1>5. ASSUME NEW w \in Writers, Write(w) PROVE SureOf(v)'
  <2>1. /\ cache' = Merged(w) /\ UNCHANGED environment
        /\ at[w] = "loaded" /\ at'[w] = (IF w = Refresher THEN "idle" ELSE "written")
        /\ sure' = IF w = Refresher THEN sure \ {w} ELSE sure
        /\ w # Refresher => UNCHANGED picked
        /\ \A x \in Writers : x # w =>
             /\ seen'[x] = seen[x] /\ at'[x] = at[x] /\ answer'[x] = answer[x]
             /\ run'[x] = run[x] /\ target'[x] = target[x]
    BY <1>5, RestingWriters DEF TypeOK, Write, Go, picked
  <2>2. v \in Verifiers /\ v \in sure /\ SureOf(v)
    BY <1>0, <2>1
  <2>3. CASE w = v
    <3>1. ~Writing(Refresher) /\ ~Writing(Refresher)'
      BY <2>1, <2>2, <2>3 DEF SureOf, Writing
    <3>2. answer[v] = source /\ answer[v] # NoCount
      BY <2>1, <2>2, <2>3, CountsAssumption DEF SureOf, TypeOK
    <3>3. cache'.count = source
      BY <2>1, <2>2, <2>3, <3>2, AnswerIsWritten DEF SureOf
    <3> QED
      BY <2>1, <2>2, <2>3, <3>1, <3>3 DEF SureOf, environment, picked
  <2>4. CASE w # v
    <3>1. w = Refresher
      BY <2>1, <2>2, <2>4 DEF SureOf, Writers
    <3>2. ~Writing(Refresher)'
      BY <2>1, <3>1 DEF Writing
    <3>3. CASE answer[w] = NoCount
      <4>1. cache'.count = cache.count /\ SameLabel(cache', cache)
        BY <2>1, <3>3, MergedFields
      <4> QED
        BY <2>1, <2>2, <2>4, <3>1, <3>2, <4>1
           DEF SureOf, environment, SameLabel, IsExact
    <3>4. CASE answer[w] # NoCount
      <4>1. Writing(Refresher)
        BY <2>1, <3>1, <3>4 DEF Writing
      <4>2. at[v] # "loaded"
        BY <2>2, <4>1 DEF SureOf
      <4>3. at[v] = "written" => ~IsExact(cache')
        BY <2>1, <2>2, <3>1, <3>4, <4>1, EstimateIsLabelled DEF SureOf
      <4> QED
        BY <2>1, <2>2, <2>4, <3>1, <3>2, <4>2, <4>3 DEF SureOf, environment, IsExact
    <3> QED
      BY <3>3, <3>4
  <2> QED
    BY <2>3, <2>4
<1>6. ASSUME NEW w \in Writers, Rest(w), UNCHANGED <<environment, cache>>
      PROVE  SureOf(v)'
  <2>1. /\ v \in sure /\ v # w /\ ~Writing(w)' /\ at'[w] = "idle"
        /\ \A x \in Writers : x # w =>
              /\ at'[x] = at[x] /\ run'[x] = run[x] /\ target'[x] = target[x]
              /\ answer'[x] = answer[x] /\ seen'[x] = seen[x]
    BY <1>6, RestingWriters
  <2>2. v \in Verifiers /\ SureOf(v)
    BY <1>0, <2>1
  <2>3. Writing(Refresher)' => Writing(Refresher) /\ seen'[Refresher] = seen[Refresher]
    BY <2>1 DEF Writing
  <2> QED
    BY <1>6, <2>1, <2>2, <2>3 DEF SureOf, environment, SameLabel, IsExact
<1>7. ASSUME SourceChanges \/ StagedChanges \/ NewRun PROVE SureOf(v)'
  BY <1>7 DEF SourceChanges, StagedChanges, NewRun
<1>8. CASE UNCHANGED vars
  BY <1>0, <1>8
     DEF SureOf, vars, environment, picked, ghosts, Writing, SameLabel, IsExact
<1>9. ASSUME NEW w \in Writers, Conflict(w) \/ Abort(w) PROVE SureOf(v)'
  BY <1>6, <1>9 DEF Conflict, Abort
<1>10. ASSUME NEW w \in Verifiers, Judge(w) PROVE SureOf(v)'
  BY <1>6, <1>10 DEF Judge
<1> QED
  BY <1>1, <1>2, <1>3, <1>4, <1>5, <1>7, <1>8, <1>9, <1>10 DEF Next, Verify, Upsert

(* perform_verify: what an undisturbed verify stamps on the latest run is  *)
(* whether the table has as many rows as the view.                         *)
THEOREM UndisturbedStampsAreTrue == Spec => StampsAreTrue
<1> DEFINE Truth(v) ==
      stamps' # stamps =>
        \E shown \in {source, NoCount} :
          stamps' = [stamps EXCEPT ![latest] =
                       [verdict |-> IF source = staged THEN "MATCH" ELSE "MISMATCH",
                        source |-> shown, target |-> staged]]
<1>1. ASSUME TypeOK, SureInv, [Next]_vars, NEW v \in sure PROVE Truth(v)
  <2>1. v \in Verifiers /\ SureOf(v)
    BY <1>1 DEF SureInv, TypeOK
  <2>2. ASSUME NEW w \in Verifiers, Judge(w) PROVE Truth(v)
    <3> SUFFICES ASSUME stamps' # stamps
                 PROVE  \E shown \in {source, NoCount} :
                          stamps' = [stamps EXCEPT ![latest] =
                            [verdict |-> IF source = staged THEN "MATCH" ELSE "MISMATCH",
                             source |-> shown, target |-> staged]]
      OBVIOUS
    <3>1. w = v /\ at[v] = "read"
      BY <2>1, <2>2 DEF Judge, SureOf
    <3> DEFINE verdict == Verdict(seen[v], target[v])
               mark == [verdict |-> verdict, source |-> SourceOf(seen[v]),
                        target |-> target[v]]
    <3>2. Recorded(verdict, run[v]) /\ stamps' = [stamps EXCEPT ![run[v]] = mark]
      BY <2>2, <3>1 DEF Judge
    <3>3. /\ seen[v].count # NoCount /\ IsExact(seen[v]) /\ target[v] # NoCount
          /\ verdict = IF seen[v].count = target[v] THEN "MATCH" ELSE "MISMATCH"
      BY <3>2 DEF Recorded, Official, Verdict
    <3>4. seen[v].count = source /\ target[v] = staged /\ run[v] = latest
      BY <2>1, <3>1, <3>3 DEF SureOf
    <3>5. SourceOf(seen[v]) \in {source, NoCount}
      BY <3>4 DEF SourceOf
    <3> QED
      BY <3>2, <3>3, <3>4, <3>5
  <2>3. ASSUME NEW w \in Verifiers,
               Pick(w) \/ CountTarget(w) \/ AskExact(w) \/ Reread(w)
        PROVE  UNCHANGED stamps
    BY <2>3 DEF Pick, CountTarget, AskExact, Reread
  <2>4. ASSUME NEW w \in Writers, Upsert(w) PROVE UNCHANGED stamps
    BY <2>4 DEF Upsert, Load, Write, Conflict, Abort
  <2>5. ASSUME AskEstimate \/ SourceChanges \/ StagedChanges \/ NewRun \/ UNCHANGED vars
        PROVE  UNCHANGED stamps
    BY <2>5 DEF AskEstimate, SourceChanges, StagedChanges, NewRun, vars
  <2> QED
    BY <1>1, <2>2, <2>3, <2>4, <2>5 DEF Next, Verify
<1>2. Init => SureInv
  BY DEF Init, SureInv
<1>3. ISure /\ [Next]_vars => SureInv'
  BY SureInductive
<1>4. TypeOK /\ SureInv /\ [Next]_vars => [\A v \in sure : Truth(v)]_vars
  BY <1>1
<1> QED
  BY <1>2, <1>3, <1>4, TypeInvariant, PTL DEF Spec, ISure, StampsAreTrue
=============================================================================
