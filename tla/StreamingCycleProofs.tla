------------------------- MODULE StreamingCycleProofs -------------------------
(***************************************************************************)
(* Theorems about StreamingCycle: its type invariant, that the saved       *)
(* cursor is always backed by a staged row, that without an unsafe event   *)
(* no cycle compares a marker with a cursor of the other kind, and that    *)
(* then no row of the view that is not staged is left behind the cursor.   *)
(***************************************************************************)
EXTENDS StreamingCycle, FiniteSetTheorems, WellFoundedInduction, TLAPS

LEMMA CursorTypes ==
  /\ NoCursor \in Cursors
  /\ NoCfg \in [marker : Markers, loaded : Cursors, cursor : Cursors]
  /\ \A kind \in Markers, n \in Nat : [space |-> kind, at |-> n] \in Cursors
BY DEF NoCursor, NoCfg, Cursors, Markers

\* The number of a day, and of the days since one of the same year.
LEMMA Dates ==
  /\ \A d \in 1..MaxDay : Julian[d] \in Nat
  /\ 1 \in 1..MaxDay /\ MaxDay \in Nat /\ Lookback \in Nat
BY BoundsAssumption, JulianAssumption

LEMMA WithinYear ==
  ASSUME NEW row, NEW now \in 1..MaxDay, Recent(row, now), Year(row.day) = Year(Julian[now])
  PROVE  Julian[now] <= row.day + Lookback
<1>1. PICK d \in 1..MaxDay : row.day = Julian[d] /\ now <= d + Lookback
  BY DEF Recent
<1>2. Julian[d] \in Nat /\ Julian[now] \in Nat /\ Lookback \in Nat /\ MaxDay \in Nat
  BY Dates
<1>3. CASE d <= now
  <2>1. Julian[now] - Julian[d] = now - d
    BY <1>1, <1>3, JulianAssumption
  <2> QED
    BY <1>1, <1>2, <2>1
<1>4. CASE now <= d
  <2>1. Julian[now] <= Julian[d]
    BY <1>4, JulianAssumption
  <2> QED
    BY <1>1, <1>2, <2>1
<1> QED
  BY <1>2, <1>3, <1>4

\* A nonempty set of numbers with an upper bound has a greatest element.
LEMMA GreatestExists ==
  ASSUME NEW S \in SUBSET Nat, S # {}, NEW bound \in Nat, \A x \in S : x <= bound
  PROVE  \E m \in S : \A x \in S : x <= m
<1> DEFINE Less == {w \in Nat \X Nat : w[1] < w[2]}
<1> DEFINE Gaps == {n \in Nat : \E x \in S : n = bound - x}
<1>1. IsWellFoundedOn(Less, Nat)
  BY NatLessThanWellFounded DEF OpToRel
<1>2. \A x \in S : x \in Nat /\ bound - x \in Nat
  OBVIOUS
<1>3. Gaps \subseteq Nat /\ Gaps # {}
  BY <1>2
<1>4. PICK gap \in Gaps : \A n \in Gaps : <<n, gap>> \notin Less
  <2> HIDE DEF Gaps, Less
  <2> QED
    BY <1>1, <1>3, WFMin
<1>5. PICK m \in S : gap = bound - m
  OBVIOUS
<1>6. ASSUME NEW x \in S PROVE x <= m
  <2>1. bound - x \in Gaps
    BY <1>2
  <2>2. ~ (bound - x < gap)
    BY <1>4, <2>1
  <2> QED
    BY <1>2, <1>5, <2>2
<1> QED
  BY <1>6

\* MaxStaged is the marker of a staged row.
LEMMA MaxStagedIsStaged ==
  ASSUME staged \subseteq StagedRow, staged # {}, NEW kind \in Markers,
         NEW bound \in Nat, \A row \in staged : AtMost(bound, row)
  PROVE  /\ MaxStaged(kind) \in Nat
         /\ \E row \in staged : MarkerOf(kind, row) = MaxStaged(kind)
<1> DEFINE S == {MarkerOf(kind, row) : row \in staged}
<1>1. \A row \in staged : MarkerOf(kind, row) \in Nat /\ MarkerOf(kind, row) <= bound
  BY DEF StagedRow, AtMost, MarkerOf
<1>2. S \in SUBSET Nat /\ S # {} /\ \A x \in S : x <= bound
  BY <1>1
<1>3. \E m \in S : \A x \in S : x <= m
  <2> HIDE DEF S
  <2> QED
    BY <1>2, GreatestExists
<1>4. \E m \in S : \A row \in staged : MarkerOf(kind, row) <= m
  BY <1>3
<1>5. MaxStaged(kind) \in S
  BY <1>4 DEF MaxStaged
<1> QED
  BY <1>2, <1>5

\* The cursor that a cycle starts from, and the one that it saves, are cursors,
\* and are backed.
LEMMA ComputedCursors ==
  ASSUME staged \subseteq StagedRow, BackedInv
  PROVE  \A kind \in Markers : \A saved \in Cursors :
           /\ CursorToUse(kind, saved) \in Cursors
           /\ Backed(saved) => Backed(CursorToUse(kind, saved))
           /\ CursorToUse(kind, saved) # NoCursor
           /\ HasMax =>
                /\ [space |-> kind, at |-> MaxStaged(kind)] \in Cursors
                /\ Backed([space |-> kind, at |-> MaxStaged(kind)])
<1> SUFFICES ASSUME NEW kind \in Markers, NEW saved \in Cursors
             PROVE  /\ CursorToUse(kind, saved) \in Cursors
                    /\ Backed(saved) => Backed(CursorToUse(kind, saved))
                    /\ CursorToUse(kind, saved) # NoCursor
                    /\ HasMax =>
                         /\ [space |-> kind, at |-> MaxStaged(kind)] \in Cursors
                         /\ Backed([space |-> kind, at |-> MaxStaged(kind)])
  OBVIOUS
<1>1. PICK bound \in Nat : Bounded(bound)
  BY DEF BackedInv
<1>2. ASSUME HasMax
      PROVE  /\ MaxStaged(kind) \in Nat
             /\ \E row \in staged : MarkerOf(kind, row) = MaxStaged(kind)
  <2>1. \A row \in staged : AtMost(bound, row)
    BY <1>1 DEF Bounded
  <2> QED
    BY <1>2, <2>1, MaxStagedIsStaged DEF HasMax
<1>3. ASSUME HasMax
      PROVE  /\ [space |-> kind, at |-> MaxStaged(kind)] \in Cursors
             /\ Backed([space |-> kind, at |-> MaxStaged(kind)])
  BY <1>2, <1>3, CursorTypes DEF Backed
<1>4. [space |-> kind, at |-> 0] \in Cursors /\ Backed([space |-> kind, at |-> 0])
  BY CursorTypes DEF Backed
<1>5. [space |-> kind, at |-> 0] # NoCursor /\ [space |-> kind, at |-> MaxStaged(kind)] # NoCursor
  <2>1. kind # "none"
    BY DEF Markers
  <2> QED
    BY <2>1 DEF NoCursor
<1> QED
  BY <1>3, <1>4, <1>5 DEF CursorToUse

LEMMA NextIdType == NextId \in Nat
<1>1. IsFiniteSet({k \in Keys : source[k].state # "none"})
  BY KeysAssumption, FS_Subset
<1> QED
  BY <1>1, FS_CardinalityType DEF NextId

LEMMA CopyType ==
  ASSUME source \in [Keys -> SourceRow], NEW k \in Keys
  PROVE  CopyOf(k) \in StagedRow
BY DEF CopyOf, SourceRow, StagedRow

-----------------------------------------------------------------------------
IBacked == TypeOK /\ BackedInv

\* The steps that write a cursor: the start of a cycle and its ends.
LEMMA CursorSteps ==
  ASSUME IBacked, NEW r \in Cyclers,
         Start(r) \/ Prepare(r) \/ Succeed(r) \/ SucceedUnknown(r) \/ Fail(r) \/ Abort(r)
  PROVE  IBacked'
<1> USE CursorTypes DEF IBacked, TypeOK, jde, config, cycles, ghosts, Stages, Idle, WriteBack
<1>1. \E bound \in Nat : Bounded(bound)'
  <2>1. PICK bound \in Nat : Bounded(bound)
    BY DEF BackedInv
  <2>2. /\ UNCHANGED <<today, source, staged>>
        /\ \A s \in Cyclers : pulling'[s] \subseteq pulling[s]
    BY DEF Start, Prepare, Succeed, SucceedUnknown, Fail, Abort
  <2> QED
    BY <2>1, <2>2 DEF Bounded
<1>2. cfg[r].marker \in Markers /\ cfg[r].loaded \in Cursors /\ cfg[r].cursor \in Cursors
  OBVIOUS
<1>3. /\ Backed(cursor)
      /\ \A s \in Cyclers : Backed(cfg[s].loaded) /\ Backed(cfg[s].cursor)
  BY DEF BackedInv
<1>4. Backed(NoCfg.loaded) /\ Backed(NoCfg.cursor)
  BY DEF NoCfg, NoCursor, Backed
<1>5. Advanced(r) \in Cursors /\ Backed(Advanced(r))
  BY <1>2, <1>3, ComputedCursors DEF Advanced
<1>6. CASE Start(r)
  <2> DEFINE new == [marker |-> marker, loaded |-> cursor, cursor |-> cursor]
  <2>1. /\ new \in [marker : Markers, loaded : Cursors, cursor : Cursors]
        /\ new.loaded = cursor /\ new.cursor = cursor
    OBVIOUS
  <2> HIDE DEF new
  <2>2. /\ pc' = [pc EXCEPT ![r] = "loaded"]
        /\ cfg' = [cfg EXCEPT ![r] = new]
        /\ safe' \in BOOLEAN
        /\ UNCHANGED <<jde, staged, config, pulling, ragged, used>>
    BY <1>6 DEF Start, new
  <2>3. TypeOK'
    BY <2>1, <2>2
  <2>4. Backed(cursor)' /\ \A s \in Cyclers : Backed(cfg[s].loaded)' /\ Backed(cfg[s].cursor)'
    BY <1>3, <2>1, <2>2 DEF Backed
  <2> QED
    BY <1>1, <2>3, <2>4 DEF BackedInv
<1>7. CASE Prepare(r)
  <2> DEFINE use == CursorToUse(cfg[r].marker, cfg[r].loaded)
  <2> DEFINE new == [marker |-> cfg[r].marker, loaded |-> cfg[r].loaded, cursor |-> use]
  <2>1. use \in Cursors /\ Backed(use)
    BY <1>2, <1>3, ComputedCursors
  <2> HIDE DEF use
  <2>2. /\ new \in [marker : Markers, loaded : Cursors, cursor : Cursors]
        /\ new.loaded = cfg[r].loaded /\ new.cursor = use
    BY <1>2, <2>1
  <2> HIDE DEF new
  <2>3. /\ pc' = [pc EXCEPT ![r] = "started"]
        /\ cfg' = [cfg EXCEPT ![r] = new]
        /\ UNCHANGED <<jde, staged, config, pulling, ghosts>>
    BY <1>7 DEF Prepare, new, use
  <2>4. TypeOK'
    BY <2>2, <2>3
  <2>5. Backed(cursor)' /\ \A s \in Cyclers : Backed(cfg[s].loaded)' /\ Backed(cfg[s].cursor)'
    BY <1>3, <2>1, <2>2, <2>3 DEF Backed
  <2> QED
    BY <1>1, <2>4, <2>5 DEF BackedInv
<1>8. CASE Succeed(r) \/ SucceedUnknown(r) \/ Fail(r) \/ Abort(r)
  <2>1. /\ pc' = [pc EXCEPT ![r] = "idle"]
        /\ cfg' = [cfg EXCEPT ![r] = NoCfg]
        /\ pulling' = [pulling EXCEPT ![r] = {}]
        /\ cursor' \in {cursor, Advanced(r), cfg[r].cursor}
        /\ ragged' \in BOOLEAN /\ safe' \in BOOLEAN
        /\ UNCHANGED <<jde, staged, marker, resetting, used>>
    BY <1>8 DEF Succeed, SucceedUnknown, Fail, Abort
  <2>2. TypeOK'
    BY <1>2, <1>5, <2>1
  <2>3. Backed(cursor')
    BY <1>3, <1>5, <2>1
  <2>4. Backed(cursor)' /\ \A s \in Cyclers : Backed(cfg[s].loaded)' /\ Backed(cfg[s].cursor)'
    BY <1>3, <1>4, <2>1, <2>3 DEF Backed
  <2> QED
    BY <1>1, <2>2, <2>4 DEF BackedInv
<1> QED
  BY <1>6, <1>7, <1>8

\* The steps that bring rows along.
LEMMA PullSteps ==
  ASSUME IBacked, NEW r \in Cyclers, Query(r) \/ Insert(r)
  PROVE  IBacked'
<1> USE DEF IBacked, TypeOK, jde, config, cycles, ghosts, Stages
<1>0. PICK bound \in Nat : Bounded(bound)
  BY DEF BackedInv
<1>1. CASE Query(r)
  <2> DEFINE asked == {CopyOf(k) : k \in {j \in Visible :
                         Matches(cfg[r].marker, cfg[r].cursor.at, source[j])}}
  <2>1. asked \subseteq StagedRow /\ \A row \in asked : AtMost(bound, row)
    <3>1. \A k \in Keys : CopyOf(k) \in StagedRow /\ AtMost(bound, CopyOf(k))
      BY <1>0, CopyType DEF Bounded, AtMost, CopyOf
    <3> QED
      BY <3>1 DEF Visible
  <2> HIDE DEF asked
  <2>2. /\ pc' = [pc EXCEPT ![r] = "pulling"]
        /\ pulling' = [pulling EXCEPT ![r] = asked]
        /\ UNCHANGED <<jde, staged, config, cfg, ghosts>>
    BY <1>1 DEF Query, asked
  <2>3. TypeOK'
    BY <2>1, <2>2
  <2>4. Bounded(bound)'
    BY <1>0, <2>1, <2>2 DEF Bounded
  <2> QED
    BY <2>2, <2>3, <2>4 DEF BackedInv, Backed
<1>2. CASE Insert(r)
  <2>1. PICK rows \in SUBSET pulling[r] :
          /\ staged' = staged \cup {row \in rows : row.key \notin StagedKeys}
          /\ pulling' = [pulling EXCEPT ![r] = @ \ rows]
    BY <1>2 DEF Insert
  <2>2. UNCHANGED <<jde, config, pc, cfg, ghosts>>
    BY <1>2 DEF Insert
  <2>3. staged \subseteq staged' /\ staged' \subseteq staged \cup pulling[r]
    BY <2>1
  <2>4. TypeOK'
    BY <2>1, <2>2, <2>3
  <2>5. Bounded(bound)'
    BY <1>0, <2>1, <2>2, <2>3 DEF Bounded
  <2>6. Backed(cursor)' /\ \A s \in Cyclers : Backed(cfg[s].loaded)' /\ Backed(cfg[s].cursor)'
    BY <2>2, <2>3 DEF BackedInv, Backed
  <2> QED
    BY <2>4, <2>5, <2>6 DEF BackedInv
<1> QED
  BY <1>1, <1>2

LEMMA OperatorSteps == ASSUME IBacked, Operator PROVE IBacked'
<1> USE CursorTypes DEF IBacked, TypeOK, jde, config, cycles, ghosts, Stages
<1>1. \E bound \in Nat : Bounded(bound)'
  <2>1. PICK bound \in Nat : Bounded(bound)
    BY DEF BackedInv
  <2>2. UNCHANGED <<today, source, staged, pulling>>
    BY DEF Operator, ChangeMarker, ResetCursor, LoseReset
  <2> QED
    BY <2>1, <2>2 DEF Bounded
<1>2. cursor' \in {cursor, NoCursor} /\ UNCHANGED <<cfg, staged>>
  BY DEF Operator, ChangeMarker, ResetCursor, LoseReset
<1>3. TypeOK'
  BY <1>2 DEF Operator, ChangeMarker, ResetCursor, LoseReset
<1>4. Backed(cursor)' /\ \A s \in Cyclers : Backed(cfg[s].loaded)' /\ Backed(cfg[s].cursor)'
  BY <1>2 DEF BackedInv, Backed, NoCursor
<1> QED
  BY <1>1, <1>3, <1>4 DEF BackedInv

LEMMA JDESteps == ASSUME IBacked, JDE PROVE IBacked'
<1> USE Dates DEF IBacked, TypeOK, jde, config, cycles, ghosts, Stages
<1>0. PICK bound \in Nat : Bounded(bound)
  BY DEF BackedInv
<1>00. Julian[today] \in Nat /\ NextId \in Nat
  BY Dates, NextIdType
<1>1. UNCHANGED <<staged, config, cycles, ghosts>>
  BY DEF JDE, DayEnds, OpenRow, CommitRow, UpdateRow
<1>2. Backed(cursor)' /\ \A s \in Cyclers : Backed(cfg[s].loaded)' /\ Backed(cfg[s].cursor)'
  BY <1>1 DEF BackedInv, Backed
<1>3. ASSUME NEW k \in Keys, NEW new \in SourceRow, source' = [source EXCEPT ![k] = new],
             today' = today, AtMost(bound + Julian[today] + NextId, new)
      PROVE  IBacked'
  <2>1. TypeOK'
    BY <1>1, <1>3
  <2>2. PICK more \in Nat : more = bound + Julian[today] + NextId
    BY <1>00
  <2>3. \A row : row.day \in Nat /\ row.id \in Nat
                  /\ AtMost(bound, row)
                    => AtMost(more, row)
    BY <1>00, <2>2 DEF AtMost
  <2>4. /\ \A j \in Keys : source[j].day \in Nat /\ source[j].id \in Nat
        /\ \A row \in staged : row.day \in Nat /\ row.id \in Nat
        /\ \A r \in Cyclers : \A row \in pulling[r] : row.day \in Nat /\ row.id \in Nat
        /\ new.day \in Nat /\ new.id \in Nat
    BY <1>3 DEF SourceRow, StagedRow
  <2>5. /\ \A j \in Keys : AtMost(more, source[j])
        /\ AtMost(more, new)
        /\ \A row \in staged : AtMost(more, row)
        /\ \A r \in Cyclers : \A row \in pulling[r] : AtMost(more, row)
    BY <1>0, <1>3, <2>2, <2>3, <2>4 DEF Bounded
  <2>7. Bounded(more)'
    BY <1>1, <1>3, <2>5 DEF Bounded
  <2> QED
    BY <1>2, <2>1, <2>7 DEF BackedInv
<1>4. ASSUME NEW k \in Keys, OpenRow(k) PROVE IBacked'
  <2> DEFINE new == [state |-> "open", day |-> Julian[today], id |-> NextId, version |-> 1,
                     late |-> FALSE, crossed |-> FALSE]
  <2>1. new \in SourceRow /\ AtMost(bound + Julian[today] + NextId, new)
    BY <1>00 DEF SourceRow, AtMost
  <2>2. source' = [source EXCEPT ![k] = new] /\ today' = today
    BY <1>4 DEF OpenRow
  <2> HIDE DEF new
  <2> QED
    BY <1>3, <2>1, <2>2
<1>5. ASSUME NEW k \in Keys, CommitRow(k) PROVE IBacked'
  <2> DEFINE new == [state |-> "visible", day |-> source[k].day, id |-> source[k].id,
                     version |-> 1, late |-> \E j \in Visible : source[j].id > source[k].id,
                     crossed |-> Year(source[k].day) # Year(Julian[today])]
  <2>1. new \in SourceRow /\ AtMost(bound + Julian[today] + NextId, new)
    BY <1>0, <1>00 DEF SourceRow, AtMost, Bounded
  <2>2. source' = [source EXCEPT ![k] = new] /\ today' = today
    BY <1>5 DEF CommitRow
  <2> HIDE DEF new
  <2> QED
    BY <1>3, <2>1, <2>2
<1>6. ASSUME NEW k \in Keys, UpdateRow(k) PROVE IBacked'
  <2> DEFINE new == [state |-> "visible", day |-> Julian[today], id |-> source[k].id,
                     version |-> source[k].version + 1,
                     late |-> source[k].late, crossed |-> source[k].crossed]
  <2>1. new \in SourceRow /\ AtMost(bound + Julian[today] + NextId, new)
    BY <1>0, <1>00 DEF SourceRow, AtMost, Bounded
  <2>2. source' = [source EXCEPT ![k] = new] /\ today' = today
    BY <1>6 DEF UpdateRow
  <2> HIDE DEF new
  <2> QED
    BY <1>3, <2>1, <2>2
<1>7. CASE DayEnds
  <2>1. TypeOK' /\ UNCHANGED <<source, staged, pulling>> /\ today' = today + 1
    BY <1>7 DEF DayEnds
  <2>2. Bounded(bound)'
    BY <1>0, <2>1 DEF Bounded
  <2> QED
    BY <1>2, <2>1, <2>2 DEF BackedInv
<1> QED
  BY <1>4, <1>5, <1>6, <1>7 DEF JDE

LEMMA BackedIsInductive == Spec => []IBacked
<1>1. Init => IBacked
  <2> SUFFICES ASSUME Init PROVE IBacked
    OBVIOUS
  <2>1. PICK base \in {{}} \cup {{k} : k \in Keys} :
          /\ source = [k \in Keys |->
                         IF k \in base
                           THEN [state |-> "visible", day |-> Julian[1], id |-> 1,
                                 version |-> 1, late |-> FALSE, crossed |-> FALSE]
                           ELSE NoSource]
          /\ staged = {[key |-> k, day |-> Julian[1], id |-> 1, version |-> 1] : k \in base}
    BY DEF Init
  <2>2. base \subseteq Keys
    OBVIOUS
  <2>3. \A k \in Keys : source[k] \in SourceRow /\ AtMost(1 + Julian[1], source[k])
    BY <2>1, Dates DEF SourceRow, NoSource, AtMost
  <2>4. source \in [Keys -> SourceRow]
    BY <2>1, <2>3
  <2>5. staged \subseteq StagedRow /\ \A row \in staged : AtMost(1 + Julian[1], row)
    BY <2>1, <2>2, Dates DEF StagedRow, AtMost
  <2>6. TypeOK
    BY <2>4, <2>5, CursorTypes, Dates DEF Init, TypeOK, Stages
  <2>7. \E bound \in Nat : Bounded(bound)
    <3>1. PICK bound \in Nat : bound = 1 + Julian[1]
      BY Dates
    <3>2. \A r \in Cyclers : pulling[r] = {}
      BY DEF Init
    <3> QED
      BY <2>3, <2>5, <3>1, <3>2 DEF Bounded
  <2>8. Backed(cursor) /\ \A s \in Cyclers : Backed(cfg[s].loaded) /\ Backed(cfg[s].cursor)
    BY DEF Init, Backed, NoCfg, NoCursor
  <2> QED
    BY <2>6, <2>7, <2>8 DEF IBacked, BackedInv
<1>2. IBacked /\ [Next]_vars => IBacked'
  <2> SUFFICES ASSUME IBacked, [Next]_vars PROVE IBacked'
    OBVIOUS
  <2>1. ASSUME NEW r \in Cyclers, Start(r) \/ Cycle(r) PROVE IBacked'
    BY <2>1, CursorSteps, PullSteps DEF Cycle
  <2>2. CASE UNCHANGED vars
    BY <2>2 DEF vars, jde, config, cycles, ghosts, IBacked, TypeOK, BackedInv, Bounded, Backed
  <2> QED
    BY <2>1, <2>2, OperatorSteps, JDESteps DEF Next
<1> QED
  BY <1>1, <1>2, PTL DEF Spec

-----------------------------------------------------------------------------
(***************************************************************************)
(* Every variable keeps its type, the cursor's value space included.       *)
(***************************************************************************)
THEOREM TypeInvariant == Spec => []TypeOK
<1>1. IBacked => TypeOK
  BY DEF IBacked
<1> QED
  BY <1>1, BackedIsInductive, PTL

(***************************************************************************)
(* The saved cursor is 0 or the marker of a staged row, for any number of  *)
(* cyclers, keys and days, whatever overlaps or fails.                     *)
(***************************************************************************)
THEOREM CursorIsBacked == Spec => []CursorIsStaged
<1>1. IBacked => CursorIsStaged
  BY DEF IBacked, BackedInv, CursorIsStaged
<1> QED
  BY <1>1, BackedIsInductive, PTL

-----------------------------------------------------------------------------
\* A cycle that ends writes back a cursor of the marker's space, or none.
LEMMA EndsKeepSpace ==
  ASSUME TypeOK, SpaceInv, NEW r \in Cyclers,
         Succeed(r) \/ SucceedUnknown(r) \/ Fail(r) \/ Abort(r)
  PROVE  SpaceInv'
<1> SUFFICES ASSUME safe' PROVE SpaceInv'
  BY DEF SpaceInv
<1> USE DEF jde, config, cycles, ghosts, TypeOK, Stages, Idle, WriteBack, OfMarker
<1>1. safe /\ r \in InCycle
  BY DEF Succeed, SucceedUnknown, Fail, Abort, InCycle
<1>2. /\ pc' = [pc EXCEPT ![r] = "idle"]
      /\ cfg' = [cfg EXCEPT ![r] = NoCfg]
      /\ UNCHANGED <<marker, resetting>>
      /\ cursor' \in {cursor, Advanced(r), cfg[r].cursor}
  BY DEF Succeed, SucceedUnknown, Fail, Abort
<1>3. ~resetting /\ OfMarker(marker, cursor) /\ cfg[r].marker = marker
      /\ OfMarker(marker, cfg[r].cursor)
  BY <1>1 DEF SpaceInv
<1>4. OfMarker(marker, Advanced(r))
  BY <1>3 DEF Advanced
<1>5. OfMarker(marker, cursor)'
  BY <1>2, <1>3, <1>4
<1>6. InCycle' \subseteq InCycle \ {r} /\ \A s \in InCycle' : cfg'[s] = cfg[s] /\ pc'[s] = pc[s]
  BY <1>2 DEF InCycle
<1> QED
  BY <1>1, <1>2, <1>5, <1>6 DEF SpaceInv

LEMMA SpaceIsInductive == Spec => []SpaceInv
<1>1. Init => SpaceInv
  BY DEF Init, SpaceInv, OfMarker, InCycle
<1>2. TypeOK /\ SpaceInv /\ [Next]_vars => SpaceInv'
  <2> SUFFICES ASSUME TypeOK, SpaceInv, [Next]_vars, safe' PROVE SpaceInv'
    BY DEF SpaceInv
  <2> USE DEF jde, config, cycles, ghosts
  <2>1. ASSUME NEW r \in Cyclers, Start(r) PROVE SpaceInv'
    <3>1. safe /\ InCycle = {} /\ ~resetting
      BY <2>1 DEF Start
    <3>2. OfMarker(marker, cursor)
      BY <3>1 DEF SpaceInv
    <3> DEFINE new == [marker |-> marker, loaded |-> cursor, cursor |-> cursor]
    <3>3. new.marker = marker /\ new.loaded = cursor /\ new.cursor = cursor
      OBVIOUS
    <3> HIDE DEF new
    <3>4. /\ pc' = [pc EXCEPT ![r] = "loaded"] /\ cfg' = [cfg EXCEPT ![r] = new]
          /\ UNCHANGED <<marker, cursor, resetting>>
      BY <2>1 DEF Start, new
    <3>5. InCycle' = {r} /\ pc'[r] = "loaded" /\ cfg'[r] = new
      BY <3>1, <3>4 DEF InCycle, TypeOK
    <3> QED
      BY <3>1, <3>2, <3>3, <3>4, <3>5 DEF SpaceInv, OfMarker
  <2>2. ASSUME NEW r \in Cyclers, Prepare(r) PROVE SpaceInv'
    <3>1. safe /\ r \in InCycle /\ pc[r] = "loaded"
      BY <2>2 DEF Prepare, InCycle
    <3>2. /\ ~resetting /\ OfMarker(marker, cursor) /\ cfg[r].marker = marker
          /\ OfMarker(marker, cfg[r].loaded)
      BY <3>1 DEF SpaceInv
    <3>3. CursorToUse(marker, cfg[r].loaded).space = marker
      BY <3>2 DEF CursorToUse, OfMarker
    <3> DEFINE new == [marker |-> cfg[r].marker, loaded |-> cfg[r].loaded,
                       cursor |-> CursorToUse(cfg[r].marker, cfg[r].loaded)]
    <3>4. new.marker = marker /\ new.cursor.space = marker
      BY <3>2, <3>3
    <3> HIDE DEF new
    <3>5. /\ pc' = [pc EXCEPT ![r] = "started"] /\ cfg' = [cfg EXCEPT ![r] = new]
          /\ UNCHANGED <<marker, cursor, resetting>>
      BY <2>2 DEF Prepare, new
    <3>6. /\ InCycle' = InCycle /\ pc'[r] = "started" /\ cfg'[r] = new
          /\ \A s \in InCycle \ {r} : pc'[s] = pc[s] /\ cfg'[s] = cfg[s]
      BY <3>1, <3>5 DEF InCycle, TypeOK
    <3> QED
      BY <3>1, <3>2, <3>4, <3>5, <3>6 DEF SpaceInv, OfMarker
  <2>3. ASSUME NEW r \in Cyclers, Query(r) PROVE SpaceInv'
    <3>1. /\ safe /\ r \in InCycle /\ pc[r] = "started" /\ pc' = [pc EXCEPT ![r] = "pulling"]
          /\ UNCHANGED <<marker, cursor, resetting, cfg>>
      BY <2>3 DEF Query, InCycle
    <3>2. /\ InCycle' = InCycle /\ pc'[r] = "pulling"
          /\ \A s \in InCycle \ {r} : pc'[s] = pc[s]
      BY <3>1 DEF InCycle, TypeOK
    <3> QED
      BY <3>1, <3>2 DEF SpaceInv, OfMarker
  <2>4. CASE UNCHANGED <<config, pc, cfg, safe>>
    BY <2>4 DEF SpaceInv, OfMarker, InCycle
  <2>5. ASSUME NEW r \in Cyclers, Insert(r) PROVE SpaceInv'
    BY <2>4, <2>5 DEF Insert
  <2>6. CASE Operator
    <3>1. UNCHANGED <<pc, cfg>> /\ InCycle' = InCycle
      BY <2>6 DEF Operator, ChangeMarker, ResetCursor, LoseReset, InCycle
    <3>2. CASE ChangeMarker
      <4>1. safe /\ InCycle = {}
        BY <3>2 DEF ChangeMarker
      <4>2. resetting' \/ cursor' = NoCursor
        BY <3>2 DEF ChangeMarker
      <4> QED
        BY <3>1, <4>1, <4>2 DEF SpaceInv, OfMarker
    <3>3. CASE ResetCursor
      <4>1. safe /\ InCycle = {} /\ cursor' = NoCursor /\ ~resetting'
        BY <3>3 DEF ResetCursor, SpaceInv
      <4> QED
        BY <3>1, <4>1 DEF SpaceInv, OfMarker
    <3>4. CASE LoseReset
      BY <3>4 DEF LoseReset
    <3> QED
      BY <2>6, <3>2, <3>3, <3>4 DEF Operator
  <2>7. CASE JDE
    BY <2>4, <2>7 DEF JDE, DayEnds, OpenRow, CommitRow, UpdateRow
  <2>8. CASE UNCHANGED vars
    BY <2>4, <2>8 DEF vars
  <2> QED
    BY <2>1, <2>2, <2>3, <2>5, <2>6, <2>7, <2>8, EndsKeepSpace DEF Next, Cycle
<1> QED
  BY <1>1, <1>2, TypeInvariant, PTL DEF Spec

(***************************************************************************)
(* Unless a cycle runs during put_config or its reset is lost, no cycle    *)
(* compares one marker with a cursor of the other, for any number of       *)
(* cyclers, keys and days.                                                 *)
(***************************************************************************)
THEOREM CursorFollowsMarker == Spec => []CursorInSpaceWhenSafe
<1>1. TypeOK /\ SpaceInv => CursorInSpaceWhenSafe
  <2> SUFFICES ASSUME TypeOK, SpaceInv, safe, NEW r \in Cyclers,
                      pc[r] \in {"started", "pulling"}
               PROVE  cfg[r].cursor.space = cfg[r].marker
    BY DEF CursorInSpaceWhenSafe, CursorInSpace
  <2>1. r \in InCycle
    BY DEF InCycle
  <2> QED
    BY <2>1 DEF SpaceInv
<1> QED
  BY <1>1, SpaceIsInductive, TypeInvariant, PTL

-----------------------------------------------------------------------------
(* NothingMissed is an invariant.  A claimed row is ahead of every copied  *)
(* one when it becomes visible: its day is at most Lookback days past, and *)
(* so is its CYYDDD number unless the year has changed; its id is the      *)
(* greatest.  From then on each cursor that is saved or computed *)
(* is the marker of a copied row that is not past it, unless the row is    *)
(* about to be pulled; and a pull that leaves rows behind leaves its       *)
(* cursor, too.                                                            *)

LEMMA DataTypes ==
  ASSUME TypeOK
  PROVE  /\ today \in 1..MaxDay /\ Julian[today] \in Nat /\ Lookback \in Nat
         /\ \A k \in Keys : source[k].day \in Nat /\ source[k].id \in Nat
         /\ \A row \in staged : row.key \in Keys /\ row.day \in Nat /\ row.id \in Nat
         /\ \A r \in Cyclers : \A row \in pulling[r] :
              row.key \in Keys /\ row.day \in Nat /\ row.id \in Nat
BY Dates DEF TypeOK, SourceRow, StagedRow

\* An id goes to one row only, and the next row gets the next id.
LEMMA NextIdStep ==
  ASSUME NEW k \in Keys, NEW new, new.state # "none",
         source \in [Keys -> SourceRow], source' = [source EXCEPT ![k] = new]
  PROVE  NextId' = IF Known(k) THEN NextId ELSE NextId + 1
<1> DEFINE known == {j \in Keys : source[j].state # "none"}
<1>1. IsFiniteSet(known) /\ Cardinality(known) \in Nat
  BY KeysAssumption, FS_Subset, FS_CardinalityType
<1>2. {j \in Keys : source'[j].state # "none"} = known \cup {k}
  OBVIOUS
<1>3. Cardinality(known \cup {k}) = IF Known(k) THEN Cardinality(known) ELSE Cardinality(known) + 1
  BY <1>1, FS_AddElement DEF Known
<1> HIDE DEF known
<1>4. NextId' = 1 + Cardinality(known \cup {k})
  BY <1>2 DEF NextId
<1>5. NextId = 1 + Cardinality(known)
  BY DEF NextId, known
<1> QED
  BY <1>1, <1>3, <1>4, <1>5

\* The steps that leave the view alone copy visible rows, if any.
LEMMA RowsOfCycles ==
  ASSUME TypeOK, RowInv, UNCHANGED <<today, source>>,
         \A row \in staged' : HasOrigin(row),
         \A r \in Cyclers : \A row \in pulling'[r] : HasOrigin(row)
  PROVE  RowInv'
<1>1. NextId' = NextId
  BY DEF NextId
<1>2. \A row : HasOrigin(row)' <=> HasOrigin(row)
  BY DEF HasOrigin
<1> QED
  BY <1>1, <1>2 DEF RowInv, Known

\* A row of the view that changes, and keeps its id if it had one.
LEMMA RowsOfView ==
  ASSUME TypeOK, RowInv, UNCHANGED <<today, staged, pulling>>,
         NEW k \in Keys, NEW new \in SourceRow, source' = [source EXCEPT ![k] = new],
         new.state # "none", new.day <= Julian[today],
         Recent(new, today) \/ new.state # "open",
         new.id = IF Known(k) THEN source[k].id ELSE NextId,
         source[k].state = "visible" => new.state = "visible"
  PROVE  RowInv'
<1>a. source \in [Keys -> SourceRow]
  BY DEF TypeOK
<1>b. NextId \in Nat /\ NextId' = IF Known(k) THEN NextId ELSE NextId + 1
  BY <1>a, NextIdStep, NextIdType
<1>0. NextId' \in Nat /\ NextId <= NextId'
  BY <1>b
<1>1. source'[k] = new /\ \A j \in Keys : j # k => source'[j] = source[j]
  BY <1>a
<1>2. NextId > 0 /\ \A j \in Keys : source[j].id \in Nat
  <2>1. IsFiniteSet({j \in Keys : source[j].state # "none"})
    BY KeysAssumption, FS_Subset
  <2>2. NextId > 0
    BY <2>1, FS_CardinalityType DEF NextId
  <2> QED
    BY <2>2, DataTypes
<1>3. \A j \in Keys : Known(j)' => Known(j) \/ j = k
  BY <1>1 DEF Known
<1>4. \A j \in Keys : Known(j)' => 0 < source'[j].id /\ source'[j].id < NextId'
  BY <1>b, <1>0, <1>1, <1>2, <1>3 DEF RowInv, Known
<1>5. ASSUME NEW i \in Keys, NEW j \in Keys, Known(i)', Known(j)', source'[i].id = source'[j].id
      PROVE  i = j
  <2>1. CASE i # k /\ j # k
    BY <1>1, <1>5, <2>1 DEF RowInv, Known
  <2>2. CASE i = k /\ j # k
    BY <1>1, <1>2, <1>5, <2>2 DEF RowInv, Known
  <2>3. CASE i # k /\ j = k
    BY <1>1, <1>2, <1>5, <2>3 DEF RowInv, Known
  <2> QED
    BY <2>1, <2>2, <2>3
<1>6. \A j \in Keys : /\ source'[j].state = "open" => Recent(source[j], today)'
                      /\ source'[j].day <= Julian[today']
  BY <1>1 DEF RowInv, Recent
<1>7. ASSUME NEW row, row.key \in Keys, HasOrigin(row) PROVE HasOrigin(row)'
  BY <1>1, <1>7 DEF HasOrigin, Known
<1>8. (\A row \in staged : HasOrigin(row)') /\ (\A r \in Cyclers : \A row \in pulling[r] : HasOrigin(row)')
  BY <1>7, DataTypes DEF RowInv
<1> QED
  BY <1>4, <1>5, <1>6, <1>8 DEF RowInv

LEMMA RowStep == TypeOK /\ RowInv /\ [Next]_vars => RowInv'
<1> SUFFICES ASSUME TypeOK, RowInv, [Next]_vars PROVE RowInv'
  OBVIOUS
<1> USE DEF jde, config, cycles, ghosts
<1>1. ASSUME NEW r \in Cyclers, Start(r) \/ Prepare(r) \/ Succeed(r) \/ SucceedUnknown(r)
                                  \/ Fail(r) \/ Abort(r)
      PROVE  RowInv'
  <2>1. UNCHANGED <<today, source, staged>> /\ \A s \in Cyclers : pulling'[s] \subseteq pulling[s]
    BY <1>1 DEF TypeOK, Start, Prepare, Succeed, SucceedUnknown, Fail, Abort, Idle
  <2> QED
    BY <2>1, RowsOfCycles DEF RowInv
<1>2. ASSUME NEW r \in Cyclers, Query(r) PROVE RowInv'
  <2>1. /\ UNCHANGED <<today, source, staged>>
        /\ \A s \in Cyclers : \A row \in pulling'[s] :
             row \in pulling[s] \/ \E k \in Visible : row = CopyOf(k)
    BY <1>2 DEF Query, TypeOK
  <2>2. \A k \in Visible : HasOrigin(CopyOf(k))
    BY DEF RowInv, Visible, HasOrigin, CopyOf
  <2> QED
    BY <2>1, <2>2, RowsOfCycles DEF RowInv
<1>3. ASSUME NEW r \in Cyclers, Insert(r) PROVE RowInv'
  <2>1. /\ UNCHANGED <<today, source>> /\ staged' \subseteq staged \cup pulling[r]
        /\ \A s \in Cyclers : pulling'[s] \subseteq pulling[s]
    BY <1>3 DEF Insert, TypeOK
  <2> QED
    BY <2>1, RowsOfCycles DEF RowInv
<1>4. CASE Operator \/ UNCHANGED vars
  <2>1. UNCHANGED <<today, source, staged, pulling>>
    BY <1>4 DEF Operator, ChangeMarker, ResetCursor, LoseReset, vars
  <2> QED
    BY <2>1, RowsOfCycles DEF RowInv
<1>5. ASSUME NEW k \in Keys, OpenRow(k) PROVE RowInv'
  <2> DEFINE new == [state |-> "open", day |-> Julian[today], id |-> NextId, version |-> 1,
                     late |-> FALSE, crossed |-> FALSE]
  <2>1. /\ new \in SourceRow /\ new.state = "open" /\ new.day = Julian[today]
        /\ new.id = NextId /\ Recent(new, today)
    BY NextIdType, DataTypes, Dates DEF SourceRow, Recent
  <2>2. /\ source' = [source EXCEPT ![k] = new] /\ UNCHANGED <<today, staged, pulling>>
        /\ source[k].state = "none"
    BY <1>5 DEF OpenRow
  <2> HIDE DEF new
  <2>3. new.day <= Julian[today] /\ ~Known(k)
    BY <2>1, <2>2, DataTypes DEF Known
  <2> QED
    BY <2>1, <2>2, <2>3, RowsOfView DEF Known
<1>6. ASSUME NEW k \in Keys, CommitRow(k) PROVE RowInv'
  <2> DEFINE new == [state |-> "visible", day |-> source[k].day, id |-> source[k].id,
                     version |-> 1, late |-> \E j \in Visible : source[j].id > source[k].id,
                     crossed |-> Year(source[k].day) # Year(Julian[today])]
  <2>1. /\ new \in SourceRow /\ new.state = "visible" /\ new.day = source[k].day
        /\ new.id = source[k].id
    BY DataTypes DEF SourceRow
  <2>2. /\ source' = [source EXCEPT ![k] = new] /\ UNCHANGED <<today, staged, pulling>>
        /\ source[k].state = "open"
    BY <1>6 DEF CommitRow
  <2> HIDE DEF new
  <2>3. source[k].day <= Julian[today]
    BY DEF RowInv
  <2> QED
    BY <2>1, <2>2, <2>3, RowsOfView DEF Known
<1>7. ASSUME NEW k \in Keys, UpdateRow(k) PROVE RowInv'
  <2> DEFINE new == [state |-> "visible", day |-> Julian[today], id |-> source[k].id,
                     version |-> source[k].version + 1,
                     late |-> source[k].late, crossed |-> source[k].crossed]
  <2>1. /\ new \in SourceRow /\ new.state = "visible" /\ new.day = Julian[today]
        /\ new.id = source[k].id
    BY Dates DEF SourceRow, TypeOK
  <2>2. /\ source' = [source EXCEPT ![k] = new] /\ UNCHANGED <<today, staged, pulling>>
        /\ source[k].state = "visible"
    BY <1>7 DEF UpdateRow
  <2> HIDE DEF new
  <2>3. new.day <= Julian[today] /\ Known(k)
    BY <2>1, <2>2, DataTypes DEF Known
  <2> QED
    BY <2>1, <2>2, <2>3, RowsOfView DEF Known
<1>8. CASE DayEnds
  <2>1. /\ UNCHANGED <<source, staged, pulling>> /\ today' = today + 1 /\ today < MaxDay
        /\ \A k \in Keys : source[k].state = "open" => Recent(source[k], today)'
    BY <1>8 DEF DayEnds, Recent
  <2>2. NextId' = NextId
    BY <2>1 DEF NextId
  <2>3. /\ Julian[today] <= Julian[today'] /\ Julian[today] \in Nat /\ Julian[today'] \in Nat
    <3>1. today \in 1..MaxDay /\ today' \in 1..MaxDay /\ today <= today'
      BY <2>1, Dates DEF TypeOK
    <3> QED
      BY <3>1, JulianAssumption, Dates
  <2>4. \A row \in staged : HasOrigin(row)'
    BY <2>1, <2>3, DataTypes DEF RowInv, HasOrigin
  <2>5. \A r \in Cyclers : \A row \in pulling[r] : HasOrigin(row)'
    BY <2>1, <2>3, DataTypes DEF RowInv, HasOrigin
  <2>6. \A k \in Keys : source[k].day <= Julian[today']
    BY <2>1, <2>3, DataTypes DEF RowInv
  <2> QED
    BY <2>1, <2>2, <2>4, <2>5, <2>6 DEF RowInv, Known
<1> QED
  BY <1>1, <1>2, <1>3, <1>4, <1>5, <1>6, <1>7, <1>8 DEF Next, Cycle, JDE

\* While nothing unsafe happens, one cycle at a time is under way.
LEMMA AloneStep == TypeOK /\ SpaceInv /\ AloneInv /\ [Next]_vars => AloneInv'
<1> SUFFICES ASSUME TypeOK, SpaceInv, AloneInv, [Next]_vars, safe' PROVE AloneInv'
  BY DEF AloneInv
<1> USE DEF jde, config, cycles, ghosts
<1>0. safe
  BY DEF Next, Cycle, Operator, JDE, Start, Prepare, Query, Insert, Succeed, SucceedUnknown, Fail,
     Abort, ChangeMarker, ResetCursor, LoseReset, DayEnds, OpenRow, CommitRow, UpdateRow, vars
<1>1. ASSUME NEW r \in Cyclers, Start(r) PROVE AloneInv'
  <2> DEFINE new == [marker |-> marker, loaded |-> cursor, cursor |-> cursor]
  <2>1. new.loaded = cursor
    OBVIOUS
  <2> HIDE DEF new
  <2>2. /\ InCycle = {} /\ (cursor = NoCursor => ~ragged)
        /\ pc' = [pc EXCEPT ![r] = "loaded"] /\ cfg' = [cfg EXCEPT ![r] = new]
        /\ UNCHANGED <<cursor, ragged>>
    BY <1>1 DEF Start, new
  <2>3. InCycle' = {r} /\ cfg'[r] = new
    BY <2>2 DEF InCycle, TypeOK
  <2> QED
    BY <2>1, <2>2, <2>3 DEF AloneInv
<1>2. ASSUME NEW r \in Cyclers, Prepare(r) PROVE AloneInv'
  <2> DEFINE new == [marker |-> cfg[r].marker, loaded |-> cfg[r].loaded,
                     cursor |-> CursorToUse(cfg[r].marker, cfg[r].loaded)]
  <2>1. new.loaded = cfg[r].loaded
    OBVIOUS
  <2> HIDE DEF new
  <2>2. /\ pc[r] = "loaded" /\ pc' = [pc EXCEPT ![r] = "started"]
        /\ cfg' = [cfg EXCEPT ![r] = new] /\ UNCHANGED <<cursor, ragged>>
    BY <1>2 DEF Prepare, new
  <2>3. InCycle' = InCycle /\ \A s \in Cyclers : cfg'[s].loaded = cfg[s].loaded
    BY <2>1, <2>2 DEF InCycle, TypeOK
  <2> QED
    BY <1>0, <2>2, <2>3 DEF AloneInv, InCycle
<1>3. ASSUME NEW r \in Cyclers, Query(r) \/ Insert(r) PROVE AloneInv'
  <2>1. UNCHANGED <<cursor, ragged, cfg>> /\ InCycle' = InCycle
    BY <1>3 DEF Query, Insert, InCycle, TypeOK
  <2> QED
    BY <1>0, <2>1 DEF AloneInv
<1>4. ASSUME NEW r \in Cyclers, Succeed(r) \/ SucceedUnknown(r) \/ Fail(r) \/ Abort(r)
      PROVE  AloneInv'
  <2>1. r \in InCycle /\ InCycle' = InCycle \ {r}
    BY <1>4 DEF Succeed, SucceedUnknown, Fail, Abort, Idle, InCycle, TypeOK
  <2>2. InCycle' = {}
    BY <1>0, <2>1 DEF AloneInv
  <2> QED
    BY <2>2 DEF AloneInv
<1>5. CASE Operator
  <2>1. InCycle' = InCycle /\ InCycle = {}
    BY <1>0, <1>5 DEF Operator, ChangeMarker, ResetCursor, LoseReset, InCycle, SpaceInv
  <2> QED
    BY <2>1 DEF AloneInv
<1>6. CASE JDE \/ UNCHANGED vars
  <2>1. UNCHANGED <<cursor, ragged, cfg, pc>>
    BY <1>6 DEF JDE, DayEnds, OpenRow, CommitRow, UpdateRow, vars
  <2> QED
    BY <1>0, <2>1 DEF AloneInv, InCycle
<1> QED
  BY <1>1, <1>2, <1>3, <1>4, <1>5, <1>6 DEF Next, Cycle

LEMMA UsedStep == UsedInv /\ [Next]_vars => UsedInv'
<1> SUFFICES ASSUME UsedInv, [Next]_vars PROVE UsedInv'
  OBVIOUS
<1>1. UNCHANGED <<marker, used>> \/ used' = used \cup {marker'}
  BY DEF Next, Cycle, Operator, JDE, Start, Prepare, Query, Insert, Succeed, SucceedUnknown, Fail,
     Abort, ChangeMarker, ResetCursor, LoseReset, DayEnds, OpenRow, CommitRow, UpdateRow, vars,
     config, ghosts
<1> QED
  BY <1>1 DEF UsedInv

-----------------------------------------------------------------------------
IMissed == /\ IBacked /\ SpaceInv /\ RowInv
           /\ AloneInv /\ UsedInv /\ AheadInv

Asks(k) == CursorAsks(k) /\ NewCursorAsks(k) /\ \A r \in Cyclers : CycleAsks(r, k)

\* A row that is ahead of the staged ones matches a cursor that one of them backs.
LEMMA AheadMatches ==
  ASSUME TypeOK, NEW new \in SourceRow, 0 < new.id, marker \notin Passable(new),
         \A row \in staged : /\ ~new.crossed => row.day <= new.day + Lookback
                             /\ ~new.late => row.id < new.id,
         NEW saved \in Cursors, Backed(saved), saved.space = marker
  PROVE  Matches(marker, saved.at, new)
<1> USE DataTypes
<1>1. saved.at \in Nat /\ new.day \in Nat /\ new.id \in Nat
  BY CursorTypes DEF Cursors, NoCursor, SourceRow
<1>2. CASE saved.at = 0
  BY <1>1, <1>2 DEF Matches
<1>3. CASE saved.at # 0
  <2>1. PICK row \in staged : MarkerOf(marker, row) = saved.at
    BY <1>3 DEF Backed
  <2>2. CASE marker = "sequence"
    <3>1. ~new.late
      BY <2>2 DEF Passable
    <3> QED
      BY <2>1, <2>2, <3>1 DEF MarkerOf, Matches
  <2>3. CASE marker = "date"
    <3>1. saved.at <= new.day + Lookback
      BY <2>1, <2>3 DEF MarkerOf, Passable
    <3> QED
      BY <1>1, <2>3, <3>1 DEF Matches
  <2> QED
    BY <2>2, <2>3 DEF TypeOK, Markers
<1> QED
  BY <1>2, <1>3

LEMMA ClaimedMatches ==
  ASSUME TypeOK, RowInv, UsedInv, NEW k \in Keys, Claimed(k), Ahead(k, staged),
         NEW saved \in Cursors, Backed(saved), saved.space = marker
  PROVE  Matches(marker, saved.at, source[k])
<1>1. source[k] \in SourceRow /\ 0 < source[k].id /\ marker \notin Passable(source[k])
  BY DEF TypeOK, RowInv, Known, Claimed, UsedInv
<1> QED
  BY <1>1, AheadMatches DEF Ahead

\* A cycle, from its start to its end.
LEMMA AheadOfCycle ==
  ASSUME IMissed, NEW r \in Cyclers, Start(r) \/ Cycle(r), safe', NEW k \in Keys, Claimed(k)'
  PROVE  Asks(k)'
<1> USE DEF IMissed, IBacked, jde, config, cycles, ghosts
<1>1. /\ safe /\ UNCHANGED <<source, today, marker, resetting, used>> /\ staged \subseteq staged'
  BY DEF Start, Cycle, Prepare, Query, Insert, Succeed, SucceedUnknown, Fail, Abort
<1>2. Claimed(k)
  BY <1>1 DEF Claimed, Passable, StagedKeys
<1>3. CursorAsks(k) /\ NewCursorAsks(k) /\ CycleAsks(r, k)
  BY <1>1, <1>2 DEF AheadInv
<1>4. \A s \in Cyclers : s # r => pc[s] = "idle" /\ pc'[s] = "idle"
  <2>1. \A s \in Cyclers : s # r => pc'[s] = pc[s]
    BY DEF TypeOK, Start, Cycle, Prepare, Query, Insert, Succeed, SucceedUnknown, Fail, Abort, Idle
  <2>2. InCycle \subseteq {r}
    BY <1>1 DEF Start, Cycle, Prepare, Query, Insert, Succeed, SucceedUnknown, Fail, Abort,
       AloneInv, InCycle
  <2> QED
    BY <2>1, <2>2 DEF InCycle
<1>5. ASSUME r \in InCycle
      PROVE  /\ cfg[r].loaded = cursor /\ (cursor = NoCursor => ~ragged)
             /\ ~resetting /\ cfg[r].marker = marker
             /\ cfg[r].loaded \in Cursors /\ cfg[r].cursor \in Cursors
             /\ Backed(cfg[r].loaded) /\ Backed(cfg[r].cursor)
             /\ OfMarker(marker, cursor)
  BY <1>1, <1>5 DEF AloneInv, SpaceInv, TypeOK, BackedInv
<1>6. CASE Start(r)
  <2>1. pc[r] = "idle" /\ pc'[r] = "loaded" /\ UNCHANGED <<cursor, staged, ragged>>
    BY <1>6 DEF Start, TypeOK
  <2>2. \A s \in Cyclers : pc[s] # "pulling" /\ pc'[s] \notin {"started", "pulling"}
    BY <1>4, <2>1
  <2> QED
    BY <1>1, <1>3, <2>1, <2>2 DEF Asks, CursorAsks, NewCursorAsks, CycleAsks, Ahead
<1>7. CASE Prepare(r)
  <2> DEFINE use == CursorToUse(cfg[r].marker, cfg[r].loaded)
  <2> DEFINE new == [marker |-> cfg[r].marker, loaded |-> cfg[r].loaded, cursor |-> use]
  <2>1. /\ pc[r] = "loaded" /\ pc'[r] = "started" /\ cfg'[r] = new
        /\ UNCHANGED <<cursor, staged, ragged>>
    BY <1>7 DEF Prepare, TypeOK
  <2>2. new.cursor = use
    OBVIOUS
  <2> HIDE DEF new
  <2>3. r \in InCycle /\ \A s \in Cyclers : pc[s] # "pulling" /\ pc'[s] # "pulling"
    BY <1>4, <2>1 DEF InCycle
  <2>4. Matches(marker, use.at, source[k])
    <3>1. CASE cursor # NoCursor
      BY <1>3, <1>5, <2>3, <3>1 DEF CursorToUse, CursorAsks
    <3>2. CASE cursor = NoCursor
      <4>1. Ahead(k, staged)
        BY <1>3, <1>5, <2>3, <3>2 DEF NewCursorAsks
      <4>2. use \in Cursors /\ Backed(use)
        BY <1>5, <2>3, ComputedCursors DEF TypeOK
      <4>3. use.space = marker
        BY <1>5, <2>3, <3>2 DEF CursorToUse
      <4> HIDE DEF use
      <4> QED
        BY <1>2, <4>1, <4>2, <4>3, ClaimedMatches
    <3> QED
      BY <3>1, <3>2
  <2> HIDE DEF use
  <2>5. CycleAsks(r, k)'
    BY <1>1, <2>1, <2>2, <2>4 DEF CycleAsks
  <2>6. \A s \in Cyclers : CycleAsks(s, k)'
    BY <1>4, <2>5 DEF CycleAsks
  <2> QED
    BY <1>1, <1>3, <2>1, <2>3, <2>6 DEF Asks, CursorAsks, NewCursorAsks, Ahead
<1>8. CASE Query(r)
  <2>1. /\ pc[r] = "started" /\ pc'[r] = "pulling"
        /\ pulling'[r] = {CopyOf(j) : j \in {i \in Visible :
                            Matches(cfg[r].marker, cfg[r].cursor.at, source[i])}}
        /\ UNCHANGED <<cursor, staged, ragged, cfg>>
    BY <1>8 DEF Query, TypeOK
  <2>2. cfg[r].marker = marker
    BY <1>5, <2>1 DEF InCycle
  <2>3. CopyOf(k) \in pulling'[r] /\ CopyOf(k).key = k
    BY <1>2, <1>3, <2>1, <2>2 DEF Claimed, Visible, CycleAsks, CopyOf
  <2>4. CycleAsks(r, k)'
    BY <1>1, <1>3, <2>1, <2>3 DEF CycleAsks
  <2>5. \A s \in Cyclers : CycleAsks(s, k)'
    BY <1>4, <2>4 DEF CycleAsks
  <2> QED
    BY <1>1, <1>3, <2>1, <2>5 DEF Asks, CursorAsks, NewCursorAsks
<1>9. CASE Insert(r)
  <2>1. PICK rows \in SUBSET pulling[r] :
          /\ staged' = staged \cup {row \in rows : row.key \notin StagedKeys}
          /\ pulling'[r] = pulling[r] \ rows
          /\ pc[r] = "pulling" /\ UNCHANGED <<cursor, ragged, cfg, pc>>
    BY <1>9 DEF Insert, TypeOK
  <2>2. k \notin StagedKeys /\ k \notin StagedKeys'
    BY <1>2 DEF Claimed
  <2>3. \A row \in rows : row.key # k
    BY <2>1, <2>2 DEF StagedKeys
  <2>4. staged' \cup pulling'[r] \subseteq staged \cup pulling[r]
    BY <2>1
  <2>5. \/ \E row \in pulling'[r] : row.key = k
        \/ Ahead(k, staged \cup pulling[r])
    BY <1>3, <2>1, <2>3 DEF CycleAsks
  <2>6. CycleAsks(r, k)'
    BY <1>1, <1>3, <2>1, <2>4, <2>5 DEF CycleAsks, Ahead
  <2>7. \A s \in Cyclers : CycleAsks(s, k)'
    BY <1>4, <2>6 DEF CycleAsks
  <2> QED
    BY <1>1, <1>3, <2>1, <2>7 DEF Asks, CursorAsks, NewCursorAsks
<1>10. CASE Succeed(r)
  <2>1. /\ pc[r] = "pulling" /\ pulling[r] = {} /\ pc'[r] = "idle" /\ UNCHANGED staged
        /\ cursor' = IF Advanced(r) = cfg[r].loaded THEN cursor ELSE Advanced(r)
    BY <1>10 DEF Succeed, WriteBack, Idle, TypeOK
  <2>2. r \in InCycle
    BY <2>1 DEF InCycle
  <2>3. cursor' = Advanced(r)
    BY <1>5, <2>1, <2>2
  <2>4. Ahead(k, staged)
    <3>1. staged \cup pulling[r] = staged
      BY <2>1
    <3> QED
      BY <1>3, <2>1, <3>1 DEF CycleAsks
  <2>5. Matches(marker, Advanced(r).at, source[k])
    <3>1. CASE HasMax
      <4> DEFINE saved == [space |-> marker, at |-> MaxStaged(marker)]
      <4>1. saved \in Cursors /\ Backed(saved)
        BY <1>5, <2>2, <3>1, ComputedCursors DEF TypeOK
      <4>2. Advanced(r) = saved /\ saved.space = marker
        BY <1>5, <2>2, <3>1 DEF Advanced
      <4> HIDE DEF saved
      <4> QED
        BY <1>2, <2>4, <4>1, <4>2, ClaimedMatches
    <3>2. CASE ~HasMax
      BY <1>3, <2>1, <3>2 DEF CycleAsks, Advanced
    <3> QED
      BY <3>1, <3>2
  <2>6. CursorAsks(k)' /\ NewCursorAsks(k)'
    BY <1>1, <2>1, <2>3, <2>4, <2>5 DEF CursorAsks, NewCursorAsks, Ahead
  <2> QED
    BY <1>4, <2>1, <2>6 DEF Asks, CycleAsks
<1>11. CASE Fail(r) \/ Abort(r)
  <2>1. /\ pc[r] # "idle" /\ pc'[r] = "idle" /\ UNCHANGED staged
        /\ ragged' = (ragged \/ pc[r] = "pulling")
        /\ \/ cursor' = cursor
           \/ cursor' = cfg[r].cursor
    BY <1>11 DEF Fail, Abort, WriteBack, Idle, TypeOK
  <2>2. r \in InCycle
    BY <2>1 DEF InCycle
  <2>3. cursor' = cursor \/ Matches(marker, cfg[r].cursor.at, source[k])
    <3>1. CASE pc[r] = "loaded"
      BY <1>1, <1>5, <2>1, <2>2, <3>1 DEF SpaceInv
    <3>2. CASE pc[r] \in {"started", "pulling"}
      BY <1>3, <3>2 DEF CycleAsks
    <3> QED
      BY <2>1, <3>1, <3>2 DEF TypeOK, Stages
  <2>4. CursorAsks(k)'
    BY <1>1, <1>3, <2>1, <2>3 DEF CursorAsks
  <2>5. NewCursorAsks(k)'
    BY <1>1, <1>3, <1>4, <2>1 DEF NewCursorAsks, Ahead
  <2> QED
    BY <1>4, <2>1, <2>4, <2>5 DEF Asks, CycleAsks
<1>12. ~SucceedUnknown(r)
  BY DEF SucceedUnknown
<1> QED
  BY <1>6, <1>7, <1>8, <1>9, <1>10, <1>11, <1>12 DEF Cycle

\* put_config while no cycle is under way.
LEMMA AheadOfOperator ==
  ASSUME IMissed, Operator, safe', NEW k \in Keys, Claimed(k)'
  PROVE  Asks(k)'
<1> USE DEF IMissed, IBacked, jde, config, cycles, ghosts
<1>1. /\ safe /\ InCycle = {}
      /\ UNCHANGED <<source, today, staged, pc, cfg, pulling, ragged>>
  BY DEF Operator, ChangeMarker, ResetCursor, LoseReset, SpaceInv
<1>2. Claimed(k)
  BY <1>1 DEF Claimed, Passable, StagedKeys, Operator, ChangeMarker, ResetCursor, LoseReset
<1>3. NewCursorAsks(k)'
  <2>1. NewCursorAsks(k)
    BY <1>1, <1>2 DEF AheadInv
  <2> QED
    BY <1>1, <2>1 DEF NewCursorAsks, Ahead
<1>4. cursor' = NoCursor \/ resetting'
  BY DEF Operator, ChangeMarker, ResetCursor, LoseReset
<1>5. \A r \in Cyclers : pc'[r] = "idle"
  BY <1>1 DEF InCycle
<1> QED
  BY <1>3, <1>4, <1>5 DEF Asks, CursorAsks, CycleAsks

\* The rows of the view: one that becomes visible is ahead of every copied one.
LEMMA AheadOfView ==
  ASSUME IMissed, JDE, safe', NEW k \in Keys, Claimed(k)'
  PROVE  Asks(k)'
<1> USE DEF IMissed, IBacked, jde, config, cycles, ghosts
<1>1. safe /\ UNCHANGED <<staged, marker, cursor, resetting, pc, cfg, pulling, ragged, used>>
  BY DEF JDE, DayEnds, OpenRow, CommitRow, UpdateRow
<1>2. StagedKeys' = StagedKeys
  BY <1>1 DEF StagedKeys
<1>3. CASE source'[k] = source[k]
  <2>1. Claimed(k)
    BY <1>1, <1>2, <1>3 DEF Claimed, Passable
  <2>2. Asks(k)
    BY <1>1, <2>1 DEF AheadInv, Asks
  <2> QED
    BY <1>1, <1>3, <2>2 DEF Asks, CursorAsks, NewCursorAsks, CycleAsks, Ahead
<1>4. CASE UpdateRow(k)
  <2>1. /\ source'[k].day = Julian[today] /\ source'[k].id = source[k].id
        /\ source'[k].late = source[k].late /\ source'[k].crossed = source[k].crossed
        /\ source[k].state = "visible"
    BY <1>4 DEF UpdateRow, TypeOK
  <2>2. source[k].day <= Julian[today] /\ source[k].day \in Nat /\ Julian[today] \in Nat
    BY DataTypes DEF RowInv
  <2>3. Claimed(k)
    BY <1>1, <1>2, <2>1 DEF Claimed, Passable
  <2>4. Asks(k)
    BY <1>1, <2>3 DEF AheadInv, Asks
  <2>5. \A saved \in Cursors :
          Matches(marker, saved.at, source[k]) => Matches(marker, saved.at, source'[k])
    <3>1. \A saved \in Cursors : saved.at \in Nat
      BY CursorTypes DEF Cursors, NoCursor
    <3> QED
      BY <2>1, <2>2, <3>1, DataTypes DEF Matches
  <2>6. \A row : row.day \in Nat /\ row.day <= source[k].day + Lookback
                   => row.day <= source'[k].day + Lookback
    BY <2>1, <2>2, DataTypes
  <2>7. CursorAsks(k)'
    BY <1>1, <2>4, <2>5 DEF Asks, CursorAsks, TypeOK
  <2>8. NewCursorAsks(k)'
    BY <1>1, <2>1, <2>4, <2>6, DataTypes DEF Asks, NewCursorAsks, Ahead
  <2>9. ASSUME NEW r \in Cyclers PROVE CycleAsks(r, k)'
    <3>1. CycleAsks(r, k) /\ cfg[r].cursor \in Cursors
      BY <2>4 DEF Asks, TypeOK
    <3>2. Ahead(k, staged \cup pulling[r]) => Ahead(k, staged \cup pulling[r])'
      BY <1>1, <2>1, <2>6, DataTypes DEF Ahead
    <3> QED
      BY <1>1, <2>5, <3>1, <3>2 DEF CycleAsks
  <2> QED
    BY <2>7, <2>8, <2>9 DEF Asks
<1>5. CASE CommitRow(k)
  <2> DEFINE new == [state |-> "visible", day |-> source[k].day, id |-> source[k].id,
                     version |-> 1, late |-> \E j \in Visible : source[j].id > source[k].id,
                     crossed |-> Year(source[k].day) # Year(Julian[today])]
  <2>1. /\ new \in SourceRow /\ new.day = source[k].day /\ new.id = source[k].id
        /\ new.late <=> \E j \in Visible : source[j].id > source[k].id
        /\ new.crossed <=> Year(source[k].day) # Year(Julian[today])
    BY DataTypes DEF SourceRow
  <2>2. source'[k] = new /\ source[k].state = "open"
    BY <1>5 DEF CommitRow, TypeOK
  <2> HIDE DEF new
  <2>3. /\ ~new.crossed => Julian[today] <= source[k].day + Lookback
        /\ 0 < source[k].id
    <3>1. Recent(source[k], today) /\ 0 < source[k].id
      BY <2>2 DEF RowInv, Known
    <3> QED
      BY <2>1, <3>1, WithinYear, DataTypes
  <2>4. ASSUME NEW row, row.key \in Keys, row.day \in Nat, row.id \in Nat, HasOrigin(row)
        PROVE  /\ ~new.crossed => row.day <= new.day + Lookback
               /\ ~new.late => row.id < new.id
    <3>1. ~new.crossed => row.day <= new.day + Lookback
      BY <2>1, <2>3, <2>4, DataTypes DEF HasOrigin
    <3>2. row.key \in Visible /\ row.key # k /\ source[row.key].id = row.id
      BY <2>2, <2>4 DEF HasOrigin, Visible
    <3>3. row.id # source[k].id
      BY <2>2, <3>2 DEF RowInv, Known, Visible
    <3>4. ~new.late => ~(row.id > source[k].id)
      BY <2>1, <3>2
    <3> QED
      BY <2>1, <2>4, <3>1, <3>3, <3>4, DataTypes
  <2>5. \A row \in staged : /\ ~new.crossed => row.day <= new.day + Lookback
                            /\ ~new.late => row.id < new.id
    BY <2>4, DataTypes DEF RowInv
  <2>6. \A r \in Cyclers : \A row \in pulling[r] :
          /\ ~new.crossed => row.day <= new.day + Lookback
          /\ ~new.late => row.id < new.id
    BY <2>4, DataTypes DEF RowInv
  <2>7. marker \notin Passable(new)
    BY <1>1, <2>2 DEF Claimed, UsedInv
  <2>8. ASSUME NEW saved \in Cursors, Backed(saved), saved.space = marker
        PROVE  Matches(marker, saved.at, new)
    BY <2>1, <2>3, <2>5, <2>7, <2>8, AheadMatches
  <2>9. CursorAsks(k)'
    <3>1. cursor # NoCursor /\ ~resetting => cursor.space = marker
      BY <1>1 DEF SpaceInv, OfMarker
    <3> QED
      BY <1>1, <2>2, <2>8, <3>1 DEF CursorAsks, TypeOK, BackedInv
  <2>10. NewCursorAsks(k)'
    BY <1>1, <2>2, <2>5 DEF NewCursorAsks, Ahead
  <2>11. ASSUME NEW r \in Cyclers PROVE CycleAsks(r, k)'
    <3>1. pc[r] \in {"started", "pulling"} => cfg[r].cursor.space = marker
      BY <1>1 DEF SpaceInv, InCycle
    <3>2. cfg[r].cursor \in Cursors /\ Backed(cfg[r].cursor)
      BY DEF TypeOK, BackedInv
    <3>3. Ahead(k, staged \cup pulling[r])'
      BY <1>1, <2>2, <2>5, <2>6 DEF Ahead
    <3> QED
      BY <1>1, <2>2, <2>8, <3>1, <3>2, <3>3 DEF CycleAsks
  <2> QED
    BY <2>9, <2>10, <2>11 DEF Asks
<1>6. source'[k] = source[k] \/ CommitRow(k) \/ UpdateRow(k)
  <2>1. CASE DayEnds
    BY <2>1 DEF DayEnds
  <2>2. ASSUME NEW j \in Keys, OpenRow(j) PROVE source'[k] = source[k]
    <3>1. source'[j].state = "open"
      BY <2>2 DEF OpenRow, TypeOK
    <3>2. k # j
      BY <3>1 DEF Claimed
    <3> QED
      BY <2>2, <3>2 DEF OpenRow, TypeOK
  <2>3. ASSUME NEW j \in Keys, CommitRow(j) \/ UpdateRow(j), k # j
        PROVE  source'[k] = source[k]
    BY <2>3 DEF CommitRow, UpdateRow, TypeOK
  <2> QED
    BY <2>1, <2>2, <2>3 DEF JDE
<1> QED
  BY <1>3, <1>4, <1>5, <1>6

LEMMA AheadStep == IMissed /\ [Next]_vars => AheadInv'
<1> SUFFICES ASSUME IMissed, [Next]_vars, safe', NEW k \in Keys, Claimed(k)'
             PROVE  Asks(k)'
  BY DEF AheadInv, Asks
<1>1. ASSUME NEW r \in Cyclers, Start(r) \/ Cycle(r) PROVE Asks(k)'
  BY <1>1, AheadOfCycle
<1>2. CASE UNCHANGED vars
  <2>1. safe /\ Claimed(k)
    BY <1>2 DEF vars, jde, ghosts, Claimed, StagedKeys
  <2>2. Asks(k)
    BY <2>1 DEF IMissed, AheadInv, Asks
  <2> QED
    BY <1>2, <2>2 DEF vars, jde, config, cycles, ghosts, Asks, CursorAsks, NewCursorAsks,
       CycleAsks, Ahead
<1> QED
  BY <1>1, <1>2, AheadOfOperator, AheadOfView DEF Next

(***************************************************************************)
(* NothingMissed holds in every behaviour, for any number of keys, days    *)
(* and cyclers, any lookback and any calendar: unless one of the excluded  *)
(* events happened, the next cycle asks for every visible row that is not  *)
(* staged, except one that was late when the marker is or was the id, or   *)
(* one committed in another year than that of its day when it is or was    *)
(* the date (run_cycle, build_streaming_predicate, put_config).            *)
(***************************************************************************)
THEOREM CursorPassesNothing == Spec => []NothingMissed
<1>1. Init => RowInv /\ AloneInv /\ UsedInv /\ AheadInv
  <2> SUFFICES ASSUME Init PROVE RowInv /\ AloneInv /\ UsedInv /\ AheadInv
    OBVIOUS
  <2>1. PICK base \in {{}} \cup {{k} : k \in Keys} :
          /\ source = [k \in Keys |->
                         IF k \in base
                           THEN [state |-> "visible", day |-> Julian[1], id |-> 1,
                                 version |-> 1, late |-> FALSE, crossed |-> FALSE]
                           ELSE NoSource]
          /\ staged = {[key |-> k, day |-> Julian[1], id |-> 1, version |-> 1] : k \in base}
    BY DEF Init
  <2>2. base \subseteq Keys /\ \A j, k \in base : j = k
    OBVIOUS
  <2>3. \A k \in Keys : /\ source[k].state = "visible" <=> k \in base
                        /\ Known(k) <=> k \in base
                        /\ source[k].state # "open" /\ source[k].day <= Julian[1]
                        /\ k \in base => source[k].id = 1
    BY <2>1, Dates DEF NoSource, Known
  <2>4. \A row \in staged : row.key \in base /\ row.id = 1 /\ row.day = Julian[1]
    BY <2>1
  <2>5. \A k \in base : k \in StagedKeys
    <3> SUFFICES ASSUME NEW k \in base PROVE k \in StagedKeys
      OBVIOUS
    <3>1. [key |-> k, day |-> Julian[1], id |-> 1, version |-> 1] \in staged
      BY <2>1
    <3>2. [key |-> k, day |-> Julian[1], id |-> 1, version |-> 1].key = k
      OBVIOUS
    <3> QED
      BY <3>1, <3>2 DEF StagedKeys
  <2>6. ASSUME NEW k \in base PROVE 1 < NextId
    <3> DEFINE known == {j \in Keys : source[j].state # "none"}
    <3>1. IsFiniteSet(known) /\ known # {}
      BY <2>2, <2>3, KeysAssumption, FS_Subset DEF Known
    <3>2. Cardinality(known) \in Nat /\ Cardinality(known) # 0
      <4> HIDE DEF known
      <4> QED
        BY <3>1, FS_EmptySet, FS_CardinalityType
    <3> QED
      BY <3>2 DEF NextId
  <2>7. RowInv
    BY <2>2, <2>3, <2>4, <2>6, Dates DEF Init, RowInv, HasOrigin
  <2>8. AloneInv /\ UsedInv
    BY DEF Init, AloneInv, InCycle, UsedInv
  <2>9. AheadInv
    BY <2>3, <2>5 DEF AheadInv, Claimed
  <2> QED
    BY <2>7, <2>8, <2>9
<1>2. IBacked /\ SpaceInv /\ RowInv /\ AloneInv /\ UsedInv /\ AheadInv /\ [Next]_vars =>
        RowInv' /\ AloneInv' /\ UsedInv' /\ AheadInv'
  BY RowStep, AloneStep, UsedStep, AheadStep DEF IMissed, IBacked
<1>3. IBacked /\ SpaceInv /\ RowInv /\ UsedInv /\ AheadInv => NothingMissed
  <2> SUFFICES ASSUME IBacked, SpaceInv, RowInv, UsedInv, AheadInv, StreamsSafely,
                      NEW k \in Keys, WouldMiss(k), Passable(source[k]) \cap used = {}
               PROVE  FALSE
    BY DEF NothingMissed
  <2>1. Claimed(k) /\ safe
    BY DEF WouldMiss, Claimed, StreamsSafely
  <2>2. CursorAsks(k) /\ NewCursorAsks(k)
    BY <2>1 DEF AheadInv
  <2>3. CASE cursor # NoCursor
    BY <2>2, <2>3 DEF CursorAsks, StreamsSafely, WouldMiss, CursorToUse
  <2>4. CASE cursor = NoCursor
    <3>1. Ahead(k, staged)
      BY <2>2, <2>4 DEF NewCursorAsks, StreamsSafely, InCycle
    <3> DEFINE use == CursorToUse(marker, cursor)
    <3>2. use \in Cursors /\ Backed(use)
      BY ComputedCursors DEF IBacked, TypeOK, BackedInv
    <3>3. use.space = marker
      BY <2>4 DEF CursorToUse
    <3> HIDE DEF use
    <3>4. Matches(marker, use.at, source[k])
      BY <2>1, <3>1, <3>2, <3>3, ClaimedMatches DEF IBacked
    <3> QED
      BY <3>4 DEF WouldMiss, use
  <2> QED
    BY <2>3, <2>4
<1> QED
  BY <1>1, <1>2, <1>3, BackedIsInductive, SpaceIsInductive, PTL DEF Spec
=============================================================================
