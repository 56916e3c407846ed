---------------------------- MODULE StreamingCycle ----------------------------
(***************************************************************************)
(* run_cycle, the incremental case: a cycle loads the table's config row,  *)
(* asks Oracle for the rows at or after the cursor, inserts those whose    *)
(* key the staging table does not hold yet, and at last moves the cursor   *)
(* to the greatest marker in the staging table.  put_config may change the *)
(* marker meanwhile, and a run-once request may run a cycle of its own.    *)
(*                                                                         *)
(* A row has a day (the JDE update date) and an id (a sequence number);    *)
(* the config row says which of the two is the marker.  The table has a    *)
(* primary key, so both kinds of marker are incremental.                   *)
(*                                                                         *)
(* A day is written CYYDDD: 124366 is followed by 125001, and the cutoff   *)
(* of a date marker subtracts the lookback from that number.               *)
(***************************************************************************)
EXTENDS Integers, FiniteSets

CONSTANTS
  Keys,            \* primary keys of the rows
  Cyclers,         \* the threads that run cycles
  Loop,            \* the one of them that is the poll loop
  Lookback,        \* lookback_days
  Julian,          \* the CYYDDD number of each day that passes
  MaxDay,          \* bound on the days that pass
  MaxVersion,      \* bound on the versions of a row
  Disturbances     \* which of the rarer events below may happen

PossibleDisturbances == {"unknown_exit", "marker_change"}

ASSUME KeysAssumption == IsFiniteSet(Keys)
ASSUME LoopAssumption == Loop \in Cyclers
ASSUME BoundsAssumption ==
  Lookback \in Nat /\ MaxDay \in Nat \ {0} /\ MaxVersion \in Nat \ {0}

Year(date) == date \div 1000

\* Days are numbered in order, and one by one within a year.
ASSUME JulianAssumption ==
  /\ Julian \in [1..MaxDay -> Nat]
  /\ \A d, e \in 1..MaxDay : d <= e =>
       /\ Julian[d] <= Julian[e]
       /\ Year(Julian[d]) = Year(Julian[e]) => Julian[e] - Julian[d] = e - d
ASSUME DisturbancesAssumption == Disturbances \subseteq PossibleDisturbances

VARIABLES
  today,           \* how many days have begun in JDE
  source,          \* the rows of the Oracle view
  staged,          \* the rows of the staging table
  marker,          \* streaming_configs.ts_kind
  cursor,          \* streaming_configs.last_watermark, with its value space
  resetting,       \* put_config has yet to commit the reset of the cursor
  pc,              \* where each cycler is
  cfg,             \* the config row as it loaded it, and the cursor it uses
  pulling,         \* the rows ora2pg has still to insert for it
  ragged,          \* ghost: a pull that did not finish left rows behind
  safe,            \* ghost: none of the events that StreamsSafely excludes
  used             \* ghost: the markers there have been

jde == <<today, source>>
config == <<marker, cursor, resetting>>
cycles == <<pc, cfg, pulling>>
ghosts == <<ragged, safe, used>>
vars == <<jde, staged, config, cycles, ghosts>>

-----------------------------------------------------------------------------
Markers == {"date", "sequence"}
NoCursor == [space |-> "none", at |-> 0]
Cursors == [space : Markers, at : Nat] \cup {NoCursor}

\* A row of the view: not there, inserted but not committed, or visible.
\* "late" is a row that became visible after one with a greater id, "crossed" one
\* that became visible in another year than that of its day.
SourceRow == [state : {"none", "open", "visible"}, day : Nat, id : Nat,
              version : Nat, late : BOOLEAN, crossed : BOOLEAN]
NoSource == [state |-> "none", day |-> 0, id |-> 0, version |-> 0,
             late |-> FALSE, crossed |-> FALSE]

StagedRow == [key : Keys, day : Nat, id : Nat, version : Nat]

Stages == {"idle", "loaded", "started", "pulling"}
NoCfg == [marker |-> "date", loaded |-> NoCursor, cursor |-> NoCursor]

Visible == {k \in Keys : source[k].state = "visible"}
StagedKeys == {row.key : row \in staged}
InCycle == {r \in Cyclers : pc[r] # "idle"}

MarkerOf(kind, row) == IF kind = "date" THEN row.day ELSE row.id

CopyOf(k) == [key |-> k, day |-> source[k].day, id |-> source[k].id,
              version |-> source[k].version]

\* target_max_watermark, where an empty table has none.
HasMax == staged # {}
MaxStaged(kind) ==
  CHOOSE m \in {MarkerOf(kind, row) : row \in staged} :
    \A row \in staged : MarkerOf(kind, row) <= m

\* A mutant of Matches: the date is strict and does not look back.
MatchesLater(kind, at, row) == MarkerOf(kind, row) > at

\* build_streaming_predicate: a date looks back, by subtraction from the CYYDDD
\* number; a sequence is strict.
Matches(kind, at, row) ==
  IF kind = "sequence" THEN row.id > at ELSE row.day >= at - Lookback

NextId == 1 + Cardinality({k \in Keys : source[k].state # "none"})

\* Cycle r writes its attributes back: SQLAlchemy updates a column only if its
\* value differs from the one that was loaded.
WriteBack(r, final) ==
  cursor' = IF final = cfg[r].loaded THEN cursor ELSE final

Init ==
  /\ today = 1
  /\ \E base \in {{}} \cup {{k} : k \in Keys} :
       /\ source = [k \in Keys |->
                      IF k \in base
                        THEN [state |-> "visible", day |-> Julian[1], id |-> 1,
                              version |-> 1, late |-> FALSE, crossed |-> FALSE]
                        ELSE NoSource]
       /\ staged = {[key |-> k, day |-> Julian[1], id |-> 1, version |-> 1] : k \in base}
  /\ marker \in Markers
  /\ cursor = NoCursor
  /\ resetting = FALSE
  /\ pc = [r \in Cyclers |-> "idle"]
  /\ cfg = [r \in Cyclers |-> NoCfg]
  /\ pulling = [r \in Cyclers |-> {}]
  /\ ragged = FALSE
  /\ safe = TRUE
  /\ used = {marker}

-----------------------------------------------------------------------------
(* One cycle.                                                              *)

Idle(r) ==
  /\ pc' = [pc EXCEPT ![r] = "idle"]
  /\ cfg' = [cfg EXCEPT ![r] = NoCfg]
  /\ pulling' = [pulling EXCEPT ![r] = {}]

\* The cursor that a cycle uses: the saved one, or the greatest marker staged.
CursorToUse(kind, saved) ==
  IF saved # NoCursor THEN saved
  ELSE [space |-> kind, at |-> IF HasMax THEN MaxStaged(kind) ELSE 0]

Start(r) ==
  /\ pc[r] = "idle"
  /\ pc' = [pc EXCEPT ![r] = "loaded"]
  /\ cfg' = [cfg EXCEPT ![r] = [marker |-> marker, loaded |-> cursor, cursor |-> cursor]]
  /\ safe' = (safe /\ InCycle = {} /\ ~resetting /\ (cursor = NoCursor => ~ragged))
  /\ UNCHANGED <<jde, staged, config, pulling, ragged, used>>

Prepare(r) ==
  /\ pc[r] = "loaded"
  /\ pc' = [pc EXCEPT ![r] = "started"]
  /\ cfg' = [cfg EXCEPT ![r] = [marker |-> cfg[r].marker, loaded |-> cfg[r].loaded,
                                cursor |-> CursorToUse(cfg[r].marker, cfg[r].loaded)]]
  /\ UNCHANGED <<jde, staged, config, pulling, ghosts>>

Query(r) ==
  /\ pc[r] = "started"
  /\ pc' = [pc EXCEPT ![r] = "pulling"]
  /\ pulling' = [pulling EXCEPT ![r] =
       {CopyOf(k) : k \in {j \in Visible :
          Matches(cfg[r].marker, cfg[r].cursor.at, source[j])}}]
  /\ UNCHANGED <<jde, staged, config, cfg, ghosts>>

\* ora2pg commits in chunks, from parallel jobs, in any order.  A row whose key
\* is staged is skipped: INSERT ... ON CONFLICT DO NOTHING.
Insert(r) ==
  /\ pc[r] = "pulling"
  /\ \E rows \in SUBSET pulling[r] \ {{}} :
       /\ staged' = staged \cup {row \in rows : row.key \notin StagedKeys}
       /\ pulling' = [pulling EXCEPT ![r] = @ \ rows]
  /\ UNCHANGED <<jde, config, pc, cfg, ghosts>>

\* A mutant of Advanced: the cursor moves to what is newest in JDE.
AdvancedToNow(r) ==
  [space |-> cfg[r].marker,
   at |-> IF cfg[r].marker = "date" THEN Julian[today] ELSE NextId - 1]

\* The cursor moves to the greatest marker staged, if there is one.
Advanced(r) ==
  IF HasMax THEN [space |-> cfg[r].marker, at |-> MaxStaged(cfg[r].marker)]
  ELSE cfg[r].cursor

Succeed(r) ==
  /\ pc[r] = "pulling"
  /\ pulling[r] = {}
  /\ WriteBack(r, Advanced(r))
  /\ Idle(r)
  /\ ragged' = FALSE
  /\ UNCHANGED <<jde, staged, marker, resetting, safe, used>>

\* The stream ends with no exit code yet, which counts as success.
SucceedUnknown(r) ==
  /\ "unknown_exit" \in Disturbances
  /\ pc[r] = "pulling"
  /\ pulling[r] # {}
  /\ WriteBack(r, Advanced(r))
  /\ Idle(r)
  /\ ragged' = TRUE
  /\ safe' = FALSE
  /\ UNCHANGED <<jde, staged, marker, resetting, used>>

\* A mutant of Fail: the cursor moves as if the cycle had succeeded.
FailAdvancing(r) ==
  /\ pc[r] # "idle"
  /\ WriteBack(r, Advanced(r))
  /\ Idle(r)
  /\ ragged' = (ragged \/ pc[r] = "pulling")
  /\ UNCHANGED <<jde, staged, marker, resetting, safe, used>>

\* The table is missing, or the container, the index or the INSERT fails: the
\* cursor that the cycle started from is saved, so that the next one asks again.
Fail(r) ==
  /\ pc[r] # "idle"
  /\ WriteBack(r, cfg[r].cursor)
  /\ Idle(r)
  /\ ragged' = (ragged \/ pc[r] = "pulling")
  /\ UNCHANGED <<jde, staged, marker, resetting, safe, used>>

\* The backend dies, or the final commit fails: nothing is saved.
Abort(r) ==
  /\ pc[r] # "idle"
  /\ Idle(r)
  /\ ragged' = (ragged \/ pc[r] = "pulling")
  /\ UNCHANGED <<jde, staged, config, safe, used>>

-----------------------------------------------------------------------------
(* The operator: put_config commits the new marker, then resets the cursor *)
(* that it reads back, if there is one, in a second commit, which may be   *)
(* lost in a crash.                                                        *)

ChangeMarker ==
  /\ "marker_change" \in Disturbances
  /\ ~resetting
  /\ \E kind \in Markers \ {marker} : marker' = kind
  /\ resetting' = (cursor # NoCursor)
  /\ safe' = (safe /\ InCycle = {})
  /\ used' = used \cup {marker'}
  /\ UNCHANGED <<jde, staged, cursor, cycles, ragged>>

\* A mutant of ResetCursor: the cursor stays.
KeepCursor ==
  /\ resetting
  /\ resetting' = FALSE
  /\ UNCHANGED <<jde, staged, marker, cursor, cycles, ghosts>>

ResetCursor ==
  /\ resetting
  /\ cursor' = NoCursor
  /\ resetting' = FALSE
  /\ UNCHANGED <<jde, staged, marker, cycles, ghosts>>

LoseReset ==
  /\ resetting
  /\ resetting' = FALSE
  /\ safe' = FALSE
  /\ UNCHANGED <<jde, staged, marker, cursor, cycles, ragged, used>>

-----------------------------------------------------------------------------
(* JD Edwards: a row gets its id and its day when it is inserted, and is   *)
(* visible from its commit, at most Lookback days later.                   *)

OpenRow(k) ==
  /\ source[k].state = "none"
  /\ source' = [source EXCEPT ![k] =
       [state |-> "open", day |-> Julian[today], id |-> NextId, version |-> 1,
        late |-> FALSE, crossed |-> FALSE]]
  /\ UNCHANGED <<today, staged, config, cycles, ghosts>>

CommitRow(k) ==
  /\ source[k].state = "open"
  /\ source' = [source EXCEPT ![k] =
       [state |-> "visible", day |-> source[k].day, id |-> source[k].id, version |-> 1,
        late |-> \E j \in Visible : source[j].id > source[k].id,
        crossed |-> Year(source[k].day) # Year(Julian[today])]]
  /\ UNCHANGED <<today, staged, config, cycles, ghosts>>

UpdateRow(k) ==
  /\ source[k].state = "visible"
  /\ source[k].version < MaxVersion
  /\ source' = [source EXCEPT ![k] =
       [state |-> "visible", day |-> Julian[today], id |-> source[k].id,
        version |-> source[k].version + 1,
        late |-> source[k].late, crossed |-> source[k].crossed]]
  /\ UNCHANGED <<today, staged, config, cycles, ghosts>>

\* The row was inserted on a day at most Lookback days before this one.
Recent(row, now) == \E d \in 1..MaxDay : row.day = Julian[d] /\ now <= d + Lookback

DayEnds ==
  /\ today < MaxDay
  /\ \A k \in Keys : source[k].state = "open" => Recent(source[k], today + 1)
  /\ today' = today + 1
  /\ UNCHANGED <<source, staged, config, cycles, ghosts>>

Cycle(r) ==
  \/ Prepare(r)
  \/ Query(r)
  \/ Insert(r)
  \/ Succeed(r)
  \/ SucceedUnknown(r)
  \/ Fail(r)
  \/ Abort(r)

Operator == ChangeMarker \/ ResetCursor \/ LoseReset

JDE == DayEnds \/ \E k \in Keys : OpenRow(k) \/ CommitRow(k) \/ UpdateRow(k)

Next ==
  \/ \E r \in Cyclers : Start(r) \/ Cycle(r)
  \/ Operator
  \/ JDE

Spec == Init /\ [][Next]_vars

(***************************************************************************)
(* The loop polls for ever, and a cycle goes on to its end.                *)
(***************************************************************************)
Fairness ==
  /\ WF_vars(Start(Loop))
  /\ \A r \in Cyclers : WF_vars(Cycle(r))

FairSpec == Spec /\ Fairness

-----------------------------------------------------------------------------
TypeOK ==
  /\ today \in 1..MaxDay
  /\ source \in [Keys -> SourceRow]
  /\ staged \subseteq StagedRow
  /\ marker \in Markers
  /\ cursor \in Cursors
  /\ resetting \in BOOLEAN
  /\ pc \in [Cyclers -> Stages]
  /\ cfg \in [Cyclers -> [marker : Markers, loaded : Cursors, cursor : Cursors]]
  /\ pulling \in [Cyclers -> SUBSET StagedRow]
  /\ ragged \in BOOLEAN
  /\ safe \in BOOLEAN
  /\ used \subseteq Markers

(***************************************************************************)
(* The cursor is backed by a row: whatever cycles overlap, fail or start   *)
(* between the two commits of put_config, the saved cursor is 0 or the     *)
(* marker of a staged row, so that rows newer than every staged one are    *)
(* always ahead of it.                                                     *)
(***************************************************************************)
Backed(saved) ==
  saved.at # 0 => \E row \in staged : MarkerOf(saved.space, row) = saved.at

CursorIsStaged == Backed(cursor)

\* The markers under which a row may be passed by.
Passable(row) == (IF row.late THEN {"sequence"} ELSE {}) \cup (IF row.crossed THEN {"date"} ELSE {})

WouldMiss(k) ==
  /\ source[k].state = "visible"
  /\ k \notin StagedKeys
  /\ ~Matches(marker, CursorToUse(marker, cursor).at, source[k])

StreamsSafely == safe /\ ~resetting /\ (cursor = NoCursor => ~ragged /\ InCycle = {})

(***************************************************************************)
(* The cursor never passes a row: whatever pulls fail half-way, whatever   *)
(* commits arrive up to Lookback days late, a visible row that is not      *)
(* staged is one the next cycle asks for.  Once the marker was a sequence, *)
(* this is claimed of rows that became visible in the order of their ids,  *)
(* and once it was a date, of rows that became visible in the year of      *)
(* their day: over a year boundary the subtraction does not look back.     *)
(***************************************************************************)
NothingMissed ==
  StreamsSafely =>
    \A k \in Keys : WouldMiss(k) => Passable(source[k]) \cap used # {}

(***************************************************************************)
(* The comment in put_config: a new marker is never compared with a cursor *)
(* of the old value space.                                                 *)
(***************************************************************************)
CursorInSpace ==
  \A r \in Cyclers : pc[r] \in {"started", "pulling"} => cfg[r].cursor.space = cfg[r].marker

CursorInSpaceWhenSafe == safe => CursorInSpace

Due(k) == source[k].state = "visible" /\ Passable(source[k]) \cap used = {}

(***************************************************************************)
(* A visible row is staged in the end, if from some time on the cycles     *)
(* succeed and nothing unsafe happened.                                    *)
(***************************************************************************)
RowsArrive ==
  []safe /\ <>[][~\E r \in Cyclers : Fail(r) \/ Abort(r)]_vars
    => \A k \in Keys : Due(k) ~> (k \in StagedKeys \/ ~Due(k))

(***************************************************************************)
(* The module's docstring: a cycle upserts the rows that changed since the *)
(* cursor.  When a cycle succeeds, every row it asked for is staged in the *)
(* version that Oracle sent.                                               *)
(***************************************************************************)
ChangesArrive ==
  [][\A r \in Cyclers :
       \A row \in pulling[r] \ pulling'[r] :
         pc'[r] = "pulling" =>
           \E copy \in staged' : copy.key = row.key /\ copy.version >= row.version]_vars

(***************************************************************************)
(* build_streaming_predicate: "a year-boundary cutoff merely over-pulls a  *)
(* few rows".  A cycle whose marker is the date asks for every visible row *)
(* whose day is at most Lookback days before that of the cursor.           *)
(***************************************************************************)
CutoffOnlyOverPulls ==
  [][\A r \in Cyclers :
       pc[r] = "started" /\ pc'[r] = "pulling" /\ cfg[r].marker = "date" =>
         \A k \in Visible, d \in 1..MaxDay :
           /\ cfg[r].cursor.at = Julian[d]
           /\ Recent(source[k], d)
             => \E row \in pulling'[r] : row.key = k]_vars

(***************************************************************************)
(* The inductive invariants: behind CursorIsStaged, that what a cycle has  *)
(* loaded is backed too and that the markers are bounded; behind           *)
(* CursorInSpaceWhenSafe, that every cursor about is one of the marker.    *)
(***************************************************************************)
AtMost(bound, row) == row.day <= bound /\ row.id <= bound

Bounded(bound) ==
  /\ \A k \in Keys : AtMost(bound, source[k])
  /\ \A row \in staged : AtMost(bound, row)
  /\ \A r \in Cyclers : \A row \in pulling[r] : AtMost(bound, row)

BackedInv ==
  /\ \E bound \in Nat : Bounded(bound)
  /\ Backed(cursor)
  /\ \A r \in Cyclers : Backed(cfg[r].loaded) /\ Backed(cfg[r].cursor)

OfMarker(kind, saved) == saved = NoCursor \/ saved.space = kind

SpaceInv ==
  safe =>
    /\ resetting \/ OfMarker(marker, cursor)
    /\ resetting => InCycle = {}
    /\ \A r \in InCycle :
         /\ cfg[r].marker = marker
         /\ OfMarker(marker, cfg[r].cursor)
         /\ pc[r] = "loaded" => cfg[r].cursor = cfg[r].loaded
         /\ pc[r] \in {"started", "pulling"} => cfg[r].cursor.space = marker

(***************************************************************************)
(* The inductive invariants behind NothingMissed.  RowInv is about the     *)
(* data: ids are given in order, a row is committed at most Lookback days  *)
(* after its own, and what was copied has a visible origin.  AheadInv is   *)
(* about the rows that NothingMissed claims: each of them matches every    *)
(* cursor that may be used next, or is about to be pulled, and where a     *)
(* cursor may be computed anew, no copied row has come past it.            *)
(***************************************************************************)
Known(k) == source[k].state # "none"

HasOrigin(row) ==
  /\ source[row.key].state = "visible"
  /\ source[row.key].id = row.id
  /\ row.day <= Julian[today]

RowInv ==
  /\ \A k \in Keys : Known(k) => 0 < source[k].id /\ source[k].id < NextId
  /\ \A j, k \in Keys : Known(j) /\ Known(k) /\ source[j].id = source[k].id => j = k
  /\ \A k \in Keys : source[k].state = "open" => Recent(source[k], today)
  /\ \A k \in Keys : source[k].day <= Julian[today]
  /\ \A row \in staged : HasOrigin(row)
  /\ \A r \in Cyclers : \A row \in pulling[r] : HasOrigin(row)

Claimed(k) ==
  /\ source[k].state = "visible"
  /\ k \notin StagedKeys
  /\ Passable(source[k]) \cap used = {}

Ahead(k, rows) ==
  \A row \in rows : /\ ~source[k].crossed => row.day <= source[k].day + Lookback
                    /\ ~source[k].late => row.id < source[k].id

AloneInv ==
  safe =>
    /\ \A r, s \in InCycle : r = s
    /\ \A r \in InCycle : /\ cfg[r].loaded = cursor
                          /\ cursor = NoCursor => ~ragged

CursorAsks(k) == cursor # NoCursor /\ ~resetting => Matches(marker, cursor.at, source[k])

NewCursorAsks(k) ==
  ~ragged /\ (\A r \in Cyclers : pc[r] # "pulling") => Ahead(k, staged)

CycleAsks(r, k) ==
  /\ pc[r] \in {"started", "pulling"} => Matches(marker, cfg[r].cursor.at, source[k])
  /\ pc[r] = "pulling" => \/ \E row \in pulling[r] : row.key = k
                          \/ Ahead(k, staged \cup pulling[r])

AheadInv ==
  safe =>
    \A k \in Keys : Claimed(k) =>
      /\ CursorAsks(k)
      /\ NewCursorAsks(k)
      /\ \A r \in Cyclers : CycleAsks(r, k)

UsedInv == marker \in used
=============================================================================
