-------------------------- MODULE DataModelsProofs --------------------------
(***************************************************************************)
(* Theorems about DataModels, for any names, attributes and number of      *)
(* requests: the endpoints implement ModelRegistry, and what is promised   *)
(* about tables, records, logs and single fields holds whatever overlaps.  *)
(* And about TypeB, for any tables and any number of joins: the planner,   *)
(* the SQL and the answers are what TypeB says of them.                    *)
(***************************************************************************)
EXTENDS DataModels, TypeB, FiniteSetTheorems, WellFoundedInduction, TLAPS

LogRow == [status : {"none", "success", "failed"}, op : Ops \cup {"none"}, id : Ids \cup {0}]

\* What the request c is about, once it has loaded its model.
Static(o) ==
  /\ o.op = "create" =>
       Valid(o.want) /\ o.want.table = IF o.want.type = "A" THEN o.want.name ELSE None
  /\ o.op \in {"update", "deactivate"} => o.want.table = o.seen.table
  /\ o.op = "deactivate" =>
       /\ o.want.name = o.seen.name /\ o.want.type = o.seen.type
       /\ o.want.attrs = o.seen.attrs /\ o.want.key = o.seen.key
       /\ ~o.want.active

Pending(c) == call[c].stage \in {"loaded", "nulled"}

\* A model that has not moved is still called what a request has read.
CallInv ==
  \A c \in Calls :
    Pending(c) =>
      /\ Static(call[c])
      /\ call[c].op # "create" => call[c].id \in 1..created
      /\ call[c].op # "create" /\ call[c].id \in live \ moved =>
           /\ call[c].seen.name = row[call[c].id].name
           /\ call[c].seen.type = row[call[c].id].type

NamesAreUnique ==
  /\ live \subseteq 1..created
  /\ \A i, j \in live : i # j => row[i].name # row[j].name

TablesInv ==
  \A i \in live \ moved :
    row[i].table = (IF row[i].type = "A" THEN row[i].name ELSE None)

\* A model that has not moved has a table; it lacks a column only if adopted.
ColumnsInv ==
  \A i \in live \ moved :
    row[i].type = "A" =>
      /\ columns[row[i].name] # {}
      /\ i \notin adopted => row[i].attrs \subseteq columns[row[i].name]

\* A record, its log row and the end of its request go together.
StoreInv ==
  \A c \in Calls :
    /\ call[c] # Ended => log[c].status = "none"
    /\ IF log[c].status = "success" /\ log[c].op = "inbound"
       THEN \E n \in Names : \A m \in Names : c \in records[m] <=> m = n
       ELSE \A m \in Names : c \notin records[m]

LEMMA CallShape ==
  ASSUME TypeOK, NEW c \in Calls
  PROVE  /\ Pending(c) <=> call[c] \in CallRow
         /\ call[c] = Free \/ call[c] = Ended => ~Pending(c)
         /\ Free # Ended
         /\ \A at \in {"loaded", "nulled"}, ops \in SUBSET Ops :
              At(c, at, ops) => call[c] \in CallRow
<1>1. call[c] \in CallRow \cup {Free, Ended}
  BY DEF TypeOK
<1>2. Free.stage = "free" /\ Ended.stage = "ended"
  BY DEF Free, Ended
<1>3. \A o \in CallRow : o.stage \in {"loaded", "nulled"}
  BY DEF CallRow
<1> QED
  BY <1>1, <1>2, <1>3 DEF Pending, At

LEMMA RowFacts ==
  ASSUME NEW seen \in Row, NEW want \in Row
  PROVE  /\ \A now \in Row :
              /\ Written(now, seen, want) \in Row
              /\ Written(now, seen, want).name = Column(now.name, seen.name, want.name)
              /\ Written(now, seen, want).type = Column(now.type, seen.type, want.type)
              /\ Written(now, seen, want).table = Column(now.table, seen.table, want.table)
              /\ Written(now, seen, want).attrs = Column(now.attrs, seen.attrs, want.attrs)
              /\ Written(now, seen, want).key = Column(now.key, seen.key, want.key)
              /\ Written(now, seen, want).active = Column(now.active, seen.active, want.active)
         /\ Payload(seen, want) \in Row
         /\ Payload(seen, want).name = want.name /\ Payload(seen, want).type = want.type
         /\ Payload(seen, want).table = want.table /\ Payload(seen, want).attrs = want.attrs
         /\ Payload(seen, want).active = want.active
<1>1. ASSUME NEW now \in Row
      PROVE  /\ Written(now, seen, want) \in Row
             /\ Written(now, seen, want).name = Column(now.name, seen.name, want.name)
             /\ Written(now, seen, want).type = Column(now.type, seen.type, want.type)
             /\ Written(now, seen, want).table = Column(now.table, seen.table, want.table)
             /\ Written(now, seen, want).attrs = Column(now.attrs, seen.attrs, want.attrs)
             /\ Written(now, seen, want).key = Column(now.key, seen.key, want.key)
             /\ Written(now, seen, want).active = Column(now.active, seen.active, want.active)
  <2>1. \A a, b, c : Column(a, b, c) \in {a, c}
    BY DEF Column
  <2>2. Written(now, seen, want) \in Row
    BY <2>1 DEF Written, Row
  <2> QED
    BY <2>2 DEF Written
<1>2. /\ Payload(seen, want) \in Row
      /\ Payload(seen, want).name = want.name /\ Payload(seen, want).type = want.type
      /\ Payload(seen, want).table = want.table /\ Payload(seen, want).attrs = want.attrs
      /\ Payload(seen, want).active = want.active
  BY DEF Payload, Row
<1> QED
  BY <1>1, <1>2

\* An edit is a row, and asks for no other table.
LEMMA EditFacts ==
  ASSUME NEW r \in Row, NEW want \in Edits(r)
  PROVE  want \in Row /\ want.table = r.table
BY DEF Edits

LEMMA IdsType == Ids \subseteq Nat /\ \A n \in 0..MaxModels : 1..n \subseteq Ids
BY MaxModelsAssumption DEF Ids

-----------------------------------------------------------------------------
Starts(c) ==
  StartCreate(c) \/ StartUpdate(c) \/ StartDeactivate(c) \/ StartDelete(c)
    \/ StartInbound(c) \/ StartOutbound(c)

\* A request begins with what it read, and changes nothing.
LEMMA StartFacts ==
  ASSUME TypeOK, NEW c \in Calls, Starts(c)
  PROVE  /\ call[c] = Free /\ Unlogged
         /\ \E o \in CallRow :
              /\ call' = [call EXCEPT ![c] = o]
              /\ Static(o)
              /\ o.op # "create" => o.id \in live /\ o.seen = row[o.id]
<1> USE DEF Ops
<1>1. live \subseteq Ids /\ \A i \in Ids : row[i] \in Row
  BY DEF TypeOK
<1>2. CASE StartCreate(c)
  <2>1. PICK new \in Row :
          /\ new.table = IF new.type = "A" THEN new.name ELSE None
          /\ Valid(new)
          /\ call' = [call EXCEPT ![c] = [stage |-> "loaded", op |-> "create", id |-> 0,
                                          seen |-> new, want |-> new,
                                          given |-> {}, noted |-> {}, fits |-> TRUE]]
    BY <1>2, Zenon DEF StartCreate
  <2>3. PICK o : o = [stage |-> "loaded", op |-> "create", id |-> 0, seen |-> new,
                      want |-> new, given |-> {}, noted |-> {}, fits |-> TRUE]
    OBVIOUS
  <2>4. o \in CallRow /\ o.op = "create" /\ o.want = new
    BY <2>1, <2>3 DEF CallRow
  <2>5. call' = [call EXCEPT ![c] = o]
    BY <2>1, <2>3
  <2> QED
    BY <1>2, <2>1, <2>4, <2>5 DEF StartCreate, Static
<1>3. ASSUME NEW i \in live, NEW op \in Ops \ {"create"}, NEW want \in Row, Load(c, op, i, want)
      PROVE  \E o \in CallRow :
               /\ call' = [call EXCEPT ![c] = o]
               /\ o.op = op /\ o.id = i /\ o.seen = row[i] /\ o.want = want
  <2>1. PICK o : o = [stage |-> "loaded", op |-> op, id |-> i, seen |-> row[i],
                      want |-> want, given |-> {}, noted |-> {}, fits |-> TRUE]
    OBVIOUS
  <2>2. o \in CallRow /\ o.op = op /\ o.id = i /\ o.seen = row[i] /\ o.want = want
    BY <1>1, <1>3, <2>1 DEF CallRow
  <2> QED
    BY <1>3, <2>1, <2>2 DEF Load
<1>4. CASE StartUpdate(c)
  <2>1. PICK i \in live : \E want \in Edits(row[i]) : Load(c, "update", i, want)
    BY <1>4 DEF StartUpdate
  <2>2. PICK want \in Edits(row[i]) : Load(c, "update", i, want)
    BY <2>1
  <2>3. want \in Row /\ want.table = row[i].table
    BY <1>1, <2>2, EditFacts
  <2> QED
    BY <1>3, <1>4, <2>2, <2>3 DEF StartUpdate, Static
<1>5. CASE StartDeactivate(c)
  <2>1. PICK i \in live : Load(c, "deactivate", i, [row[i] EXCEPT !.active = FALSE])
    BY <1>5 DEF StartDeactivate
  <2>2. PICK want : want = [row[i] EXCEPT !.active = FALSE]
    OBVIOUS
  <2>3. /\ want \in Row /\ want.name = row[i].name /\ want.type = row[i].type
        /\ want.table = row[i].table /\ want.attrs = row[i].attrs /\ want.key = row[i].key
        /\ ~want.active
    BY <1>1, <2>1, <2>2 DEF Row
  <2>4. Load(c, "deactivate", i, want)
    BY <2>1, <2>2
  <2> QED
    BY <1>3, <1>5, <2>1, <2>3, <2>4 DEF StartDeactivate, Static
<1>6. CASE StartDelete(c)
  <2>1. PICK i \in live :
          call' = [call EXCEPT ![c] = [stage |-> "nulled", op |-> "delete", id |-> i,
                                       seen |-> row[i], want |-> row[i],
                                       given |-> {}, noted |-> LogsOf(i), fits |-> TRUE]]
    BY <1>6 DEF StartDelete
  <2>2. PICK o : o = [stage |-> "nulled", op |-> "delete", id |-> i, seen |-> row[i],
                      want |-> row[i], given |-> {}, noted |-> LogsOf(i), fits |-> TRUE]
    OBVIOUS
  <2>3. o \in CallRow /\ o.op = "delete" /\ o.id = i /\ o.seen = row[i]
    <3>1. LogsOf(i) \subseteq Calls
      BY DEF LogsOf
    <3> QED
      BY <1>1, <2>1, <2>2, <3>1 DEF CallRow
  <2> QED
    BY <1>6, <2>1, <2>2, <2>3 DEF StartDelete, Static
<1>7. CASE StartInbound(c)
  <2>1. PICK i \in live, given \in SUBSET Attrs, fits \in BOOLEAN :
          call' = [call EXCEPT ![c] = [stage |-> "loaded", op |-> "inbound", id |-> i,
                                       seen |-> row[i], want |-> row[i],
                                       given |-> given, noted |-> {}, fits |-> fits]]
    BY <1>7 DEF StartInbound
  <2>2. PICK o : o = [stage |-> "loaded", op |-> "inbound", id |-> i, seen |-> row[i],
                      want |-> row[i], given |-> given, noted |-> {}, fits |-> fits]
    OBVIOUS
  <2>3. o \in CallRow /\ o.op = "inbound" /\ o.id = i /\ o.seen = row[i]
    BY <1>1, <2>1, <2>2 DEF CallRow
  <2> QED
    BY <1>7, <2>1, <2>2, <2>3 DEF StartInbound, Static
<1>8. CASE StartOutbound(c)
  <2>1. PICK i \in live, op \in {"list", "by_key"}, fits \in BOOLEAN :
          call' = [call EXCEPT ![c] = [stage |-> "loaded", op |-> op, id |-> i,
                                       seen |-> row[i], want |-> row[i],
                                       given |-> {}, noted |-> {}, fits |-> fits]]
    BY <1>8 DEF StartOutbound
  <2>2. PICK o : o = [stage |-> "loaded", op |-> op, id |-> i, seen |-> row[i],
                      want |-> row[i], given |-> {}, noted |-> {}, fits |-> fits]
    OBVIOUS
  <2>3. o \in CallRow /\ o.op = op /\ o.id = i /\ o.seen = row[i]
    BY <1>1, <2>1, <2>2 DEF CallRow
  <2> QED
    BY <1>8, <2>1, <2>2, <2>3 DEF StartOutbound, Static
<1> QED
  BY <1>2, <1>4, <1>5, <1>6, <1>7, <1>8 DEF Starts

-----------------------------------------------------------------------------
Ends(c) ==
  CommitCreate(c) \/ CommitUpdate(c) \/ CommitDeactivate(c) \/ CommitDelete(c)
    \/ EndInbound(c) \/ EndOutbound(c)

LEMMA NextShape ==
  ASSUME NEW c \in Calls, Manage(c) \/ Use(c)
  PROVE  Starts(c) \/ Ends(c)
BY DEF Manage, Use, Starts, Ends

\* A request that ends was under way, and nobody else moves.
LEMMA EndFacts ==
  ASSUME TypeOK, NEW c \in Calls, Ends(c)
  PROVE  /\ call[c] \in CallRow /\ Pending(c)
         /\ call[c].id \in Ids \cup {0}
         /\ call[c].seen \in Row /\ call[c].want \in Row
         /\ call' = [call EXCEPT ![c] = Ended]
<1>1. call[c].stage \in {"loaded", "nulled"} /\ call' = [call EXCEPT ![c] = Ended]
  BY DEF Ends, CommitCreate, CommitUpdate, CommitDeactivate, CommitDelete, EndInbound,
         EndOutbound, At, End
<1>2. call[c] \in CallRow
  BY <1>1, CallShape DEF Pending
<1> QED
  BY <1>1, <1>2 DEF CallRow, Pending

\* What is logged is a row of the log.
LEMMA LoggedType ==
  ASSUME TypeOK, NEW c \in Calls, call[c] \in CallRow, NEW status \in {"success", "failed"}
  PROVE  /\ Logged(c, status) \in [Calls -> LogRow]
         /\ Logged(c, status)[c].status = status
         /\ Logged(c, status)[c].op = call[c].op
         /\ \A d \in Calls \ {c} : Logged(c, status)[d] = log[d]
<1>1. PICK entry : entry = [status |-> status, op |-> call[c].op, id |-> call[c].id]
  OBVIOUS
<1>2. entry \in LogRow /\ entry.status = status /\ entry.op = call[c].op
  BY <1>1 DEF LogRow, CallRow
<1>3. log \in [Calls -> LogRow]
  BY DEF TypeOK, LogRow
<1>4. Logged(c, status) = [log EXCEPT ![c] = entry]
  BY <1>1 DEF Logged
<1> QED
  BY <1>2, <1>3, <1>4

\* The row an edit leaves, and the tables it leaves.
LEMMA UpdateFacts ==
  ASSUME TypeOK, CallInv, NEW c \in Calls, CommitUpdate(c),
         ~UNCHANGED <<row, columns, moved, adopted>>
  PROVE  \E i \in live, seen \in Row, new \in Row :
           /\ i \in Ids /\ i = call[c].id /\ seen = call[c].seen
           /\ new = Payload(seen, call[c].want)
           /\ new.active = call[c].want.active
           /\ new.table = seen.table
           /\ new.name # seen.name => ~Taken(new.name, i)
           /\ row' = [row EXCEPT ![i] = Written(row[i], seen, new)]
           /\ Written(row[i], seen, new) \in Row
           /\ columns' = IF new.type = "A"
                         THEN [columns EXCEPT ![new.name] = Synced(new.name, new.attrs)]
                         ELSE columns
<1>1. call[c] \in CallRow /\ Pending(c) /\ call[c].seen \in Row /\ call[c].want \in Row
  BY EndFacts DEF Ends
<1>2. call[c].want.table = call[c].seen.table
  BY <1>1 DEF CallInv, Static, CommitUpdate, At
<1>3. PICK new : new = Payload(call[c].seen, call[c].want)
  OBVIOUS
<1>4. /\ new \in Row /\ new.table = call[c].seen.table /\ new.active = call[c].want.active
  BY <1>1, <1>2, <1>3, RowFacts
<1>5. /\ call[c].id \in live
      /\ new.name # call[c].seen.name => ~Taken(new.name, call[c].id)
      /\ row' = [row EXCEPT ![call[c].id] = Written(row[call[c].id], call[c].seen, new)]
      /\ columns' = IF new.type = "A"
                    THEN [columns EXCEPT ![new.name] = Synced(new.name, new.attrs)]
                    ELSE columns
  BY <1>3 DEF CommitUpdate, ghosts
<1>6. call[c].id \in Ids /\ row[call[c].id] \in Row
  BY <1>5 DEF TypeOK
<1>7. Written(row[call[c].id], call[c].seen, new) \in Row
  BY <1>1, <1>4, <1>6, RowFacts
<1> QED
  BY <1>1, <1>3, <1>4, <1>5, <1>6, <1>7

\* The name an edit leaves is the one the model had, or a new one that is free.
LEMMA NameIsFree ==
  ASSUME NamesAreUnique, NEW i \in live, NEW seen \in Row, NEW new \in Row,
         new.name # seen.name => ~Taken(new.name, i)
  PROVE  \A j \in live \ {i} : row[j].name # Written(row[i], seen, new).name
<1>1. Written(row[i], seen, new).name =
        IF new.name = seen.name THEN row[i].name ELSE new.name
  BY DEF Written, Column
<1>2. \A j \in live \ {i} : row[j].name # row[i].name
  BY DEF NamesAreUnique
<1>3. new.name # seen.name => \A j \in live \ {i} : row[j].name # new.name
  BY DEF Taken
<1> QED
  BY <1>1, <1>2, <1>3

-----------------------------------------------------------------------------
LEMMA TypeInit == Init => TypeOK
<1> SUFFICES ASSUME Init PROVE TypeOK
  OBVIOUS
<1>1. row \in [Ids -> Row]
  BY NamesAssumption DEF Init, Row, Types
<1>2. call \in [Calls -> CallRow \cup {Free, Ended}]
  BY DEF Init
<1>3. log \in [Calls -> LogRow]
  BY DEF Init, NoLog, LogRow
<1>4. created \in 0..MaxModels
  BY MaxModelsAssumption DEF Init
<1> QED
  BY <1>1, <1>2, <1>3, <1>4 DEF Init, TypeOK, LogRow

LEMMA TypeStep == TypeOK /\ CallInv /\ [Next]_vars => TypeOK'
<1> SUFFICES ASSUME TypeOK, CallInv, [Next]_vars PROVE TypeOK'
  OBVIOUS
<1> USE DEF CallRow, LogRow
<1>1. CASE UNCHANGED vars
  BY <1>1 DEF vars, tables, ghosts, TypeOK
<1>2. ASSUME NEW c \in Calls, Starts(c) PROVE TypeOK'
  <2>1. PICK o \in CallRow : call' = [call EXCEPT ![c] = o]
    BY <1>2, StartFacts
  <2>2. Unlogged
    BY <1>2, StartFacts
  <2> QED
    BY <2>1, <2>2 DEF Unlogged, tables, ghosts, TypeOK
<1>3. ASSUME NEW c \in Calls, Ends(c) PROVE TypeOK'
  <2>1. /\ call' = [call EXCEPT ![c] = Ended] /\ call[c] \in CallRow
        /\ call[c].seen \in Row /\ call[c].want \in Row
    BY <1>3, EndFacts
  <2>2. call' \in [Calls -> CallRow \cup {Free, Ended}]
    BY <2>1 DEF TypeOK
  <2>3. CASE CommitCreate(c)
    <3>1. PICK new \in Row : new = call[c].want
      BY <2>1
    <3>2. CASE Taken(new.name, 0)
      BY <2>2, <2>3, <3>1, <3>2 DEF CommitCreate, TypeOK
    <3>3. CASE ~Taken(new.name, 0)
      <4>1. created' \in 0..MaxModels /\ created + 1 \in Ids
        BY <2>3, <3>1, <3>3, MaxModelsAssumption DEF CommitCreate, TypeOK, Ids
      <4>2. row' \in [Ids -> Row] /\ live' \subseteq Ids
        BY <2>3, <3>1, <3>3, <4>1 DEF CommitCreate, TypeOK
      <4>3. columns' \in [Names -> SUBSET Attrs]
        <5>1. new.name \in Names /\ new.attrs \subseteq Attrs
          BY <3>1 DEF Row
        <5>2. Created(new.name, new.attrs) \subseteq Attrs
          BY <5>1 DEF Created, TypeOK
        <5> QED
          BY <2>3, <3>1, <3>3, <5>1, <5>2 DEF CommitCreate, TypeOK
      <4>4. adopted' \subseteq Ids
        BY <2>3, <3>1, <3>3, <4>1, Zenon DEF CommitCreate, TypeOK
      <4> QED
        BY <2>2, <2>3, <4>1, <4>2, <4>3, <4>4 DEF CommitCreate, TypeOK
    <3> QED
      BY <3>2, <3>3
  <2>4. CASE CommitUpdate(c)
    <3>1. row' \in [Ids -> Row] /\ columns' \in [Names -> SUBSET Attrs]
      <4>1. CASE row' = row /\ columns' = columns
        BY <4>1 DEF TypeOK
      <4>2. CASE row' # row \/ columns' # columns
        <5>1. PICK i \in live, seen \in Row, new \in Row :
                /\ i \in Ids
                /\ row' = [row EXCEPT ![i] = Written(row[i], seen, new)]
                /\ Written(row[i], seen, new) \in Row
                /\ columns' = IF new.type = "A"
                              THEN [columns EXCEPT ![new.name] = Synced(new.name, new.attrs)]
                              ELSE columns
          BY <2>4, <4>2, UpdateFacts
        <5>2. new.name \in Names /\ new.attrs \subseteq Attrs
          BY DEF Row
        <5>3. Synced(new.name, new.attrs) \subseteq Attrs
          BY <5>2 DEF Synced, TypeOK
        <5> QED
          BY <5>1, <5>2, <5>3 DEF TypeOK
      <4> QED
        BY <4>1, <4>2
    <3>2. moved' \subseteq Ids /\ adopted' \subseteq Ids
      <4>1. PICK new : new = Payload(call[c].seen, call[c].want)
        OBVIOUS
      <4>2. CASE \/ call[c].id \notin live
                 \/ new.name # call[c].seen.name /\ Taken(new.name, call[c].id)
        BY <2>4, <4>1, <4>2 DEF CommitUpdate, ghosts, TypeOK
      <4>3. CASE ~(\/ call[c].id \notin live
                   \/ new.name # call[c].seen.name /\ Taken(new.name, call[c].id))
        <5>1. call[c].id \in Ids
          BY <4>3 DEF TypeOK
        <5>2. moved' \subseteq moved \cup {call[c].id} /\ adopted' \subseteq adopted
          BY <2>4, <4>1, <4>3 DEF CommitUpdate
        <5> QED
          BY <5>1, <5>2 DEF TypeOK
      <4> QED
        BY <4>2, <4>3
    <3> QED
      BY <2>2, <2>4, <3>1, <3>2 DEF CommitUpdate, TypeOK
  <2>5. CASE CommitDeactivate(c)
    <3>1. row' \in [Ids -> Row]
      <4>1. CASE call[c].id \in live
        <5>1. call[c].id \in Ids /\ row[call[c].id] \in Row
          BY <4>1 DEF TypeOK
        <5>2. Written(row[call[c].id], call[c].seen, call[c].want) \in Row
          BY <2>1, <5>1, RowFacts
        <5>3. row' = [row EXCEPT ![call[c].id] =
                                   Written(row[call[c].id], call[c].seen, call[c].want)]
          BY <2>5, <4>1 DEF CommitDeactivate
        <5> QED
          BY <5>2, <5>3 DEF TypeOK
      <4>2. CASE call[c].id \notin live
        BY <2>5, <4>2 DEF CommitDeactivate, TypeOK
      <4> QED
        BY <4>1, <4>2
    <3> QED
      BY <2>2, <2>5, <3>1 DEF CommitDeactivate, tables, ghosts, TypeOK
  <2>6. CASE CommitDelete(c)
    <3>1. live' \subseteq live
      BY <2>6 DEF CommitDelete
    <3>2. log' \in [Calls -> LogRow]
      <4>1. \A d \in Calls : log[d] \in LogRow /\ [log[d] EXCEPT !.id = 0] \in LogRow
        BY DEF TypeOK
      <4>2. \/ log' = log
            \/ log' = [d \in Calls |-> IF d \in call[c].noted
                                       THEN [log[d] EXCEPT !.id = 0] ELSE log[d]]
        BY <2>6, Zenon DEF CommitDelete
      <4>3. CASE log' = log
        BY <4>3 DEF TypeOK
      <4>4. CASE log' = [d \in Calls |-> IF d \in call[c].noted
                                         THEN [log[d] EXCEPT !.id = 0] ELSE log[d]]
        BY <4>1, <4>4
      <4> QED
        BY <4>2, <4>3, <4>4
    <3> QED
      BY <2>2, <2>6, <3>1, <3>2 DEF CommitDelete, tables, ghosts, TypeOK
  <2>7. CASE EndInbound(c)
    <3>1. /\ records' = records \/ records' = [records EXCEPT ![TableOf(call[c].seen)] = @ \cup {c}]
          /\ log' \in {log, Logged(c, "success"), Logged(c, "failed")}
      BY <2>7 DEF EndInbound
    <3>2. TableOf(call[c].seen) \in Names
      BY <2>1 DEF TableOf, Row
    <3>3. records' \in [Names -> SUBSET Calls]
      BY <3>1, <3>2 DEF TypeOK
    <3>4. log' \in [Calls -> LogRow]
      BY <2>1, <3>1, LoggedType DEF TypeOK
    <3> QED
      BY <2>2, <2>7, <3>3, <3>4 DEF EndInbound, ghosts, TypeOK
  <2>8. CASE EndOutbound(c)
    <3>1. log' \in {log, Logged(c, "success"), Logged(c, "failed")}
      BY <2>8 DEF EndOutbound
    <3>2. log' \in [Calls -> LogRow]
      BY <2>1, <3>1, LoggedType DEF TypeOK
    <3> QED
      BY <2>2, <2>8, <3>2 DEF EndOutbound, tables, ghosts, TypeOK
  <2> QED
    BY <1>3, <2>3, <2>4, <2>5, <2>6, <2>7, <2>8 DEF Ends
<1> QED
  BY <1>1, <1>2, <1>3, NextShape DEF Next

-----------------------------------------------------------------------------
\* A request under way stays what it was, or is one that has just begun.
LEMMA PendingStep ==
  ASSUME TypeOK, NEW c \in Calls, Starts(c) \/ Ends(c), NEW d \in Calls, Pending(d)'
  PROVE  \/ Pending(d) /\ call'[d] = call[d]
         \/ /\ Unlogged /\ Static(call'[d])
            /\ call'[d].op # "create" => call'[d].id \in live /\ call'[d].seen = row[call'[d].id]
<1>1. CASE Starts(c)
  <2>1. PICK o \in CallRow :
          /\ call' = [call EXCEPT ![c] = o]
          /\ Static(o)
          /\ o.op # "create" => o.id \in live /\ o.seen = row[o.id]
    BY <1>1, StartFacts
  <2>2. Unlogged
    BY <1>1, StartFacts
  <2>3. call' = [e \in Calls |-> IF e = c THEN o ELSE call[e]]
    BY <2>1 DEF TypeOK
  <2>4. CASE d = c
    <3>1. call'[d] = o
      BY <2>3, <2>4
    <3> QED
      BY <2>1, <2>2, <3>1
  <2>5. CASE d # c
    BY <2>3, <2>5 DEF Pending
  <2> QED
    BY <2>4, <2>5
<1>2. CASE Ends(c)
  <2>1. call' = [call EXCEPT ![c] = Ended]
    BY <1>2, EndFacts
  <2>2. CASE d = c
    BY <2>1, <2>2 DEF TypeOK, Pending, Ended
  <2>3. CASE d # c
    BY <2>1, <2>3 DEF TypeOK, Pending
  <2> QED
    BY <2>2, <2>3
<1> QED
  BY <1>1, <1>2

\* What a step may do to the row of a model: names and types change only in
\* models that are counted as moved, and tables never.
LEMMA RowStep ==
  ASSUME TypeOK, CallInv, NamesAreUnique, [Next]_vars
  PROVE  /\ \A i \in live \cap live' :
              /\ row'[i].table = row[i].table
              /\ i \notin moved' =>
                   row'[i].name = row[i].name /\ row'[i].type = row[i].type
         /\ moved \subseteq moved'
         /\ created' \in {created, created + 1}
         /\ live' \subseteq live \cup {created + 1}
         /\ live' \subseteq live \/ created' = created + 1
<1>1. CASE UNCHANGED vars
  BY <1>1 DEF vars, ghosts
<1>2. ASSUME NEW c \in Calls, Starts(c)
      PROVE  Unlogged
  BY <1>2, StartFacts
<1>3. ASSUME NEW c \in Calls, Ends(c)
      PROVE  /\ \A i \in live \cap live' :
                  /\ row'[i].table = row[i].table
                  /\ i \notin moved' =>
                       row'[i].name = row[i].name /\ row'[i].type = row[i].type
             /\ moved \subseteq moved'
             /\ created' \in {created, created + 1}
             /\ live' \subseteq live \cup {created + 1}
             /\ live' \subseteq live \/ created' = created + 1
  <2>1. /\ call[c].seen \in Row /\ call[c].want \in Row /\ Pending(c) /\ call[c] \in CallRow
        /\ live \subseteq Ids /\ row \in [Ids -> Row]
    BY <1>3, EndFacts DEF TypeOK
  <2>2. CASE CommitCreate(c)
    <3>1. row' = row \/ row' = [row EXCEPT ![created + 1] = call[c].want]
      BY <2>2 DEF CommitCreate
    <3>2. created + 1 \notin live
      BY DEF TypeOK, NamesAreUnique
    <3> QED
      BY <2>1, <2>2, <3>1, <3>2 DEF CommitCreate
  <2>3. CASE CommitUpdate(c)
    <3>1. UNCHANGED <<live, created>> /\ moved \subseteq moved'
      BY <2>3 DEF CommitUpdate, ghosts
    <3>2. CASE row' = row
      BY <3>1, <3>2
    <3>3. CASE row' # row
      <4>1. PICK i \in live, seen \in Row, new \in Row :
              /\ i \in Ids /\ i = call[c].id /\ seen = call[c].seen
              /\ new = Payload(seen, call[c].want)
              /\ new.table = seen.table
              /\ row' = [row EXCEPT ![i] = Written(row[i], seen, new)]
        BY <2>3, <3>3, UpdateFacts
      <4>2. row'[i] = Written(row[i], seen, new) /\ \A j \in Ids \ {i} : row'[j] = row[j]
        BY <2>1, <4>1
      <4>7. PICK w : w = Written(row[i], seen, new)
        OBVIOUS
      <4>9. /\ w.name = Column(row[i].name, seen.name, new.name)
            /\ w.type = Column(row[i].type, seen.type, new.type)
            /\ w.table = Column(row[i].table, seen.table, new.table)
        BY <4>7 DEF Written
      <4>3. row'[i].table = row[i].table
        BY <4>1, <4>2, <4>7, <4>9 DEF Column
      <4>4. moved' = IF <<new.name, new.type>> # <<seen.name, seen.type>>
                     THEN moved \cup {i} ELSE moved
        BY <2>3, <3>3, <4>1 DEF CommitUpdate, ghosts
      <4>5. i \notin moved' => new.name = seen.name /\ new.type = seen.type
        BY <4>4
      <4>6. i \notin moved' => row'[i].name = row[i].name /\ row'[i].type = row[i].type
        BY <4>2, <4>5, <4>7, <4>9 DEF Column
      <4> QED
        BY <2>1, <3>1, <4>2, <4>3, <4>6
    <3> QED
      BY <3>2, <3>3
  <2>4. CASE CommitDeactivate(c)
    <3>1. UNCHANGED <<live, created, moved>>
      BY <2>4 DEF CommitDeactivate, ghosts
    <3>2. CASE call[c].id \in live
      <4>1. row' = [row EXCEPT ![call[c].id] = Written(row[call[c].id], call[c].seen, call[c].want)]
        BY <2>4, <3>2 DEF CommitDeactivate
      <4>2. /\ call[c].want.name = call[c].seen.name /\ call[c].want.type = call[c].seen.type
            /\ call[c].want.table = call[c].seen.table
        BY <2>1, <2>4 DEF CallInv, Static, CommitDeactivate, At
      <4>3. PICK w : w = Written(row[call[c].id], call[c].seen, call[c].want)
        OBVIOUS
      <4>5. PICK i \in live, seen \in Row, want \in Row :
              i = call[c].id /\ seen = call[c].seen /\ want = call[c].want
        BY <2>1, <3>2
      <4>6. /\ w.name = Column(row[i].name, seen.name, want.name)
            /\ w.type = Column(row[i].type, seen.type, want.type)
            /\ w.table = Column(row[i].table, seen.table, want.table)
        BY <4>3, <4>5 DEF Written
      <4>4. w.name = row[i].name /\ w.type = row[i].type /\ w.table = row[i].table
        BY <4>2, <4>5, <4>6 DEF Column
      <4> QED
        BY <2>1, <3>1, <4>1, <4>3, <4>4, <4>5
    <3>3. CASE call[c].id \notin live
      BY <2>4, <3>1, <3>3 DEF CommitDeactivate
    <3> QED
      BY <3>2, <3>3
  <2>5. CASE CommitDelete(c)
    BY <2>5 DEF CommitDelete, ghosts
  <2>6. CASE EndInbound(c)
    BY <2>6 DEF EndInbound, ghosts
  <2>7. CASE EndOutbound(c)
    BY <2>7 DEF EndOutbound, ghosts
  <2> QED
    BY <1>3, <2>2, <2>3, <2>4, <2>5, <2>6, <2>7 DEF Ends
<1> QED
  BY <1>1, <1>2, <1>3, NextShape DEF Next, Unlogged, ghosts

LEMMA CallStep ==
  TypeOK /\ CallInv /\ NamesAreUnique /\ [Next]_vars => CallInv'
<1> SUFFICES ASSUME TypeOK, CallInv, NamesAreUnique, [Next]_vars,
                    NEW d \in Calls, Pending(d)'
             PROVE  /\ Static(call'[d])
                    /\ call'[d].op # "create" => call'[d].id \in 1..created'
                    /\ call'[d].op # "create" /\ call'[d].id \in live' \ moved' =>
                         /\ call'[d].seen.name = row'[call'[d].id].name
                         /\ call'[d].seen.type = row'[call'[d].id].type
  BY DEF CallInv
<1>1. created \in Nat /\ created' \in {created, created + 1} /\ 1..created \subseteq 1..created'
  BY RowStep, MaxModelsAssumption DEF TypeOK
<1>2. CASE Pending(d) /\ call'[d] = call[d]
  <2>1. Static(call'[d])
    BY <1>2 DEF CallInv
  <2>2. call'[d].op # "create" => call'[d].id \in 1..created /\ call'[d].id \in 1..created'
    BY <1>1, <1>2 DEF CallInv
  <2>3. ASSUME call'[d].op # "create", call'[d].id \in live' \ moved'
        PROVE  /\ call'[d].seen.name = row'[call'[d].id].name
               /\ call'[d].seen.type = row'[call'[d].id].type
    <3>1. call'[d].id \in live \ moved
      BY <1>1, <2>2, <2>3, RowStep
    <3>2. call[d].seen.name = row[call[d].id].name /\ call[d].seen.type = row[call[d].id].type
      BY <1>2, <2>3, <3>1 DEF CallInv
    <3> QED
      BY <1>2, <2>3, <3>1, <3>2, RowStep
  <2> QED
    BY <2>1, <2>2, <2>3
<1>3. CASE ~(Pending(d) /\ call'[d] = call[d])
  <2>1. CASE UNCHANGED vars
    BY <1>3, <2>1 DEF vars, Pending
  <2>2. CASE Next
    <3>1. PICK c \in Calls : Starts(c) \/ Ends(c)
      BY <2>2, NextShape DEF Next
    <3>2. /\ Unlogged /\ Static(call'[d])
          /\ call'[d].op # "create" => call'[d].id \in live /\ call'[d].seen = row[call'[d].id]
      BY <1>3, <3>1, PendingStep
    <3> QED
      BY <1>1, <3>2 DEF Unlogged, NamesAreUnique
  <2> QED
    BY <2>1, <2>2
<1> QED
  BY <1>2, <1>3

\* A model whose name changes gets one that no other model has.
LEMMA NamesStep ==
  TypeOK /\ CallInv /\ NamesAreUnique /\ [Next]_vars => NamesAreUnique'
<1> SUFFICES ASSUME TypeOK, CallInv, NamesAreUnique, [Next]_vars PROVE NamesAreUnique'
  OBVIOUS
<1>1. created \in Nat /\ live' \subseteq 1..created'
  <2>1. created \in Nat
    BY MaxModelsAssumption DEF TypeOK
  <2>2. /\ live' \subseteq live \cup {created + 1}
        /\ live' \subseteq live \/ created' = created + 1
        /\ created' \in {created, created + 1}
    BY RowStep
  <2>3. live \subseteq 1..created
    BY DEF NamesAreUnique
  <2>4. CASE live' \subseteq live
    BY <2>1, <2>2, <2>3, <2>4
  <2>5. CASE created' = created + 1
    BY <2>1, <2>2, <2>3, <2>5
  <2> QED
    BY <2>2, <2>4, <2>5
<1>2. CASE live' \subseteq live /\ row' = row
  BY <1>1, <1>2 DEF NamesAreUnique
<1>3. ASSUME ~(live' \subseteq live /\ row' = row)
      PROVE  \E c \in Calls : CommitCreate(c) \/ CommitUpdate(c) \/ CommitDeactivate(c)
  <2>1. ~UNCHANGED vars
    BY <1>3 DEF vars
  <2>2. PICK c \in Calls : Starts(c) \/ Ends(c)
    BY <2>1, NextShape DEF Next
  <2>3. ~Starts(c)
    BY <1>3, StartFacts DEF Unlogged
  <2> QED
    BY <1>3, <2>2, <2>3 DEF Ends, CommitDelete, EndInbound, EndOutbound
<1>4. ASSUME NEW c \in Calls, CommitCreate(c), ~(live' \subseteq live /\ row' = row)
      PROVE  \A i, j \in live' : i # j => row'[i].name # row'[j].name
  <2>1. PICK new : new = call[c].want
    OBVIOUS
  <2>2. /\ ~Taken(new.name, 0) /\ live' = live \cup {created + 1}
        /\ row' = [row EXCEPT ![created + 1] = new]
    BY <1>4, <2>1 DEF CommitCreate
  <2>3. created + 1 \notin live /\ 0 \notin live
    BY <1>1 DEF NamesAreUnique
  <2>4. \A j \in live : row[j].name # new.name
    BY <2>2, <2>3 DEF Taken
  <2>5. created + 1 \in Ids /\ live \subseteq Ids /\ row \in [Ids -> Row]
    <3>1. created < MaxModels
      BY <1>4, <2>1, <2>2 DEF CommitCreate
    <3> QED
      BY <1>1, <3>1, MaxModelsAssumption DEF TypeOK, Ids
  <2>6. row'[created + 1] = new /\ \A j \in live : row'[j] = row[j]
    BY <2>2, <2>3, <2>5
  <2> QED
    BY <2>2, <2>4, <2>6 DEF NamesAreUnique
<1>5. ASSUME NEW c \in Calls, CommitUpdate(c), ~(live' \subseteq live /\ row' = row)
      PROVE  \A i, j \in live' : i # j => row'[i].name # row'[j].name
  <2>1. live' = live
    BY <1>5 DEF CommitUpdate
  <2>2. PICK i \in live, seen \in Row, new \in Row :
          /\ i \in Ids /\ (new.name # seen.name => ~Taken(new.name, i))
          /\ row' = [row EXCEPT ![i] = Written(row[i], seen, new)]
    BY <1>5, <2>1, UpdateFacts
  <2>3. \A j \in live \ {i} : row[j].name # Written(row[i], seen, new).name
    BY <2>2, NameIsFree
  <2>5. row'[i] = Written(row[i], seen, new) /\ \A j \in live \ {i} : row'[j] = row[j]
    BY <2>2 DEF TypeOK
  <2>7. \A j \in live \ {i} : row'[j].name = row[j].name /\ row'[j].name # row'[i].name
    BY <2>3, <2>5
  <2>8. \A j, k \in live \ {i} : j # k => row'[j].name # row'[k].name
    BY <2>7 DEF NamesAreUnique
  <2>9. ASSUME NEW j \in live, NEW k \in live, j # k PROVE row'[j].name # row'[k].name
    BY <2>7, <2>8, <2>9
  <2> QED
    BY <2>1, <2>9
<1>6. ASSUME NEW c \in Calls, CommitDeactivate(c), ~(live' \subseteq live /\ row' = row)
      PROVE  \A i, j \in live' : i # j => row'[i].name # row'[j].name
  <2>1. live' = live /\ call[c].id \in live
    BY <1>6 DEF CommitDeactivate
  <2>2. Pending(c) /\ call[c].op = "deactivate"
    BY <1>6 DEF CommitDeactivate, At, Pending
  <2>3. call[c].want.name = call[c].seen.name
    BY <2>2 DEF CallInv, Static
  <2>4. PICK i \in live : i = call[c].id
    BY <2>1
  <2>5. PICK w : w = Written(row[i], call[c].seen, call[c].want)
    OBVIOUS
  <2>6. row' = [row EXCEPT ![i] = w] /\ w.name = row[i].name
    BY <1>6, <2>3, <2>4, <2>5 DEF CommitDeactivate, Written, Column
  <2>7. \A j \in live : row'[j].name = row[j].name
    BY <2>6 DEF TypeOK
  <2>8. \A j, k \in live : j # k => row[j].name # row[k].name
    BY DEF NamesAreUnique
  <2>9. ASSUME NEW j \in live, NEW k \in live, j # k PROVE row'[j].name # row'[k].name
    BY <2>7, <2>8, <2>9
  <2> QED
    BY <2>1, <2>9
<1> QED
  BY <1>1, <1>2, <1>3, <1>4, <1>5, <1>6 DEF NamesAreUnique

LEMMA TablesStep ==
  TypeOK /\ CallInv /\ NamesAreUnique /\ TablesInv /\ [Next]_vars => TablesInv'
<1> SUFFICES ASSUME TypeOK, CallInv, NamesAreUnique, TablesInv, [Next]_vars,
                    NEW i \in live', i \notin moved'
             PROVE  row'[i].table = (IF row'[i].type = "A" THEN row'[i].name ELSE None)
  BY DEF TablesInv
<1>1. CASE i \in live
  <2>1. /\ row'[i].table = row[i].table /\ row'[i].name = row[i].name
        /\ row'[i].type = row[i].type /\ i \notin moved
    BY <1>1, RowStep
  <2> QED
    BY <1>1, <2>1 DEF TablesInv
<1>2. CASE i \notin live
  <2>1. PICK c \in Calls : CommitCreate(c)
    <3>1. ~UNCHANGED vars
      BY <1>2 DEF vars
    <3>2. PICK c \in Calls : Starts(c) \/ Ends(c)
      BY <3>1, NextShape DEF Next
    <3>3. ~Starts(c)
      BY <1>2, StartFacts DEF Unlogged
    <3> QED
      BY <1>2, <3>2, <3>3 DEF Ends, CommitUpdate, CommitDeactivate, CommitDelete, EndInbound,
                              EndOutbound
  <2>2. PICK new : new = call[c].want
    OBVIOUS
  <2>3. live' = live \cup {created + 1} /\ row' = [row EXCEPT ![created + 1] = new]
    BY <1>2, <2>1, <2>2 DEF CommitCreate
  <2>4. call[c].op = "create" /\ Pending(c)
    BY <2>1 DEF CommitCreate, At, Pending
  <2>5. new.table = IF new.type = "A" THEN new.name ELSE None
    BY <2>2, <2>4 DEF CallInv, Static
  <2>6. i = created + 1 /\ i \in Ids
    BY <1>2, <2>1, <2>2, <2>3, MaxModelsAssumption DEF CommitCreate, TypeOK, Ids
  <2> QED
    BY <2>3, <2>5, <2>6 DEF TypeOK
<1> QED
  BY <1>1, <1>2

\* A new row and a new table, or the table that was there.
LEMMA CreateFacts ==
  ASSUME TypeOK, CallInv, NamesAreUnique, NEW c \in Calls, CommitCreate(c), live' # live
  PROVE  \E new \in Row, i \in Ids :
           /\ i = created + 1 /\ i \notin live /\ created' = i /\ live' = live \cup {i}
           /\ Valid(new) /\ ~Taken(new.name, 0)
           /\ \A j \in live : row[j].name # new.name
           /\ row' = [row EXCEPT ![i] = new]
           /\ new.type = "A" =>
                /\ columns' = [columns EXCEPT ![new.name] = Created(new.name, new.attrs)]
                /\ i \notin adopted' => new.attrs \subseteq columns'[new.name]
           /\ new.type # "A" => columns' = columns
           /\ adopted \subseteq adopted'
           /\ UNCHANGED moved
<1>1. call[c].want \in Row /\ call[c].op = "create" /\ Pending(c)
  <2>1. Ends(c)
    BY DEF Ends
  <2> QED
    BY <2>1, EndFacts DEF CommitCreate, At
<1>2. PICK new \in Row : new = call[c].want
  BY <1>1
<1>3. Valid(new)
  BY <1>1, <1>2 DEF CallInv, Static
<1>4. /\ ~Taken(new.name, 0) /\ created < MaxModels /\ created' = created + 1
      /\ live' = live \cup {created + 1} /\ row' = [row EXCEPT ![created + 1] = new]
  BY <1>2 DEF CommitCreate
<1>5. created + 1 \in Ids /\ created + 1 \notin live /\ 0 \notin live
  BY <1>4, MaxModelsAssumption DEF TypeOK, Ids, NamesAreUnique
<1>6. /\ new.type = "A" =>
           /\ columns' = [columns EXCEPT ![new.name] = Created(new.name, new.attrs)]
           /\ adopted' = IF new.attrs \subseteq columns'[new.name]
                         THEN adopted ELSE adopted \cup {created + 1}
      /\ new.type # "A" => columns' = columns /\ adopted' = adopted
      /\ UNCHANGED moved
  BY <1>2, <1>4 DEF CommitCreate
<1>7. \A j \in live : row[j].name # new.name
  BY <1>4, <1>5 DEF Taken
<1> QED
  BY <1>2, <1>3, <1>4, <1>5, <1>6, <1>7

\* Every step but the end of a creation or of an edit keeps tables and attributes.
LEMMA OtherSteps ==
  ASSUME TypeOK, CallInv, NamesAreUnique, [Next]_vars,
         ~\E c \in Calls : CommitCreate(c) /\ live' # live,
         ~\E c \in Calls :
             CommitUpdate(c) /\ ~UNCHANGED <<row, columns, moved, adopted>>
  PROVE  /\ UNCHANGED <<columns, moved, adopted>> /\ live' \subseteq live
         /\ \A i \in live' : row'[i].attrs = row[i].attrs /\ row'[i].key = row[i].key
         /\ \A i \in live' : row'[i].active => row[i].active
<1>1. CASE UNCHANGED vars
  BY <1>1 DEF vars, tables, ghosts
<1>2. ASSUME NEW c \in Calls, Starts(c) PROVE Unlogged
  BY <1>2, StartFacts
<1>3. ASSUME NEW c \in Calls, CommitCreate(c)
      PROVE  UNCHANGED <<row, live, columns, moved, adopted>>
  <2>1. live' = live
    BY <1>3
  <2>2. created + 1 \notin live
    BY DEF NamesAreUnique, TypeOK
  <2> QED
    BY <1>3, <2>1, <2>2 DEF CommitCreate
<1>4. ASSUME NEW c \in Calls, CommitUpdate(c)
      PROVE  UNCHANGED <<row, live, columns, moved, adopted>>
  BY <1>4 DEF CommitUpdate
<1>5. ASSUME NEW c \in Calls, CommitDeactivate(c)
      PROVE  /\ UNCHANGED <<columns, live, moved, adopted>>
             /\ \A i \in live' : row'[i].attrs = row[i].attrs /\ row'[i].key = row[i].key
             /\ \A i \in live' : row'[i].active => row[i].active
  <2>1. UNCHANGED <<columns, live, moved, adopted>>
    BY <1>5 DEF CommitDeactivate, tables, ghosts
  <2>2. CASE call[c].id \in live
    <3>1. Pending(c) /\ call[c].op = "deactivate"
      BY <1>5 DEF CommitDeactivate, At, Pending
    <3>2. /\ call[c].want.attrs = call[c].seen.attrs /\ call[c].want.key = call[c].seen.key
          /\ ~call[c].want.active
      BY <3>1 DEF CallInv, Static
    <3>3. PICK i \in live : i = call[c].id
      BY <2>2
    <3>3a. PICK w : w = Written(row[i], call[c].seen, call[c].want)
      OBVIOUS
    <3>4. /\ row' = [row EXCEPT ![i] = w]
          /\ w.attrs = row[i].attrs /\ w.key = row[i].key
      BY <1>5, <3>2, <3>3, <3>3a DEF CommitDeactivate, Written, Column
    <3>5. w.active => row[i].active
      BY <3>2, <3>3, <3>3a, Zenon DEF Written, Column
    <3>6. \A j \in live : j # i => row'[j] = row[j]
      BY <3>4 DEF TypeOK
    <3>7. row'[i] = w
      BY <3>3, <3>3a, <3>4 DEF TypeOK
    <3> QED
      BY <2>1, <3>4, <3>5, <3>6, <3>7
  <2>3. CASE call[c].id \notin live
    BY <1>5, <2>1, <2>3 DEF CommitDeactivate
  <2> QED
    BY <2>1, <2>2, <2>3
<1>6. ASSUME NEW c \in Calls, CommitDelete(c) \/ EndInbound(c) \/ EndOutbound(c)
      PROVE  UNCHANGED <<row, columns, moved, adopted>> /\ live' \subseteq live
  BY <1>6 DEF CommitDelete, EndInbound, EndOutbound, tables, ghosts
<1> QED
  BY <1>1, <1>2, <1>3, <1>4, <1>5, <1>6, NextShape DEF Next, Ends, Unlogged, tables, ghosts

LEMMA ColumnsStep ==
  TypeOK /\ CallInv /\ NamesAreUnique /\ ColumnsInv /\ [Next]_vars => ColumnsInv'
<1> SUFFICES ASSUME TypeOK, CallInv, NamesAreUnique, ColumnsInv, [Next]_vars,
                    NEW i \in live', i \notin moved', row'[i].type = "A"
             PROVE  /\ columns'[row'[i].name] # {}
                    /\ i \notin adopted' => row'[i].attrs \subseteq columns'[row'[i].name]
  BY DEF ColumnsInv
<1>1. i \in live => /\ row'[i].name = row[i].name /\ row'[i].type = row[i].type /\ i \notin moved
                    /\ row[i].name \in Names /\ columns[row[i].name] # {}
                    /\ i \notin adopted => row[i].attrs \subseteq columns[row[i].name]
  <2>1. i \in live => row[i] \in Row
    BY DEF TypeOK
  <2> QED
    BY <2>1, RowStep DEF ColumnsInv, Row
<1>2. ASSUME NEW c \in Calls, CommitCreate(c), live' # live
      PROVE  /\ columns'[row'[i].name] # {}
             /\ i \notin adopted' => row'[i].attrs \subseteq columns'[row'[i].name]
  <2>1. PICK new \in Row, k \in Ids :
          /\ k \notin live /\ live' = live \cup {k}
          /\ row' = [row EXCEPT ![k] = new]
          /\ new.type = "A" =>
               /\ columns' = [columns EXCEPT ![new.name] = Created(new.name, new.attrs)]
               /\ k \notin adopted' => new.attrs \subseteq columns'[new.name]
          /\ new.type # "A" => columns' = columns
          /\ adopted \subseteq adopted'
    BY <1>2, CreateFacts
  <2>2. new.name \in Names /\ new.attrs # {} /\ columns \in [Names -> SUBSET Attrs]
    BY DEF Row, TypeOK
  <2>3. \A n \in Names : columns[n] \subseteq columns'[n]
    BY <2>1, <2>2 DEF Created
  <2>4. CASE i \in live
    <3>1. row'[i] = row[i]
      BY <2>1, <2>4 DEF TypeOK
    <3> QED
      BY <1>1, <2>1, <2>3, <2>4, <3>1
  <2>5. CASE i = k
    <3>1. row'[i] = new
      BY <2>1, <2>5 DEF TypeOK
    <3>2. columns'[new.name] = Created(new.name, new.attrs)
      BY <2>1, <2>2, <3>1
    <3> QED
      BY <2>1, <2>2, <2>5, <3>1, <3>2 DEF Created
  <2> QED
    BY <2>1, <2>4, <2>5
<1>3. ASSUME NEW c \in Calls, CommitUpdate(c),
             ~UNCHANGED <<row, columns, moved, adopted>>
      PROVE  /\ columns'[row'[i].name] # {}
             /\ i \notin adopted' => row'[i].attrs \subseteq columns'[row'[i].name]
  <2>1. PICK k \in live, seen \in Row, new \in Row :
          /\ k \in Ids /\ k = call[c].id /\ seen = call[c].seen
          /\ new = Payload(seen, call[c].want)
          /\ row' = [row EXCEPT ![k] = Written(row[k], seen, new)]
          /\ columns' = IF new.type = "A"
                        THEN [columns EXCEPT ![new.name] = Synced(new.name, new.attrs)]
                        ELSE columns
    BY <1>3, UpdateFacts
  <2>2. /\ moved' = IF <<new.name, new.type>> # <<seen.name, seen.type>>
                    THEN moved \cup {k} ELSE moved
        /\ adopted' = IF new.attrs = row'[k].attrs THEN adopted \ {k} ELSE adopted
        /\ live' = live
    BY <1>3, <2>1 DEF CommitUpdate, ghosts
  <2>3. new.name \in Names /\ columns \in [Names -> SUBSET Attrs] /\ live \subseteq Ids
        /\ row \in [Ids -> Row]
    BY DEF Row, TypeOK
  <2>4. \A n \in Names : columns[n] \subseteq columns'[n]
    BY <2>1, <2>3 DEF Synced
  <2>5. CASE i # k
    <3>1. row'[i] = row[i] /\ (i \notin adopted' => i \notin adopted)
      BY <2>1, <2>2, <2>3, <2>5
    <3> QED
      BY <1>1, <2>2, <2>4, <3>1
  <2>6. CASE i = k
    <3>1. new.name = seen.name /\ new.type = seen.type
      BY <2>2, <2>6
    <3>2. seen.name = row[k].name /\ seen.type = row[k].type
      <4>1. Pending(c) /\ call[c].op = "update"
        BY <1>3 DEF CommitUpdate, At, Pending
      <4> QED
        BY <1>1, <2>1, <2>2, <2>6, <4>1 DEF CallInv
    <3>3. /\ new.type = "A" /\ new.name = row'[i].name
          /\ columns'[new.name] = columns[new.name] \cup new.attrs
      BY <1>1, <2>1, <2>2, <2>3, <2>6, <3>1, <3>2 DEF Synced
    <3>4. row'[i].attrs \in {row[i].attrs, new.attrs}
      BY <2>1, <2>3, <2>6 DEF Written, Column
    <3>5. CASE new.attrs = row'[i].attrs
      BY <1>1, <2>2, <2>6, <3>3, <3>5
    <3>6. CASE new.attrs # row'[i].attrs
      BY <1>1, <2>2, <2>6, <3>3, <3>4, <3>6
    <3> QED
      BY <3>5, <3>6
  <2> QED
    BY <2>5, <2>6
<1>4. CASE /\ ~\E c \in Calls : CommitCreate(c) /\ live' # live
           /\ ~\E c \in Calls :
                 CommitUpdate(c) /\ ~UNCHANGED <<row, columns, moved, adopted>>
  <2>1. /\ columns' = columns /\ live' \subseteq live /\ adopted' = adopted
        /\ \A j \in live' : row'[j].attrs = row[j].attrs
    BY <1>4, OtherSteps
  <2> QED
    BY <1>1, <2>1
<1> QED
  BY <1>2, <1>3, <1>4

\* Storing and logging are one step, and only the request itself takes it.
LEMMA StoreStep ==
  TypeOK /\ CallInv /\ StoreInv /\ [Next]_vars => StoreInv'
<1> SUFFICES ASSUME TypeOK, CallInv, StoreInv, [Next]_vars PROVE StoreInv'
  OBVIOUS
<1>1. CASE UNCHANGED <<records, log, call>>
  BY <1>1 DEF StoreInv
<1>2. ASSUME NEW c \in Calls, Starts(c) PROVE StoreInv'
  <2>1. /\ call[c] = Free /\ UNCHANGED <<records, log>>
        /\ \E o \in CallRow : call' = [call EXCEPT ![c] = o]
    BY <1>2, StartFacts DEF Unlogged, tables
  <2>2. \A d \in Calls : call'[d] # Ended => call[d] # Ended
    BY <2>1 DEF TypeOK, Free, Ended
  <2> QED
    BY <2>1, <2>2 DEF StoreInv
<1>3. ASSUME NEW c \in Calls, Ends(c) PROVE StoreInv'
  <2>1. /\ call' = [call EXCEPT ![c] = Ended] /\ call[c] \in CallRow
        /\ call[c].seen \in Row /\ Pending(c)
    BY <1>3, EndFacts
  <2>2. call'[c] = Ended /\ \A d \in Calls \ {c} : call'[d] = call[d]
    BY <2>1 DEF TypeOK
  <2>3. call[c] # Ended
    BY <2>1, CallShape
  <2>4. log[c].status = "none" /\ \A m \in Names : c \notin records[m]
    BY <2>3 DEF StoreInv
  <2>5. CASE UNCHANGED <<records, log>>
    BY <2>2, <2>5 DEF StoreInv
  <2>6. CASE CommitDelete(c)
    <3>1. UNCHANGED records
      BY <2>6 DEF CommitDelete, tables
    <3>2. \/ log' = log
          \/ log' = [d \in Calls |-> IF d \in call[c].noted
                                     THEN [log[d] EXCEPT !.id = 0] ELSE log[d]]
      BY <2>6, Zenon DEF CommitDelete
    <3>3. \A d \in Calls : log'[d].status = log[d].status /\ log'[d].op = log[d].op
      BY <3>2 DEF TypeOK
    <3>4. \A d \in Calls : call'[d] # Ended => call[d] # Ended
      BY <2>2
    <3> QED
      BY <3>1, <3>3, <3>4 DEF StoreInv
  <2>7. CASE EndInbound(c) /\ records' # records
    <3>1. /\ records' = [records EXCEPT ![TableOf(call[c].seen)] = @ \cup {c}]
          /\ log' = Logged(c, "success") /\ call[c].op = "inbound"
      BY <2>7 DEF EndInbound, At
    <3>2. PICK n \in Names : n = TableOf(call[c].seen)
      BY <2>1 DEF TableOf, Row
    <3>3. \A m \in Names : /\ c \in records'[m] <=> m = n
                           /\ \A d \in Calls \ {c} : d \in records'[m] <=> d \in records[m]
      BY <2>4, <3>1, <3>2 DEF TypeOK
    <3>4. /\ log'[c].status = "success" /\ log'[c].op = "inbound"
          /\ \A d \in Calls \ {c} : log'[d] = log[d]
      BY <2>1, <3>1, LoggedType
    <3>5. ASSUME NEW d \in Calls
          PROVE  /\ call'[d] # Ended => log'[d].status = "none"
                 /\ IF log'[d].status = "success" /\ log'[d].op = "inbound"
                    THEN \E k \in Names : \A m \in Names : d \in records'[m] <=> m = k
                    ELSE \A m \in Names : d \notin records'[m]
      <4>1. CASE d = c
        BY <2>2, <3>2, <3>3, <3>4, <4>1
      <4>2. CASE d # c
        BY <2>2, <3>3, <3>4, <4>2 DEF StoreInv
      <4> QED
        BY <4>1, <4>2
    <3> QED
      BY <3>5 DEF StoreInv
  <2>8. CASE /\ EndInbound(c) \/ EndOutbound(c)
             /\ records' = records /\ log' # log
    <3>1. /\ log' = Logged(c, "success") \/ log' = Logged(c, "failed")
          /\ log' = Logged(c, "failed") \/ call[c].op # "inbound"
      <4>1. CASE EndOutbound(c)
        BY <2>8, <4>1 DEF EndOutbound, At
      <4>2. CASE EndInbound(c)
        <5>1. TableOf(call[c].seen) \in Names
          BY <2>1 DEF TableOf, Row
        <5>2. records' # [records EXCEPT ![TableOf(call[c].seen)] = @ \cup {c}]
          BY <2>4, <2>8, <5>1 DEF TypeOK
        <5> QED
          BY <2>8, <4>2, <5>2 DEF EndInbound
      <4> QED
        BY <2>8, <4>1, <4>2
    <3>2. /\ log'[c].op = call[c].op /\ log'[c].status \in {"success", "failed"}
          /\ log'[c].status = "failed" \/ log'[c].op # "inbound"
          /\ \A d \in Calls \ {c} : log'[d] = log[d]
      BY <2>1, <3>1, LoggedType
    <3>3. ~(log'[c].status = "success" /\ log'[c].op = "inbound")
      BY <3>2
    <3>4. ASSUME NEW d \in Calls
          PROVE  /\ call'[d] # Ended => log'[d].status = "none"
                 /\ IF log'[d].status = "success" /\ log'[d].op = "inbound"
                    THEN \E k \in Names : \A m \in Names : d \in records'[m] <=> m = k
                    ELSE \A m \in Names : d \notin records'[m]
      <4>1. CASE d = c
        BY <2>2, <2>4, <2>8, <3>3, <4>1
      <4>2. CASE d # c
        BY <2>2, <2>8, <3>2, <4>2 DEF StoreInv
      <4> QED
        BY <4>1, <4>2
    <3> QED
      BY <3>4 DEF StoreInv
  <2>9. UNCHANGED <<records, log>> \/ CommitDelete(c) \/ EndInbound(c) \/ EndOutbound(c)
    BY <1>3 DEF Ends, CommitCreate, CommitUpdate, CommitDeactivate, tables
  <2>10. EndOutbound(c) => records' = records
    BY DEF EndOutbound, tables
  <2> QED
    BY <2>5, <2>6, <2>7, <2>8, <2>9, <2>10
<1> QED
  BY <1>1, <1>2, <1>3, NextShape DEF Next, vars, tables

-----------------------------------------------------------------------------
IInv ==
  /\ TypeOK /\ CallInv /\ NamesAreUnique /\ TablesInv /\ ColumnsInv /\ StoreInv

LEMMA IInvHolds == Spec => []IInv
<1>1. Init => IInv
  <2> SUFFICES ASSUME Init PROVE IInv
    OBVIOUS
  <2>1. TypeOK
    BY TypeInit
  <2>2. \A c \in Calls : ~Pending(c)
    BY DEF Init, Free, Pending
  <2>3. CallInv /\ NamesAreUnique /\ TablesInv /\ ColumnsInv
    BY <2>2 DEF Init, CallInv, NamesAreUnique, TablesInv, ColumnsInv
  <2>4. StoreInv
    BY DEF Init, StoreInv, NoLog
  <2> QED
    BY <2>1, <2>3, <2>4 DEF IInv
<1>2. IInv /\ [Next]_vars => IInv'
  <2> SUFFICES ASSUME IInv, [Next]_vars PROVE IInv'
    OBVIOUS
  <2> USE DEF IInv
  <2>1. TypeOK'
    BY TypeStep
  <2>2. CallInv'
    BY CallStep
  <2>3. NamesAreUnique'
    BY NamesStep
  <2>4. TablesInv'
    BY TablesStep
  <2>5. ColumnsInv'
    BY ColumnsStep
  <2>6. StoreInv'
    BY StoreStep
  <2> QED
    BY <2>1, <2>2, <2>3, <2>4, <2>5, <2>6
<1> QED
  BY <1>1, <1>2, PTL DEF Spec

\* Every variable keeps the values its table, its request or its log allows,
\* whatever requests overlap.
THEOREM TypeInvariant == Spec => []TypeOK
<1>1. IInv => TypeOK
  BY DEF IInv
<1> QED
  BY <1>1, IInvHolds, PTL

\* A model never loses a column it needs, unless it was renamed, changed in
\* type, or created over the table of a deleted one (sync_generated_table_columns).
THEOREM TablesFit == Spec => []TableFitsModel
<1>1. IInv => TableFitsModel
  <2> SUFFICES ASSUME IInv, NEW i \in live \ (moved \cup adopted), row[i].type = "A"
               PROVE  row[i].table = row[i].name /\ HasColumns(row[i], row[i].attrs)
    BY DEF TableFitsModel
  <2>1. row[i].table = row[i].name
    BY DEF IInv, TablesInv
  <2>2. row[i].name \in Names
    BY DEF IInv, TypeOK, Row
  <2>3. TableOf(row[i]) = row[i].name
    BY <2>1, <2>2, NoneAssumption DEF TableOf
  <2> QED
    BY <2>1, <2>3 DEF HasColumns, IInv, ColumnsInv
<1> QED
  BY <1>1, IInvHolds, PTL

\* Two models share a table only if one of them was renamed or changed in type.
THEOREM TablesAreNotShared == Spec => []SharedOnlyIfMoved
<1>1. IInv => SharedOnlyIfMoved
  <2> SUFFICES ASSUME IInv, NEW i \in live, NEW j \in live, i # j,
                      row[i].table = row[j].table, row[i].table # None,
                      {i, j} \cap moved = {}
               PROVE  FALSE
    BY DEF SharedOnlyIfMoved
  <2>1. row[i].table = row[i].name /\ row[j].table = row[j].name
    BY DEF IInv, TablesInv
  <2> QED
    BY <2>1 DEF IInv, NamesAreUnique
<1> QED
  BY <1>1, IInvHolds, PTL

\* A record is stored exactly if its request is logged as a success, and once.
THEOREM StoresAreLogged == Spec => []StoredIffLogged
<1>1. IInv => StoredIffLogged
  <2> SUFFICES ASSUME IInv, NEW c \in Calls
               PROVE  Cardinality({n \in Names : c \in records[n]}) =
                        IF log[c].status = "success" /\ log[c].op = "inbound" THEN 1 ELSE 0
    BY DEF StoredIffLogged
  <2>1. CASE log[c].status = "success" /\ log[c].op = "inbound"
    <3>1. PICK n \in Names : \A m \in Names : c \in records[m] <=> m = n
      BY <2>1 DEF IInv, StoreInv
    <3>2. {m \in Names : c \in records[m]} = {n}
      BY <3>1
    <3>3. Cardinality({n}) = 1
      BY FS_Singleton
    <3> QED
      BY <2>1, <3>2, <3>3
  <2>2. CASE ~(log[c].status = "success" /\ log[c].op = "inbound")
    <3>1. {m \in Names : c \in records[m]} = {}
      BY <2>2 DEF IInv, StoreInv
    <3>2. Cardinality({}) = 0
      BY FS_EmptySet
    <3> QED
      BY <2>2, <3>1, <3>2, Zenon
  <2> QED
    BY <2>1, <2>2
<1> QED
  BY <1>1, IInvHolds, PTL

\* A deactivated model is activated again only by a request that found it
\* inactive and asked for it.
THEOREM DeactivationHolds == Spec => DeactivationSticks
<1>1. ASSUME IInv, [Next]_vars, NEW i \in live \cap live', ~row[i].active, row'[i].active
      PROVE  \E c \in Calls : /\ At(c, "loaded", {"update"})
                              /\ call[c].id = i
                              /\ ~call[c].seen.active /\ call[c].want.active
  <2>1. CASE \E c \in Calls : CommitCreate(c) /\ live' # live
    <3>1. PICK new \in Row, k \in Ids : k \notin live /\ row' = [row EXCEPT ![k] = new]
      BY <1>1, <2>1, CreateFacts DEF IInv
    <3> QED
      BY <1>1, <3>1 DEF IInv, TypeOK
  <2>2. ASSUME NEW c \in Calls, CommitUpdate(c),
               ~UNCHANGED <<row, columns, moved, adopted>>
        PROVE  \E d \in Calls : /\ At(d, "loaded", {"update"})
                                /\ call[d].id = i
                                /\ ~call[d].seen.active /\ call[d].want.active
    <3>1. PICK k \in live, seen \in Row, new \in Row :
            /\ k \in Ids /\ k = call[c].id /\ seen = call[c].seen
            /\ new.active = call[c].want.active
            /\ row' = [row EXCEPT ![k] = Written(row[k], seen, new)]
      BY <1>1, <2>2, UpdateFacts DEF IInv
    <3>2. k = i /\ row'[i] = Written(row[k], seen, new)
      BY <1>1, <3>1 DEF IInv, TypeOK
    <3>3. new.active /\ new.active # seen.active
      BY <1>1, <3>2 DEF Written, Column
    <3>4. ~seen.active
      BY <3>3 DEF Row
    <3> QED
      BY <2>2, <3>1, <3>2, <3>3, <3>4, Zenon DEF CommitUpdate
  <2>3. CASE /\ ~\E c \in Calls : CommitCreate(c) /\ live' # live
             /\ ~\E c \in Calls :
                   CommitUpdate(c) /\ ~UNCHANGED <<row, columns, moved, adopted>>
    BY <1>1, <2>3, OtherSteps DEF IInv
  <2> QED
    BY <2>1, <2>2, <2>3
<1>2. IInv /\ [Next]_vars =>
        [\A i \in live \cap live' :
           ~row[i].active /\ row'[i].active =>
             \E c \in Calls : /\ At(c, "loaded", {"update"})
                              /\ call[c].id = i
                              /\ ~call[c].seen.active /\ call[c].want.active]_vars
  BY <1>1
<1> QED
  BY <1>2, IInvHolds, PTL DEF Spec, DeactivationSticks

-----------------------------------------------------------------------------
\* The row of one model is written, and it keeps its name or gets a free one.
LEMMA ChangeRefined ==
  ASSUME IInv, NEW i \in live, NEW r \in Row,
         row' = [row EXCEPT ![i] = r], UNCHANGED <<live, created>>,
         \A j \in live \ {i} : row[j].name # r.name
  PROVE  Registry!Change(i)
<1> USE DEF IInv, TypeOK
<1>1. i \in Ids /\ r.name \in Names /\ r.active \in BOOLEAN
  BY DEF Row
<1>2. [j \in Ids |-> row'[j].name] = [[j \in Ids |-> row[j].name] EXCEPT ![i] = r.name]
  BY <1>1
<1>3. [j \in Ids |-> row'[j].active] = [[j \in Ids |-> row[j].active] EXCEPT ![i] = r.active]
  BY <1>1
<1>4. Registry!Free(r.name, i)
  BY DEF Registry!Free
<1> QED
  BY <1>1, <1>2, <1>3, <1>4, Zenon DEF Registry!Change

\* The endpoints implement the registry: every end of a request is one of its
\* steps or none of them.
THEOREM EndpointsImplementRegistry == Spec => ImplementsRegistry
<1>1. ASSUME Init PROVE Registry!Init
  <2>1. row \in [Ids -> Row] /\ live = {} /\ created = 0
    BY <1>1, TypeInit DEF Init, TypeOK
  <2>2. \A i \in Ids : row[i].name \in Names /\ row[i].active \in BOOLEAN
    BY <2>1 DEF Row
  <2>3. 1..created \ live = {}
    BY <2>1
  <2> QED
    BY <2>1, <2>2, <2>3 DEF Registry!Init
<1>2. ASSUME IInv, [Next]_vars PROVE [Registry!Next]_Registry!registryVars
  <2> USE <1>2
  <2>1. CASE UNCHANGED <<row, live, created>>
    BY <2>1, Zenon DEF Registry!registryVars
  <2>2. ASSUME NEW c \in Calls, CommitCreate(c), live' # live PROVE Registry!Next
    <3>1. PICK new \in Row, i \in Ids :
            /\ i = created + 1 /\ i \notin live /\ created' = i /\ live' = live \cup {i}
            /\ \A j \in live : row[j].name # new.name
            /\ row' = [row EXCEPT ![i] = new]
      BY <2>2, CreateFacts DEF IInv
    <3>2. /\ 1..created' \ live' = 1..created \ live
          /\ i \in Ids \ (live \cup (1..created \ live))
      BY <3>1, MaxModelsAssumption DEF IInv, TypeOK
    <3>3. [j \in Ids |-> row'[j].name] = [[j \in Ids |-> row[j].name] EXCEPT ![i] = new.name]
      BY <3>1 DEF IInv, TypeOK
    <3>4. [j \in Ids |-> row'[j].active] = [[j \in Ids |-> row[j].active] EXCEPT ![i] = new.active]
      BY <3>1 DEF IInv, TypeOK
    <3>5. new.name \in Names /\ new.active \in BOOLEAN
      BY DEF Row
    <3>6. Registry!Free(new.name, i)
      BY <3>1 DEF Registry!Free, IInv, TypeOK
    <3>7. Registry!Enter(i)
      BY <3>1, <3>2, <3>3, <3>4, <3>5, <3>6, Zenon DEF Registry!Enter
    <3> QED
      BY <3>1, <3>7 DEF Registry!Next
  <2>3. ASSUME NEW c \in Calls, CommitUpdate(c), row' # row PROVE Registry!Next
    <3>1. PICK i \in live, seen \in Row, new \in Row :
            /\ i \in Ids /\ (new.name # seen.name => ~Taken(new.name, i))
            /\ row' = [row EXCEPT ![i] = Written(row[i], seen, new)]
            /\ Written(row[i], seen, new) \in Row
      BY <2>3, UpdateFacts DEF IInv
    <3>3. \A j \in live \ {i} : row[j].name # Written(row[i], seen, new).name
      BY <3>1, NameIsFree DEF IInv
    <3>4. Registry!Change(i)
      BY <2>3, <3>1, <3>3, ChangeRefined DEF CommitUpdate
    <3> QED
      BY <3>1, <3>4 DEF Registry!Next
  <2>4. ASSUME NEW c \in Calls, CommitDeactivate(c), row' # row PROVE Registry!Next
    <3>1. /\ call[c].op = "deactivate" /\ Pending(c)
          /\ call[c].seen \in Row /\ call[c].want \in Row
      <4>1. Ends(c)
        BY <2>4 DEF Ends
      <4> QED
        BY <2>4, <4>1, EndFacts DEF CommitDeactivate, At, IInv
    <3>2. call[c].want.name = call[c].seen.name
      BY <3>1 DEF IInv, CallInv, Static
    <3>3. call[c].id \in live /\ UNCHANGED <<live, created>>
      BY <2>4 DEF CommitDeactivate
    <3>4. PICK i \in live : i = call[c].id
      BY <3>3
    <3>4a. PICK w : w = Written(row[i], call[c].seen, call[c].want)
      OBVIOUS
    <3>5. w \in Row /\ w.name = row[i].name
      <4>1. row[i] \in Row
        BY DEF IInv, TypeOK
      <4> QED
        BY <3>1, <3>2, <3>4, <3>4a, <4>1, RowFacts DEF Written, Column
    <3>6. row' = [row EXCEPT ![i] = w]
      BY <2>4, <3>3, <3>4, <3>4a DEF CommitDeactivate
    <3>7. Registry!Change(i)
      BY <3>3, <3>5, <3>6, ChangeRefined DEF IInv, NamesAreUnique
    <3> QED
      BY <3>7 DEF Registry!Next, IInv, TypeOK
  <2>5. ASSUME NEW c \in Calls, CommitDelete(c), live' # live PROVE Registry!Next
    <3>1. PICK i \in live : live' = live \ {i} /\ UNCHANGED <<row, created>>
      BY <2>5 DEF CommitDelete
    <3>2. i \in Ids /\ 1..created' \ live' = (1..created \ live) \cup {i}
      BY <3>1 DEF IInv, TypeOK, NamesAreUnique
    <3>3. Registry!Remove(i)
      BY <3>1, <3>2, Zenon DEF Registry!Remove
    <3> QED
      BY <3>2, <3>3 DEF Registry!Next
  <2>6. CASE ~UNCHANGED <<row, live, created>>
    <3>1. PICK c \in Calls : Starts(c) \/ Ends(c)
      BY <2>6, NextShape DEF Next, vars
    <3>2. ~Starts(c)
      BY <2>6, StartFacts DEF Unlogged, IInv
    <3>4. CommitCreate(c) => live' # live
      <4>1. created + 1 \notin live
        BY DEF IInv, TypeOK, NamesAreUnique
      <4> QED
        BY <2>6, <4>1 DEF CommitCreate
    <3>3. \/ CommitCreate(c) /\ live' # live
          \/ CommitUpdate(c) /\ row' # row
          \/ CommitDeactivate(c) /\ row' # row
          \/ CommitDelete(c) /\ live' # live
      BY <2>6, <3>1, <3>2, <3>4 DEF Ends, CommitUpdate, CommitDeactivate, CommitDelete,
         EndInbound, EndOutbound
    <3> QED
      BY <2>2, <2>3, <2>4, <2>5, <3>3
  <2> QED
    BY <2>1, <2>6
<1> QED
  BY <1>1, <1>2, IInvHolds, PTL DEF Spec, ImplementsRegistry, Registry!Spec

-----------------------------------------------------------------------------
(***************************************************************************)
(* Type B.  Planning a mapping, writing its SQL and joining its rows are   *)
(* loops over sequences of any length.  What a loop does is proved by      *)
(* induction on its rounds, with the property given as the set of the      *)
(* rounds after which it holds.                                            *)
(***************************************************************************)
\* Induction over an interval, for a property given as a set.
LEMMA IntervalInduction ==
  ASSUME NEW N \in Nat, NEW S, 0 \in S, \A n \in 1..N : n - 1 \in S => n \in S
  PROVE  0..N \subseteq S
<1> DEFINE Less == {w \in Nat \X Nat : w[1] < w[2]}
<1> DEFINE Missing == {n \in 0..N : n \notin S}
<1>1. IsWellFoundedOn(Less, Nat)
  BY NatLessThanWellFounded DEF OpToRel
<1>2. SUFFICES ASSUME Missing # {} PROVE FALSE
  OBVIOUS
<1>3. PICK m \in Missing : \A n \in Missing : <<n, m>> \notin Less
  <2> HIDE DEF Less
  <2>1. Missing \subseteq Nat
    OBVIOUS
  <2> QED
    BY <1>1, <1>2, <2>1, WFMin
<1>4. m \in 1..N /\ m - 1 \in 0..N /\ m - 1 \in Nat /\ m \in Nat /\ m - 1 < m
  OBVIOUS
<1>5. <<m - 1, m>> \in Less
  BY <1>4
<1>6. m - 1 \notin Missing
  BY <1>3, <1>5
<1> QED
  BY <1>4, <1>6

\* A loop of N rounds over states in T, given by what each round does to a state.
Rounds(T, N) == [T \X (1..N) -> T]

IsLoop(f, T, start, N, step) ==
  /\ f \in [0..N -> T]
  /\ f[0] = start
  /\ \A n \in 1..N : f[n] = step[<<f[n - 1], n>>]

LEMMA LoopExists ==
  ASSUME NEW T, NEW start \in T, NEW N \in Nat, NEW step \in Rounds(T, N)
  PROVE  \E f : IsLoop(f, T, start, N, step)
<1> USE DEF Rounds
<1> DEFINE Run(f, m) == f[0] = start /\ \A n \in 1..m : f[n] = step[<<f[n - 1], n>>]
<1> DEFINE S == {m \in 0..N : \E f : f \in [0..m -> T] /\ Run(f, m)}
<1>1. 0 \in S
  <2> DEFINE f == [n \in 0..0 |-> start]
  <2>1. f \in [0..0 -> T] /\ Run(f, 0)
    OBVIOUS
  <2> HIDE DEF f, Run
  <2> QED
    BY <2>1
<1>2. ASSUME NEW m \in 1..N, m - 1 \in S PROVE m \in S
  <2>1. PICK f : f \in [0..(m - 1) -> T] /\ Run(f, m - 1)
    BY <1>2
  <2> DEFINE g == [n \in 0..m |-> IF n = m THEN step[<<f[m - 1], m>>] ELSE f[n]]
  <2>2. /\ m - 1 \in 0..(m - 1) /\ m \in 0..m /\ 0 \in 0..m /\ 0 # m
        /\ \A n \in 0..m : n # m => n \in 0..(m - 1)
        /\ \A n \in 1..m : n - 1 \in 0..m /\ n - 1 # m /\ n \in 0..m /\ (n # m => n \in 1..(m - 1))
    OBVIOUS
  <2>3. g \in [0..m -> T]
    BY <2>1, <2>2
  <2>4. g[m] = step[<<f[m - 1], m>>] /\ \A n \in 0..(m - 1) : g[n] = f[n]
    BY <2>2
  <2> HIDE DEF g
  <2>5. g[0] = start
    BY <2>1, <2>4, <2>2
  <2>6. ASSUME NEW n \in 1..m PROVE g[n] = step[<<g[n - 1], n>>]
    <3>1. g[n - 1] = f[n - 1]
      BY <2>2, <2>4
    <3>2. CASE n = m
      BY <2>4, <3>1, <3>2
    <3>3. CASE n # m
      BY <2>1, <2>2, <2>4, <3>1, <3>3
    <3> QED
      BY <3>2, <3>3
  <2>7. Run(g, m)
    BY <2>5, <2>6
  <2> HIDE DEF Run
  <2> QED
    BY <2>3, <2>7
<1>3. N \in S
  <2> HIDE DEF S
  <2> QED
    BY <1>1, <1>2, IntervalInduction
<1> QED
  BY <1>3 DEF IsLoop

\* What a plan of _resolve_join_plan is.
Plans == [added : SUBSET Tables, ordered : Seq(Edge), still : Seq(Edge), conflict : BOOLEAN]

LEMMA EdgeShape ==
  ASSUME NEW e \in Edge
  PROVE  /\ e.right \in Tables /\ e.left \in TableNames /\ e.how \in Hows
         /\ e.how.type \in {"left", "inner"}
         /\ e.how.lc \in Columns /\ e.how.rc \in Columns
BY HowsAssumption DEF Edge

LEMMA PlaceTyped ==
  ASSUME NEW es, NEW as, NEW plan \in Plans, NEW e \in Edge
  PROVE  Place(es, as, plan, e) \in Plans
<1>1. /\ Append(plan.still, e) \in Seq(Edge) /\ Append(plan.ordered, e) \in Seq(Edge)
      /\ plan.added \cup {e.right} \in SUBSET Tables
      /\ plan.added \in SUBSET Tables /\ plan.ordered \in Seq(Edge) /\ plan.still \in Seq(Edge)
  BY EdgeShape DEF Plans
<1>2. CASE LeftTable(es, as, e) \notin plan.added
  BY <1>1, <1>2 DEF Place, Plans
<1>3. CASE LeftTable(es, as, e) \in plan.added /\ e.right \notin plan.added
  BY <1>1, <1>3 DEF Place, Plans
<1>4. CASE LeftTable(es, as, e) \in plan.added /\ e.right \in plan.added
  BY <1>1, <1>4 DEF Place, Plans
<1> QED
  BY <1>2, <1>3, <1>4

LEMMA EmptySeq == <<>> \in Seq(Edge)
OBVIOUS

LEMMA CleanTyped ==
  ASSUME NEW plan \in Plans
  PROVE  [plan EXCEPT !.still = <<>>] \in Plans
BY EmptySeq DEF Plans

\* The states of a loop are in T if each round leads from T to T.
LEMMA LoopTyped ==
  ASSUME NEW T, NEW N \in Nat, NEW run, run = [n \in 0..N |-> run[n]], run[0] \in T,
         \A n \in 1..N : run[n - 1] \in T => run[n] \in T
  PROVE  run \in [0..N -> T]
<1> DEFINE S == {n \in 0..N : run[n] \in T}
<1>1. 0..N \subseteq S
  <2>1. 0 \in S
    OBVIOUS
  <2>2. ASSUME NEW n \in 1..N, n - 1 \in S PROVE n \in S
    BY <2>2
  <2> HIDE DEF S
  <2> QED
    BY <2>1, <2>2, IntervalInduction
<1> QED
  BY <1>1

\* The plan after each join of a pass, and after each pass.
IsPass(es, as, plan, upto) ==
  /\ upto \in [0..Len(plan.still) -> Plans]
  /\ upto[0] = [plan EXCEPT !.still = <<>>]
  /\ \A n \in 1..Len(plan.still) : upto[n] = Place(es, as, upto[n - 1], plan.still[n])

LEMMA PassLoop ==
  ASSUME NEW es, NEW as, NEW plan \in Plans
  PROVE  IsPass(es, as, plan, PassStates(es, as, plan))
<1> DEFINE N == Len(plan.still)
           upto == PassStates(es, as, plan)
           start == [plan EXCEPT !.still = <<>>]
           step == [q \in Plans \X (1..N) |-> Place(es, as, q[1], plan.still[q[2]])]
           body(g) == [n \in 0..N |-> IF n = 0 THEN start ELSE Place(es, as, g[n - 1], plan.still[n])]
<1>1. start \in Plans
  BY CleanTyped
<1>2. N \in Nat /\ \A n \in 1..N : plan.still[n] \in Edge
  BY DEF Plans
<1>3. ASSUME NEW s \in Plans, NEW n \in 1..N PROVE Place(es, as, s, plan.still[n]) \in Plans
  BY <1>2, PlaceTyped
<1>4. \E f : f = body(f)
  <2>1. step \in Rounds(Plans, N)
    BY <1>3 DEF Rounds
  <2>2. PICK f : IsLoop(f, Plans, start, N, step)
    <3> HIDE DEF step, start, N
    <3> QED
      BY <1>1, <1>2, <2>1, LoopExists
  <2>3. f \in [0..N -> Plans] /\ f[0] = start
    BY <2>2 DEF IsLoop
  <2>4. ASSUME NEW n \in 1..N PROVE f[n] = Place(es, as, f[n - 1], plan.still[n])
    <3>1. f[n] = step[<<f[n - 1], n>>]
      BY <2>2, Zenon DEF IsLoop
    <3>2. n - 1 \in 0..N
      BY <1>2
    <3>3. f[n - 1] \in Plans
      BY <2>3, <3>2
    <3> QED
      BY <3>1, <3>3
  <2>5. f = body(f)
    <3>1. ASSUME NEW n \in 0..N PROVE f[n] = body(f)[n]
      BY <1>2, <2>3, <2>4
    <3> QED
      BY <2>3, <3>1
  <2> QED
    BY <2>5
<1>5. upto = body(upto)
  BY <1>4, Zenon DEF PassStates
<1> HIDE DEF upto, start, N, body
<1>6. upto[0] = start
  <2>1. body(upto)[0] = start
    BY <1>2 DEF body
  <2> QED
    BY <1>5, <2>1
<1>7. ASSUME NEW n \in 1..N PROVE upto[n] = Place(es, as, upto[n - 1], plan.still[n])
  <2>1. n \in 0..N /\ n # 0
    BY <1>2
  <2>2. body(upto)[n] = Place(es, as, upto[n - 1], plan.still[n])
    BY <2>1 DEF body
  <2> QED
    BY <1>5, <2>2
<1>8. upto = [n \in 0..N |-> upto[n]]
  <2>1. body(upto) = [n \in 0..N |-> body(upto)[n]]
    BY DEF body
  <2> QED
    BY <1>5, <2>1
<1>9. \A n \in 1..N : upto[n - 1] \in Plans => upto[n] \in Plans
  BY <1>3, <1>7
<1>10. upto \in [0..N -> Plans]
  BY <1>1, <1>2, <1>6, <1>8, <1>9, LoopTyped
<1> QED
  BY <1>6, <1>7, <1>10 DEF IsPass, start, N, upto

LEMMA PassTyped ==
  ASSUME NEW es, NEW as, NEW plan \in Plans
  PROVE  Pass(es, as, plan) \in Plans
<1>1. Len(plan.still) \in 0..Len(plan.still)
  BY DEF Plans
<1>2. PassStates(es, as, plan) \in [0..Len(plan.still) -> Plans]
  BY PassLoop DEF IsPass
<1> QED
  BY <1>1, <1>2 DEF Pass

IsPlanning(es, as, pass) ==
  /\ pass \in [0..Len(es) -> Plans]
  /\ pass[0] = StartPlan(es)
  /\ \A n \in 1..Len(es) : pass[n] = Pass(es, as, pass[n - 1])

LEMMA PlannedLoop ==
  ASSUME NEW es \in Seq(Edge), NEW as
  PROVE  IsPlanning(es, as, PlanStates(es, as))
<1> DEFINE N == Len(es)
           pass == PlanStates(es, as)
           start == StartPlan(es)
           step == [q \in Plans \X (1..N) |-> Pass(es, as, q[1])]
           body(g) == [n \in 0..N |-> IF n = 0 THEN start ELSE Pass(es, as, g[n - 1])]
<1>1. start \in Plans
  BY BaseAssumption, EmptySeq DEF StartPlan, Plans
<1>2. N \in Nat
  OBVIOUS
<1>3. ASSUME NEW s \in Plans, NEW n \in 1..N PROVE Pass(es, as, s) \in Plans
  BY PassTyped
<1>4. \E f : f = body(f)
  <2>1. step \in Rounds(Plans, N)
    BY <1>3 DEF Rounds
  <2>2. PICK f : IsLoop(f, Plans, start, N, step)
    <3> HIDE DEF step, start, N
    <3> QED
      BY <1>1, <1>2, <2>1, LoopExists
  <2>3. f \in [0..N -> Plans] /\ f[0] = start
    BY <2>2 DEF IsLoop
  <2>4. ASSUME NEW n \in 1..N PROVE f[n] = Pass(es, as, f[n - 1])
    <3>1. f[n] = step[<<f[n - 1], n>>]
      BY <2>2, Zenon DEF IsLoop
    <3>2. n - 1 \in 0..N
      BY <1>2
    <3>3. f[n - 1] \in Plans
      BY <2>3, <3>2
    <3> QED
      BY <3>1, <3>3
  <2>5. f = body(f)
    <3>1. ASSUME NEW n \in 0..N PROVE f[n] = body(f)[n]
      BY <1>2, <2>3, <2>4
    <3> QED
      BY <2>3, <3>1
  <2> QED
    BY <2>5
<1>5. pass = body(pass)
  BY <1>4, Zenon DEF PlanStates
<1> HIDE DEF pass, start, N, body
<1>6. pass[0] = start
  <2>1. body(pass)[0] = start
    BY <1>2 DEF body
  <2> QED
    BY <1>5, <2>1
<1>7. ASSUME NEW n \in 1..N PROVE pass[n] = Pass(es, as, pass[n - 1])
  <2>1. n \in 0..N /\ n # 0
    BY <1>2
  <2>2. body(pass)[n] = Pass(es, as, pass[n - 1])
    BY <2>1 DEF body
  <2> QED
    BY <1>5, <2>2
<1>8. pass = [n \in 0..N |-> pass[n]]
  <2>1. body(pass) = [n \in 0..N |-> body(pass)[n]]
    BY DEF body
  <2> QED
    BY <1>5, <2>1
<1>9. \A n \in 1..N : pass[n - 1] \in Plans => pass[n] \in Plans
  BY <1>3, <1>7
<1>10. pass \in [0..N -> Plans]
  BY <1>1, <1>2, <1>6, <1>8, <1>9, LoopTyped
<1> QED
  BY <1>6, <1>7, <1>10 DEF IsPlanning, start, N, pass

\* What generate_type_b_sql has written, and the joins that wait.
Sqls == [present : SUBSET TableNames, lines : Seq(Edge), still : Seq(Edge)]

LEMMA WriteTyped ==
  ASSUME NEW sql \in Sqls, NEW e \in Edge
  PROVE  Write(sql, e) \in Sqls
<1>1. /\ Append(sql.still, e) \in Seq(Edge) /\ Append(sql.lines, e) \in Seq(Edge)
      /\ sql.present \cup {Name[e.right]} \in SUBSET TableNames
      /\ sql.present \in SUBSET TableNames /\ sql.lines \in Seq(Edge) /\ sql.still \in Seq(Edge)
  BY EdgeShape DEF Sqls, TableNames
<1>2. CASE e.left \in sql.present
  BY <1>1, <1>2 DEF Write, Sqls
<1>3. CASE e.left \notin sql.present
  BY <1>1, <1>3 DEF Write, Sqls
<1> QED
  BY <1>2, <1>3

\* The text after each join of a pass, and after each pass.
IsSqlPass(sql, upto) ==
  /\ upto \in [0..Len(sql.still) -> Sqls]
  /\ upto[0] = [sql EXCEPT !.still = <<>>]
  /\ \A n \in 1..Len(sql.still) : upto[n] = Write(upto[n - 1], sql.still[n])

LEMMA SqlPassLoop ==
  ASSUME NEW sql \in Sqls
  PROVE  IsSqlPass(sql, SqlPassStates(sql))
<1> DEFINE N == Len(sql.still)
           upto == SqlPassStates(sql)
           start == [sql EXCEPT !.still = <<>>]
           step == [q \in Sqls \X (1..N) |-> Write(q[1], sql.still[q[2]])]
           body(g) == [n \in 0..N |-> IF n = 0 THEN start ELSE Write(g[n - 1], sql.still[n])]
<1>1. start \in Sqls
  BY EmptySeq DEF Sqls
<1>2. N \in Nat /\ \A n \in 1..N : sql.still[n] \in Edge
  BY DEF Sqls
<1>3. ASSUME NEW s \in Sqls, NEW n \in 1..N PROVE Write(s, sql.still[n]) \in Sqls
  BY <1>2, WriteTyped
<1>4. \E f : f = body(f)
  <2>1. step \in Rounds(Sqls, N)
    BY <1>3 DEF Rounds
  <2>2. PICK f : IsLoop(f, Sqls, start, N, step)
    <3> HIDE DEF step, start, N
    <3> QED
      BY <1>1, <1>2, <2>1, LoopExists
  <2>3. f \in [0..N -> Sqls] /\ f[0] = start
    BY <2>2 DEF IsLoop
  <2>4. ASSUME NEW n \in 1..N PROVE f[n] = Write(f[n - 1], sql.still[n])
    <3>1. f[n] = step[<<f[n - 1], n>>]
      BY <2>2, Zenon DEF IsLoop
    <3>2. n - 1 \in 0..N
      BY <1>2
    <3>3. f[n - 1] \in Sqls
      BY <2>3, <3>2
    <3> QED
      BY <3>1, <3>3
  <2>5. f = body(f)
    <3>1. ASSUME NEW n \in 0..N PROVE f[n] = body(f)[n]
      BY <1>2, <2>3, <2>4
    <3> QED
      BY <2>3, <3>1
  <2> QED
    BY <2>5
<1>5. upto = body(upto)
  BY <1>4, Zenon DEF SqlPassStates
<1> HIDE DEF upto, start, N, body
<1>6. upto[0] = start
  <2>1. body(upto)[0] = start
    BY <1>2 DEF body
  <2> QED
    BY <1>5, <2>1
<1>7. ASSUME NEW n \in 1..N PROVE upto[n] = Write(upto[n - 1], sql.still[n])
  <2>1. n \in 0..N /\ n # 0
    BY <1>2
  <2>2. body(upto)[n] = Write(upto[n - 1], sql.still[n])
    BY <2>1 DEF body
  <2> QED
    BY <1>5, <2>2
<1>8. upto = [n \in 0..N |-> upto[n]]
  <2>1. body(upto) = [n \in 0..N |-> body(upto)[n]]
    BY DEF body
  <2> QED
    BY <1>5, <2>1
<1>9. \A n \in 1..N : upto[n - 1] \in Sqls => upto[n] \in Sqls
  BY <1>3, <1>7
<1>10. upto \in [0..N -> Sqls]
  BY <1>1, <1>2, <1>6, <1>8, <1>9, LoopTyped
<1> QED
  BY <1>6, <1>7, <1>10 DEF IsSqlPass, start, N, upto

LEMMA SqlPassTyped ==
  ASSUME NEW sql \in Sqls
  PROVE  SqlPass(sql) \in Sqls
<1>1. Len(sql.still) \in 0..Len(sql.still)
  BY DEF Sqls
<1>2. SqlPassStates(sql) \in [0..Len(sql.still) -> Sqls]
  BY SqlPassLoop DEF IsSqlPass
<1> QED
  BY <1>1, <1>2 DEF SqlPass

IsSql(es, pass) ==
  /\ pass \in [0..Len(es) -> Sqls]
  /\ pass[0] = StartSql(es)
  /\ \A n \in 1..Len(es) : pass[n] = SqlPass(pass[n - 1])

LEMMA SqlLoop ==
  ASSUME NEW es \in Seq(Edge)
  PROVE  IsSql(es, SqlStates(es))
<1> DEFINE N == Len(es)
           pass == SqlStates(es)
           start == StartSql(es)
           step == [q \in Sqls \X (1..N) |-> SqlPass(q[1])]
           body(g) == [n \in 0..N |-> IF n = 0 THEN start ELSE SqlPass(g[n - 1])]
<1>1. start \in Sqls
  BY BaseAssumption, EmptySeq DEF StartSql, Sqls, TableNames
<1>2. N \in Nat
  OBVIOUS
<1>3. ASSUME NEW s \in Sqls, NEW n \in 1..N PROVE SqlPass(s) \in Sqls
  BY SqlPassTyped
<1>4. \E f : f = body(f)
  <2>1. step \in Rounds(Sqls, N)
    BY <1>3 DEF Rounds
  <2>2. PICK f : IsLoop(f, Sqls, start, N, step)
    <3> HIDE DEF step, start, N
    <3> QED
      BY <1>1, <1>2, <2>1, LoopExists
  <2>3. f \in [0..N -> Sqls] /\ f[0] = start
    BY <2>2 DEF IsLoop
  <2>4. ASSUME NEW n \in 1..N PROVE f[n] = SqlPass(f[n - 1])
    <3>1. f[n] = step[<<f[n - 1], n>>]
      BY <2>2, Zenon DEF IsLoop
    <3>2. n - 1 \in 0..N
      BY <1>2
    <3>3. f[n - 1] \in Sqls
      BY <2>3, <3>2
    <3> QED
      BY <3>1, <3>3
  <2>5. f = body(f)
    <3>1. ASSUME NEW n \in 0..N PROVE f[n] = body(f)[n]
      BY <1>2, <2>3, <2>4
    <3> QED
      BY <2>3, <3>1
  <2> QED
    BY <2>5
<1>5. pass = body(pass)
  BY <1>4, Zenon DEF SqlStates
<1> HIDE DEF pass, start, N, body
<1>6. pass[0] = start
  <2>1. body(pass)[0] = start
    BY <1>2 DEF body
  <2> QED
    BY <1>5, <2>1
<1>7. ASSUME NEW n \in 1..N PROVE pass[n] = SqlPass(pass[n - 1])
  <2>1. n \in 0..N /\ n # 0
    BY <1>2
  <2>2. body(pass)[n] = SqlPass(pass[n - 1])
    BY <2>1 DEF body
  <2> QED
    BY <1>5, <2>2
<1>8. pass = [n \in 0..N |-> pass[n]]
  <2>1. body(pass) = [n \in 0..N |-> body(pass)[n]]
    BY DEF body
  <2> QED
    BY <1>5, <2>1
<1>9. \A n \in 1..N : pass[n - 1] \in Sqls => pass[n] \in Sqls
  BY <1>3, <1>7
<1>10. pass \in [0..N -> Sqls]
  BY <1>1, <1>2, <1>6, <1>8, <1>9, LoopTyped
<1> QED
  BY <1>6, <1>7, <1>10 DEF IsSql, start, N, pass

-----------------------------------------------------------------------------
\* What Append does to the elements of a sequence.
LEMMA AppendedElements ==
  ASSUME NEW T, NEW seq \in Seq(T), NEW e \in T
  PROVE  /\ Elements(Append(seq, e)) = Elements(seq) \cup {e}
         /\ Len(Append(seq, e)) = Len(seq) + 1
         /\ Elements(seq) \subseteq T /\ Elements(<<>>) = {}
<1>1. \A i \in 1..Len(seq) : Append(seq, e)[i] = seq[i]
  OBVIOUS
<1>2. Append(seq, e)[Len(seq) + 1] = e /\ DOMAIN Append(seq, e) = 1..(Len(seq) + 1)
  OBVIOUS
<1>3. DOMAIN seq = 1..Len(seq) /\ Len(seq) \in Nat /\ \A i \in 1..Len(seq) : seq[i] \in T
  OBVIOUS
<1> QED
  BY <1>1, <1>2, <1>3 DEF Elements

\* A mapping whose left tables are resolved.
Joint(es, as) == es \in Seq(Edge) /\ as \subseteq Tables /\ Resolved(es, as)

LEMMA LeftTableIs ==
  ASSUME NEW es, NEW as, Joint(es, as), NEW e \in Elements(es)
  PROVE  /\ LeftTable(es, as, e) \in Known(es, as)
         /\ Known(es, as) \subseteq Tables
         /\ Name[LeftTable(es, as, e)] = e.left
         /\ e \in Edge
<1>1. PICK i \in DOMAIN es : e = es[i]
  BY DEF Elements
<1>2. \A d \in Elements(es) : d \in Edge
  BY DEF Joint, Elements
<1>3. Known(es, as) \subseteq Tables
  BY <1>2, BaseAssumption, EdgeShape DEF Joint, Known, Rights
<1>4. Cardinality(Candidates(es, as, e)) = 1 /\ IsFiniteSet(Candidates(es, as, e))
  <2>1. Candidates(es, as, e) \subseteq Tables
    BY <1>3 DEF Candidates
  <2>2. Cardinality(Candidates(es, as, es[i])) = 1
    BY <1>1 DEF Joint, Resolved
  <2> QED
    BY <1>1, <2>1, <2>2, TablesAssumption, FS_Subset
<1>5. Candidates(es, as, e) # {}
  <2> DEFINE size == Cardinality(Candidates(es, as, e))
  <2>1. size = 1
    BY <1>4
  <2> HIDE DEF size
  <2>2. size # 0
    BY <2>1
  <2> QED
    BY <2>2, FS_EmptySet DEF size
<1>6. LeftTable(es, as, e) \in Candidates(es, as, e)
  BY <1>5, Zenon DEF LeftTable
<1> QED
  BY <1>2, <1>3, <1>6 DEF Candidates

\* Two joins do the same exactly if they are one in the graph.
GraphEdge(es, as, e) == [left |-> LeftTable(es, as, e), right |-> e.right,
                         type |-> e.how.type, lc |-> e.how.lc, rc |-> e.how.rc]

LEMMA GraphEdges ==
  ASSUME NEW es, NEW as
  PROVE  Distinct(es, as) = {GraphEdge(es, as, e) : e \in Elements(es)}
BY DEF Distinct, GraphEdge, Elements

LEMMA SameIsOne ==
  ASSUME NEW es, NEW as, Joint(es, as), NEW d \in Elements(es), NEW e \in Elements(es)
  PROVE  Same(d, e) <=> GraphEdge(es, as, d) = GraphEdge(es, as, e)
<1>1. ASSUME d.left = e.left PROVE LeftTable(es, as, d) = LeftTable(es, as, e)
  BY <1>1 DEF LeftTable, Candidates
<1>2. Same(d, e) => GraphEdge(es, as, d) = GraphEdge(es, as, e)
  BY <1>1 DEF Same, GraphEdge
<1>3. ASSUME GraphEdge(es, as, d) = GraphEdge(es, as, e) PROVE Same(d, e)
  <2>1. /\ LeftTable(es, as, d) = LeftTable(es, as, e) /\ d.right = e.right
        /\ d.how.type = e.how.type /\ d.how.lc = e.how.lc /\ d.how.rc = e.how.rc
    BY <1>3 DEF GraphEdge
  <2>2. d.left = e.left
    BY <2>1, LeftTableIs
  <2> QED
    BY <2>1, <2>2 DEF Same
<1> QED
  BY <1>2, <1>3

\* The tables that the joins reach.
LEMMA Reach ==
  ASSUME NEW es, NEW as, Joint(es, as)
  PROVE  /\ ReachedFromBase(Distinct(es, as)) \subseteq Tables
         /\ Base \in ReachedFromBase(Distinct(es, as))
         /\ \A e \in Elements(es) :
              LeftTable(es, as, e) \in ReachedFromBase(Distinct(es, as)) =>
                e.right \in ReachedFromBase(Distinct(es, as))
         /\ \A set \in SUBSET Tables :
              Base \in set /\ (\A e \in Elements(es) : LeftTable(es, as, e) \in set => e.right \in set)
                => ReachedFromBase(Distinct(es, as)) \subseteq set
<1> DEFINE closed(set) == Base \in set /\ \A d \in Distinct(es, as) : d.left \in set => d.right \in set
<1>1. ASSUME NEW set
      PROVE  closed(set) <=>
               /\ Base \in set
               /\ \A e \in Elements(es) : LeftTable(es, as, e) \in set => e.right \in set
  <2>1. \A e \in Elements(es) : /\ GraphEdge(es, as, e).left = LeftTable(es, as, e)
                                 /\ GraphEdge(es, as, e).right = e.right
    BY DEF GraphEdge
  <2> QED
    BY <2>1, GraphEdges
<1>2. ReachedFromBase(Distinct(es, as)) = {t \in Tables : \A set \in SUBSET Tables : closed(set) => t \in set}
  BY DEF ReachedFromBase
<1> HIDE DEF closed
<1>3. \A e \in Elements(es) : e.right \in Tables
  BY LeftTableIs, EdgeShape
<1> QED
  BY <1>1, <1>2, <1>3, BaseAssumption

\* What a plan says of the joins of a mapping when all but rest were looked at.
Placed(es, as, plan, rest) ==
  /\ Elements(plan.ordered) \subseteq Elements(es)
  /\ Elements(plan.still) \subseteq Elements(es)
  /\ plan.added = {Base} \cup Rights(plan.ordered)
  /\ plan.added \subseteq ReachedFromBase(Distinct(es, as))
  /\ \A o \in Elements(plan.ordered) : o.right # Base
  /\ \A o, p \in Elements(plan.ordered) : o.right = p.right => o = p
  /\ \A e \in Elements(es) \ (rest \cup Elements(plan.still)) :
       /\ LeftTable(es, as, e) \in plan.added
       /\ plan.conflict \/ \E o \in Elements(plan.ordered) : Same(o, e)
  /\ plan.conflict => \E d, e \in Elements(es) :
       d.right = Base \/ (d.right = e.right /\ ~Same(d, e))

LEMMA SameSelf ==
  ASSUME NEW e
  PROVE  Same(e, e)
BY DEF Same

\* What each way of placing a join does to the plan.
Waited(plan, e, q) ==
  /\ q.added = plan.added /\ q.ordered = plan.ordered /\ q.conflict = plan.conflict
  /\ q.still = Append(plan.still, e)

LEMMA PlaceWaits ==
  ASSUME NEW es, NEW as, NEW plan \in Plans, NEW e \in Edge, LeftTable(es, as, e) \notin plan.added
  PROVE  Waited(plan, e, Place(es, as, plan, e))
<1>1. Place(es, as, plan, e) = [plan EXCEPT !.still = Append(@, e)]
  BY Zenon DEF Place
<1> QED
  BY <1>1 DEF Plans, Waited

Emitted(plan, e, q) ==
  /\ q.added = plan.added \cup {e.right} /\ q.still = plan.still
  /\ q.ordered = Append(plan.ordered, e) /\ q.conflict = plan.conflict

LEMMA PlaceEmits ==
  ASSUME NEW es, NEW as, NEW plan \in Plans, NEW e \in Edge,
         LeftTable(es, as, e) \in plan.added, e.right \notin plan.added
  PROVE  Emitted(plan, e, Place(es, as, plan, e))
<1>1. Place(es, as, plan, e) =
        [plan EXCEPT !.added = @ \cup {e.right}, !.ordered = Append(@, e)]
  BY DEF Place
<1> QED
  BY <1>1 DEF Plans, Emitted

Repeated(plan, e, q) ==
  /\ q.added = plan.added /\ q.ordered = plan.ordered /\ q.still = plan.still
  /\ q.conflict <=> plan.conflict \/ ~\E o \in Elements(plan.ordered) : Same(o, e)

LEMMA PlaceRepeats ==
  ASSUME NEW es, NEW as, NEW plan \in Plans, NEW e \in Edge,
         LeftTable(es, as, e) \in plan.added, e.right \in plan.added
  PROVE  Repeated(plan, e, Place(es, as, plan, e))
<1>1. Place(es, as, plan, e) =
        [plan EXCEPT !.conflict = @ \/ ~\E i \in DOMAIN plan.ordered : Same(plan.ordered[i], e)]
  BY DEF Place
<1>2. (\E i \in DOMAIN plan.ordered : Same(plan.ordered[i], e))
         <=> \E o \in Elements(plan.ordered) : Same(o, e)
  BY Zenon DEF Elements
<1> QED
  BY <1>1, <1>2 DEF Plans, Repeated

\* The step of the planner: one join is taken from rest.
LEMMA PlaceKeeps ==
  ASSUME NEW es, NEW as, Joint(es, as), NEW plan \in Plans, NEW rest,
         NEW e \in Elements(es), Placed(es, as, plan, rest \cup {e})
  PROVE  Placed(es, as, Place(es, as, plan, e), rest)
<1> DEFINE q == Place(es, as, plan, e)
<1>0. e \in Edge /\ Same(e, e)
  BY LeftTableIs, SameSelf
<1>1. CASE LeftTable(es, as, e) \notin plan.added
  <2>1. /\ q.added = plan.added /\ q.ordered = plan.ordered /\ q.conflict = plan.conflict
        /\ q.still = Append(plan.still, e)
    BY <1>0, <1>1, PlaceWaits DEF Waited
  <2> HIDE DEF q
  <2>2. Elements(q.still) = Elements(plan.still) \cup {e}
    BY <1>0, <2>1, AppendedElements DEF Plans
  <2>3. \A d \in Elements(es) \ (rest \cup Elements(q.still)) :
          d \in Elements(es) \ ((rest \cup {e}) \cup Elements(plan.still))
    BY <2>2
  <2>4. Elements(q.still) \subseteq Elements(es)
    BY <2>2 DEF Placed
  <2> QED
    BY <2>1, <2>3, <2>4 DEF Placed, q
<1>2. CASE LeftTable(es, as, e) \in plan.added /\ e.right \notin plan.added
  <2>1. Emitted(plan, e, q)
    BY <1>0, <1>2, PlaceEmits
  <2> HIDE DEF q
  <2>0. Elements(q.ordered) = Elements(plan.ordered) \cup {e}
    BY <1>0, <2>1, AppendedElements DEF Plans, Emitted
  <2>2. q.added = {Base} \cup Rights(q.ordered)
    BY <2>0, <2>1 DEF Emitted, Placed, Rights
  <2>3. e.right \in ReachedFromBase(Distinct(es, as))
    BY <1>2, Reach DEF Placed
  <2>4. \A o \in Elements(plan.ordered) : o.right # e.right
    BY <1>2 DEF Placed, Rights
  <2>5. e.right # Base
    BY <1>2 DEF Placed
  <2>6. \A d \in Elements(es) \ (rest \cup Elements(q.still)) :
          /\ LeftTable(es, as, d) \in q.added
          /\ q.conflict \/ \E o \in Elements(q.ordered) : Same(o, d)
    <3> TAKE d \in Elements(es) \ (rest \cup Elements(q.still))
    <3>1. CASE d = e
      BY <1>0, <1>2, <2>0, <2>1, <3>1 DEF Emitted
    <3>2. CASE d # e
      BY <2>0, <2>1, <3>2 DEF Emitted, Placed
    <3> QED
      BY <3>1, <3>2
  <2>7. \A o, p \in Elements(q.ordered) : o.right = p.right => o = p
    BY <2>0, <2>1, <2>4 DEF Emitted, Placed
  <2>8. /\ Elements(q.ordered) \subseteq Elements(es) /\ Elements(q.still) \subseteq Elements(es)
        /\ q.added \subseteq ReachedFromBase(Distinct(es, as))
        /\ \A o \in Elements(q.ordered) : o.right # Base
    BY <2>0, <2>1, <2>3, <2>5 DEF Emitted, Placed
  <2>9. q.conflict => \E d, f \in Elements(es) :
          d.right = Base \/ (d.right = f.right /\ ~Same(d, f))
    BY <2>1 DEF Emitted, Placed
  <2> QED
    BY <2>2, <2>6, <2>7, <2>8, <2>9 DEF Placed, q
<1>3. CASE LeftTable(es, as, e) \in plan.added /\ e.right \in plan.added
  <2>1. /\ q.added = plan.added /\ q.ordered = plan.ordered /\ q.still = plan.still
        /\ q.conflict <=> plan.conflict \/ ~\E o \in Elements(plan.ordered) : Same(o, e)
    BY <1>0, <1>3, PlaceRepeats DEF Repeated
  <2> HIDE DEF q
  <2>2. ASSUME q.conflict
        PROVE  \E d, f \in Elements(es) : d.right = Base \/ (d.right = f.right /\ ~Same(d, f))
    <3>1. CASE plan.conflict
      BY <3>1 DEF Placed
    <3>2. CASE ~\E o \in Elements(plan.ordered) : Same(o, e)
      <4>1. CASE e.right = Base
        BY <4>1
      <4>2. CASE e.right # Base
        <5>1. PICK o \in Elements(plan.ordered) : o.right = e.right
          BY <1>3, <4>2 DEF Placed, Rights
        <5>2. o \in Elements(es) /\ ~Same(o, e)
          BY <3>2, <5>1 DEF Placed
        <5> QED
          BY <5>1, <5>2
      <4> QED
        BY <4>1, <4>2
    <3> QED
      BY <2>1, <2>2, <3>1, <3>2
  <2>3. \A d \in Elements(es) \ (rest \cup Elements(q.still)) :
          /\ LeftTable(es, as, d) \in q.added
          /\ q.conflict \/ \E o \in Elements(q.ordered) : Same(o, d)
    <3> TAKE d \in Elements(es) \ (rest \cup Elements(q.still))
    <3>1. CASE d = e
      BY <1>3, <2>1, <3>1
    <3>2. CASE d # e
      BY <2>1, <3>2 DEF Placed
    <3> QED
      BY <3>1, <3>2
  <2>4. /\ Elements(q.ordered) \subseteq Elements(es) /\ Elements(q.still) \subseteq Elements(es)
        /\ q.added = {Base} \cup Rights(q.ordered)
        /\ q.added \subseteq ReachedFromBase(Distinct(es, as))
        /\ \A o \in Elements(q.ordered) : o.right # Base
        /\ \A o, p \in Elements(q.ordered) : o.right = p.right => o = p
    BY <2>1 DEF Placed
  <2> QED
    BY <2>2, <2>3, <2>4 DEF Placed, q
<1> QED
  BY <1>1, <1>2, <1>3

\* No join that waits could be placed.
Fixed(es, as, plan) == \A e \in Elements(plan.still) : LeftTable(es, as, e) \notin plan.added

\* What k joins of a pass do to the plan: if all of them wait, none could be placed.
Advanced(es, as, plan, q, k) ==
  /\ Len(q.still) <= k
  /\ plan.added \subseteq q.added
  /\ Elements(q.still) \subseteq Elements(plan.still)
  /\ Len(q.still) = k =>
       q.added = plan.added /\ \A e \in Elements(q.still) : LeftTable(es, as, e) \notin plan.added
  /\ Fixed(es, as, plan) => q.added = plan.added

LEMMA PlaceAdvances ==
  ASSUME NEW es, NEW as, NEW plan \in Plans, NEW q \in Plans, NEW k \in Nat \ {0},
         NEW e \in Elements(plan.still), Advanced(es, as, plan, q, k - 1)
  PROVE  Advanced(es, as, plan, Place(es, as, q, e), k)
<1> DEFINE r == Place(es, as, q, e)
<1>0. /\ e \in Edge /\ Len(q.still) \in Nat /\ q.still \in Seq(Edge)
      /\ Len(q.still) <= k - 1 /\ k - 1 < k
  BY DEF Plans, Elements, Advanced
<1>1. CASE LeftTable(es, as, e) \notin q.added
  <2>0. Waited(q, e, r)
    BY <1>0, <1>1, PlaceWaits
  <2>1. r.added = q.added /\ r.still = Append(q.still, e)
    BY <2>0 DEF Waited
  <2> HIDE DEF r
  <2>2. Elements(r.still) = Elements(q.still) \cup {e} /\ Len(r.still) = Len(q.still) + 1
    BY <1>0, <2>1, AppendedElements
  <2>3. Len(r.still) <= k /\ (Len(r.still) = k => Len(q.still) = k - 1)
    BY <1>0, <2>2
  <2>4. plan.added \subseteq r.added /\ Elements(r.still) \subseteq Elements(plan.still)
    BY <2>1, <2>2 DEF Advanced
  <2>5. ASSUME Len(r.still) = k
        PROVE  /\ r.added = plan.added
               /\ \A d \in Elements(r.still) : LeftTable(es, as, d) \notin plan.added
    BY <1>1, <2>1, <2>2, <2>3, <2>5 DEF Advanced
  <2>6. Fixed(es, as, plan) => r.added = plan.added
    BY <2>1 DEF Advanced
  <2> QED
    BY <2>3, <2>4, <2>5, <2>6 DEF Advanced, r
<1>2. CASE LeftTable(es, as, e) \in q.added /\ e.right \notin q.added
  <2>1. Emitted(q, e, r)
    BY <1>0, <1>2, PlaceEmits
  <2> HIDE DEF r
  <2>2. Len(r.still) <= k /\ Len(r.still) # k
    BY <1>0, <2>1 DEF Emitted
  <2>3. plan.added \subseteq r.added /\ Elements(r.still) \subseteq Elements(plan.still)
    BY <2>1 DEF Advanced, Emitted
  <2>4. ~Fixed(es, as, plan)
    BY <1>2 DEF Advanced, Fixed
  <2> QED
    BY <2>2, <2>3, <2>4 DEF Advanced, r
<1>3. CASE LeftTable(es, as, e) \in q.added /\ e.right \in q.added
  <2>0. Repeated(q, e, r)
    BY <1>0, <1>3, PlaceRepeats
  <2>1. r.added = q.added /\ r.still = q.still
    BY <2>0 DEF Repeated
  <2> HIDE DEF r
  <2>2. Len(r.still) <= k /\ Len(r.still) # k
    BY <1>0, <2>1
  <2> QED
    BY <2>1, <2>2 DEF Advanced, r
<1> QED
  BY <1>1, <1>2, <1>3

\* A whole pass.
LEMMA PassAdvances ==
  ASSUME NEW es, NEW as, NEW plan \in Plans
  PROVE  Advanced(es, as, plan, Pass(es, as, plan), Len(plan.still))
<1> DEFINE N == Len(plan.still)
           upto == PassStates(es, as, plan)
           S == {n \in 0..N : Advanced(es, as, plan, upto[n], n)}
<1>1. N \in Nat /\ \A n \in 1..N : plan.still[n] \in Elements(plan.still)
  BY DEF Plans, Elements
<1>2. /\ upto \in [0..N -> Plans] /\ upto[0] = [plan EXCEPT !.still = <<>>]
      /\ \A n \in 1..N : upto[n] = Place(es, as, upto[n - 1], plan.still[n])
  <2>1. IsPass(es, as, plan, upto)
    BY PassLoop
  <2> QED
    BY <2>1 DEF IsPass
<1>3. 0 \in S
  <2>1. /\ upto[0].still = <<>> /\ upto[0].added = plan.added
    BY <1>2 DEF Plans
  <2>2. Len(<<>>) = 0 /\ Elements(<<>>) = {}
    BY DEF Elements
  <2>3. 0 \in 0..N
    BY <1>1
  <2> HIDE DEF upto, N
  <2>5. Len(upto[0].still) = 0 /\ Elements(upto[0].still) = {}
    BY <2>1, <2>2
  <2>4. Advanced(es, as, plan, upto[0], 0)
    <3>1. plan.added \subseteq upto[0].added /\ upto[0].added = plan.added
      BY <2>1
    <3>2. Elements(upto[0].still) \subseteq Elements(plan.still)
      BY <2>5
    <3>3. \A e \in Elements(upto[0].still) : LeftTable(es, as, e) \notin plan.added
      BY <2>5
    <3>4. Len(upto[0].still) <= 0
      BY <2>5
    <3> QED
      BY <3>1, <3>2, <3>3, <3>4, Zenon DEF Advanced
  <2> QED
    BY <2>3, <2>4
<1> HIDE DEF upto, N
<1>4. ASSUME NEW n \in 1..N, n - 1 \in S PROVE n \in S
  <2>1. n \in Nat \ {0} /\ n \in 0..N /\ n - 1 \in 0..N /\ plan.still[n] \in Elements(plan.still)
    BY <1>1
  <2>2. upto[n - 1] \in Plans /\ upto[n] = Place(es, as, upto[n - 1], plan.still[n])
    BY <1>2, <2>1
  <2>3. Advanced(es, as, plan, upto[n - 1], n - 1)
    BY <1>4
  <2> QED
    BY <2>1, <2>2, <2>3, PlaceAdvances
<1>5. N \in S
  <2> HIDE DEF S
  <2> QED
    BY <1>1, <1>3, <1>4, IntervalInduction
<1> QED
  BY <1>5 DEF Pass, upto, N

\* A pass keeps what the plan says of every join of the mapping.
LEMMA PassKeeps ==
  ASSUME NEW es, NEW as, Joint(es, as), NEW plan \in Plans, Placed(es, as, plan, {})
  PROVE  Placed(es, as, Pass(es, as, plan), {})
<1> DEFINE N == Len(plan.still)
           upto == PassStates(es, as, plan)
           rest(n) == {plan.still[i] : i \in (n + 1)..N}
           S == {n \in 0..N : Placed(es, as, upto[n], rest(n))}
<1>1. N \in Nat /\ \A n \in 1..N : plan.still[n] \in Elements(es)
  <2>1. \A n \in 1..N : plan.still[n] \in Elements(plan.still)
    BY DEF Plans, Elements
  <2> QED
    BY <2>1 DEF Plans, Placed
<1>2. /\ upto \in [0..N -> Plans] /\ upto[0] = [plan EXCEPT !.still = <<>>]
      /\ \A n \in 1..N : upto[n] = Place(es, as, upto[n - 1], plan.still[n])
  <2>1. IsPass(es, as, plan, upto)
    BY PassLoop
  <2> QED
    BY <2>1 DEF IsPass
<1>3. 0 \in S
  <2>1. /\ upto[0].still = <<>> /\ upto[0].added = plan.added
        /\ upto[0].ordered = plan.ordered /\ upto[0].conflict = plan.conflict
    BY <1>2 DEF Plans
  <2>2. Elements(<<>>) = {}
    BY DEF Elements
  <2>3. rest(0) = Elements(plan.still)
    BY <1>1 DEF Plans, Elements
  <2>4. 0 \in 0..N
    BY <1>1
  <2> HIDE DEF upto, rest, N
  <2>5. Placed(es, as, upto[0], Elements(plan.still))
    BY <2>1, <2>2 DEF Placed
  <2> QED
    BY <2>3, <2>4, <2>5
<1>4. ASSUME NEW n \in 1..N PROVE rest(n - 1) = rest(n) \cup {plan.still[n]}
  BY <1>1
<1>5. rest(N) = {}
  BY <1>1
<1> HIDE DEF upto, N, rest
<1>6. ASSUME NEW n \in 1..N, n - 1 \in S PROVE n \in S
  <2>1. n \in 0..N /\ n - 1 \in 0..N /\ plan.still[n] \in Elements(es)
    BY <1>1
  <2>2. upto[n - 1] \in Plans /\ upto[n] = Place(es, as, upto[n - 1], plan.still[n])
    BY <1>2, <2>1
  <2>3. Placed(es, as, upto[n - 1], rest(n) \cup {plan.still[n]})
    BY <1>4, <1>6
  <2>4. Placed(es, as, upto[n], rest(n))
    BY <2>1, <2>2, <2>3, PlaceKeeps
  <2> QED
    BY <2>1, <2>4
<1>7. N \in S
  <2> HIDE DEF S
  <2> QED
    BY <1>1, <1>3, <1>6, IntervalInduction
<1> QED
  BY <1>5, <1>7 DEF Pass, upto, N

\* After as many passes as there are joins, no join waits that could be placed.
LEMMA PlannedIs ==
  ASSUME NEW es, NEW as, Joint(es, as)
  PROVE  /\ Planned(es, as) \in Plans
         /\ Placed(es, as, Planned(es, as), {})
         /\ Fixed(es, as, Planned(es, as))
<1> DEFINE N == Len(es)
           pass == PlanStates(es, as)
           done(n) == Len(pass[n].still) <= N - n \/ Fixed(es, as, pass[n])
           S == {n \in 0..N : Placed(es, as, pass[n], {}) /\ done(n)}
<1>0. es \in Seq(Edge)
  BY DEF Joint
<1>1. N \in Nat
  BY <1>0
<1>2. /\ pass \in [0..N -> Plans] /\ pass[0] = StartPlan(es)
      /\ \A n \in 1..N : pass[n] = Pass(es, as, pass[n - 1])
  <2>1. IsPlanning(es, as, pass)
    BY <1>0, PlannedLoop
  <2> QED
    BY <2>1 DEF IsPlanning
<1>3. 0 \in S
  <2>1. /\ pass[0].still = es /\ pass[0].added = {Base}
        /\ pass[0].ordered = <<>> /\ pass[0].conflict = FALSE
    BY <1>2 DEF StartPlan
  <2>2. Elements(<<>>) = {} /\ Rights(<<>>) = {}
    BY DEF Elements, Rights
  <2> HIDE DEF pass
  <2>3. Base \in ReachedFromBase(Distinct(es, as))
    BY Reach
  <2>4. Placed(es, as, pass[0], {})
    BY <2>1, <2>2, <2>3 DEF Placed
  <2>5. 0 \in 0..N /\ Len(pass[0].still) <= N - 0
    BY <1>1, <2>1
  <2> QED
    BY <2>4, <2>5
<1> HIDE DEF pass, N
<1>4. ASSUME NEW n \in 1..N, n - 1 \in S PROVE n \in S
  <2>1. n \in 0..N /\ n - 1 \in 0..N
    BY <1>1
  <2>2. pass[n - 1] \in Plans /\ pass[n] = Pass(es, as, pass[n - 1])
    BY <1>2, <2>1
  <2>9. pass[n] \in Plans
    BY <1>2, <2>1
  <2>3. Placed(es, as, pass[n], {})
    BY <1>4, <2>2, PassKeeps
  <2>4. Advanced(es, as, pass[n - 1], pass[n], Len(pass[n - 1].still))
    BY <2>2, PassAdvances
  <2>5. Len(pass[n - 1].still) \in Nat /\ Len(pass[n].still) \in Nat
    <3>1. \A q \in Plans : Len(q.still) \in Nat
      BY DEF Plans
    <3> QED
      BY <2>2, <2>9, <3>1
  <2>6. CASE Fixed(es, as, pass[n - 1])
    <3>1. Fixed(es, as, pass[n])
      BY <2>4, <2>6 DEF Advanced, Fixed
    <3> QED
      BY <2>1, <2>3, <3>1
  <2>7. CASE Len(pass[n].still) = Len(pass[n - 1].still)
    <3>1. Fixed(es, as, pass[n])
      BY <2>4, <2>7 DEF Advanced, Fixed
    <3> QED
      BY <2>1, <2>3, <3>1
  <2>8. CASE ~Fixed(es, as, pass[n - 1]) /\ Len(pass[n].still) # Len(pass[n - 1].still)
    <3>1. Len(pass[n - 1].still) <= N - (n - 1)
      BY <1>4, <2>8
    <3>2. Len(pass[n].still) <= Len(pass[n - 1].still)
      BY <2>4 DEF Advanced
    <3>3. Len(pass[n].still) <= N - n
      BY <1>1, <2>5, <2>8, <3>1, <3>2
    <3> QED
      BY <2>1, <2>3, <3>3
  <2> QED
    BY <2>6, <2>7, <2>8
<1>5. N \in S
  <2> HIDE DEF S
  <2> QED
    BY <1>1, <1>3, <1>4, IntervalInduction
<1>6. N \in 0..N /\ pass[N] \in Plans /\ Placed(es, as, pass[N], {})
  BY <1>1, <1>2, <1>5
<1>7. Fixed(es, as, pass[N])
  <2>1. CASE Len(pass[N].still) <= 0
    <3>1. pass[N].still \in Seq(Edge)
      BY <1>6 DEF Plans
    <3>2. Elements(pass[N].still) = {}
      BY <2>1, <3>1 DEF Elements
    <3> QED
      BY <3>2 DEF Fixed
  <2>2. N - N = 0
    BY <1>1
  <2>3. Len(pass[N].still) <= N - N \/ Fixed(es, as, pass[N])
    BY <1>5
  <2> QED
    BY <2>1, <2>2, <2>3
<1> QED
  BY <1>6, <1>7 DEF Planned, pass, N

LEMMA NoElements ==
  ASSUME NEW T, NEW seq \in Seq(T), Elements(seq) = {}
  PROVE  seq = <<>>
<1>1. Len(seq) \in Nat /\ DOMAIN seq = 1..Len(seq)
  OBVIOUS
<1>2. Len(seq) = 0
  <2>1. SUFFICES ASSUME Len(seq) # 0 PROVE FALSE
    OBVIOUS
  <2>2. 1 \in DOMAIN seq
    BY <1>1, <2>1
  <2>3. seq[1] \in Elements(seq)
    BY <2>2 DEF Elements
  <2> QED
    BY <2>3
<1> QED
  BY <1>1, <1>2

\* The planner accepts the mapping exactly if its joins form a tree.
LEMMA PlannerIsRight ==
  ASSUME NEW es, NEW as, Joint(es, as)
  PROVE  HasPlan(es, as) <=> IsTree(es, as)
<1> DEFINE plan == Planned(es, as)
           reached == ReachedFromBase(Distinct(es, as))
<1>1. plan \in Plans /\ Placed(es, as, plan, {}) /\ Fixed(es, as, plan)
  BY PlannedIs
<1>2. HasPlan(es, as) <=> ~plan.conflict /\ plan.still = <<>> /\ as \subseteq plan.added
  BY DEF HasPlan, Joint
<1> HIDE DEF plan
<1>3. \A e \in Elements(es) : /\ GraphEdge(es, as, e).left = LeftTable(es, as, e)
                               /\ GraphEdge(es, as, e).right = e.right
                               /\ GraphEdge(es, as, e) \in Distinct(es, as)
  BY GraphEdges DEF GraphEdge
<1>4. ASSUME NEW d \in Distinct(es, as)
      PROVE  \E e \in Elements(es) : /\ d = GraphEdge(es, as, e)
                                      /\ d.left = LeftTable(es, as, e) /\ d.right = e.right
  BY <1>3, GraphEdges
<1>5. ASSUME ~plan.conflict, plan.still = <<>>, as \subseteq plan.added
      PROVE  IsTree(es, as)
  <2>1. ASSUME NEW e \in Elements(es)
        PROVE  LeftTable(es, as, e) \in plan.added /\ \E o \in Elements(plan.ordered) : Same(o, e)
    <3>1. e \in Elements(es) \ ({} \cup Elements(plan.still))
      BY <1>5 DEF Elements
    <3> QED
      BY <1>1, <1>5, <3>1 DEF Placed
  <2>2. \A d \in Distinct(es, as) : d.right # Base
    <3> TAKE d \in Distinct(es, as)
    <3>1. PICK e \in Elements(es) : d.right = e.right
      BY <1>4
    <3>2. PICK o \in Elements(plan.ordered) : Same(o, e)
      BY <2>1
    <3> QED
      BY <1>1, <3>1, <3>2 DEF Placed, Same
  <2>3. ASSUME NEW d \in Distinct(es, as), NEW f \in Distinct(es, as), d.right = f.right
        PROVE  d = f
    <3>1. PICK e \in Elements(es) : d = GraphEdge(es, as, e) /\ d.right = e.right
      BY <1>4
    <3>2. PICK g \in Elements(es) : f = GraphEdge(es, as, g) /\ f.right = g.right
      BY <1>4
    <3>3. PICK o \in Elements(plan.ordered) : Same(o, e)
      BY <2>1
    <3>4. PICK p \in Elements(plan.ordered) : Same(p, g)
      BY <2>1
    <3>5. o.right = p.right
      BY <2>3, <3>1, <3>2, <3>3, <3>4 DEF Same
    <3>6. o = p /\ o \in Elements(es)
      BY <1>1, <3>5 DEF Placed
    <3> QED
      BY <3>1, <3>2, <3>3, <3>4, <3>6, SameIsOne
  <2>4. {d.left : d \in Distinct(es, as)} \cup as \subseteq reached
    <3>1. plan.added \subseteq reached
      BY <1>1 DEF Placed
    <3>2. ASSUME NEW d \in Distinct(es, as) PROVE d.left \in reached
      <4>1. PICK e \in Elements(es) : d.left = LeftTable(es, as, e)
        BY <1>4
      <4> QED
        BY <2>1, <3>1, <4>1
    <3> HIDE DEF reached
    <3> QED
      BY <1>5, <3>1, <3>2
  <2> QED
    BY <2>2, <2>3, <2>4 DEF IsTree
<1>6. ASSUME IsTree(es, as)
      PROVE  ~plan.conflict /\ plan.still = <<>> /\ as \subseteq plan.added
  <2>1. /\ \A e \in Elements(es) : e.right # Base /\ LeftTable(es, as, e) \in reached
        /\ as \subseteq reached
    BY <1>3, <1>6 DEF IsTree
  <2>2. ASSUME NEW d \in Elements(es), NEW e \in Elements(es), d.right = e.right
        PROVE  Same(d, e)
    <3>1. GraphEdge(es, as, d) = GraphEdge(es, as, e)
      BY <1>3, <1>6, <2>2 DEF IsTree
    <3> QED
      BY <3>1, SameIsOne
  <2>3. ~plan.conflict
    BY <1>1, <2>1, <2>2 DEF Placed
  <2>4. ASSUME NEW e \in Elements(es), LeftTable(es, as, e) \in plan.added
        PROVE  e.right \in plan.added
    <3>1. e \in Elements(es) \ ({} \cup Elements(plan.still))
      BY <1>1, <2>4 DEF Fixed
    <3>2. PICK o \in Elements(plan.ordered) : Same(o, e)
      BY <1>1, <2>3, <3>1 DEF Placed
    <3> QED
      BY <1>1, <3>2 DEF Placed, Rights, Same
  <2>5. plan.added \in SUBSET Tables /\ Base \in plan.added
    BY <1>1 DEF Placed, Plans
  <2>6. reached \subseteq plan.added
    BY <2>4, <2>5, Reach
  <2>7. Elements(plan.still) = {}
    <3>1. Elements(plan.still) \subseteq Elements(es)
      BY <1>1 DEF Placed
    <3> QED
      BY <1>1, <2>1, <2>6, <3>1 DEF Fixed
  <2>8. plan.still \in Seq(Edge)
    BY <1>1 DEF Plans
  <2> QED
    BY <2>1, <2>3, <2>6, <2>7, <2>8, NoElements
<1> QED
  BY <1>2, <1>5, <1>6

\* The mapping of a request.
Mapping == edges \in Seq(Edge) /\ attrs \subseteq Tables /\ latest \in BOOLEAN

LEMMA MappingInit == QueryInit => Mapping
<1> SUFFICES ASSUME QueryInit PROVE Mapping
  OBVIOUS
<1>1. PICK n \in 0..MaxEdges : edges \in [1..n -> Edge]
  BY DEF QueryInit
<1>2. edges \in Seq(Edge)
  BY <1>1, MaxEdgesAssumption
<1> QED
  BY <1>2, MappedAssumption DEF QueryInit, Mapping

LEMMA MappingStays == [QueryNext]_queryVars => UNCHANGED mapping
BY DEF QueryNext, queryVars, mapping, Plan, Validate, ProbeJoin, ProbeKey, Query, LoadTable

(***************************************************************************)
(* _resolve_join_plan, which the validator and the query both call, is     *)
(* right about every mapping, however many joins it has and in whatever    *)
(* order they come: it accepts those that are trees and no others.         *)
(***************************************************************************)
THEOREM TypeBPlansTrees == QuerySpec => []PlansTrees
<1>1. ASSUME Mapping PROVE PlansTrees
  <2> SUFFICES ASSUME Resolved(edges, attrs) PROVE HasPlan(edges, attrs) <=> IsTree(edges, attrs)
    BY DEF PlansTrees
  <2>1. Joint(edges, attrs)
    BY <1>1 DEF Joint, Mapping
  <2> QED
    BY <2>1, PlannerIsRight
<1>2. Mapping /\ [QueryNext]_queryVars => Mapping'
  BY MappingStays DEF Mapping, mapping
<1> QED
  BY <1>1, <1>2, MappingInit, PTL DEF QuerySpec

-----------------------------------------------------------------------------
\* What the tables hold, and the rows of a result.
RowsTyped ==
  /\ rows = [t \in Tables |-> rows[t]]
  /\ \A t \in Tables : /\ IsFiniteSet(rows[t]) /\ rows[t] \subseteq TableRow
                       /\ \A r, s \in rows[t] : r.id = s.id => r = s

ResultRows == UNION {[D -> TableRow \cup {Null}] : D \in SUBSET Tables}

LEMMA RelationTyped ==
  ASSUME RowsTyped, NEW t \in Tables, NEW c
  PROVE  Relation(t, c) \subseteq rows[t] /\ Relation(t, c) \subseteq TableRow
BY DEF RowsTyped, Relation, Newest

LEMMA ExtendedTyped ==
  ASSUME NEW line \in ResultRows, NEW t \in Tables, NEW r \in TableRow \cup {Null}
  PROVE  /\ Extended(line, t, r) \in ResultRows
         /\ \A s \in DOMAIN line : /\ s \in DOMAIN Extended(line, t, r)
                               /\ s # t => Extended(line, t, r)[s] = line[s]
<1>1. PICK D \in SUBSET Tables : line \in [D -> TableRow \cup {Null}]
  BY DEF ResultRows
<1>2. Extended(line, t, r) \in [D \cup {t} -> TableRow \cup {Null}]
  BY <1>1 DEF Extended
<1>3. D \cup {t} \in SUBSET Tables
  OBVIOUS
<1> QED
  BY <1>1, <1>2, <1>3 DEF ResultRows, Extended

\* The rows that a join makes of one row of the result.
Additions(line, e) ==
  IF Matches(line, e) = {} /\ e.how.type = "left" THEN {Null} ELSE Matches(line, e)

LEMMA AdditionsTyped ==
  ASSUME RowsTyped, NEW e \in Edge, NEW line
  PROVE  /\ Additions(line, e) \subseteq TableRow \cup {Null}
         /\ Matches(line, e) \subseteq Relation(e.right, e.how.rc)
<1>1. Matches(line, e) \subseteq Relation(e.right, e.how.rc)
  BY DEF Matches
<1>2. Relation(e.right, e.how.rc) \subseteq TableRow
  BY RelationTyped, EdgeShape
<1> QED
  BY <1>1, <1>2 DEF Additions

LEMMA JoinedTyped ==
  ASSUME RowsTyped, NEW result \in SUBSET ResultRows, NEW e \in Edge
  PROVE  Joined(result, e) \in SUBSET ResultRows
<1> SUFFICES ASSUME NEW x \in Joined(result, e) PROVE x \in ResultRows
  OBVIOUS
<1>1. PICK line \in result : \E r \in Additions(line, e) : x = Extended(line, e.right, r)
  BY Zenon DEF Joined, Additions
<1>3. PICK r \in Additions(line, e) : x = Extended(line, e.right, r)
  BY <1>1
<1>2. e.right \in Tables /\ r \in TableRow \cup {Null} /\ line \in ResultRows
  BY AdditionsTyped, EdgeShape
<1> QED
  BY <1>2, <1>3, ExtendedTyped

LEMMA FirstTyped ==
  ASSUME RowsTyped
  PROVE  FirstRows \in SUBSET ResultRows
<1>1. Relation(Base, "k") \subseteq TableRow
  BY RelationTyped, BaseAssumption
<1>2. \A r \in TableRow : [t \in {Base} |-> r] \in [{Base} -> TableRow \cup {Null}]
  OBVIOUS
<1>3. {Base} \in SUBSET Tables
  BY BaseAssumption
<1>4. [{Base} -> TableRow \cup {Null}] \subseteq ResultRows
  BY <1>3 DEF ResultRows
<1> QED
  BY <1>1, <1>2, <1>4 DEF FirstRows

\* The result after each join.
IsResult(joins, result) ==
  /\ result \in [0..Len(joins) -> (SUBSET ResultRows)]
  /\ result[0] = FirstRows
  /\ \A n \in 1..Len(joins) : result[n] = Joined(result[n - 1], joins[n])

LEMMA ResultLoop ==
  ASSUME RowsTyped, NEW joins \in Seq(Edge)
  PROVE  IsResult(joins, ResultStates(joins))
<1> DEFINE N == Len(joins)
           result == ResultStates(joins)
           start == FirstRows
           step == [q \in (SUBSET ResultRows) \X (1..N) |-> Joined(q[1], joins[q[2]])]
           body(g) == [n \in 0..N |-> IF n = 0 THEN start ELSE Joined(g[n - 1], joins[n])]
<1>1. start \in (SUBSET ResultRows)
  BY FirstTyped
<1>2. N \in Nat /\ \A n \in 1..N : joins[n] \in Edge
  OBVIOUS
<1>3. ASSUME NEW s \in (SUBSET ResultRows), NEW n \in 1..N PROVE Joined(s, joins[n]) \in (SUBSET ResultRows)
  BY <1>2, JoinedTyped
<1>4. \E f : f = body(f)
  <2>1. step \in Rounds((SUBSET ResultRows), N)
    BY <1>3 DEF Rounds
  <2>2. PICK f : IsLoop(f, (SUBSET ResultRows), start, N, step)
    <3> HIDE DEF step, start, N
    <3> QED
      BY <1>1, <1>2, <2>1, LoopExists
  <2>3. f \in [0..N -> (SUBSET ResultRows)] /\ f[0] = start
    BY <2>2 DEF IsLoop
  <2>4. ASSUME NEW n \in 1..N PROVE f[n] = Joined(f[n - 1], joins[n])
    <3>1. f[n] = step[<<f[n - 1], n>>]
      BY <2>2, Zenon DEF IsLoop
    <3>2. n - 1 \in 0..N
      BY <1>2
    <3>3. f[n - 1] \in (SUBSET ResultRows)
      BY <2>3, <3>2
    <3> QED
      BY <3>1, <3>3
  <2>5. f = body(f)
    <3>1. ASSUME NEW n \in 0..N PROVE f[n] = body(f)[n]
      BY <1>2, <2>3, <2>4
    <3> QED
      BY <2>3, <3>1
  <2> QED
    BY <2>5
<1>5. result = body(result)
  BY <1>4, Zenon DEF ResultStates
<1> HIDE DEF result, start, N, body
<1>6. result[0] = start
  <2>1. body(result)[0] = start
    BY <1>2 DEF body
  <2> QED
    BY <1>5, <2>1
<1>7. ASSUME NEW n \in 1..N PROVE result[n] = Joined(result[n - 1], joins[n])
  <2>1. n \in 0..N /\ n # 0
    BY <1>2
  <2>2. body(result)[n] = Joined(result[n - 1], joins[n])
    BY <2>1 DEF body
  <2> QED
    BY <1>5, <2>2
<1>8. result = [n \in 0..N |-> result[n]]
  <2>1. body(result) = [n \in 0..N |-> body(result)[n]]
    BY DEF body
  <2> QED
    BY <1>5, <2>1
<1>9. \A n \in 1..N : result[n - 1] \in (SUBSET ResultRows) => result[n] \in (SUBSET ResultRows)
  BY <1>3, <1>7
<1>10. result \in [0..N -> (SUBSET ResultRows)]
  BY <1>1, <1>2, <1>6, <1>8, <1>9, LoopTyped
<1> QED
  BY <1>6, <1>7, <1>10 DEF IsResult, start, N, result

\* The order of DISTINCT ON is strict, and total where ids differ.
LEMMA NewerOrder ==
  ASSUME NEW a \in TableRow, NEW b \in TableRow, NEW c \in TableRow
  PROVE  /\ ~Newer(a, a)
         /\ Newer(a, b) /\ Newer(b, c) => Newer(a, c)
         /\ a.id # b.id => Newer(a, b) \/ Newer(b, a)
<1>1. /\ a.id \in Nat /\ b.id \in Nat /\ c.id \in Nat
      /\ (a.u \in Nat /\ a.u # Null) \/ a.u = Null
      /\ (b.u \in Nat /\ b.u # Null) \/ b.u = Null
      /\ (c.u \in Nat /\ c.u # Null) \/ c.u = Null
  BY NullAssumption DEF TableRow
<1>2. ~Newer(a, a)
  BY <1>1 DEF Newer
<1>3. Newer(a, b) /\ Newer(b, c) => Newer(a, c)
  BY <1>1 DEF Newer
<1>4. a.id # b.id => Newer(a, b) \/ Newer(b, a)
  BY <1>1 DEF Newer
<1> QED
  BY <1>2, <1>3, <1>4

\* Every value of a column has a newest row.
LEMMA NewestKeeps ==
  ASSUME RowsTyped, NEW t \in Tables, NEW c, NEW first \in rows[t]
  PROVE  \E r \in Newest(t, c) : r[c] = first[c]
<1> DEFINE S == {r \in rows[t] : r[c] = first[c]}
           above(r) == {s \in S : Newer(s, r)}
           sizes == {Cardinality(above(r)) : r \in S}
           Less == {w \in Nat \X Nat : w[1] < w[2]}
<1>1. IsFiniteSet(S) /\ S \subseteq TableRow /\ first \in S
  <2>1. IsFiniteSet(rows[t]) /\ rows[t] \subseteq TableRow
    BY DEF RowsTyped
  <2> QED
    BY <2>1, FS_Subset
<1>2. \A r \in S : IsFiniteSet(above(r)) /\ Cardinality(above(r)) \in Nat
  <2> TAKE r \in S
  <2>1. above(r) \in SUBSET S
    OBVIOUS
  <2>2. IsFiniteSet(above(r))
    BY <1>1, <2>1, FS_Subset
  <2> QED
    BY <2>2, FS_CardinalityType
<1>3. PICK r \in S : \A s \in S : ~(Cardinality(above(s)) < Cardinality(above(r)))
  <2>1. IsWellFoundedOn(Less, Nat)
    BY NatLessThanWellFounded DEF OpToRel
  <2>2. sizes \subseteq Nat /\ sizes # {}
    <3> HIDE DEF above
    <3> QED
      BY <1>1, <1>2
  <2>3. PICK m \in sizes : \A n \in sizes : <<n, m>> \notin Less
    <3> HIDE DEF Less, sizes
    <3> QED
      BY <2>1, <2>2, WFMin
  <2>4. \A n \in sizes : ~(n < m)
    <3> HIDE DEF sizes
    <3> QED
      BY <2>2, <2>3
  <2>5. PICK r \in S : m = Cardinality(above(r))
    OBVIOUS
  <2> HIDE DEF above, S
  <2> QED
    BY <2>4, <2>5
<1>4. ASSUME NEW s \in S PROVE ~Newer(s, r)
  <2> SUFFICES ASSUME Newer(s, r) PROVE FALSE
    OBVIOUS
  <2>1. s \in TableRow /\ r \in TableRow /\ S \subseteq TableRow
    BY <1>1
  <2>2. above(s) \subseteq above(r)
    <3> HIDE DEF S
    <3> QED
      BY <2>1, NewerOrder
  <2>3. s \in above(r) /\ s \notin above(s)
    BY <2>1, NewerOrder
  <2>4. Cardinality(above(s)) <= Cardinality(above(r)) /\ Cardinality(above(s)) # Cardinality(above(r))
    <3>1. IsFiniteSet(above(r)) /\ above(s) \in SUBSET above(r) /\ above(s) # above(r)
      BY <1>2, <2>2, <2>3
    <3> HIDE DEF above
    <3> QED
      BY <3>1, FS_Subset
  <2>5. Cardinality(above(s)) \in Nat /\ Cardinality(above(r)) \in Nat
    BY <1>2
  <2> HIDE DEF above, S
  <2> QED
    BY <1>3, <2>4, <2>5
<1>5. r \in rows[t] /\ r[c] = first[c]
  OBVIOUS
<1>6. \A s \in rows[t] : s[c] = r[c] => ~Newer(s, r)
  BY <1>4
<1> QED
  BY <1>5, <1>6 DEF Newest

\* Where a column has one row for each value.
OneRow(t, c) == \A r, s \in Relation(t, c) : r[c] = s[c] /\ r[c] # Null => r = s

LEMMA LatestIsOneRow ==
  ASSUME RowsTyped, latest, NEW t \in Tables, NEW c
  PROVE  OneRow(t, c)
<1> SUFFICES ASSUME NEW r \in Newest(t, c), NEW s \in Newest(t, c), r[c] = s[c] PROVE r = s
  BY DEF OneRow, Relation
<1>1. /\ r \in rows[t] /\ s \in rows[t] /\ ~Newer(r, s) /\ ~Newer(s, r)
  BY DEF Newest
<1>2. r \in TableRow /\ s \in TableRow
  BY <1>1 DEF RowsTyped
<1>3. r.id = s.id
  BY <1>1, <1>2, NewerOrder
<1> QED
  BY <1>1, <1>3 DEF RowsTyped

LEMMA ProbedIsOneRow ==
  ASSUME RowsTyped, ~latest, NEW t \in Tables, NEW c, ~NotUnique(t, c)
  PROVE  OneRow(t, c)
<1> SUFFICES ASSUME NEW r \in rows[t], NEW s \in rows[t], r[c] = s[c], r[c] # Null, r # s
             PROVE  FALSE
  BY DEF OneRow, Relation
<1> DEFINE same == {q \in rows[t] : q[c] = r[c]}
<1>1. IsFiniteSet(same)
  <2>1. IsFiniteSet(rows[t])
    BY DEF RowsTyped
  <2> QED
    BY <2>1, FS_Subset
<1>2. r[c] \in Values(t, c)
  BY DEF Values
<1>3. ~(Cardinality(same) > 1)
  BY <1>2 DEF NotUnique
<1>4. {r, s} \in SUBSET same
  OBVIOUS
<1>5. Cardinality({r, s}) = 2
  <2>1. IsFiniteSet({r}) /\ Cardinality({r}) = 1
    BY FS_Singleton
  <2>2. Cardinality({r} \cup {s}) = Cardinality({r}) + 1
    BY <2>1, FS_AddElement
  <2>3. {r, s} = {r} \cup {s}
    OBVIOUS
  <2> QED
    BY <2>1, <2>2, <2>3
<1> HIDE DEF same
<1>6. Cardinality({r, s}) <= Cardinality(same)
  BY <1>1, <1>4, FS_Subset
<1>7. Cardinality(same) \in Nat
  BY <1>1, FS_CardinalityType
<1> QED
  BY <1>3, <1>5, <1>6, <1>7

\* The elements of a sequence.
LEMMA SeqElements ==
  ASSUME NEW T, NEW seq \in Seq(T)
  PROVE  Len(seq) \in Nat /\ \A n \in 1..Len(seq) : seq[n] \in Elements(seq) /\ seq[n] \in T
BY DEF Elements

\* The joins of the FROM clause are joins of the mapping, and none brings the
\* base again.
LEMMA JoinsAre ==
  ASSUME NEW es, NEW as, Joint(es, as)
  PROVE  /\ Joins(es, as) \in Seq(Edge)
         /\ Len(Joins(es, as)) \in Nat
         /\ \A n \in 1..Len(Joins(es, as)) :
              /\ Joins(es, as)[n] \in Elements(es) /\ Joins(es, as)[n] \in Edge
              /\ Joins(es, as)[n].right # Base
<1>1. Planned(es, as) \in Plans /\ Placed(es, as, Planned(es, as), {})
  BY PlannedIs
<1>2. Joins(es, as) \in Seq(Edge)
  BY <1>1 DEF Joins, Plans
<1>3. /\ Elements(Joins(es, as)) \subseteq Elements(es)
      /\ \A o \in Elements(Joins(es, as)) : o.right # Base
  BY <1>1 DEF Joins, Placed
<1>4. /\ Len(Joins(es, as)) \in Nat
      /\ \A n \in 1..Len(Joins(es, as)) : /\ Joins(es, as)[n] \in Elements(Joins(es, as))
                                         /\ Joins(es, as)[n] \in Edge
  BY <1>2, SeqElements
<1> QED
  BY <1>2, <1>3, <1>4

\* A join adds one table to a row, whose base it leaves alone.
LEMMA JoinedFrom ==
  ASSUME RowsTyped, NEW result \in SUBSET ResultRows, NEW e \in Edge, e.right # Base,
         NEW x \in Joined(result, e), \A line \in result : Base \in DOMAIN line
  PROVE  \E line \in result : \E r \in Additions(line, e) :
           x = Extended(line, e.right, r) /\ Base \in DOMAIN x /\ x[Base] = line[Base]
<1>1. PICK line \in result : \E r \in Additions(line, e) : x = Extended(line, e.right, r)
  BY Zenon DEF Joined, Additions
<1>2. PICK r \in Additions(line, e) : x = Extended(line, e.right, r)
  BY <1>1
<1>3. e.right \in Tables /\ r \in TableRow \cup {Null} /\ line \in ResultRows
  BY AdditionsTyped, EdgeShape
<1>4. Base \in DOMAIN x /\ x[Base] = line[Base]
  BY <1>2 DEF Extended
<1> QED
  BY <1>2, <1>4

\* A LEFT join leaves at least one row of each row.
LEMMA LeftJoinKeeps ==
  ASSUME RowsTyped, NEW result \in SUBSET ResultRows, NEW e \in Edge, e.right # Base,
         e.how.type = "left", NEW line \in result, Base \in DOMAIN line
  PROVE  \E x \in Joined(result, e) : x[Base] = line[Base]
<1>1. PICK r : r \in Additions(line, e)
  BY DEF Additions
<1> DEFINE x == Extended(line, e.right, r)
<1>2. x \in Joined(result, e)
  <2>1. Joined(result, e) = UNION {{Extended(p, e.right, s) : s \in Additions(p, e)} : p \in result}
    BY Zenon DEF Joined, Additions
  <2>2. x \in {Extended(line, e.right, s) : s \in Additions(line, e)}
    BY <1>1
  <2> HIDE DEF x
  <2> QED
    BY <2>1, <2>2
<1>3. e.right \in Tables /\ r \in TableRow \cup {Null} /\ line \in ResultRows
  BY <1>1, AdditionsTyped, EdgeShape
<1>4. x[Base] = line[Base]
  BY DEF Extended
<1> QED
  BY <1>2, <1>4

\* A join with a column that has one row for each value adds at most one.
LEMMA OneAddition ==
  ASSUME NEW line, NEW e, OneRow(e.right, e.how.rc),
         NEW r \in Additions(line, e), NEW s \in Additions(line, e)
  PROVE  r = s
<1>1. CASE Matches(line, e) = {} /\ e.how.type = "left"
  BY <1>1 DEF Additions
<1>2. CASE ~(Matches(line, e) = {} /\ e.how.type = "left")
  <2>1. r \in Matches(line, e) /\ s \in Matches(line, e)
    BY <1>2 DEF Additions
  <2>2. /\ r \in Relation(e.right, e.how.rc) /\ s \in Relation(e.right, e.how.rc)
        /\ r[e.how.rc] = s[e.how.rc] /\ r[e.how.rc] # Null
    BY <2>1 DEF Matches
  <2> QED
    BY <2>2 DEF OneRow
<1> QED
  BY <1>1, <1>2

\* What holds of the result after each join.
LEMMA ResultTyped ==
  ASSUME RowsTyped, NEW es, NEW as, Joint(es, as), NEW result, IsResult(Joins(es, as), result)
  PROVE  \A n \in 0..Len(Joins(es, as)) :
           /\ result[n] \in SUBSET ResultRows
           /\ \A x \in result[n] : Base \in DOMAIN x /\ x[Base] \in Relation(Base, "k")
<1> DEFINE N == Len(Joins(es, as))
           typed(n) == \A x \in result[n] : Base \in DOMAIN x /\ x[Base] \in Relation(Base, "k")
           S == {n \in 0..N : typed(n)}
<1>0. N \in Nat /\ 0 \in 0..N
  <2>1. N \in Nat
    BY JoinsAre
  <2> HIDE DEF N
  <2> QED
    BY <2>1
<1>1. N \in Nat /\ \A n \in 1..N : Joins(es, as)[n] \in Edge /\ Joins(es, as)[n].right # Base
  BY JoinsAre
<1>2. /\ result \in [0..N -> SUBSET ResultRows] /\ result[0] = FirstRows
      /\ \A n \in 1..N : result[n] = Joined(result[n - 1], Joins(es, as)[n])
  BY DEF IsResult
<1>3. 0 \in S
  <2>1. \A x \in FirstRows : Base \in DOMAIN x /\ x[Base] \in Relation(Base, "k")
    BY DEF FirstRows
  <2>2. 0 \in 0..N
    BY <1>0
  <2> QED
    BY <1>2, <2>1, <2>2
<1> HIDE DEF N
<1>4. ASSUME NEW n \in 1..N, n - 1 \in S PROVE n \in S
  <2>1. n \in 0..N /\ n - 1 \in 0..N
    BY <1>1
  <2>2. result[n - 1] \in SUBSET ResultRows /\ result[n] = Joined(result[n - 1], Joins(es, as)[n])
    BY <1>2, <2>1
  <2>3. typed(n - 1)
    BY <1>4
  <2>4. ASSUME NEW x \in result[n] PROVE Base \in DOMAIN x /\ x[Base] \in Relation(Base, "k")
    <3>1. PICK line \in result[n - 1] : \E r \in Additions(line, Joins(es, as)[n]) :
            /\ x = Extended(line, Joins(es, as)[n].right, r)
            /\ Base \in DOMAIN x /\ x[Base] = line[Base]
      <4>1. x \in Joined(result[n - 1], Joins(es, as)[n])
        BY <2>2
      <4>2. \A line \in result[n - 1] : Base \in DOMAIN line
        BY <2>3
      <4> QED
        BY <1>1, <2>2, <4>1, <4>2, JoinedFrom
    <3> QED
      BY <2>3, <3>1
  <2> QED
    BY <2>1, <2>4
<1>5. 0..N \subseteq S
  <2> HIDE DEF S
  <2> QED
    BY <1>1, <1>3, <1>4, IntervalInduction
<1>6. \A n \in 0..N : typed(n)
  BY <1>5
<1> QED
  BY <1>2, <1>6 DEF N

\* With LEFT joins only, the result keeps every key of the base.
LEMMA SelectKeeps ==
  ASSUME RowsTyped, Mapping, Resolved(edges, attrs),
         \A e \in Elements(edges) : e.how.type = "left"
  PROVE  Values(Base, "k") \subseteq {Key(x) : x \in Select}
<1> SUFFICES ASSUME NEW v \in Values(Base, "k") PROVE \E x \in Select : Key(x) = v
  OBVIOUS
<1> DEFINE joins == Joins(edges, attrs)
           N == Len(joins)
           result == ResultStates(joins)
           S == {n \in 0..N : \E x \in result[n] : x[Base].k = v}
<1>0. Joint(edges, attrs)
  BY DEF Mapping, Joint
<1>1. N \in Nat /\ \A n \in 1..N : /\ joins[n] \in Elements(edges) /\ joins[n] \in Edge
                                    /\ joins[n].right # Base
  BY <1>0, JoinsAre
<1>2. joins \in Seq(Edge)
  BY <1>0, JoinsAre
<1> HIDE DEF joins
<1>3. IsResult(joins, result)
  BY <1>2, ResultLoop
<1> HIDE DEF result
<1>4. /\ result[0] = FirstRows
      /\ \A n \in 1..N : result[n] = Joined(result[n - 1], joins[n])
  BY <1>3 DEF IsResult
<1>5. \A n \in 0..N : /\ result[n] \in SUBSET ResultRows
                      /\ \A x \in result[n] : Base \in DOMAIN x
  <2>1. IsResult(Joins(edges, attrs), result)
    BY <1>3 DEF joins
  <2> QED
    BY <1>0, <2>1, ResultTyped DEF joins
<1>6. 0 \in S
  <2>1. PICK first \in rows[Base] : first.k = v
    BY DEF Values
  <2>2. \E r \in Relation(Base, "k") : r.k = v
    <3>1. CASE latest
      <4>1. PICK r \in Newest(Base, "k") : r["k"] = first["k"]
        BY BaseAssumption, NewestKeeps
      <4> QED
        BY <2>1, <3>1, <4>1 DEF Relation
    <3>2. CASE ~latest
      BY <2>1, <3>2 DEF Relation
    <3> QED
      BY <3>1, <3>2
  <2>3. PICK r \in Relation(Base, "k") : r.k = v
    BY <2>2
  <2>4. [t \in {Base} |-> r] \in result[0] /\ [t \in {Base} |-> r][Base] = r
    BY <1>4, <2>3 DEF FirstRows
  <2>5. 0 \in 0..N
    BY <1>1
  <2> QED
    BY <2>3, <2>4, <2>5
<1> HIDE DEF N
<1>7. ASSUME NEW n \in 1..N, n - 1 \in S PROVE n \in S
  <2>1. n \in 0..N /\ n - 1 \in 0..N
    BY <1>1
  <2>2. PICK line \in result[n - 1] : line[Base].k = v
    BY <1>7
  <2>3. joins[n].how.type = "left" /\ joins[n] \in Edge /\ joins[n].right # Base
    BY <1>1
  <2>4. result[n - 1] \in SUBSET ResultRows /\ Base \in DOMAIN line
    BY <1>5, <2>1
  <2>5. PICK x \in Joined(result[n - 1], joins[n]) : x[Base] = line[Base]
    BY <2>3, <2>4, LeftJoinKeeps
  <2>6. x \in result[n]
    BY <1>4, <2>5
  <2> QED
    BY <2>1, <2>2, <2>5, <2>6
<1>8. N \in S
  <2> HIDE DEF S
  <2> QED
    BY <1>1, <1>6, <1>7, IntervalInduction
<1>9. Select = result[N]
  BY DEF Select, result, joins, N
<1> QED
  BY <1>8, <1>9 DEF Key

\* With one row for each value of every column that is joined with, no key
\* is there twice.
LEMMA SelectOnce ==
  ASSUME RowsTyped, Mapping, Resolved(edges, attrs), OneRow(Base, "k"),
         \A e \in Elements(edges) : OneRow(e.right, e.how.rc),
         NEW x \in Select, NEW y \in Select, Key(x) = Key(y), Key(x) # Null
  PROVE  x = y
<1> DEFINE joins == Joins(edges, attrs)
           N == Len(joins)
           result == ResultStates(joins)
           once(n) == \A p, q \in result[n] : p[Base] = q[Base] => p = q
           S == {n \in 0..N : once(n)}
<1>0. Joint(edges, attrs)
  BY DEF Mapping, Joint
<1>1. N \in Nat /\ \A n \in 1..N : /\ joins[n] \in Elements(edges) /\ joins[n] \in Edge
                                    /\ joins[n].right # Base
  BY <1>0, JoinsAre
<1>2. joins \in Seq(Edge)
  BY <1>0, JoinsAre
<1> HIDE DEF joins
<1>3. IsResult(joins, result)
  BY <1>2, ResultLoop
<1> HIDE DEF result
<1>4. /\ result[0] = FirstRows
      /\ \A n \in 1..N : result[n] = Joined(result[n - 1], joins[n])
  BY <1>3 DEF IsResult
<1>5. \A n \in 0..N : /\ result[n] \in SUBSET ResultRows
                      /\ \A p \in result[n] : Base \in DOMAIN p /\ p[Base] \in Relation(Base, "k")
  <2>1. IsResult(Joins(edges, attrs), result)
    BY <1>3 DEF joins
  <2> QED
    BY <1>0, <2>1, ResultTyped DEF joins
<1>6. 0 \in S
  <2>1. \A p, q \in FirstRows : p[Base] = q[Base] => p = q
    <3> SUFFICES ASSUME NEW p \in FirstRows, NEW q \in FirstRows, p[Base] = q[Base] PROVE p = q
      OBVIOUS
    <3>1. PICK r \in Relation(Base, "k") : p = [t \in {Base} |-> r]
      BY DEF FirstRows
    <3>2. PICK s \in Relation(Base, "k") : q = [t \in {Base} |-> s]
      BY DEF FirstRows
    <3>3. r = s
      BY <3>1, <3>2
    <3> QED
      BY <3>1, <3>2, <3>3
  <2>2. 0 \in 0..N
    BY <1>1
  <2> QED
    BY <1>4, <2>1, <2>2
<1> HIDE DEF N
<1>7. ASSUME NEW n \in 1..N, n - 1 \in S PROVE n \in S
  <2>1. n \in 0..N /\ n - 1 \in 0..N
    BY <1>1
  <2>2. once(n - 1)
    BY <1>7
  <2>3. joins[n] \in Edge /\ joins[n].right # Base /\ OneRow(joins[n].right, joins[n].how.rc)
    BY <1>1
  <2>4. result[n - 1] \in SUBSET ResultRows /\ \A p \in result[n - 1] : Base \in DOMAIN p
    BY <1>5, <2>1
  <2>5. ASSUME NEW p \in result[n], NEW q \in result[n], p[Base] = q[Base] PROVE p = q
    <3>0. p \in Joined(result[n - 1], joins[n]) /\ q \in Joined(result[n - 1], joins[n])
      BY <1>4
    <3>1. PICK line \in result[n - 1] : \E r \in Additions(line, joins[n]) :
            p = Extended(line, joins[n].right, r) /\ Base \in DOMAIN p /\ p[Base] = line[Base]
      BY <2>3, <2>4, <3>0, JoinedFrom
    <3>2. PICK other \in result[n - 1] : \E s \in Additions(other, joins[n]) :
            q = Extended(other, joins[n].right, s) /\ Base \in DOMAIN q /\ q[Base] = other[Base]
      BY <2>3, <2>4, <3>0, JoinedFrom
    <3>3. line = other
      BY <2>2, <2>5, <3>1, <3>2
    <3>4. PICK r \in Additions(line, joins[n]) : p = Extended(line, joins[n].right, r)
      BY <3>1
    <3>5. PICK s \in Additions(line, joins[n]) : q = Extended(line, joins[n].right, s)
      BY <3>2, <3>3
    <3>6. r = s
      BY <2>3, OneAddition
    <3> QED
      BY <3>4, <3>5, <3>6
  <2> QED
    BY <2>1, <2>5
<1>8. N \in S
  <2> HIDE DEF S
  <2> QED
    BY <1>1, <1>6, <1>7, IntervalInduction
<1>9. Select = result[N]
  BY DEF Select, result, joins, N
<1>10. x[Base] \in Relation(Base, "k") /\ y[Base] \in Relation(Base, "k") /\ N \in 0..N
  BY <1>1, <1>5, <1>9
<1>11. x[Base] = y[Base]
  BY <1>10 DEF Key, OneRow
<1> QED
  BY <1>8, <1>9, <1>11

-----------------------------------------------------------------------------
Stages == {"new", "planned", "probing", "valid", "answered", "refused"}

\* What the validator has found out, while no table changes after it began.
Probed ==
  /\ stage \in {"new", "planned"} => next = 1
  /\ next \in 1..(Len(edges) + 1)
  /\ ~latest /\ ~touched =>
       /\ \A i \in 1..(next - 1) : edges[i].how.fanout \/ ~NotUnique(edges[i].right, edges[i].how.rc)
       /\ stage = "valid" => next = Len(edges) + 1 /\ ~NotUnique(Base, "k")

\* The inductive invariant.
TypeBInv ==
  /\ Mapping
  /\ RowsTyped
  /\ stage \in Stages /\ touched \in BOOLEAN
  /\ stage \in {"planned", "probing", "valid"} => Resolved(edges, attrs)
  /\ stage # "answered" => answer = {}
  /\ Probed

LEMMA TypeBInit == QueryInit => TypeBInv
<1> SUFFICES ASSUME QueryInit PROVE TypeBInv
  OBVIOUS
<1>1. Mapping
  BY MappingInit
<1>2. RowsTyped
  BY FS_EmptySet DEF QueryInit, RowsTyped
<1>3. Probed
  <2>1. Len(edges) \in Nat
    BY <1>1 DEF Mapping
  <2>2. next = 1 /\ stage = "new"
    BY DEF QueryInit
  <2>3. 1 \in 1..(Len(edges) + 1) /\ 1..(1 - 1) = {}
    BY <2>1
  <2> QED
    BY <2>2, <2>3 DEF Probed
<1> QED
  BY <1>1, <1>2, <1>3 DEF QueryInit, TypeBInv, Stages

\* A step that leaves the tables and what is known of them alone.
\* Tables that stay as they are keep their unique columns.
LEMMA UniqueStays ==
  ASSUME UNCHANGED rows, NEW t, NEW c
  PROVE  NotUnique(t, c)' <=> NotUnique(t, c)
BY Zenon DEF NotUnique, Values

LEMMA ProbedStays ==
  Probed /\ UNCHANGED <<edges, latest, rows, next, touched>>
    /\ stage' \notin {"new", "planned"} /\ stage' # "valid" => Probed'
BY UniqueStays DEF Probed

LEMMA RowsStay == RowsTyped /\ UNCHANGED rows => RowsTyped'
BY DEF RowsTyped

LEMMA MappingSame == Mapping /\ UNCHANGED mapping => Mapping'
BY DEF Mapping, mapping

LEMMA TypeBStep == TypeBInv /\ [QueryNext]_queryVars => TypeBInv'
<1> SUFFICES ASSUME TypeBInv, [QueryNext]_queryVars PROVE TypeBInv'
  OBVIOUS
<1>0. Mapping' /\ UNCHANGED mapping /\ Len(edges) \in Nat
  <2>1. UNCHANGED mapping
    BY MappingStays
  <2> QED
    BY <2>1, MappingSame DEF TypeBInv, Mapping
<1> USE DEF Stages
<1>1. CASE Plan
  <2>1. RowsTyped'
    BY <1>1, RowsStay DEF Plan, TypeBInv
  <2>2. Probed'
    BY <1>1 DEF Plan, TypeBInv, Probed, mapping, NotUnique, Values
  <2>3. stage' = "planned" => Resolved(edges, attrs)
    BY <1>1 DEF Plan, HasPlan
  <2> QED
    BY <1>0, <1>1, <2>1, <2>2, <2>3 DEF Plan, TypeBInv, mapping
<1>2. CASE Validate
  <2>1. RowsTyped'
    BY <1>2, RowsStay DEF Validate, TypeBInv
  <2>2. Probed'
    BY <1>2 DEF Validate, TypeBInv, Probed, mapping, NotUnique, Values
  <2> QED
    BY <1>0, <1>2, <2>1, <2>2 DEF Validate, TypeBInv, mapping
<1>3. CASE ProbeJoin
  <2>1. RowsTyped'
    BY <1>3, RowsStay DEF ProbeJoin, TypeBInv
  <2> DEFINE e == edges[next]
  <2>2. CASE stage' = "refused"
    <3>1. stage' = "refused" /\ UNCHANGED <<edges, latest, rows, next, touched>>
      BY <1>3, <2>2 DEF ProbeJoin, mapping
    <3>2. Probed'
      BY <3>1, ProbedStays DEF TypeBInv
    <3> QED
      BY <1>0, <1>3, <2>1, <3>1, <3>2 DEF ProbeJoin, TypeBInv, mapping
  <2>3. CASE stage' # "refused"
    <3>1. /\ stage = "probing" /\ stage' = "probing" /\ next' = next + 1 /\ next <= Len(edges)
          /\ e.how.fanout \/ ~NotUnique(e.right, e.how.rc)
          /\ UNCHANGED <<edges, latest, rows, touched>>
      BY <1>3, <2>3 DEF ProbeJoin, mapping
    <3>2. next \in 1..Len(edges) /\ next' \in 1..(Len(edges) + 1)
      BY <1>0, <3>1 DEF TypeBInv, Probed
    <3>3. ASSUME ~latest, ~touched, NEW i \in 1..(next' - 1)
          PROVE  edges[i].how.fanout \/ ~NotUnique(edges[i].right, edges[i].how.rc)
      <4>1. i = next \/ i \in 1..(next - 1)
        BY <3>1, <3>2
      <4> QED
        BY <3>1, <3>3, <4>1 DEF TypeBInv, Probed
    <3>4. Probed'
      BY <3>1, <3>2, <3>3, UniqueStays DEF Probed
    <3> QED
      BY <1>0, <1>3, <2>1, <3>1, <3>4 DEF ProbeJoin, TypeBInv, mapping
  <2> QED
    BY <2>2, <2>3
<1>4. CASE ProbeKey
  <2>1. RowsTyped'
    BY <1>4, RowsStay DEF ProbeKey, TypeBInv
  <2>2. Probed'
    BY <1>4, UniqueStays DEF ProbeKey, TypeBInv, Probed, mapping
  <2> QED
    BY <1>0, <1>4, <2>1, <2>2 DEF ProbeKey, TypeBInv, mapping
<1>5. CASE Query
  <2>1. RowsTyped'
    BY <1>5, RowsStay DEF Query, TypeBInv
  <2>2. Probed'
    BY <1>5, ProbedStays DEF Query, TypeBInv, mapping
  <2> QED
    BY <1>0, <1>5, <2>1, <2>2 DEF Query, TypeBInv, mapping
<1>6. CASE LoadTable
  <2>1. PICK t \in {Base} \cup Rights(edges), content \in Contents :
          rows' = [rows EXCEPT ![t] = content]
    BY <1>6 DEF LoadTable
  <2>2. RowsTyped'
    BY <2>1, ContentsAssumption DEF TypeBInv, RowsTyped
  <2>3. Probed'
    <3>1. CASE stage = "planned"
      <4>1. next' = 1 /\ stage' = "planned" /\ 1..(1 - 1) = {} /\ UNCHANGED edges
        BY <1>6, <3>1 DEF LoadTable, TypeBInv, Probed, mapping
      <4> QED
        BY <1>0, <4>1 DEF Probed
    <3>2. CASE stage # "planned"
      BY <1>6, <3>2 DEF LoadTable, TypeBInv, Probed, mapping
    <3> QED
      BY <3>1, <3>2
  <2> QED
    BY <1>0, <1>6, <2>2, <2>3 DEF LoadTable, TypeBInv, mapping
<1>7. CASE UNCHANGED queryVars
  <2>1. RowsTyped'
    BY <1>7, RowsStay DEF queryVars, TypeBInv
  <2>2. Probed'
    BY <1>7, UniqueStays DEF queryVars, mapping, TypeBInv, Probed
  <2> QED
    BY <1>0, <1>7, <2>1, <2>2 DEF queryVars, mapping, TypeBInv
<1> QED
  BY <1>1, <1>2, <1>3, <1>4, <1>5, <1>6, <1>7 DEF QueryNext

(***************************************************************************)
(* The states of a request: its mapping is resolved once it is planned, a  *)
(* table holds rows with ids of their own, and the probes up to the next   *)
(* one have found what they let pass, as long as no table was loaded since. *)
(***************************************************************************)
THEOREM TypeBInvariant == QuerySpec => []TypeBInv
BY TypeBInit, TypeBStep, PTL DEF QuerySpec

\* The answer to a request whose mapping has LEFT joins only.
LEMMA AnswerKeeps == TypeBInv /\ NothingLost /\ [QueryNext]_queryVars => NothingLost'
<1> SUFFICES ASSUME TypeBInv, NothingLost, [QueryNext]_queryVars, stage' = "answered",
                    \A i \in DOMAIN edges' : edges'[i].how.type = "left"
             PROVE  (Values(Base, "k") \subseteq {Key(r) : r \in answer})'
  BY DEF NothingLost
<1>1. CASE Query
  <2>1. \A e \in Elements(edges) : e.how.type = "left"
    BY <1>1 DEF Query, mapping, Elements
  <2>2. RowsTyped /\ Mapping /\ Resolved(edges, attrs)
    BY <1>1 DEF Query, TypeBInv
  <2>3. Values(Base, "k") \subseteq {Key(r) : r \in Select}
    BY <2>1, <2>2, SelectKeeps
  <2>4. answer' = Select /\ UNCHANGED rows
    BY <1>1 DEF Query
  <2> QED
    BY <2>3, <2>4 DEF Values, Key
<1>2. CASE UNCHANGED queryVars
  BY <1>2 DEF queryVars, mapping, NothingLost, Values, Key
<1> QED
  BY <1>1, <1>2 DEF QueryNext, Plan, Validate, ProbeJoin, ProbeKey, LoadTable

(***************************************************************************)
(* A SELECT with LEFT joins only returns every key of the base table as it *)
(* is when the SELECT runs: neither a joined table that lacks a row nor    *)
(* DISTINCT ON, which has a newest row for every key, drops one.           *)
(***************************************************************************)
THEOREM TypeBNothingLost == QuerySpec => []NothingLost
<1>1. QueryInit => NothingLost
  BY DEF QueryInit, NothingLost
<1> QED
  BY <1>1, AnswerKeeps, TypeBInvariant, PTL DEF QuerySpec

\* The answer to a request whose joins were probed, or reduced to the latest rows.
LEMMA AnswerOnce == TypeBInv /\ OneRowPerKey /\ [QueryNext]_queryVars => OneRowPerKey'
<1> SUFFICES ASSUME TypeBInv, OneRowPerKey, [QueryNext]_queryVars,
                    latest' \/ (~touched' /\ \A i \in DOMAIN edges' : ~edges'[i].how.fanout),
                    NEW x \in answer', NEW y \in answer', x[Base].k = y[Base].k, x[Base].k # Null
             PROVE  x = y
  BY DEF OneRowPerKey, Key
<1>1. CASE Query
  <2>1. RowsTyped /\ Mapping /\ Resolved(edges, attrs) /\ Probed
    BY <1>1 DEF Query, TypeBInv
  <2>2. /\ x \in Select /\ y \in Select /\ stage = "valid"
        /\ latest \/ (~touched /\ \A i \in DOMAIN edges : ~edges[i].how.fanout)
    BY <1>1 DEF Query, mapping
  <2>3. \A i \in DOMAIN edges : edges[i].right \in Tables
    BY <2>1, EdgeShape DEF Mapping
  <2>4. OneRow(Base, "k") /\ \A i \in DOMAIN edges : OneRow(edges[i].right, edges[i].how.rc)
    <3>1. CASE latest
      BY <2>1, <2>3, <3>1, BaseAssumption, LatestIsOneRow
    <3>2. CASE ~latest
      <4>1. ~NotUnique(Base, "k") /\ next = Len(edges) + 1
        BY <2>1, <2>2, <3>2 DEF Probed
      <4>2. \A i \in 1..(next - 1) : edges[i].how.fanout \/ ~NotUnique(edges[i].right, edges[i].how.rc)
        BY <2>1, <2>2, <3>2 DEF Probed
      <4>3. DOMAIN edges = 1..(next - 1)
        BY <2>1, <4>1 DEF Mapping
      <4> QED
        BY <2>1, <2>2, <2>3, <3>2, <4>1, <4>2, <4>3, BaseAssumption, ProbedIsOneRow
    <3> QED
      BY <3>1, <3>2
  <2>5. \A e \in Elements(edges) : OneRow(e.right, e.how.rc)
    BY <2>4 DEF Elements
  <2> QED
    BY <2>1, <2>2, <2>4, <2>5, SelectOnce DEF Key
<1>2. CASE UNCHANGED queryVars
  BY <1>2 DEF queryVars, mapping, OneRowPerKey, Key
<1>3. CASE answer' = answer /\ stage' # "answered"
  BY <1>3, TypeBStep DEF TypeBInv
<1> QED
  BY <1>1, <1>2, <1>3 DEF QueryNext, Plan, Validate, ProbeJoin, ProbeKey, LoadTable

(***************************************************************************)
(* The fan-out guard is enough: with the probes of the validator, or with  *)
(* latest_only in their place, no SELECT returns a key twice, whatever the *)
(* tables hold and however many joins there are.                           *)
(***************************************************************************)
THEOREM TypeBOneRowPerKey == QuerySpec => []OneRowPerKey
<1>1. QueryInit => OneRowPerKey
  BY DEF QueryInit, OneRowPerKey
<1> QED
  BY <1>1, AnswerOnce, TypeBInvariant, PTL DEF QuerySpec

-----------------------------------------------------------------------------
\* The names that the FROM clause has before line i.
Before(lines, i) == {Name[Base]} \cup {Name[lines[j].right] : j \in 1..(i - 1)}
Chain(lines) == \A i \in DOMAIN lines : lines[i].left \in Before(lines, i)
OnceEach(seq) == \A i, j \in DOMAIN seq : seq[i] = seq[j] => i = j

\* A line more changes nothing before it.
LEMMA BeforeAppend ==
  ASSUME NEW lines \in Seq(Edge), NEW e \in Edge
  PROVE  /\ \A i \in 1..(Len(lines) + 1) : Before(Append(lines, e), i) = Before(lines, i)
         /\ \A x : x \in Before(Append(lines, e), Len(lines) + 2) <=>
              x \in Before(lines, Len(lines) + 1) \/ x = Name[e.right]
<1> DEFINE new == Append(lines, e)
<1>1. /\ Len(lines) \in Nat /\ new[Len(lines) + 1] = e
      /\ \A j \in 1..Len(lines) : new[j] = lines[j]
  OBVIOUS
<1> HIDE DEF new
<1>2. ASSUME NEW i \in 1..(Len(lines) + 1) PROVE Before(new, i) = Before(lines, i)
  <2>1. \A j \in 1..(i - 1) : j \in 1..Len(lines)
    BY <1>1
  <2> QED
    BY <1>1, <2>1 DEF Before
<1>3. ASSUME NEW x
      PROVE  x \in Before(new, Len(lines) + 2) <=>
               x \in Before(lines, Len(lines) + 1) \/ x = Name[e.right]
  <2>1. /\ \A j : j \in 1..((Len(lines) + 2) - 1) <=> j \in 1..Len(lines) \/ j = Len(lines) + 1
        /\ \A j : j \in 1..((Len(lines) + 1) - 1) <=> j \in 1..Len(lines)
    BY <1>1
  <2> QED
    BY <1>1, <2>1 DEF Before
<1> QED
  BY <1>2, <1>3 DEF new

LEMMA ChainAppend ==
  ASSUME NEW lines \in Seq(Edge), NEW e \in Edge,
         Chain(lines), e.left \in Before(lines, Len(lines) + 1)
  PROVE  Chain(Append(lines, e))
<1> DEFINE new == Append(lines, e)
<1>1. /\ Len(lines) \in Nat /\ new[Len(lines) + 1] = e /\ DOMAIN new = 1..(Len(lines) + 1)
      /\ \A j \in 1..Len(lines) : new[j] = lines[j]
      /\ DOMAIN lines = 1..Len(lines)
  OBVIOUS
<1>2. \A i \in 1..(Len(lines) + 1) : Before(new, i) = Before(lines, i)
  BY BeforeAppend
<1> HIDE DEF new
<1>3. ASSUME NEW i \in DOMAIN new PROVE new[i].left \in Before(new, i)
  <2>1. i \in 1..(Len(lines) + 1) /\ (i = Len(lines) + 1 \/ i \in 1..Len(lines))
    BY <1>1
  <2>2. CASE i = Len(lines) + 1
    BY <1>1, <1>2, <2>1, <2>2
  <2>3. CASE i \in 1..Len(lines)
    BY <1>1, <1>2, <2>1, <2>3 DEF Chain
  <2> QED
    BY <2>1, <2>2, <2>3
<1> QED
  BY <1>3 DEF Chain, new

LEMMA OnceEachAppend ==
  ASSUME NEW T, NEW seq \in Seq(T), NEW e \in T, OnceEach(seq), e \notin Elements(seq)
  PROVE  OnceEach(Append(seq, e))
<1> DEFINE new == Append(seq, e)
<1>1. /\ Len(seq) \in Nat /\ new[Len(seq) + 1] = e /\ DOMAIN new = 1..(Len(seq) + 1)
      /\ \A j \in 1..Len(seq) : new[j] = seq[j]
      /\ DOMAIN seq = 1..Len(seq)
  OBVIOUS
<1>2. \A j \in 1..Len(seq) : seq[j] # e
  BY <1>1 DEF Elements
<1> HIDE DEF new
<1>3. ASSUME NEW i \in DOMAIN new, NEW j \in DOMAIN new, new[i] = new[j] PROVE i = j
  <2>1. /\ i = Len(seq) + 1 \/ i \in 1..Len(seq)
        /\ j = Len(seq) + 1 \/ j \in 1..Len(seq)
    BY <1>1
  <2> QED
    BY <1>1, <1>2, <1>3, <2>1 DEF OnceEach
<1> QED
  BY <1>3 DEF OnceEach, new

\* What the text says of the joins when all but rest were looked at.
Told(es, as, sql, rest) ==
  /\ sql.present = Before(sql.lines, Len(sql.lines) + 1)
  /\ Chain(sql.lines)
  /\ OnceEach(sql.lines) /\ OnceEach(sql.still)
  /\ Elements(sql.lines) \cap Elements(sql.still) = {}
  /\ rest \cap Elements(sql.lines) = {} /\ rest \cap Elements(sql.still) = {}
  /\ \A e : e \in Elements(es) <=>
       e \in Elements(sql.lines) \/ e \in Elements(sql.still) \/ e \in rest
  /\ \A o \in Elements(sql.lines) : LeftTable(es, as, o) \in ReachedFromBase(Distinct(es, as))

\* A name belongs to one table of the mapping.
LEMMA TableOfName ==
  ASSUME NEW es, NEW as, Joint(es, as), NamesDiffer(es, as),
         NEW lines, Elements(lines) \subseteq Elements(es), lines \in Seq(Edge),
         \A o \in Elements(lines) : LeftTable(es, as, o) \in ReachedFromBase(Distinct(es, as)),
         NEW t \in Known(es, as), Name[t] \in Before(lines, Len(lines) + 1)
  PROVE  t \in ReachedFromBase(Distinct(es, as))
<1>1. Base \in Known(es, as)
  BY DEF Known
<1>2. CASE Name[t] = Name[Base]
  <2>1. t = Base
    BY <1>1, <1>2 DEF NamesDiffer
  <2> QED
    BY <2>1, Reach
<1>3. CASE Name[t] # Name[Base]
  <2>1. PICK j \in 1..((Len(lines) + 1) - 1) : Name[t] = Name[lines[j].right]
    BY <1>3 DEF Before
  <2>2. lines[j] \in Elements(lines)
    <3>1. j \in DOMAIN lines
      OBVIOUS
    <3> QED
      BY <3>1 DEF Elements
  <2>3. lines[j].right \in Known(es, as)
    BY <2>2 DEF Known, Rights
  <2>4. t = lines[j].right
    BY <2>1, <2>3 DEF NamesDiffer
  <2> QED
    BY <2>2, <2>4, Reach
<1> QED
  BY <1>2, <1>3

\* The step of generate_type_b_sql: one join is taken from rest.
LEMMA WriteTells ==
  ASSUME NEW es, NEW as, Joint(es, as), NamesDiffer(es, as), NEW sql \in Sqls, NEW rest,
         NEW e \in Elements(es), e \notin rest, Told(es, as, sql, rest \cup {e})
  PROVE  Told(es, as, Write(sql, e), rest)
<1> DEFINE new == Write(sql, e)
<1>0. /\ e \in Edge /\ sql.lines \in Seq(Edge) /\ sql.still \in Seq(Edge)
      /\ e \notin Elements(sql.lines) /\ e \notin Elements(sql.still)
      /\ Elements(sql.lines) \subseteq Elements(es)
  BY LeftTableIs DEF Sqls, Told
<1>1. CASE e.left \in sql.present
  <2>1. /\ new.lines = Append(sql.lines, e) /\ new.still = sql.still
        /\ new.present = sql.present \cup {Name[e.right]}
    BY <1>1 DEF Write, Sqls
  <2> HIDE DEF new
  <2>2. Elements(new.lines) = Elements(sql.lines) \cup {e} /\ Len(new.lines) = Len(sql.lines) + 1
    BY <1>0, <2>1, AppendedElements
  <2>3. new.present = Before(new.lines, Len(new.lines) + 1)
    <3>1. \A x : x \in Before(new.lines, Len(sql.lines) + 2) <=> x \in new.present
      BY <1>0, <2>1, BeforeAppend DEF Told
    <3>2. Len(new.lines) + 1 = Len(sql.lines) + 2
      BY <1>0, <2>2
    <3> QED
      BY <3>1, <3>2
  <2>4. Chain(new.lines)
    BY <1>0, <1>1, <2>1, ChainAppend DEF Told
  <2>5. OnceEach(new.lines)
    BY <1>0, <2>1, OnceEachAppend DEF Told
  <2>6. LeftTable(es, as, e) \in ReachedFromBase(Distinct(es, as))
    <3>1. LeftTable(es, as, e) \in Known(es, as) /\ Name[LeftTable(es, as, e)] = e.left
      BY LeftTableIs
    <3>2. Name[LeftTable(es, as, e)] \in Before(sql.lines, Len(sql.lines) + 1)
      BY <1>1, <3>1 DEF Told
    <3>3. \A o \in Elements(sql.lines) : LeftTable(es, as, o) \in ReachedFromBase(Distinct(es, as))
      BY DEF Told
    <3> QED
      BY <1>0, <3>1, <3>2, <3>3, TableOfName
  <2>7. /\ Elements(new.lines) \cap Elements(new.still) = {}
        /\ rest \cap Elements(new.lines) = {} /\ rest \cap Elements(new.still) = {}
        /\ \A o \in Elements(new.lines) : LeftTable(es, as, o) \in ReachedFromBase(Distinct(es, as))
        /\ OnceEach(new.still)
    BY <1>0, <2>1, <2>2, <2>6 DEF Told
  <2>8. \A x : x \in Elements(es) <=>
          x \in Elements(new.lines) \/ x \in Elements(new.still) \/ x \in rest
    BY <2>1, <2>2 DEF Told
  <2> QED
    BY <2>3, <2>4, <2>5, <2>7, <2>8 DEF Told, new
<1>2. CASE e.left \notin sql.present
  <2>1. new.lines = sql.lines /\ new.still = Append(sql.still, e) /\ new.present = sql.present
    BY <1>2 DEF Write, Sqls
  <2> HIDE DEF new
  <2>2. Elements(new.still) = Elements(sql.still) \cup {e}
    BY <1>0, <2>1, AppendedElements
  <2>3. OnceEach(new.still)
    BY <1>0, <2>1, OnceEachAppend DEF Told
  <2>4. /\ Elements(new.lines) \cap Elements(new.still) = {}
        /\ rest \cap Elements(new.lines) = {} /\ rest \cap Elements(new.still) = {}
        /\ \A o \in Elements(new.lines) : LeftTable(es, as, o) \in ReachedFromBase(Distinct(es, as))
        /\ OnceEach(new.lines) /\ Chain(new.lines)
        /\ new.present = Before(new.lines, Len(new.lines) + 1)
    BY <1>0, <2>1, <2>2 DEF Told
  <2>5. \A x : x \in Elements(es) <=>
          x \in Elements(new.lines) \/ x \in Elements(new.still) \/ x \in rest
    BY <2>1, <2>2 DEF Told
  <2> QED
    BY <2>3, <2>4, <2>5 DEF Told, new
<1> QED
  BY <1>1, <1>2

\* No join that waits could be written.
Stuck(sql) == \A e \in Elements(sql.still) : e.left \notin sql.present

\* What k joins of a pass do to the text, as with the planner.
SqlAdvanced(sql, q, k) ==
  /\ Len(q.still) <= k
  /\ sql.present \subseteq q.present
  /\ Elements(q.still) \subseteq Elements(sql.still)
  /\ Len(q.still) = k =>
       q.present = sql.present /\ \A e \in Elements(q.still) : e.left \notin sql.present
  /\ Stuck(sql) => q.present = sql.present

LEMMA WriteAdvances ==
  ASSUME NEW sql \in Sqls, NEW q \in Sqls, NEW k \in Nat \ {0},
         NEW e \in Elements(sql.still), SqlAdvanced(sql, q, k - 1)
  PROVE  SqlAdvanced(sql, Write(q, e), k)
<1> DEFINE r == Write(q, e)
<1>0. /\ e \in Edge /\ Len(q.still) \in Nat /\ q.still \in Seq(Edge)
      /\ Len(q.still) <= k - 1 /\ k - 1 < k
  BY DEF Sqls, Elements, SqlAdvanced
<1>1. CASE e.left \notin q.present
  <2>1. r.present = q.present /\ r.still = Append(q.still, e)
    BY <1>1 DEF Write, Sqls
  <2> HIDE DEF r
  <2>2. Elements(r.still) = Elements(q.still) \cup {e} /\ Len(r.still) = Len(q.still) + 1
    BY <1>0, <2>1, AppendedElements
  <2>3. Len(r.still) <= k /\ (Len(r.still) = k => Len(q.still) = k - 1)
    BY <1>0, <2>2
  <2>4. sql.present \subseteq r.present /\ Elements(r.still) \subseteq Elements(sql.still)
    BY <2>1, <2>2 DEF SqlAdvanced
  <2>5. ASSUME Len(r.still) = k
        PROVE  /\ r.present = sql.present
               /\ \A d \in Elements(r.still) : d.left \notin sql.present
    BY <1>1, <2>1, <2>2, <2>3, <2>5 DEF SqlAdvanced
  <2>6. Stuck(sql) => r.present = sql.present
    BY <2>1 DEF SqlAdvanced
  <2> QED
    BY <2>3, <2>4, <2>5, <2>6 DEF SqlAdvanced, r
<1>2. CASE e.left \in q.present
  <2>1. r.present = q.present \cup {Name[e.right]} /\ r.still = q.still
    BY <1>2 DEF Write, Sqls
  <2> HIDE DEF r
  <2>2. Len(r.still) <= k /\ Len(r.still) # k
    BY <1>0, <2>1
  <2>3. sql.present \subseteq r.present /\ Elements(r.still) \subseteq Elements(sql.still)
    BY <2>1 DEF SqlAdvanced
  <2>4. ~Stuck(sql)
    BY <1>2 DEF SqlAdvanced, Stuck
  <2> QED
    BY <2>2, <2>3, <2>4 DEF SqlAdvanced, r
<1> QED
  BY <1>1, <1>2

LEMMA SqlPassAdvances ==
  ASSUME NEW sql \in Sqls
  PROVE  SqlAdvanced(sql, SqlPass(sql), Len(sql.still))
<1> DEFINE N == Len(sql.still)
           upto == SqlPassStates(sql)
           S == {n \in 0..N : SqlAdvanced(sql, upto[n], n)}
<1>1. N \in Nat /\ \A n \in 1..N : sql.still[n] \in Elements(sql.still)
  BY DEF Sqls, Elements
<1>2. /\ upto \in [0..N -> Sqls] /\ upto[0] = [sql EXCEPT !.still = <<>>]
      /\ \A n \in 1..N : upto[n] = Write(upto[n - 1], sql.still[n])
  <2>1. IsSqlPass(sql, upto)
    BY SqlPassLoop
  <2> QED
    BY <2>1 DEF IsSqlPass
<1>3. 0 \in S
  <2>1. /\ upto[0].still = <<>> /\ upto[0].present = sql.present
    BY <1>2 DEF Sqls
  <2>2. Len(<<>>) = 0 /\ Elements(<<>>) = {}
    BY DEF Elements
  <2>3. 0 \in 0..N
    BY <1>1
  <2> HIDE DEF upto, N
  <2>5. Len(upto[0].still) = 0 /\ Elements(upto[0].still) = {}
    BY <2>1, <2>2
  <2>4. SqlAdvanced(sql, upto[0], 0)
    <3>1. sql.present \subseteq upto[0].present /\ upto[0].present = sql.present
      BY <2>1
    <3>2. Elements(upto[0].still) \subseteq Elements(sql.still)
      BY <2>5
    <3>3. \A e \in Elements(upto[0].still) : e.left \notin sql.present
      BY <2>5
    <3>4. Len(upto[0].still) <= 0
      BY <2>5
    <3> QED
      BY <3>1, <3>2, <3>3, <3>4, Zenon DEF SqlAdvanced
  <2> QED
    BY <2>3, <2>4
<1> HIDE DEF upto, N
<1>4. ASSUME NEW n \in 1..N, n - 1 \in S PROVE n \in S
  <2>1. n \in Nat \ {0} /\ n \in 0..N /\ n - 1 \in 0..N /\ sql.still[n] \in Elements(sql.still)
    BY <1>1
  <2>2. upto[n - 1] \in Sqls /\ upto[n] = Write(upto[n - 1], sql.still[n])
    BY <1>2, <2>1
  <2>3. SqlAdvanced(sql, upto[n - 1], n - 1)
    BY <1>4
  <2> QED
    BY <2>1, <2>2, <2>3, WriteAdvances
<1>5. N \in S
  <2> HIDE DEF S
  <2> QED
    BY <1>1, <1>3, <1>4, IntervalInduction
<1> QED
  BY <1>5 DEF SqlPass, upto, N

LEMMA SqlPassTells ==
  ASSUME NEW es, NEW as, Joint(es, as), NamesDiffer(es, as), NEW sql \in Sqls, Told(es, as, sql, {})
  PROVE  Told(es, as, SqlPass(sql), {})
<1> DEFINE N == Len(sql.still)
           upto == SqlPassStates(sql)
           rest(n) == {sql.still[i] : i \in (n + 1)..N}
           S == {n \in 0..N : Told(es, as, upto[n], rest(n))}
<1>0. N \in Nat /\ DOMAIN sql.still = 1..N
  BY DEF Sqls
<1>1. \A n \in 1..N : sql.still[n] \in Elements(es) /\ sql.still[n] \notin rest(n)
  <2>1. \A n \in 1..N : sql.still[n] \in Elements(sql.still)
    BY <1>0 DEF Elements
  <2>2. Elements(sql.still) \subseteq Elements(es) /\ OnceEach(sql.still)
    BY DEF Told
  <2>3. \A i, j \in 1..N : sql.still[i] = sql.still[j] => i = j
    BY <1>0, <2>2 DEF OnceEach
  <2> QED
    BY <1>0, <2>1, <2>2, <2>3
<1>2. /\ upto \in [0..N -> Sqls] /\ upto[0] = [sql EXCEPT !.still = <<>>]
      /\ \A n \in 1..N : upto[n] = Write(upto[n - 1], sql.still[n])
  <2>1. IsSqlPass(sql, upto)
    BY SqlPassLoop
  <2> QED
    BY <2>1 DEF IsSqlPass
<1>3. 0 \in S
  <2>1. /\ upto[0].still = <<>> /\ upto[0].present = sql.present /\ upto[0].lines = sql.lines
    BY <1>2 DEF Sqls
  <2>2. Elements(<<>>) = {} /\ OnceEach(<<>>)
    BY DEF Elements, OnceEach
  <2>3. rest(0) = Elements(sql.still)
    BY <1>0 DEF Elements
  <2>4. 0 \in 0..N
    BY <1>0
  <2> HIDE DEF upto, rest, N
  <2>5. Told(es, as, upto[0], Elements(sql.still))
    BY <2>1, <2>2 DEF Told
  <2> QED
    BY <2>3, <2>4, <2>5
<1>4. ASSUME NEW n \in 1..N PROVE rest(n - 1) = rest(n) \cup {sql.still[n]}
  BY <1>0
<1>5. rest(N) = {}
  BY <1>0
<1> HIDE DEF upto, N, rest
<1>6. ASSUME NEW n \in 1..N, n - 1 \in S PROVE n \in S
  <2>1. n \in 0..N /\ n - 1 \in 0..N
    BY <1>0
  <2>2. upto[n - 1] \in Sqls /\ upto[n] = Write(upto[n - 1], sql.still[n])
    BY <1>2, <2>1
  <2>3. Told(es, as, upto[n - 1], rest(n) \cup {sql.still[n]})
    BY <1>4, <1>6
  <2>4. Told(es, as, upto[n], rest(n))
    BY <1>1, <2>2, <2>3, WriteTells
  <2> QED
    BY <2>1, <2>4
<1>7. N \in S
  <2>1. N \in Nat /\ N \in 0..N
    BY <1>0
  <2> HIDE DEF S
  <2>2. 0..N \subseteq S
    BY <1>3, <1>6, <2>1, IntervalInduction
  <2> QED
    BY <2>1, <2>2
<1> QED
  BY <1>5, <1>7 DEF SqlPass, upto, N

\* After as many passes as there are joins, no join waits that could be written.
LEMMA SqlIs ==
  ASSUME NEW es, NEW as, Joint(es, as), NamesDiffer(es, as), OnceEach(es)
  PROVE  /\ SqlOrder(es) \in Sqls
         /\ Told(es, as, SqlOrder(es), {})
         /\ Stuck(SqlOrder(es))
<1> DEFINE N == Len(es)
           pass == SqlStates(es)
           done(n) == Len(pass[n].still) <= N - n \/ Stuck(pass[n])
           S == {n \in 0..N : Told(es, as, pass[n], {}) /\ done(n)}
<1>0. es \in Seq(Edge)
  BY DEF Joint
<1>1. N \in Nat
  BY <1>0
<1>2. /\ pass \in [0..N -> Sqls] /\ pass[0] = StartSql(es)
      /\ \A n \in 1..N : pass[n] = SqlPass(pass[n - 1])
  <2>1. IsSql(es, pass)
    BY <1>0, SqlLoop
  <2> QED
    BY <2>1 DEF IsSql
<1>3. 0 \in S
  <2>1. /\ pass[0].still = es /\ pass[0].present = {Name[Base]} /\ pass[0].lines = <<>>
    BY <1>2 DEF StartSql
  <2>2. Elements(<<>>) = {} /\ OnceEach(<<>>) /\ Chain(<<>>) /\ Before(<<>>, Len(<<>>) + 1) = {Name[Base]}
    BY DEF Elements, OnceEach, Chain, Before
  <2> HIDE DEF pass
  <2>4. Told(es, as, pass[0], {})
    BY <2>1, <2>2 DEF Told
  <2>5. 0 \in 0..N /\ Len(pass[0].still) <= N - 0
    BY <1>1, <2>1
  <2> QED
    BY <2>4, <2>5
<1> HIDE DEF pass, N
<1>4. ASSUME NEW n \in 1..N, n - 1 \in S PROVE n \in S
  <2>1. n \in 0..N /\ n - 1 \in 0..N
    BY <1>1
  <2>2. pass[n - 1] \in Sqls /\ pass[n] = SqlPass(pass[n - 1])
    BY <1>2, <2>1
  <2>9. pass[n] \in Sqls
    BY <1>2, <2>1
  <2>3. Told(es, as, pass[n], {})
    BY <1>4, <2>2, SqlPassTells
  <2>4. SqlAdvanced(pass[n - 1], pass[n], Len(pass[n - 1].still))
    BY <2>2, SqlPassAdvances
  <2>5. Len(pass[n - 1].still) \in Nat /\ Len(pass[n].still) \in Nat
    <3>1. \A q \in Sqls : Len(q.still) \in Nat
      BY DEF Sqls
    <3> QED
      BY <2>2, <2>9, <3>1
  <2>6. CASE Stuck(pass[n - 1])
    <3>1. Stuck(pass[n])
      BY <2>4, <2>6 DEF SqlAdvanced, Stuck
    <3> QED
      BY <2>1, <2>3, <3>1
  <2>7. CASE Len(pass[n].still) = Len(pass[n - 1].still)
    <3>1. Stuck(pass[n])
      BY <2>4, <2>7 DEF SqlAdvanced, Stuck
    <3> QED
      BY <2>1, <2>3, <3>1
  <2>8. CASE ~Stuck(pass[n - 1]) /\ Len(pass[n].still) # Len(pass[n - 1].still)
    <3>1. Len(pass[n - 1].still) <= N - (n - 1)
      BY <1>4, <2>8
    <3>2. Len(pass[n].still) <= Len(pass[n - 1].still)
      BY <2>4 DEF SqlAdvanced
    <3>3. Len(pass[n].still) <= N - n
      BY <1>1, <2>5, <2>8, <3>1, <3>2
    <3> QED
      BY <2>1, <2>3, <3>3
  <2> QED
    BY <2>6, <2>7, <2>8
<1>5. N \in S
  <2> HIDE DEF S
  <2> QED
    BY <1>1, <1>3, <1>4, IntervalInduction
<1>6. N \in 0..N /\ pass[N] \in Sqls /\ Told(es, as, pass[N], {})
  BY <1>1, <1>2, <1>5
<1>7. Stuck(pass[N])
  <2>1. CASE Len(pass[N].still) <= 0
    <3>1. pass[N].still \in Seq(Edge)
      BY <1>6 DEF Sqls
    <3>2. Elements(pass[N].still) = {}
      BY <2>1, <3>1 DEF Elements
    <3> QED
      BY <3>2 DEF Stuck
  <2>2. N - N = 0
    BY <1>1
  <2>3. Len(pass[N].still) <= N - N \/ Stuck(pass[N])
    BY <1>5
  <2> QED
    BY <2>1, <2>2, <2>3
<1> QED
  BY <1>6, <1>7 DEF SqlOrder, pass, N

\* A mapping without repeated joins has each of them at one position.
LEMMA NoneTwiceOnce ==
  ASSUME NEW es, NoneTwice(es)
  PROVE  /\ OnceEach(es)
         /\ \A d, e \in Elements(es) : Same(d, e) => d = e
<1>1. \A i, j \in DOMAIN es : es[i] = es[j] => Same(es[i], es[j])
  BY SameSelf
<1>2. OnceEach(es)
  BY <1>1 DEF OnceEach, NoneTwice
<1>3. ASSUME NEW d \in Elements(es), NEW e \in Elements(es), Same(d, e) PROVE d = e
  <2>1. PICK i \in DOMAIN es : d = es[i]
    BY DEF Elements
  <2>2. PICK j \in DOMAIN es : e = es[j]
    BY DEF Elements
  <2>3. i = j
    BY <1>3, <2>1, <2>2 DEF NoneTwice
  <2> QED
    BY <2>1, <2>2, <2>3
<1> QED
  BY <1>2, <1>3

\* Two sequences, one after the other.
LEMMA InARow ==
  ASSUME NEW T, NEW a \in Seq(T), NEW b \in Seq(T)
  PROVE  /\ a \o b \in Seq(T)
         /\ \A x : x \in Elements(a \o b) <=> x \in Elements(a) \/ x \in Elements(b)
         /\ \A i \in 1..Len(a) : (a \o b)[i] = a[i]
         /\ b # <<>> => /\ Len(a) + 1 \in DOMAIN (a \o b)
                        /\ (a \o b)[Len(a) + 1] \in Elements(b)
         /\ b = <<>> => a \o b = a
<1> DEFINE c == a \o b
<1>1. /\ Len(a) \in Nat /\ Len(b) \in Nat /\ DOMAIN a = 1..Len(a) /\ DOMAIN b = 1..Len(b)
      /\ c \in Seq(T) /\ DOMAIN c = 1..(Len(a) + Len(b))
      /\ \A i \in 1..Len(a) : c[i] = a[i]
      /\ \A i \in 1..Len(b) : c[Len(a) + i] = b[i]
  OBVIOUS
<1>2. b = <<>> => c = a
  OBVIOUS
<1>3. b # <<>> => Len(b) # 0
  OBVIOUS
<1> HIDE DEF c
<1>4. ASSUME NEW x PROVE x \in Elements(c) <=> x \in Elements(a) \/ x \in Elements(b)
  <2>1. ASSUME x \in Elements(c) PROVE x \in Elements(a) \/ x \in Elements(b)
    <3>1. PICK i \in 1..(Len(a) + Len(b)) : x = c[i]
      BY <1>1, <2>1 DEF Elements
    <3>2. CASE i \in 1..Len(a)
      BY <1>1, <3>1, <3>2 DEF Elements
    <3>3. CASE i \notin 1..Len(a)
      <4>1. i - Len(a) \in 1..Len(b) /\ i = Len(a) + (i - Len(a))
        BY <1>1, <3>3
      <4> QED
        BY <1>1, <3>1, <4>1 DEF Elements
    <3> QED
      BY <3>2, <3>3
  <2>2. ASSUME x \in Elements(a) PROVE x \in Elements(c)
    <3>1. PICK i \in 1..Len(a) : x = a[i]
      BY <1>1, <2>2 DEF Elements
    <3>2. i \in DOMAIN c /\ x = c[i]
      BY <1>1, <3>1
    <3> QED
      BY <3>2 DEF Elements
  <2>3. ASSUME x \in Elements(b) PROVE x \in Elements(c)
    <3>1. PICK i \in 1..Len(b) : x = b[i]
      BY <1>1, <2>3 DEF Elements
    <3>2. Len(a) + i \in DOMAIN c /\ x = c[Len(a) + i]
      BY <1>1, <3>1
    <3> QED
      BY <3>2 DEF Elements
  <2> QED
    BY <2>1, <2>2, <2>3
<1>5. ASSUME b # <<>> PROVE Len(a) + 1 \in DOMAIN c /\ c[Len(a) + 1] \in Elements(b)
  <2>1. 1 \in 1..Len(b)
    BY <1>1, <1>3, <1>5
  <2>2. Len(a) + 1 \in DOMAIN c /\ c[Len(a) + 1] = b[1]
    BY <1>1, <2>1
  <2> QED
    BY <1>1, <2>1, <2>2 DEF Elements
<1> QED
  BY <1>1, <1>2, <1>4, <1>5 DEF c

LEMMA BeforePrefix ==
  ASSUME NEW T, NEW a \in Seq(T), NEW b \in Seq(T)
  PROVE  \A i \in 1..(Len(a) + 1) : Before(a \o b, i) = Before(a, i)
<1>1. \A i \in 1..Len(a) : (a \o b)[i] = a[i]
  BY InARow
<1>2. \A i \in 1..(Len(a) + 1) : \A j \in 1..(i - 1) : j \in 1..Len(a)
  OBVIOUS
<1> QED
  BY <1>1, <1>2 DEF Before

\* parse_type_b_sql with Before.
LEMMA ParsesIs ==
  ASSUME NEW lines, NEW as
  PROVE  Parses(lines, as) <=>
           /\ \A i \in DOMAIN lines : /\ lines[i].left \in Before(lines, i)
                                      /\ Name[lines[i].right] \notin Before(lines, i)
           /\ {Name[t] : t \in as} \subseteq Before(lines, Len(lines) + 1)
BY Zenon DEF Parses, Before

\* The SQL is read back exactly if the joins form a tree.
LEMMA SqlIsRight ==
  ASSUME NEW es, NEW as, Joint(es, as), NamesDiffer(es, as), NoneTwice(es)
  PROVE  /\ Parses(Sql(es), as) <=> IsTree(es, as)
         /\ Elements(Sql(es)) = Elements(es)
<1> DEFINE sql == SqlOrder(es)
           text == Sql(es)
           reached == ReachedFromBase(Distinct(es, as))
<1>1. sql \in Sqls /\ Told(es, as, sql, {}) /\ Stuck(sql)
  BY NoneTwiceOnce, SqlIs
<1>2. text = sql.lines \o sql.still
  BY DEF Sql
<1>3. sql.lines \in Seq(Edge) /\ sql.still \in Seq(Edge)
  BY <1>1 DEF Sqls
<1> HIDE DEF sql, text
<1>4. Elements(text) = Elements(es)
  <2>1. \A x : x \in Elements(text) <=> x \in Elements(sql.lines) \/ x \in Elements(sql.still)
    BY <1>2, <1>3, InARow
  <2>2. \A x : x \in Elements(es) <=> x \in Elements(sql.lines) \/ x \in Elements(sql.still)
    BY <1>1 DEF Told
  <2> QED
    BY <2>1, <2>2
<1>5. \A e \in Elements(es) : /\ GraphEdge(es, as, e).left = LeftTable(es, as, e)
                               /\ GraphEdge(es, as, e).right = e.right
                               /\ GraphEdge(es, as, e) \in Distinct(es, as)
                               /\ LeftTable(es, as, e) \in Known(es, as)
                               /\ e.left = Name[LeftTable(es, as, e)]
                               /\ e.right \in Known(es, as)
  BY GraphEdges, LeftTableIs DEF GraphEdge, Known, Rights
<1>6. ASSUME NEW d \in Distinct(es, as)
      PROVE  \E e \in Elements(es) : d = GraphEdge(es, as, e)
  BY GraphEdges
<1>7. Base \in Known(es, as) /\ as \subseteq Known(es, as)
  BY DEF Known
<1>8. ASSUME sql.still = <<>>
      PROVE  /\ text = sql.lines /\ Elements(sql.lines) = Elements(es)
             /\ text \in Seq(Edge) /\ DOMAIN text = 1..Len(text) /\ Len(text) \in Nat
  BY <1>2, <1>3, <1>4, <1>8, InARow
<1>9. ASSUME IsTree(es, as) PROVE Parses(text, as)
  <2> DEFINE present == {t \in Known(es, as) : Name[t] \in sql.present}
  <2>1. reached \subseteq present
    <3>1. present \in SUBSET Tables
      BY LeftTableIs, BaseAssumption DEF Joint, Known, Rights
    <3>2. Base \in present
      BY <1>1, <1>7 DEF Told, Before
    <3>3. ASSUME NEW e \in Elements(es), LeftTable(es, as, e) \in present PROVE e.right \in present
      <4>1. e \in Elements(sql.lines)
        BY <1>1, <1>5, <3>3 DEF Told, Stuck
      <4>2. PICK j \in 1..Len(sql.lines) : e = sql.lines[j]
        BY <1>3, <4>1 DEF Elements
      <4>3. j \in 1..((Len(sql.lines) + 1) - 1)
        BY <1>3
      <4>4. Name[e.right] \in sql.present
        BY <1>1, <4>2, <4>3 DEF Told, Before
      <4> QED
        BY <1>5, <4>4
    <3> QED
      BY <3>1, <3>2, <3>3, Reach
  <2>2. \A e \in Elements(es) : e.right # Base /\ LeftTable(es, as, e) \in reached
    <3>1. \A d \in Distinct(es, as) : d.right # Base /\ d.left \in reached
      BY <1>9 DEF IsTree
    <3> QED
      BY <1>5, <3>1
  <2>3. sql.still = <<>>
    <3>1. Elements(sql.still) = {}
      <4>1. Elements(sql.still) \subseteq Elements(es)
        BY <1>1 DEF Told
      <4>2. \A e \in Elements(es) : e.left \in sql.present
        BY <1>5, <2>1, <2>2
      <4> QED
        BY <1>1, <4>1, <4>2 DEF Stuck
    <3> QED
      BY <1>3, <3>1, NoElements
  <2>4. /\ text = sql.lines /\ Elements(text) = Elements(es) /\ DOMAIN text = 1..Len(text)
        /\ Len(text) \in Nat
    BY <1>4, <1>8, <2>3
  <2>5. Chain(text) /\ OnceEach(text) /\ sql.present = Before(text, Len(text) + 1)
    BY <1>1, <2>4 DEF Told
  <2>6. ASSUME NEW i \in DOMAIN text, Name[text[i].right] \in Before(text, i) PROVE FALSE
    <3>1. text[i] \in Elements(es) /\ text[i].right \in Known(es, as)
      <4>1. text[i] \in Elements(text)
        BY DEF Elements
      <4> QED
        BY <1>5, <2>4, <4>1
    <3>2. Name[text[i].right] # Name[Base]
      BY <1>7, <2>2, <3>1 DEF NamesDiffer
    <3>3. PICK j \in 1..(i - 1) : Name[text[i].right] = Name[text[j].right]
      BY <2>6, <3>2 DEF Before
    <3>4. j \in DOMAIN text /\ j # i
      BY <2>4
    <3>5. text[j] \in Elements(es) /\ text[j].right \in Known(es, as)
      <4>1. text[j] \in Elements(text)
        BY <3>4 DEF Elements
      <4> QED
        BY <1>5, <2>4, <4>1
    <3>6. text[i].right = text[j].right
      BY <3>1, <3>3, <3>5 DEF NamesDiffer
    <3>7. GraphEdge(es, as, text[i]) = GraphEdge(es, as, text[j])
      <4>1. \A d, f \in Distinct(es, as) : d.right = f.right => d = f
        BY <1>9 DEF IsTree
      <4>2. /\ GraphEdge(es, as, text[i]) \in Distinct(es, as)
            /\ GraphEdge(es, as, text[j]) \in Distinct(es, as)
        BY <1>5, <3>1, <3>5
      <4>3. GraphEdge(es, as, text[i]).right = GraphEdge(es, as, text[j]).right
        BY <3>6 DEF GraphEdge
      <4> QED
        BY <4>1, <4>2, <4>3
    <3>8. text[i] = text[j]
      BY <3>1, <3>5, <3>7, SameIsOne, NoneTwiceOnce
    <3> QED
      BY <2>5, <3>4, <3>8 DEF OnceEach
  <2>7. {Name[t] : t \in as} \subseteq Before(text, Len(text) + 1)
    <3>1. as \subseteq reached
      BY <1>9 DEF IsTree
    <3> QED
      BY <2>1, <2>5, <3>1
  <2> QED
    BY <2>5, <2>6, <2>7, ParsesIs DEF Chain
<1>10. ASSUME Parses(text, as) PROVE IsTree(es, as)
  <2>1. /\ \A i \in DOMAIN text : /\ text[i].left \in Before(text, i)
                                  /\ Name[text[i].right] \notin Before(text, i)
        /\ {Name[t] : t \in as} \subseteq Before(text, Len(text) + 1)
    BY <1>10, ParsesIs
  <2>2. sql.still = <<>>
    <3> SUFFICES ASSUME sql.still # <<>> PROVE FALSE
      OBVIOUS
    <3> DEFINE i == Len(sql.lines) + 1
    <3>1. i \in DOMAIN text /\ text[i] \in Elements(sql.still)
      BY <1>2, <1>3, InARow
    <3>2. i \in 1..(Len(sql.lines) + 1)
      BY <1>3
    <3>3. Before(text, i) = Before(sql.lines, i)
      BY <1>2, <1>3, <3>2, BeforePrefix
    <3>4. text[i].left \in sql.present
      BY <1>1, <2>1, <3>1, <3>3 DEF Told
    <3> QED
      BY <1>1, <3>1, <3>4 DEF Stuck
  <2>3. /\ text = sql.lines /\ Elements(text) = Elements(es) /\ DOMAIN text = 1..Len(text)
        /\ Len(text) \in Nat /\ text \in Seq(Edge)
    BY <1>4, <1>8, <2>2
  <2>4. ASSUME NEW d \in Elements(es) PROVE d.right # Base
    <3>1. PICK i \in DOMAIN text : d = text[i]
      BY <2>3 DEF Elements
    <3>2. Name[Base] \in Before(text, i)
      BY DEF Before
    <3> QED
      BY <2>1, <3>1, <3>2
  <2>5. ASSUME NEW d \in Elements(es), NEW e \in Elements(es), d.right = e.right PROVE d = e
    <3>1. PICK i \in DOMAIN text : d = text[i]
      BY <2>3 DEF Elements
    <3>2. PICK j \in DOMAIN text : e = text[j]
      BY <2>3 DEF Elements
    <3>3. \A k, m \in DOMAIN text : k < m => text[k].right # text[m].right
      <4> SUFFICES ASSUME NEW k \in DOMAIN text, NEW m \in DOMAIN text, k < m,
                          text[k].right = text[m].right
                   PROVE  FALSE
        OBVIOUS
      <4>1. k \in 1..(m - 1)
        BY <2>3
      <4>2. Name[text[m].right] \in Before(text, m)
        BY <4>1 DEF Before
      <4> QED
        BY <2>1, <4>2
    <3>4. i = j \/ i < j \/ j < i
      BY <2>3
    <3> QED
      BY <2>5, <3>1, <3>2, <3>3, <3>4
  <2>6. /\ \A o \in Elements(es) : LeftTable(es, as, o) \in reached
        /\ \A o \in Elements(text) : LeftTable(es, as, o) \in reached
    BY <1>1, <2>3 DEF Told
  <2>7. ASSUME NEW t \in as PROVE t \in reached
    <3>1. t \in Known(es, as) /\ Name[t] \in Before(text, Len(text) + 1)
      BY <1>7, <2>1
    <3> QED
      BY <2>3, <2>6, <3>1, TableOfName
  <2>8. \A d \in Distinct(es, as) : d.right # Base /\ d.left \in reached
    <3> TAKE d \in Distinct(es, as)
    <3>1. PICK e \in Elements(es) : d = GraphEdge(es, as, e)
      BY <1>6
    <3> QED
      BY <1>5, <2>4, <2>6, <3>1
  <2>9. ASSUME NEW d \in Distinct(es, as), NEW f \in Distinct(es, as), d.right = f.right PROVE d = f
    <3>1. PICK e \in Elements(es) : d = GraphEdge(es, as, e)
      BY <1>6
    <3>2. PICK g \in Elements(es) : f = GraphEdge(es, as, g)
      BY <1>6
    <3>3. e = g
      BY <1>5, <2>5, <2>9, <3>1, <3>2
    <3> QED
      BY <3>1, <3>2, <3>3
  <2>10. {d.left : d \in Distinct(es, as)} \cup as \subseteq reached
    <3> HIDE DEF reached
    <3> QED
      BY <2>7, <2>8
  <2> QED
    BY <2>8, <2>9, <2>10 DEF IsTree
<1> QED
  BY <1>4, <1>9, <1>10 DEF text

(***************************************************************************)
(* generate_type_b_sql loses no join of any mapping, and parse_type_b_sql  *)
(* reads its text back exactly if the planner accepts the mapping, when no *)
(* two tables share a name and no join is repeated.                        *)
(***************************************************************************)
THEOREM TypeBSqlMirrorsPlan == QuerySpec => []SqlMirrorsPlan
<1>1. ASSUME Mapping PROVE SqlMirrorsPlan
  <2> SUFFICES ASSUME NamesDiffer(edges, attrs), Resolved(edges, attrs), NoneTwice(edges)
               PROVE  /\ Parses(Sql(edges), attrs) <=> HasPlan(edges, attrs)
                      /\ Elements(Sql(edges)) = Elements(edges)
    BY DEF SqlMirrorsPlan
  <2>1. Joint(edges, attrs)
    BY <1>1 DEF Joint, Mapping
  <2> QED
    BY <2>1, PlannerIsRight, SqlIsRight
<1>2. Mapping /\ [QueryNext]_queryVars => Mapping'
  BY MappingStays DEF Mapping, mapping
<1> QED
  BY <1>1, <1>2, MappingInit, PTL DEF QuerySpec
=============================================================================
