----------------------------- MODULE DataModels -----------------------------
(***************************************************************************)
(* Data models, the physical tables generated for those of type A, and the *)
(* inbound and outbound requests that use them.  Every request is a        *)
(* session of its own on READ COMMITTED: it loads the model, works with    *)
(* what it loaded, and commits; others commit in between.                  *)
(*                                                                         *)
(* A generated table is called by the name of the model it was made for.   *)
(* Its columns are a set of attributes, and a model has at least one, so   *)
(* the empty set stands for a table that does not exist.  A stored record  *)
(* is the request that brought it.                                         *)
(***************************************************************************)
EXTENDS Naturals, FiniteSets

CONSTANTS
  Names,           \* names of models
  Attrs,           \* names of attributes
  Required,        \* the attributes that are required where they are declared
  None,            \* no table, no primary key
  Calls,           \* the requests made, a bound on their number
  MaxModels,       \* bound on the models created
  EditGroups       \* the sets of fields that one edit may change together

ASSUME NoneAssumption == None \notin Names /\ None \notin Attrs
ASSUME RequiredAssumption == Required \subseteq Attrs
ASSUME MaxModelsAssumption == MaxModels \in Nat
ASSUME NamesAssumption == Names # {} /\ Attrs # {}

Ids == 1..MaxModels

VARIABLES
  row,             \* the row of each model in data_models
  live,            \* the models whose row exists
  created,         \* how many have ever been created
  columns,         \* the columns of each generated table
  records,         \* the records it holds
  call,            \* how far each request has come
  log,             \* the row each request has left in transactions
  moved,           \* ghost: models renamed or changed in type
  adopted          \* ghost: models created over a table that lacks a column

ghosts == <<moved, adopted>>
tables == <<columns, records>>
vars == <<row, live, created, tables, call, log, ghosts>>

-----------------------------------------------------------------------------
Types == {"A", "B"}

Row == [name : Names, type : Types, table : Names \cup {None},
        attrs : (SUBSET Attrs) \ {{}}, key : Attrs \cup {None}, active : BOOLEAN]

Ops == {"create", "update", "deactivate", "delete", "inbound", "list", "by_key"}

Free == [stage |-> "free"]
Ended == [stage |-> "ended"]

NoLog == [status |-> "none", op |-> "none", id |-> 0]

\* DataModelBase.validate_model, as far as the attributes go.
Valid(r) == r.key \in r.attrs \cup {None}

\* TakenByActive, WrittenWhole, SyncedNothing and EndInboundUnrolled are bugs for
\* the properties to notice; no action contains them.
TakenByActive(n, i) == \E j \in live \ {i} : row[j].name = n /\ row[j].active

\* Another model has the name; the column is UNIQUE.
Taken(n, i) == \E j \in live \ {i} : row[j].name = n

\* The rows that one edit may ask for; no request names the table.
Edits(r) ==
  {want \in Row :
     /\ want.table = r.table
     /\ \E fields \in EditGroups : \A f \in DOMAIN r \ fields : want[f] = r[f]}

\* The payload leaves out what is None: the old key stays.
Payload(seen, want) ==
  IF want.key = None THEN [want EXCEPT !.key = seen.key] ELSE want

\* SQLAlchemy writes the fields that differ from what the session has loaded.
WrittenWhole(now, seen, want) == want

Column(now, seen, want) == IF want = seen THEN now ELSE want

Written(now, seen, want) ==
  [name |-> Column(now.name, seen.name, want.name),
   type |-> Column(now.type, seen.type, want.type),
   table |-> Column(now.table, seen.table, want.table),
   attrs |-> Column(now.attrs, seen.attrs, want.attrs),
   key |-> Column(now.key, seen.key, want.key),
   active |-> Column(now.active, seen.active, want.active)]

\* create_generated_table_for_model: an existing table is left as it is.
Created(n, attrs) == IF columns[n] = {} THEN attrs ELSE columns[n]

SyncedNothing(n, attrs) == columns[n]

\* sync_generated_table_columns: by the name of the model, if that table exists.
Synced(n, attrs) == IF columns[n] = {} THEN {} ELSE columns[n] \cup attrs

\* The table that inbound and outbound use.
TableOf(r) == IF r.table = None THEN r.name ELSE r.table

\* A statement that names these columns of the table of a model fails without them.
HasColumns(r, attrs) == columns[TableOf(r)] # {} /\ attrs \subseteq columns[TableOf(r)]

Logged(c, status) == [log EXCEPT ![c] = [status |-> status, op |-> call[c].op, id |-> call[c].id]]

LogsOf(i) == {c \in Calls : log[c].id = i}

\* Requests that are between two of their statements.
At(c, stage, ops) == call[c].stage = stage /\ call[c].op \in ops

End(c) == call' = [call EXCEPT ![c] = Ended]

Load(c, op, i, want) ==
  call' = [call EXCEPT ![c] = [stage |-> "loaded", op |-> op, id |-> i, seen |-> row[i],
                               want |-> want, given |-> {}, noted |-> {}, fits |-> TRUE]]

Unlogged == UNCHANGED <<row, live, created, tables, log, ghosts>>

-----------------------------------------------------------------------------
\* No models yet, and any tables that models deleted before have left.
Init ==
  /\ \E n \in Names :
       row = [i \in Ids |-> [name |-> n, type |-> "A", table |-> None,
                             attrs |-> Attrs, key |-> None, active |-> FALSE]]
  /\ live = {}
  /\ created = 0
  /\ columns \in [Names -> SUBSET Attrs]
  /\ records = [n \in Names |-> {}]
  /\ call = [c \in Calls |-> Free]
  /\ log = [c \in Calls |-> NoLog]
  /\ moved = {} /\ adopted = {}

\* create_data_model_endpoint: ensure_unique_name, and the payload.
StartCreate(c) ==
  /\ call[c] = Free
  /\ \E new \in Row :
       /\ new.table = IF new.type = "A" THEN new.name ELSE None
       /\ ~Taken(new.name, 0)
       /\ Valid(new)
       /\ call' = [call EXCEPT ![c] = [stage |-> "loaded", op |-> "create", id |-> 0,
                                       seen |-> new, want |-> new,
                                       given |-> {}, noted |-> {}, fits |-> TRUE]]
  /\ Unlogged

\* create_data_model: the row and its table in one transaction.
CommitCreate(c) ==
  /\ At(c, "loaded", {"create"})
  /\ End(c)
  /\ LET new == call[c].want
         id == created + 1
     IN  IF Taken(new.name, 0)
         THEN UNCHANGED <<row, live, created, columns, adopted>>
         ELSE /\ created < MaxModels
              /\ created' = id
              /\ live' = live \cup {id}
              /\ row' = [row EXCEPT ![id] = new]
              /\ IF new.type = "A"
                 THEN /\ columns' = [columns EXCEPT ![new.name] = Created(new.name, new.attrs)]
                      /\ adopted' = IF new.attrs \subseteq columns'[new.name]
                                    THEN adopted ELSE adopted \cup {id}
                 ELSE UNCHANGED <<columns, adopted>>
  /\ UNCHANGED <<records, log, moved>>

\* update_data_model_endpoint: load, ensure_unique_name, validate_updated_data_model.
StartUpdate(c) ==
  /\ call[c] = Free
  /\ \E i \in live : \E want \in Edits(row[i]) :
       /\ ~Taken(want.name, i)
       /\ Valid(want)
       /\ Load(c, "update", i, want)
  /\ Unlogged

\* update_data_model: setattr, sync, commit.
CommitUpdate(c) ==
  /\ At(c, "loaded", {"update"})
  /\ End(c)
  /\ LET i == call[c].id
         seen == call[c].seen
         new == Payload(seen, call[c].want)
     IN  IF i \notin live \/ (new.name # seen.name /\ Taken(new.name, i))
         THEN UNCHANGED <<row, columns, ghosts>>
         ELSE /\ row' = [row EXCEPT ![i] = Written(row[i], seen, new)]
              /\ columns' = IF new.type = "A"
                            THEN [columns EXCEPT ![new.name] = Synced(new.name, new.attrs)]
                            ELSE columns
              /\ moved' = IF <<new.name, new.type>> # <<seen.name, seen.type>>
                          THEN moved \cup {i} ELSE moved
              /\ adopted' = IF new.attrs = row'[i].attrs THEN adopted \ {i} ELSE adopted
  /\ UNCHANGED <<live, created, records, log>>

StartDeactivate(c) ==
  /\ call[c] = Free
  /\ \E i \in live : Load(c, "deactivate", i, [row[i] EXCEPT !.active = FALSE])
  /\ Unlogged

\* deactivate_data_model
CommitDeactivate(c) ==
  /\ At(c, "loaded", {"deactivate"})
  /\ End(c)
  /\ row' = IF call[c].id \in live
            THEN [row EXCEPT ![call[c].id] = Written(@, call[c].seen, call[c].want)]
            ELSE row
  /\ UNCHANGED <<live, created, tables, log, ghosts>>

\* delete_data_model_record: the UPDATE sees the log rows committed by now.
StartDelete(c) ==
  /\ call[c] = Free
  /\ \E i \in live :
       call' = [call EXCEPT ![c] = [stage |-> "nulled", op |-> "delete", id |-> i,
                                    seen |-> row[i], want |-> row[i],
                                    given |-> {}, noted |-> LogsOf(i), fits |-> TRUE]]
  /\ Unlogged

\* The DELETE fails on a log row that still refers to the model.
CommitDelete(c) ==
  /\ At(c, "nulled", {"delete"})
  /\ End(c)
  /\ LET i == call[c].id
         blocked == i \in live /\ ~(LogsOf(i) \subseteq call[c].noted)
     IN  IF blocked
         THEN UNCHANGED <<live, log>>
         ELSE /\ live' = live \ {i}
              /\ log' = [d \in Calls |-> IF d \in call[c].noted
                                         THEN [log[d] EXCEPT !.id = 0] ELSE log[d]]
  /\ UNCHANGED <<row, created, tables, ghosts>>

\* receive_inbound_payload: the active model of the name, the attributes given, and
\* whether their row fits the columns of transactions.
StartInbound(c) ==
  /\ call[c] = Free
  /\ \E i \in live, given \in SUBSET Attrs, fits \in BOOLEAN :
       /\ row[i].active
       /\ call' = [call EXCEPT ![c] = [stage |-> "loaded", op |-> "inbound", id |-> i,
                                       seen |-> row[i], want |-> row[i],
                                       given |-> given, noted |-> {}, fits |-> fits]]
  /\ Unlogged

EndInboundUnrolled(c) ==
  /\ At(c, "loaded", {"inbound"})
  /\ End(c)
  /\ LET r == call[c].seen IN
     IF call[c].id \in live
     THEN /\ records' = [records EXCEPT ![TableOf(r)] = @ \cup {c}]
          /\ log' = Logged(c, IF Required \cap r.attrs \subseteq call[c].given
                              THEN "success" ELSE "failed")
     ELSE UNCHANGED <<records, log>>
  /\ UNCHANGED <<row, live, created, columns, ghosts>>

\* A log row of a model that is gone violates the foreign key, and one with too long
\* an endpoint or a NUL in its payload the type of its column; so does the one that
\* the handler of this error adds, and nothing is stored and nothing logged.
Loggable(c) == call[c].id \in live /\ call[c].fits

EndInbound(c) ==
  /\ At(c, "loaded", {"inbound"})
  /\ End(c)
  /\ LET r == call[c].seen
         mapped == call[c].given \cap r.attrs
         accepted ==
           /\ r.type = "A"
           /\ Required \cap r.attrs \subseteq mapped
           /\ HasColumns(r, mapped)
     IN  CASE ~Loggable(c) -> UNCHANGED <<records, log>>
           [] Loggable(c) /\ accepted ->
                /\ records' = [records EXCEPT ![TableOf(r)] = @ \cup {c}]
                /\ log' = Logged(c, "success")
           [] OTHER -> log' = Logged(c, "failed") /\ UNCHANGED records
  /\ UNCHANGED <<row, live, created, columns, ghosts>>

\* list_outbound and get_outbound_by_key
StartOutbound(c) ==
  /\ call[c] = Free
  /\ \E i \in live, op \in {"list", "by_key"}, fits \in BOOLEAN :
       /\ row[i].active
       /\ call' = [call EXCEPT ![c] = [stage |-> "loaded", op |-> op, id |-> i,
                                       seen |-> row[i], want |-> row[i],
                                       given |-> {}, noted |-> {}, fits |-> fits]]
  /\ Unlogged

\* The answers a query may have; that of a type B model depends on its mapping.
Answers(c) ==
  LET r == call[c].seen IN
  IF r.type = "A"
  THEN IF HasColumns(r, r.attrs)
       THEN IF call[c].op = "list" THEN {TRUE}
            ELSE IF r.key \in r.attrs /\ records[TableOf(r)] # {} THEN BOOLEAN ELSE {FALSE}
       ELSE {FALSE}
  ELSE IF call[c].op = "by_key" /\ r.key \notin r.attrs THEN {FALSE} ELSE BOOLEAN

EndOutbound(c) ==
  /\ At(c, "loaded", {"list", "by_key"})
  /\ End(c)
  /\ IF Loggable(c)
     THEN \E ok \in Answers(c) : log' = Logged(c, IF ok THEN "success" ELSE "failed")
     ELSE UNCHANGED log
  /\ UNCHANGED <<row, live, created, tables, ghosts>>

Manage(c) ==
  \/ StartCreate(c) \/ CommitCreate(c)
  \/ StartUpdate(c) \/ CommitUpdate(c)
  \/ StartDeactivate(c) \/ CommitDeactivate(c)
  \/ StartDelete(c) \/ CommitDelete(c)

Use(c) ==
  \/ StartInbound(c) \/ EndInbound(c)
  \/ StartOutbound(c) \/ EndOutbound(c)

Next == \E c \in Calls : Manage(c) \/ Use(c)

Spec == Init /\ [][Next]_vars

-----------------------------------------------------------------------------
CallRow == [stage : {"loaded", "nulled"}, op : Ops, id : Ids \cup {0}, seen : Row,
            want : Row, given : SUBSET Attrs, noted : SUBSET Calls, fits : BOOLEAN]

TypeOK ==
  /\ row \in [Ids -> Row]
  /\ live \subseteq Ids
  /\ created \in 0..MaxModels
  /\ columns \in [Names -> SUBSET Attrs]
  /\ records \in [Names -> SUBSET Calls]
  /\ call \in [Calls -> CallRow \cup {Free, Ended}]
  /\ log \in [Calls -> [status : {"none", "success", "failed"},
                        op : Ops \cup {"none"}, id : Ids \cup {0}]]
  /\ moved \subseteq Ids /\ adopted \subseteq Ids

(***************************************************************************)
(* The table of a type A model has a column for each of its attributes, so *)
(* that no valid payload is refused for want of one, through any overlap   *)
(* of edits (sync_generated_table_columns).  Only a model that was renamed *)
(* or changed in type, or was created over the table of a deleted one and  *)
(* not edited since, may lack one: the code alters the table of the new    *)
(* name and leaves generated_table as it was.                              *)
(***************************************************************************)
TableFitsModel ==
  \A i \in live \ (moved \cup adopted) :
    row[i].type = "A" => row[i].table = row[i].name /\ HasColumns(row[i], row[i].attrs)

(***************************************************************************)
(* Two models never have the same physical table, unless one of them was   *)
(* renamed or changed in type: the name is unique, but a rename frees it   *)
(* and keeps the table.                                                    *)
(***************************************************************************)
SharedOnlyIfMoved ==
  \A i, j \in live :
    i # j /\ row[i].table = row[j].table => row[i].table = None \/ {i, j} \cap moved # {}

(***************************************************************************)
(* A model that was deactivated becomes active again only by a request     *)
(* that found it inactive and asked for it, never as the side effect of an *)
(* edit that loaded it before (the column-wise UPDATE of update_data_model).*)
(***************************************************************************)
DeactivationSticks ==
  [][\A i \in live \cap live' :
       ~row[i].active /\ row'[i].active =>
         \E c \in Calls : /\ At(c, "loaded", {"update"})
                          /\ call[c].id = i
                          /\ ~call[c].seen.active /\ call[c].want.active]_vars

(***************************************************************************)
(* A record is in a table exactly if its request is logged as a success,   *)
(* and it is in one table: receive_inbound_payload stores and logs in one  *)
(* transaction, and deleting a model keeps both.                           *)
(***************************************************************************)
StoredIffLogged ==
  \A c \in Calls :
    Cardinality({n \in Names : c \in records[n]}) =
      IF log[c].status = "success" /\ log[c].op = "inbound" THEN 1 ELSE 0

(***************************************************************************)
(* The endpoints implement the registry: whatever requests overlap, names  *)
(* stay unique and a deleted model never comes back.                       *)
(***************************************************************************)
Registry == INSTANCE ModelRegistry WITH
  listed <- live,
  removed <- 1..created \ live,
  name <- [i \in Ids |-> row[i].name],
  active <- [i \in Ids |-> row[i].active]

ImplementsRegistry == Registry!Spec

(***************************************************************************)
(* "primary_key must match one of the attribute names"                     *)
(* (schemas/data_model.py:142-143), which DataModelRead demands again of   *)
(* every row it shows: what an edit leaves in the table obeys it.          *)
(***************************************************************************)
SavedRowIsValid == \A i \in live : Valid(row[i])

Using == {"inbound", "list", "by_key"}

(***************************************************************************)
(* "Each inbound request writes a transaction log" (README.md:358), and an *)
(* outbound one "writes an outbound transaction log"                       *)
(* (docs/api-design.md:134): a request whose model is there when it ends   *)
(* leaves a row in transactions, whether it succeeds or fails.             *)
(***************************************************************************)
UseIsLogged ==
  [][\A c \in Calls :
       At(c, "loaded", Using) /\ call'[c] = Ended /\ call[c].id \in live =>
         log'[c].status # "none"]_vars
=============================================================================
