--------------------------------- MODULE TypeB ---------------------------------
(***************************************************************************)
(* Type B data models: a mapping of attributes to columns of source tables *)
(* that are joined to a base table.  The planner orders the joins and      *)
(* refuses what is no tree, the validator looks for keys that are not      *)
(* unique, and then one SELECT answers, over tables that migrations load   *)
(* again meanwhile.  The same mapping is written as SQL, and read from it. *)
(*                                                                         *)
(* An attribute stands for its table: the rows that a result row is made   *)
(* of say what all of its columns are.  The specification has names of its *)
(* own (QuerySpec, ...), so that a module may extend DataModels and this.  *)
(***************************************************************************)
EXTENDS Naturals, FiniteSets, Sequences

CONSTANTS
  Tables,          \* source tables, each in one of the schemas
  Base,            \* the table of the primary-key attribute
  Name,            \* the name of each table, without its schema
  Kind,            \* what each column of each table holds, or "absent"
  Hows,            \* ways to join: type, left and right column, allow_fanout
  Mapped,          \* the sets of tables that attributes may come from
  Contents,        \* the rows a table may have
  MaxEdges,        \* bound on the joins of a mapping
  Null             \* NULL

Columns == {"k", "f"}
TableRow == [id : Nat, k : Nat \cup {Null}, f : Nat \cup {Null}, u : Nat \cup {Null}]

ASSUME TablesAssumption == IsFiniteSet(Tables)
ASSUME BaseAssumption == Base \in Tables
ASSUME NullAssumption == Null \notin Nat
ASSUME HowsAssumption ==
  Hows \subseteq [type : {"left", "inner"}, lc : Columns, rc : Columns, fanout : BOOLEAN]
\* An id stands for the order in which DISTINCT ON takes rows of one recency.
ASSUME ContentsAssumption ==
  \A content \in Contents :
    /\ IsFiniteSet(content) /\ content \subseteq TableRow
    /\ \A r, s \in content : r.id = s.id => r = s
ASSUME MappedAssumption == \A m \in Mapped : Base \in m /\ m \subseteq Tables
ASSUME MaxEdgesAssumption == MaxEdges \in Nat

VARIABLES
  edges,           \* the joins, in the order of the payload
  attrs,           \* the tables of the attributes
  latest,          \* latest_only
  rows,            \* what each table holds
  stage,           \* how far the request has come
  next,            \* the join whose right column is probed next
  touched,         \* ghost: a table was loaded after the probes began
  answer           \* the rows of the answer

mapping == <<edges, attrs, latest>>
queryVars == <<mapping, rows, stage, next, touched, answer>>

-----------------------------------------------------------------------------
TableNames == {Name[t] : t \in Tables}
Edge == [left : TableNames, right : Tables, how : Hows]

Elements(seq) == {seq[i] : i \in DOMAIN seq}
Rights(es) == {e.right : e \in Elements(es)}

\* A left table is given by its name only.
Known(es, as) == as \cup {Base} \cup Rights(es)
Candidates(es, as, e) == {t \in Known(es, as) : Name[t] = e.left}
Resolved(es, as) == \A i \in DOMAIN es : Cardinality(Candidates(es, as, es[i])) = 1
LeftTable(es, as, e) == CHOOSE t \in Candidates(es, as, e) : TRUE

\* What a join does, allow_fanout aside.
Same(d, e) ==
  /\ d.left = e.left /\ d.right = e.right
  /\ \A f \in {"type", "lc", "rc"} : d.how[f] = e.how[f]

-----------------------------------------------------------------------------
StartPlan(es) == [added |-> {Base}, ordered |-> <<>>, still |-> es, conflict |-> FALSE]

\* PlaceFirst, SqlAsGiven, InnerJoined and ProbeNoJoin are bugs for the
\* properties to notice; no action contains them.
PlaceFirst(es, as, plan, e) ==
  CASE LeftTable(es, as, e) \notin plan.added -> [plan EXCEPT !.still = Append(@, e)]
    [] LeftTable(es, as, e) \in plan.added /\ e.right \notin plan.added ->
         [plan EXCEPT !.added = @ \cup {e.right}, !.ordered = Append(@, e)]
    [] OTHER -> plan

\* One join of a pass of _resolve_join_plan: it waits for its left table, it is
\* emitted, or it repeats the join that its right table already has.
Place(es, as, plan, e) ==
  CASE LeftTable(es, as, e) \notin plan.added -> [plan EXCEPT !.still = Append(@, e)]
    [] LeftTable(es, as, e) \in plan.added /\ e.right \notin plan.added ->
         [plan EXCEPT !.added = @ \cup {e.right}, !.ordered = Append(@, e)]
    [] OTHER -> [plan EXCEPT !.conflict =
                   @ \/ ~\E i \in DOMAIN plan.ordered : Same(plan.ordered[i], e)]

\* One pass over the joins that wait, and the plan after each of them.
PassStates(es, as, plan) ==
  LET upto[n \in 0..Len(plan.still)] ==
        IF n = 0 THEN [plan EXCEPT !.still = <<>>]
        ELSE Place(es, as, upto[n - 1], plan.still[n])
  IN  upto

Pass(es, as, plan) == PassStates(es, as, plan)[Len(plan.still)]

\* Passes until none makes progress; as many as there are joins always do.
PlanStates(es, as) ==
  LET pass[n \in 0..Len(es)] == IF n = 0 THEN StartPlan(es) ELSE Pass(es, as, pass[n - 1])
  IN  pass

Planned(es, as) == PlanStates(es, as)[Len(es)]

\* The joins of a mapping in the order of the FROM clause.
Joins(es, as) == Planned(es, as).ordered

HasPlan(es, as) ==
  /\ Resolved(es, as)
  /\ LET plan == Planned(es, as) IN
     ~plan.conflict /\ plan.still = <<>> /\ as \subseteq plan.added

\* The columns exist, those of a join are of one type, and the recency column
\* is sortable in every table that is reduced to its latest rows.
Typed(es, as) ==
  /\ \A i \in DOMAIN es :
       LET left == Kind[LeftTable(es, as, es[i])][es[i].how.lc]
       IN  left # "absent" /\ left = Kind[es[i].right][es[i].how.rc]
  /\ latest => \A t \in {Base} \cup Rights(es) : Kind[t].u \in {"number", "date"}

-----------------------------------------------------------------------------
SqlAsGiven(es) == es

\* generate_type_b_sql: a FROM clause in which a join follows the name it needs.
StartSql(es) == [present |-> {Name[Base]}, lines |-> <<>>, still |-> es]

Write(sql, e) ==
  IF e.left \in sql.present
  THEN [sql EXCEPT !.lines = Append(@, e), !.present = @ \cup {Name[e.right]}]
  ELSE [sql EXCEPT !.still = Append(@, e)]

SqlPassStates(sql) ==
  LET upto[n \in 0..Len(sql.still)] ==
        IF n = 0 THEN [sql EXCEPT !.still = <<>>] ELSE Write(upto[n - 1], sql.still[n])
  IN  upto

SqlPass(sql) == SqlPassStates(sql)[Len(sql.still)]

SqlStates(es) ==
  LET pass[n \in 0..Len(es)] == IF n = 0 THEN StartSql(es) ELSE SqlPass(pass[n - 1])
  IN  pass

SqlOrder(es) == SqlStates(es)[Len(es)]

\* The joins that hang on nothing come last.
Sql(es) == SqlOrder(es).lines \o SqlOrder(es).still

\* parse_type_b_sql: a join brings a new name and hangs on one before it; what
\* is selected has a name of the FROM clause.  It knows no allow_fanout.
Parses(lines, as) ==
  LET before(i) == {Name[Base]} \cup {Name[lines[j].right] : j \in 1..(i - 1)}
  IN  /\ \A i \in DOMAIN lines :
           lines[i].left \in before(i) /\ Name[lines[i].right] \notin before(i)
      /\ {Name[t] : t \in as} \subseteq before(Len(lines) + 1)

-----------------------------------------------------------------------------
Values(t, c) == {r[c] : r \in rows[t]} \ {Null}

\* _column_not_unique looks at the values that are not NULL.
NotUnique(t, c) == \E v \in Values(t, c) : Cardinality({r \in rows[t] : r[c] = v}) > 1

\* The order of DISTINCT ON: recency DESC NULLS LAST, then id DESC.
Newer(r, s) ==
  \/ r.u # Null /\ (s.u = Null \/ r.u > s.u)
  \/ r.u = s.u /\ r.id > s.id

Newest(t, c) == {r \in rows[t] : ~\E s \in rows[t] : s[c] = r[c] /\ Newer(s, r)}

\* _relation
Relation(t, c) == IF latest THEN Newest(t, c) ELSE rows[t]

\* A row of the result gives a row, or NULL, for each table joined so far.
Matches(row, e) ==
  {r \in Relation(e.right, e.how.rc) :
     LET left == row[LeftTable(edges, attrs, e)]
     IN  left # Null /\ left[e.how.lc] # Null /\ left[e.how.lc] = r[e.how.rc]}

Extended(row, t, r) == [s \in DOMAIN row \cup {t} |-> IF s = t THEN r ELSE row[s]]

InnerJoined(result, e) ==
  UNION {{Extended(row, e.right, r) : r \in Matches(row, e)} : row \in result}

Joined(result, e) ==
  UNION {{Extended(row, e.right, r) :
            r \in IF Matches(row, e) = {} /\ e.how.type = "left"
                  THEN {Null} ELSE Matches(row, e)} : row \in result}

FirstRows == {[t \in {Base} |-> r] : r \in Relation(Base, "k")}

\* build_type_b_from_clause and the SELECT of query_type_b_records.
ResultStates(joins) ==
  LET result[n \in 0..Len(joins)] == IF n = 0 THEN FirstRows ELSE Joined(result[n - 1], joins[n])
  IN  result

Select == ResultStates(Joins(edges, attrs))[Len(Joins(edges, attrs))]

-----------------------------------------------------------------------------
QueryInit ==
  /\ edges \in UNION {[1..n -> Edge] : n \in 0..MaxEdges}
  /\ attrs \in Mapped
  /\ latest \in BOOLEAN
  /\ rows = [t \in Tables |-> {}]
  /\ stage = "new"
  /\ next = 1
  /\ touched = FALSE
  /\ answer = {}

\* The part of the validation that asks the catalog only.
Plan ==
  /\ stage = "new"
  /\ stage' = IF HasPlan(edges, attrs) /\ Typed(edges, attrs) THEN "planned" ELSE "refused"
  /\ UNCHANGED <<mapping, rows, next, touched, answer>>

\* latest_only makes the keys unique, and the probes are left out.
Validate ==
  /\ stage = "planned"
  /\ stage' = IF latest THEN "valid" ELSE "probing"
  /\ UNCHANGED <<mapping, rows, next, touched, answer>>

ProbeNoJoin ==
  /\ stage = "probing"
  /\ next <= Len(edges)
  /\ next' = next + 1
  /\ UNCHANGED <<mapping, rows, stage, touched, answer>>

\* The fan-out guard; a probe that raises counts as one that found duplicates.
ProbeJoin ==
  /\ stage = "probing"
  /\ next <= Len(edges)
  /\ LET e == edges[next]
         fine == ~NotUnique(e.right, e.how.rc) \/ e.how.fanout
     IN  \/ ~e.how.fanout /\ stage' = "refused" /\ UNCHANGED next
         \/ fine /\ next' = next + 1 /\ UNCHANGED stage
  /\ UNCHANGED <<mapping, rows, touched, answer>>

ProbeKey ==
  /\ stage = "probing"
  /\ next = Len(edges) + 1
  /\ stage' \in {"refused"} \cup (IF NotUnique(Base, "k") THEN {} ELSE {"valid"})
  /\ UNCHANGED <<mapping, rows, next, touched, answer>>

Query ==
  /\ stage = "valid"
  /\ stage' = "answered"
  /\ answer' = Select
  /\ UNCHANGED <<mapping, rows, next, touched>>

\* A migration or a cycle of streaming changes a source table.
LoadTable ==
  /\ stage \in {"planned", "probing", "valid"}
  /\ \E t \in {Base} \cup Rights(edges), content \in Contents :
       rows' = [rows EXCEPT ![t] = content]
  /\ touched' = (stage # "planned")
  /\ UNCHANGED <<mapping, stage, next, answer>>

QueryNext == Plan \/ Validate \/ ProbeJoin \/ ProbeKey \/ Query \/ LoadTable

QuerySpec == QueryInit /\ [][QueryNext]_queryVars

-----------------------------------------------------------------------------
(***************************************************************************)
(* The planner is right about every mapping and in any order of its joins: *)
(* it accepts those whose joins, identical ones counted once, form a tree  *)
(* with the base as its root that has every table of an attribute, and     *)
(* refuses the others.                                                     *)
(***************************************************************************)
Distinct(es, as) ==
  {[left |-> LeftTable(es, as, es[i]), right |-> es[i].right,
    type |-> es[i].how.type, lc |-> es[i].how.lc, rc |-> es[i].how.rc] : i \in DOMAIN es}

ReachedFromBase(joins) ==
  {t \in Tables : \A set \in SUBSET Tables :
     Base \in set /\ (\A d \in joins : d.left \in set => d.right \in set) => t \in set}

IsTree(es, as) ==
  LET joins == Distinct(es, as) IN
  /\ \A d \in joins : d.right # Base
  /\ \A d, e \in joins : d.right = e.right => d = e
  /\ {d.left : d \in joins} \cup as \subseteq ReachedFromBase(joins)

PlansTrees ==
  Resolved(edges, attrs) => (HasPlan(edges, attrs) <=> IsTree(edges, attrs))

(***************************************************************************)
(* The SQL that the builder shows is read back exactly if the planner      *)
(* accepts the mapping, as long as no two of its tables have the same name *)
(* and no join is there twice: it is a valid chain whatever the order of   *)
(* the joins, and none is lost.                                            *)
(***************************************************************************)
NamesDiffer(es, as) ==
  \A s, t \in Known(es, as) : Name[s] = Name[t] => s = t

NoneTwice(es) == \A i, j \in DOMAIN es : Same(es[i], es[j]) => i = j

SqlMirrorsPlan ==
  NamesDiffer(edges, attrs) /\ Resolved(edges, attrs) /\ NoneTwice(edges) =>
    /\ Parses(Sql(edges), attrs) <=> HasPlan(edges, attrs)
    /\ Elements(Sql(edges)) = Elements(edges)

(***************************************************************************)
(* No key is twice in an answer, so that a lookup by key never meets a     *)
(* conflict, as long as no join is allowed to fan out and no table changes *)
(* after the validator has begun to look; with latest_only, also if tables *)
(* change.                                                                 *)
(***************************************************************************)
Key(row) == row[Base].k

OneRowPerKey ==
  latest \/ (~touched /\ \A i \in DOMAIN edges : ~edges[i].how.fanout) =>
    \A r, s \in answer : Key(r) = Key(s) /\ Key(r) # Null => r = s

(***************************************************************************)
(* If all joins are LEFT joins, every key of the base is in the answer,    *)
(* with latest_only as without, and whatever the joined tables lack.       *)
(***************************************************************************)
NothingLost ==
  stage = "answered" /\ (\A i \in DOMAIN edges : edges[i].how.type = "left") =>
    Values(Base, "k") \subseteq {Key(r) : r \in answer}
=============================================================================
