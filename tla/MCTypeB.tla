-------------------------------- MODULE MCTypeB --------------------------------
(* TypeB for TLC: a base and three tables, two of which have the same name  *)
(* in different schemas; one has no recency column that can be sorted.      *)
EXTENDS TypeB

CONSTANTS b, x, y, z, null

TablesDef == {b, x, y, z}

NameDef == [t \in TablesDef |-> IF t = z THEN "x" ELSE IF t = x THEN "x"
                                ELSE IF t = y THEN "y" ELSE "b"]

KindDef == [t \in TablesDef |-> [k |-> "number",
                                 f |-> IF t = y THEN "absent" ELSE "number",
                                 u |-> IF t = z THEN "text" ELSE "date"]]

HowsDef == {[type |-> "left", lc |-> "f", rc |-> "k", fanout |-> FALSE],
            [type |-> "inner", lc |-> "k", rc |-> "f", fanout |-> TRUE]}

MappedDef == {{b}, {b, x}, {b, y, z}}

\* Two versions of key 1, the newer one with the smaller id; a key that is NULL,
\* a version without a date, and a reference to nothing.
Old == [id |-> 2, k |-> 1, f |-> 1, u |-> 1]
New == [id |-> 1, k |-> 1, f |-> 2, u |-> 2]
Other == [id |-> 3, k |-> 2, f |-> 1, u |-> null]
Nameless == [id |-> 4, k |-> null, f |-> 2, u |-> 1]

ContentsDef == {{Old, Other}, {Old, New}, {New, Other, Nameless}}
=============================================================================
