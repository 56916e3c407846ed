---------------------------- MODULE ModelRegistry ----------------------------
(***************************************************************************)
(* What the data-model endpoints promise their clients, whatever they do   *)
(* in between: a registry in which every entry has a name of its own, an   *)
(* entry is entered once, is renamed only to a free name, is switched on   *)
(* and off, and once removed never comes back.                             *)
(***************************************************************************)
CONSTANTS
  Ids,             \* the identities a model may be given
  Names            \* the names it may have

VARIABLES
  listed,          \* the models in the registry
  removed,         \* those that were deleted
  name,            \* the name of every listed model
  active           \* whether it is active

registryVars == <<listed, removed, name, active>>

Free(n, i) == \A j \in listed \ {i} : name[j] # n

Init ==
  /\ listed = {}
  /\ removed = {}
  /\ name \in [Ids -> Names]
  /\ active \in [Ids -> BOOLEAN]

Enter(i) ==
  /\ i \in Ids \ (listed \cup removed)
  /\ listed' = listed \cup {i}
  /\ \E n \in Names : Free(n, i) /\ name' = [name EXCEPT ![i] = n]
  /\ \E b \in BOOLEAN : active' = [active EXCEPT ![i] = b]
  /\ UNCHANGED removed

Change(i) ==
  /\ i \in listed
  /\ \E n \in Names : Free(n, i) /\ name' = [name EXCEPT ![i] = n]
  /\ \E b \in BOOLEAN : active' = [active EXCEPT ![i] = b]
  /\ UNCHANGED <<listed, removed>>

Remove(i) ==
  /\ i \in listed
  /\ listed' = listed \ {i}
  /\ removed' = removed \cup {i}
  /\ UNCHANGED <<name, active>>

Next == \E i \in Ids : Enter(i) \/ Change(i) \/ Remove(i)

Spec == Init /\ [][Next]_registryVars
=============================================================================
