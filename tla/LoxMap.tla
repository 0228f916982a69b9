-------------------------------- MODULE LoxMap --------------------------------
(***************************************************************************)
(* What a Table of table.c promises its callers: a finite map from         *)
(* interned strings to values, which can be frozen.                        *)
(***************************************************************************)
CONSTANTS Keys, Values, Missing

VARIABLES
  map,     \* the map: a function on a set of keys
  frozen,  \* Table.isFrozen
  out      \* what the last operation told its caller

vars == <<map, frozen, out>>

With(k, v) == [x \in DOMAIN map \union {k} |-> IF x = k THEN v ELSE map[x]]

Init == map = [k \in {} |-> Missing] /\ frozen = FALSE /\ out = Missing

Get(k) ==
  /\ out' = IF k \in DOMAIN map THEN map[k] ELSE Missing
  /\ UNCHANGED <<map, frozen>>

\* Tells whether the key is new.
Set(k, v) ==
  /\ ~frozen
  /\ map' = With(k, v)
  /\ out' = (k \notin DOMAIN map)
  /\ UNCHANGED frozen

\* Tells whether there was such a key.
Delete(k) ==
  /\ ~frozen
  /\ map' = [x \in DOMAIN map \ {k} |-> map[x]]
  /\ out' = (k \in DOMAIN map)
  /\ UNCHANGED frozen

\* An assignment to a global variable, which must exist.
Assign(k, v) ==
  /\ ~frozen
  /\ map' = IF k \in DOMAIN map THEN With(k, v) ELSE map
  /\ out' = IF k \in DOMAIN map THEN v ELSE Missing
  /\ UNCHANGED frozen

Refuse == frozen /\ out' = FALSE /\ UNCHANGED <<map, frozen>>

Freeze == frozen' = TRUE /\ UNCHANGED <<map, out>>

Next ==
  \/ \E k \in Keys : Get(k) \/ Delete(k)
  \/ \E k \in Keys, v \in Values : Set(k, v) \/ Assign(k, v)
  \/ Refuse \/ Freeze

Spec == Init /\ [][Next]_vars
=============================================================================
