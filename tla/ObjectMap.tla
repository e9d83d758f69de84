----------------------------- MODULE ObjectMap -----------------------------
(***************************************************************************)
(* What mailcore2's HashMap promises its users: a finite map from keys to    *)
(* objects, and what is asked of it.                                        *)
(***************************************************************************)
EXTENDS FiniteSets

CONSTANTS Keys, Values, NULL

VARIABLES
    map,
    result          \* of the last question, and which it was

vars == <<map, result>>

Init == map = [k \in {} |-> NULL] /\ result = <<"none", NULL>>

SetObjectForKey(k, v) ==
    /\ map' = [x \in DOMAIN map \cup {k} |-> IF x = k THEN v ELSE map[x]]
    /\ UNCHANGED result

RemoveObjectForKey(k) ==
    /\ map' = [x \in DOMAIN map \ {k} |-> map[x]]
    /\ UNCHANGED result

RemoveAllObjects == map' = [k \in {} |-> NULL] /\ UNCHANGED result

ObjectForKey(k) ==
    /\ result' = <<"object", IF k \in DOMAIN map THEN map[k] ELSE NULL>>
    /\ UNCHANGED map

Count == result' = <<"count", Cardinality(DOMAIN map)>> /\ UNCHANGED map

AllKeys == result' = <<"keys", DOMAIN map>> /\ UNCHANGED map

Next ==
    \/ \E k \in Keys : \/ \E v \in Values : SetObjectForKey(k, v)
                       \/ RemoveObjectForKey(k)
                       \/ ObjectForKey(k)
    \/ RemoveAllObjects \/ Count \/ AllKeys

Spec == Init /\ [][Next]_vars
=============================================================================
