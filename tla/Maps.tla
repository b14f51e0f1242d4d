-------------------------------- MODULE Maps --------------------------------
(***************************************************************************)
(* The maps of the standard library, as functions on the keys they hold.   *)
(***************************************************************************)
EXTENDS Integers

EmptyMap == [k \in {} |-> 0]

\* map.insert(key, value)
Put(map, key, value) ==
    [k \in DOMAIN map \cup {key} |-> IF k = key THEN value ELSE map[k]]

\* map.remove(key)
Drop(map, key) == [k \in DOMAIN map \ {key} |-> map[k]]
=============================================================================
