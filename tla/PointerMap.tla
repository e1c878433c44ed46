----------------------------- MODULE PointerMap -----------------------------
(* What pmap.h promises: a map from keys to pointers, which are not NULL.  *)
CONSTANTS Keys, Values, Nil

VARIABLES
    map,  \* the value of each key, Nil for a key that is not in the map
    got   \* what the last get returned

Init == map = [k \in Keys |-> Nil] /\ got = Nil

Add(k, v) == map[k] = Nil /\ map' = [map EXCEPT ![k] = v] /\ UNCHANGED got

Get(k) == got' = map[k] /\ UNCHANGED map

Del(k) == map[k] # Nil /\ map' = [map EXCEPT ![k] = Nil] /\ UNCHANGED got

Clear == map' = [k \in Keys |-> Nil] /\ UNCHANGED got

Next == \/ \E k \in Keys : (\E v \in Values : Add(k, v)) \/ Get(k) \/ Del(k)
        \/ Clear

Spec == Init /\ [][Next]_<<map, got>>
=============================================================================
