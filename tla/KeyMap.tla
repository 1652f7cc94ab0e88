------------------------------- MODULE KeyMap -------------------------------
(***************************************************************************)
(* What a HashTable promises its callers: a partial function from keys to  *)
(* values, changed by setting, removing and forgetting.                    *)
(***************************************************************************)
CONSTANTS Keys, Values

VARIABLE map

Empty == [k \in {} |-> k]

Init == map = Empty

Put(k, v) == map' = [l \in DOMAIN map \cup {k} |-> IF l = k THEN v ELSE map[l]]
Delete(k) == map' = [l \in DOMAIN map \ {k} |-> map[l]]
Forget    == map' = Empty

Next == \/ \E k \in Keys : Delete(k) \/ \E v \in Values : Put(k, v)
        \/ Forget

Spec == Init /\ [][Next]_map
=============================================================================
