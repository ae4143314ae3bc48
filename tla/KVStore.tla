------------------------------- MODULE KVStore -------------------------------
(***************************************************************************)
(* What one backend server promises to whoever calls it: a map from keys   *)
(* (row and column) to values.                                             *)
(***************************************************************************)
CONSTANTS Key, Value, None

VARIABLE store  \* what a GET of each key returns

Init == store = [k \in Key |-> None]

Put(k, v) == store' = [store EXCEPT ![k] = v]

\* Put v if the value is the one the caller has read.
ConditionalPut(k, old, v) == store[k] = old /\ Put(k, v)

Delete(k) == store' = [store EXCEPT ![k] = None]

Next ==
    \E k \in Key :
       \/ \E v \in Value : Put(k, v)
       \/ \E old, v \in Value : ConditionalPut(k, old, v)
       \/ Delete(k)

Spec == Init /\ [][Next]_store

=============================================================================
