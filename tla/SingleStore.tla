----------------------------- MODULE SingleStore -----------------------------
(***************************************************************************)
(* What a replica group promises to a client that waits for each PUT: one  *)
(* store of cells, in which a PUT takes effect once, when it returns.      *)
(***************************************************************************)
CONSTANTS User, Request, userOf, None

VARIABLES
    store,  \* the value a GET of each row returns
    done    \* the PUTs that have returned

vars == <<store, done>>

Init ==
    /\ store = [u \in User |-> None]
    /\ done = {}

Put(r) ==
    /\ r \notin done
    /\ store' = [store EXCEPT ![userOf[r]] = r]
    /\ done' = done \cup {r}

Next == \E r \in Request : Put(r)

Spec == Init /\ [][Next]_vars

=============================================================================
