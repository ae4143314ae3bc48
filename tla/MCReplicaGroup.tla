---------------------------- MODULE MCReplicaGroup ----------------------------
(* A small group with clients that do not wait for each other.             *)
EXTENDS ReplicaGroup, TLC

CONSTANTS u1, r1, r2

OneOnRow   == [r \in {r1} |-> u1]
TwoOnRow   == [r \in {r1, r2} |-> u1]
CrashMid   == <<0, 1, 0>>
CrashAll   == <<1, 1, 1>>
Symmetry   == Permutations({r1, r2})

=============================================================================
