------------------------- MODULE MCReplicaGroupSerial -------------------------
(* A small group used by one client at a time.                             *)
EXTENDS ReplicaGroupSerial, TLC

CONSTANTS u1, r1, r2

TwoOnRow   == [r \in {r1, r2} |-> u1]
ThreeOnRow == [r \in Request |-> u1]
Symmetry   == Permutations(Request)
CrashLow   == <<1, 0, 0>>
CrashMany  == <<2, 1, 1>>
CrashEnds  == <<1, 0, 1>>

=============================================================================
