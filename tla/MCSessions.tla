------------------------------ MODULE MCSessions ------------------------------
(* Browsers with several requests under way.                               *)
EXTENDS Sessions, TLC

CONSTANTS b1, b2, u1, u2, r1, r2, r3, r4, s1, s2

Symmetry == Permutations({r1, r2, r3, r4}) \cup Permutations({s1, s2})
            \cup Permutations({u1, u2}) \cup Permutations({b1, b2})

=============================================================================
