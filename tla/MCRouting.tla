------------------------------ MODULE MCRouting ------------------------------
(* Two groups, and users whose names begin with 'a', 'f' and a digit.      *)
EXTENDS Routing, TLC

CONSTANTS ann, fay, zero, r1, r2, r3, r4

TwoLines == <<<<1, 2>>, <<3>>>>
Letters  == (ann :> 0) @@ (fay :> 5) @@ (zero :> -49)
Stray    == {<<3, 1>>}
Rows     == (r1 :> ann) @@ (r2 :> ann) @@ (r3 :> fay)
            @@ (r4 :> zero)
Symmetry == Permutations({r1, r2})

=============================================================================
