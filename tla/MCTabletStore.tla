---------------------------- MODULE MCTabletStore ----------------------------
(* A server with a few keys and values of two sizes.                       *)
EXTENDS TabletStore, TLC

CONSTANTS small, large, deleted

Sizes == (small :> 1) @@ (large :> 3) @@ (deleted :> 2)

=============================================================================
