------------------------------ MODULE MCMailbox ------------------------------
(* Two users, and mails with one and two receivers of every sort.          *)
EXTENDS Mailbox, TLC

CONSTANTS u1, u2, x, o, bad, plain, both, half, far, lost, r1, r2, r3

\* One request at a time: also a receiver who does not exist, one at another
\* host before one of this system, and one without a host.
AllSenders   == (both :> u2) @@ (half :> u1) @@ (far :> u1) @@ (lost :> u2)
AllReceivers == (both :> <<u1, u2>>) @@ (half :> <<u2, x>>) @@ (far :> <<o, u2>>)
                @@ (lost :> <<bad>>)

\* Users at the same time.
SomeSenders   == (plain :> u1) @@ (both :> u2) @@ (far :> u1)
SomeReceivers == (plain :> <<u2>>) @@ (both :> <<u1, u2>>) @@ (far :> <<o>>)

Symmetry == Permutations({r1, r2, r3})

=============================================================================
