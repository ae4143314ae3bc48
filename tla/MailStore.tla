------------------------------ MODULE MailStore ------------------------------
(***************************************************************************)
(* What the mail servlet promises to its users: each mail is at a user     *)
(* once received and once sent, moves as a whole, and only when somebody   *)
(* has asked for it.                                                       *)
(***************************************************************************)
EXTENDS Naturals

CONSTANTS
    User,
    Entry,  \* a mail as it is received, or as it is sent
    copies  \* copies[e]: who gets which entry before e is filed as sent

VARIABLES
    box,    \* the mails a user sees in the list of received or sent mails
    trash,  \* the mails a user has thrown away
    asked,  \* the requests under way: <<what, user, entry>>
    deaths  \* how often the front end has died

vars == <<box, trash, asked, deaths>>

Init ==
    /\ box = [u \in User |-> {}]
    /\ trash = [u \in User |-> {}]
    /\ asked = {}
    /\ deaths = 0

Ask(k, u, e) ==
    /\ asked' = asked \cup {<<k, u, e>>}
    /\ UNCHANGED <<box, trash, deaths>>

\* A mail comes in, or is filed as sent when all its receivers have got it.
Deliver(a, u, e) ==
    /\ a[1] = "new" /\ <<u, e>> \in copies[a[3]] \cup {<<a[2], a[3]>>}
    /\ \A c \in copies[e] : c[2] \in box[c[1]]
    /\ box' = [box EXCEPT ![u] = @ \cup {e}]
    /\ asked' \in {asked, asked \ {a}}
    /\ UNCHANGED <<trash, deaths>>

\* A mail is thrown away.
Delete(a) ==
    /\ a[1] = "delete"
    /\ box' = [box EXCEPT ![a[2]] = @ \ {a[3]}]
    /\ trash' = [trash EXCEPT ![a[2]] = @ \cup {a[3]}]
    /\ UNCHANGED <<asked, deaths>>

\* A mail that was thrown away is gone.
Erase(a) ==
    /\ a[1] = "erase"
    /\ trash' = [trash EXCEPT ![a[2]] = @ \ {a[3]}]
    /\ asked' = asked \ {a}
    /\ UNCHANGED <<box, deaths>>

\* A request ends, and has changed nothing since its last step above.
End(a) ==
    /\ asked' = asked \ {a}
    /\ UNCHANGED <<box, trash, deaths>>

\* The front end dies with all its requests; mails that were being thrown away
\* may be lost, and no others.
Die ==
    /\ deaths' = deaths + 1
    /\ asked' = {}
    /\ \E lost \in SUBSET {a \in asked : a[1] = "delete"} :
          trash' = [u \in User |-> trash[u] \ {a[3] : a \in {b \in lost : b[2] = u}}]
    /\ UNCHANGED box

Next ==
    \/ \E k \in {"new", "delete", "erase"}, u \in User, e \in Entry : Ask(k, u, e)
    \/ \E a \in asked : \/ \E u \in User, e \in Entry : Deliver(a, u, e)
                        \/ Delete(a) \/ Erase(a) \/ End(a)
    \/ Die

Spec == Init /\ [][Next]_vars

=============================================================================
