------------------------------- MODULE Routing -------------------------------
(***************************************************************************)
(* How the front end finds the server for a row: the group of the row by   *)
(* the first character of its name, the group's servers from the master    *)
(* (backend/master_server.cc) or from the map kept in the front end        *)
(* (httpserver/servletmanager), and the first of them whose heartbeat      *)
(* answers.  Worker threads share the map without a lock.                  *)
(***************************************************************************)
EXTENDS Integers, Sequences, Functions

CONSTANTS
    Server,
    Lines,      \* the master's server list, one sequence of servers per line
    Row,
    letter,     \* [Row -> Int]: row[0] - 'a'
    Request,
    rowOf,      \* [Request -> Row]
    Garbage,    \* what memory beside the master's list may be taken for
    None,
    MaxSockets, \* how many descriptors a front end has for heartbeats
    MaxChange   \* how often servers, the master and the front end start or stop

ASSUME RoutingAssumption ==
    /\ Lines \in Seq(Seq(Server))
    /\ letter \in [Row -> Int]
    /\ rowOf \in [Request -> Row]
    /\ Garbage \subseteq Seq(Server)
    /\ None \notin Server
    /\ MaxSockets \in Nat /\ MaxChange \in Nat

VARIABLES
    ipMap,   \* ipMap[k]: the list of group k, empty while it is not known
    up,      \* the servers that listen
    master,  \* is the master running?
    front,   \* is the front end running?
    sockets, \* the descriptors that heartbeats have used up
    pc,      \* where the worker thread of each request is
    ips,     \* the vector it works on
    next,    \* its position there
    at,      \* the server it has chosen
    changes,
    \* history
    steady,  \* steady[r]: the servers that were up since r began
             \* of this run of the front end:
    cheated, \* the requests the master gave anything but a whole line
    death    \* its end: whose request it was, and why

thread  == <<pc, ips, next, at>>
history == <<steady, cheated, death>>
vars    == <<ipMap, up, master, front, sockets, thread, changes, history>>

\* The C++ remainder: it has the sign of its left operand.
Rem(x, n) == IF x >= 0 THEN x % n ELSE -((-x) % n)
Key       == -3..3
KeyOf(r)  == Rem(letter[rowOf[r]], 4)

\* The servers that hold the rows of a key.
Line(k)    == IF k + 1 \in DOMAIN Lines THEN Lines[k + 1] ELSE <<>>
HasLine(r) == KeyOf(r) + 1 \in DOMAIN Lines

Init ==
    /\ ipMap = [k \in Key |-> <<>>]
    /\ up = Server
    /\ master = TRUE
    /\ front = TRUE
    /\ sockets = 0
    /\ pc = [r \in Request |-> "idle"]
    /\ ips = [r \in Request |-> <<>>]
    /\ next = [r \in Request |-> 1]
    /\ at = [r \in Request |-> None]
    /\ changes = 0
    /\ steady = [r \in Request |-> {}]
    /\ cheated = {}
    /\ death = None

-----------------------------------------------------------------------------
(* getRandomBackendIp, for the row of request r.                           *)

Busy       == {"ask", "update", "reread", "beat", "call"}
Goto(r, p) == pc' = [pc EXCEPT ![r] = p]

\* Mutant of Search: the search begins anywhere in the list.
SearchShuffled(r) ==
    /\ ips' = [ips EXCEPT ![r] = ipMap[KeyOf(r)]]
    /\ \E n \in 1..2 : next' = [next EXCEPT ![r] = n]

Search(r) ==
    /\ ips' = [ips EXCEPT ![r] = ipMap[KeyOf(r)]]
    /\ next' = [next EXCEPT ![r] = 1]

\* The front end ends, with its map and its threads.
FrontEnds(r, why) ==
    /\ front' = FALSE
    /\ ipMap' = [k \in Key |-> <<>>]
    /\ sockets' = 0
    /\ pc' = [q \in Request |-> IF pc[q] \in Busy THEN "dead" ELSE pc[q]]
    /\ death' = [by |-> r, why |-> why]

\* Mutant of Start: the map is used although nothing is known of the group.
StartUnknown(r) ==
    /\ front /\ pc[r] = "idle"
    /\ Search(r)
    /\ Goto(r, "beat")
    /\ steady' = [steady EXCEPT ![r] = up]
    /\ UNCHANGED <<ipMap, up, master, front, sockets, at, changes, cheated, death>>

Start(r) ==
    /\ front /\ pc[r] = "idle"
    /\ Search(r)
    /\ Goto(r, IF ipMap[KeyOf(r)] = <<>> THEN "ask" ELSE "beat")
    /\ steady' = [steady EXCEPT ![r] = up]
    /\ UNCHANGED <<ipMap, up, master, front, sockets, at, changes, cheated, death>>

\* Mutant of Ask: the master divides the letters by seven, the front end by four.
AskBySevenths(r) ==
    /\ pc[r] = "ask" /\ Goto(r, "update")
    /\ master
    /\ ips' = [ips EXCEPT ![r] = Line(letter[rowOf[r]] \div 7)]
    /\ UNCHANGED <<ipMap, up, master, front, sockets, next, at, changes, history>>

\* FindIpList: Find sends one server after the other; a stream that breaks off
\* gives a shorter list, and the status at its end is not looked at.
Ask(r) ==
    /\ pc[r] = "ask" /\ Goto(r, "update")
    /\ \/ /\ master /\ HasLine(r)
          /\ ips' = [ips EXCEPT ![r] = Line(KeyOf(r))]
          /\ UNCHANGED <<master, changes, cheated>>
       \/ \* The master ends while it sends.
          /\ master /\ HasLine(r) /\ changes < MaxChange
          /\ \E n \in 0..Len(Line(KeyOf(r))) - 1 :
                ips' = [ips EXCEPT ![r] = SubSeq(Line(KeyOf(r)), 1, n)]
          /\ master' = FALSE /\ changes' = changes + 1
          /\ cheated' = cheated \cup {r}
       \/ \* server_list is read out of range: the master may end at once, or
          \* send what it finds there.
          /\ master /\ ~HasLine(r)
          /\ master' \in BOOLEAN
          /\ \E l \in Garbage \cup {<<>>} : ips' = [ips EXCEPT ![r] = l]
          /\ cheated' = cheated \cup {r}
          /\ UNCHANGED changes
       \/ /\ ~master
          /\ ips' = [ips EXCEPT ![r] = <<>>]
          /\ cheated' = cheated \cup {r}
          /\ UNCHANGED <<master, changes>>
    /\ UNCHANGED <<ipMap, up, front, sockets, next, at, steady, death>>

\* What was read out of range and sent is not an address: stoi throws in the
\* first heartbeat, and the front end ends.
AskMisled(r) ==
    /\ pc[r] = "ask" /\ master /\ ~HasLine(r)
    /\ FrontEnds(r, "stoi")
    /\ UNCHANGED <<up, master, ips, next, at, changes, steady, cheated>>

\* updateIpMap, whatever came.
Update(r) ==
    /\ pc[r] = "update" /\ Goto(r, "reread")
    /\ ipMap' = [ipMap EXCEPT ![KeyOf(r)] = ips[r]]
    /\ UNCHANGED <<up, master, front, sockets, ips, next, at, changes, history>>

Reread(r) ==
    /\ pc[r] = "reread" /\ Goto(r, "beat")
    /\ Search(r)
    /\ UNCHANGED <<ipMap, up, master, front, sockets, at, changes, history>>

\* Mutant of Beat: one socket too many.
BeatOffByOne(r) ==
    /\ pc[r] = "beat" /\ next[r] <= Len(ips[r]) /\ sockets <= MaxSockets
    /\ sockets' = sockets + 1
    /\ \/ /\ ips[r][next[r]] \in up
          /\ at' = [at EXCEPT ![r] = ips[r][next[r]]]
          /\ Goto(r, "call")
          /\ UNCHANGED next
       \/ /\ ips[r][next[r]] \notin up
          /\ next' = [next EXCEPT ![r] = @ + 1]
          /\ UNCHANGED <<pc, at>>
    /\ UNCHANGED <<ipMap, up, master, front, ips, changes, history>>

\* heartbeat: its socket is never closed.
Beat(r) ==
    /\ pc[r] = "beat" /\ next[r] <= Len(ips[r]) /\ sockets < MaxSockets
    /\ sockets' = sockets + 1
    /\ \/ /\ ips[r][next[r]] \in up
          /\ at' = [at EXCEPT ![r] = ips[r][next[r]]]
          /\ Goto(r, "call")
          /\ UNCHANGED next
       \/ /\ ips[r][next[r]] \notin up
          /\ next' = [next EXCEPT ![r] = @ + 1]
          /\ UNCHANGED <<pc, at>>
    /\ UNCHANGED <<ipMap, up, master, front, ips, changes, history>>

\* "Cannot open socket": exit(1).
OutOfSockets(r) ==
    /\ pc[r] = "beat" /\ next[r] <= Len(ips[r]) /\ sockets = MaxSockets
    /\ FrontEnds(r, "sockets")
    /\ UNCHANGED <<up, master, ips, next, at, changes, steady, cheated>>

\* No heartbeat answered: a string is made from NULL.
NoneAnswers(r) ==
    /\ pc[r] = "beat" /\ next[r] > Len(ips[r])
    /\ FrontEnds(r, "null")
    /\ UNCHANGED <<up, master, ips, next, at, changes, steady, cheated>>

\* GetValue or PutValue at the server, which may have gone meanwhile.
Call(r) ==
    /\ pc[r] = "call"
    /\ Goto(r, IF at[r] \in up THEN "answered" ELSE "failed")
    /\ UNCHANGED <<ipMap, up, master, front, sockets, ips, next, at, changes, history>>

-----------------------------------------------------------------------------
\* A server dies, or is sent Terminate by the console page.
Stop(s) ==
    /\ s \in up /\ changes < MaxChange
    /\ up' = up \ {s}
    /\ steady' = [r \in Request |-> steady[r] \ {s}]
    /\ changes' = changes + 1
    /\ UNCHANGED <<ipMap, master, front, sockets, thread, cheated, death>>

\* A server, the master or the front end is started again.
Boot ==
    /\ changes < MaxChange /\ changes' = changes + 1
    /\ \/ \E s \in Server \ up : up' = up \cup {s} /\ UNCHANGED <<master, front>>
             /\ UNCHANGED <<cheated, death>>
       \/ ~master /\ master' = TRUE /\ UNCHANGED <<up, front, cheated, death>>
       \/ /\ ~front /\ front' = TRUE /\ UNCHANGED <<up, master>>
          /\ cheated' = {} /\ death' = None
    /\ UNCHANGED <<ipMap, sockets, thread, steady>>

MasterStops ==
    /\ master /\ changes < MaxChange
    /\ master' = FALSE /\ changes' = changes + 1
    /\ UNCHANGED <<ipMap, up, front, sockets, thread, history>>

Step(r) ==
    \/ Start(r) \/ Ask(r) \/ AskMisled(r) \/ Update(r) \/ Reread(r)
    \/ Beat(r) \/ OutOfSockets(r) \/ NoneAnswers(r) \/ Call(r)

Next ==
    \/ \E r \in Request : Step(r)
    \/ \E s \in Server : Stop(s)
    \/ Boot \/ MasterStops

Spec == Init /\ [][Next]_vars

-----------------------------------------------------------------------------
(* Properties.                                                             *)

TypeOK ==
    /\ ipMap \in [Key -> Seq(Server)]
    /\ up \in SUBSET Server
    /\ master \in BOOLEAN /\ front \in BOOLEAN
    /\ sockets \in 0..MaxSockets
    /\ pc \in [Request -> Busy \cup {"idle", "answered", "failed", "dead"}]
    /\ ips \in [Request -> Seq(Server)]
    /\ next \in [Request -> Nat \ {0}]
    /\ at \in [Request -> Server \cup {None}]
    /\ changes \in 0..MaxChange
    /\ steady \in [Request -> SUBSET Server]
    /\ cheated \in SUBSET Request
    /\ death \in {None} \cup [by : Request, why : {"null", "sockets", "stoi"}]

\* Whatever threads overwrite in the map, and however the master fails, a
\* request for a row that has a group goes to a server of that group.
EntersOwnGroup ==
    \A r \in Request : pc[r] = "call" /\ HasLine(r) => at[r] \in Range(Line(KeyOf(r)))

\* Such a request passes over a server of its group only if that was down at
\* some time of the search: the entry that ReplicaGroupSerial calls FirstEntry.
EntersAtFirstLive ==
    \A r \in Request : pc[r] = "call" /\ HasLine(r) =>
        \E j \in DOMAIN Line(KeyOf(r)) :
            /\ at[r] = Line(KeyOf(r))[j]
            /\ \A i \in 1..j - 1 : Line(KeyOf(r))[i] \notin steady[r]

\* The front end dies of a missing server only if no server of the group was up
\* during the search, or the master has failed a request of this run of the
\* front end for the same group; what it sent for other groups, also what it
\* read out of range, is no reason.
NullOnlyWithoutServers ==
    death # None => (death.why = "null" =>
        \/ Range(Line(KeyOf(death.by))) \cap steady[death.by] = {}
        \/ \E q \in cheated : KeyOf(q) = KeyOf(death.by))

=============================================================================
