-------------------------- MODULE ReplicaGroupSerial --------------------------
(***************************************************************************)
(* The replica group of ReplicaGroup.tla used by a client that sends one   *)
(* PUT at a time.  The front end itself does not serialise its requests:   *)
(* this module says what the group promises as long as they do not meet.   *)
(* The server that a restarting one reads from is taken to survive: it has *)
(* a marker, or starts to read at the beginning of a record.               *)
(***************************************************************************)
EXTENDS ReplicaGroup

CONSTANTS
    FirstEntry,  \* do PUTs arrive at the first live server (getRandomBackendIp)?
    IdleFailures \* do servers crash one at a time, and crash and restart
                 \* between PUTs only?

ASSUME EnvironmentAssumption == FirstEntry \in BOOLEAN /\ IdleFailures \in BOOLEAN

Serving == {s \in Server : Serves(s)}
Quiet   == \A a \in Handler : pc[a] \notin Busy
Settled == Quiet /\ \A s \in Server : mode[s] \in {"down", "serving"}

\* A checkpoint has been written before: the log says where to replay from.
SerialInit == AllUp(0)

ClientPut(r, s) ==
    /\ Settled
    /\ FirstEntry => IsNext(s, Serving)
    /\ PutArrives(r, s)

SerialBoot(s) ==
    /\ IdleFailures => Quiet
    /\ BootStep(s)

SerialCrash(s) ==
    /\ IdleFailures => Quiet /\ Serving = Server
    /\ Crash(s)

\* Nothing is left to do but to wait for a client.
Wait == Settled /\ UNCHANGED vars

SerialNext ==
    \/ \E r \in Request, s \in Server : ClientPut(r, s)
    \/ \E a \in Handler : HandlerStep(a)
    \/ \E s \in Server : SerialBoot(s) \/ SerialCrash(s)
    \/ Wait

SerialSpec == SerialInit /\ [][SerialNext]_vars

\* Every PUT thread that can run is scheduled.
FairSerialSpec == SerialSpec /\ \A a \in Handler : WF_vars(HandlerStep(a))

-----------------------------------------------------------------------------
(* Properties.                                                             *)

\* Between PUTs, the servers that never went down hold the same value of every
\* row none of whose PUTs was cut short by the crash of the server it was sent
\* to, also when a primary died half way through a broadcast.
NeverFailedAgree ==
    Quiet =>
        \A u \in User :
            (\A r \in Request : userOf[r] = u => pc[<<r, 1>>] # "aborted") =>
                \A s, t \in Server :
                    crashes[s] = 0 /\ crashes[t] = 0 => table[s][u] = table[t][u]

\* Between PUTs, every serving server holds the same values, also one that was
\* down: the marker, the log kept for it and the recovery are enough.
ServingAgree == Settled => \A s, t \in Serving : table[s] = table[t]

\* The whole group is one store to a client that uses the first live server: a
\* GET there returns the last PUT that returned, also after failovers and
\* recoveries, and no value it once returned comes back.
FirstServing == CHOOSE s \in Server : IsNext(s, Serving)

Single == INSTANCE SingleStore WITH
    store <- table[FirstServing],
    done  <- {r \in Request : Acked(r)}

ActsAsOneStore == Single!Spec

\* Between PUTs, all servers that know a primary of a row know the same one,
\* although each keeps a map of its own, and a restarted one knows nobody and
\* makes itself primary while the old one lives.
OnePrimary ==
    Quiet =>
        \A u \in User, s, t \in Server :
            primaryMap[s][u] # None /\ primaryMap[t][u] # None =>
                primaryMap[s][u] = primaryMap[t][u]

\* Every PUT comes to an end: it is acknowledged or its server died.
PutEnds == \A r \in Request :
    pc[<<r, 1>>] = "arrived" ~> pc[<<r, 1>>] \in Ended

=============================================================================
