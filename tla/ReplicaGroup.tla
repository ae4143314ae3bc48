----------------------------- MODULE ReplicaGroup -----------------------------
(***************************************************************************)
(* One replica group of backend/bigtable_server.cc: the servers of one     *)
(* line of serverlist.txt, each holding a copy of the same rows.           *)
(*                                                                         *)
(* A PUT may arrive at any server of the group.  A server that knows no    *)
(* primary for the row (the user) makes itself primary and tells the       *)
(* others; a server that knows another primary reports the value to it;    *)
(* the primary sends the value to its replicas in address order and stores *)
(* it last.  A replica whose heartbeat fails is recorded as down, with a   *)
(* marker line in the log, and the other replicas are told.  A restarting  *)
(* server reloads its files, fetches the values it missed from the first   *)
(* live replica's log, announces itself and only then starts to listen.    *)
(*                                                                         *)
(* The gRPC server runs every PUT on a thread of its own and takes no      *)
(* lock: the threads interleave between any two RPCs or heartbeats they    *)
(* make.  The body of a handler that makes no RPC is one step.             *)
(***************************************************************************)
EXTENDS Integers, Sequences

Seqs == INSTANCE SequencesExt

CONSTANTS
    Server,         \* the addresses of the group; std::map iterates in order
    User,           \* row keys: one cell per user stands for the row
    Request,        \* the client PUTs; a request is also the value it writes
    userOf,         \* the row each request writes
    None,           \* no server, no value, no such line in the log
    MaxDepth,       \* bound: length of a chain of Report calls
    MaxCrash,       \* bound: crashes of each server, those a PUT causes apart
    ChannelBackoff  \* may an RPC fail to a server that is up again?

ASSUME ServerAssumption == Server \subseteq Nat
ASSUME RequestAssumption == userOf \in [Request -> User]
ASSUME NoneAssumption == None \notin Server \cup Request \cup Nat
ASSUME BoundAssumption == MaxDepth \in Nat \ {0} /\ MaxCrash \in [Server -> Nat]
ASSUME BackoffAssumption == ChannelBackoff \in BOOLEAN

VARIABLES
    mode,       \* is the process down, booting, announcing itself, serving?
    primaryMap, \* primary_map: the primary of each user, as each server knows
    avail,      \* the replicas whose server_status is true
    downList,   \* down_lst
    table,      \* cache_table: the value of each user in memory
    log,        \* the values in the log file, oldest first
    marker,     \* for each server, how many values precede its last marker
    ckptAt,     \* how many values precede the last "checkpoint" line
    ckpt,       \* the table files the last checkpoint wrote
    announce,   \* Synchronize: replicas not yet told "I am back"
    pc,         \* what each PUT handler does next
    at,         \* the server it runs on
    todo,       \* the replicas its loop has still to visit
    tell,       \* deliver_server_status: the replicas still to be told
    dead,       \* the server it reports as down
    crashes,    \* how often each server has crashed
    applied     \* history: the requests each server has ever put_value'd

memory  == <<primaryMap, avail, downList, table>>
disk    == <<log, marker, ckptAt, ckpt>>
threads == <<pc, at, todo, tell, dead>>
history == <<crashes, applied>>
vars    == <<mode, memory, disk, announce, threads, history>>

-----------------------------------------------------------------------------
(* PUT handlers.  Request r enters the group as handler <<r, 1>>; when a   *)
(* handler reports to the primary, the handler there is <<r, d + 1>>: a    *)
(* handler makes at most one Report, so the pair names it.                 *)

Handler   == Request \X (1 .. MaxDepth)
Callee(a) == <<a[1], a[2] + 1>>
Row(a)    == userOf[a[1]]

Ended   == {"returned", "aborted"}
Waiting == {"arrived", "reporting"}
Loops   == {"select", "bcast"}
Sends   == {"selectSend", "bcastSend"}
Tells   == {"selectTell", "bcastTell"}
Busy    == Waiting \cup Loops \cup Sends \cup Tells

Peers(s)  == Server \ {s}
Serves(s) == mode[s] = "serving"

\* q is the next element of S that a loop in address order visits.
IsNext(q, S) == q \in S /\ \A p \in S : q <= p

\* An RPC reaches a server that listens.  It fails when the server does not
\* listen; after a failure the channel may go on failing for a while.
Reaches(q) == Serves(q)
Fails(q)   == ~Serves(q) \/ (ChannelBackoff /\ crashes[q] > 0)

-----------------------------------------------------------------------------
(* The files.                                                              *)

NoValues == [u \in User |-> None]
NoMarker == [q \in Server |-> None]

IsLastPut(es, u, i) ==
    /\ i \in DOMAIN es /\ userOf[es[i]] = u
    /\ \A j \in DOMAIN es : userOf[es[j]] = u => j <= i

\* The table t after the values es have been put into it in order.
Replay(t, es) ==
    [u \in User |-> IF \E i \in DOMAIN es : IsLastPut(es, u, i)
                    THEN es[CHOOSE i \in DOMAIN es : IsLastPut(es, u, i)]
                    ELSE t[u]]

After(es, n) == SubSeq(es, n + 1, Len(es))

\* Mutant of PutValues: a checkpoint always starts a new log file.
PutValuesTruncating(s, es) ==
    /\ table' = [table EXCEPT ![s] = Replay(@, es)]
    /\ applied' = [applied EXCEPT ![s] = @ \cup {es[i] : i \in DOMAIN es}]
    /\ \/ /\ log' = [log EXCEPT ![s] = @ \o es]
          /\ UNCHANGED <<marker, ckptAt, ckpt>>
       \/ \E k \in DOMAIN es :
            LET before == Replay(table[s], SubSeq(es, 1, k - 1)) IN
            /\ before[userOf[es[k]]] # es[k]
            /\ ckpt' = [ckpt EXCEPT ![s] = Replay(before, <<es[k]>>)]
            /\ log' = [log EXCEPT ![s] = After(es, k)]
            /\ marker' = [marker EXCEPT ![s] = NoMarker]
            /\ ckptAt' = [ckptAt EXCEPT ![s] = 0]

\* put_value for each of the values es at server s.  A value that is not there
\* may be one of a new row or column and find its table full: then the table is
\* split and a checkpoint is written, which keeps the log only while some
\* replica is recorded as down.  Checkpoint k: the last of them comes with the
\* k-th value.
PutValues(s, es) ==
    /\ table' = [table EXCEPT ![s] = Replay(@, es)]
    /\ applied' = [applied EXCEPT ![s] = @ \cup {es[i] : i \in DOMAIN es}]
    /\ \/ /\ log' = [log EXCEPT ![s] = @ \o es]
          /\ UNCHANGED <<marker, ckptAt, ckpt>>
       \/ \E k \in DOMAIN es :
            LET before == Replay(table[s], SubSeq(es, 1, k - 1)) IN
            /\ before[userOf[es[k]]] # es[k]
            /\ ckpt' = [ckpt EXCEPT ![s] = Replay(before, <<es[k]>>)]
            /\ IF downList[s] = {}
               THEN /\ log' = [log EXCEPT ![s] = After(es, k)]
                    /\ marker' = [marker EXCEPT ![s] = NoMarker]
                    /\ ckptAt' = [ckptAt EXCEPT ![s] = 0]
               ELSE /\ log' = [log EXCEPT ![s] = @ \o es]
                    /\ ckptAt' = [ckptAt EXCEPT ![s] = Len(log[s]) + k]
                    /\ UNCHANGED marker

\* Mutant of RecordDown: the marker line is written before the last value.
RecordDownOffByOne(s, q) ==
    /\ downList' = [downList EXCEPT ![s] = @ \cup {q}]
    /\ marker' = [marker EXCEPT ![s][q] = Len(log[s]) - 1]
    /\ avail' = [avail EXCEPT ![s] = @ \ {q}]
    /\ UNCHANGED <<log, ckptAt, ckpt>>

\* record_replica_status: server s records that q is down.
RecordDown(s, q) ==
    /\ downList' = [downList EXCEPT ![s] = @ \cup {q}]
    /\ marker' = [marker EXCEPT ![s][q] = Len(log[s])]
    /\ avail' = [avail EXCEPT ![s] = @ \ {q}]
    /\ UNCHANGED <<log, ckptAt, ckpt>>

-----------------------------------------------------------------------------
(* The process of server s dies: its memory and its threads are lost, its  *)
(* files stay.  A peer sees a thread that died as a failed RPC.            *)

RunsAt(a, s) == at[a] = s /\ pc[a] \in Busy

\* tellOf is what the surviving threads have still to tell.
Kill(s, tellOf) ==
    /\ crashes' = [crashes EXCEPT ![s] = @ + 1]
    /\ primaryMap' = [primaryMap EXCEPT ![s] = NoValues]
    /\ avail' = [avail EXCEPT ![s] = Peers(s)]
    /\ downList' = [downList EXCEPT ![s] = {}]
    /\ table' = [table EXCEPT ![s] = NoValues]
    /\ pc' = [a \in Handler |-> IF RunsAt(a, s) THEN "aborted" ELSE pc[a]]
    /\ todo' = [a \in Handler |-> IF RunsAt(a, s) THEN {} ELSE todo[a]]
    /\ tell' = [a \in Handler |-> IF RunsAt(a, s) THEN {} ELSE tellOf[a]]
    /\ dead' = [a \in Handler |-> IF RunsAt(a, s) THEN None ELSE dead[a]]
    /\ UNCHANGED <<disk, at, applied>>

\* kill -9, a power failure, or the console's Terminate call (exit(1)).
Crash(s) ==
    /\ mode[s] # "down"
    /\ crashes[s] < MaxCrash[s]
    /\ mode' = [mode EXCEPT ![s] = "down"]
    /\ announce' = [announce EXCEPT ![s] = {}]
    /\ Kill(s, tell)

-----------------------------------------------------------------------------
(* PUT.                                                                    *)

\* A client's PUT reaches server s.
PutArrives(r, s) ==
    /\ Serves(s)
    /\ pc[<<r, 1>>] = "idle"
    /\ pc' = [pc EXCEPT ![<<r, 1>>] = "arrived"]
    /\ at' = [at EXCEPT ![<<r, 1>>] = s]
    /\ UNCHANGED <<mode, memory, disk, announce, todo, tell, dead, history>>

\* Mutant of SelectSelf: the last replica is left out of the loop.
SelectSelfButLast(a) ==
    /\ primaryMap' = [primaryMap EXCEPT ![at[a]][Row(a)] = at[a]]
    /\ pc' = [pc EXCEPT ![a] = "select"]
    /\ todo' = [todo EXCEPT ![a] = {q \in Peers(at[a]) : \E p \in Peers(at[a]) : q < p}]
    /\ UNCHANGED <<mode, avail, downList, table, disk, announce, at, tell,
                   dead, history>>

\* select_primary: a's server becomes the primary of its row, first in its
\* own map and then, one RPC each, in its replicas' maps.
SelectSelf(a) ==
    /\ primaryMap' = [primaryMap EXCEPT ![at[a]][Row(a)] = at[a]]
    /\ pc' = [pc EXCEPT ![a] = "select"]
    /\ todo' = [todo EXCEPT ![a] = Peers(at[a])]
    /\ UNCHANGED <<mode, avail, downList, table, disk, announce, at, tell,
                   dead, history>>

\* No primary is known.
NoPrimary(a) ==
    /\ pc[a] = "arrived"
    /\ primaryMap[at[a]][Row(a)] = None
    /\ SelectSelf(a)

\* broadcast: the value goes to every replica, then into the own table.
Broadcast(a) ==
    /\ pc' = [pc EXCEPT ![a] = "bcast"]
    /\ todo' = [todo EXCEPT ![a] = Peers(at[a])]
    /\ UNCHANGED <<mode, memory, disk, announce, at, tell, dead, history>>

\* This server is the primary.
IsPrimary(a) ==
    /\ pc[a] = "arrived"
    /\ primaryMap[at[a]][Row(a)] = at[a]
    /\ Broadcast(a)

\* select_primary has visited every replica.
SelectEnds(a) ==
    /\ pc[a] = "select"
    /\ todo[a] = {}
    /\ Broadcast(a)

\* Mutant of Report: the value is given to the first replica that answers.
ReportToReplica(a) ==
    LET p == primaryMap[at[a]][Row(a)] IN
    /\ pc[a] = "arrived"
    /\ p \notin {None, at[a]}
    /\ a[2] < MaxDepth
    /\ \E q \in Peers(at[a]) :
          /\ IsNext(q, {s \in Peers(at[a]) : Serves(s)})
          /\ at' = [at EXCEPT ![Callee(a)] = q]
    /\ pc' = [pc EXCEPT ![a] = "reporting", ![Callee(a)] = "arrived"]
    /\ UNCHANGED <<mode, memory, disk, announce, todo, tell, dead, history>>

\* Another server is the primary: Report the value to it and wait.
Report(a) ==
    LET p == primaryMap[at[a]][Row(a)] IN
    /\ pc[a] = "arrived"
    /\ p \notin {None, at[a]}
    /\ Reaches(p)
    /\ a[2] < MaxDepth
    /\ pc' = [pc EXCEPT ![a] = "reporting", ![Callee(a)] = "arrived"]
    /\ at' = [at EXCEPT ![Callee(a)] = p]
    /\ UNCHANGED <<mode, memory, disk, announce, todo, tell, dead, history>>

\* The primary cannot be reached: take its place.
ReportRefused(a) ==
    LET p == primaryMap[at[a]][Row(a)] IN
    /\ pc[a] = "arrived"
    /\ p \notin {None, at[a]}
    /\ Fails(p)
    /\ SelectSelf(a)

\* Mutant of ReportFails: the result of Report is ignored.
ReportFailsIgnored(a) ==
    /\ pc[a] = "reporting"
    /\ pc[Callee(a)] = "aborted"
    /\ pc' = [pc EXCEPT ![a] = "returned"]
    /\ UNCHANGED <<mode, memory, disk, announce, at, todo, tell, dead, history>>

\* Mutant of ReportFails: the call waits until the primary is ready again.
ReportFailsWaits(a) ==
    /\ pc[a] = "reporting"
    /\ pc[Callee(a)] = "aborted"
    /\ Serves(at[Callee(a)])
    /\ SelectSelf(a)

\* The primary died while it worked on the value: take its place.
ReportFails(a) ==
    /\ pc[a] = "reporting"
    /\ pc[Callee(a)] = "aborted"
    /\ SelectSelf(a)

\* The primary has stored the value: PUT returns OK.
ReportReturns(a) ==
    /\ pc[a] = "reporting"
    /\ pc[Callee(a)] = "returned"
    /\ pc' = [pc EXCEPT ![a] = "returned"]
    /\ UNCHANGED <<mode, memory, disk, announce, at, todo, tell, dead,
                   history>>

\* The head of both loops: skip a replica known to be down, go on to send to
\* one whose heartbeat answers, record one whose heartbeat does not.
SkipDown(a, q) ==
    /\ pc[a] \in Loops
    /\ IsNext(q, todo[a])
    /\ q \notin avail[at[a]]
    /\ todo' = [todo EXCEPT ![a] = @ \ {q}]
    /\ UNCHANGED <<mode, memory, disk, announce, pc, at, tell, dead, history>>

HeartbeatAnswers(a, q) ==
    /\ pc[a] \in Loops
    /\ IsNext(q, todo[a])
    /\ q \in avail[at[a]]
    /\ Serves(q)
    /\ pc' = [pc EXCEPT ![a] = IF @ = "select" THEN "selectSend" ELSE "bcastSend"]
    /\ UNCHANGED <<mode, memory, disk, announce, at, todo, tell, dead, history>>

HeartbeatFails(a, q) ==
    /\ pc[a] \in Loops
    /\ IsNext(q, todo[a])
    /\ q \in avail[at[a]]
    /\ ~Serves(q)
    /\ RecordDown(at[a], q)
    /\ pc' = [pc EXCEPT ![a] = IF @ = "select" THEN "selectTell" ELSE "bcastTell"]
    /\ todo' = [todo EXCEPT ![a] = @ \ {q}]
    /\ tell' = [tell EXCEPT ![a] = Peers(at[a])]
    /\ dead' = [dead EXCEPT ![a] = q]
    /\ UNCHANGED <<mode, primaryMap, table, announce, at, history>>

\* The loop goes on after its RPC to q, whatever the RPC returned.
LoopOn(a, q) ==
    /\ IsNext(q, todo[a])
    /\ pc' = [pc EXCEPT ![a] = IF @ = "selectSend" THEN "select" ELSE "bcast"]
    /\ todo' = [todo EXCEPT ![a] = @ \ {q}]
    /\ UNCHANGED <<mode, avail, downList, announce, at, tell, dead, crashes>>

\* Update_Primary at q.
SendPrimary(a, q) ==
    /\ pc[a] = "selectSend"
    /\ Reaches(q)
    /\ LoopOn(a, q)
    /\ primaryMap' = [primaryMap EXCEPT ![q][Row(a)] = at[a]]
    /\ UNCHANGED <<table, disk, applied>>

\* PutFromReplica at q.
SendValue(a, q) ==
    /\ pc[a] = "bcastSend"
    /\ Reaches(q)
    /\ LoopOn(a, q)
    /\ PutValues(q, <<a[1]>>)
    /\ UNCHANGED primaryMap

\* The RPC fails: q died after its heartbeat.  The result is not looked at.
SendLost(a, q) ==
    /\ pc[a] \in Sends
    /\ Fails(q)
    /\ LoopOn(a, q)
    /\ UNCHANGED <<primaryMap, table, disk, applied>>

\* deliver_server_status: skip a replica known to be down.
TellSkips(a, q) ==
    /\ pc[a] \in Tells
    /\ IsNext(q, tell[a])
    /\ q \notin avail[at[a]] \/ Fails(q)
    /\ tell' = [tell EXCEPT ![a] = @ \ {q}]
    /\ UNCHANGED <<mode, memory, disk, announce, pc, at, todo, dead, history>>

\* Update_Sever_Down_Status at q.
TellDown(a, q) ==
    /\ pc[a] \in Tells
    /\ IsNext(q, tell[a])
    /\ q \in avail[at[a]] \ {dead[a]}
    /\ Reaches(q)
    /\ RecordDown(q, dead[a])
    /\ tell' = [tell EXCEPT ![a] = @ \ {q}]
    /\ UNCHANGED <<mode, primaryMap, table, announce, pc, at, todo, dead,
                   history>>

\* Update_Sever_Down_Status at the server it says is down: replica_lst has no
\* client for the server itself, and the handler dereferences a null pointer
\* (after a marker line for itself, which nobody ever looks for in its log).
TellItself(a, q) ==
    /\ pc[a] \in Tells
    /\ IsNext(q, tell[a])
    /\ q \in avail[at[a]]
    /\ q = dead[a]
    /\ Reaches(q)
    /\ mode' = [mode EXCEPT ![q] = "down"]
    /\ Kill(q, [tell EXCEPT ![a] = @ \ {q}])
    /\ UNCHANGED announce

\* Every replica has been told: back to the loop.
TellEnds(a) ==
    /\ pc[a] \in Tells
    /\ tell[a] = {}
    /\ pc' = [pc EXCEPT ![a] = IF @ = "selectTell" THEN "select" ELSE "bcast"]
    /\ dead' = [dead EXCEPT ![a] = None]
    /\ UNCHANGED <<mode, memory, disk, announce, at, todo, tell, history>>

\* Every replica has been visited: the own put_value, and PUT returns OK.
StoreOwn(a) ==
    /\ pc[a] = "bcast"
    /\ todo[a] = {}
    /\ PutValues(at[a], <<a[1]>>)
    /\ pc' = [pc EXCEPT ![a] = "returned"]
    /\ UNCHANGED <<mode, primaryMap, avail, downList, announce, at, todo, tell,
                   dead, crashes>>

-----------------------------------------------------------------------------
(* Restart.                                                                *)

\* Mutant of Restart: the values after the last checkpoint are not replayed.
RestartWithoutLog(s) ==
    /\ mode[s] = "down"
    /\ table' = [table EXCEPT ![s] = ckpt[s]]
    /\ mode' = [mode EXCEPT ![s] = "booting"]
    /\ UNCHANGED <<primaryMap, avail, downList, disk, announce, threads,
                   history>>

\* ParseMetaData and ParseLogFile.  With no "checkpoint" line in the log the
\* position to read from is never set: it may be anywhere in the file.
Restart(s) ==
    /\ mode[s] = "down"
    /\ \E n \in IF ckptAt[s] = None THEN 0 .. Len(log[s]) ELSE {ckptAt[s]} :
          table' = [table EXCEPT ![s] = Replay(ckpt[s], After(log[s], n))]
    /\ mode' = [mode EXCEPT ![s] = "booting"]
    /\ UNCHANGED <<primaryMap, avail, downList, disk, announce, threads,
                   history>>

Fetched(s) ==
    /\ mode[s] = "booting"
    /\ mode' = [mode EXCEPT ![s] = "announcing"]
    /\ announce' = [announce EXCEPT ![s] = Peers(s)]

\* Synchronize: no replica answers the heartbeat.
FetchNothing(s) ==
    /\ \A q \in Peers(s) : ~Serves(q)
    /\ Fetched(s)
    /\ UNCHANGED <<memory, disk, threads, history>>

\* Mutant of FetchMissing: ReadLog skips one value too many.
FetchMissingOffByOne(s, q) ==
    /\ IsNext(q, {p \in Peers(s) : Serves(p)})
    /\ Fetched(s)
    /\ \E n \in IF marker[q][s] = None THEN 0 .. Len(log[q])
                                       ELSE {marker[q][s] + 1} :
          PutValues(s, After(log[q], n))
    /\ UNCHANGED <<primaryMap, avail, downList, threads, crashes>>

\* Recover: put_value of all that ReadLog at the first live replica streams,
\* the values after the last marker for s.  With no such marker the position
\* to read from is never set.  The stream is one step: a live replica dies
\* before it or after it.
FetchMissing(s, q) ==
    /\ IsNext(q, {p \in Peers(s) : Serves(p)})
    /\ Fetched(s)
    /\ \E n \in IF marker[q][s] = None THEN 0 .. Len(log[q])
                                       ELSE {marker[q][s]} :
          PutValues(s, After(log[q], n))
    /\ UNCHANGED <<primaryMap, avail, downList, threads, crashes>>

\* ReadLog from a position that was never set may start inside a record: the
\* live replica then dies ("Reading error", or stol throws), and the restarting
\* server goes on with nothing.
SourceDies(s, q) ==
    /\ IsNext(q, {p \in Peers(s) : Serves(p)})
    /\ mode[s] = "booting"
    /\ marker[q][s] = None
    /\ log[q] # << >> \/ ckptAt[q] # None \/ marker[q] # NoMarker
    /\ crashes[q] < MaxCrash[q]
    /\ mode' = [mode EXCEPT ![s] = "announcing", ![q] = "down"]
    /\ announce' = [announce EXCEPT ![s] = Peers(s)]
    /\ Kill(q, tell)

\* "I am back": Update_Sever_Up_Status at q if its heartbeat answers.
Announce(s, q) ==
    /\ mode[s] = "announcing"
    /\ IsNext(q, announce[s])
    /\ announce' = [announce EXCEPT ![s] = @ \ {q}]
    /\ IF Serves(q)
       THEN /\ downList' = [downList EXCEPT ![q] = @ \ {s}]
            /\ avail' = [avail EXCEPT ![q] = @ \cup {s}]
       ELSE UNCHANGED <<downList, avail>>
    /\ UNCHANGED <<mode, primaryMap, table, disk, threads, history>>

\* BuildAndStart: only now does the server listen.
Listen(s) ==
    /\ mode[s] = "announcing"
    /\ announce[s] = {}
    /\ mode' = [mode EXCEPT ![s] = "serving"]
    /\ UNCHANGED <<memory, disk, announce, threads, history>>

-----------------------------------------------------------------------------
(* The group.                                                              *)

\* Every server is up and nothing is stored; n values of the log, if any, are
\* behind a checkpoint.
AllUp(n) ==
    /\ mode = [s \in Server |-> "serving"]
    /\ primaryMap = [s \in Server |-> NoValues]
    /\ avail = [s \in Server |-> Peers(s)]
    /\ downList = [s \in Server |-> {}]
    /\ table = [s \in Server |-> NoValues]
    /\ log = [s \in Server |-> << >>]
    /\ marker = [s \in Server |-> NoMarker]
    /\ ckptAt = [s \in Server |-> n]
    /\ ckpt = [s \in Server |-> NoValues]
    /\ announce = [s \in Server |-> {}]
    /\ pc = [a \in Handler |-> "idle"]
    /\ at = [a \in Handler |-> None]
    /\ todo = [a \in Handler |-> {}]
    /\ tell = [a \in Handler |-> {}]
    /\ dead = [a \in Handler |-> None]
    /\ crashes = [s \in Server |-> 0]
    /\ applied = [s \in Server |-> {}]

\* The files are new.
Init == AllUp(None)

\* What the thread of handler a does next.
HandlerStep(a) ==
    \/ NoPrimary(a)
    \/ IsPrimary(a)
    \/ Report(a)
    \/ ReportRefused(a)
    \/ ReportFails(a)
    \/ ReportReturns(a)
    \/ SelectEnds(a)
    \/ TellEnds(a)
    \/ StoreOwn(a)
    \/ \E q \in Server :
          \/ SkipDown(a, q)
          \/ HeartbeatAnswers(a, q)
          \/ HeartbeatFails(a, q)
          \/ SendPrimary(a, q)
          \/ SendValue(a, q)
          \/ SendLost(a, q)
          \/ TellSkips(a, q)
          \/ TellDown(a, q)
          \/ TellItself(a, q)

\* What the main thread of a restarting server does next.
BootStep(s) ==
    \/ Restart(s)
    \/ FetchNothing(s)
    \/ Listen(s)
    \/ \E q \in Server :
          \/ FetchMissing(s, q)
          \/ Announce(s, q)

Next ==
    \/ \E r \in Request, s \in Server : PutArrives(r, s)
    \/ \E a \in Handler : HandlerStep(a)
    \/ \E s \in Server : BootStep(s) \/ Crash(s)
    \/ \E s, q \in Server : SourceDies(s, q)

Spec == Init /\ [][Next]_vars

-----------------------------------------------------------------------------
(* Properties.                                                             *)

TypeOK ==
    /\ mode \in [Server -> {"down", "booting", "announcing", "serving"}]
    /\ primaryMap \in [Server -> [User -> Server \cup {None}]]
    /\ avail \in [Server -> SUBSET Server]
    /\ downList \in [Server -> SUBSET Server]
    /\ table \in [Server -> [User -> Request \cup {None}]]
    /\ log \in [Server -> Seq(Request)]
    /\ marker \in [Server -> [Server -> Nat \cup {None}]]
    /\ ckptAt \in [Server -> Nat \cup {None}]
    /\ ckpt \in [Server -> [User -> Request \cup {None}]]
    /\ announce \in [Server -> SUBSET Server]
    /\ pc \in [Handler -> {"idle"} \cup Busy \cup Ended]
    /\ at \in [Handler -> Server \cup {None}]
    /\ \A a \in Handler : pc[a] # "idle" => at[a] \in Server
    /\ todo \in [Handler -> SUBSET Server]
    /\ tell \in [Handler -> SUBSET Server]
    /\ dead \in [Handler -> Server \cup {None}]
    /\ \A a \in Handler : pc[a] \in Tells => dead[a] \in Server
    /\ crashes \in [Server -> Nat]
    /\ applied \in [Server -> SUBSET Request]

Acked(r) == pc[<<r, 1>>] = "returned"

\* Whatever the interleaving of PUTs, crashes and restarts, a PUT that returned
\* OK has been stored by every server of the group that never went down: the
\* broadcast loop skips no replica it should not, a Report that fails is
\* broadcast again, and no down report names a server that was up throughout.
NeverFailedNeverSkipped ==
    \A r \in Request, s \in Server :
        Acked(r) /\ crashes[s] = 0 => r \in applied[s]

\* A replica is passed over (server_status) exactly while it is on down_lst,
\* and then the log has a marker line for it: no checkpoint has cut it off,
\* and ReadLog finds where the values the replica misses begin.
PassedOverIsMarked ==
    \A s \in Server :
        /\ avail[s] = Peers(s) \ downList[s]
        /\ \A q \in downList[s] : marker[s][q] # None /\ marker[s][q] <= Len(log[s])

\* While a replica is recorded as down, what the log holds for it after its
\* marker is never lost ("now my log file contains %s missing info").
MissingInfoKept ==
    [][\A s \in Server : \A q \in downList[s] \cap downList'[s] :
            /\ marker'[s][q] # None
            /\ Seqs!IsPrefix(After(log[s], marker[s][q]),
                             After(log'[s], marker'[s][q]))]_vars

\* A value is reported at most once: the server it is given to is the primary,
\* stores it, and does not pass it on ("give task to primary").
TaskGoesToPrimary ==
    \A a \in Handler : a[2] > 1 => pc[a] # "reporting"

=============================================================================
