-------------------------- MODULE ReplicaGroupProofs --------------------------
(***************************************************************************)
(* Theorems about ReplicaGroup.tla, for groups of any size, any PUTs and   *)
(* any number of crashes.                                                  *)
(***************************************************************************)
EXTENDS ReplicaGroup, TLAPS, SequenceTheorems

-----------------------------------------------------------------------------
(* The files and the table keep their types.                               *)

Values == Request \cup {None}

\* The table a log is replayed into holds requests, one per row.
LEMMA ReplayType ==
    ASSUME NEW t \in [User -> Values], NEW es \in Seq(Request)
    PROVE  Replay(t, es) \in [User -> Values]
<1>1. \A u \in User : \A i \in DOMAIN es : es[i] \in Request
  BY ElementOfSeq, LenProperties
<1>2. SUFFICES ASSUME NEW u \in User
               PROVE  (IF \E i \in DOMAIN es : IsLastPut(es, u, i)
                       THEN es[CHOOSE i \in DOMAIN es : IsLastPut(es, u, i)]
                       ELSE t[u]) \in Values
  BY DEF Replay
<1>3. CASE \E i \in DOMAIN es : IsLastPut(es, u, i)
  BY <1>1, <1>3 DEF Values
<1>4. CASE ~\E i \in DOMAIN es : IsLastPut(es, u, i)
  BY <1>4
<1> QED BY <1>3, <1>4

\* What is left of a log behind a position is a log.
LEMMA AfterType ==
    ASSUME NEW es \in Seq(Request), NEW n \in Nat
    PROVE  After(es, n) \in Seq(Request)
<1>1. Len(es) \in Nat /\ \A i \in n + 1 .. Len(es) : es[i] \in Request
  BY LenProperties, ElementOfSeq
<1> QED BY <1>1, SubSeqProperties, n + 1 \in Int, Len(es) \in Int DEF After

\* put_value of a list of values keeps the types of table, log and files, and
\* leaves the values on record.
LEMMA PutValuesType ==
    ASSUME TypeOK, NEW s \in Server, NEW es \in Seq(Request), PutValues(s, es)
    PROVE  /\ table' \in [Server -> [User -> Values]]
           /\ log' \in [Server -> Seq(Request)]
           /\ marker' \in [Server -> [Server -> Nat \cup {None}]]
           /\ ckptAt' \in [Server -> Nat \cup {None}]
           /\ ckpt' \in [Server -> [User -> Values]]
           /\ applied' \in [Server -> SUBSET Request]
           /\ \A q \in Server : applied[q] \subseteq applied'[q]
           /\ \A i \in DOMAIN es : es[i] \in applied'[s]
<1> USE DEF TypeOK, Values
<1>1. \A i \in DOMAIN es : es[i] \in Request
  BY ElementOfSeq, LenProperties
<1>2. Replay(table[s], es) \in [User -> Values]
  BY ReplayType
<1>3. /\ table' \in [Server -> [User -> Values]]
      /\ applied' \in [Server -> SUBSET Request]
      /\ \A q \in Server : applied[q] \subseteq applied'[q]
      /\ \A i \in DOMAIN es : es[i] \in applied'[s]
  BY <1>1, <1>2 DEF PutValues
<1>4. log[s] \o es \in Seq(Request)
  BY ConcatProperties
<1>5. CASE /\ log' = [log EXCEPT ![s] = @ \o es]
           /\ UNCHANGED <<marker, ckptAt, ckpt>>
  BY <1>3, <1>4, <1>5
<1>6. ASSUME NEW k \in DOMAIN es,
             ckpt' = [ckpt EXCEPT ![s] = Replay(Replay(table[s], SubSeq(es, 1, k - 1)), <<es[k]>>)],
             IF downList[s] = {}
             THEN /\ log' = [log EXCEPT ![s] = After(es, k)]
                  /\ marker' = [marker EXCEPT ![s] = NoMarker]
                  /\ ckptAt' = [ckptAt EXCEPT ![s] = 0]
             ELSE /\ log' = [log EXCEPT ![s] = @ \o es]
                  /\ ckptAt' = [ckptAt EXCEPT ![s] = Len(log[s]) + k]
                  /\ UNCHANGED marker
      PROVE  /\ log' \in [Server -> Seq(Request)]
             /\ marker' \in [Server -> [Server -> Nat \cup {None}]]
             /\ ckptAt' \in [Server -> Nat \cup {None}]
             /\ ckpt' \in [Server -> [User -> Values]]
  <2>1. k \in 1 .. Len(es) /\ Len(es) \in Nat /\ k \in Nat
    BY LenProperties
  <2>2. SubSeq(es, 1, k - 1) \in Seq(Request)
    <3>1. \A i \in 1 .. k - 1 : es[i] \in Request
      BY <1>1, <2>1, LenProperties
    <3> QED BY <3>1, <2>1, SubSeqProperties, 1 \in Int, k - 1 \in Int
  <2>3. <<es[k]>> \in Seq(Request)
    BY <1>1
  <2>4. ckpt' \in [Server -> [User -> Values]]
    <3>1. Replay(table[s], SubSeq(es, 1, k - 1)) \in [User -> Values]
      BY <2>2, ReplayType
    <3>2. Replay(Replay(table[s], SubSeq(es, 1, k - 1)), <<es[k]>>) \in [User -> Values]
      BY <3>1, <2>3, ReplayType
    <3> QED BY <1>6, <3>2
  <2>5. After(es, k) \in Seq(Request)
    BY <2>1, AfterType
  <2>6. Len(log[s]) + k \in Nat
    BY <2>1, LenProperties
  <2>7. CASE downList[s] = {}
    <3>1. /\ log' = [log EXCEPT ![s] = After(es, k)]
          /\ marker' = [marker EXCEPT ![s] = NoMarker]
          /\ ckptAt' = [ckptAt EXCEPT ![s] = 0]
      BY <1>6, <2>7
    <3>2. NoMarker \in [Server -> Nat \cup {None}]
      BY DEF NoMarker
    <3> QED BY <2>4, <2>5, <3>1, <3>2
  <2>8. CASE downList[s] # {}
    <3>1. /\ log' = [log EXCEPT ![s] = @ \o es]
          /\ ckptAt' = [ckptAt EXCEPT ![s] = Len(log[s]) + k]
          /\ UNCHANGED marker
      BY <1>6, <2>8
    <3> QED BY <1>4, <2>4, <2>6, <3>1
  <2> QED BY <2>7, <2>8
<1> QED BY <1>3, <1>5, <1>6 DEF PutValues

-----------------------------------------------------------------------------
(* Type correctness.                                                       *)

LEMMA HandlerFacts ==
    ASSUME NEW a \in Handler
    PROVE  /\ a[1] \in Request
           /\ a[2] \in 1 .. MaxDepth
           /\ Row(a) \in User
           /\ <<a[1]>> \in Seq(Request)
           /\ a[2] < MaxDepth => Callee(a) \in Handler
BY RequestAssumption, BoundAssumption DEF Handler, Row, Callee

\* A dying server leaves well-typed memory, files and threads behind.
LEMMA KillType ==
    ASSUME TypeOK, NEW s \in Server, NEW tellOf \in [Handler -> SUBSET Server],
           Kill(s, tellOf)
    PROVE  /\ primaryMap' \in [Server -> [User -> Server \cup {None}]]
           /\ avail' \in [Server -> SUBSET Server]
           /\ downList' \in [Server -> SUBSET Server]
           /\ table' \in [Server -> [User -> Request \cup {None}]]
           /\ pc' \in [Handler -> {"idle"} \cup Busy \cup Ended]
           /\ todo' \in [Handler -> SUBSET Server]
           /\ tell' \in [Handler -> SUBSET Server]
           /\ dead' \in [Handler -> Server \cup {None}]
           /\ crashes' \in [Server -> Nat]
           /\ \A a \in Handler : pc'[a] # "idle" => pc[a] # "idle"
           /\ \A a \in Handler : pc'[a] \in Tells => pc[a] \in Tells /\ dead'[a] = dead[a]
           /\ UNCHANGED <<log, marker, ckptAt, ckpt, at, applied>>
<1>1. NoValues \in [User -> Server \cup {None}] /\ NoValues \in [User -> Request \cup {None}]
  BY DEF NoValues
<1>2. Peers(s) \in SUBSET Server
  BY DEF Peers
<1>3. "aborted" \in Ended /\ "idle" \notin Busy /\ "aborted" \notin Tells
  BY DEF Ended, Busy, Waiting, Loops, Sends, Tells
<1> QED BY <1>1, <1>2, <1>3 DEF TypeOK, Kill, disk, RunsAt

LEMMA InitType ==
    ASSUME NEW n \in Nat \cup {None}, AllUp(n)
    PROVE  TypeOK
<1>1. \A s \in Server : Peers(s) \in SUBSET Server
  BY DEF Peers
<1>2. << >> \in Seq(Request)
  BY EmptySeq
<1> QED BY <1>1, <1>2 DEF AllUp, TypeOK, NoValues, NoMarker, Tells

\* Every step of a PUT handler keeps the types.
LEMMA HandlerType ==
    ASSUME TypeOK, NEW a \in Handler, HandlerStep(a)
    PROVE  TypeOK'
<1> USE DEF TypeOK, memory, disk, threads, history
<1>0. /\ a[1] \in Request /\ Row(a) \in User /\ <<a[1]>> \in Seq(Request)
      /\ a[2] < MaxDepth => Callee(a) \in Handler
  BY HandlerFacts
<1>a. \A s : Peers(s) \in SUBSET Server
  BY DEF Peers
<1>b. /\ {"idle", "arrived", "reporting", "returned", "aborted", "select", "bcast"}
            \subseteq {"idle"} \cup Busy \cup Ended
      /\ {"selectSend", "bcastSend", "selectTell", "bcastTell"}
            \subseteq {"idle"} \cup Busy \cup Ended
  BY DEF Busy, Ended, Waiting, Loops, Sends, Tells
<1>c. pc[a] \in Busy => at[a] \in Server
  BY DEF Busy, Waiting, Loops, Sends, Tells
<1>d. /\ {"arrived", "reporting"} \subseteq Busy
      /\ Loops \subseteq Busy /\ Sends \subseteq Busy /\ Tells \subseteq Busy
      /\ {"select", "bcast"} \subseteq Loops
      /\ {"selectSend", "bcastSend"} \subseteq Sends
      /\ {"idle", "arrived", "reporting", "returned", "select", "bcast",
          "selectSend", "bcastSend"} \cap Tells = {}
  BY DEF Busy, Waiting, Loops, Sends, Tells
<1>1. ASSUME SelectSelf(a), pc[a] \in Busy PROVE TypeOK'
  BY <1>0, <1>a, <1>b, <1>c, <1>d, <1>1 DEF SelectSelf
<1>2. ASSUME Broadcast(a), pc[a] \in Busy PROVE TypeOK'
  BY <1>a, <1>b, <1>c, <1>d, <1>2 DEF Broadcast
<1>3. CASE NoPrimary(a)
  BY <1>d, <1>1, <1>3 DEF NoPrimary
<1>4. CASE IsPrimary(a)
  BY <1>d, <1>2, <1>4 DEF IsPrimary
<1>5. CASE Report(a)
  <2>1. primaryMap[at[a]][Row(a)] \in Server
    BY <1>0, <1>c, <1>d, <1>5 DEF Report
  <2> QED BY <1>0, <1>b, <1>c, <1>d, <1>5, <2>1 DEF Report
<1>6. CASE ReportRefused(a)
  BY <1>d, <1>1, <1>6 DEF ReportRefused
<1>7. CASE ReportFails(a)
  BY <1>d, <1>1, <1>7 DEF ReportFails
<1>8. CASE ReportReturns(a)
  BY <1>b, <1>c, <1>d, <1>8 DEF ReportReturns
<1>9. CASE SelectEnds(a)
  BY <1>d, <1>2, <1>9 DEF SelectEnds
<1>10. CASE TellEnds(a)
  BY <1>b, <1>c, <1>d, <1>10 DEF TellEnds
<1>11. CASE StoreOwn(a)
  <2>1. at[a] \in Server
    BY <1>c, <1>d, <1>11 DEF StoreOwn
  <2>2. PutValues(at[a], <<a[1]>>)
    BY <1>11 DEF StoreOwn
  <2> HIDE DEF TypeOK
  <2>3. /\ table' \in [Server -> [User -> Values]]
        /\ log' \in [Server -> Seq(Request)]
        /\ marker' \in [Server -> [Server -> Nat \cup {None}]]
        /\ ckptAt' \in [Server -> Nat \cup {None}]
        /\ ckpt' \in [Server -> [User -> Values]]
        /\ applied' \in [Server -> SUBSET Request]
    BY <1>0, <2>1, <2>2, PutValuesType
  <2> QED BY <1>b, <1>d, <1>11, <2>1, <2>3 DEF StoreOwn, Values, TypeOK
<1>12. ASSUME NEW q \in Server, SkipDown(a, q) PROVE TypeOK'
  BY <1>12 DEF SkipDown
<1>13. ASSUME NEW q \in Server, HeartbeatAnswers(a, q) PROVE TypeOK'
  BY <1>b, <1>c, <1>d, <1>13 DEF HeartbeatAnswers
<1>14. ASSUME NEW s \in Server, NEW q \in Server, RecordDown(s, q)
       PROVE  /\ downList' \in [Server -> SUBSET Server]
              /\ avail' \in [Server -> SUBSET Server]
              /\ marker' \in [Server -> [Server -> Nat \cup {None}]]
              /\ UNCHANGED <<log, ckptAt, ckpt>>
  <2>1. Len(log[s]) \in Nat
    BY LenProperties
  <2> QED BY <1>14, <2>1 DEF RecordDown
<1>15. ASSUME NEW q \in Server, HeartbeatFails(a, q) PROVE TypeOK'
  <2>1. at[a] \in Server
    BY <1>c, <1>d, <1>15 DEF HeartbeatFails
  <2>2. RecordDown(at[a], q)
    BY <1>15 DEF HeartbeatFails
  <2>3. /\ downList' \in [Server -> SUBSET Server]
        /\ avail' \in [Server -> SUBSET Server]
        /\ marker' \in [Server -> [Server -> Nat \cup {None}]]
        /\ UNCHANGED <<log, ckptAt, ckpt>>
    BY <1>14, <2>1, <2>2
  <2> QED BY <1>a, <1>b, <1>15, <2>1, <2>3 DEF HeartbeatFails
<1>16. ASSUME NEW q \in Server, SendPrimary(a, q) PROVE TypeOK'
  BY <1>0, <1>b, <1>c, <1>d, <1>16 DEF SendPrimary, LoopOn
<1>17. ASSUME NEW q \in Server, SendValue(a, q) PROVE TypeOK'
  <2>1. at[a] \in Server
    BY <1>c, <1>d, <1>17 DEF SendValue
  <2>2. PutValues(q, <<a[1]>>)
    BY <1>17 DEF SendValue
  <2> HIDE DEF TypeOK
  <2>3. /\ table' \in [Server -> [User -> Values]]
        /\ log' \in [Server -> Seq(Request)]
        /\ marker' \in [Server -> [Server -> Nat \cup {None}]]
        /\ ckptAt' \in [Server -> Nat \cup {None}]
        /\ ckpt' \in [Server -> [User -> Values]]
        /\ applied' \in [Server -> SUBSET Request]
    BY <1>0, <2>2, PutValuesType
  <2> QED BY <1>b, <1>d, <1>17, <2>1, <2>3 DEF SendValue, LoopOn, Values, TypeOK
<1>18. ASSUME NEW q \in Server, SendLost(a, q) PROVE TypeOK'
  BY <1>b, <1>c, <1>d, <1>18 DEF SendLost, LoopOn
<1>19. ASSUME NEW q \in Server, TellSkips(a, q) PROVE TypeOK'
  BY <1>19 DEF TellSkips
<1>20. ASSUME NEW q \in Server, TellDown(a, q) PROVE TypeOK'
  <2>1. dead[a] \in Server
    BY <1>20 DEF TellDown
  <2>2. RecordDown(q, dead[a])
    BY <1>20 DEF TellDown
  <2>3. /\ downList' \in [Server -> SUBSET Server]
        /\ avail' \in [Server -> SUBSET Server]
        /\ marker' \in [Server -> [Server -> Nat \cup {None}]]
        /\ UNCHANGED <<log, ckptAt, ckpt>>
    BY <1>14, <2>1, <2>2
  <2> QED BY <1>20, <2>3 DEF TellDown
<1>21. ASSUME NEW q \in Server, TellItself(a, q) PROVE TypeOK'
  <2>1. [tell EXCEPT ![a] = @ \ {q}] \in [Handler -> SUBSET Server]
    OBVIOUS
  <2>2. Kill(q, [tell EXCEPT ![a] = @ \ {q}])
    BY <1>21 DEF TellItself
  <2> QED BY <1>21, <2>1, <2>2, KillType DEF TellItself
<1> QED BY <1>3, <1>4, <1>5, <1>6, <1>7, <1>8, <1>9, <1>10, <1>11, <1>12, <1>13,
           <1>15, <1>16, <1>17, <1>18, <1>19, <1>20, <1>21 DEF HandlerStep

\* Every other step keeps the types: a client, a crash, a restart.
LEMMA OtherType ==
    ASSUME TypeOK
    PROVE  /\ \A r \in Request, s \in Server : PutArrives(r, s) => TypeOK'
           /\ \A s \in Server : BootStep(s) => TypeOK'
           /\ \A s \in Server : Crash(s) => TypeOK'
           /\ \A s, q \in Server : SourceDies(s, q) => TypeOK'
<1> USE DEF memory, disk, threads, history
<1>a. \A s : Peers(s) \in SUBSET Server
  BY DEF Peers
<1>1. ASSUME NEW r \in Request, NEW s \in Server, PutArrives(r, s) PROVE TypeOK'
  <2>1. <<r, 1>> \in Handler
    BY BoundAssumption DEF Handler
  <2>2. "arrived" \in {"idle"} \cup Busy \cup Ended /\ "arrived" \notin Tells
    BY DEF Busy, Waiting, Tells
  <2> QED BY <1>1, <2>1, <2>2 DEF PutArrives, TypeOK
<1>2. ASSUME NEW s \in Server, Restart(s) PROVE TypeOK'
  <2>1. PICK n \in IF ckptAt[s] = None THEN 0 .. Len(log[s]) ELSE {ckptAt[s]} :
            table' = [table EXCEPT ![s] = Replay(ckpt[s], After(log[s], n))]
    BY <1>2 DEF Restart
  <2>2. n \in Nat /\ log[s] \in Seq(Request) /\ ckpt[s] \in [User -> Values]
    BY LenProperties DEF TypeOK, Values
  <2>3. Replay(ckpt[s], After(log[s], n)) \in [User -> Values]
    BY <2>2, AfterType, ReplayType
  <2> QED BY <1>2, <2>1, <2>3 DEF Restart, TypeOK, Values
<1>3. ASSUME NEW s \in Server, FetchNothing(s) PROVE TypeOK'
  BY <1>a, <1>3 DEF FetchNothing, Fetched, TypeOK
<1>4. ASSUME NEW s \in Server, Listen(s) PROVE TypeOK'
  BY <1>4 DEF Listen, TypeOK
<1>5. ASSUME NEW s \in Server, NEW q \in Server, FetchMissing(s, q) PROVE TypeOK'
  <2>1. PICK n \in IF marker[q][s] = None THEN 0 .. Len(log[q]) ELSE {marker[q][s]} :
            PutValues(s, After(log[q], n))
    BY <1>5 DEF FetchMissing
  <2>2. n \in Nat /\ log[q] \in Seq(Request)
    BY LenProperties DEF TypeOK
  <2>3. After(log[q], n) \in Seq(Request)
    BY <2>2, AfterType
  <2>4. /\ table' \in [Server -> [User -> Values]]
        /\ log' \in [Server -> Seq(Request)]
        /\ marker' \in [Server -> [Server -> Nat \cup {None}]]
        /\ ckptAt' \in [Server -> Nat \cup {None}]
        /\ ckpt' \in [Server -> [User -> Values]]
        /\ applied' \in [Server -> SUBSET Request]
    BY <2>1, <2>3, PutValuesType
  <2> QED BY <1>a, <1>5, <2>4 DEF FetchMissing, Fetched, TypeOK, Values
<1>6. ASSUME NEW s \in Server, NEW q \in Server, Announce(s, q) PROVE TypeOK'
  <2>1. downList' \in [Server -> SUBSET Server] /\ avail' \in [Server -> SUBSET Server]
    <3>1. CASE Serves(q)
      <4>1. /\ downList' = [downList EXCEPT ![q] = @ \ {s}]
            /\ avail' = [avail EXCEPT ![q] = @ \cup {s}]
        BY <1>6, <3>1 DEF Announce
      <4> QED BY <4>1 DEF TypeOK
    <3>2. CASE ~Serves(q)
      BY <1>6, <3>2 DEF Announce, TypeOK
    <3> QED BY <3>1, <3>2
  <2> QED BY <1>6, <2>1 DEF Announce, TypeOK
<1>7. tell \in [Handler -> SUBSET Server]
  BY DEF TypeOK
<1>8. ASSUME NEW s \in Server, Crash(s) PROVE TypeOK'
  <2>1. Kill(s, tell)
    BY <1>8 DEF Crash
  <2> QED BY <1>7, <1>8, <2>1, KillType DEF Crash, TypeOK
<1>9. ASSUME NEW s \in Server, NEW q \in Server, SourceDies(s, q) PROVE TypeOK'
  <2>1. Kill(q, tell)
    BY <1>9 DEF SourceDies
  <2> QED BY <1>a, <1>7, <1>9, <2>1, KillType DEF SourceDies, TypeOK
<1> QED BY <1>1, <1>2, <1>3, <1>4, <1>5, <1>6, <1>8, <1>9 DEF BootStep

LEMMA NextType == TypeOK /\ [Next]_vars => TypeOK'
<1> SUFFICES ASSUME TypeOK, [Next]_vars PROVE TypeOK'
  OBVIOUS
<1>1. CASE Next
  BY <1>1, HandlerType, OtherType DEF Next
<1>2. CASE UNCHANGED vars
  BY <1>2 DEF TypeOK, vars, memory, disk, threads, history
<1> QED BY <1>1, <1>2

\* Every variable always has its type; a PUT thread that has started runs on a
\* server, and one that reports a dead replica knows which.
THEOREM TypeCorrect == Spec => []TypeOK
<1>1. Init => TypeOK
  BY InitType DEF Init
<1> QED BY <1>1, NextType, PTL DEF Spec

-----------------------------------------------------------------------------
(* A PUT that returned is held by every server that never failed.          *)
(*                                                                         *)
(* The invariant has two parts.  Whatever a server believes to be down has *)
(* failed at least once: heartbeats do not lie, and down reports repeat    *)
(* what a heartbeat said.  And a broadcast has brought its value to every  *)
(* replica behind it in its loop, or that replica has failed.              *)

Failed(q) == crashes[q] > 0
Holds(q, r) == Failed(q) \/ r \in applied[q]

NotServingFailed == \A s \in Server : ~Serves(s) => Failed(s)
PassedOverFailed == \A s \in Server : \A q \in Peers(s) \ avail[s] : Failed(q)
ReportedFailed   == \A a \in Handler : pc[a] \in Tells => Failed(dead[a])

InBroadcast(a) == pc[a] \in {"bcast", "bcastSend", "bcastTell"}
BroadcastSoFar ==
    \A a \in Handler : InBroadcast(a) =>
        \A q \in Peers(at[a]) \ todo[a] : Holds(q, a[1])
ReturnedHeld ==
    \A a \in Handler : pc[a] = "returned" => \A q \in Server : Holds(q, a[1])
ReporterHasCallee ==
    \A a \in Handler : pc[a] = "reporting" => a[2] < MaxDepth

BeliefInv == NotServingFailed /\ PassedOverFailed /\ ReportedFailed
ValueInv  == BroadcastSoFar /\ ReturnedHeld /\ ReporterHasCallee
IInv      == TypeOK /\ BeliefInv /\ ValueInv

LEMMA InitInv ==
    ASSUME NEW n, AllUp(n)
    PROVE  BeliefInv /\ ValueInv
BY DEF AllUp, BeliefInv, ValueInv, NotServingFailed, PassedOverFailed,
       ReportedFailed, BroadcastSoFar, ReturnedHeld, ReporterHasCallee, Serves,
       InBroadcast, Tells

\* After a server has died only it has failed once more, and what the others
\* believe, run and hold is what it was.
LEMMA KillFacts ==
    ASSUME TypeOK, NEW s \in Server, NEW tellOf \in [Handler -> SUBSET Server],
           Kill(s, tellOf)
    PROVE  /\ crashes'[s] > 0
           /\ \A q \in Server : crashes[q] > 0 => crashes'[q] > 0
           /\ \A q \in Server : q # s => avail'[q] = avail[q]
           /\ avail'[s] = Peers(s)
           /\ \A a \in Handler : pc'[a] # "aborted" =>
                 /\ pc'[a] = pc[a] /\ todo'[a] = todo[a] /\ dead'[a] = dead[a]
           /\ at' = at /\ applied' = applied
BY DEF Kill, TypeOK, RunsAt, Busy

\* A death disturbs neither part of the invariant, however the server dies.
LEMMA KillInv ==
    ASSUME IInv, NEW s \in Server, NEW tellOf \in [Handler -> SUBSET Server],
           Kill(s, tellOf),
           \A q \in Server : ~Serves(q)' => q = s \/ ~Serves(q)
    PROVE  BeliefInv' /\ ValueInv'
<1>0. TypeOK /\ BeliefInv /\ ValueInv
  BY DEF IInv
<1>1. /\ crashes'[s] > 0
      /\ \A q \in Server : crashes[q] > 0 => crashes'[q] > 0
      /\ \A q \in Server : q # s => avail'[q] = avail[q]
      /\ avail'[s] = Peers(s)
      /\ \A a \in Handler : pc'[a] # "aborted" =>
            /\ pc'[a] = pc[a] /\ todo'[a] = todo[a] /\ dead'[a] = dead[a]
      /\ at' = at /\ applied' = applied
  BY <1>0, KillFacts
<1>2. NotServingFailed'
  BY <1>0, <1>1 DEF BeliefInv, NotServingFailed, Failed, Serves
<1>3. PassedOverFailed'
  BY <1>0, <1>1 DEF BeliefInv, PassedOverFailed, Failed, Peers
<1>4. ReportedFailed'
  <2> SUFFICES ASSUME NEW a \in Handler, pc'[a] \in Tells PROVE crashes'[dead'[a]] > 0
    BY DEF ReportedFailed, Failed
  <2>1. pc'[a] # "aborted"
    BY DEF Tells
  <2>2. pc[a] \in Tells /\ dead'[a] = dead[a]
    BY <1>1, <2>1
  <2>3. dead[a] \in Server /\ crashes[dead[a]] > 0
    BY <1>0, <2>2 DEF TypeOK, BeliefInv, ReportedFailed, Failed
  <2> QED BY <1>1, <2>2, <2>3
<1>5. BroadcastSoFar' /\ ReturnedHeld' /\ ReporterHasCallee'
  BY <1>0, <1>1 DEF ValueInv, BroadcastSoFar, ReturnedHeld, ReporterHasCallee,
     InBroadcast, Holds, Failed, Peers
<1> QED BY <1>2, <1>3, <1>4, <1>5 DEF BeliefInv, ValueInv

\* Beliefs: the steps of a PUT handler that kill no server.
LEMMA HandlerBelief ==
    ASSUME IInv, NEW a \in Handler, HandlerStep(a),
           \A q \in Server : ~TellItself(a, q)
    PROVE  BeliefInv'
<1> USE DEF memory, disk, threads, history
<1>0. /\ TypeOK
      /\ NotServingFailed /\ PassedOverFailed /\ ReportedFailed
  BY DEF IInv, BeliefInv
<1>a. {"arrived", "reporting", "returned", "select", "bcast", "selectSend",
       "bcastSend"} \cap Tells = {}
  BY DEF Tells
\* No step but Kill changes who serves and who has failed.
<1>b. UNCHANGED <<mode, crashes>>
  BY <1>0 DEF HandlerStep, NoPrimary, IsPrimary, Report, ReportRefused,
     ReportFails, ReportReturns, SelectEnds, TellEnds, StoreOwn, SkipDown,
     HeartbeatAnswers, HeartbeatFails, SendPrimary, SendValue, SendLost,
     TellSkips, TellDown, SelectSelf, Broadcast, LoopOn
<1>c. NotServingFailed'
  BY <1>0, <1>b DEF NotServingFailed, Failed, Serves
<1>d. SUFFICES PassedOverFailed' /\ ReportedFailed'
  BY <1>c DEF BeliefInv
<1>1. ASSUME UNCHANGED <<avail, dead>>,
             \A b \in Handler : pc'[b] \in Tells => pc[b] \in Tells
      PROVE  PassedOverFailed' /\ ReportedFailed'
  BY <1>0, <1>1, <1>b DEF PassedOverFailed, ReportedFailed, Failed
<1>2. ASSUME NEW s \in Server, NEW q \in Server, Failed(q), RecordDown(s, q)
      PROVE  PassedOverFailed'
  BY <1>0, <1>2, <1>b DEF PassedOverFailed, Failed, RecordDown, TypeOK
<1>3. CASE NoPrimary(a) \/ IsPrimary(a) \/ Report(a) \/ ReportRefused(a)
           \/ ReportFails(a) \/ ReportReturns(a) \/ SelectEnds(a) \/ StoreOwn(a)
  BY <1>0, <1>1, <1>3, <1>a DEF NoPrimary, IsPrimary, Report, ReportRefused,
     ReportFails, ReportReturns, SelectEnds, StoreOwn, SelectSelf, Broadcast, TypeOK
<1>4. CASE TellEnds(a)
  BY <1>0, <1>4, <1>a, <1>b DEF TellEnds, PassedOverFailed, ReportedFailed, Failed,
     TypeOK
<1>5. ASSUME NEW q \in Server,
             \/ SkipDown(a, q) \/ HeartbeatAnswers(a, q) \/ SendPrimary(a, q)
             \/ SendValue(a, q) \/ SendLost(a, q) \/ TellSkips(a, q)
      PROVE  PassedOverFailed' /\ ReportedFailed'
  BY <1>0, <1>1, <1>5, <1>a DEF SkipDown, HeartbeatAnswers, SendPrimary,
     SendValue, SendLost, TellSkips, LoopOn, TypeOK
<1>6. ASSUME NEW q \in Server, HeartbeatFails(a, q)
      PROVE  PassedOverFailed' /\ ReportedFailed'
  <2>1. at[a] \in Server /\ Failed(q)
    BY <1>0, <1>6 DEF HeartbeatFails, TypeOK, Loops, NotServingFailed
  <2>2. PassedOverFailed'
    BY <1>2, <1>6, <2>1 DEF HeartbeatFails
  <2>3. ReportedFailed'
    BY <1>0, <1>6, <1>b, <2>1 DEF HeartbeatFails, ReportedFailed, Failed, TypeOK
  <2> QED BY <2>2, <2>3
<1>7. ASSUME NEW q \in Server, TellDown(a, q)
      PROVE  PassedOverFailed' /\ ReportedFailed'
  <2>1. dead[a] \in Server /\ Failed(dead[a])
    BY <1>0, <1>7 DEF TellDown, TypeOK, ReportedFailed
  <2>2. PassedOverFailed'
    BY <1>2, <1>7, <2>1 DEF TellDown
  <2>3. ReportedFailed'
    BY <1>0, <1>7, <1>b DEF TellDown, ReportedFailed, Failed
  <2> QED BY <2>2, <2>3
<1> QED BY <1>3, <1>4, <1>5, <1>6, <1>7 DEF HandlerStep

\* Values: the steps of a PUT handler that kill no server.
LEMMA HandlerValue ==
    ASSUME IInv, NEW a \in Handler, HandlerStep(a),
           \A q \in Server : ~TellItself(a, q)
    PROVE  ValueInv'
<1> USE DEF memory, disk, threads, history
<1>0. /\ TypeOK /\ NotServingFailed /\ PassedOverFailed
      /\ BroadcastSoFar /\ ReturnedHeld /\ ReporterHasCallee
  BY DEF IInv, BeliefInv, ValueInv
<1>a. \A b \in Handler : b[1] \in Request
  BY HandlerFacts
\* A step that adds no failure and takes no value away, leaves the places of
\* the other handlers alone, or starts one, keeps ValueInv once it does so for
\* handler a itself.
<1>1. ASSUME UNCHANGED crashes,
             \A q \in Server : applied[q] \subseteq applied'[q],
             \A b \in Handler : b # a =>
                \/ pc'[b] = "arrived"
                \/ pc'[b] = pc[b] /\ at'[b] = at[b] /\ todo'[b] = todo[b],
             InBroadcast(a)' => \A q \in Peers(at'[a]) \ todo'[a] : Holds(q, a[1])',
             pc'[a] = "returned" => \A q \in Server : Holds(q, a[1])',
             pc'[a] = "reporting" => a[2] < MaxDepth
      PROVE  ValueInv'
  <2>1. \A q \in Server, r \in Request : Holds(q, r) => Holds(q, r)'
    BY <1>1 DEF Holds, Failed
  <2>2. BroadcastSoFar'
    <3> SUFFICES ASSUME NEW b \in Handler, InBroadcast(b)',
                        NEW q \in Peers(at'[b]) \ todo'[b]
                 PROVE  Holds(q, b[1])'
      BY DEF BroadcastSoFar
    <3>1. CASE b = a
      BY <1>1, <3>1
    <3>2. CASE b # a
      <4>1. pc'[b] = pc[b] /\ at'[b] = at[b] /\ todo'[b] = todo[b]
        BY <1>1, <3>2 DEF InBroadcast
      <4>2. q \in Server /\ Holds(q, b[1])
        BY <1>0, <4>1 DEF BroadcastSoFar, InBroadcast, Peers
      <4> QED BY <1>a, <2>1, <4>2
    <3> QED BY <3>1, <3>2
  <2>3. ReturnedHeld'
    <3> SUFFICES ASSUME NEW b \in Handler, pc'[b] = "returned", NEW q \in Server
                 PROVE  Holds(q, b[1])'
      BY DEF ReturnedHeld
    <3>1. CASE b = a
      BY <1>1, <3>1
    <3>2. CASE b # a
      BY <1>0, <1>1, <1>a, <2>1, <3>2 DEF ReturnedHeld
    <3> QED BY <3>1, <3>2
  <2>4. ReporterHasCallee'
    BY <1>0, <1>1 DEF ReporterHasCallee
  <2> QED BY <2>2, <2>3, <2>4 DEF ValueInv
<1>2. CASE NoPrimary(a) \/ ReportRefused(a) \/ ReportFails(a)
  <2>1. /\ UNCHANGED <<crashes, applied, at>>
        /\ pc' = [pc EXCEPT ![a] = "select"]
        /\ todo' = [todo EXCEPT ![a] = Peers(at[a])]
    BY <1>2 DEF NoPrimary, ReportRefused, ReportFails, SelectSelf
  <2> QED BY <1>0, <1>1, <2>1 DEF TypeOK, InBroadcast
<1>3. CASE IsPrimary(a) \/ SelectEnds(a)
  <2>1. /\ UNCHANGED <<crashes, applied, at>>
        /\ pc' = [pc EXCEPT ![a] = "bcast"]
        /\ todo' = [todo EXCEPT ![a] = Peers(at[a])]
    BY <1>3 DEF IsPrimary, SelectEnds, Broadcast
  <2> QED BY <1>0, <1>1, <2>1 DEF TypeOK, InBroadcast
<1>4. CASE Report(a)
  <2>1. /\ UNCHANGED <<crashes, applied, todo>>
        /\ a[2] < MaxDepth
        /\ pc' = [pc EXCEPT ![a] = "reporting", ![Callee(a)] = "arrived"]
        /\ \A b \in Handler : b # Callee(a) => at'[b] = at[b]
    BY <1>0, <1>4 DEF Report, TypeOK
  <2>2. Callee(a) \in Handler /\ Callee(a) # a
    BY <2>1, HandlerFacts DEF Callee
  <2> QED BY <1>0, <1>1, <2>1, <2>2 DEF TypeOK, InBroadcast
<1>5. CASE ReportReturns(a)
  <2>1. /\ UNCHANGED <<crashes, applied, at, todo>>
        /\ pc' = [pc EXCEPT ![a] = "returned"]
        /\ pc[a] = "reporting" /\ pc[Callee(a)] = "returned"
    BY <1>5 DEF ReportReturns
  <2>2. Callee(a) \in Handler /\ Callee(a)[1] = a[1]
    BY <1>0, <2>1, HandlerFacts DEF Callee, ReporterHasCallee
  <2>3. \A q \in Server : Holds(q, a[1])
    BY <1>0, <2>1, <2>2 DEF ReturnedHeld
  <2>4. \A q \in Server : Holds(q, a[1])'
    BY <2>1, <2>3 DEF Holds, Failed
  <2> QED BY <1>0, <1>1, <2>1, <2>4 DEF TypeOK, InBroadcast
<1>6. CASE TellEnds(a)
  <2>1. /\ UNCHANGED <<crashes, applied, at, todo>>
        /\ pc' = [pc EXCEPT ![a] = IF @ = "selectTell" THEN "select" ELSE "bcast"]
        /\ pc[a] \in Tells
    BY <1>6 DEF TellEnds
  <2>2. pc'[a] = "bcast" => InBroadcast(a)
    BY <1>0, <2>1 DEF TypeOK, Tells, InBroadcast
  <2>3. InBroadcast(a)' => \A q \in Peers(at'[a]) \ todo'[a] : Holds(q, a[1])'
    BY <1>0, <2>1, <2>2 DEF TypeOK, InBroadcast, BroadcastSoFar, Holds, Failed
  <2> QED BY <1>0, <1>1, <2>1, <2>3 DEF TypeOK
<1>7. CASE StoreOwn(a)
  <2>1. /\ UNCHANGED <<crashes, at, todo>>
        /\ pc' = [pc EXCEPT ![a] = "returned"]
        /\ pc[a] = "bcast" /\ todo[a] = {}
        /\ PutValues(at[a], <<a[1]>>)
    BY <1>7 DEF StoreOwn
  <2>2. at[a] \in Server /\ <<a[1]>> \in Seq(Request)
    BY <1>0, <2>1, HandlerFacts DEF TypeOK
  <2>3. /\ \A q \in Server : applied[q] \subseteq applied'[q]
        /\ a[1] \in applied'[at[a]]
    BY <1>0, <2>1, <2>2, PutValuesType, 1 \in DOMAIN <<a[1]>>, <<a[1]>>[1] = a[1]
  <2>4. \A q \in Peers(at[a]) : Holds(q, a[1])
    BY <1>0, <2>1 DEF BroadcastSoFar, InBroadcast
  <2>5. \A q \in Server : Holds(q, a[1])'
    BY <2>1, <2>3, <2>4 DEF Holds, Failed, Peers
  <2> QED BY <1>0, <1>1, <2>1, <2>3, <2>5 DEF TypeOK, InBroadcast
<1>8. ASSUME NEW q \in Server, SkipDown(a, q) PROVE ValueInv'
  <2>1. /\ UNCHANGED <<crashes, applied, at, pc>>
        /\ pc[a] \in Loops /\ q \notin avail[at[a]]
        /\ todo' = [todo EXCEPT ![a] = @ \ {q}]
    BY <1>8 DEF SkipDown
  <2>2. at[a] \in Server
    BY <1>0, <2>1 DEF TypeOK, Loops
  <2>3. q \in Peers(at[a]) => Failed(q)
    BY <1>0, <2>1, <2>2 DEF PassedOverFailed
  <2>4. InBroadcast(a)' => \A p \in Peers(at'[a]) \ todo'[a] : Holds(p, a[1])'
    BY <1>0, <2>1, <2>2, <2>3 DEF TypeOK, InBroadcast, BroadcastSoFar, Holds, Failed
  <2> QED BY <1>0, <1>1, <2>1, <2>4 DEF TypeOK, Loops
<1>9. ASSUME NEW q \in Server, HeartbeatAnswers(a, q) PROVE ValueInv'
  <2>1. /\ UNCHANGED <<crashes, applied, at, todo>>
        /\ pc[a] \in Loops
        /\ pc' = [pc EXCEPT ![a] = IF @ = "select" THEN "selectSend" ELSE "bcastSend"]
    BY <1>9 DEF HeartbeatAnswers
  <2>2. InBroadcast(a)' => \A p \in Peers(at'[a]) \ todo'[a] : Holds(p, a[1])'
    BY <1>0, <2>1 DEF TypeOK, InBroadcast, BroadcastSoFar, Holds, Failed, Loops
  <2> QED BY <1>0, <1>1, <2>1, <2>2 DEF TypeOK
<1>10. ASSUME NEW q \in Server, HeartbeatFails(a, q) PROVE ValueInv'
  <2>1. /\ UNCHANGED <<crashes, applied, at>>
        /\ pc[a] \in Loops
        /\ pc' = [pc EXCEPT ![a] = IF @ = "select" THEN "selectTell" ELSE "bcastTell"]
        /\ todo' = [todo EXCEPT ![a] = @ \ {q}]
        /\ Failed(q)
    BY <1>0, <1>10 DEF HeartbeatFails, NotServingFailed
  <2>2. InBroadcast(a)' => \A p \in Peers(at'[a]) \ todo'[a] : Holds(p, a[1])'
    BY <1>0, <2>1 DEF TypeOK, InBroadcast, BroadcastSoFar, Holds, Failed, Loops
  <2> QED BY <1>0, <1>1, <2>1, <2>2 DEF TypeOK
<1>11. ASSUME NEW q \in Server, SendPrimary(a, q) PROVE ValueInv'
  <2>1. /\ UNCHANGED <<crashes, applied, at>>
        /\ pc' = [pc EXCEPT ![a] = "select"]
        /\ todo' = [todo EXCEPT ![a] = @ \ {q}]
    BY <1>0, <1>11 DEF SendPrimary, LoopOn, TypeOK
  <2> QED BY <1>0, <1>1, <2>1 DEF TypeOK, InBroadcast
<1>12. ASSUME NEW q \in Server, SendValue(a, q) PROVE ValueInv'
  <2>1. /\ UNCHANGED <<crashes, at>>
        /\ pc[a] = "bcastSend"
        /\ pc' = [pc EXCEPT ![a] = "bcast"]
        /\ todo' = [todo EXCEPT ![a] = @ \ {q}]
        /\ PutValues(q, <<a[1]>>)
    BY <1>0, <1>12 DEF SendValue, LoopOn, TypeOK
  <2>2. /\ \A p \in Server : applied[p] \subseteq applied'[p]
        /\ a[1] \in applied'[q]
    BY <1>0, <2>1, HandlerFacts, PutValuesType, 1 \in DOMAIN <<a[1]>>, <<a[1]>>[1] = a[1]
  <2>3. InBroadcast(a)' => \A p \in Peers(at'[a]) \ todo'[a] : Holds(p, a[1])'
    <3> SUFFICES ASSUME NEW p \in Peers(at'[a]) \ todo'[a] PROVE Holds(p, a[1])'
      OBVIOUS
    <3>1. p \in Server /\ p \in Peers(at[a]) /\ (p = q \/ p \notin todo[a])
      BY <1>0, <2>1 DEF Peers, TypeOK
    <3>2. CASE p = q
      BY <2>2, <3>2 DEF Holds
    <3>3. CASE p \notin todo[a]
      BY <1>0, <2>1, <2>2, <3>1, <3>3 DEF BroadcastSoFar, InBroadcast, Holds, Failed
    <3> QED BY <3>1, <3>2, <3>3
  <2> QED BY <1>0, <1>1, <2>1, <2>2, <2>3 DEF TypeOK
<1>13. ASSUME NEW q \in Server, SendLost(a, q) PROVE ValueInv'
  <2>1. /\ UNCHANGED <<crashes, applied, at>>
        /\ pc[a] \in Sends
        /\ pc' = [pc EXCEPT ![a] = IF @ = "selectSend" THEN "select" ELSE "bcast"]
        /\ todo' = [todo EXCEPT ![a] = @ \ {q}]
        /\ Fails(q)
    BY <1>13 DEF SendLost, LoopOn
  <2>2. Failed(q)
    BY <1>0, <2>1 DEF Fails, NotServingFailed, Failed
  <2>3. InBroadcast(a)' => \A p \in Peers(at'[a]) \ todo'[a] : Holds(p, a[1])'
    BY <1>0, <2>1, <2>2 DEF TypeOK, InBroadcast, BroadcastSoFar, Holds, Failed, Sends
  <2> QED BY <1>0, <1>1, <2>1, <2>3 DEF TypeOK
<1>14. ASSUME NEW q \in Server, TellSkips(a, q) \/ TellDown(a, q) PROVE ValueInv'
  <2>1. UNCHANGED <<crashes, applied, at, todo, pc>>
    BY <1>14 DEF TellSkips, TellDown
  <2> QED BY <1>0, <2>1 DEF ValueInv, BroadcastSoFar, ReturnedHeld,
         ReporterHasCallee, InBroadcast, Holds, Failed
<1> QED BY <1>2, <1>3, <1>4, <1>5, <1>6, <1>7, <1>8, <1>9, <1>10, <1>11, <1>12,
           <1>13, <1>14 DEF HandlerStep

\* The steps of clients and of restarting servers.
LEMMA OtherInv ==
    ASSUME IInv,
           \/ \E r \in Request, s \in Server : PutArrives(r, s)
           \/ \E s \in Server : BootStep(s)
    PROVE  BeliefInv' /\ ValueInv'
<1> USE DEF memory, disk, threads, history
<1>0. TypeOK /\ BeliefInv /\ ValueInv
  BY DEF IInv
<1>1. CASE \E r \in Request, s \in Server : PutArrives(r, s)
  <2>1. PICK r \in Request, s \in Server : PutArrives(r, s)
    BY <1>1
  <2>2. /\ UNCHANGED <<mode, avail, dead, crashes, applied, todo>>
        /\ pc' = [pc EXCEPT ![<<r, 1>>] = "arrived"]
        /\ at' = [at EXCEPT ![<<r, 1>>] = s]
    BY <2>1 DEF PutArrives
  <2>3. BeliefInv'
    BY <1>0, <2>2 DEF BeliefInv, NotServingFailed, PassedOverFailed,
       ReportedFailed, Failed, Serves, Tells, TypeOK
  <2>4. ValueInv'
    BY <1>0, <2>2 DEF ValueInv, BroadcastSoFar, ReturnedHeld, ReporterHasCallee,
       InBroadcast, Holds, Failed, TypeOK
  <2> QED BY <2>3, <2>4
<1>2. ASSUME NEW s \in Server, BootStep(s) PROVE BeliefInv' /\ ValueInv'
  <2>1. /\ UNCHANGED <<pc, at, todo, dead, crashes>>
        /\ \A q \in Server : ~Serves(q)' => ~Serves(q)
        /\ \A q \in Server : avail[q] \subseteq avail'[q]
    <3>1. CASE Restart(s) \/ FetchNothing(s) \/ Listen(s)
      BY <1>0, <3>1 DEF Restart, FetchNothing, Fetched, Listen, Serves, TypeOK
    <3>2. ASSUME NEW q \in Server, FetchMissing(s, q)
          PROVE  /\ UNCHANGED <<pc, at, todo, dead, crashes, avail>>
                 /\ \A p \in Server : ~Serves(p)' => ~Serves(p)
      BY <1>0, <3>2 DEF FetchMissing, Fetched, Serves, TypeOK
    <3>3. ASSUME NEW q \in Server, Announce(s, q)
          PROVE  /\ UNCHANGED <<pc, at, todo, dead, crashes, mode>>
                 /\ \A p \in Server : avail[p] \subseteq avail'[p]
      <4>1. CASE Serves(q)
        <5>1. /\ avail' = [avail EXCEPT ![q] = @ \cup {s}]
              /\ UNCHANGED <<pc, at, todo, dead, crashes, mode>>
          BY <3>3, <4>1 DEF Announce
        <5> QED BY <1>0, <5>1 DEF TypeOK
      <4>2. CASE ~Serves(q)
        BY <1>0, <3>3, <4>2 DEF Announce, TypeOK
      <4> QED BY <4>1, <4>2
    <3> QED BY <1>2, <3>1, <3>2, <3>3 DEF BootStep, Serves
  <2>2. \A q \in Server : applied[q] \subseteq applied'[q]
    <3>1. CASE UNCHANGED applied
      BY <3>1
    <3>2. ASSUME NEW q \in Server, FetchMissing(s, q)
          PROVE  \A p \in Server : applied[p] \subseteq applied'[p]
      <4>1. PICK n \in IF marker[q][s] = None THEN 0 .. Len(log[q]) ELSE {marker[q][s]} :
                PutValues(s, After(log[q], n))
        BY <3>2 DEF FetchMissing
      <4>2. n \in Nat /\ log[q] \in Seq(Request)
        BY <1>0, LenProperties DEF TypeOK
      <4>3. After(log[q], n) \in Seq(Request)
        BY <4>2, AfterType
      <4> QED BY <1>0, <4>1, <4>3, PutValuesType
    <3> QED BY <1>2, <3>1, <3>2 DEF BootStep, Restart, FetchNothing, Listen, Announce
  <2>3. BeliefInv'
    BY <1>0, <2>1 DEF BeliefInv, NotServingFailed, PassedOverFailed,
       ReportedFailed, Failed, Serves
  <2>4. \A q \in Server : \A r : Holds(q, r) => Holds(q, r)'
    BY <2>1, <2>2 DEF Holds, Failed
  <2>5. ValueInv'
    BY <1>0, <2>1, <2>4 DEF ValueInv, BroadcastSoFar, ReturnedHeld,
       ReporterHasCallee, InBroadcast, Peers
  <2> QED BY <2>3, <2>5
<1> QED BY <1>1, <1>2

LEMMA NextInv == IInv /\ [Next]_vars => IInv'
<1> SUFFICES ASSUME IInv, [Next]_vars PROVE IInv'
  OBVIOUS
<1>1. TypeOK /\ TypeOK' /\ BeliefInv /\ ValueInv
  BY NextType DEF IInv
<1>2. SUFFICES BeliefInv' /\ ValueInv'
  BY <1>1 DEF IInv
<1>3. tell \in [Handler -> SUBSET Server]
  BY <1>1 DEF TypeOK
<1>4. CASE UNCHANGED vars
  BY <1>1, <1>4 DEF vars, memory, disk, threads, history, BeliefInv, ValueInv,
     NotServingFailed, PassedOverFailed, ReportedFailed, BroadcastSoFar,
     ReturnedHeld, ReporterHasCallee, InBroadcast, Holds, Failed, Serves
<1>5. ASSUME NEW a \in Handler, HandlerStep(a) PROVE BeliefInv' /\ ValueInv'
  <2>1. CASE \A q \in Server : ~TellItself(a, q)
    BY <1>5, <2>1, HandlerBelief, HandlerValue
  <2>2. ASSUME NEW q \in Server, TellItself(a, q) PROVE BeliefInv' /\ ValueInv'
    <3>1. /\ Kill(q, [tell EXCEPT ![a] = @ \ {q}])
          /\ mode' = [mode EXCEPT ![q] = "down"]
      BY <2>2 DEF TellItself
    <3>2. [tell EXCEPT ![a] = @ \ {q}] \in [Handler -> SUBSET Server]
      BY <1>3
    <3>3. \A p \in Server : ~Serves(p)' => p = q \/ ~Serves(p)
      BY <1>1, <3>1 DEF Serves, TypeOK
    <3> QED BY <3>1, <3>2, <3>3, KillInv
  <2> QED BY <2>1, <2>2
<1>6. ASSUME NEW s \in Server, Crash(s) PROVE BeliefInv' /\ ValueInv'
  <2>1. Kill(s, tell) /\ mode' = [mode EXCEPT ![s] = "down"]
    BY <1>6 DEF Crash
  <2>2. \A p \in Server : ~Serves(p)' => p = s \/ ~Serves(p)
    BY <1>1, <2>1 DEF Serves, TypeOK
  <2> QED BY <1>3, <2>1, <2>2, KillInv
<1>7. ASSUME NEW s \in Server, NEW q \in Server, SourceDies(s, q)
      PROVE  BeliefInv' /\ ValueInv'
  <2>1. /\ Kill(q, tell)
        /\ mode[s] = "booting"
        /\ mode' = [mode EXCEPT ![s] = "announcing", ![q] = "down"]
    BY <1>7 DEF SourceDies
  <2>2. \A p \in Server : ~Serves(p)' => p = q \/ ~Serves(p)
    BY <1>1, <2>1 DEF Serves, TypeOK
  <2> QED BY <1>3, <2>1, <2>2, KillInv
<1> QED BY <1>4, <1>5, <1>6, <1>7, OtherInv DEF Next

\* Whatever the interleaving of PUTs, crashes and restarts, in a group of any
\* size: a PUT that returned OK has been stored by every server that never
\* went down.
THEOREM AckedReachesNeverFailed == Spec => []NeverFailedNeverSkipped
<1>1. Init => IInv
  BY InitType, InitInv DEF IInv, Init
<1>2. IInv => NeverFailedNeverSkipped
  <2> SUFFICES ASSUME IInv, NEW r \in Request, NEW s \in Server,
                      Acked(r), crashes[s] = 0
               PROVE  r \in applied[s]
    BY DEF NeverFailedNeverSkipped
  <2>1. <<r, 1>> \in Handler /\ pc[<<r, 1>>] = "returned"
    BY BoundAssumption DEF Handler, Acked
  <2>2. Holds(s, <<r, 1>>[1])
    BY <2>1 DEF IInv, ValueInv, ReturnedHeld
  <2> QED BY <2>2 DEF Holds, Failed
<1> QED BY <1>1, <1>2, NextInv, PTL DEF Spec

-----------------------------------------------------------------------------
(* A replica that is passed over has a marker in the log.                  *)
(*                                                                         *)
(* The invariant is inductive once it also says that a server announces    *)
(* itself to others only.                                                  *)

AnnouncesToPeers == \A s \in Server : announce[s] \subseteq Peers(s)
MarkInv == PassedOverIsMarked /\ AnnouncesToPeers

LEMMA InitMark ==
    ASSUME NEW n, AllUp(n)
    PROVE  MarkInv
BY DEF AllUp, MarkInv, PassedOverIsMarked, AnnouncesToPeers, Peers

\* A checkpoint starts a new log only when no replica is recorded as down.
LEMMA PutValuesMark ==
    ASSUME TypeOK, PassedOverIsMarked, NEW s \in Server, NEW es \in Seq(Request),
           PutValues(s, es), UNCHANGED <<avail, downList>>
    PROVE  PassedOverIsMarked'
<1>1. log[s] \in Seq(Request) /\ Len(log[s]) \in Nat
  BY LenProperties DEF TypeOK
<1>2. Len(log[s] \o es) \in Nat /\ Len(log[s] \o es) >= Len(log[s])
  BY <1>1, ConcatProperties, LenProperties
<1>3. CASE marker' = marker /\ log' = [log EXCEPT ![s] = @ \o es]
  BY <1>1, <1>2, <1>3 DEF TypeOK, PassedOverIsMarked, Peers
<1>4. CASE /\ downList[s] = {}
           /\ \A q \in Server \ {s} : log'[q] = log[q] /\ marker'[q] = marker[q]
  <2> SUFFICES ASSUME NEW p \in Server
               PROVE  /\ avail'[p] = Peers(p) \ downList'[p]
                      /\ \A q \in downList'[p] :
                           marker'[p][q] # None /\ marker'[p][q] <= Len(log'[p])
    BY DEF PassedOverIsMarked, Peers
  <2>1. avail'[p] = Peers(p) \ downList'[p] /\ downList'[p] = downList[p]
    BY DEF PassedOverIsMarked
  <2>2. CASE p = s
    BY <1>4, <2>1, <2>2
  <2>3. CASE p # s
    <3>1. log'[p] = log[p] /\ marker'[p] = marker[p]
      BY <1>4, <2>3
    <3> QED BY <2>1, <3>1 DEF PassedOverIsMarked
  <2> QED BY <2>2, <2>3
<1>5. \/ marker' = marker /\ log' = [log EXCEPT ![s] = @ \o es]
      \/ /\ downList[s] = {}
         /\ \A q \in Server \ {s} : log'[q] = log[q] /\ marker'[q] = marker[q]
  <2>1. CASE /\ log' = [log EXCEPT ![s] = @ \o es]
             /\ UNCHANGED <<marker, ckptAt, ckpt>>
    BY <2>1
  <2>2. ASSUME NEW k \in DOMAIN es,
               IF downList[s] = {}
               THEN /\ log' = [log EXCEPT ![s] = After(es, k)]
                    /\ marker' = [marker EXCEPT ![s] = NoMarker]
                    /\ ckptAt' = [ckptAt EXCEPT ![s] = 0]
               ELSE /\ log' = [log EXCEPT ![s] = @ \o es]
                    /\ ckptAt' = [ckptAt EXCEPT ![s] = Len(log[s]) + k]
                    /\ UNCHANGED marker
        PROVE  \/ marker' = marker /\ log' = [log EXCEPT ![s] = @ \o es]
               \/ /\ downList[s] = {}
                  /\ \A q \in Server \ {s} : log'[q] = log[q] /\ marker'[q] = marker[q]
    <3>1. CASE downList[s] = {}
      BY <2>2, <3>1 DEF TypeOK
    <3>2. CASE downList[s] # {}
      BY <2>2, <3>2
    <3> QED BY <3>1, <3>2
  <2> QED BY <2>1, <2>2 DEF PutValues
<1> QED BY <1>3, <1>4, <1>5

\* record_replica_status writes the marker together with down_lst.
LEMMA RecordDownMark ==
    ASSUME TypeOK, PassedOverIsMarked, NEW s \in Server, NEW q \in Server,
           RecordDown(s, q)
    PROVE  PassedOverIsMarked'
<1>1. Len(log[s]) \in Nat
  BY LenProperties DEF TypeOK
<1>2. Len(log[s]) # None
  BY <1>1, NoneAssumption
<1> QED BY <1>1, <1>2 DEF RecordDown, TypeOK, PassedOverIsMarked, Peers

\* A dead server has no memory of replicas that are down.
LEMMA KillMark ==
    ASSUME TypeOK, PassedOverIsMarked, NEW s \in Server, NEW tellOf, Kill(s, tellOf)
    PROVE  PassedOverIsMarked'
BY DEF Kill, disk, TypeOK, PassedOverIsMarked, Peers

LEMMA HandlerMark ==
    ASSUME TypeOK, MarkInv, NEW a \in Handler, HandlerStep(a)
    PROVE  MarkInv'
<1> USE DEF memory, disk, threads, history
<1>0. PassedOverIsMarked /\ AnnouncesToPeers
  BY DEF MarkInv
<1>a. pc[a] \in Loops \cup Sends \cup Tells => at[a] \in Server
  BY DEF TypeOK, Loops, Sends, Tells
<1>b. AnnouncesToPeers'
  <2>1. UNCHANGED announce
    BY DEF HandlerStep, NoPrimary, IsPrimary, Report, ReportRefused,
       ReportFails, ReportReturns, SelectEnds, TellEnds, StoreOwn, SkipDown,
       HeartbeatAnswers, HeartbeatFails, SendPrimary, SendValue, SendLost,
       TellSkips, TellDown, TellItself, SelectSelf, Broadcast, LoopOn
  <2> QED BY <1>0, <2>1 DEF AnnouncesToPeers, Peers
<1> SUFFICES PassedOverIsMarked'
  BY <1>b DEF MarkInv
<1>1. ASSUME UNCHANGED <<avail, downList, log, marker>> PROVE PassedOverIsMarked'
  BY <1>0, <1>1 DEF PassedOverIsMarked, Peers
<1>2. CASE NoPrimary(a) \/ IsPrimary(a) \/ Report(a) \/ ReportRefused(a)
           \/ ReportFails(a) \/ ReportReturns(a) \/ SelectEnds(a) \/ TellEnds(a)
  <2>1. UNCHANGED <<avail, downList, log, marker>>
    BY <1>2 DEF NoPrimary, IsPrimary, Report, ReportRefused, ReportFails,
       ReportReturns, SelectEnds, TellEnds, SelectSelf, Broadcast
  <2> QED BY <1>1, <2>1
<1>3. CASE StoreOwn(a)
  <2>1. at[a] \in Server /\ <<a[1]>> \in Seq(Request)
    BY <1>3, <1>a, HandlerFacts DEF StoreOwn, Loops
  <2>2. PutValues(at[a], <<a[1]>>) /\ UNCHANGED <<avail, downList>>
    BY <1>3 DEF StoreOwn
  <2> QED BY <1>0, <2>1, <2>2, PutValuesMark
<1>4. ASSUME NEW q \in Server,
             \/ SkipDown(a, q) \/ HeartbeatAnswers(a, q) \/ SendPrimary(a, q)
             \/ SendLost(a, q) \/ TellSkips(a, q)
      PROVE  PassedOverIsMarked'
  BY <1>1, <1>4 DEF SkipDown, HeartbeatAnswers, SendPrimary, SendLost, TellSkips, LoopOn
<1>5. ASSUME NEW q \in Server, SendValue(a, q) PROVE PassedOverIsMarked'
  BY <1>0, <1>5, HandlerFacts, PutValuesMark DEF SendValue, LoopOn
<1>6. ASSUME NEW q \in Server, HeartbeatFails(a, q) PROVE PassedOverIsMarked'
  BY <1>0, <1>6, <1>a, RecordDownMark DEF HeartbeatFails
<1>7. ASSUME NEW q \in Server, TellDown(a, q) PROVE PassedOverIsMarked'
  <2>1. dead[a] \in Server
    BY <1>7 DEF TellDown, TypeOK
  <2> QED BY <1>0, <1>7, <2>1, RecordDownMark DEF TellDown
<1>8. ASSUME NEW q \in Server, TellItself(a, q) PROVE PassedOverIsMarked'
  BY <1>0, <1>8, KillMark DEF TellItself
<1>9. CASE \E q \in Server :
              \/ SkipDown(a, q) \/ HeartbeatAnswers(a, q) \/ HeartbeatFails(a, q)
              \/ SendPrimary(a, q) \/ SendValue(a, q) \/ SendLost(a, q)
              \/ TellSkips(a, q) \/ TellDown(a, q) \/ TellItself(a, q)
  BY <1>4, <1>5, <1>6, <1>7, <1>8, <1>9
<1> QED BY <1>2, <1>3, <1>9, Zenon DEF HandlerStep

LEMMA NextMark == TypeOK /\ MarkInv /\ [Next]_vars => MarkInv'
<1> SUFFICES ASSUME TypeOK, MarkInv, [Next]_vars PROVE MarkInv'
  OBVIOUS
<1> USE DEF memory, disk, threads, history
<1>0. PassedOverIsMarked /\ AnnouncesToPeers
  BY DEF MarkInv
<1>1. ASSUME UNCHANGED <<avail, downList, log, marker>> PROVE PassedOverIsMarked'
  BY <1>0, <1>1 DEF PassedOverIsMarked, Peers
<1>2. ASSUME UNCHANGED announce PROVE AnnouncesToPeers'
  BY <1>0, <1>2 DEF AnnouncesToPeers, Peers
<1>3. CASE UNCHANGED vars
  BY <1>1, <1>2, <1>3 DEF vars, MarkInv
<1>4. ASSUME NEW a \in Handler, HandlerStep(a) PROVE MarkInv'
  BY <1>4, HandlerMark
<1>5. ASSUME NEW r \in Request, NEW s \in Server, PutArrives(r, s) PROVE MarkInv'
  BY <1>1, <1>2, <1>5 DEF PutArrives, MarkInv
<1>6. ASSUME NEW s \in Server, Restart(s) \/ Listen(s) PROVE MarkInv'
  BY <1>1, <1>2, <1>6 DEF Restart, Listen, MarkInv
<1>7. ASSUME NEW s \in Server, Fetched(s) PROVE AnnouncesToPeers'
  BY <1>0, <1>7 DEF Fetched, AnnouncesToPeers, Peers, TypeOK
<1>8. ASSUME NEW s \in Server, FetchNothing(s) PROVE MarkInv'
  BY <1>1, <1>7, <1>8 DEF FetchNothing, MarkInv
<1>9. ASSUME NEW s \in Server, NEW q \in Server, FetchMissing(s, q) PROVE MarkInv'
  <2>1. PICK n \in IF marker[q][s] = None THEN 0 .. Len(log[q]) ELSE {marker[q][s]} :
            PutValues(s, After(log[q], n))
    BY <1>9 DEF FetchMissing
  <2>2. n \in Nat /\ log[q] \in Seq(Request)
    BY LenProperties DEF TypeOK
  <2>3. After(log[q], n) \in Seq(Request)
    BY <2>2, AfterType
  <2>4. UNCHANGED <<avail, downList>> /\ Fetched(s)
    BY <1>9 DEF FetchMissing
  <2> QED BY <1>0, <1>7, <2>1, <2>3, <2>4, PutValuesMark DEF MarkInv
<1>10. ASSUME NEW s \in Server, NEW q \in Server, Announce(s, q) PROVE MarkInv'
  <2>1. q \in Peers(s)
    BY <1>0, <1>10 DEF Announce, IsNext, AnnouncesToPeers
  <2>2. AnnouncesToPeers'
    BY <1>0, <1>10 DEF Announce, AnnouncesToPeers, Peers, TypeOK
  <2>3. CASE Serves(q)
    <3>1. /\ downList' = [downList EXCEPT ![q] = @ \ {s}]
          /\ avail' = [avail EXCEPT ![q] = @ \cup {s}]
          /\ UNCHANGED <<log, marker>>
      BY <1>10, <2>3 DEF Announce
    <3>2. PassedOverIsMarked'
      BY <1>0, <2>1, <3>1 DEF PassedOverIsMarked, Peers, TypeOK
    <3> QED BY <2>2, <3>2 DEF MarkInv
  <2>4. CASE ~Serves(q)
    BY <1>1, <1>10, <2>2, <2>4 DEF Announce, MarkInv
  <2> QED BY <2>3, <2>4
<1>11. ASSUME NEW s \in Server, Crash(s) PROVE MarkInv'
  <2>1. AnnouncesToPeers'
    BY <1>0, <1>11 DEF Crash, AnnouncesToPeers, Peers, TypeOK
  <2> QED BY <1>0, <1>11, <2>1, KillMark DEF Crash, MarkInv
<1>12. ASSUME NEW s \in Server, NEW q \in Server, SourceDies(s, q) PROVE MarkInv'
  <2>1. AnnouncesToPeers'
    BY <1>0, <1>12 DEF SourceDies, AnnouncesToPeers, Peers, TypeOK
  <2> QED BY <1>0, <1>12, <2>1, KillMark DEF SourceDies, MarkInv
<1> QED BY <1>3, <1>4, <1>5, <1>6, <1>8, <1>9, <1>10, <1>11, <1>12 DEF Next, BootStep

\* server_status and down_lst always agree, and a replica on down_lst has a
\* marker line in the log file: no checkpoint of any interleaving cuts it off.
THEOREM PassedOverHasMarker == Spec => []PassedOverIsMarked
<1>1. MarkInv => PassedOverIsMarked
  BY DEF MarkInv
<1>2. Init => TypeOK /\ MarkInv
  BY InitType, InitMark DEF Init
<1> QED BY <1>1, <1>2, NextType, NextMark, PTL DEF Spec

=============================================================================
