----------------------- MODULE ReplicaGroupSerialProofs -----------------------
(***************************************************************************)
(* Theorems about ReplicaGroupSerial.tla: a group of any size, used by one *)
(* client at a time, is one store.                                         *)
(***************************************************************************)
EXTENDS ReplicaGroupSerial, ReplicaGroupLogs

-----------------------------------------------------------------------------
(* The invariant.  It says, of each server, that its files hold what its   *)
(* table holds, and that its log ends with it; of a server that is down or *)
(* comes back, that its files and what the first serving server keeps for  *)
(* it are together what that server holds; and of the one PUT under way,   *)
(* that it has reached the replicas behind it in its loop.                 *)

\* What s loads from its files.
Kept(s) == Replay(ckpt[s], After(log[s], ckptAt[s]))

FilesInv ==
    \A s \in Server :
        /\ ckptAt[s] \in Nat /\ ckptAt[s] <= Len(log[s])
        /\ mode[s] # "down" => table[s] = Kept(s)
        /\ \A u \in User, i \in DOMAIN log[s] :
              IsLastPut(log[s], u, i) => Kept(s)[u] = log[s][i]

IsFirst(f) == IsNext(f, Serving)

OneDown == \A s, t \in Server : ~Serves(s) /\ ~Serves(t) => s = t

\* A server that serves is on no list of replicas that are down, and one that
\* comes back is on the lists of those it has still to tell.
DownKnown ==
    \A s \in Server :
        /\ ~Serves(s) => downList[s] = {}
        /\ \A q \in downList[s] : ~Serves(q)
        /\ \A q \in downList[s] : mode[q] = "announcing" => s \in announce[q]

\* Only the first serving server makes itself primary.
NotAbove ==
    \A s \in Server, u \in User : primaryMap[s][u] = None \/ primaryMap[s][u] <= s

\* The one PUT under way runs at the first serving server.
ThreadInv ==
    \A a \in Handler : pc[a] \in Busy =>
        /\ a[2] = 1 /\ pc[a] # "reporting"
        /\ IsFirst(at[a])
        /\ pc[a] # "arrived" => todo[a] \subseteq Peers(at[a])
        /\ pc[a] \in Sends => \A q \in Server : IsNext(q, todo[a]) => Serves(q)
        /\ pc[a] \in Tells => ~Serves(dead[a])
        /\ \A b \in Handler : pc[b] \in Busy => a = b
        /\ \A s \in Server : mode[s] \in {"down", "serving"}

\* The broadcast of a is past q.
Sent(a, q) == InBroadcast(a) /\ q \notin todo[a] /\ q # at[a]

TablesOf(a) ==
    /\ \A q \in Serving :
          table[q] = IF Sent(a, q) THEN Replay(table[at[a]], <<a[1]>>) ELSE table[at[a]]
    /\ \A q \in Server \ Serving : Sent(a, q) => q \in downList[at[a]]

TablesInv ==
    /\ Quiet => \A s, t \in Serving : table[s] = table[t]
    /\ \A a \in Handler : pc[a] \in Busy => TablesOf(a)

Behind ==
    \A s, f \in Server : ~Serves(s) /\ IsFirst(f) =>
        IF mode[s] = "announcing" \/ s \notin downList[f]
        THEN Kept(s) = table[f]
        ELSE Replay(Kept(s), After(log[f], marker[f][s])) = table[f]

SerialInv ==
    /\ TypeOK /\ MarkInv
    /\ FilesInv /\ OneDown /\ DownKnown /\ NotAbove /\ ThreadInv /\ TablesInv /\ Behind

-----------------------------------------------------------------------------
(* Values that are put, and files.                                         *)

LEMMA KeptType ==
    ASSUME TypeOK, FilesInv, NEW s \in Server
    PROVE  /\ Kept(s) \in [User -> Values] /\ table[s] \in [User -> Values]
           /\ log[s] \in Seq(Request) /\ Len(log[s]) \in Nat
           /\ After(log[s], ckptAt[s]) \in Seq(Request)
<1>1. /\ log[s] \in Seq(Request) /\ ckptAt[s] \in Nat
      /\ ckpt[s] \in [User -> Values] /\ table[s] \in [User -> Values]
  BY DEF TypeOK, FilesInv, Values
<1>2. After(log[s], ckptAt[s]) \in Seq(Request)
  BY <1>1, AfterType
<1> QED BY <1>1, <1>2, ReplayType, LenProperties DEF Kept

\* A checkpoint, and what is put after it.
LEMMA Checkpointed ==
    ASSUME NEW t \in [User -> Values], NEW es \in Seq(Request), NEW k \in DOMAIN es
    PROVE  /\ Replay(Replay(t, SubSeq(es, 1, k - 1)), <<es[k]>>) \in [User -> Values]
           /\ Replay(Replay(Replay(t, SubSeq(es, 1, k - 1)), <<es[k]>>), After(es, k))
                = Replay(t, es)
<1>1. Len(es) \in Nat /\ DOMAIN es = 1 .. Len(es) /\ k \in 1 .. Len(es)
  BY LenProperties
<1>2. SubSeq(es, 1, k - 1) \in Seq(Request) /\ es[k] \in Request
  <2>1. \A i \in 1 .. k - 1 : es[i] \in Request
    BY <1>1, ElementOfSeq
  <2> QED BY <1>1, <2>1, ElementOfSeq, SubSeqProperties, 1 \in Int, k - 1 \in Int
<1>3. SubSeq(es, 1, k) = SubSeq(es, 1, k - 1) \o <<es[k]>>
  BY <1>1, SubSeqRecursiveSecond, 1 \in 1 .. Len(es), k \in 1 .. Len(es)
<1>4. es = SubSeq(es, 1, k) \o After(es, k)
  <2>1. SubSeq(es, 1, k) \o SubSeq(es, k + 1, Len(es)) = SubSeq(es, 1, Len(es))
    BY <1>1, ConcatAdjacentSubSeq, 1 \in 1 .. Len(es) + 1, k \in 0 .. Len(es),
       Len(es) \in k .. Len(es)
  <2> QED BY <2>1, SubSeqFull DEF After
<1> DEFINE fs == SubSeq(es, 1, k - 1)
           x  == <<es[k]>>
           gs == SubSeq(es, 1, k)
           hs == After(es, k)
<1>5. fs \in Seq(Request) /\ x \in Seq(Request)
  BY <1>2
<1>11. gs = fs \o x
  BY <1>3
<1>12. es = gs \o hs
  BY <1>4
<1>6. hs \in Seq(Request)
  BY <1>1, AfterType
<1> HIDE DEF fs, x, gs, hs
<1>7. gs \in Seq(Request)
  BY <1>5, <1>11, ConcatProperties
<1>8. Replay(Replay(t, fs), x) = Replay(t, gs)
  BY <1>5, <1>11, ReplayConcat
<1>9. Replay(Replay(t, gs), hs) = Replay(t, es)
  BY <1>12, <1>6, <1>7, ReplayConcat
<1>10. Replay(t, gs) \in [User -> Values]
  BY <1>7, ReplayType
<1> QED BY <1>8, <1>9, <1>10 DEF fs, x, hs

\* put_value at s leaves the other servers alone.
LEMMA PutElsewhere ==
    ASSUME TypeOK, NEW s \in Server, NEW es, PutValues(s, es)
    PROVE  /\ table'[s] = Replay(table[s], es)
           /\ \A q \in Server \ {s} :
                 /\ table'[q] = table[q] /\ log'[q] = log[q] /\ marker'[q] = marker[q]
                 /\ ckpt'[q] = ckpt[q] /\ ckptAt'[q] = ckptAt[q]
<1>1. table' = [table EXCEPT ![s] = Replay(@, es)]
  BY DEF PutValues
<1>2. \A q \in Server \ {s} :
         /\ log'[q] = log[q] /\ marker'[q] = marker[q]
         /\ ckpt'[q] = ckpt[q] /\ ckptAt'[q] = ckptAt[q]
  <2>1. CASE /\ log' = [log EXCEPT ![s] = @ \o es]
             /\ UNCHANGED <<marker, ckptAt, ckpt>>
    BY <2>1 DEF TypeOK
  <2>2. ASSUME NEW k, NEW c,
               ckpt' = [ckpt EXCEPT ![s] = c],
               IF downList[s] = {}
               THEN /\ log' = [log EXCEPT ![s] = After(es, k)]
                    /\ marker' = [marker EXCEPT ![s] = NoMarker]
                    /\ ckptAt' = [ckptAt EXCEPT ![s] = 0]
               ELSE /\ log' = [log EXCEPT ![s] = @ \o es]
                    /\ ckptAt' = [ckptAt EXCEPT ![s] = Len(log[s]) + k]
                    /\ UNCHANGED marker
        PROVE  \A q \in Server \ {s} :
                  /\ log'[q] = log[q] /\ marker'[q] = marker[q]
                  /\ ckpt'[q] = ckpt[q] /\ ckptAt'[q] = ckptAt[q]
    BY <2>2 DEF TypeOK
  <2> QED BY <2>1, <2>2 DEF PutValues
<1> QED BY <1>1, <1>2 DEF TypeOK

\* put_value keeps the files true to the table.
LEMMA PutKept ==
    ASSUME TypeOK, FilesInv, NEW s \in Server, mode[s] # "down",
           NEW es \in Seq(Request), PutValues(s, es),
           \A q \in Server : mode'[q] # "down" => mode[q] # "down"
    PROVE  /\ FilesInv'
           /\ table'[s] = Replay(table[s], es) /\ Kept(s)' = table'[s]
           /\ \A q \in Server \ {s} :
                 /\ table'[q] = table[q] /\ Kept(q)' = Kept(q)
                 /\ log'[q] = log[q] /\ marker'[q] = marker[q]
           /\ downList[s] # {} => log'[s] = log[s] \o es /\ marker'[s] = marker[s]
<1>1. /\ Kept(s) \in [User -> Values] /\ table[s] = Kept(s)
      /\ log[s] \in Seq(Request) /\ Len(log[s]) \in Nat
      /\ ckptAt[s] \in Nat /\ ckptAt[s] <= Len(log[s])
      /\ ckpt[s] \in [User -> Values]
      /\ After(log[s], ckptAt[s]) \in Seq(Request)
      /\ Len(es) \in Nat /\ DOMAIN es = 1 .. Len(es)
      /\ log[s] \o es \in Seq(Request) /\ Len(log[s] \o es) = Len(log[s]) + Len(es)
  BY KeptType, LenProperties, ConcatProperties DEF FilesInv, TypeOK, Values
<1>2. /\ table'[s] = Replay(table[s], es)
      /\ \A q \in Server \ {s} :
            /\ table'[q] = table[q] /\ log'[q] = log[q] /\ marker'[q] = marker[q]
            /\ ckpt'[q] = ckpt[q] /\ ckptAt'[q] = ckptAt[q]
  BY PutElsewhere
<1>3. \A q \in Server \ {s} : Kept(q)' = Kept(q)
  BY <1>2 DEF Kept
<1> DEFINE Done ==
        /\ ckptAt'[s] \in Nat /\ ckptAt'[s] <= Len(log'[s])
        /\ Kept(s)' = Replay(Kept(s), es)
        /\ \A u \in User, i \in DOMAIN log'[s] :
              IsLastPut(log'[s], u, i) => Replay(Kept(s), es)[u] = log'[s][i]
        /\ downList[s] # {} => log'[s] = log[s] \o es /\ marker'[s] = marker[s]
<1>4. \A u \in User, i \in DOMAIN (log[s] \o es) :
         IsLastPut(log[s] \o es, u, i) => Replay(Kept(s), es)[u] = (log[s] \o es)[i]
  <2>1. \A u \in User, i \in DOMAIN log[s] : IsLastPut(log[s], u, i) => Kept(s)[u] = log[s][i]
    BY DEF FilesInv
  <2> QED BY <1>1, <2>1, LastKept
<1>5. ASSUME log' = [log EXCEPT ![s] = @ \o es], UNCHANGED <<marker, ckptAt, ckpt>>
      PROVE  Done
  <2>1. log'[s] = log[s] \o es /\ ckptAt'[s] = ckptAt[s] /\ ckpt'[s] = ckpt[s]
        /\ marker'[s] = marker[s]
    BY <1>5 DEF TypeOK
  <2>2. After(log[s] \o es, ckptAt[s]) = After(log[s], ckptAt[s]) \o es
    BY <1>1, AfterConcat
  <2>3. Replay(Kept(s), es) = Replay(ckpt[s], After(log[s], ckptAt[s]) \o es)
    BY <1>1, ReplayConcat DEF Kept
  <2>4. Kept(s)' = Replay(Kept(s), es)
    BY <2>1, <2>2, <2>3 DEF Kept
  <2>5. ckptAt'[s] \in Nat /\ ckptAt'[s] <= Len(log'[s])
    BY <1>1, <2>1
  <2>6. \A u \in User, i \in DOMAIN log'[s] :
           IsLastPut(log'[s], u, i) => Replay(Kept(s), es)[u] = log'[s][i]
    BY <1>4, <2>1
  <2> QED BY <2>1, <2>4, <2>5, <2>6
<1>6. ASSUME NEW k \in DOMAIN es,
             ckpt' = [ckpt EXCEPT ![s] = Replay(Replay(table[s], SubSeq(es, 1, k - 1)), <<es[k]>>)],
             IF downList[s] = {}
             THEN /\ log' = [log EXCEPT ![s] = After(es, k)]
                  /\ marker' = [marker EXCEPT ![s] = NoMarker]
                  /\ ckptAt' = [ckptAt EXCEPT ![s] = 0]
             ELSE /\ log' = [log EXCEPT ![s] = @ \o es]
                  /\ ckptAt' = [ckptAt EXCEPT ![s] = Len(log[s]) + k]
                  /\ UNCHANGED marker
      PROVE  Done
  <2>1. /\ ckpt'[s] \in [User -> Values]
        /\ Replay(ckpt'[s], After(es, k)) = Replay(Kept(s), es)
    <3>1. ckpt'[s] = Replay(Replay(Kept(s), SubSeq(es, 1, k - 1)), <<es[k]>>)
      BY <1>1, <1>6 DEF TypeOK
    <3> QED BY <1>1, <3>1, Checkpointed
  <2>2. k \in Nat /\ k <= Len(es) /\ After(es, k) \in Seq(Request)
    BY <1>1, AfterType
  <2>3. CASE downList[s] = {}
    <3>1. log'[s] = After(es, k) /\ ckptAt'[s] = 0
      BY <1>6, <2>3 DEF TypeOK
    <3>2. After(log'[s], ckptAt'[s]) = After(es, k)
      BY <2>2, <3>1, AfterAll
    <3>3. Kept(s)' = Replay(Kept(s), es)
      BY <2>1, <3>2 DEF Kept
    <3>4. ASSUME NEW u \in User, NEW i, IsLastPut(log'[s], u, i)
          PROVE  Replay(Kept(s), es)[u] = log'[s][i]
      BY <2>1, <2>2, <3>1, <3>4, ReplayLast
    <3>5. Len(log'[s]) \in Nat
      BY <2>2, <3>1, LenProperties
    <3> QED BY <2>3, <3>1, <3>3, <3>4, <3>5
  <2>4. CASE downList[s] # {}
    <3>1. log'[s] = log[s] \o es /\ ckptAt'[s] = Len(log[s]) + k /\ marker'[s] = marker[s]
      BY <1>6, <2>4 DEF TypeOK
    <3>2. After(log'[s], ckptAt'[s]) = After(es, k)
      BY <1>1, <2>2, <3>1, AfterConcat
    <3>3. Kept(s)' = Replay(Kept(s), es)
      BY <2>1, <3>2 DEF Kept
    <3>4. ckptAt'[s] \in Nat /\ ckptAt'[s] <= Len(log'[s])
      BY <1>1, <2>2, <3>1
    <3> QED BY <1>4, <3>1, <3>3, <3>4
  <2> QED BY <2>3, <2>4
<1>7. Done
  <2> HIDE DEF Done
  <2>1. CASE log' = [log EXCEPT ![s] = @ \o es] /\ UNCHANGED <<marker, ckptAt, ckpt>>
    BY <1>5, <2>1
  <2>2. CASE ~(log' = [log EXCEPT ![s] = @ \o es] /\ UNCHANGED <<marker, ckptAt, ckpt>>)
    BY <1>6, <2>2 DEF PutValues
  <2> QED BY <2>1, <2>2
<1>8. FilesInv'
  <2>1. ASSUME NEW q \in Server \ {s}
        PROVE  /\ ckptAt'[q] \in Nat /\ ckptAt'[q] <= Len(log'[q])
               /\ mode'[q] # "down" => table'[q] = Kept(q)'
               /\ \A u \in User, i \in DOMAIN log'[q] :
                     IsLastPut(log'[q], u, i) => Kept(q)'[u] = log'[q][i]
    BY <1>2, <1>3 DEF FilesInv
  <2>2. Kept(s)' = table'[s]
    BY <1>1, <1>2, <1>7
  <2> QED BY <1>7, <2>1, <2>2 DEF FilesInv
<1> QED BY <1>1, <1>2, <1>3, <1>7, <1>8

-----------------------------------------------------------------------------
(* The steps of a PUT.                                                     *)

OneClientAtFirst == FirstEntry /\ IdleFailures /\ ~ChannelBackoff

\* What the invariant says while the PUT of a is under way.
LEMMA AtWork ==
    ASSUME SerialInv, NEW a \in Handler, pc[a] \in Busy
    PROVE  /\ at[a] \in Server /\ at[a] \in Nat /\ Serves(at[a]) /\ IsFirst(at[a])
           /\ \A q \in Server : Serves(q) => at[a] <= q
           /\ a[2] = 1 /\ pc[a] # "reporting"
           /\ \A b \in Handler : b # a => pc[b] \notin Busy
           /\ \A q \in Server : mode[q] \in {"down", "serving"}
           /\ TablesOf(a)
           /\ avail[at[a]] = Peers(at[a]) \ downList[at[a]]
           /\ \A q \in downList[at[a]] : ~Serves(q)
<1>1. IsFirst(at[a]) /\ at[a] \in Server /\ Serves(at[a])
  BY DEF SerialInv, ThreadInv, IsFirst, IsNext, Serving
<1>2. at[a] \in Nat /\ \A q \in Server : Serves(q) => at[a] <= q
  BY <1>1, ServerAssumption DEF IsFirst, IsNext, Serving
<1>3. TablesOf(a)
  BY DEF SerialInv, TablesInv
<1>4. avail[at[a]] = Peers(at[a]) \ downList[at[a]]
  BY <1>1 DEF SerialInv, MarkInv, PassedOverIsMarked
<1>5. \A q \in downList[at[a]] : ~Serves(q)
  BY <1>1 DEF SerialInv, DownKnown
<1>6. /\ a[2] = 1 /\ pc[a] # "reporting"
      /\ \A b \in Handler : b # a => pc[b] \notin Busy
      /\ \A q \in Server : mode[q] \in {"down", "serving"}
  BY DEF SerialInv, ThreadInv
<1> QED BY <1>1, <1>2, <1>3, <1>4, <1>5, <1>6

\* What a step that leaves the files, the tables and the processes alone keeps.
LEMMA SameFiles ==
    ASSUME SerialInv, UNCHANGED <<mode, downList, table, disk, announce>>
    PROVE  FilesInv' /\ OneDown' /\ DownKnown' /\ Behind'
<1>1. UNCHANGED <<mode, downList, table, log, marker, ckptAt, ckpt, announce>>
  BY DEF disk
<1>2. \A s : Kept(s)' = Kept(s)
  BY <1>1 DEF Kept
<1>3. \A s : (Serves(s)' <=> Serves(s)) /\ (IsFirst(s)' <=> IsFirst(s))
  BY <1>1 DEF Serves, IsFirst, IsNext, Serving
<1>4. FilesInv'
  BY <1>1, <1>2 DEF SerialInv, FilesInv
<1>5. OneDown' /\ DownKnown'
  BY <1>1, <1>3 DEF SerialInv, OneDown, DownKnown
<1>6. Behind'
  BY <1>1, <1>2, <1>3 DEF SerialInv, Behind
<1> QED BY <1>4, <1>5, <1>6

\* A step of a alone leaves the one PUT at the first serving server.
LEMMA OneThread ==
    ASSUME SerialInv, NEW a \in Handler, pc[a] \in Busy,
           UNCHANGED <<mode, at>>,
           \A b \in Handler : b # a => pc'[b] = pc[b],
           pc'[a] \in Busy =>
              /\ pc'[a] # "reporting"
              /\ pc'[a] # "arrived" => todo'[a] \subseteq Peers(at[a])
              /\ pc'[a] \in Sends => \A q \in Server : IsNext(q, todo'[a]) => Serves(q)
              /\ pc'[a] \in Tells => ~Serves(dead'[a])
    PROVE  ThreadInv'
<1>1. /\ IsFirst(at[a]) /\ a[2] = 1
      /\ \A b \in Handler : b # a => pc[b] \notin Busy
      /\ \A q \in Server : mode[q] \in {"down", "serving"}
  BY AtWork
<1>2. \A s : (Serves(s)' <=> Serves(s)) /\ (IsFirst(s)' <=> IsFirst(s))
  BY DEF Serves, IsFirst, IsNext, Serving
<1>3. \A b \in Handler : pc'[b] \in Busy => b = a
  BY <1>1
<1>4. SUFFICES ASSUME NEW b \in Handler, pc'[b] \in Busy
               PROVE  (/\ b[2] = 1 /\ pc[b] # "reporting"
                       /\ IsFirst(at[b])
                       /\ pc[b] # "arrived" => todo[b] \subseteq Peers(at[b])
                       /\ pc[b] \in Sends => \A q \in Server : IsNext(q, todo[b]) => Serves(q)
                       /\ pc[b] \in Tells => ~Serves(dead[b])
                       /\ \A c \in Handler : pc[c] \in Busy => b = c
                       /\ \A s \in Server : mode[s] \in {"down", "serving"})'
  BY DEF ThreadInv
<1>5. b = a /\ \A c \in Handler : pc'[c] \in Busy => b = c
  BY <1>3, <1>4
<1>6. IsFirst(at[b])'
  BY <1>1, <1>2, <1>5 DEF IsFirst, IsNext, Serving, Serves
<1>7. (/\ pc[b] # "arrived" => todo[b] \subseteq Peers(at[b])
       /\ pc[b] \in Sends => \A q \in Server : IsNext(q, todo[b]) => Serves(q)
       /\ pc[b] \in Tells => ~Serves(dead[b]))'
  BY <1>4, <1>5 DEF Peers, IsNext, Serves
<1> QED BY <1>1, <1>4, <1>5, <1>6, <1>7

\* A step of a that passes over replicas on down_lst only.
LEMMA SameTables ==
    ASSUME SerialInv, NEW a \in Handler, pc[a] \in Busy, pc'[a] \in Busy,
           UNCHANGED <<mode, at, table>>,
           \A b \in Handler : b # a => pc'[b] = pc[b],
           downList[at[a]] \subseteq downList'[at[a]],
           \A q \in Server : Serves(q) => (Sent(a, q)' <=> Sent(a, q)),
           \A q \in Server : Sent(a, q)' => Sent(a, q) \/ q \in downList'[at[a]]
    PROVE  TablesInv'
<1>1. /\ at[a] \in Server /\ TablesOf(a)
      /\ \A b \in Handler : b # a => pc[b] \notin Busy
  BY AtWork
<1>2. ~Quiet'
  BY DEF Quiet
<1>3. \A q : Serves(q)' <=> Serves(q)
  BY DEF Serves
<1>4. TablesOf(a)'
  BY <1>1, <1>3 DEF TablesOf, Serving
<1>5. \A b \in Handler : pc'[b] \in Busy => b = a
  BY <1>1
<1> QED BY <1>2, <1>4, <1>5 DEF TablesInv

SerialKept ==
    FilesInv /\ OneDown /\ DownKnown /\ NotAbove /\ ThreadInv /\ TablesInv /\ Behind

\* The first serving server makes itself primary.
LEMMA SelectKeeps ==
    ASSUME SerialInv, NEW a \in Handler, SelectSelf(a), pc[a] = "arrived"
    PROVE  SerialKept'
<1>a. pc[a] \in Busy /\ pc'[a] = "select" /\ "select" \in Busy
  <2>1. pc'[a] = "select"
    BY DEF SelectSelf, SerialInv, TypeOK
  <2> QED BY <2>1 DEF Busy, Waiting, Loops
<1>b. at[a] \in Server /\ at[a] \in Nat /\ Row(a) \in User
  BY <1>a, AtWork, HandlerFacts
<1>1. /\ UNCHANGED <<mode, downList, table, disk, announce, at>>
      /\ pc' = [pc EXCEPT ![a] = "select"]
      /\ todo' = [todo EXCEPT ![a] = Peers(at[a])]
  BY DEF SelectSelf
<1>2. FilesInv' /\ OneDown' /\ DownKnown' /\ Behind'
  BY <1>1, SameFiles
<1>3. todo'[a] = Peers(at[a]) /\ \A b \in Handler : b # a => pc'[b] = pc[b]
  BY <1>1 DEF SerialInv, TypeOK
<1>4. ThreadInv'
  BY <1>a, <1>1, <1>3, OneThread DEF Sends, Tells
<1>5. \A q : ~Sent(a, q)'
  BY <1>a DEF Sent, InBroadcast
<1>6. TablesInv'
  <2>1. \A q : ~Sent(a, q)
    BY DEF Sent, InBroadcast
  <2> QED BY <1>a, <1>1, <1>3, <1>5, <2>1, SameTables
<1>7. NotAbove'
  <2>1. primaryMap' = [primaryMap EXCEPT ![at[a]][Row(a)] = at[a]]
    BY DEF SelectSelf
  <2> QED BY <1>b, <2>1 DEF SerialInv, NotAbove, TypeOK
<1> QED BY <1>2, <1>4, <1>6, <1>7 DEF SerialKept

\* The broadcast begins.
LEMMA BroadcastKeeps ==
    ASSUME SerialInv, NEW a \in Handler, Broadcast(a), pc[a] \in {"arrived", "select"}
    PROVE  SerialKept'
<1>a. pc[a] \in Busy /\ pc'[a] = "bcast" /\ "bcast" \in Busy
  <2>1. pc'[a] = "bcast"
    BY DEF Broadcast, SerialInv, TypeOK
  <2> QED BY <2>1 DEF Busy, Waiting, Loops
<1>1. /\ UNCHANGED <<mode, downList, table, disk, announce, at, primaryMap>>
      /\ pc' = [pc EXCEPT ![a] = "bcast"]
      /\ todo' = [todo EXCEPT ![a] = Peers(at[a])]
  BY DEF Broadcast, memory
<1>2. FilesInv' /\ OneDown' /\ DownKnown' /\ Behind'
  BY <1>1, SameFiles
<1>3. todo'[a] = Peers(at[a]) /\ \A b \in Handler : b # a => pc'[b] = pc[b]
  BY <1>1 DEF SerialInv, TypeOK
<1>4. ThreadInv'
  BY <1>a, <1>1, <1>3, OneThread DEF Sends, Tells
<1>5. \A q \in Server : ~Sent(a, q)'
  BY <1>1, <1>3 DEF Sent, Peers
<1>6. TablesInv'
  <2>1. \A q : ~Sent(a, q)
    BY DEF Sent, InBroadcast
  <2> QED BY <1>a, <1>1, <1>3, <1>5, <2>1, SameTables
<1>7. NotAbove'
  BY <1>1 DEF SerialInv, NotAbove
<1> QED BY <1>2, <1>4, <1>6, <1>7 DEF SerialKept

\* Two servers that are next in a loop are the same.
LEMMA OneNext ==
    ASSUME NEW T \in SUBSET Server, NEW p, NEW q, IsNext(p, T), IsNext(q, T)
    PROVE  p = q
<1>1. p \in Nat /\ q \in Nat /\ p <= q /\ q <= p
  BY ServerAssumption DEF IsNext
<1> QED BY <1>1

\* The steps of a loop that change no file, no table and no list.
LEMMA LoopKeeps ==
    ASSUME SerialInv, NEW a \in Handler, NEW q \in Server,
           SkipDown(a, q) \/ HeartbeatAnswers(a, q)
    PROVE  SerialKept'
<1>a. pc[a] \in Loops /\ pc[a] \in Busy /\ pc[a] # "arrived"
  BY DEF SkipDown, HeartbeatAnswers, Busy, Loops
<1>b. /\ at[a] \in Server /\ todo[a] \in SUBSET Server /\ todo[a] \subseteq Peers(at[a])
      /\ avail[at[a]] = Peers(at[a]) \ downList[at[a]]
      /\ \A p \in downList[at[a]] : ~Serves(p)
  BY <1>a, AtWork DEF SerialInv, ThreadInv, TypeOK
<1>1. UNCHANGED <<mode, downList, table, disk, announce, at, primaryMap, dead>>
  BY DEF SkipDown, HeartbeatAnswers, memory
<1>2. FilesInv' /\ OneDown' /\ DownKnown' /\ Behind'
  BY <1>1, SameFiles
<1>3. NotAbove'
  BY <1>1 DEF SerialInv, NotAbove
<1>4. CASE SkipDown(a, q)
  <2>1. /\ pc' = pc /\ todo'[a] = todo[a] \ {q}
        /\ q \in todo[a] /\ q \in downList[at[a]] /\ ~Serves(q)
    BY <1>b, <1>4 DEF SkipDown, IsNext, SerialInv, TypeOK
  <2>2. ThreadInv'
    BY <1>a, <1>b, <1>1, <2>1, OneThread DEF Loops, Sends, Tells
  <2>3. \A p : Sent(a, p)' <=> Sent(a, p) \/ (p = q /\ InBroadcast(a) /\ q # at[a])
    BY <1>1, <2>1 DEF Sent, InBroadcast
  <2>4. TablesInv'
    BY <1>a, <1>1, <2>1, <2>3, SameTables
  <2> QED BY <1>2, <1>3, <2>2, <2>4 DEF SerialKept
<1>5. CASE HeartbeatAnswers(a, q)
  <2>1. /\ todo' = todo /\ IsNext(q, todo[a]) /\ Serves(q)
        /\ pc'[a] = IF pc[a] = "select" THEN "selectSend" ELSE "bcastSend"
        /\ \A b \in Handler : b # a => pc'[b] = pc[b]
    BY <1>5 DEF HeartbeatAnswers, SerialInv, TypeOK
  <2>2. pc'[a] \in Busy /\ pc'[a] \in Sends
    BY <2>1 DEF Busy, Sends
  <2>3. \A p \in Server : IsNext(p, todo'[a]) => Serves(p)
    BY <1>b, <2>1, OneNext
  <2>4. ThreadInv'
    BY <1>a, <1>b, <1>1, <2>1, <2>2, <2>3, OneThread DEF Sends, Tells
  <2>5. \A p : Sent(a, p)' <=> Sent(a, p)
    BY <1>a, <1>1, <2>1 DEF Sent, InBroadcast, Loops
  <2>6. TablesInv'
    BY <1>a, <1>1, <2>1, <2>2, <2>5, SameTables
  <2> QED BY <1>2, <1>3, <2>4, <2>6 DEF SerialKept
<1> QED BY <1>4, <1>5

\* The steps of deliver_server_status that change no file and no list.
LEMMA TellKeeps ==
    ASSUME SerialInv, NEW a \in Handler,
           TellEnds(a) \/ \E q \in Server : TellSkips(a, q)
    PROVE  SerialKept'
<1>a. pc[a] \in Tells /\ pc[a] \in Busy /\ pc[a] # "arrived"
  BY DEF TellEnds, TellSkips, Busy, Tells
<1>b. todo[a] \subseteq Peers(at[a]) /\ ~Serves(dead[a])
  BY <1>a DEF SerialInv, ThreadInv
<1>1. UNCHANGED <<mode, downList, table, disk, announce, at, primaryMap, todo>>
  BY DEF TellEnds, TellSkips, memory
<1>2. FilesInv' /\ OneDown' /\ DownKnown' /\ Behind'
  BY <1>1, SameFiles
<1>3. NotAbove'
  BY <1>1 DEF SerialInv, NotAbove
<1>4. CASE TellEnds(a)
  <2>1. /\ pc'[a] = IF pc[a] = "selectTell" THEN "select" ELSE "bcast"
        /\ \A b \in Handler : b # a => pc'[b] = pc[b]
    BY <1>4 DEF TellEnds, SerialInv, TypeOK
  <2>2. pc'[a] \in Busy /\ pc'[a] \in Loops
    BY <2>1 DEF Busy, Loops
  <2>3. ThreadInv'
    BY <1>a, <1>b, <1>1, <2>1, <2>2, OneThread DEF Loops, Sends, Tells
  <2>4. \A p : Sent(a, p)' <=> Sent(a, p)
    BY <1>a, <1>1, <2>1 DEF Sent, InBroadcast, Tells
  <2>5. TablesInv'
    BY <1>a, <1>1, <2>1, <2>2, <2>4, SameTables
  <2> QED BY <1>2, <1>3, <2>3, <2>5 DEF SerialKept
<1>5. CASE \E q \in Server : TellSkips(a, q)
  <2>1. pc' = pc /\ dead' = dead
    BY <1>5 DEF TellSkips
  <2>2. ThreadInv'
    BY <1>a, <1>b, <1>1, <2>1, OneThread DEF Sends, Tells
  <2>3. \A p : Sent(a, p)' <=> Sent(a, p)
    BY <1>1, <2>1 DEF Sent, InBroadcast
  <2>4. TablesInv'
    BY <1>a, <1>1, <2>1, <2>3, SameTables
  <2> QED BY <1>2, <1>3, <2>2, <2>4 DEF SerialKept
<1> QED BY <1>4, <1>5

\* Update_Primary at q: the primary is the first serving server, q is one.
LEMMA SendPrimaryKeeps ==
    ASSUME SerialInv, NEW a \in Handler, NEW q \in Server, SendPrimary(a, q)
    PROVE  SerialKept'
<1>a. pc[a] = "selectSend" /\ pc[a] \in Busy /\ Serves(q) /\ Row(a) \in User
  BY HandlerFacts DEF SendPrimary, Reaches, Busy, Sends
<1>b. at[a] <= q /\ todo[a] \subseteq Peers(at[a]) /\ at[a] \in Server
  BY <1>a, AtWork DEF SerialInv, ThreadInv
<1>1. UNCHANGED <<mode, downList, table, disk, announce, at, dead>>
  BY DEF SendPrimary, LoopOn
<1>2. FilesInv' /\ OneDown' /\ DownKnown' /\ Behind'
  BY <1>1, SameFiles
<1>3. NotAbove'
  <2>1. primaryMap' = [primaryMap EXCEPT ![q][Row(a)] = at[a]]
    BY DEF SendPrimary
  <2> QED BY <1>a, <1>b, <2>1 DEF SerialInv, NotAbove, TypeOK
<1>4. /\ pc'[a] = "select" /\ todo'[a] = todo[a] \ {q}
      /\ \A b \in Handler : b # a => pc'[b] = pc[b]
  BY <1>a DEF SendPrimary, LoopOn, SerialInv, TypeOK
<1>5. pc'[a] \in Busy
  BY <1>4 DEF Busy, Loops
<1>6. ThreadInv'
  BY <1>a, <1>b, <1>1, <1>4, <1>5, OneThread DEF Sends, Tells
<1>7. \A p : ~Sent(a, p)' /\ ~Sent(a, p)
  BY <1>a, <1>4 DEF Sent, InBroadcast
<1>8. TablesInv'
  BY <1>a, <1>1, <1>4, <1>5, <1>7, SameTables
<1> QED BY <1>2, <1>3, <1>6, <1>8 DEF SerialKept

\* The first serving server records a replica that holds what it holds itself;
\* what another serving server records does not matter.
LEMMA RecordKeeps ==
    ASSUME SerialInv, NEW s \in Server, NEW q \in Server, Serves(s),
           mode[q] = "down", RecordDown(s, q), UNCHANGED <<mode, table, announce>>,
           IsFirst(s) => q \notin downList[s]
    PROVE  FilesInv' /\ OneDown' /\ DownKnown' /\ Behind'
<1>1. /\ UNCHANGED <<mode, table, announce, log, ckptAt, ckpt>>
      /\ downList' = [downList EXCEPT ![s] = @ \cup {q}]
      /\ marker' = [marker EXCEPT ![s][q] = Len(log[s])]
      /\ TypeOK
  BY DEF RecordDown, SerialInv
<1>2. \A p : Kept(p)' = Kept(p)
  BY <1>1 DEF Kept
<1>3. \A p : (Serves(p)' <=> Serves(p)) /\ (IsFirst(p)' <=> IsFirst(p))
  BY <1>1 DEF Serves, IsFirst, IsNext, Serving
<1>4. FilesInv'
  BY <1>1, <1>2 DEF SerialInv, FilesInv
<1>5. OneDown'
  BY <1>3 DEF SerialInv, OneDown
<1>6. DownKnown'
  <2>1. ~Serves(q) /\ mode[q] # "announcing"
    BY DEF Serves
  <2> QED BY <1>1, <1>3, <2>1 DEF SerialInv, DownKnown, TypeOK
<1>7. ASSUME NEW p \in Server, NEW f \in Server, ~Serves(p), IsFirst(f)
      PROVE  IF mode'[p] = "announcing" \/ p \notin downList'[f]
             THEN Kept(p)' = table'[f]
             ELSE Replay(Kept(p)', After(log'[f], marker'[f][p])) = table'[f]
  <2>1. p = q
    BY <1>7 DEF SerialInv, OneDown, Serves
  <2>2. CASE f = s
    <3>1. Kept(q) = table[s]
      BY <1>7, <2>1, <2>2 DEF SerialInv, Behind
    <3>2. q \in downList'[s] /\ mode'[q] # "announcing" /\ marker'[s][q] = Len(log[s])
      BY <1>1 DEF TypeOK
    <3>3. Kept(q) \in [User -> Values] /\ log[s] \in Seq(Request)
      BY <1>1, KeptType DEF SerialInv
    <3>4. Replay(Kept(q), After(log[s], Len(log[s]))) = Kept(q)
      BY <3>3, AfterAll, ReplayEmpty
    <3> QED BY <1>1, <1>2, <2>1, <2>2, <3>1, <3>2, <3>4
  <2>3. CASE f # s
    <3>1. downList'[f] = downList[f] /\ marker'[f] = marker[f]
      BY <1>1, <2>3 DEF TypeOK
    <3> QED BY <1>1, <1>2, <1>7, <3>1 DEF SerialInv, Behind
  <2> QED BY <2>2, <2>3
<1>8. Behind'
  BY <1>3, <1>7 DEF Behind
<1> QED BY <1>4, <1>5, <1>6, <1>8

\* A replica is recorded as down while the loop visits it.
LEMMA HeartbeatFailsKeeps ==
    ASSUME SerialInv, NEW a \in Handler, NEW q \in Server, HeartbeatFails(a, q)
    PROVE  SerialKept'
<1>a. pc[a] \in Loops /\ pc[a] \in Busy /\ pc[a] # "arrived"
  BY DEF HeartbeatFails, Busy, Loops
<1>b. /\ at[a] \in Server /\ Serves(at[a]) /\ todo[a] \subseteq Peers(at[a])
      /\ avail[at[a]] = Peers(at[a]) \ downList[at[a]]
      /\ \A p \in Server : mode[p] \in {"down", "serving"}
  BY <1>a, AtWork DEF SerialInv, ThreadInv
<1>1. /\ UNCHANGED <<mode, primaryMap, table, announce, at>>
      /\ RecordDown(at[a], q) /\ ~Serves(q) /\ q \in avail[at[a]]
      /\ pc' = [pc EXCEPT ![a] = IF @ = "select" THEN "selectTell" ELSE "bcastTell"]
      /\ todo' = [todo EXCEPT ![a] = @ \ {q}]
      /\ dead' = [dead EXCEPT ![a] = q]
  BY DEF HeartbeatFails
<1>2. mode[q] = "down" /\ q \notin downList[at[a]]
  BY <1>b, <1>1 DEF Serves
<1>3. FilesInv' /\ OneDown' /\ DownKnown' /\ Behind'
  BY <1>b, <1>1, <1>2, RecordKeeps
<1>4. NotAbove'
  BY <1>1 DEF SerialInv, NotAbove
<1>5. /\ pc'[a] = IF pc[a] = "select" THEN "selectTell" ELSE "bcastTell"
      /\ \A b \in Handler : b # a => pc'[b] = pc[b]
      /\ todo'[a] = todo[a] \ {q} /\ dead'[a] = q
      /\ downList'[at[a]] = downList[at[a]] \cup {q}
  BY <1>b, <1>1 DEF RecordDown, SerialInv, TypeOK
<1>6. pc'[a] \in Busy /\ pc'[a] \in Tells
  BY <1>5 DEF Busy, Tells
<1>7. ThreadInv'
  BY <1>a, <1>b, <1>1, <1>5, <1>6, OneThread DEF Tells, Sends
<1>8. \A p : Sent(a, p)' => Sent(a, p) \/ p = q
  BY <1>a, <1>1, <1>5 DEF Sent, InBroadcast, Loops
<1>9. \A p : Sent(a, p) => Sent(a, p)'
  BY <1>a, <1>1, <1>5 DEF Sent, InBroadcast, Loops
<1>10. TablesInv'
  BY <1>a, <1>1, <1>5, <1>6, <1>8, <1>9, SameTables
<1> QED BY <1>3, <1>4, <1>7, <1>10 DEF SerialKept

\* The other replicas record it as well.
LEMMA TellDownKeeps ==
    ASSUME SerialInv, NEW a \in Handler, NEW q \in Server, TellDown(a, q)
    PROVE  SerialKept'
<1>a. pc[a] \in Tells /\ pc[a] \in Busy /\ pc[a] # "arrived"
  BY DEF TellDown, Busy, Tells
<1>b. /\ at[a] \in Server /\ IsFirst(at[a]) /\ todo[a] \subseteq Peers(at[a])
      /\ avail[at[a]] = Peers(at[a]) \ downList[at[a]]
      /\ \A p \in Server : mode[p] \in {"down", "serving"}
      /\ ~Serves(dead[a]) /\ dead[a] \in Server
  BY <1>a, AtWork DEF SerialInv, ThreadInv, TypeOK
<1>1. /\ UNCHANGED <<mode, primaryMap, table, announce, pc, at, todo, dead>>
      /\ RecordDown(q, dead[a]) /\ Serves(q) /\ q \in avail[at[a]]
  BY DEF TellDown, Reaches
<1>2. mode[dead[a]] = "down" /\ q # at[a]
  BY <1>b, <1>1 DEF Serves, Peers
<1>3. ~IsFirst(q)
  BY <1>b, <1>2, OneNext, Serving \in SUBSET Server DEF IsFirst, Serving
<1>4. FilesInv' /\ OneDown' /\ DownKnown' /\ Behind'
  BY <1>b, <1>1, <1>2, <1>3, RecordKeeps
<1>5. NotAbove'
  BY <1>1 DEF SerialInv, NotAbove
<1>6. ThreadInv'
  BY <1>a, <1>b, <1>1, OneThread DEF Tells, Sends
<1>7. \A p : Sent(a, p)' <=> Sent(a, p)
  BY <1>1 DEF Sent, InBroadcast
<1>8. downList[at[a]] \subseteq downList'[at[a]]
  BY <1>b, <1>1, <1>2 DEF RecordDown, SerialInv, TypeOK
<1>9. TablesInv'
  BY <1>a, <1>1, <1>7, <1>8, SameTables
<1> QED BY <1>4, <1>5, <1>6, <1>9 DEF SerialKept

\* PutFromReplica at q: the value is in the table and the log of q.
LEMMA SendValueKeeps ==
    ASSUME SerialInv, NEW a \in Handler, NEW q \in Server, SendValue(a, q)
    PROVE  SerialKept'
<1>a. pc[a] = "bcastSend" /\ pc[a] \in Busy /\ Serves(q) /\ <<a[1]>> \in Seq(Request)
  BY HandlerFacts DEF SendValue, Reaches, Busy, Sends
<1>b. /\ at[a] \in Server /\ IsFirst(at[a]) /\ todo[a] \subseteq Peers(at[a])
      /\ TablesOf(a) /\ \A b \in Handler : b # a => pc[b] \notin Busy
  BY <1>a, AtWork DEF SerialInv, ThreadInv
<1>1. /\ UNCHANGED <<mode, downList, announce, at, primaryMap, dead>>
      /\ PutValues(q, <<a[1]>>) /\ q \in todo[a] /\ q # at[a] /\ mode[q] # "down"
  BY <1>a, <1>b DEF SendValue, LoopOn, IsNext, Peers, Serves
<1>c. TypeOK /\ FilesInv
  BY DEF SerialInv
<1>2. /\ FilesInv' /\ table'[q] = Replay(table[q], <<a[1]>>)
      /\ \A p \in Server \ {q} :
            /\ table'[p] = table[p] /\ Kept(p)' = Kept(p)
            /\ log'[p] = log[p] /\ marker'[p] = marker[p]
  BY <1>a, <1>c, <1>1, PutKept
<1>3. \A p : (Serves(p)' <=> Serves(p)) /\ (IsFirst(p)' <=> IsFirst(p))
  BY <1>1 DEF Serves, IsFirst, IsNext, Serving
<1>4. OneDown' /\ DownKnown' /\ NotAbove'
  BY <1>1, <1>3 DEF SerialInv, OneDown, DownKnown, NotAbove
<1>5. Behind'
  <2>1. \A f \in Server : IsFirst(f) => f # q
    BY <1>b, <1>1, OneNext, Serving \in SUBSET Server DEF IsFirst, Serving
  <2> QED BY <1>1, <1>2, <1>3, <1>a, <2>1 DEF SerialInv, Behind
<1>6. /\ pc'[a] = "bcast" /\ todo'[a] = todo[a] \ {q}
      /\ \A b \in Handler : b # a => pc'[b] = pc[b]
  BY <1>a, <1>c DEF SendValue, LoopOn, TypeOK
<1>7. pc'[a] \in Busy
  BY <1>6 DEF Busy, Loops
<1>8. ThreadInv'
  BY <1>a, <1>b, <1>1, <1>6, <1>7, OneThread DEF Sends, Tells
<1>9. \A p : Sent(a, p)' <=> Sent(a, p) \/ p = q
  BY <1>a, <1>1, <1>6 DEF Sent, InBroadcast
<1>10. TablesOf(a)'
  <2>1. at'[a] = at[a] /\ table'[at[a]] = table[at[a]]
    BY <1>b, <1>1, <1>2
  <2>2. ASSUME NEW p \in Server, Serves(p)
        PROVE  table'[p] = IF Sent(a, p)' THEN Replay(table[at[a]], <<a[1]>>) ELSE table[at[a]]
    <3>1. CASE p = q
      <4>1. ~Sent(a, q)
        BY <1>1 DEF Sent
      <4>2. table[q] = table[at[a]]
        BY <1>a, <1>b, <4>1 DEF TablesOf, Serving
      <4> QED BY <1>2, <1>9, <3>1, <4>2
    <3>2. CASE p # q
      BY <1>b, <1>2, <1>9, <2>2, <3>2 DEF TablesOf, Serving
    <3> QED BY <3>1, <3>2
  <2>3. \A p \in Server : ~Serves(p) /\ Sent(a, p)' => p \in downList[at[a]]
    BY <1>a, <1>b, <1>9 DEF TablesOf, Serving
  <2> QED BY <1>1, <1>3, <2>1, <2>2, <2>3 DEF TablesOf, Serving
<1>11. TablesInv'
  BY <1>b, <1>6, <1>7, <1>10 DEF TablesInv, Quiet
<1> QED BY <1>2, <1>4, <1>5, <1>8, <1>11 DEF SerialKept

\* The own put_value: every serving server holds the value, and the log has it
\* behind the marker of each replica that does not.
LEMMA StoreOwnKeeps ==
    ASSUME SerialInv, NEW a \in Handler, StoreOwn(a)
    PROVE  /\ SerialKept' /\ Quiet'
           /\ table'[at[a]] = Replay(table[at[a]], <<a[1]>>)
<1>a. pc[a] = "bcast" /\ pc[a] \in Busy /\ <<a[1]>> \in Seq(Request)
  BY HandlerFacts DEF StoreOwn, Busy, Loops
<1>b. /\ at[a] \in Server /\ IsFirst(at[a]) /\ Serves(at[a])
      /\ TablesOf(a) /\ \A b \in Handler : b # a => pc[b] \notin Busy
      /\ \A p \in Server : mode[p] \in {"down", "serving"}
  BY <1>a, AtWork
<1>c. TypeOK /\ FilesInv
  BY DEF SerialInv
<1> DEFINE f == at[a]
           es == <<a[1]>>
<1>1. /\ UNCHANGED <<mode, downList, announce, at, primaryMap, dead>>
      /\ PutValues(f, es) /\ todo[a] = {} /\ mode[f] # "down"
  BY <1>b DEF StoreOwn, Serves
<1>d. f \in Server /\ es \in Seq(Request)
  BY <1>a, <1>b
<1> HIDE DEF es
<1>2. /\ FilesInv' /\ table'[f] = Replay(table[f], es)
      /\ \A p \in Server \ {f} :
            /\ table'[p] = table[p] /\ Kept(p)' = Kept(p)
            /\ log'[p] = log[p] /\ marker'[p] = marker[p]
      /\ downList[f] # {} => log'[f] = log[f] \o es /\ marker'[f] = marker[f]
  BY <1>c, <1>d, <1>1, PutKept
<1>3. \A p : (Serves(p)' <=> Serves(p)) /\ (IsFirst(p)' <=> IsFirst(p))
  BY <1>1 DEF Serves, IsFirst, IsNext, Serving
<1>4. OneDown' /\ DownKnown' /\ NotAbove'
  BY <1>1, <1>3 DEF SerialInv, OneDown, DownKnown, NotAbove
<1>5. \A p \in Server : p # f => Sent(a, p)
  BY <1>a, <1>1 DEF Sent, InBroadcast
<1>6. ASSUME NEW p \in Server, NEW g \in Server, ~Serves(p), IsFirst(g)
      PROVE  /\ ~(mode'[p] = "announcing" \/ p \notin downList'[g])
             /\ Replay(Kept(p)', After(log'[g], marker'[g][p])) = table'[g]
  <2>1. g = f /\ p # f
    BY <1>b, <1>6, OneNext, Serving \in SUBSET Server DEF IsFirst, Serving
  <2>2. p \in downList[f]
    BY <1>b, <1>5, <1>6, <2>1 DEF TablesOf, Serving
  <2>3. mode[p] = "down"
    BY <1>b, <1>6 DEF Serves
  <2> DEFINE m  == marker[f][p]
             fs == After(log[f], m)
  <2>4. Replay(Kept(p), fs) = table[f]
    BY <1>6, <2>1, <2>2, <2>3 DEF SerialInv, Behind
  <2>5. /\ log[f] \in Seq(Request) /\ m \in Nat /\ m <= Len(log[f])
        /\ Kept(p) \in [User -> Values] /\ log'[f] = log[f] \o es /\ marker'[f] = marker[f]
    BY <1>b, <1>c, <1>2, <2>2, KeptType
       DEF SerialInv, MarkInv, PassedOverIsMarked, TypeOK
  <2> HIDE DEF m
  <2>6. fs \in Seq(Request) /\ After(log[f] \o es, m) = fs \o es
    BY <1>d, <2>5, AfterConcat, AfterType
  <2> HIDE DEF fs
  <2>7. Replay(Replay(Kept(p), fs), es) = Replay(Kept(p), fs \o es)
    BY <1>d, <2>5, <2>6, ReplayConcat
  <2>8. Replay(Kept(p), After(log'[f], m)) = table'[f]
    BY <1>2, <2>4, <2>5, <2>6, <2>7
  <2> QED BY <1>1, <1>2, <2>1, <2>2, <2>3, <2>5, <2>8 DEF m
<1>7. Behind'
  BY <1>3, <1>6 DEF Behind
<1>8. pc'[a] = "returned" /\ \A b \in Handler : b # a => pc'[b] = pc[b]
  BY <1>c DEF StoreOwn, TypeOK
<1>9. Quiet' /\ ThreadInv'
  <2>1. \A b \in Handler : pc'[b] \notin Busy
    BY <1>b, <1>8 DEF Busy, Waiting, Loops, Sends, Tells
  <2> QED BY <2>1 DEF Quiet, ThreadInv
<1>10. TablesInv'
  <2>1. \A p \in Server : Serves(p) => table'[p] = table'[f]
    BY <1>b, <1>2, <1>5 DEF TablesOf, Serving, es
  <2> QED BY <1>3, <1>9, <2>1 DEF TablesInv, Serving, Quiet
<1> QED BY <1>2, <1>4, <1>7, <1>9, <1>10 DEF SerialKept, es

\* What cannot happen: the first serving server knows no other primary that
\* serves, a replica dies between a heartbeat and an RPC, a server that serves
\* is told that it is down.
LEMMA HandlerNever ==
    ASSUME OneClientAtFirst, SerialInv, NEW a \in Handler
    PROVE  /\ ~Report(a) /\ ~ReportFails(a) /\ ~ReportReturns(a)
           /\ \A q \in Server : ~SendLost(a, q) /\ ~TellItself(a, q)
<1>1. ASSUME Report(a) PROVE FALSE
  <2> DEFINE p == primaryMap[at[a]][Row(a)]
  <2>1. pc[a] \in Busy /\ p \notin {None, at[a]} /\ Serves(p) /\ Row(a) \in User
    BY <1>1, HandlerFacts DEF Report, Reaches, Busy, Waiting
  <2>2. at[a] \in Server /\ at[a] \in Nat /\ \A q \in Server : Serves(q) => at[a] <= q
    BY <2>1, AtWork
  <2>3. p \in Server /\ p \in Nat /\ p <= at[a]
    <3>1. p \in Server
      BY <2>1, <2>2 DEF SerialInv, TypeOK
    <3>2. p <= at[a]
      BY <2>1, <2>2 DEF SerialInv, NotAbove
    <3> QED BY <3>1, <3>2, ServerAssumption
  <2> QED BY <2>1, <2>2, <2>3
<1>2. ASSUME pc[a] = "reporting" PROVE FALSE
  BY <1>2, AtWork DEF Busy, Waiting
<1>3. ASSUME NEW q \in Server, SendLost(a, q) PROVE FALSE
  <2>1. pc[a] \in Busy /\ pc[a] \in Sends /\ IsNext(q, todo[a]) /\ ~Serves(q)
    BY <1>3 DEF SendLost, LoopOn, Fails, OneClientAtFirst, Busy
  <2> QED BY <2>1 DEF SerialInv, ThreadInv
<1>4. ASSUME NEW q \in Server, TellItself(a, q) PROVE FALSE
  <2>1. pc[a] \in Busy /\ pc[a] \in Tells /\ Serves(dead[a])
    BY <1>4 DEF TellItself, Reaches, Busy
  <2> QED BY <2>1 DEF SerialInv, ThreadInv
<1> QED BY <1>1, <1>2, <1>3, <1>4 DEF ReportFails, ReportReturns

LEMMA HandlerKeeps ==
    ASSUME OneClientAtFirst, SerialInv, NEW a \in Handler, HandlerStep(a)
    PROVE  SerialKept'
<1>1. CASE NoPrimary(a) \/ ReportRefused(a)
  BY <1>1, SelectKeeps DEF NoPrimary, ReportRefused
<1>2. CASE IsPrimary(a) \/ SelectEnds(a)
  BY <1>2, BroadcastKeeps DEF IsPrimary, SelectEnds
<1>3. CASE TellEnds(a)
  BY <1>3, TellKeeps
<1>4. CASE StoreOwn(a)
  BY <1>4, StoreOwnKeeps
<1>5. ASSUME NEW q \in Server,
             \/ SkipDown(a, q) \/ HeartbeatAnswers(a, q) \/ HeartbeatFails(a, q)
             \/ SendPrimary(a, q) \/ SendValue(a, q)
             \/ TellSkips(a, q) \/ TellDown(a, q)
      PROVE  SerialKept'
  BY <1>5, LoopKeeps, HeartbeatFailsKeeps, SendPrimaryKeeps, SendValueKeeps,
     TellKeeps, TellDownKeeps
<1> QED BY <1>1, <1>2, <1>3, <1>4, <1>5, HandlerNever DEF HandlerStep

-----------------------------------------------------------------------------
(* Clients, crashes and restarts.                                          *)

\* A PUT arrives at the first serving server.
LEMMA ClientKeeps ==
    ASSUME OneClientAtFirst, SerialInv, NEW r \in Request, NEW s \in Server, ClientPut(r, s)
    PROVE  SerialKept'
<1> DEFINE a == <<r, 1>>
<1>1. a \in Handler /\ a[1] = r /\ a[2] = 1
  BY BoundAssumption DEF Handler
<1> HIDE DEF a
<1>2. /\ UNCHANGED <<mode, downList, table, disk, announce, primaryMap, todo>>
      /\ pc' = [pc EXCEPT ![a] = "arrived"] /\ at' = [at EXCEPT ![a] = s]
      /\ Quiet /\ IsFirst(s)
      /\ \A p \in Server : mode[p] \in {"down", "serving"}
  BY DEF ClientPut, PutArrives, OneClientAtFirst, Settled, IsFirst, memory, a
<1>3. FilesInv' /\ OneDown' /\ DownKnown' /\ Behind' /\ NotAbove'
  <2>1. NotAbove'
    BY <1>2 DEF SerialInv, NotAbove
  <2> QED BY <1>2, <2>1, SameFiles
<1>4. /\ pc'[a] = "arrived" /\ at'[a] = s
      /\ \A b \in Handler : pc'[b] \in Busy => b = a
  BY <1>1, <1>2 DEF Quiet, SerialInv, TypeOK
<1>5. \A p : (Serves(p)' <=> Serves(p)) /\ (IsFirst(p)' <=> IsFirst(p))
  BY <1>2 DEF Serves, IsFirst, IsNext, Serving
<1>6. IsFirst(at[a])'
  BY <1>2, <1>4 DEF IsFirst, IsNext, Serving, Serves
<1>7. ThreadInv'
  <2> SUFFICES ASSUME NEW b \in Handler, pc'[b] \in Busy
               PROVE  (/\ b[2] = 1 /\ pc[b] # "reporting"
                       /\ IsFirst(at[b])
                       /\ pc[b] # "arrived" => todo[b] \subseteq Peers(at[b])
                       /\ pc[b] \in Sends => \A q \in Server : IsNext(q, todo[b]) => Serves(q)
                       /\ pc[b] \in Tells => ~Serves(dead[b])
                       /\ \A c \in Handler : pc[c] \in Busy => b = c
                       /\ \A p \in Server : mode[p] \in {"down", "serving"})'
    BY DEF ThreadInv
  <2>1. b = a
    BY <1>4
  <2> QED BY <1>1, <1>2, <1>4, <1>6, <2>1 DEF Sends, Tells
<1>8. TablesInv'
  <2>1. \A p : ~Sent(a, p)'
    BY <1>4 DEF Sent, InBroadcast
  <2>2. \A p, q \in Serving : table[p] = table[q]
    BY <1>2 DEF SerialInv, TablesInv
  <2>3. s \in Serving
    BY <1>2 DEF IsFirst, IsNext
  <2>4. TablesOf(a)'
    BY <1>2, <1>4, <1>5, <2>1, <2>2, <2>3 DEF TablesOf, Serving
  <2>5. ~Quiet'
    BY <1>1, <1>4 DEF Quiet, Busy, Waiting
  <2> QED BY <1>4, <2>4, <2>5 DEF TablesInv
<1> QED BY <1>3, <1>7, <1>8 DEF SerialKept

\* Between PUTs no thread runs.
LEMMA QuietThreads ==
    ASSUME Quiet, UNCHANGED pc
    PROVE  Quiet' /\ ThreadInv'
BY DEF Quiet, ThreadInv

\* A server crashes while all the others serve: its files hold what they hold.
LEMMA CrashKeeps ==
    ASSUME OneClientAtFirst, SerialInv, NEW s \in Server, SerialCrash(s)
    PROVE  SerialKept'
<1>0. TypeOK /\ FilesInv
  BY DEF SerialInv
<1>1. /\ Quiet /\ \A p \in Server : Serves(p)
      /\ mode' = [mode EXCEPT ![s] = "down"]
      /\ primaryMap' = [primaryMap EXCEPT ![s] = NoValues]
      /\ downList' = [downList EXCEPT ![s] = {}]
      /\ table' = [table EXCEPT ![s] = NoValues]
      /\ announce' = [announce EXCEPT ![s] = {}]
      /\ UNCHANGED <<log, marker, ckptAt, ckpt>>
  BY DEF SerialCrash, Crash, Kill, disk, OneClientAtFirst, Serving
<1>2. UNCHANGED pc
  <2>1. pc' = [a \in Handler |-> IF RunsAt(a, s) THEN "aborted" ELSE pc[a]]
    BY DEF SerialCrash, Crash, Kill
  <2>2. \A a \in Handler : ~RunsAt(a, s)
    BY <1>1 DEF Quiet, RunsAt
  <2> QED BY <1>0, <2>1, <2>2 DEF TypeOK
<1>3. Quiet' /\ ThreadInv'
  BY <1>1, <1>2, QuietThreads
<1>4. \A p \in Server : /\ Kept(p)' = Kept(p)
                        /\ Serves(p)' <=> p # s
  BY <1>0, <1>1 DEF Kept, Serves, TypeOK
<1>5. \A p \in Server : downList'[p] = {}
  BY <1>0, <1>1 DEF SerialInv, DownKnown, TypeOK
<1>6. FilesInv'
  BY <1>0, <1>1, <1>4 DEF FilesInv, TypeOK
<1>7. OneDown' /\ DownKnown'
  BY <1>4, <1>5 DEF OneDown, DownKnown
<1>8. NotAbove'
  BY <1>0, <1>1 DEF SerialInv, NotAbove, NoValues, TypeOK
<1>9. \A p \in Server : table[p] = table[s] /\ (p # s => table'[p] = table[p])
  BY <1>0, <1>1 DEF SerialInv, TablesInv, Serving, TypeOK
<1>10. TablesInv'
  BY <1>3, <1>4, <1>9 DEF TablesInv, Serving, Quiet
<1>11. Behind'
  <2>1. Kept(s) = table[s]
    BY <1>0, <1>1 DEF FilesInv, Serves
  <2>2. \A f \in Server : IsFirst(f)' => f # s
    BY <1>4 DEF IsFirst, IsNext, Serving
  <2> QED BY <1>4, <1>5, <1>9, <2>1, <2>2 DEF Behind
<1> QED BY <1>3, <1>6, <1>7, <1>8, <1>10, <1>11 DEF SerialKept

\* ParseMetaData and ParseLogFile load what the files hold.
LEMMA RestartKeeps ==
    ASSUME SerialInv, Quiet, NEW s \in Server, Restart(s)
    PROVE  SerialKept'
<1>0. TypeOK /\ FilesInv
  BY DEF SerialInv
<1>1. /\ mode[s] = "down" /\ mode' = [mode EXCEPT ![s] = "booting"]
      /\ UNCHANGED <<primaryMap, downList, announce, pc, log, marker, ckptAt, ckpt>>
      /\ table' = [table EXCEPT ![s] = Kept(s)]
  <2>1. ckptAt[s] # None
    BY <1>0, NoneAssumption DEF FilesInv
  <2> QED BY <2>1 DEF Restart, disk, threads, Kept
<1>2. Quiet' /\ ThreadInv'
  BY <1>1, QuietThreads
<1>3. \A p \in Server : /\ Kept(p)' = Kept(p)
                        /\ (Serves(p)' <=> Serves(p)) /\ (IsFirst(p)' <=> IsFirst(p))
                        /\ p # s => mode'[p] = mode[p] /\ table'[p] = table[p]
                        /\ mode'[p] = "announcing" <=> mode[p] = "announcing"
  BY <1>0, <1>1 DEF Kept, Serves, IsFirst, IsNext, Serving, TypeOK
<1>4. FilesInv'
  BY <1>0, <1>1, <1>3 DEF FilesInv, TypeOK
<1>5. OneDown' /\ DownKnown' /\ NotAbove'
  <2>1. OneDown' /\ NotAbove'
    BY <1>1, <1>3 DEF SerialInv, OneDown, NotAbove
  <2>2. DownKnown'
    BY <1>0, <1>1, <1>3 DEF SerialInv, DownKnown, TypeOK
  <2> QED BY <2>1, <2>2
<1>6. ~Serves(s)
  BY <1>1 DEF Serves
<1>7. TablesInv'
  BY <1>2, <1>3, <1>6 DEF SerialInv, TablesInv, Serving, Quiet
<1>8. Behind'
  <2>1. \A f \in Server : IsFirst(f) => f # s
    BY <1>6 DEF IsFirst, IsNext, Serving
  <2> QED BY <1>1, <1>3, <2>1 DEF SerialInv, Behind
<1> QED BY <1>2, <1>4, <1>5, <1>7, <1>8 DEF SerialKept

\* With nobody to fetch from there is nobody to agree with.
LEMMA FetchNothingKeeps ==
    ASSUME SerialInv, Quiet, NEW s \in Server, FetchNothing(s)
    PROVE  SerialKept'
<1>0. TypeOK /\ FilesInv
  BY DEF SerialInv
<1>1. /\ mode[s] = "booting" /\ mode' = [mode EXCEPT ![s] = "announcing"]
      /\ UNCHANGED <<primaryMap, downList, table, pc, log, marker, ckptAt, ckpt>>
      /\ announce' = [announce EXCEPT ![s] = Peers(s)]
      /\ \A q \in Peers(s) : ~Serves(q)
  BY DEF FetchNothing, Fetched, memory, disk, threads
<1>2. Quiet' /\ ThreadInv'
  BY <1>1, QuietThreads
<1>3. \A p \in Server : ~Serves(p) /\ ~Serves(p)'
  BY <1>0, <1>1 DEF Serves, Peers, TypeOK
<1>4. FilesInv'
  BY <1>0, <1>1 DEF FilesInv, Kept, TypeOK
<1>5. OneDown' /\ DownKnown' /\ NotAbove'
  <2>1. OneDown' /\ NotAbove'
    BY <1>1, <1>3 DEF SerialInv, OneDown, NotAbove
  <2>2. \A p \in Server : downList[p] = {}
    BY <1>3 DEF SerialInv, DownKnown
  <2>3. DownKnown'
    BY <1>1, <2>2 DEF DownKnown
  <2> QED BY <2>1, <2>3
<1>6. TablesInv' /\ Behind'
  <2>1. TablesInv'
    BY <1>2, <1>3 DEF TablesInv, Serving, Quiet
  <2>2. Behind'
    BY <1>3 DEF Behind, IsFirst, IsNext, Serving
  <2> QED BY <2>1, <2>2
<1> QED BY <1>2, <1>4, <1>5, <1>6 DEF SerialKept

\* Recover: afterwards the restarting server holds what the first serving one
\* holds.  With a marker in use it gets what it misses; with one that is out of
\* date, or none, it gets the end of a log whose last values it already holds.
LEMMA FetchMissingKeeps ==
    ASSUME SerialInv, Quiet, NEW s \in Server, NEW q \in Server, FetchMissing(s, q)
    PROVE  SerialKept'
<1>0. TypeOK /\ FilesInv
  BY DEF SerialInv
<1>1. /\ mode[s] = "booting" /\ mode' = [mode EXCEPT ![s] = "announcing"]
      /\ UNCHANGED <<primaryMap, downList, pc>>
      /\ announce' = [announce EXCEPT ![s] = Peers(s)]
      /\ IsNext(q, {p \in Peers(s) : Serves(p)})
  BY DEF FetchMissing, Fetched, threads
<1>2. Quiet' /\ ThreadInv'
  BY <1>1, QuietThreads
<1>3. Serves(q) /\ q # s /\ ~Serves(s) /\ IsFirst(q)
  BY <1>1 DEF IsFirst, IsNext, Serving, Serves, Peers
<1>4. \A p \in Server : (Serves(p)' <=> Serves(p)) /\ (IsFirst(p)' <=> IsFirst(p))
  BY <1>0, <1>1 DEF Serves, IsFirst, IsNext, Serving, TypeOK
<1>5. PICK n \in IF marker[q][s] = None THEN 0 .. Len(log[q]) ELSE {marker[q][s]} :
          PutValues(s, After(log[q], n))
  BY DEF FetchMissing
<1>6. n \in Nat /\ log[q] \in Seq(Request)
  BY <1>0, LenProperties DEF TypeOK
<1> DEFINE es == After(log[q], n)
<1>7. es \in Seq(Request)
  BY <1>6, AfterType
<1>8. Replay(table[s], es) = table[q]
  <2>1. table[s] = Kept(s) /\ table[q] = Kept(q) /\ table[q] \in [User -> Values]
    BY <1>0, <1>1, <1>3, KeptType DEF FilesInv, Serves
  <2>2. CASE s \in downList[q]
    <3>1. marker[q][s] # None
      BY <2>2 DEF SerialInv, MarkInv, PassedOverIsMarked
    <3>2. n = marker[q][s]
      BY <1>5, <3>1
    <3>3. Replay(Kept(s), After(log[q], marker[q][s])) = table[q]
      BY <1>1, <1>3, <2>2 DEF SerialInv, Behind
    <3> QED BY <2>1, <3>2, <3>3
  <2>3. CASE s \notin downList[q]
    <3>1. Kept(s) = table[q]
      BY <1>3, <2>3 DEF SerialInv, Behind
    <3>2. \A u \in User, i \in DOMAIN log[q] : IsLastPut(log[q], u, i) => table[q][u] = log[q][i]
      BY <1>0, <2>1 DEF FilesInv
    <3>3. Replay(table[q], After(log[q], n)) = table[q]
      BY <1>6, <2>1, <3>2, ReplaySuffix
    <3> QED BY <2>1, <3>1, <3>3
  <2> QED BY <2>2, <2>3
<1> HIDE DEF es
<1>9. /\ FilesInv' /\ table'[s] = Replay(table[s], es) /\ Kept(s)' = table'[s]
      /\ \A p \in Server \ {s} :
            /\ table'[p] = table[p] /\ Kept(p)' = Kept(p)
            /\ log'[p] = log[p] /\ marker'[p] = marker[p]
  <2>1. \A p \in Server : mode'[p] # "down" => mode[p] # "down"
    BY <1>0, <1>1 DEF TypeOK
  <2>2. PutValues(s, es) /\ mode[s] # "down"
    BY <1>1, <1>5 DEF es
  <2> QED BY <1>0, <1>7, <2>1, <2>2, PutKept
<1>10. OneDown' /\ DownKnown' /\ NotAbove'
  <2>1. OneDown' /\ NotAbove'
    BY <1>1, <1>4 DEF SerialInv, OneDown, NotAbove
  <2>2. \A p \in Server : s \in downList[p] => p # s
    BY <1>3 DEF SerialInv, DownKnown
  <2>3. DownKnown'
    BY <1>0, <1>1, <1>4, <2>2 DEF SerialInv, DownKnown, Peers, TypeOK
  <2> QED BY <2>1, <2>3
<1>11. TablesInv'
  BY <1>2, <1>3, <1>4, <1>9 DEF SerialInv, TablesInv, Serving, Quiet
<1>12. Behind'
  <2> SUFFICES ASSUME NEW p \in Server, NEW f \in Server, ~Serves(p)', IsFirst(f)'
               PROVE  mode'[p] = "announcing" /\ Kept(p)' = table'[f]
    BY DEF Behind
  <2>1. p = s
    BY <1>3, <1>4 DEF SerialInv, OneDown
  <2>2. f = q
    BY <1>3, <1>4, OneNext, Serving \in SUBSET Server DEF IsFirst, Serving
  <2>3. mode'[s] = "announcing"
    BY <1>0, <1>1 DEF TypeOK
  <2> QED BY <1>3, <1>8, <1>9, <2>1, <2>2, <2>3
<1> QED BY <1>2, <1>9, <1>10, <1>11, <1>12 DEF SerialKept

\* "I am back": the server is crossed off one list after the other.
LEMMA AnnounceKeeps ==
    ASSUME SerialInv, Quiet, NEW s \in Server, NEW q \in Server, Announce(s, q)
    PROVE  SerialKept'
<1>0. TypeOK /\ FilesInv
  BY DEF SerialInv
<1>1. /\ mode[s] = "announcing"
      /\ UNCHANGED <<mode, primaryMap, table, pc, log, marker, ckptAt, ckpt>>
      /\ announce' = [announce EXCEPT ![s] = @ \ {q}]
      /\ downList' = IF Serves(q) THEN [downList EXCEPT ![q] = @ \ {s}] ELSE downList
  BY DEF Announce, disk, threads
<1>2. Quiet' /\ ThreadInv'
  BY <1>1, QuietThreads
<1>3. \A p : /\ Kept(p)' = Kept(p)
             /\ (Serves(p)' <=> Serves(p)) /\ (IsFirst(p)' <=> IsFirst(p))
  BY <1>1 DEF Kept, Serves, IsFirst, IsNext, Serving
<1>4. FilesInv' /\ OneDown' /\ NotAbove' /\ TablesInv'
  BY <1>1, <1>2, <1>3 DEF SerialInv, FilesInv, OneDown, NotAbove, TablesInv, Serving, Quiet
<1>5. DownKnown'
  <2>1. /\ \A p \in Server : downList'[p] \subseteq downList[p]
        /\ \A p \in Server \ {s} : announce'[p] = announce[p]
        /\ announce'[s] = announce[s] \ {q}
    BY <1>0, <1>1 DEF TypeOK
  <2>2. s \notin downList'[q]
    BY <1>0, <1>1 DEF SerialInv, DownKnown, TypeOK
  <2>3. ASSUME NEW p \in Server, NEW r \in downList'[p], mode'[r] = "announcing"
        PROVE  p \in announce'[r]
    <3>1. r \in downList[p] /\ r \in Server /\ p \in announce[r]
      BY <1>0, <1>1, <2>1, <2>3 DEF SerialInv, DownKnown, TypeOK
    <3> QED BY <2>1, <2>2, <2>3, <3>1
  <2> QED BY <1>3, <2>1, <2>3 DEF SerialInv, DownKnown
<1>6. Behind'
  <2>1. ~Serves(s)
    BY <1>1 DEF Serves
  <2> SUFFICES ASSUME NEW p \in Server, NEW f \in Server, ~Serves(p), IsFirst(f)
               PROVE  mode'[p] = "announcing" /\ Kept(p)' = table'[f]
    BY <1>3 DEF Behind
  <2>2. p = s
    BY <2>1 DEF SerialInv, OneDown
  <2> QED BY <1>1, <1>3, <2>2 DEF SerialInv, Behind
<1> QED BY <1>2, <1>4, <1>5, <1>6 DEF SerialKept

\* The serving servers have a first one.
LEMMA FirstExists ==
    ASSUME Serving # {}
    PROVE  \E f \in Server : IsFirst(f)
<1>1. Serving \in SUBSET Nat
  BY ServerAssumption DEF Serving
<1>2. PICK f \in Serving : \A q \in Serving : f <= q
  BY <1>1, Least
<1> QED BY <1>2 DEF IsFirst, IsNext, Serving

\* BuildAndStart: the server that was down is one of the group again.
LEMMA ListenKeeps ==
    ASSUME SerialInv, Quiet, NEW s \in Server, Listen(s)
    PROVE  SerialKept'
<1>0. TypeOK /\ FilesInv
  BY DEF SerialInv
<1>1. /\ mode[s] = "announcing" /\ announce[s] = {}
      /\ mode' = [mode EXCEPT ![s] = "serving"]
      /\ UNCHANGED <<primaryMap, downList, table, announce, pc, log, marker, ckptAt, ckpt>>
  BY DEF Listen, memory, disk, threads
<1>2. Quiet' /\ ThreadInv'
  BY <1>1, QuietThreads
<1>3. \A p : Kept(p)' = Kept(p)
  BY <1>1 DEF Kept
<1>4. ~Serves(s) /\ \A p \in Server : Serves(p)' /\ (p # s => Serves(p))
  BY <1>0, <1>1 DEF SerialInv, OneDown, Serves, TypeOK
<1>5. FilesInv'
  BY <1>0, <1>1, <1>3 DEF FilesInv, TypeOK
<1>6. OneDown' /\ NotAbove'
  BY <1>1, <1>4 DEF SerialInv, OneDown, NotAbove
<1>7. DownKnown'
  <2>1. \A p \in Server : downList[p] = {}
    <3> SUFFICES ASSUME NEW p \in Server, NEW q \in downList[p] PROVE FALSE
      OBVIOUS
    <3>1. q \in Server /\ ~Serves(q)
      BY <1>0 DEF SerialInv, DownKnown, TypeOK
    <3>2. q = s
      BY <1>4, <3>1
    <3> QED BY <1>1, <3>2 DEF SerialInv, DownKnown
  <2> QED BY <1>1, <2>1 DEF DownKnown
<1>8. \A p \in Server : p # s => table[p] = table[s]
  <2> SUFFICES ASSUME NEW p \in Server, p # s PROVE table[p] = table[s]
    OBVIOUS
  <2>1. Serves(p)
    BY <1>4
  <2>2. PICK f \in Server : IsFirst(f)
    BY <2>1, FirstExists DEF Serving
  <2>3. table[p] = table[f]
    BY <2>1, <2>2 DEF SerialInv, TablesInv, IsFirst, IsNext, Serving
  <2>4. Kept(s) = table[f]
    BY <1>1, <1>4, <2>2 DEF SerialInv, Behind
  <2>5. table[s] = Kept(s)
    BY <1>0, <1>1 DEF FilesInv
  <2> QED BY <2>3, <2>4, <2>5
<1>9. TablesInv' /\ Behind'
  <2>1. TablesInv'
    BY <1>1, <1>2, <1>8 DEF TablesInv, Serving, Quiet
  <2>2. Behind'
    BY <1>4 DEF Behind
  <2> QED BY <2>1, <2>2
<1> QED BY <1>2, <1>5, <1>6, <1>7, <1>9 DEF SerialKept

-----------------------------------------------------------------------------
(* The theorems.                                                           *)

LEMMA SerialStart == SerialInit => SerialInv
<1> SUFFICES ASSUME AllUp(0) PROVE SerialInv
  BY DEF SerialInit
<1>1. TypeOK /\ MarkInv
  BY InitType, InitMark
<1>2. \A s \in Server : /\ log[s] = << >> /\ ckptAt[s] = 0 /\ ckpt[s] = NoValues
                        /\ table[s] = NoValues /\ downList[s] = {} /\ Serves(s)
                        /\ primaryMap[s] = NoValues
  BY DEF AllUp, Serves
<1>3. Quiet
  BY DEF AllUp, Quiet, Busy, Waiting, Loops, Sends, Tells
<1>4. NoValues \in [User -> Values]
  BY DEF NoValues, Values
<1>5. After(<< >>, 0) = << >> /\ Len(<< >>) = 0 /\ DOMAIN << >> = {}
  <2>1. << >> \in Seq(Request)
    BY EmptySeq
  <2>2. After(<< >>, 0) = << >>
    BY <2>1, AfterAll, Zenon
  <2>3. Len(<< >>) = 0 /\ DOMAIN << >> = {}
    OBVIOUS
  <2> QED BY <2>2, <2>3
<1>6. \A s \in Server : Kept(s) = NoValues
  BY <1>2, <1>4, <1>5, ReplayEmpty DEF Kept
<1>7. FilesInv
  BY <1>2, <1>5, <1>6 DEF FilesInv
<1>8. OneDown /\ DownKnown /\ NotAbove
  BY <1>2 DEF OneDown, DownKnown, NotAbove, NoValues
<1>9. ThreadInv /\ TablesInv /\ Behind
  BY <1>2, <1>3 DEF ThreadInv, TablesInv, Behind, Quiet, Serving
<1> QED BY <1>1, <1>7, <1>8, <1>9 DEF SerialInv

LEMMA SerialSteps == OneClientAtFirst /\ SerialInv /\ [SerialNext]_vars => SerialInv'
<1> SUFFICES ASSUME OneClientAtFirst, SerialInv, [SerialNext]_vars PROVE SerialInv'
  OBVIOUS
<1>1. [Next]_vars
  BY DEF SerialNext, Next, ClientPut, SerialBoot, SerialCrash, Wait
<1>2. TypeOK' /\ MarkInv'
  BY <1>1, NextType, NextMark DEF SerialInv
<1>3. SUFFICES SerialKept'
  BY <1>2 DEF SerialInv, SerialKept
<1>4. CASE UNCHANGED vars
  <2>1. UNCHANGED <<mode, memory, disk, announce, threads>>
    BY <1>4 DEF vars
  <2>2. UNCHANGED <<mode, downList, table, disk, announce, primaryMap, pc, at, todo, dead>>
    BY <2>1 DEF memory, threads
  <2>3. FilesInv' /\ OneDown' /\ DownKnown' /\ Behind'
    BY <2>2, SameFiles
  <2>4. NotAbove'
    BY <2>2 DEF SerialInv, NotAbove
  <2>5. ThreadInv'
    BY <2>2 DEF SerialInv, ThreadInv, IsFirst, IsNext, Serving, Serves, Peers
  <2>6. TablesInv'
    BY <2>2 DEF SerialInv, TablesInv, TablesOf, Sent, InBroadcast, Serving, Serves, Quiet
  <2> QED BY <2>3, <2>4, <2>5, <2>6 DEF SerialKept
<1>5. ASSUME NEW s \in Server, SerialBoot(s) PROVE SerialKept'
  <2>1. Quiet
    BY <1>5 DEF SerialBoot, OneClientAtFirst
  <2> QED BY <1>5, <2>1, RestartKeeps, FetchNothingKeeps, ListenKeeps, FetchMissingKeeps,
             AnnounceKeeps DEF SerialBoot, BootStep
<1> QED BY <1>4, <1>5, ClientKeeps, HandlerKeeps, CrashKeeps DEF SerialNext, Wait

\* In a group of any size that one client uses at a time, and whose servers
\* crash one at a time between its PUTs: when no PUT is under way and nobody
\* restarts, every serving server holds the same values, also one that was down.
THEOREM ServingServersAgree ==
    ASSUME OneClientAtFirst
    PROVE  SerialSpec => []ServingAgree
<1>1. SerialInv => ServingAgree
  BY DEF SerialInv, TablesInv, ServingAgree, Settled
<1>2. SerialInv /\ [SerialNext]_vars => SerialInv'
  BY SerialSteps
<1> QED BY <1>1, <1>2, SerialStart, PTL DEF SerialSpec

-----------------------------------------------------------------------------
(* The group implements one store: SingleStore.tla.                        *)

LEMMA FirstIs ==
    ASSUME NEW f \in Server
    PROVE  /\ IsFirst(f) => FirstServing = f
           /\ IsFirst(f)' => FirstServing' = f
<1>1. ASSUME IsFirst(f) PROVE FirstServing = f
  <2>1. \A g \in Server : IsNext(g, Serving) <=> g = f
    BY <1>1, OneNext, Serving \in SUBSET Server DEF IsFirst, Serving
  <2> QED BY <2>1 DEF FirstServing
<1>2. ASSUME IsFirst(f)' PROVE FirstServing' = f
  <2> DEFINE T == Serving'
  <2>1. T \in SUBSET Server /\ IsNext(f, T)
    BY <1>2 DEF Serving, IsFirst, IsNext
  <2> HIDE DEF T
  <2>2. \A g \in Server : IsNext(g, T) <=> g = f
    BY <2>1, OneNext
  <2>3. (CHOOSE g \in Server : IsNext(g, T)) = f
    BY <2>2
  <2> QED BY <2>3 DEF FirstServing, T, IsNext
<1> QED BY <1>1, <1>2

\* With two servers or more one serves, now and after a step.
LEMMA HasFirst ==
    ASSUME \E s, t \in Server : s # t
    PROVE  /\ SerialInv => \E f \in Server : IsFirst(f)
           /\ SerialInv' => \E f \in Server : IsFirst(f)'
<1>1. ASSUME SerialInv PROVE \E f \in Server : IsFirst(f)
  BY <1>1, FirstExists DEF SerialInv, OneDown, Serving
<1>2. ASSUME SerialInv' PROVE \E f \in Server : IsFirst(f)'
  <2>1. Serving' # {} /\ Serving' \in SUBSET Nat
    BY <1>2, ServerAssumption DEF SerialInv, OneDown, Serving
  <2>2. PICK f \in Serving' : \A q \in Serving' : f <= q
    BY <2>1, Least
  <2> QED BY <2>2 DEF IsFirst, IsNext, Serving
<1> QED BY <1>1, <1>2

StoreStep == [Single!Next]_(Single!vars)

\* A step that leaves the first serving server, its table and the PUTs that
\* returned alone is no step of the store.
LEMMA StoreStutters ==
    ASSUME NEW f \in Server, NEW g \in Server, IsFirst(f), IsFirst(g)',
           table'[g] = table[f],
           \A r \in Request : pc'[<<r, 1>>] = "returned" <=> pc[<<r, 1>>] = "returned"
    PROVE  StoreStep
<1>1. FirstServing = f /\ FirstServing' = g
  BY FirstIs
<1>2. {r \in Request : Acked(r)}' = {r \in Request : Acked(r)}
  BY DEF Acked
<1>3. table[FirstServing]' = table[FirstServing]
  BY <1>1
<1> QED BY <1>2, <1>3 DEF StoreStep, Single!vars

\* The own put_value is the PUT of the store.
LEMMA StoreOwnPuts ==
    ASSUME SerialInv, NEW a \in Handler, StoreOwn(a)
    PROVE  StoreStep
<1> DEFINE f == at[a]
           r == a[1]
<1>1. pc[a] = "bcast" /\ pc[a] \in Busy /\ pc' = [pc EXCEPT ![a] = "returned"]
      /\ UNCHANGED <<mode, at>>
  BY DEF StoreOwn, Busy, Loops
<1>2. f \in Server /\ IsFirst(f) /\ a[2] = 1 /\ r \in Request
  BY <1>1, AtWork, HandlerFacts
<1>3. IsFirst(f)'
  BY <1>1, <1>2 DEF IsFirst, IsNext, Serving, Serves
<1>4. FirstServing = f /\ FirstServing' = f
  <2>1. at'[a] = at[a]
    BY <1>1
  <2> HIDE DEF f
  <2>2. IsFirst(f) /\ f \in Server /\ FirstServing = f
    BY <1>2, FirstIs
  <2> QED BY <1>1, <2>2 DEF FirstServing, IsNext, Serving, Serves
<1>5. a = <<r, 1>>
  BY <1>2 DEF Handler
<1>6. table'[f] = [table[f] EXCEPT ![userOf[r]] = r]
  <2>1. table'[f] = Replay(table[f], <<r>>)
    BY StoreOwnKeeps
  <2>2. table[f] \in [User -> Values]
    BY <1>2 DEF SerialInv, TypeOK, Values
  <2> QED BY <1>2, <2>1, <2>2, ReplayOne
<1>7. {p \in Request : Acked(p)}' = {p \in Request : Acked(p)} \cup {r}
  <2>1. \A b \in Handler : pc'[b] = IF b = a THEN "returned" ELSE pc[b]
    BY <1>1 DEF SerialInv, TypeOK
  <2>2. \A p \in Request : <<p, 1>> \in Handler
    BY BoundAssumption DEF Handler
  <2> HIDE DEF r
  <2>3. \A p \in Request : pc'[<<p, 1>>] = IF p = r THEN "returned" ELSE pc[<<p, 1>>]
    BY <1>5, <2>1, <2>2
  <2> QED BY <1>2, <2>3 DEF Acked
<1>8. r \notin {p \in Request : Acked(p)}
  BY <1>1, <1>5 DEF Acked
<1>9. table[FirstServing]' = [table[FirstServing] EXCEPT ![userOf[r]] = r]
  BY <1>4, <1>6
<1> HIDE DEF r
<1>10. Single!Put(r)
  BY <1>7, <1>8, <1>9 DEF Single!Put
<1> QED BY <1>2, <1>10 DEF StoreStep, Single!Next

\* The other steps of a PUT do not touch the table of the first server.
LEMMA PutStutters ==
    ASSUME OneClientAtFirst, SerialInv, NEW a \in Handler, HandlerStep(a), ~StoreOwn(a)
    PROVE  StoreStep
<1>1. pc[a] \in Busy
  BY HandlerNever DEF HandlerStep, NoPrimary, IsPrimary, ReportRefused, SelectEnds, TellEnds,
     SkipDown, HeartbeatAnswers, HeartbeatFails, SendPrimary, SendValue, TellSkips, TellDown,
     Busy, Waiting, Loops, Sends, Tells
<1> DEFINE f == at[a]
<1>2. /\ f \in Server /\ IsFirst(f) /\ TypeOK /\ todo[a] \subseteq Server
      /\ pc[a] # "arrived" => todo[a] \subseteq Peers(f)
  BY <1>1, AtWork DEF SerialInv, ThreadInv, TypeOK
<1>3. /\ UNCHANGED <<mode, at>> /\ table'[f] = table[f]
      /\ \A b \in Handler : pc'[b] = "returned" <=> pc[b] = "returned"
  <2>1. CASE NoPrimary(a) \/ ReportRefused(a)
    BY <1>2, <2>1 DEF NoPrimary, ReportRefused, SelectSelf, TypeOK
  <2>2. CASE IsPrimary(a) \/ SelectEnds(a)
    BY <1>2, <2>2 DEF IsPrimary, SelectEnds, Broadcast, memory, TypeOK
  <2>3. CASE TellEnds(a)
    BY <1>2, <2>3 DEF TellEnds, memory, Tells, TypeOK
  <2>4. ASSUME NEW q \in Server, SkipDown(a, q) \/ TellSkips(a, q)
        PROVE  UNCHANGED <<mode, at, table, pc>>
    BY <2>4 DEF SkipDown, TellSkips, memory
  <2>5. ASSUME NEW q \in Server, HeartbeatAnswers(a, q)
        PROVE  /\ UNCHANGED <<mode, at, table>>
               /\ \A b \in Handler : pc'[b] = "returned" <=> pc[b] = "returned"
    BY <1>2, <2>5 DEF HeartbeatAnswers, memory, Loops, TypeOK
  <2>6. ASSUME NEW q \in Server, HeartbeatFails(a, q)
        PROVE  /\ UNCHANGED <<mode, at, table>>
               /\ \A b \in Handler : pc'[b] = "returned" <=> pc[b] = "returned"
    BY <1>2, <2>6 DEF HeartbeatFails, Loops, TypeOK
  <2>7. ASSUME NEW q \in Server, TellDown(a, q)
        PROVE  UNCHANGED <<mode, at, table, pc>>
    BY <2>7 DEF TellDown
  <2>8. ASSUME NEW q \in Server, SendPrimary(a, q)
        PROVE  /\ UNCHANGED <<mode, at, table>>
               /\ \A b \in Handler : pc'[b] = "returned" <=> pc[b] = "returned"
    BY <1>2, <2>8 DEF SendPrimary, LoopOn, TypeOK
  <2>9. ASSUME NEW q \in Server, SendValue(a, q)
        PROVE  /\ UNCHANGED <<mode, at>> /\ table'[f] = table[f]
               /\ \A b \in Handler : pc'[b] = "returned" <=> pc[b] = "returned"
    <3>1. PutValues(q, <<a[1]>>) /\ q # f
      BY <1>2, <2>9 DEF SendValue, LoopOn, IsNext, Peers
    <3>2. table'[f] = table[f]
      BY <1>2, <3>1, PutElsewhere
    <3>3. /\ UNCHANGED <<mode, at>>
          /\ \A b \in Handler : pc'[b] = "returned" <=> pc[b] = "returned"
      BY <1>2, <2>9 DEF SendValue, LoopOn, TypeOK
    <3> QED BY <3>2, <3>3
  <2> QED BY <2>1, <2>2, <2>3, <2>4, <2>5, <2>6, <2>7, <2>8, <2>9, HandlerNever DEF HandlerStep
<1>4. IsFirst(f)'
  BY <1>2, <1>3 DEF IsFirst, IsNext, Serving, Serves
<1>5. \A r \in Request : <<r, 1>> \in Handler
  BY BoundAssumption DEF Handler
<1>6. PICK g \in Server : g = f
  BY <1>2
<1>7. IsFirst(g) /\ IsFirst(g)' /\ table'[g] = table[g]
  BY <1>2, <1>3, <1>6 DEF IsFirst, IsNext, Serving, Serves
<1> QED BY <1>3, <1>5, <1>7, StoreStutters

\* No other step does: a server that starts to serve, and one that takes the
\* place of the first, holds what the first one holds.
LEMMA OtherStutters ==
    ASSUME OneClientAtFirst, \E s, t \in Server : s # t,
           SerialInv, SerialInv', [SerialNext]_vars,
           \A a \in Handler : ~HandlerStep(a)
    PROVE  StoreStep
<1>0. TypeOK /\ TypeOK'
  BY DEF SerialInv
<1>1. PICK f \in Server : IsFirst(f)
  BY HasFirst
<1>2. PICK g \in Server : IsFirst(g)'
  BY HasFirst
<1>3. Serves(f) /\ Serves(g)'
  BY <1>1, <1>2 DEF IsFirst, IsNext, Serving
<1>4. \A r \in Request : <<r, 1>> \in Handler
  BY BoundAssumption DEF Handler
<1>5. ASSUME UNCHANGED <<mode, table>> PROVE table'[g] = table[f]
  <2>1. IsFirst(f)'
    BY <1>1, <1>5 DEF IsFirst, IsNext, Serving, Serves
  <2>2. f = g
    BY <1>1, <1>2, <2>1, FirstIs
  <2> QED BY <1>5, <2>2
<1>6. ASSUME UNCHANGED pc
      PROVE  \A r \in Request : pc'[<<r, 1>>] = "returned" <=> pc[<<r, 1>>] = "returned"
  BY <1>6
<1>7. CASE UNCHANGED vars
  BY <1>1, <1>2, <1>5, <1>6, <1>7, StoreStutters DEF vars, memory, threads
<1>8. ASSUME NEW r \in Request, NEW s \in Server, ClientPut(r, s) PROVE StoreStep
  <2>1. UNCHANGED <<mode, table>> /\ pc[<<r, 1>>] = "idle" /\ pc' = [pc EXCEPT ![<<r, 1>>] = "arrived"]
    BY <1>8 DEF ClientPut, PutArrives, memory
  <2>2. \A p \in Request : pc'[<<p, 1>>] = "returned" <=> pc[<<p, 1>>] = "returned"
    BY <1>0, <1>4, <2>1 DEF TypeOK
  <2> QED BY <1>1, <1>2, <1>5, <2>1, <2>2, StoreStutters
<1>9. ASSUME NEW s \in Server, SerialBoot(s) PROVE StoreStep
  <2>1. UNCHANGED pc /\ Quiet /\ Quiet'
    <3>1. UNCHANGED pc
      BY <1>9 DEF SerialBoot, BootStep, Restart, FetchNothing, Fetched, Listen, FetchMissing,
         Announce, threads
    <3> QED BY <1>9, <3>1 DEF SerialBoot, OneClientAtFirst, Quiet
  <2>2. table'[g] = table'[f] /\ Serves(f)' /\ table'[f] = table[f]
    <3>1. Serves(f)' /\ table'[f] = table[f]
      <4>1. CASE Restart(s)
        <5>1. f # s /\ mode' = [mode EXCEPT ![s] = "booting"]
              /\ \A p \in Server : p # s => table'[p] = table[p]
          BY <1>0, <1>3, <4>1 DEF Restart, Serves, TypeOK
        <5> QED BY <1>0, <1>3, <5>1 DEF Serves, TypeOK
      <4>2. CASE FetchNothing(s) \/ Listen(s)
        BY <1>0, <1>3, <4>2 DEF FetchNothing, Fetched, Listen, memory, Serves, TypeOK
      <4>3. ASSUME NEW q \in Server, FetchMissing(s, q) PROVE Serves(f)' /\ table'[f] = table[f]
        <5>1. f # s /\ mode' = [mode EXCEPT ![s] = "announcing"]
          BY <1>3, <4>3 DEF FetchMissing, Fetched, Serves
        <5>2. PICK n : PutValues(s, After(log[q], n))
          BY <4>3 DEF FetchMissing
        <5>3. table'[f] = table[f]
          BY <1>0, <5>1, <5>2, PutElsewhere
        <5> QED BY <1>0, <1>3, <5>1, <5>3 DEF Serves, TypeOK
      <4>4. ASSUME NEW q \in Server, Announce(s, q) PROVE Serves(f)' /\ table'[f] = table[f]
        BY <1>3, <4>4 DEF Announce, Serves
      <4> QED BY <1>9, <4>1, <4>2, <4>3, <4>4 DEF SerialBoot, BootStep
    <3>2. \A p, q \in Server : Serves(p)' /\ Serves(q)' => table'[p] = table'[q]
      BY <2>1 DEF SerialInv, TablesInv, Serving
    <3> QED BY <1>3, <3>1, <3>2
  <2> QED BY <1>1, <1>2, <1>6, <2>1, <2>2, StoreStutters
<1>10. ASSUME NEW s \in Server, SerialCrash(s) PROVE StoreStep
  <2>1. /\ Quiet /\ \A p \in Server : Serves(p)
        /\ mode' = [mode EXCEPT ![s] = "down"]
        /\ table' = [table EXCEPT ![s] = NoValues]
        /\ pc' = [a \in Handler |-> IF RunsAt(a, s) THEN "aborted" ELSE pc[a]]
    BY <1>10 DEF SerialCrash, Crash, Kill, OneClientAtFirst, Serving
  <2>2. UNCHANGED pc
    BY <1>0, <2>1 DEF Quiet, RunsAt, TypeOK
  <2>3. g # s
    BY <1>0, <1>3, <2>1 DEF Serves, TypeOK
  <2>4. table'[g] = table[g] /\ table[g] = table[f]
    BY <1>0, <2>1, <2>3 DEF SerialInv, TablesInv, Serving, TypeOK
  <2> QED BY <1>1, <1>2, <1>6, <2>2, <2>4, StoreStutters
<1> QED BY <1>7, <1>8, <1>9, <1>10 DEF SerialNext, Wait

\* A group of two servers or more, used by one client at a time that always
\* turns to the first live server, is one store: a PUT takes effect once, when
\* it returns, at whichever server is the first then, and no failover and no
\* recovery takes it back.
THEOREM GroupIsOneStore ==
    ASSUME OneClientAtFirst, \E s, t \in Server : s # t
    PROVE  SerialSpec => ActsAsOneStore
<1>1. SerialInit => Single!Init
  <2> SUFFICES ASSUME SerialInit PROVE Single!Init
    OBVIOUS
  <2>1. PICK f \in Server : IsFirst(f)
    BY SerialStart, HasFirst
  <2>2. FirstServing = f
    BY <2>1, FirstIs
  <2>3. table[FirstServing] = [u \in User |-> None]
    BY <2>2 DEF SerialInit, AllUp, NoValues
  <2>4. {r \in Request : Acked(r)} = {}
    BY BoundAssumption DEF SerialInit, AllUp, Acked, Handler
  <2> QED BY <2>3, <2>4 DEF Single!Init
<1>2. SerialInv /\ [SerialNext]_vars => SerialInv'
  BY SerialSteps
<1>3. SerialInv /\ SerialInv' /\ [SerialNext]_vars => [Single!Next]_(Single!vars)
  <2> SUFFICES ASSUME SerialInv, SerialInv', [SerialNext]_vars PROVE StoreStep
    BY DEF StoreStep
  <2>1. CASE \E a \in Handler : HandlerStep(a)
    BY <2>1, StoreOwnPuts, PutStutters
  <2>2. CASE \A a \in Handler : ~HandlerStep(a)
    BY <2>2, OtherStutters
  <2> QED BY <2>1, <2>2
<1> QED BY <1>1, <1>2, <1>3, SerialStart, PTL DEF SerialSpec, ActsAsOneStore, Single!Spec

-----------------------------------------------------------------------------
(* PUTs at any server, crashes at any time: the servers that never failed  *)
(* agree on the rows whose PUTs came to an end.  RowsAgree says what is    *)
(* true on the way: while r is under way a server that has stored it holds *)
(* it, and two that have not hold the same older value.                    *)

UnderWay(r) == \E a \in Handler : a[1] = r /\ pc[a] \in Busy
Whole(u)    == \A r \in Request : userOf[r] = u => pc[<<r, 1>>] # "aborted"

OnePut == \A a, b \in Handler : pc[a] \in Busy /\ pc[b] \in Busy => a[1] = b[1]

Begun == \A a \in Handler : pc[a] # "idle" => pc[<<a[1], 1>>] # "idle"

NotYetStored ==
    \A r \in Request, s \in Server :
        pc[<<r, 1>>] = "idle" /\ ~Failed(s) => r \notin applied[s]

RowsAgree ==
    \A u \in User, s, t \in Server : Whole(u) /\ ~Failed(s) /\ ~Failed(t) =>
        /\ (\A r \in Request : UnderWay(r) => userOf[r] # u) => table[s][u] = table[t][u]
        /\ \A r \in Request : UnderWay(r) /\ userOf[r] = u =>
              /\ r \in applied[s] => table[s][u] = r
              /\ r \notin applied[s] /\ r \notin applied[t] => table[s][u] = table[t][u]

AgreeInv == IInv /\ OnePut /\ Begun /\ NotYetStored /\ RowsAgree

LEMMA TheOne ==
    ASSUME OnePut
    PROVE  \E r : /\ \A p \in Request : UnderWay(p) => p = r
                  /\ UnderWay(r) \/ r = None
<1>1. CASE \E a \in Handler : pc[a] \in Busy
  BY <1>1 DEF OnePut, UnderWay
<1>2. CASE ~\E a \in Handler : pc[a] \in Busy
  BY <1>2 DEF UnderWay
<1> QED BY <1>1, <1>2

\* A step in which no server that has not failed stores anything but the one
\* value that is under way.
LEMMA RowsStep ==
    ASSUME AgreeInv, IInv', Begun', NEW r,
           \A p \in Request : UnderWay(p) => p = r,
           \A p \in Request : UnderWay(p)' => p = r,
           UnderWay(r) \/ \A s \in Server : ~Failed(s) => r \notin applied[s],
           \A p \in Request : pc[<<p, 1>>] = "aborted" => pc'[<<p, 1>>] = "aborted",
           \A p \in Request : pc'[<<p, 1>>] = "idle" => pc[<<p, 1>>] = "idle",
           \A s \in Server : ~Failed(s)' =>
              /\ ~Failed(s)
              /\ \/ table'[s] = table[s] /\ applied'[s] = applied[s]
                 \/ /\ UnderWay(r)
                    /\ table'[s] = [table[s] EXCEPT ![userOf[r]] = r]
                    /\ applied'[s] = applied[s] \cup {r}
    PROVE  AgreeInv'
<1>0. /\ \A p \in Request : <<p, 1>> \in Handler
      /\ UnderWay(r) \/ UnderWay(r)' => r \in Request
  BY BoundAssumption DEF Handler, UnderWay
<1>1. TypeOK /\ OnePut /\ Begun /\ NotYetStored /\ RowsAgree
  BY DEF AgreeInv, IInv
<1>2. OnePut'
  <2> SUFFICES ASSUME NEW a \in Handler, NEW b \in Handler, pc'[a] \in Busy, pc'[b] \in Busy
               PROVE  a[1] = b[1]
    BY DEF OnePut
  <2>1. a[1] \in Request /\ b[1] \in Request
    BY HandlerFacts
  <2> QED BY <2>1 DEF UnderWay
<1>3. NotYetStored'
  <2> SUFFICES ASSUME NEW p \in Request, NEW s \in Server, pc'[<<p, 1>>] = "idle", ~Failed(s)'
               PROVE  p \notin applied'[s]
    BY DEF NotYetStored
  <2>1. pc[<<p, 1>>] = "idle" /\ ~Failed(s) /\ p \notin applied[s]
    BY <1>1 DEF NotYetStored
  <2>2. UnderWay(r) => p # r
    BY <1>1, <2>1 DEF UnderWay, Begun, Busy, Waiting, Loops, Sends, Tells
  <2>3. applied'[s] = applied[s] \/ (UnderWay(r) /\ applied'[s] = applied[s] \cup {r})
    OBVIOUS
  <2> QED BY <2>1, <2>2, <2>3
<1>4. ASSUME NEW u \in User, NEW s \in Server, NEW t \in Server,
             Whole(u)', ~Failed(s)', ~Failed(t)'
      PROVE  /\ (\A p \in Request : UnderWay(p)' => userOf[p] # u) => table'[s][u] = table'[t][u]
             /\ \A p \in Request : UnderWay(p)' /\ userOf[p] = u =>
                   /\ p \in applied'[s] => table'[s][u] = p
                   /\ p \notin applied'[s] /\ p \notin applied'[t] => table'[s][u] = table'[t][u]
  <2>1. Whole(u) /\ ~Failed(s) /\ ~Failed(t)
    BY <1>4 DEF Whole
  <2>2. table[s] \in [User -> Values] /\ table[t] \in [User -> Values]
    BY <1>1 DEF TypeOK, Values
  <2>3. CASE ~(UnderWay(r) /\ userOf[r] = u)
    <3>1. table[s][u] = table[t][u]
      BY <1>1, <2>1, <2>3 DEF RowsAgree
    <3>2. table'[s][u] = table[s][u] /\ table'[t][u] = table[t][u]
      BY <1>0, <1>4, <2>2, <2>3
    <3>3. ASSUME NEW p \in Request, UnderWay(p)', userOf[p] = u, p \in applied'[s]
          PROVE  FALSE
      <4>1. p = r /\ ~UnderWay(r)
        BY <2>3, <3>3
      <4> QED BY <1>4, <2>1, <3>3, <4>1
    <3> QED BY <3>1, <3>2, <3>3
  <2>4. CASE UnderWay(r) /\ userOf[r] = u
    <3>1. /\ r \in Request
          /\ r \in applied[s] => table[s][u] = r
          /\ r \in applied[t] => table[t][u] = r
          /\ r \notin applied[s] /\ r \notin applied[t] => table[s][u] = table[t][u]
      BY <1>0, <1>1, <2>1, <2>4 DEF RowsAgree
    <3>2. /\ r \in applied'[s] => table'[s][u] = r
          /\ r \in applied'[t] => table'[t][u] = r
          /\ r \notin applied'[s] /\ r \notin applied'[t] => table'[s][u] = table'[t][u]
      BY <1>4, <2>2, <2>4, <3>1
    <3>3. CASE UnderWay(r)'
      BY <2>4, <3>1, <3>2, <3>3
    <3>4. CASE ~UnderWay(r)'
      <4>1. \A p \in Request : ~UnderWay(p)'
        BY <3>4
      <4>2. pc'[<<r, 1>>] = "returned"
        <5>1. pc[<<r, 1>>] # "idle"
          BY <1>1, <2>4 DEF UnderWay, Begun, Busy, Waiting, Loops, Sends, Tells
        <5>2. pc'[<<r, 1>>] # "idle" /\ pc'[<<r, 1>>] # "aborted"
          BY <1>4, <2>4, <3>1, <5>1 DEF Whole
        <5>3. pc'[<<r, 1>>] \notin Busy
          BY <1>0, <3>1, <3>4 DEF UnderWay
        <5>4. pc'[<<r, 1>>] \in {"idle"} \cup Busy \cup Ended
          BY <1>0, <3>1 DEF IInv, TypeOK
        <5> QED BY <5>2, <5>3, <5>4 DEF Ended
      <4>3. \A q \in Server : Holds(q, r)'
        BY <1>0, <3>1, <4>2 DEF IInv, ValueInv, ReturnedHeld, Holds, Failed
      <4>4. r \in applied'[s] /\ r \in applied'[t]
        BY <1>4, <4>3 DEF Holds
      <4> QED BY <3>2, <4>1, <4>4
    <3> QED BY <3>3, <3>4
  <2> QED BY <2>3, <2>4
<1>5. RowsAgree'
  BY <1>4 DEF RowsAgree
<1> QED BY <1>2, <1>3, <1>5 DEF AgreeInv

\* What a step of a changes in the program counters.
LEMMA HandlerGoesOn ==
    ASSUME TypeOK, NEW a \in Handler, HandlerStep(a)
    PROVE  /\ pc[a] \in Busy
           /\ \A b \in Handler : /\ pc[b] # "idle" => pc'[b] # "idle"
                                 /\ pc'[b] # "idle" => pc[b] # "idle" \/ b[1] = a[1]
                                 /\ pc'[b] \in Busy => pc[b] \in Busy \/ b[1] = a[1]
           /\ \A r \in Request : pc[<<r, 1>>] = "aborted" => pc'[<<r, 1>>] = "aborted"
<1>a. /\ {"arrived", "reporting", "select", "bcast", "selectSend", "bcastSend", "selectTell",
          "bcastTell"} \subseteq Busy
      /\ Loops \cup Sends \cup Tells \subseteq Busy
      /\ "idle" \notin Busy /\ "aborted" \notin Busy
  BY DEF Busy, Waiting, Loops, Sends, Tells
<1>b. \A r \in Request : <<r, 1>> \in Handler
  BY BoundAssumption DEF Handler
<1> DEFINE Alone(x) == pc' = [pc EXCEPT ![a] = x]
<1>1. pc[a] \in Busy
  BY <1>a DEF HandlerStep, NoPrimary, IsPrimary, Report, ReportRefused, ReportFails, ReportReturns,
     SelectEnds, TellEnds, StoreOwn, SkipDown, HeartbeatAnswers, HeartbeatFails, SendPrimary,
     SendValue, SendLost, TellSkips, TellDown, TellItself, Loops
<1>2. ASSUME NEW x, x # "idle", Alone(x)
      PROVE  /\ \A b \in Handler : /\ pc[b] # "idle" => pc'[b] # "idle"
                                   /\ pc'[b] # "idle" => pc[b] # "idle" \/ b[1] = a[1]
                                   /\ pc'[b] \in Busy => pc[b] \in Busy \/ b[1] = a[1]
             /\ \A r \in Request : pc[<<r, 1>>] = "aborted" => pc'[<<r, 1>>] = "aborted"
  BY <1>1, <1>2, <1>a, <1>b DEF TypeOK
<1>3. CASE Report(a)
  <2>1. Callee(a) \in Handler /\ Callee(a)[1] = a[1] /\ \A r : Callee(a) # <<r, 1>>
    <3>1. a[2] \in 1 .. MaxDepth /\ a[2] < MaxDepth /\ Callee(a) \in Handler
      BY <1>3, HandlerFacts DEF Report
    <3>2. a[2] + 1 # 1
      BY <3>1
    <3> QED BY <3>1, <3>2 DEF Callee
  <2>2. pc' = [pc EXCEPT ![a] = "reporting", ![Callee(a)] = "arrived"]
    BY <1>3 DEF Report
  <2>3. \A b \in Handler : b # a /\ b # Callee(a) => pc'[b] = pc[b]
    BY <2>2 DEF TypeOK
  <2>4. pc'[a] # "idle" /\ pc'[a] # "aborted" /\ pc'[Callee(a)] = "arrived"
    BY <2>1, <2>2 DEF TypeOK
  <2>5. \A r \in Request : pc[<<r, 1>>] = "aborted" => pc'[<<r, 1>>] = "aborted"
    BY <1>1, <1>a, <1>b, <2>1, <2>3
  <2> QED BY <1>1, <1>a, <2>1, <2>3, <2>4, <2>5
<1>4. ASSUME NEW q \in Server, TellItself(a, q)
      PROVE  /\ \A b \in Handler : /\ pc[b] # "idle" => pc'[b] # "idle"
                                   /\ pc'[b] # "idle" => pc[b] # "idle" \/ b[1] = a[1]
                                   /\ pc'[b] \in Busy => pc[b] \in Busy \/ b[1] = a[1]
             /\ \A r \in Request : pc[<<r, 1>>] = "aborted" => pc'[<<r, 1>>] = "aborted"
  <2>1. pc' = [b \in Handler |-> IF RunsAt(b, q) THEN "aborted" ELSE pc[b]]
    BY <1>4 DEF TellItself, Kill
  <2> QED BY <1>a, <1>b, <2>1 DEF RunsAt
<1>5. ASSUME ~Report(a), \A q \in Server : ~TellItself(a, q)
      PROVE  pc' = pc \/ \E x : x # "idle" /\ Alone(x)
  <2>1. CASE NoPrimary(a) \/ ReportRefused(a) \/ ReportFails(a)
    BY <2>1 DEF NoPrimary, ReportRefused, ReportFails, SelectSelf
  <2>2. CASE IsPrimary(a) \/ SelectEnds(a)
    BY <2>2 DEF IsPrimary, SelectEnds, Broadcast
  <2>3. CASE ReportReturns(a) \/ TellEnds(a) \/ StoreOwn(a)
    BY <2>3 DEF ReportReturns, TellEnds, StoreOwn
  <2>4. ASSUME NEW q \in Server, \/ SkipDown(a, q) \/ HeartbeatAnswers(a, q) \/ HeartbeatFails(a, q)
                                 \/ SendPrimary(a, q) \/ SendValue(a, q) \/ SendLost(a, q)
                                 \/ TellSkips(a, q) \/ TellDown(a, q)
        PROVE  pc' = pc \/ \E x : x # "idle" /\ Alone(x)
    BY <2>4 DEF SkipDown, HeartbeatAnswers, HeartbeatFails, SendPrimary, SendValue, SendLost,
       TellSkips, TellDown, LoopOn
  <2> QED BY <1>5, <2>1, <2>2, <2>3, <2>4 DEF HandlerStep
<1>6. CASE pc' = pc
  BY <1>1, <1>6
<1> QED BY <1>1, <1>2, <1>3, <1>4, <1>5, <1>6

\* What a step of a stores: nothing, or its value.
LEMMA HandlerStores ==
    ASSUME TypeOK, NEW a \in Handler, HandlerStep(a)
    PROVE  \A s \in Server : ~Failed(s)' =>
              /\ ~Failed(s)
              /\ \/ table'[s] = table[s] /\ applied'[s] = applied[s]
                 \/ /\ table'[s] = [table[s] EXCEPT ![userOf[a[1]]] = a[1]]
                    /\ applied'[s] = applied[s] \cup {a[1]}
<1>a. a[1] \in Request /\ <<a[1]>> \in Seq(Request)
  BY HandlerFacts
<1>1. ASSUME NEW q \in Server, PutValues(q, <<a[1]>>), NEW s \in Server
      PROVE  \/ table'[s] = table[s] /\ applied'[s] = applied[s]
             \/ /\ table'[s] = [table[s] EXCEPT ![userOf[a[1]]] = a[1]]
                /\ applied'[s] = applied[s] \cup {a[1]}
  <2>1. applied' = [applied EXCEPT ![q] = @ \cup {a[1]}]
    <3>1. applied' = [applied EXCEPT ![q] = @ \cup {<<a[1]>>[i] : i \in DOMAIN <<a[1]>>}]
      BY <1>1 DEF PutValues
    <3>2. {<<a[1]>>[i] : i \in DOMAIN <<a[1]>>} = {a[1]}
      OBVIOUS
    <3> QED BY <3>1, <3>2
  <2>2. table'[q] = Replay(table[q], <<a[1]>>) /\ \A p \in Server \ {q} : table'[p] = table[p]
    BY <1>1, PutElsewhere
  <2>3. Replay(table[q], <<a[1]>>) = [table[q] EXCEPT ![userOf[a[1]]] = a[1]]
    <3>1. table[q] \in [User -> Values]
      BY DEF TypeOK, Values
    <3> QED BY <1>a, <3>1, ReplayOne
  <2>4. CASE s = q
    BY <2>1, <2>2, <2>3, <2>4 DEF TypeOK
  <2>5. CASE s # q
    BY <2>1, <2>2, <2>5 DEF TypeOK
  <2> QED BY <2>4, <2>5
<1>2. ASSUME NEW q \in Server, TellItself(a, q)
      PROVE  \A s \in Server : ~Failed(s)' =>
                ~Failed(s) /\ table'[s] = table[s] /\ applied'[s] = applied[s]
  <2>1. /\ crashes' = [crashes EXCEPT ![q] = @ + 1]
        /\ table' = [table EXCEPT ![q] = NoValues] /\ applied' = applied
    BY <1>2 DEF TellItself, Kill
  <2> QED BY <2>1 DEF Failed, TypeOK
<1>3. ASSUME UNCHANGED <<table, applied, crashes>>
      PROVE  \A s \in Server : ~Failed(s)' =>
                ~Failed(s) /\ table'[s] = table[s] /\ applied'[s] = applied[s]
  BY <1>3 DEF Failed
<1>4. CASE StoreOwn(a)
  <2>1. PutValues(at[a], <<a[1]>>) /\ UNCHANGED crashes /\ at[a] \in Server
    BY <1>4 DEF StoreOwn, TypeOK
  <2> QED BY <1>1, <2>1 DEF Failed
<1>5. ASSUME NEW q \in Server, SendValue(a, q)
      PROVE  \A s \in Server : ~Failed(s)' =>
              /\ ~Failed(s)
              /\ \/ table'[s] = table[s] /\ applied'[s] = applied[s]
                 \/ /\ table'[s] = [table[s] EXCEPT ![userOf[a[1]]] = a[1]]
                    /\ applied'[s] = applied[s] \cup {a[1]}
  <2>1. PutValues(q, <<a[1]>>) /\ UNCHANGED crashes
    BY <1>5 DEF SendValue, LoopOn
  <2> QED BY <1>1, <2>1 DEF Failed
<1>6. CASE NoPrimary(a) \/ IsPrimary(a) \/ Report(a) \/ ReportRefused(a)
           \/ ReportFails(a) \/ ReportReturns(a) \/ SelectEnds(a) \/ TellEnds(a)
  <2>1. UNCHANGED <<table, applied, crashes>>
    BY <1>6 DEF NoPrimary, IsPrimary, Report, ReportRefused, ReportFails, ReportReturns,
       SelectEnds, TellEnds, SelectSelf, Broadcast, memory, history
  <2> QED BY <1>3, <2>1
<1>7. ASSUME NEW q \in Server, \/ SkipDown(a, q) \/ HeartbeatAnswers(a, q) \/ HeartbeatFails(a, q)
                               \/ SendPrimary(a, q) \/ SendLost(a, q)
                               \/ TellSkips(a, q) \/ TellDown(a, q)
      PROVE  UNCHANGED <<table, applied, crashes>>
  BY <1>7 DEF SkipDown, HeartbeatAnswers, HeartbeatFails, SendPrimary, SendLost, TellSkips,
     TellDown, LoopOn, memory, history
<1>8. CASE \E q \in Server : \/ SkipDown(a, q) \/ HeartbeatAnswers(a, q) \/ HeartbeatFails(a, q)
                             \/ SendPrimary(a, q) \/ SendLost(a, q)
                             \/ TellSkips(a, q) \/ TellDown(a, q)
  BY <1>3, <1>7, <1>8
<1> QED BY <1>2, <1>4, <1>5, <1>6, <1>8 DEF HandlerStep

LEMMA HandlerAgrees ==
    ASSUME AgreeInv, IInv', NEW a \in Handler, HandlerStep(a)
    PROVE  AgreeInv'
<1>1. TypeOK /\ OnePut /\ Begun
  BY DEF AgreeInv, IInv
<1>2. a[1] \in Request /\ \A p \in Request : <<p, 1>> \in Handler
  BY HandlerFacts, BoundAssumption DEF Handler
<1>3. /\ pc[a] \in Busy
      /\ \A b \in Handler : /\ pc[b] # "idle" => pc'[b] # "idle"
                            /\ pc'[b] # "idle" => pc[b] # "idle" \/ b[1] = a[1]
                            /\ pc'[b] \in Busy => pc[b] \in Busy \/ b[1] = a[1]
      /\ \A p \in Request : pc[<<p, 1>>] = "aborted" => pc'[<<p, 1>>] = "aborted"
  BY <1>1, HandlerGoesOn
<1>4. UnderWay(a[1]) /\ \A p \in Request : UnderWay(p) => p = a[1]
  BY <1>1, <1>3 DEF UnderWay, OnePut
<1>5. \A p \in Request : UnderWay(p)' => p = a[1]
  BY <1>3, <1>4 DEF UnderWay
<1>6. Begun'
  <2> SUFFICES ASSUME NEW b \in Handler, pc'[b] # "idle" PROVE pc'[<<b[1], 1>>] # "idle"
    BY DEF Begun
  <2>1. b[1] \in Request
    BY HandlerFacts
  <2>2. pc[a] # "idle"
    BY <1>3 DEF Busy, Waiting, Loops, Sends, Tells
  <2>3. pc[<<b[1], 1>>] # "idle"
    BY <1>1, <1>3, <2>2 DEF Begun
  <2> QED BY <1>2, <1>3, <2>1, <2>3
<1>7. \A s \in Server : ~Failed(s)' =>
         /\ ~Failed(s)
         /\ \/ table'[s] = table[s] /\ applied'[s] = applied[s]
            \/ /\ table'[s] = [table[s] EXCEPT ![userOf[a[1]]] = a[1]]
               /\ applied'[s] = applied[s] \cup {a[1]}
  BY <1>1, HandlerStores
<1>8. \A p \in Request : pc'[<<p, 1>>] = "idle" => pc[<<p, 1>>] = "idle"
  BY <1>2, <1>3
<1> DEFINE r == a[1]
<1>9. /\ UnderWay(r)
      /\ \A p \in Request : UnderWay(p) => p = r
      /\ \A p \in Request : UnderWay(p)' => p = r
      /\ \A s \in Server : ~Failed(s)' =>
            /\ ~Failed(s)
            /\ \/ table'[s] = table[s] /\ applied'[s] = applied[s]
               \/ /\ UnderWay(r)
                  /\ table'[s] = [table[s] EXCEPT ![userOf[r]] = r]
                  /\ applied'[s] = applied[s] \cup {r}
  BY <1>4, <1>5, <1>7
<1> HIDE DEF r
<1> QED BY <1>3, <1>6, <1>8, <1>9, RowsStep

\* A step in which no PUT begins, and no server that has not failed stores
\* anything.
LEMMA OthersAgree ==
    ASSUME AgreeInv, IInv',
           \A b \in Handler : pc'[b] = pc[b] \/ (pc[b] # "idle" /\ pc'[b] = "aborted"),
           \A s \in Server : ~Failed(s)' =>
              ~Failed(s) /\ table'[s] = table[s] /\ applied'[s] = applied[s]
    PROVE  AgreeInv'
<1>1. TypeOK /\ OnePut /\ Begun
  BY DEF AgreeInv, IInv
<1>2. PICK r : /\ \A p \in Request : UnderWay(p) => p = r
               /\ UnderWay(r) \/ r = None
  BY <1>1, TheOne
<1>3. /\ \A b \in Handler : b[1] \in Request
      /\ \A p \in Request : <<p, 1>> \in Handler
  BY HandlerFacts, BoundAssumption DEF Handler
<1>4. \A p \in Request : UnderWay(p)' => UnderWay(p)
  <2>1. "aborted" \notin Busy
    BY DEF Busy, Waiting, Loops, Sends, Tells
  <2> QED BY <2>1 DEF UnderWay
<1>5. UnderWay(r) \/ \A s \in Server : ~Failed(s) => r \notin applied[s]
  BY <1>1, <1>2, NoneAssumption DEF TypeOK
<1>6. Begun'
  <2> SUFFICES ASSUME NEW b \in Handler, pc'[b] # "idle" PROVE pc'[<<b[1], 1>>] # "idle"
    BY DEF Begun
  <2>1. pc[<<b[1], 1>>] # "idle"
    BY <1>1 DEF Begun
  <2> QED BY <1>3, <2>1
<1>7. \A p \in Request : /\ pc[<<p, 1>>] = "aborted" => pc'[<<p, 1>>] = "aborted"
                         /\ pc'[<<p, 1>>] = "idle" => pc[<<p, 1>>] = "idle"
  BY <1>3
<1>8. \A p \in Request : UnderWay(p)' => p = r
  BY <1>2, <1>4
<1> QED BY <1>2, <1>5, <1>6, <1>7, <1>8, RowsStep

LEMMA ClientAgrees ==
    ASSUME AgreeInv, IInv', NEW r \in Request, NEW s \in Server, ClientPut(r, s)
    PROVE  AgreeInv'
<1>1. TypeOK /\ OnePut /\ Begun /\ NotYetStored
  BY DEF AgreeInv, IInv
<1>2. /\ Quiet /\ pc[<<r, 1>>] = "idle" /\ pc' = [pc EXCEPT ![<<r, 1>>] = "arrived"]
      /\ UNCHANGED <<table, applied, crashes>>
  BY DEF ClientPut, Settled, PutArrives, memory, history
<1>3. \A p \in Request : <<p, 1>> \in Handler
  BY BoundAssumption DEF Handler
<1>4. \A b \in Handler : b # <<r, 1>> => pc'[b] = pc[b]
  BY <1>1, <1>2 DEF TypeOK
<1>5. \A p \in Request : ~UnderWay(p)
  BY <1>2 DEF UnderWay, Quiet
<1>6. \A p \in Request : UnderWay(p)' => p = r
  BY <1>2, <1>4 DEF UnderWay, Quiet
<1>7. \A q \in Server : ~Failed(q) => r \notin applied[q]
  BY <1>1, <1>2 DEF NotYetStored
<1>8. \A q \in Server : ~Failed(q)' =>
         ~Failed(q) /\ table'[q] = table[q] /\ applied'[q] = applied[q]
  BY <1>2 DEF Failed
<1>9. pc'[<<r, 1>>] = "arrived"
  BY <1>1, <1>2, <1>3 DEF TypeOK
<1>10. Begun'
  <2> SUFFICES ASSUME NEW b \in Handler, pc'[b] # "idle" PROVE pc'[<<b[1], 1>>] # "idle"
    BY DEF Begun
  <2>1. b[1] \in Request
    BY HandlerFacts
  <2> QED BY <1>1, <1>3, <1>4, <1>9, <2>1 DEF Begun
<1>11. \A p \in Request : /\ pc[<<p, 1>>] = "aborted" => pc'[<<p, 1>>] = "aborted"
                          /\ pc'[<<p, 1>>] = "idle" => pc[<<p, 1>>] = "idle"
  BY <1>2, <1>3, <1>4, <1>9
<1> QED BY <1>5, <1>6, <1>7, <1>8, <1>10, <1>11, RowsStep

LEMMA BootAgrees ==
    ASSUME AgreeInv, IInv', NEW s \in Server, BootStep(s)
    PROVE  AgreeInv'
<1>1. TypeOK /\ NotServingFailed
  BY DEF AgreeInv, IInv, BeliefInv
<1>2. UNCHANGED <<pc, crashes>>
  BY DEF BootStep, Restart, FetchNothing, FetchMissing, Fetched, Announce, Listen, threads, history
<1>3. \A q \in Server : ~Failed(q) => table'[q] = table[q] /\ applied'[q] = applied[q]
  <2>1. CASE Restart(s)
    <3>1. Failed(s) /\ applied' = applied
      BY <1>1, <2>1 DEF Restart, NotServingFailed, Serves, history
    <3>2. \A q \in Server \ {s} : table'[q] = table[q]
      BY <1>1, <2>1 DEF Restart, TypeOK
    <3> QED BY <3>1, <3>2
  <2>2. CASE FetchNothing(s) \/ Listen(s) \/ \E q \in Server : Announce(s, q)
    BY <2>2 DEF FetchNothing, Listen, Announce, memory, history
  <2>3. ASSUME NEW p \in Server, FetchMissing(s, p)
        PROVE  \A q \in Server : ~Failed(q) => table'[q] = table[q] /\ applied'[q] = applied[q]
    <3>1. PICK es : PutValues(s, es)
      BY <2>3 DEF FetchMissing
    <3>2. Failed(s)
      BY <1>1, <2>3 DEF FetchMissing, Fetched, NotServingFailed, Serves
    <3>3. \A q \in Server \ {s} : table'[q] = table[q]
      BY <1>1, <3>1, PutElsewhere
    <3>4. \A q \in Server \ {s} : applied'[q] = applied[q]
      BY <1>1, <3>1 DEF PutValues, TypeOK
    <3> QED BY <3>2, <3>3, <3>4
  <2> QED BY <2>1, <2>2, <2>3 DEF BootStep
<1>4. \A q \in Server : ~Failed(q)' =>
         ~Failed(q) /\ table'[q] = table[q] /\ applied'[q] = applied[q]
  BY <1>2, <1>3 DEF Failed
<1>5. \A b \in Handler : pc'[b] = pc[b]
  BY <1>2
<1> QED BY <1>4, <1>5, OthersAgree

LEMMA CrashAgrees ==
    ASSUME AgreeInv, IInv', NEW s \in Server, Crash(s)
    PROVE  AgreeInv'
<1>1. TypeOK
  BY DEF AgreeInv, IInv
<1>2. /\ crashes' = [crashes EXCEPT ![s] = @ + 1]
      /\ table' = [table EXCEPT ![s] = NoValues] /\ applied' = applied
      /\ pc' = [a \in Handler |-> IF RunsAt(a, s) THEN "aborted" ELSE pc[a]]
  BY DEF Crash, Kill
<1>3. \A q \in Server : ~Failed(q)' =>
         ~Failed(q) /\ table'[q] = table[q] /\ applied'[q] = applied[q]
  BY <1>1, <1>2 DEF Failed, TypeOK
<1>4. \A b \in Handler : pc'[b] = pc[b] \/ (pc[b] # "idle" /\ pc'[b] = "aborted")
  <2>1. "idle" \notin Busy
    BY DEF Busy, Waiting, Loops, Sends, Tells
  <2> QED BY <1>2, <2>1 DEF RunsAt
<1> QED BY <1>3, <1>4, OthersAgree

LEMMA AgreeStart == SerialInit => AgreeInv
<1> SUFFICES ASSUME AllUp(0) PROVE AgreeInv
  BY DEF SerialInit
<1>1. IInv
  BY InitType, InitInv DEF IInv
<1>2. /\ \A a \in Handler : pc[a] = "idle"
      /\ \A s \in Server : table[s] = NoValues /\ applied[s] = {}
  BY DEF AllUp
<1>3. "idle" \notin Busy
  BY DEF Busy, Waiting, Loops, Sends, Tells
<1> QED BY <1>1, <1>2, <1>3
        DEF AgreeInv, OnePut, Begun, NotYetStored, RowsAgree, UnderWay

\* PUTs that arrive one at a time, at any server of a group of any size, while
\* servers crash at any moment and channels go on failing: between PUTs, the
\* servers that never went down hold the same value of every row none of whose
\* PUTs was cut short.
THEOREM NeverFailedServersAgree == SerialSpec => []NeverFailedAgree
<1>1. AgreeInv => NeverFailedAgree
  <2> SUFFICES ASSUME AgreeInv, Quiet, NEW u \in User, Whole(u),
                      NEW s \in Server, NEW t \in Server, crashes[s] = 0, crashes[t] = 0
               PROVE  table[s][u] = table[t][u]
    BY DEF NeverFailedAgree, Whole
  <2>1. \A r \in Request : ~UnderWay(r)
    BY DEF Quiet, UnderWay
  <2>2. ~Failed(s) /\ ~Failed(t)
    BY DEF Failed
  <2> QED BY <2>1, <2>2 DEF AgreeInv, RowsAgree
<1>2. AgreeInv /\ [SerialNext]_vars => AgreeInv'
  <2> SUFFICES ASSUME AgreeInv, [SerialNext]_vars PROVE AgreeInv'
    OBVIOUS
  <2>1. [Next]_vars
    BY DEF SerialNext, Next, ClientPut, SerialBoot, SerialCrash, Wait
  <2>2. IInv'
    BY <2>1, NextInv DEF AgreeInv
  <2>3. CASE UNCHANGED vars
    <3>1. UNCHANGED <<pc, table, crashes, applied>>
      BY <2>3 DEF vars, memory, threads, history
    <3> QED BY <2>2, <3>1, OthersAgree DEF Failed
  <2>4. CASE \E r \in Request, s \in Server : ClientPut(r, s)
    BY <2>2, <2>4, ClientAgrees
  <2>5. CASE \E a \in Handler : HandlerStep(a)
    BY <2>2, <2>5, HandlerAgrees
  <2>6. CASE \E s \in Server : SerialBoot(s)
    BY <2>2, <2>6, BootAgrees DEF SerialBoot
  <2>7. CASE \E s \in Server : SerialCrash(s)
    BY <2>2, <2>7, CrashAgrees DEF SerialCrash
  <2> QED BY <2>3, <2>4, <2>5, <2>6, <2>7 DEF SerialNext, Wait
<1> QED BY <1>1, <1>2, AgreeStart, PTL DEF SerialSpec

-----------------------------------------------------------------------------
(* What the log keeps for a replica that is down is not lost: nobody moves *)
(* the marker of a replica that is already recorded.  While all but one    *)
(* serve, nobody records a replica before the first server does, and that  *)
(* one tells each of the others once.                                      *)

DownFirst ==
    \A s, f \in Server : IsFirst(f) =>
        \A q \in downList[s] : mode[q] = "down" => q \in downList[f]

NotTold ==
    \A a \in Handler : pc[a] \in Tells =>
        /\ dead[a] \in downList[at[a]]
        /\ \A p \in tell[a] : Serves(p) => dead[a] \notin downList[p]

InfoInv == SerialInv /\ DownFirst /\ NotTold

\* The lists stay, and no thread begins to tell or has more to tell.
LEMMA SameLists ==
    ASSUME InfoInv, UNCHANGED <<mode, downList>>,
           \A a \in Handler : pc'[a] \in Tells =>
              /\ pc[a] \in Tells /\ at'[a] = at[a] /\ dead'[a] = dead[a]
              /\ tell'[a] \subseteq tell[a]
    PROVE  DownFirst' /\ NotTold'
<1>1. DownFirst'
  BY DEF InfoInv, DownFirst, IsFirst, IsNext, Serving, Serves
<1>2. NotTold'
  BY DEF InfoInv, NotTold, Serves
<1> QED BY <1>1, <1>2

LEMMA HeartbeatFailsInfo ==
    ASSUME InfoInv, NEW a \in Handler, NEW q \in Server, HeartbeatFails(a, q)
    PROVE  DownFirst' /\ NotTold'
<1>0. TypeOK /\ SerialInv
  BY DEF InfoInv, SerialInv
<1>1. /\ pc[a] \in Busy
      /\ mode' = mode /\ at' = at
      /\ downList' = [downList EXCEPT ![at[a]] = @ \cup {q}]
      /\ tell' = [tell EXCEPT ![a] = Peers(at[a])] /\ dead' = [dead EXCEPT ![a] = q]
      /\ \A b \in Handler : b # a => pc'[b] = pc[b]
      /\ q \in avail[at[a]] /\ ~Serves(q)
  BY <1>0 DEF HeartbeatFails, RecordDown, Busy, TypeOK
<1>2. /\ at[a] \in Server /\ IsFirst(at[a]) /\ q \notin downList[at[a]]
      /\ \A b \in Handler : b # a => pc[b] \notin Busy
      /\ mode[q] = "down"
  BY <1>0, <1>1, AtWork DEF Serves
<1>3. \A p \in Server : q \notin downList[p]
  BY <1>2 DEF InfoInv, DownFirst
<1>4. downList'[at[a]] = downList[at[a]] \cup {q}
      /\ \A p \in Server : p # at[a] => downList'[p] = downList[p]
  BY <1>0, <1>1, <1>2 DEF TypeOK
<1>5. \A f : IsFirst(f)' <=> IsFirst(f)
  BY <1>1 DEF IsFirst, IsNext, Serving, Serves
<1>6. \A f \in Server : IsFirst(f) => f = at[a]
  BY <1>2, OneNext, Serving \in SUBSET Server DEF IsFirst, Serving
<1>7. DownFirst'
  BY <1>1, <1>4, <1>5, <1>6 DEF InfoInv, DownFirst
<1>8. ASSUME NEW b \in Handler, pc'[b] \in Tells
      PROVE  /\ dead'[b] \in downList'[at'[b]]
             /\ \A p \in tell'[b] : Serves(p)' => dead'[b] \notin downList'[p]
  <2>1. b = a
    BY <1>1, <1>2, <1>8 DEF Busy
  <2>2. dead'[a] = q /\ tell'[a] = Peers(at[a])
    BY <1>0, <1>1 DEF TypeOK
  <2> QED BY <1>1, <1>3, <1>4, <2>1, <2>2 DEF Peers
<1> QED BY <1>7, <1>8 DEF NotTold

LEMMA TellDownInfo ==
    ASSUME InfoInv, NEW a \in Handler, NEW q \in Server, TellDown(a, q)
    PROVE  DownFirst' /\ NotTold' /\ dead[a] \notin downList[q]
<1>0. TypeOK /\ SerialInv
  BY DEF InfoInv, SerialInv
<1>1. /\ pc[a] \in Busy /\ pc[a] \in Tells
      /\ UNCHANGED <<mode, pc, at, dead>>
      /\ downList' = [downList EXCEPT ![q] = @ \cup {dead[a]}]
      /\ tell' = [tell EXCEPT ![a] = @ \ {q}]
      /\ IsNext(q, tell[a]) /\ Serves(q)
  BY DEF TellDown, RecordDown, Reaches, Busy
<1>2. /\ at[a] \in Server /\ IsFirst(at[a])
      /\ \A b \in Handler : b # a => pc[b] \notin Busy
  BY <1>0, <1>1, AtWork
<1>3. /\ dead[a] \in downList[at[a]]
      /\ \A p \in tell[a] : Serves(p) => dead[a] \notin downList[p]
  BY <1>1 DEF InfoInv, NotTold
<1>4. dead[a] \notin downList[q]
  BY <1>1, <1>3 DEF IsNext
<1>5. /\ downList'[q] = downList[q] \cup {dead[a]}
      /\ \A p \in Server : p # q => downList'[p] = downList[p]
      /\ tell'[a] = tell[a] \ {q} /\ tell[a] \subseteq Server
  BY <1>0, <1>1 DEF TypeOK
<1>6. \A f : IsFirst(f)' <=> IsFirst(f)
  BY <1>1 DEF IsFirst, IsNext, Serving, Serves
<1>7. \A f \in Server : IsFirst(f) => f = at[a]
  BY <1>2, OneNext, Serving \in SUBSET Server DEF IsFirst, Serving
<1>8. downList'[at[a]] = downList[at[a]]
  BY <1>2, <1>3, <1>4, <1>5
<1>9. DownFirst'
  BY <1>1, <1>3, <1>5, <1>6, <1>7, <1>8 DEF InfoInv, DownFirst
<1>10. ASSUME NEW b \in Handler, pc'[b] \in Tells
       PROVE  /\ dead'[b] \in downList'[at'[b]]
              /\ \A p \in tell'[b] : Serves(p)' => dead'[b] \notin downList'[p]
  <2>1. b = a
    BY <1>1, <1>2, <1>10 DEF Busy
  <2> QED BY <1>1, <1>3, <1>5, <1>8, <2>1 DEF Serves
<1> QED BY <1>4, <1>9, <1>10 DEF NotTold

LEMMA HandlerInfo ==
    ASSUME OneClientAtFirst, InfoInv, NEW a \in Handler, HandlerStep(a)
    PROVE  DownFirst' /\ NotTold'
<1>0. SerialInv /\ TypeOK
  BY DEF InfoInv, SerialInv
<1>1. CASE NoPrimary(a) \/ ReportRefused(a) \/ IsPrimary(a) \/ SelectEnds(a)
  <2>1. /\ UNCHANGED <<mode, downList, at, tell, dead>>
        /\ \/ pc' = [pc EXCEPT ![a] = "select"]
           \/ pc' = [pc EXCEPT ![a] = "bcast"]
    BY <1>1 DEF NoPrimary, ReportRefused, IsPrimary, SelectEnds, SelectSelf, Broadcast, memory
  <2>2. \A b \in Handler : pc'[b] \in Tells => pc[b] \in Tells
    BY <1>0, <2>1 DEF Tells, TypeOK
  <2> QED BY <2>1, <2>2, SameLists
<1>2. CASE TellEnds(a)
  <2>1. /\ UNCHANGED <<mode, downList, at, tell>>
        /\ pc' = [pc EXCEPT ![a] = IF @ = "selectTell" THEN "select" ELSE "bcast"]
        /\ dead' = [dead EXCEPT ![a] = None]
    BY <1>2 DEF TellEnds, memory
  <2>2. \A b \in Handler : pc'[b] \in Tells => b # a /\ pc[b] \in Tells
    BY <1>0, <2>1 DEF Tells, TypeOK
  <2>3. \A b \in Handler : pc'[b] \in Tells => dead'[b] = dead[b]
    BY <1>0, <2>1, <2>2 DEF TypeOK
  <2> QED BY <2>1, <2>2, <2>3, SameLists
<1>3. CASE StoreOwn(a)
  <2>1. /\ UNCHANGED <<mode, downList, at, tell, dead>>
        /\ pc' = [pc EXCEPT ![a] = "returned"]
    BY <1>3 DEF StoreOwn
  <2>2. \A b \in Handler : pc'[b] \in Tells => pc[b] \in Tells
    BY <1>0, <2>1 DEF Tells, TypeOK
  <2> QED BY <2>1, <2>2, SameLists
<1>4. ASSUME NEW q \in Server, SkipDown(a, q) \/ HeartbeatAnswers(a, q)
      PROVE  DownFirst' /\ NotTold'
  <2>1. /\ UNCHANGED <<mode, downList, at, tell, dead>>
        /\ \/ pc' = pc
           \/ pc' = [pc EXCEPT ![a] = IF @ = "select" THEN "selectSend" ELSE "bcastSend"]
    BY <1>4 DEF SkipDown, HeartbeatAnswers, memory
  <2>2. \A b \in Handler : pc'[b] \in Tells => pc[b] \in Tells
    BY <1>0, <2>1 DEF Tells, TypeOK
  <2> QED BY <2>1, <2>2, SameLists
<1>5. ASSUME NEW q \in Server, SendPrimary(a, q) \/ SendValue(a, q)
      PROVE  DownFirst' /\ NotTold'
  <2>1. /\ UNCHANGED <<mode, downList, at, tell, dead>>
        /\ pc' = [pc EXCEPT ![a] = IF @ = "selectSend" THEN "select" ELSE "bcast"]
    BY <1>5 DEF SendPrimary, SendValue, LoopOn
  <2>2. \A b \in Handler : pc'[b] \in Tells => pc[b] \in Tells
    BY <1>0, <2>1 DEF Tells, TypeOK
  <2> QED BY <2>1, <2>2, SameLists
<1>6. ASSUME NEW q \in Server, TellSkips(a, q)
      PROVE  DownFirst' /\ NotTold'
  <2>1. /\ UNCHANGED <<mode, downList, at, pc, dead>>
        /\ tell' = [tell EXCEPT ![a] = @ \ {q}]
    BY <1>6 DEF TellSkips, memory
  <2>2. \A b \in Handler : tell'[b] \subseteq tell[b]
    BY <1>0, <2>1 DEF TypeOK
  <2> QED BY <2>1, <2>2, SameLists
<1> QED BY <1>0, <1>1, <1>2, <1>3, <1>4, <1>5, <1>6, HandlerNever, HeartbeatFailsInfo,
           TellDownInfo DEF HandlerStep

LEMMA BootInfo ==
    ASSUME InfoInv, Quiet, NEW s \in Server, BootStep(s)
    PROVE  DownFirst' /\ NotTold'
<1>0. SerialInv /\ TypeOK
  BY DEF InfoInv, SerialInv
<1>1. pc' = pc
  BY DEF BootStep, Restart, FetchNothing, FetchMissing, Fetched, Announce, Listen, threads
<1>2. NotTold'
  BY <1>1 DEF Quiet, NotTold, Busy
<1>3. CASE Listen(s)
  <2>1. mode' = [mode EXCEPT ![s] = "serving"] /\ ~Serves(s)
    BY <1>3 DEF Listen, Serves
  <2>2. \A q \in Server : mode'[q] = "serving"
    BY <1>0, <2>1 DEF SerialInv, OneDown, Serves, TypeOK
  <2>3. \A p \in Server : downList'[p] \subseteq Server
    BY <1>0, <1>3 DEF Listen, memory, TypeOK
  <2> QED BY <1>2, <2>2, <2>3 DEF DownFirst
<1>4. ASSUME NEW q \in Server, Announce(s, q)
      PROVE  DownFirst'
  <2>1. /\ mode' = mode /\ mode[s] = "announcing"
        /\ downList' = IF Serves(q) THEN [downList EXCEPT ![q] = @ \ {s}] ELSE downList
    BY <1>4 DEF Announce
  <2>2. \A p \in Server :
           /\ downList'[p] \subseteq Server
           /\ \A d \in Server : mode[d] = "down" => (d \in downList'[p] <=> d \in downList[p])
    BY <1>0, <2>1 DEF TypeOK
  <2>3. \A f : IsFirst(f)' <=> IsFirst(f)
    BY <2>1 DEF IsFirst, IsNext, Serving, Serves
  <2> QED BY <2>1, <2>2, <2>3 DEF InfoInv, DownFirst
<1>5. ASSUME UNCHANGED downList, NEW m \in {"booting", "announcing"},
             ~Serves(s), mode' = [mode EXCEPT ![s] = m]
      PROVE  DownFirst'
  <2>1. \A d \in Server : mode'[d] = "down" => mode[d] = "down"
    BY <1>0, <1>5 DEF TypeOK
  <2>2. \A p \in Server : Serves(p)' <=> Serves(p)
    BY <1>0, <1>5 DEF Serves, TypeOK
  <2>3. \A f : IsFirst(f)' <=> IsFirst(f)
    BY <2>2 DEF IsFirst, IsNext, Serving
  <2>4. \A p \in Server : downList[p] \subseteq Server
    BY <1>0 DEF TypeOK
  <2> QED BY <1>5, <2>1, <2>3, <2>4 DEF InfoInv, DownFirst
<1>6. Restart(s) => UNCHANGED downList /\ ~Serves(s) /\ mode' = [mode EXCEPT ![s] = "booting"]
  BY DEF Restart, Serves
<1>7. FetchNothing(s) \/ (\E q \in Server : FetchMissing(s, q)) =>
         UNCHANGED downList /\ ~Serves(s) /\ mode' = [mode EXCEPT ![s] = "announcing"]
  BY DEF FetchNothing, FetchMissing, Fetched, Serves, memory
<1>8. Restart(s) \/ FetchNothing(s) \/ (\E q \in Server : FetchMissing(s, q)) => DownFirst'
  BY <1>5, <1>6, <1>7
<1> QED BY <1>2, <1>3, <1>4, <1>8 DEF BootStep

LEMMA CrashInfo ==
    ASSUME OneClientAtFirst, InfoInv, NEW s \in Server, SerialCrash(s)
    PROVE  DownFirst' /\ NotTold'
<1>0. SerialInv /\ TypeOK
  BY DEF InfoInv, SerialInv
<1>1. /\ Quiet /\ \A p \in Server : Serves(p)
      /\ downList' = [downList EXCEPT ![s] = {}]
      /\ pc' = [a \in Handler |-> IF RunsAt(a, s) THEN "aborted" ELSE pc[a]]
  BY DEF SerialCrash, Crash, Kill, OneClientAtFirst, Serving
<1>2. \A a \in Handler : pc'[a] \notin Tells
  BY <1>1 DEF Quiet, Busy, Tells
<1>3. \A p \in Server : downList'[p] = {}
  BY <1>0, <1>1 DEF SerialInv, DownKnown, TypeOK
<1> QED BY <1>2, <1>3 DEF DownFirst, NotTold

LEMMA InfoStart == SerialInit => InfoInv
<1> SUFFICES ASSUME AllUp(0) PROVE InfoInv
  BY DEF SerialInit
<1>1. SerialInv
  BY SerialStart DEF SerialInit
<1> QED BY <1>1 DEF InfoInv, DownFirst, NotTold, AllUp, Tells

LEMMA InfoSteps == OneClientAtFirst /\ InfoInv /\ [SerialNext]_vars => InfoInv'
<1> SUFFICES ASSUME OneClientAtFirst, InfoInv, [SerialNext]_vars PROVE InfoInv'
  OBVIOUS
<1>1. SerialInv'
  BY SerialSteps DEF InfoInv
<1>2. SUFFICES DownFirst' /\ NotTold'
  BY <1>1 DEF InfoInv
<1>3. CASE UNCHANGED vars
  <2>1. UNCHANGED <<mode, downList, pc, at, tell, dead>>
    BY <1>3 DEF vars, memory, threads
  <2> QED BY <2>1, SameLists
<1>4. ASSUME NEW r \in Request, NEW s \in Server, ClientPut(r, s)
      PROVE  DownFirst' /\ NotTold'
  <2>1. /\ UNCHANGED <<mode, downList, tell, dead>> /\ Quiet
        /\ pc' = [pc EXCEPT ![<<r, 1>>] = "arrived"]
    BY <1>4 DEF ClientPut, Settled, PutArrives, memory
  <2>2. \A a \in Handler : pc'[a] \notin Tells
    BY <2>1 DEF InfoInv, SerialInv, Quiet, Busy, Tells, TypeOK
  <2> QED BY <2>1, <2>2, SameLists
<1>5. ASSUME NEW s \in Server, SerialBoot(s) PROVE DownFirst' /\ NotTold'
  <2>1. Quiet
    BY <1>5 DEF SerialBoot, OneClientAtFirst
  <2> QED BY <1>5, <2>1, BootInfo DEF SerialBoot
<1> QED BY <1>3, <1>4, <1>5, HandlerInfo, CrashInfo DEF SerialNext, Wait

-----------------------------------------------------------------------------

\* What a step keeps of the log for the replica q that s has recorded.
InfoKept(s, q) ==
    /\ marker'[s][q] # None
    /\ Seqs!IsPrefix(After(log[s], marker[s][q]), After(log'[s], marker'[s][q]))

LEMMA PrefixOfConcat ==
    ASSUME NEW es \in Seq(Request), NEW fs \in Seq(Request)
    PROVE  Seqs!IsPrefix(es, es) /\ Seqs!IsPrefix(es, es \o fs)
<1>1. /\ es \o fs \in Seq(Request) /\ Len(es \o fs) = Len(es) + Len(fs)
      /\ Len(es) \in Nat /\ Len(fs) \in Nat
  BY ConcatProperties, LenProperties
<1>2. SubSeq(es, 1, Len(es)) = SubSeq(es \o fs, 1, Len(es))
  OBVIOUS
<1> QED BY <1>1, <1>2 DEF Seqs!IsPrefix

LEMMA InfoFacts ==
    ASSUME InfoInv, NEW s \in Server, NEW q \in downList[s]
    PROVE  /\ log[s] \in Seq(Request) /\ marker[s][q] \in Nat /\ marker[s][q] # None
           /\ marker[s][q] <= Len(log[s])
           /\ After(log[s], marker[s][q]) \in Seq(Request) /\ q \in Server
<1>1. TypeOK /\ PassedOverIsMarked
  BY DEF InfoInv, SerialInv, MarkInv
<1>2. /\ log[s] \in Seq(Request) /\ q \in Server /\ marker[s][q] \in Nat
      /\ marker[s][q] # None /\ marker[s][q] <= Len(log[s])
  BY <1>1 DEF TypeOK, PassedOverIsMarked
<1> QED BY <1>2, AfterType

LEMMA SameLogs ==
    ASSUME InfoInv, NEW s \in Server, NEW q \in downList[s],
           log'[s] = log[s], marker'[s][q] = marker[s][q]
    PROVE  InfoKept(s, q)
BY InfoFacts, PrefixOfConcat DEF InfoKept

\* No checkpoint cuts the log off while q is recorded: put_value appends.
LEMMA PutInfo ==
    ASSUME InfoInv, NEW p \in Server, NEW es \in Seq(Request), PutValues(p, es),
           NEW s \in Server, NEW q \in downList[s]
    PROVE  InfoKept(s, q)
<1>0. TypeOK
  BY DEF InfoInv, SerialInv
<1>1. /\ log[s] \in Seq(Request) /\ marker[s][q] \in Nat /\ marker[s][q] # None
      /\ marker[s][q] <= Len(log[s]) /\ After(log[s], marker[s][q]) \in Seq(Request)
  BY InfoFacts
<1>2. CASE s # p
  BY <1>0, <1>2, PutElsewhere, SameLogs
<1>3. CASE s = p
  <2>1. downList[p] # {}
    BY <1>3
  <2>2. log' = [log EXCEPT ![p] = @ \o es] /\ marker' = marker
    BY <2>1 DEF PutValues
  <2>3. log'[s] = log[s] \o es /\ marker'[s][q] = marker[s][q]
    BY <1>0, <1>3, <2>2 DEF TypeOK
  <2>4. After(log[s] \o es, marker[s][q]) = After(log[s], marker[s][q]) \o es
    BY <1>1, AfterConcat
  <2> QED BY <1>1, <2>3, <2>4, PrefixOfConcat DEF InfoKept
<1> QED BY <1>2, <1>3

\* A replica is recorded once.
LEMMA RecordInfo ==
    ASSUME InfoInv, NEW p \in Server, NEW d \in Server, RecordDown(p, d), d \notin downList[p],
           NEW s \in Server, NEW q \in downList[s]
    PROVE  InfoKept(s, q)
<1>1. TypeOK /\ q \in Server
  BY InfoFacts DEF InfoInv, SerialInv
<1>2. log' = log /\ marker' = [marker EXCEPT ![p][d] = Len(log[p])]
  BY DEF RecordDown
<1>3. s # p \/ q # d
  OBVIOUS
<1>4. marker'[s][q] = marker[s][q]
  BY <1>1, <1>2, <1>3 DEF TypeOK
<1> QED BY <1>2, <1>4, SameLogs

LEMMA HandlerInfoKept ==
    ASSUME OneClientAtFirst, InfoInv, NEW a \in Handler, HandlerStep(a),
           NEW s \in Server, NEW q \in downList[s]
    PROVE  InfoKept(s, q)
<1>0. SerialInv /\ TypeOK
  BY DEF InfoInv, SerialInv
<1>1. a[1] \in Request /\ <<a[1]>> \in Seq(Request)
  BY HandlerFacts
<1>2. pc[a] \in Busy => at[a] \in Server /\ avail[at[a]] = Peers(at[a]) \ downList[at[a]]
  BY <1>0, AtWork
<1>3. ASSUME NEW p \in Server, HeartbeatFails(a, p) PROVE InfoKept(s, q)
  <2>1. RecordDown(at[a], p) /\ pc[a] \in Busy /\ p \in avail[at[a]]
    BY <1>3 DEF HeartbeatFails, Busy
  <2> QED BY <1>2, <2>1, RecordInfo
<1>4. ASSUME NEW p \in Server, TellDown(a, p) PROVE InfoKept(s, q)
  <2>1. RecordDown(p, dead[a]) /\ dead[a] \in Server
    BY <1>0, <1>4 DEF TellDown, TypeOK
  <2>2. dead[a] \notin downList[p]
    BY <1>4, TellDownInfo
  <2> QED BY <2>1, <2>2, RecordInfo
<1>5. ASSUME NEW p \in Server, SendValue(a, p) PROVE InfoKept(s, q)
  BY <1>1, <1>5, PutInfo DEF SendValue
<1>6. CASE StoreOwn(a)
  <2>1. at[a] \in Server /\ PutValues(at[a], <<a[1]>>)
    BY <1>2, <1>6 DEF StoreOwn, Busy, Loops
  <2> QED BY <1>1, <2>1, PutInfo
<1>7. CASE UNCHANGED <<log, marker>>
  BY <1>7, SameLogs
<1>8. \/ NoPrimary(a) \/ ReportRefused(a) \/ IsPrimary(a) \/ SelectEnds(a) \/ TellEnds(a)
      \/ \E p \in Server : \/ SkipDown(a, p) \/ HeartbeatAnswers(a, p) \/ SendPrimary(a, p)
                           \/ TellSkips(a, p)
      => UNCHANGED <<log, marker>>
  BY DEF NoPrimary, ReportRefused, IsPrimary, SelectEnds, TellEnds, SkipDown, HeartbeatAnswers,
         SendPrimary, TellSkips, SelectSelf, Broadcast, disk
<1> QED BY <1>0, <1>3, <1>4, <1>5, <1>6, <1>7, <1>8, HandlerNever DEF HandlerStep

LEMMA BootInfoKept ==
    ASSUME InfoInv, NEW b \in Server, BootStep(b), NEW s \in Server, NEW q \in downList[s]
    PROVE  InfoKept(s, q)
<1>1. ASSUME NEW p \in Server, FetchMissing(b, p) PROVE InfoKept(s, q)
  <2>1. log[p] \in Seq(Request) /\ marker[p][b] \in Nat \cup {None}
    BY DEF InfoInv, SerialInv, TypeOK
  <2>2. 0 .. Len(log[p]) \subseteq Nat
    OBVIOUS
  <2>3. PICK n : n \in Nat /\ PutValues(b, After(log[p], n))
    BY <1>1, <2>1, <2>2 DEF FetchMissing
  <2>4. After(log[p], n) \in Seq(Request)
    BY <2>1, <2>3, AfterType
  <2> QED BY <2>3, <2>4, PutInfo
<1>2. Restart(b) \/ FetchNothing(b) \/ Listen(b) \/ (\E p \in Server : Announce(b, p))
      => UNCHANGED <<log, marker>>
  BY DEF Restart, FetchNothing, Listen, Announce, disk
<1>3. CASE UNCHANGED <<log, marker>>
  BY <1>3, SameLogs
<1> QED BY <1>1, <1>2, <1>3 DEF BootStep

\* In a group of any size that one client uses at a time, and whose servers
\* crash one at a time between its PUTs: while a replica is recorded as down,
\* what the log holds for it after its marker is never lost, neither by a
\* checkpoint nor by a second record that would move the marker.
THEOREM LogKeepsWhatIsMissing ==
    ASSUME OneClientAtFirst
    PROVE  SerialSpec => MissingInfoKept
<1>1. InfoInv /\ [SerialNext]_vars =>
         [\A s \in Server : \A q \in downList[s] \cap downList'[s] :
             /\ marker'[s][q] # None
             /\ Seqs!IsPrefix(After(log[s], marker[s][q]),
                              After(log'[s], marker'[s][q]))]_vars
  <2> SUFFICES ASSUME InfoInv, SerialNext, NEW s \in Server, NEW q \in downList[s]
               PROVE  InfoKept(s, q)
    BY DEF InfoKept
  <2>1. CASE UNCHANGED <<log, marker>>
    BY <2>1, SameLogs
  <2>2. ASSUME NEW r \in Request, NEW p \in Server, ClientPut(r, p)
        PROVE  UNCHANGED <<log, marker>>
    BY <2>2 DEF ClientPut, PutArrives, disk
  <2>3. ASSUME NEW p \in Server, SerialCrash(p) PROVE UNCHANGED <<log, marker>>
    BY <2>3 DEF SerialCrash, Crash, Kill, disk
  <2>4. Wait => UNCHANGED <<log, marker>>
    BY DEF Wait, vars, disk
  <2> QED BY <2>1, <2>2, <2>3, <2>4, HandlerInfoKept, BootInfoKept DEF SerialNext, SerialBoot
<1>2. InfoInv /\ [SerialNext]_vars => InfoInv'
  BY InfoSteps
<1> QED BY <1>1, <1>2, InfoStart, PTL DEF SerialSpec, MissingInfoKept

-----------------------------------------------------------------------------
(* Who is primary.  Here a PUT may enter at any server, but servers crash   *)
(* and restart between PUTs only.  Between PUTs the servers that know a     *)
(* primary of a row then know the same one; a PUT that finds it dead or     *)
(* unknown tells everybody who serves of a new one before it goes on.  So a *)
(* server that is given a value knows no other primary.                     *)

FailuresBetweenPuts == IdleFailures /\ ~ChannelBackoff

\* One PUT is under way, at the server it entered at or, by one Report, at the
\* primary; meanwhile no server stops or starts.
WorkInv ==
    \A a \in Handler :
        /\ pc[a] # "aborted"
        /\ pc[a] \in Busy =>
              /\ Serves(at[a])
              /\ a[2] = 1 \/ (a[2] = 2 /\ pc[<<a[1], 1>>] = "reporting")
              /\ pc[a] = "reporting" => a[2] = 1 /\ Callee(a) \in Handler
              /\ pc[a] \in Sends => \A q \in Server : IsNext(q, todo[a]) => Serves(q)
              /\ pc[a] \in Tells => ~Serves(dead[a])
              /\ \A b \in Handler : pc[b] \in Busy => a[1] = b[1]
              /\ \A s \in Server : mode[s] \in {"down", "serving"}

Selecting(a) == pc[a] \in {"select", "selectSend", "selectTell"}

\* The servers that are no longer in the loop of a know a's server or nobody.
Chosen(a) ==
    /\ primaryMap[at[a]][Row(a)] = at[a]
    /\ \A q \in Server \ todo[a] : primaryMap[q][Row(a)] \in {None, at[a]}

OneKnown(u) ==
    \A s, t \in Server :
        primaryMap[s][u] # None /\ primaryMap[t][u] # None =>
            primaryMap[s][u] = primaryMap[t][u]

KnownInv ==
    /\ \A s \in Server : ~Serves(s) => primaryMap[s] = NoValues
    /\ \A a \in Handler : Selecting(a) => Chosen(a)
    /\ \A u \in User : (\A a \in Handler : Selecting(a) => Row(a) # u) => OneKnown(u)
    /\ \A a \in Handler : pc[a] = "arrived" /\ a[2] # 1 =>
          primaryMap[at[a]][Row(a)] \in {None, at[a]}

PrimaryInv == TypeOK /\ MarkInv /\ OneDown /\ DownKnown /\ WorkInv /\ KnownInv

PrimaryKept == OneDown /\ DownKnown /\ WorkInv /\ KnownInv

\* What the invariant says of the thread that works on the PUT.
LEMMA OneWorks ==
    ASSUME PrimaryInv, NEW a \in Handler, pc[a] \in Busy, pc[a] # "reporting"
    PROVE  /\ at[a] \in Server /\ Serves(at[a]) /\ Row(a) \in User
           /\ \A b \in Handler : b # a /\ pc[b] \in Busy =>
                 pc[b] = "reporting" /\ b[2] = 1 /\ b[1] = a[1] /\ a[2] = 2
           /\ \A b \in Handler : b # a => ~Selecting(b)
           /\ \A q \in Server : mode[q] \in {"down", "serving"}
           /\ avail[at[a]] = Peers(at[a]) \ downList[at[a]]
           /\ \A s \in Server : \A q \in downList[s] : ~Serves(q)
<1>1. Serves(at[a]) /\ \A q \in Server : mode[q] \in {"down", "serving"}
  BY DEF PrimaryInv, WorkInv
<1>2. at[a] \in Server /\ Row(a) \in User
  <2>1. pc[a] # "idle"
    BY DEF Busy, Waiting, Loops, Sends, Tells
  <2> QED BY <2>1, HandlerFacts DEF PrimaryInv, TypeOK
<1>3. ASSUME NEW b \in Handler, b # a, pc[b] \in Busy
      PROVE  pc[b] = "reporting" /\ b[2] = 1 /\ b[1] = a[1] /\ a[2] = 2
  <2>1. /\ b[1] = a[1]
        /\ a[2] = 1 \/ (a[2] = 2 /\ pc[<<a[1], 1>>] = "reporting")
        /\ b[2] = 1 \/ (b[2] = 2 /\ pc[<<b[1], 1>>] = "reporting")
    BY <1>3 DEF PrimaryInv, WorkInv
  <2>2. a = <<a[1], a[2]>> /\ b = <<b[1], b[2]>>
    BY DEF Handler
  <2> QED BY <1>3, <2>1, <2>2
<1>4. \A b \in Handler : b # a => ~Selecting(b)
  BY <1>3 DEF Selecting, Busy, Loops, Sends, Tells
<1>5. avail[at[a]] = Peers(at[a]) \ downList[at[a]]
  BY <1>2 DEF PrimaryInv, MarkInv, PassedOverIsMarked
<1>6. \A s \in Server : \A q \in downList[s] : ~Serves(q)
  BY DEF PrimaryInv, DownKnown
<1> QED BY <1>1, <1>2, <1>3, <1>4, <1>5, <1>6

\* The thread that works on the PUT goes on, or ends.
LEMMA WorkGoesOn ==
    ASSUME PrimaryInv, NEW a \in Handler, pc[a] \in Busy, pc[a] # "reporting",
           UNCHANGED <<mode, at>>,
           \A b \in Handler : b # a =>
              pc'[b] = pc[b] /\ todo'[b] = todo[b] /\ dead'[b] = dead[b],
           pc'[a] \notin {"reporting", "aborted"},
           pc'[a] \in Sends => \A q \in Server : IsNext(q, todo'[a]) => Serves(q),
           pc'[a] \in Tells => ~Serves(dead'[a])
    PROVE  WorkInv'
<1>1. \A b \in Handler : b # a /\ pc[b] \in Busy =>
         pc[b] = "reporting" /\ b[2] = 1 /\ b[1] = a[1] /\ a[2] = 2
  BY OneWorks
<1>2. /\ Serves(at[a])
      /\ a[2] = 1 \/ (a[2] = 2 /\ pc[<<a[1], 1>>] = "reporting")
      /\ \A s \in Server : mode[s] \in {"down", "serving"}
      /\ \A b \in Handler : pc[b] # "aborted"
      /\ \A b \in Handler : pc[b] \in Busy => Serves(at[b])
  BY DEF PrimaryInv, WorkInv
<1>3. <<a[1], 1>> \in Handler /\ (a[2] = 2 => <<a[1], 1>> # a)
  BY BoundAssumption DEF Handler
<1> SUFFICES ASSUME NEW b \in Handler
             PROVE  (/\ pc[b] # "aborted"
                     /\ pc[b] \in Busy =>
                          /\ Serves(at[b])
                          /\ b[2] = 1 \/ (b[2] = 2 /\ pc[<<b[1], 1>>] = "reporting")
                          /\ pc[b] = "reporting" => b[2] = 1 /\ Callee(b) \in Handler
                          /\ pc[b] \in Sends => \A q \in Server : IsNext(q, todo[b]) => Serves(q)
                          /\ pc[b] \in Tells => ~Serves(dead[b])
                          /\ \A c \in Handler : pc[c] \in Busy => b[1] = c[1]
                          /\ \A s \in Server : mode[s] \in {"down", "serving"})'
  BY DEF WorkInv
<1>4. \A c \in Handler : pc'[c] \in Busy => c[1] = a[1]
  BY <1>1
<1>5. CASE b = a
  BY <1>2, <1>3, <1>4, <1>5 DEF Serves, IsNext
<1>6. CASE b # a
  BY <1>1, <1>2, <1>4, <1>6 DEF Serves, Sends, Tells, PrimaryInv, WorkInv, Callee
<1> QED BY <1>5, <1>6

\* What the steps keep that leave the lists, or the primaries, as they are.
LEMMA ListsStay ==
    ASSUME PrimaryInv, UNCHANGED <<mode, downList, announce>>
    PROVE  OneDown' /\ DownKnown'
BY DEF PrimaryInv, OneDown, DownKnown, Serves

LEMMA SamePrimaries ==
    ASSUME PrimaryInv, NEW a \in Handler, pc[a] \in Busy, pc[a] # "reporting",
           UNCHANGED <<mode, at, primaryMap>>,
           \A b \in Handler : b # a => pc'[b] = pc[b] /\ todo'[b] = todo[b],
           pc'[a] # "arrived",
           Selecting(a)' => Selecting(a) /\ Chosen(a)',
           Selecting(a) /\ ~Selecting(a)' => OneKnown(Row(a))
    PROVE  KnownInv'
<1>1. Row(a) \in User /\ \A b \in Handler : b # a => ~Selecting(b)
  BY OneWorks
<1>2. \A b \in Handler : b # a => ~Selecting(b)'
  BY <1>1 DEF Selecting
<1>3. \A s \in Server : ~Serves(s)' => primaryMap'[s] = NoValues
  BY DEF PrimaryInv, KnownInv, Serves
<1>4. \A b \in Handler : Selecting(b)' => Chosen(b)'
  BY <1>2
<1>5. ASSUME NEW u \in User, \A b \in Handler : Selecting(b)' => Row(b) # u
      PROVE  OneKnown(u)'
  <2>1. OneKnown(u)
    <3>1. CASE Selecting(a) /\ Row(a) = u
      BY <1>5, <3>1
    <3>2. CASE ~(Selecting(a) /\ Row(a) = u)
      BY <1>1, <3>2 DEF PrimaryInv, KnownInv
    <3> QED BY <3>1, <3>2
  <2> QED BY <2>1 DEF OneKnown
<1>6. ASSUME NEW b \in Handler, pc'[b] = "arrived", b[2] # 1
      PROVE  primaryMap'[at'[b]][Row(b)] \in {None, at'[b]}
  BY <1>6 DEF PrimaryInv, KnownInv
<1>7. \A b : Row(b)' = Row(b)
  BY DEF Row
<1> QED BY <1>3, <1>4, <1>5, <1>6, <1>7 DEF KnownInv

\* select_primary begins: all other servers are still to be told.
LEMMA SelectsPrimary ==
    ASSUME PrimaryInv, NEW a \in Handler, pc[a] = "arrived", SelectSelf(a)
    PROVE  PrimaryKept'
<1>0. TypeOK
  BY DEF PrimaryInv
<1>1. pc[a] \in Busy /\ pc[a] # "reporting"
  BY DEF Busy, Waiting
<1>2. /\ at[a] \in Server /\ Serves(at[a]) /\ Row(a) \in User
      /\ \A b \in Handler : b # a => ~Selecting(b)
  BY <1>1, OneWorks
<1>3. /\ primaryMap' = [primaryMap EXCEPT ![at[a]][Row(a)] = at[a]]
      /\ pc' = [pc EXCEPT ![a] = "select"]
      /\ todo' = [todo EXCEPT ![a] = Peers(at[a])]
      /\ UNCHANGED <<mode, downList, announce, at, dead>>
  BY DEF SelectSelf
<1>4. /\ pc'[a] = "select" /\ todo'[a] = Peers(at[a])
      /\ \A b \in Handler : b # a => pc'[b] = pc[b] /\ todo'[b] = todo[b]
  BY <1>0, <1>3 DEF TypeOK
<1>5. OneDown' /\ DownKnown'
  BY <1>3, ListsStay
<1>6. WorkInv'
  BY <1>1, <1>3, <1>4, WorkGoesOn DEF Sends, Tells
<1>7. /\ primaryMap'[at[a]][Row(a)] = at[a]
      /\ \A s \in Server, u \in User : s # at[a] \/ u # Row(a) =>
            primaryMap'[s][u] = primaryMap[s][u]
      /\ \A s \in Server : s # at[a] => primaryMap'[s] = primaryMap[s]
  BY <1>0, <1>2, <1>3 DEF TypeOK
<1>8. Selecting(a)' /\ Row(a)' = Row(a) /\ ~Selecting(a)
  BY <1>4 DEF Selecting, Row
<1>9. KnownInv'
  <2>1. \A s \in Server : ~Serves(s)' => primaryMap'[s] = NoValues
    BY <1>2, <1>3, <1>7 DEF PrimaryInv, KnownInv, Serves
  <2>2. Chosen(a)'
    BY <1>2, <1>3, <1>4, <1>7, <1>8 DEF Chosen, Peers
  <2>3. \A b \in Handler : Selecting(b)' => b = a
    BY <1>2, <1>4 DEF Selecting
  <2>4. ASSUME NEW u \in User, \A b \in Handler : Selecting(b)' => Row(b)' # u
        PROVE  OneKnown(u)'
    <3>1. u # Row(a)
      BY <1>8, <2>4
    <3>2. OneKnown(u)
      BY <1>2, <1>8 DEF PrimaryInv, KnownInv
    <3> QED BY <1>7, <3>1, <3>2 DEF OneKnown
  <2>5. ASSUME NEW b \in Handler, pc'[b] = "arrived", b[2] # 1
        PROVE  primaryMap'[at'[b]][Row(b)'] \in {None, at'[b]}
    <3>1. b # a /\ pc[b] = "arrived" /\ pc[b] \in Busy
      BY <1>4, <2>5 DEF Busy, Waiting
    <3> QED BY <1>1, <3>1, OneWorks
  <2> QED BY <2>1, <2>2, <2>3, <2>4, <2>5 DEF KnownInv
<1> QED BY <1>5, <1>6, <1>9 DEF PrimaryKept

\* broadcast begins: everybody has been told who is primary.
LEMMA BroadcastsAsPrimary ==
    ASSUME PrimaryInv, NEW a \in Handler, IsPrimary(a) \/ SelectEnds(a)
    PROVE  PrimaryKept'
<1>0. TypeOK
  BY DEF PrimaryInv
<1>1. /\ pc[a] \in Busy /\ pc[a] # "reporting"
      /\ pc' = [pc EXCEPT ![a] = "bcast"]
      /\ todo' = [todo EXCEPT ![a] = Peers(at[a])]
      /\ UNCHANGED <<mode, primaryMap, downList, announce, at, dead>>
  BY DEF IsPrimary, SelectEnds, Broadcast, Busy, Waiting, Loops, memory
<1>2. /\ pc'[a] = "bcast"
      /\ \A b \in Handler : b # a => pc'[b] = pc[b] /\ todo'[b] = todo[b]
  BY <1>0, <1>1 DEF TypeOK
<1>3. OneDown' /\ DownKnown'
  BY <1>1, ListsStay
<1>4. WorkInv'
  BY <1>1, <1>2, WorkGoesOn DEF Sends, Tells
<1>5. ASSUME Selecting(a) PROVE OneKnown(Row(a))
  <2>1. todo[a] = {} /\ Chosen(a)
    BY <1>5 DEF IsPrimary, SelectEnds, Selecting, PrimaryInv, KnownInv
  <2> QED BY <2>1 DEF Chosen, OneKnown
<1>6. ~Selecting(a)'
  BY <1>2 DEF Selecting
<1>7. KnownInv'
  BY <1>1, <1>2, <1>5, <1>6, SamePrimaries
<1> QED BY <1>3, <1>4, <1>7 DEF PrimaryKept

\* A replica is passed over only when it does not serve: then it knows nobody.
LEMMA ChosenPasses ==
    ASSUME PrimaryInv, NEW a \in Handler, Selecting(a), NEW q \in Server,
           ~Serves(q) \/ q = at[a],
           UNCHANGED <<primaryMap, at>>, todo'[a] = todo[a] \ {q}
    PROVE  Chosen(a)'
<1>1. Chosen(a)
  BY DEF PrimaryInv, KnownInv
<1>2. primaryMap[q][Row(a)] \in {None, at[a]}
  BY <1>1, HandlerFacts DEF PrimaryInv, KnownInv, Chosen, NoValues
<1> QED BY <1>1, <1>2 DEF Chosen, Row

\* The loops and deliver_server_status go on.
LEMMA LoopsAsPrimary ==
    ASSUME PrimaryInv, NEW a \in Handler, NEW q \in Server,
           SkipDown(a, q) \/ HeartbeatAnswers(a, q) \/ TellSkips(a, q) \/ TellEnds(a)
    PROVE  PrimaryKept'
<1>0. TypeOK
  BY DEF PrimaryInv
<1>1. /\ pc[a] \in Busy /\ pc[a] # "reporting"
      /\ UNCHANGED <<mode, primaryMap, downList, announce, at>>
      /\ \A b \in Handler : b # a =>
            pc'[b] = pc[b] /\ todo'[b] = todo[b] /\ dead'[b] = dead[b]
      /\ pc'[a] \in Loops \cup Sends \cup Tells
      /\ Selecting(a)' <=> Selecting(a)
  BY <1>0 DEF SkipDown, HeartbeatAnswers, TellSkips, TellEnds, TypeOK, Busy, Loops, Sends,
     Tells, memory, Selecting
<1>2. OneDown' /\ DownKnown'
  BY <1>1, ListsStay
<1>3. /\ pc'[a] \in Sends => \A p \in Server : IsNext(p, todo'[a]) => Serves(p)
      /\ pc'[a] \in Tells => ~Serves(dead'[a])
  <2>1. CASE SkipDown(a, q) \/ TellEnds(a)
    BY <1>0, <2>1 DEF SkipDown, TellEnds, TypeOK, Loops, Sends, Tells
  <2>2. CASE HeartbeatAnswers(a, q)
    BY <1>0, <2>2, OneNext DEF HeartbeatAnswers, TypeOK, Loops, Sends, Tells
  <2>3. CASE TellSkips(a, q)
    BY <1>0, <1>1, <2>3 DEF TellSkips, TypeOK, Sends, Tells, PrimaryInv, WorkInv
  <2> QED BY <2>1, <2>2, <2>3
<1>4. WorkInv'
  BY <1>1, <1>3, WorkGoesOn DEF Loops, Sends, Tells
<1>5. ASSUME Selecting(a) PROVE Chosen(a)'
  <2>1. CASE SkipDown(a, q)
    <3>1. todo'[a] = todo[a] \ {q} /\ q \notin avail[at[a]]
      BY <1>0, <2>1 DEF SkipDown, TypeOK
    <3>2. ~Serves(q) \/ q = at[a]
      BY <1>1, <3>1, OneWorks DEF Peers
    <3> QED BY <1>1, <1>5, <3>1, <3>2, ChosenPasses
  <2>2. CASE HeartbeatAnswers(a, q) \/ TellSkips(a, q) \/ TellEnds(a)
    BY <1>1, <1>5, <2>2 DEF HeartbeatAnswers, TellSkips, TellEnds, PrimaryInv, KnownInv,
       Chosen, Row
  <2> QED BY <2>1, <2>2
<1>6. KnownInv'
  BY <1>1, <1>5, SamePrimaries DEF Loops, Sends, Tells
<1> QED BY <1>2, <1>4, <1>6 DEF PrimaryKept

\* A server is put on a list while it does not serve and nobody restarts.
LEMMA RecordedIsDown ==
    ASSUME PrimaryInv, NEW s \in Server, NEW q \in Server, Serves(s), ~Serves(q),
           \A p \in Server : mode[p] \in {"down", "serving"},
           downList' = [downList EXCEPT ![s] = @ \cup {q}], UNCHANGED <<mode, announce>>
    PROVE  OneDown' /\ DownKnown'
<1>1. OneDown'
  BY DEF PrimaryInv, OneDown, Serves
<1>2. \A p \in Server : /\ p # s => downList'[p] = downList[p]
                        /\ downList'[p] \subseteq downList[p] \cup {q}
                        /\ downList[p] \subseteq Server
  BY DEF PrimaryInv, TypeOK
<1>3. DownKnown'
  BY <1>2 DEF PrimaryInv, DownKnown, Serves
<1> QED BY <1>1, <1>3

LEMMA RecordsAsPrimary ==
    ASSUME PrimaryInv, NEW a \in Handler, NEW q \in Server,
           HeartbeatFails(a, q) \/ TellDown(a, q)
    PROVE  PrimaryKept'
<1>0. TypeOK
  BY DEF PrimaryInv
<1>1. /\ pc[a] \in Busy /\ pc[a] # "reporting"
      /\ UNCHANGED <<mode, primaryMap, announce, at>>
      /\ \A b \in Handler : b # a =>
            pc'[b] = pc[b] /\ todo'[b] = todo[b] /\ dead'[b] = dead[b]
      /\ pc'[a] \in Tells
      /\ Selecting(a)' <=> Selecting(a)
  BY <1>0 DEF HeartbeatFails, TellDown, TypeOK, Busy, Loops, Sends, Tells, Selecting
<1>2. /\ at[a] \in Server /\ Serves(at[a])
      /\ \A p \in Server : mode[p] \in {"down", "serving"}
  BY <1>1, OneWorks
<1>3. ~Serves(dead'[a])
  <2>1. CASE HeartbeatFails(a, q)
    BY <1>0, <2>1 DEF HeartbeatFails, TypeOK
  <2>2. CASE TellDown(a, q)
    BY <1>1, <2>2 DEF TellDown, PrimaryInv, WorkInv
  <2> QED BY <2>1, <2>2
<1>4. OneDown' /\ DownKnown'
  <2>1. CASE HeartbeatFails(a, q)
    BY <1>1, <1>2, <2>1, RecordedIsDown DEF HeartbeatFails, RecordDown
  <2>2. CASE TellDown(a, q)
    <3>1. dead[a] \in Server /\ ~Serves(dead[a])
      BY <1>0, <2>2 DEF TellDown, TypeOK, PrimaryInv, WorkInv, Busy
    <3> QED BY <1>1, <1>2, <2>2, <3>1, RecordedIsDown DEF TellDown, RecordDown, Reaches
  <2> QED BY <2>1, <2>2
<1>5. WorkInv'
  BY <1>1, <1>3, WorkGoesOn DEF Sends, Tells
<1>6. ASSUME Selecting(a) PROVE Chosen(a)'
  <2>1. CASE HeartbeatFails(a, q)
    BY <1>0, <1>1, <1>6, <2>1, ChosenPasses DEF HeartbeatFails, TypeOK
  <2>2. CASE TellDown(a, q)
    BY <1>1, <1>6, <2>2 DEF TellDown, PrimaryInv, KnownInv, Chosen, Row
  <2> QED BY <2>1, <2>2
<1>7. KnownInv'
  BY <1>1, <1>6, SamePrimaries DEF Tells
<1> QED BY <1>4, <1>5, <1>7 DEF PrimaryKept

\* Update_Primary: one more server knows a's server.
LEMMA TellsPrimary ==
    ASSUME PrimaryInv, NEW a \in Handler, NEW q \in Server, SendPrimary(a, q)
    PROVE  PrimaryKept'
<1>0. TypeOK
  BY DEF PrimaryInv
<1>1. /\ pc[a] = "selectSend" /\ pc[a] \in Busy /\ pc[a] # "reporting" /\ Serves(q)
      /\ UNCHANGED <<mode, downList, announce, at, dead>>
      /\ primaryMap' = [primaryMap EXCEPT ![q][Row(a)] = at[a]]
      /\ pc'[a] = "select" /\ todo'[a] = todo[a] \ {q}
      /\ \A b \in Handler : b # a => pc'[b] = pc[b] /\ todo'[b] = todo[b]
  BY <1>0 DEF SendPrimary, LoopOn, Reaches, TypeOK, Busy, Sends
<1>2. OneDown' /\ DownKnown'
  BY <1>1, ListsStay
<1>3. WorkInv'
  BY <1>1, WorkGoesOn DEF Sends, Tells
<1>4. /\ at[a] \in Server /\ Row(a) \in User
      /\ \A b \in Handler : b # a => ~Selecting(b)
  BY <1>1, OneWorks
<1>5. /\ primaryMap'[q][Row(a)] = at[a]
      /\ \A s \in Server, u \in User : s # q \/ u # Row(a) =>
            primaryMap'[s][u] = primaryMap[s][u]
      /\ \A s \in Server : s # q => primaryMap'[s] = primaryMap[s]
  BY <1>0, <1>1, <1>4 DEF TypeOK
<1>6. Selecting(a) /\ Selecting(a)' /\ Row(a)' = Row(a)
  BY <1>1 DEF Selecting, Row
<1>7. KnownInv'
  <2>1. \A s \in Server : ~Serves(s)' => primaryMap'[s] = NoValues
    BY <1>1, <1>5 DEF PrimaryInv, KnownInv, Serves
  <2>2. Chosen(a)'
    <3>1. Chosen(a)
      BY <1>6 DEF PrimaryInv, KnownInv
    <3> QED BY <1>1, <1>4, <1>5, <1>6, <3>1 DEF Chosen
  <2>3. \A b \in Handler : Selecting(b)' => b = a
    BY <1>1, <1>4 DEF Selecting
  <2>4. ASSUME NEW u \in User, \A b \in Handler : Selecting(b)' => Row(b)' # u
        PROVE  OneKnown(u)'
    <3>1. u # Row(a)
      BY <1>6, <2>4
    <3>2. OneKnown(u)
      BY <1>4, <3>1 DEF PrimaryInv, KnownInv
    <3> QED BY <1>5, <3>1, <3>2 DEF OneKnown
  <2>5. ASSUME NEW b \in Handler, pc'[b] = "arrived", b[2] # 1
        PROVE  primaryMap'[at'[b]][Row(b)'] \in {None, at'[b]}
    <3>1. b # a /\ pc[b] = "arrived" /\ pc[b] \in Busy
      BY <1>1, <2>5 DEF Busy, Waiting
    <3> QED BY <1>1, <3>1, OneWorks
  <2> QED BY <2>1, <2>2, <2>3, <2>4, <2>5 DEF KnownInv
<1> QED BY <1>2, <1>3, <1>7 DEF PrimaryKept

\* The value is stored: nothing changes that is known of servers.
LEMMA StoresAsPrimary ==
    ASSUME PrimaryInv, NEW a \in Handler, NEW q \in Server,
           SendValue(a, q) \/ StoreOwn(a)
    PROVE  PrimaryKept'
<1>1. /\ pc[a] \in Busy /\ pc[a] # "reporting"
      /\ UNCHANGED <<mode, primaryMap, downList, announce, at, dead>>
      /\ pc'[a] \in {"bcast", "returned"}
      /\ \A b \in Handler : b # a => pc'[b] = pc[b] /\ todo'[b] = todo[b]
  BY DEF SendValue, StoreOwn, LoopOn, PrimaryInv, TypeOK, Busy, Sends, Loops
<1>2. OneDown' /\ DownKnown'
  BY <1>1, ListsStay
<1>3. WorkInv'
  BY <1>1, WorkGoesOn DEF Sends, Tells
<1>4. ~Selecting(a)' /\ ~Selecting(a)
  BY <1>1 DEF Selecting, SendValue, StoreOwn
<1>5. KnownInv'
  BY <1>1, <1>4, SamePrimaries
<1> QED BY <1>2, <1>3, <1>5 DEF PrimaryKept

\* The value is given to the primary, which knows no other.
LEMMA ReportsToPrimary ==
    ASSUME PrimaryInv, NEW a \in Handler, Report(a)
    PROVE  PrimaryKept'
<1>0. TypeOK
  BY DEF PrimaryInv
<1> DEFINE p == primaryMap[at[a]][Row(a)]
           c == Callee(a)
<1>1. /\ pc[a] = "arrived" /\ pc[a] \in Busy /\ pc[a] # "reporting"
      /\ p \notin {None, at[a]} /\ Serves(p) /\ a[2] < MaxDepth
      /\ UNCHANGED <<mode, primaryMap, downList, announce, todo, dead>>
      /\ pc' = [pc EXCEPT ![a] = "reporting", ![c] = "arrived"]
      /\ at' = [at EXCEPT ![c] = p]
  BY DEF Report, Reaches, Busy, Waiting, memory
<1>2. /\ at[a] \in Server /\ Serves(at[a]) /\ Row(a) \in User
      /\ \A b \in Handler : b # a /\ pc[b] \in Busy =>
            pc[b] = "reporting" /\ b[2] = 1 /\ b[1] = a[1] /\ a[2] = 2
      /\ \A b \in Handler : b # a => ~Selecting(b)
      /\ \A q \in Server : mode[q] \in {"down", "serving"}
  BY <1>1, OneWorks
<1>3. a[2] = 1
  BY <1>1 DEF PrimaryInv, KnownInv
<1>4. /\ p \in Server /\ c \in Handler /\ c # a /\ c[1] = a[1] /\ c[2] = 2
      /\ a = <<c[1], 1>>
  <2>1. p \in Server
    BY <1>0, <1>1, <1>2 DEF TypeOK
  <2>2. c \in Handler
    BY <1>1, HandlerFacts
  <2>3. c = <<a[1], 2>> /\ a = <<a[1], 1>>
    BY <1>3 DEF Callee, Handler
  <2> QED BY <2>1, <2>2, <2>3
<1> HIDE DEF c
<1>5. /\ pc'[a] = "reporting" /\ pc'[c] = "arrived" /\ at'[c] = p /\ at'[a] = at[a]
      /\ \A b \in Handler : b # a /\ b # c =>
            pc'[b] = pc[b] /\ pc[b] \notin Busy /\ at'[b] = at[b]
  BY <1>0, <1>1, <1>2, <1>3, <1>4 DEF TypeOK
<1>6. OneDown' /\ DownKnown'
  BY <1>1, ListsStay
<1>7. WorkInv'
  <2>1. \A b \in Handler : pc'[b] # "aborted" /\ (pc'[b] \in Busy => b = a \/ b = c)
    BY <1>5 DEF PrimaryInv, WorkInv
  <2>2. pc'[a] \notin Sends \cup Tells /\ pc'[c] \notin Sends \cup Tells
    BY <1>5 DEF Sends, Tells
  <2>3. Serves(at[a])' /\ Serves(at[c])'
    BY <1>1, <1>2, <1>4, <1>5 DEF Serves
  <2>4. \A s \in Server : mode'[s] \in {"down", "serving"}
    BY <1>1, <1>2
  <2>5. Callee(a) = c /\ Callee(a) \in Handler
    BY <1>4 DEF c
  <2> QED BY <1>3, <1>4, <1>5, <2>1, <2>2, <2>3, <2>4, <2>5 DEF WorkInv
<1>8. KnownInv'
  <2>1. \A s \in Server : ~Serves(s)' => primaryMap'[s] = NoValues
    BY <1>1 DEF PrimaryInv, KnownInv, Serves
  <2>2. \A b \in Handler : ~Selecting(b)' /\ ~Selecting(b)
    BY <1>1, <1>2, <1>4, <1>5 DEF Selecting
  <2>3. \A u \in User : OneKnown(u) /\ OneKnown(u)'
    BY <1>1, <2>2 DEF PrimaryInv, KnownInv, OneKnown
  <2>4. ASSUME NEW b \in Handler, pc'[b] = "arrived", b[2] # 1
        PROVE  primaryMap'[at'[b]][Row(b)'] \in {None, at'[b]}
    <3>1. b = c /\ Row(b)' = Row(a)
      BY <1>3, <1>4, <1>5, <2>4 DEF Busy, Waiting, Row
    <3>2. primaryMap[p][Row(a)] \in {None, p}
      BY <1>1, <1>2, <1>4, <2>3 DEF OneKnown
    <3> QED BY <1>1, <1>5, <3>1, <3>2
  <2> QED BY <2>1, <2>2, <2>3, <2>4 DEF KnownInv
<1> QED BY <1>6, <1>7, <1>8 DEF PrimaryKept

\* The primary has stored the value: the PUT ends.
LEMMA ReturnsFromPrimary ==
    ASSUME PrimaryInv, NEW a \in Handler, ReportReturns(a)
    PROVE  PrimaryKept'
<1>0. TypeOK
  BY DEF PrimaryInv
<1>1. /\ pc[a] = "reporting" /\ pc[a] \in Busy /\ pc[Callee(a)] = "returned"
      /\ UNCHANGED <<mode, primaryMap, downList, announce, at, todo, dead>>
      /\ pc' = [pc EXCEPT ![a] = "returned"]
  BY DEF ReportReturns, Busy, Waiting, memory
<1>2. a[2] = 1 /\ \A b \in Handler : pc[b] \in Busy => b[1] = a[1]
  BY <1>1 DEF PrimaryInv, WorkInv
<1>3. /\ pc'[a] = "returned"
      /\ \A b \in Handler : b # a => pc'[b] = pc[b]
  BY <1>0, <1>1 DEF TypeOK
<1>4. ASSUME NEW b \in Handler, b # a PROVE pc[b] \notin Busy
  <2> SUFFICES ASSUME pc[b] \in Busy PROVE FALSE
    OBVIOUS
  <2>1. b[1] = a[1] /\ (b[2] = 1 \/ b[2] = 2)
    BY <1>2 DEF PrimaryInv, WorkInv
  <2>2. a = <<a[1], a[2]>> /\ b = <<b[1], b[2]>>
    BY DEF Handler
  <2>3. b = Callee(a)
    BY <1>2, <1>4, <2>1, <2>2 DEF Callee
  <2> QED BY <1>1, <2>3 DEF Busy, Waiting, Loops, Sends, Tells
<1>5. \A b \in Handler : pc'[b] \notin Busy
  BY <1>3, <1>4 DEF Busy, Waiting, Loops, Sends, Tells
<1>6. OneDown' /\ DownKnown'
  BY <1>1, ListsStay
<1>7. WorkInv'
  BY <1>3, <1>5 DEF PrimaryInv, WorkInv
<1>8. KnownInv'
  <2>1. \A b \in Handler : ~Selecting(b) /\ ~Selecting(b)' /\ pc'[b] # "arrived"
    BY <1>1, <1>3, <1>4, <1>5 DEF Selecting, Busy, Waiting, Loops, Sends, Tells
  <2> QED BY <1>1, <2>1 DEF PrimaryInv, KnownInv, OneKnown, Serves
<1> QED BY <1>6, <1>7, <1>8 DEF PrimaryKept

\* While a PUT is under way nobody dies: no Report fails on the way, no RPC is
\* lost after its heartbeat, no server is told that it is down itself.
LEMMA NothingFails ==
    ASSUME FailuresBetweenPuts, PrimaryInv, NEW a \in Handler
    PROVE  /\ ~ReportFails(a)
           /\ \A q \in Server : ~SendLost(a, q) /\ ~TellItself(a, q)
<1>1. ASSUME ReportFails(a) PROVE FALSE
  <2>1. pc[a] = "reporting" /\ pc[Callee(a)] = "aborted" /\ Callee(a) \in Handler
    BY <1>1 DEF ReportFails, PrimaryInv, WorkInv, Busy, Waiting
  <2> QED BY <2>1 DEF PrimaryInv, WorkInv
<1>2. ASSUME NEW q \in Server, SendLost(a, q) PROVE FALSE
  <2>1. pc[a] \in Busy /\ pc[a] \in Sends /\ IsNext(q, todo[a]) /\ ~Serves(q)
    BY <1>2 DEF SendLost, LoopOn, Fails, FailuresBetweenPuts, Busy
  <2> QED BY <2>1 DEF PrimaryInv, WorkInv
<1>3. ASSUME NEW q \in Server, TellItself(a, q) PROVE FALSE
  <2>1. pc[a] \in Busy /\ pc[a] \in Tells /\ Serves(dead[a])
    BY <1>3 DEF TellItself, Reaches, Busy
  <2> QED BY <2>1 DEF PrimaryInv, WorkInv
<1> QED BY <1>1, <1>2, <1>3

LEMMA HandlerAsPrimary ==
    ASSUME FailuresBetweenPuts, PrimaryInv, NEW a \in Handler, HandlerStep(a)
    PROVE  PrimaryKept'
<1>1. CASE NoPrimary(a) \/ ReportRefused(a)
  BY <1>1, SelectsPrimary DEF NoPrimary, ReportRefused
<1>2. CASE IsPrimary(a) \/ SelectEnds(a)
  BY <1>2, BroadcastsAsPrimary
<1>3. CASE Report(a) \/ ReportReturns(a)
  BY <1>3, ReportsToPrimary, ReturnsFromPrimary
<1>4. CASE TellEnds(a) \/ StoreOwn(a)
  <2>1. PICK s \in Server : s = at[a]
    <3>1. pc[a] # "idle"
      BY <1>4 DEF TellEnds, StoreOwn, Tells
    <3> QED BY <3>1 DEF PrimaryInv, TypeOK
  <2> QED BY <1>4, LoopsAsPrimary, StoresAsPrimary
<1>5. ASSUME NEW q \in Server,
             \/ SkipDown(a, q) \/ HeartbeatAnswers(a, q) \/ HeartbeatFails(a, q)
             \/ SendPrimary(a, q) \/ SendValue(a, q)
             \/ TellSkips(a, q) \/ TellDown(a, q)
      PROVE  PrimaryKept'
  BY <1>5, LoopsAsPrimary, RecordsAsPrimary, TellsPrimary, StoresAsPrimary
<1> QED BY <1>1, <1>2, <1>3, <1>4, <1>5, NothingFails DEF HandlerStep

\* A PUT arrives: any server that serves may be asked.
LEMMA ClientAsPrimary ==
    ASSUME PrimaryInv, NEW r \in Request, NEW s \in Server, ClientPut(r, s)
    PROVE  PrimaryKept'
<1> DEFINE a == <<r, 1>>
<1>1. a \in Handler /\ a[1] = r /\ a[2] = 1
  BY BoundAssumption DEF Handler
<1> HIDE DEF a
<1>2. /\ UNCHANGED <<mode, downList, announce, primaryMap>>
      /\ pc' = [pc EXCEPT ![a] = "arrived"] /\ at' = [at EXCEPT ![a] = s]
      /\ Quiet /\ Serves(s)
      /\ \A p \in Server : mode[p] \in {"down", "serving"}
  BY DEF ClientPut, PutArrives, Settled, memory, a
<1>3. /\ pc'[a] = "arrived" /\ at'[a] = s
      /\ \A b \in Handler : b # a => pc'[b] = pc[b] /\ pc[b] \notin Busy
      /\ \A b \in Handler : ~Selecting(b) /\ ~Selecting(b)'
  BY <1>1, <1>2 DEF Quiet, PrimaryInv, TypeOK, Selecting, Busy, Loops, Sends, Tells
<1>4. OneDown' /\ DownKnown'
  BY <1>2, ListsStay
<1>5. WorkInv'
  <2>1. \A b \in Handler : pc'[b] # "aborted" /\ (pc'[b] \in Busy => b = a)
    BY <1>3 DEF PrimaryInv, WorkInv
  <2> QED BY <1>1, <1>2, <1>3, <2>1 DEF WorkInv, Sends, Tells, Serves
<1>6. KnownInv'
  <2>1. \A b \in Handler : pc'[b] = "arrived" => b[2] = 1
    BY <1>1, <1>3 DEF Busy, Waiting
  <2>2. \A u \in User : OneKnown(u)'
    BY <1>2, <1>3 DEF PrimaryInv, KnownInv, OneKnown
  <2> QED BY <1>2, <1>3, <2>1, <2>2 DEF PrimaryInv, KnownInv, Serves
<1> QED BY <1>4, <1>5, <1>6 DEF PrimaryKept

\* Between PUTs no thread knows anything.
LEMMA QuietPrimary ==
    ASSUME PrimaryInv, Quiet, UNCHANGED <<pc, primaryMap>>,
           \A s \in Server : Serves(s) => Serves(s)'
    PROVE  WorkInv' /\ KnownInv'
<1>1. \A a \in Handler : pc[a] \notin Busy /\ pc[a] # "aborted"
  BY DEF Quiet, PrimaryInv, WorkInv
<1>2. \A a \in Handler : ~Selecting(a) /\ ~Selecting(a)' /\ pc[a] # "arrived"
  BY <1>1 DEF Selecting, Busy, Waiting, Loops, Sends, Tells
<1>3. \A u \in User : OneKnown(u)'
  BY <1>2 DEF PrimaryInv, KnownInv, OneKnown
<1> QED BY <1>1, <1>2, <1>3 DEF PrimaryInv, WorkInv, KnownInv

\* A server crashes while all the others serve: it knows nobody afterwards.
LEMMA CrashAsPrimary ==
    ASSUME FailuresBetweenPuts, PrimaryInv, NEW s \in Server, SerialCrash(s)
    PROVE  PrimaryKept'
<1>0. TypeOK
  BY DEF PrimaryInv
<1>1. /\ Quiet /\ \A p \in Server : Serves(p)
      /\ mode' = [mode EXCEPT ![s] = "down"]
      /\ primaryMap' = [primaryMap EXCEPT ![s] = NoValues]
      /\ downList' = [downList EXCEPT ![s] = {}]
      /\ pc' = [a \in Handler |-> IF RunsAt(a, s) THEN "aborted" ELSE pc[a]]
  BY DEF SerialCrash, Crash, Kill, FailuresBetweenPuts, Serving
<1>2. \A a \in Handler : pc'[a] = pc[a] /\ pc[a] \notin Busy /\ pc[a] # "aborted"
  BY <1>1 DEF Quiet, RunsAt, PrimaryInv, WorkInv
<1>3. \A p \in Server : /\ Serves(p)' <=> p # s
                        /\ downList'[p] = {}
                        /\ primaryMap'[p] = IF p = s THEN NoValues ELSE primaryMap[p]
  BY <1>0, <1>1 DEF Serves, PrimaryInv, DownKnown, TypeOK
<1>4. OneDown' /\ DownKnown'
  BY <1>3 DEF OneDown, DownKnown
<1>5. WorkInv'
  BY <1>2 DEF WorkInv
<1>6. KnownInv'
  <2>1. \A a \in Handler : ~Selecting(a) /\ ~Selecting(a)' /\ pc'[a] # "arrived"
    BY <1>2 DEF Selecting, Busy, Waiting, Loops, Sends, Tells
  <2>2. \A u \in User : OneKnown(u)'
    BY <1>3, <2>1 DEF PrimaryInv, KnownInv, OneKnown, NoValues
  <2> QED BY <1>3, <2>1, <2>2 DEF KnownInv
<1> QED BY <1>4, <1>5, <1>6 DEF PrimaryKept

\* A server restarts: whom it tells that it is back take it off their lists.
LEMMA BootAsPrimary ==
    ASSUME PrimaryInv, Quiet, NEW s \in Server, BootStep(s)
    PROVE  PrimaryKept'
<1>0. TypeOK /\ OneDown /\ DownKnown
  BY DEF PrimaryInv
<1>1. UNCHANGED <<pc, primaryMap>> /\ ~Serves(s)
  BY DEF BootStep, Restart, FetchNothing, FetchMissing, Fetched, Announce, Listen, Serves,
     threads, memory
<1>2. \A p \in Server : p # s => mode'[p] = mode[p]
  BY <1>0 DEF BootStep, Restart, FetchNothing, FetchMissing, Fetched, Announce, Listen, TypeOK
<1>3. WorkInv' /\ KnownInv'
  BY <1>1, <1>2, QuietPrimary DEF Serves
<1>4. OneDown'
  BY <1>1, <1>2 DEF PrimaryInv, OneDown, Serves
<1>5. downList[s] = {} /\ \A p, q \in Server : q \in downList[p] => q = s
  BY <1>0, <1>1 DEF DownKnown, OneDown
<1>6. DownKnown'
  <2>1. CASE Restart(s) \/ FetchNothing(s) \/ \E q \in Server : FetchMissing(s, q)
    <3>1. /\ downList' = downList /\ mode'[s] \in {"booting", "announcing"}
          /\ mode'[s] = "announcing" => announce'[s] = Peers(s)
      BY <1>0, <2>1 DEF Restart, FetchNothing, FetchMissing, Fetched, TypeOK, memory
    <3>2. \A p \in Server : p # s => (Serves(p)' <=> Serves(p))
      BY <1>2 DEF Serves
    <3> QED BY <1>0, <1>5, <3>1, <3>2 DEF DownKnown, Peers, Serves, TypeOK
  <2>2. ASSUME NEW q \in Server, Announce(s, q) PROVE DownKnown'
    <3>1. /\ mode[s] = "announcing" /\ UNCHANGED mode
          /\ announce' = [announce EXCEPT ![s] = @ \ {q}]
          /\ downList' = IF Serves(q) THEN [downList EXCEPT ![q] = @ \ {s}] ELSE downList
      BY <2>2 DEF Announce
    <3>2. /\ announce'[s] = announce[s] \ {q}
          /\ \A p \in Server : downList'[p] \subseteq downList[p] /\ downList[p] \subseteq Server
          /\ Serves(q) => downList'[q] = downList[q] \ {s}
          /\ ~Serves(q) => downList'[q] = downList[q]
      BY <1>0, <3>1 DEF TypeOK
    <3>3. s \notin downList'[q]
      BY <1>0, <3>2 DEF DownKnown
    <3>4. \A p \in Server : Serves(p)' <=> Serves(p)
      BY <3>1 DEF Serves
    <3>5. ASSUME NEW p \in Server, NEW r \in downList'[p]
          PROVE  ~Serves(r)' /\ (mode'[r] = "announcing" => p \in announce'[r])
      <4>1. r = s /\ r \in downList[p] /\ p # q
        BY <1>5, <3>2, <3>3, <3>5
      <4>2. p \in announce[s]
        BY <1>0, <3>1, <4>1 DEF DownKnown
      <4> QED BY <1>1, <3>2, <3>4, <4>1, <4>2
    <3>6. \A p \in Server : ~Serves(p)' => downList'[p] = {}
      BY <1>0, <3>2, <3>4 DEF DownKnown
    <3> QED BY <3>5, <3>6 DEF DownKnown
  <2>3. CASE Listen(s)
    <3>1. mode[s] = "announcing" /\ announce[s] = {} /\ UNCHANGED downList
      BY <2>3 DEF Listen, memory
    <3>2. \A p \in Server : downList[p] = {}
      BY <1>0, <1>5, <3>1 DEF DownKnown, TypeOK
    <3> QED BY <3>1, <3>2 DEF DownKnown
  <2> QED BY <2>1, <2>2, <2>3 DEF BootStep
<1> QED BY <1>3, <1>4, <1>6 DEF PrimaryKept

LEMMA PrimaryStart == SerialInit => PrimaryInv
<1> SUFFICES ASSUME AllUp(0) PROVE PrimaryInv
  BY DEF SerialInit
<1>1. TypeOK /\ MarkInv
  BY InitType, InitMark
<1>2. \A s \in Server : downList[s] = {} /\ Serves(s) /\ primaryMap[s] = NoValues
  BY DEF AllUp, Serves
<1>3. \A a \in Handler : pc[a] = "idle"
  BY DEF AllUp
<1>4. OneDown /\ DownKnown
  BY <1>2 DEF OneDown, DownKnown
<1>5. WorkInv
  BY <1>3 DEF WorkInv, Busy, Waiting, Loops, Sends, Tells
<1>6. KnownInv
  BY <1>2, <1>3 DEF KnownInv, Selecting, OneKnown, NoValues
<1> QED BY <1>1, <1>4, <1>5, <1>6 DEF PrimaryInv

LEMMA PrimarySteps ==
    FailuresBetweenPuts /\ PrimaryInv /\ [SerialNext]_vars => PrimaryInv'
<1> SUFFICES ASSUME FailuresBetweenPuts, PrimaryInv, [SerialNext]_vars PROVE PrimaryInv'
  OBVIOUS
<1>1. [Next]_vars
  BY DEF SerialNext, Next, ClientPut, SerialBoot, SerialCrash, Wait
<1>2. TypeOK' /\ MarkInv'
  BY <1>1, NextType, NextMark DEF PrimaryInv
<1>3. SUFFICES PrimaryKept'
  BY <1>2 DEF PrimaryInv, PrimaryKept
<1>4. CASE UNCHANGED vars
  <2>1. UNCHANGED <<mode, downList, announce, primaryMap, pc, at, todo, dead>>
    BY <1>4 DEF vars, memory, threads
  <2>2. WorkInv'
    BY <2>1 DEF PrimaryInv, WorkInv, Serves, IsNext
  <2>3. KnownInv'
    BY <2>1 DEF PrimaryInv, KnownInv, Serves, Selecting, Chosen, OneKnown, Row
  <2> QED BY <2>1, <2>2, <2>3, ListsStay DEF PrimaryKept
<1>5. ASSUME NEW s \in Server, SerialBoot(s) PROVE PrimaryKept'
  <2>1. Quiet
    BY <1>5 DEF SerialBoot, FailuresBetweenPuts
  <2> QED BY <1>5, <2>1, BootAsPrimary DEF SerialBoot
<1> QED BY <1>4, <1>5, ClientAsPrimary, HandlerAsPrimary, CrashAsPrimary DEF SerialNext, Wait

\* In a group of any size that one client uses at a time, at any servers, and
\* whose servers crash one at a time between its PUTs: a value is reported at
\* most once, to the server that stores it.  So no two servers ever pass a value
\* to each other.
THEOREM ReportedOnce ==
    ASSUME FailuresBetweenPuts
    PROVE  SerialSpec => []TaskGoesToPrimary
<1>1. PrimaryInv => TaskGoesToPrimary
  <2> SUFFICES ASSUME PrimaryInv, NEW a \in Handler, a[2] > 1, pc[a] = "reporting" PROVE FALSE
    BY DEF TaskGoesToPrimary
  <2>1. a[2] = 1
    BY DEF PrimaryInv, WorkInv, Busy, Waiting
  <2> QED BY <2>1
<1>2. PrimaryInv /\ [SerialNext]_vars => PrimaryInv'
  BY PrimarySteps
<1> QED BY <1>1, <1>2, PrimaryStart, PTL DEF SerialSpec

\* Under the same conditions, all servers that know a primary of a row know the
\* same one between PUTs, whichever server the last PUT entered at and whatever
\* the servers forgot in crashes.
THEOREM PrimariesAgree ==
    ASSUME FailuresBetweenPuts
    PROVE  SerialSpec => []OnePrimary
<1>1. PrimaryInv => OnePrimary
  <2> SUFFICES ASSUME PrimaryInv, Quiet, NEW u \in User PROVE OneKnown(u)
    BY DEF OnePrimary, OneKnown
  <2>1. \A a \in Handler : ~Selecting(a)
    BY DEF Quiet, Selecting, Busy, Loops, Sends, Tells
  <2> QED BY <2>1 DEF PrimaryInv, KnownInv
<1>2. PrimaryInv /\ [SerialNext]_vars => PrimaryInv'
  BY PrimarySteps
<1> QED BY <1>1, <1>2, PrimaryStart, PTL DEF SerialSpec

=============================================================================
