---------------------------- MODULE ReplicaGroupLogs ----------------------------
(***************************************************************************)
(* Lemmas about the log files of ReplicaGroup.tla: what putting the values *)
(* of a log, or of its end, into a table leaves in it.                     *)
(***************************************************************************)
EXTENDS ReplicaGroupProofs, LeastNumber

-----------------------------------------------------------------------------
(* Logs and tables.                                                        *)

NoPut(es, u) == \A i \in DOMAIN es : userOf[es[i]] # u

\* A row some value of a log is for has a last value in it.
LEMMA LastExists ==
    ASSUME NEW es \in Seq(Request), NEW i \in DOMAIN es
    PROVE  \E j \in DOMAIN es : IsLastPut(es, userOf[es[i]], j)
<1> DEFINE T == {j \in DOMAIN es : userOf[es[j]] = userOf[es[i]]}
<1>1. Len(es) \in Nat /\ DOMAIN es = 1 .. Len(es)
  BY LenProperties
<1>2. T \subseteq 1 .. Len(es) /\ i \in T
  BY <1>1
<1>3. PICK j \in T : \A k \in T : k <= j
  BY <1>1, <1>2, Greatest
<1> QED BY <1>3 DEF IsLastPut

\* What a table holds after a log has been put into it.
LEMMA ReplayLast ==
    ASSUME NEW t \in [User -> Values], NEW es \in Seq(Request), NEW u \in User,
           NEW i, IsLastPut(es, u, i)
    PROVE  Replay(t, es)[u] = es[i]
<1>1. Len(es) \in Nat /\ DOMAIN es = 1 .. Len(es)
  BY LenProperties
<1>2. i \in DOMAIN es /\ \A j \in DOMAIN es : IsLastPut(es, u, j) => j = i
  BY <1>1 DEF IsLastPut
<1>3. (CHOOSE j \in DOMAIN es : IsLastPut(es, u, j)) = i
  BY <1>2
<1> QED BY <1>2, <1>3 DEF Replay

LEMMA ReplayNone ==
    ASSUME NEW t \in [User -> Values], NEW es \in Seq(Request), NEW u \in User,
           \A i \in DOMAIN es : userOf[es[i]] # u
    PROVE  Replay(t, es)[u] = t[u]
BY DEF Replay, IsLastPut

\* Two tables with the same rows are the same.
LEMMA TableEqual ==
    ASSUME NEW s \in [User -> Values], NEW t \in [User -> Values],
           \A u \in User : s[u] = t[u]
    PROVE  s = t
OBVIOUS

LEMMA ReplayEmpty ==
    ASSUME NEW t \in [User -> Values]
    PROVE  Replay(t, << >>) = t
<1>1. << >> \in Seq(Request) /\ DOMAIN << >> = {}
  BY EmptySeq, LenProperties
<1>2. Replay(t, << >>) \in [User -> Values]
  BY <1>1, ReplayType
<1>3. ASSUME NEW u \in User PROVE Replay(t, << >>)[u] = t[u]
  BY <1>1, ReplayNone
<1> QED BY <1>2, <1>3, TableEqual

LEMMA ReplayOne ==
    ASSUME NEW t \in [User -> Values], NEW r \in Request
    PROVE  Replay(t, <<r>>) = [t EXCEPT ![userOf[r]] = r]
<1> DEFINE es == <<r>>
<1>1. es \in Seq(Request) /\ DOMAIN es = {1} /\ es[1] = r
  OBVIOUS
<1>2. [t EXCEPT ![userOf[r]] = r] \in [User -> Values] /\ userOf[r] \in User
  BY RequestAssumption DEF Values
<1> HIDE DEF es
<1>3. Replay(t, es) \in [User -> Values]
  BY <1>1, ReplayType
<1>4. IsLastPut(es, userOf[r], 1)
  BY <1>1 DEF IsLastPut
<1>5. ASSUME NEW u \in User PROVE Replay(t, es)[u] = [t EXCEPT ![userOf[r]] = r][u]
  <2>1. CASE u = userOf[r]
    <3>1. Replay(t, es)[u] = es[1]
      BY <1>1, <1>4, <2>1, ReplayLast
    <3> QED BY <1>1, <2>1, <3>1
  <2>2. CASE u # userOf[r]
    <3>1. Replay(t, es)[u] = t[u]
      BY <1>1, <2>2, ReplayNone
    <3> QED BY <2>2, <3>1
  <2> QED BY <2>1, <2>2
<1>6. Replay(t, es) = [t EXCEPT ![userOf[r]] = r]
  BY <1>2, <1>3, <1>5, TableEqual
<1> QED BY <1>6 DEF es

\* Two logs, one after the other.
LEMMA TwoLogs ==
    ASSUME NEW es \in Seq(Request), NEW fs \in Seq(Request)
    PROVE  /\ Len(es) \in Nat /\ DOMAIN es = 1 .. Len(es)
           /\ Len(fs) \in Nat /\ DOMAIN fs = 1 .. Len(fs)
           /\ es \o fs \in Seq(Request)
           /\ \A i \in DOMAIN (es \o fs) :
                 \/ i \in DOMAIN es /\ (es \o fs)[i] = es[i]
                 \/ /\ i > Len(es) /\ i - Len(es) \in DOMAIN fs
                    /\ (es \o fs)[i] = fs[i - Len(es)]
           /\ \A i \in DOMAIN es : i \in DOMAIN (es \o fs) /\ (es \o fs)[i] = es[i]
           /\ \A i \in DOMAIN fs : /\ Len(es) + i \in DOMAIN (es \o fs)
                                   /\ (es \o fs)[Len(es) + i] = fs[i]
<1> DEFINE gs == es \o fs
<1>1. /\ Len(es) \in Nat /\ DOMAIN es = 1 .. Len(es)
      /\ Len(fs) \in Nat /\ DOMAIN fs = 1 .. Len(fs)
      /\ gs \in Seq(Request) /\ Len(gs) = Len(es) + Len(fs) /\ DOMAIN gs = 1 .. Len(gs)
  BY LenProperties, ConcatProperties
<1>2. \A i \in 1 .. Len(es) + Len(fs) : gs[i] = IF i <= Len(es) THEN es[i] ELSE fs[i - Len(es)]
  BY ConcatProperties
<1> HIDE DEF gs
<1>3. \A i \in DOMAIN es : i \in DOMAIN gs /\ gs[i] = es[i]
  BY <1>1, <1>2
<1>4. ASSUME NEW i \in DOMAIN fs PROVE Len(es) + i \in DOMAIN gs /\ gs[Len(es) + i] = fs[i]
  <2>1. /\ Len(es) + i \in 1 .. Len(es) + Len(fs)
        /\ ~(Len(es) + i <= Len(es)) /\ Len(es) + i - Len(es) = i
    BY <1>1
  <2> QED BY <1>1, <1>2, <2>1
<1>5. \A i \in DOMAIN gs :
         \/ i \in DOMAIN es /\ gs[i] = es[i]
         \/ i > Len(es) /\ i - Len(es) \in DOMAIN fs /\ gs[i] = fs[i - Len(es)]
  BY <1>1, <1>2
<1> QED BY <1>1, <1>3, <1>4, <1>5 DEF gs

\* The last value of a row in two logs is the last in the second, or, when the
\* second has none, the last in the first.
LEMMA LastInSecond ==
    ASSUME NEW es \in Seq(Request), NEW fs \in Seq(Request), NEW u \in User,
           NEW i, IsLastPut(fs, u, i)
    PROVE  IsLastPut(es \o fs, u, Len(es) + i) /\ (es \o fs)[Len(es) + i] = fs[i]
<1> DEFINE gs == es \o fs
<1>1. /\ Len(es) \in Nat /\ DOMAIN es = 1 .. Len(es) /\ DOMAIN fs = 1 .. Len(fs)
      /\ \A j \in DOMAIN gs :
            \/ j \in DOMAIN es
            \/ j > Len(es) /\ j - Len(es) \in DOMAIN fs /\ gs[j] = fs[j - Len(es)]
      /\ \A j \in DOMAIN fs : Len(es) + j \in DOMAIN gs /\ gs[Len(es) + j] = fs[j]
      /\ Len(fs) \in Nat
  BY TwoLogs
<1> HIDE DEF gs
<1>2. i \in DOMAIN fs /\ userOf[fs[i]] = u /\ \A j \in DOMAIN fs : userOf[fs[j]] = u => j <= i
  BY DEF IsLastPut
<1>3. ASSUME NEW j \in DOMAIN gs, userOf[gs[j]] = u PROVE j <= Len(es) + i
  <2>1. CASE j \in DOMAIN es
    BY <1>1, <1>2, <2>1
  <2>2. CASE j > Len(es) /\ j - Len(es) \in DOMAIN fs /\ gs[j] = fs[j - Len(es)]
    <3>1. j - Len(es) <= i
      BY <1>2, <1>3, <2>2
    <3>2. j \in Int
      BY <1>1, <2>2, TwoLogs, LenProperties DEF gs
    <3> QED BY <1>1, <1>2, <3>1, <3>2
  <2> QED BY <1>1, <2>1, <2>2
<1> QED BY <1>1, <1>2, <1>3 DEF IsLastPut, gs

LEMMA LastInFirst ==
    ASSUME NEW es \in Seq(Request), NEW fs \in Seq(Request), NEW u \in User,
           NoPut(fs, u),
           NEW i, IsLastPut(es, u, i)
    PROVE  IsLastPut(es \o fs, u, i) /\ (es \o fs)[i] = es[i]
<1> DEFINE gs == es \o fs
<1>1. /\ \A j \in DOMAIN gs :
            \/ j \in DOMAIN es /\ gs[j] = es[j]
            \/ j - Len(es) \in DOMAIN fs /\ gs[j] = fs[j - Len(es)]
      /\ \A j \in DOMAIN es : j \in DOMAIN gs /\ gs[j] = es[j]
  BY TwoLogs
<1> HIDE DEF gs
<1>2. i \in DOMAIN es /\ userOf[es[i]] = u /\ \A j \in DOMAIN es : userOf[es[j]] = u => j <= i
  BY DEF IsLastPut
<1>3. \A j \in DOMAIN gs : userOf[gs[j]] = u => j <= i
  BY <1>1, <1>2 DEF NoPut
<1> QED BY <1>1, <1>2, <1>3 DEF IsLastPut, gs

LEMMA LastOfTwo ==
    ASSUME NEW es \in Seq(Request), NEW fs \in Seq(Request), NEW u \in User,
           NEW i, IsLastPut(es \o fs, u, i)
    PROVE  \/ \E j : IsLastPut(fs, u, j) /\ (es \o fs)[i] = fs[j]
           \/ /\ IsLastPut(es, u, i) /\ (es \o fs)[i] = es[i]
              /\ \A j \in DOMAIN fs : userOf[fs[j]] # u
<1> DEFINE gs == es \o fs
<1>1. /\ Len(es) \in Nat /\ DOMAIN es = 1 .. Len(es)
      /\ Len(fs) \in Nat /\ DOMAIN fs = 1 .. Len(fs)
      /\ \A j \in DOMAIN gs :
            \/ j \in DOMAIN es /\ gs[j] = es[j]
            \/ j > Len(es) /\ j - Len(es) \in DOMAIN fs /\ gs[j] = fs[j - Len(es)]
      /\ \A j \in DOMAIN es : j \in DOMAIN gs /\ gs[j] = es[j]
      /\ \A j \in DOMAIN fs : Len(es) + j \in DOMAIN gs /\ gs[Len(es) + j] = fs[j]
      /\ DOMAIN gs \subseteq Int
  BY TwoLogs, LenProperties
<1>2. i \in DOMAIN gs /\ userOf[gs[i]] = u /\ \A j \in DOMAIN gs : userOf[gs[j]] = u => j <= i
  BY DEF IsLastPut
<1> HIDE DEF gs
<1>3. \A j \in DOMAIN fs : userOf[fs[j]] = u => Len(es) + j <= i
  BY <1>1, <1>2
<1>4. CASE i \in DOMAIN es /\ gs[i] = es[i]
  <2>1. \A j \in DOMAIN fs : userOf[fs[j]] # u
    BY <1>1, <1>3, <1>4
  <2>2. \A j \in DOMAIN es : userOf[es[j]] = u => j <= i
    BY <1>1, <1>2
  <2> QED BY <1>2, <1>4, <2>1, <2>2 DEF IsLastPut, gs
<1>5. CASE i > Len(es) /\ i - Len(es) \in DOMAIN fs /\ gs[i] = fs[i - Len(es)]
  <2>1. \A j \in DOMAIN fs : userOf[fs[j]] = u => j <= i - Len(es)
    BY <1>1, <1>2, <1>3
  <2>2. IsLastPut(fs, u, i - Len(es))
    BY <1>2, <1>5, <2>1 DEF IsLastPut
  <2> QED BY <1>5, <2>2 DEF gs
<1> QED BY <1>1, <1>2, <1>4, <1>5

\* A table that agrees with the last values of a log also does so when more
\* values have been put into both.
LEMMA LastKept ==
    ASSUME NEW t \in [User -> Values], NEW es \in Seq(Request), NEW fs \in Seq(Request),
           \A u \in User, i \in DOMAIN es : IsLastPut(es, u, i) => t[u] = es[i]
    PROVE  \A u \in User, i \in DOMAIN (es \o fs) :
              IsLastPut(es \o fs, u, i) => Replay(t, fs)[u] = (es \o fs)[i]
<1> DEFINE gs == es \o fs
<1> SUFFICES ASSUME NEW u \in User, NEW i \in DOMAIN gs, IsLastPut(gs, u, i)
             PROVE  Replay(t, fs)[u] = gs[i]
  OBVIOUS
<1>1. \/ \E j : IsLastPut(fs, u, j) /\ gs[i] = fs[j]
      \/ /\ IsLastPut(es, u, i) /\ gs[i] = es[i]
         /\ \A j \in DOMAIN fs : userOf[fs[j]] # u
  BY LastOfTwo
<1> HIDE DEF gs
<1>2. CASE \E j : IsLastPut(fs, u, j) /\ gs[i] = fs[j]
  BY <1>2, ReplayLast
<1>3. CASE /\ IsLastPut(es, u, i) /\ gs[i] = es[i]
           /\ \A j \in DOMAIN fs : userOf[fs[j]] # u
  <2>1. Replay(t, fs)[u] = t[u]
    BY <1>3, ReplayNone
  <2>2. t[u] = es[i]
    BY <1>3 DEF IsLastPut
  <2> QED BY <1>3, <2>1, <2>2
<1> QED BY <1>1, <1>2, <1>3

\* One log after the other is the two logs put together.
LEMMA ReplayConcat ==
    ASSUME NEW t \in [User -> Values], NEW es \in Seq(Request), NEW fs \in Seq(Request)
    PROVE  Replay(Replay(t, es), fs) = Replay(t, es \o fs)
<1> DEFINE gs == es \o fs
<1>1. gs \in Seq(Request)
  BY ConcatProperties
<1> HIDE DEF gs
<1>2. /\ Replay(t, es) \in [User -> Values]
      /\ Replay(Replay(t, es), fs) \in [User -> Values]
      /\ Replay(t, gs) \in [User -> Values]
  BY <1>1, ReplayType
<1>3. ASSUME NEW u \in User
      PROVE  Replay(Replay(t, es), fs)[u] = Replay(t, gs)[u]
  <2>1. CASE \E i \in DOMAIN fs : userOf[fs[i]] = u
    <3>1. PICK i : IsLastPut(fs, u, i)
      BY <2>1, LastExists
    <3>2. Replay(Replay(t, es), fs)[u] = fs[i]
      BY <1>2, <3>1, ReplayLast
    <3>3. IsLastPut(gs, u, Len(es) + i) /\ gs[Len(es) + i] = fs[i]
      BY <3>1, LastInSecond DEF gs
    <3>4. Replay(t, gs)[u] = fs[i]
      BY <1>1, <3>3, ReplayLast
    <3> QED BY <3>2, <3>4
  <2>2. CASE \A i \in DOMAIN fs : userOf[fs[i]] # u
    <3>0. NoPut(fs, u)
      BY <2>2 DEF NoPut
    <3>1. Replay(Replay(t, es), fs)[u] = Replay(t, es)[u]
      BY <1>2, <2>2, ReplayNone
    <3>2. CASE \E i \in DOMAIN es : userOf[es[i]] = u
      <4>1. PICK i : IsLastPut(es, u, i)
        BY <3>2, LastExists
      <4>2. Replay(t, es)[u] = es[i]
        BY <4>1, ReplayLast
      <4>3. IsLastPut(gs, u, i) /\ gs[i] = es[i]
        BY <3>0, <4>1, LastInFirst DEF gs
      <4>4. Replay(t, gs)[u] = es[i]
        BY <1>1, <4>3, ReplayLast
      <4> QED BY <3>1, <4>2, <4>4
    <3>3. CASE \A i \in DOMAIN es : userOf[es[i]] # u
      <4>1. Replay(t, es)[u] = t[u]
        BY <3>3, ReplayNone
      <4>2. ASSUME NEW i \in DOMAIN gs, userOf[gs[i]] = u PROVE FALSE
        <5>1. PICK j : IsLastPut(gs, u, j)
          BY <1>1, <4>2, LastExists
        <5> QED BY <2>2, <3>3, <5>1, LastOfTwo DEF IsLastPut, gs
      <4>3. Replay(t, gs)[u] = t[u]
        BY <1>1, <4>2, ReplayNone
      <4> QED BY <3>1, <4>1, <4>3
    <3> QED BY <3>2, <3>3
  <2> QED BY <2>1, <2>2
<1>4. Replay(Replay(t, es), fs) = Replay(t, gs)
  BY <1>2, <1>3, TableEqual
<1> QED BY <1>4 DEF gs

\* The end of a log.
LEMMA AfterAt ==
    ASSUME NEW es \in Seq(Request), NEW n \in Nat
    PROVE  /\ After(es, n) \in Seq(Request)
           /\ Len(After(es, n)) = IF n <= Len(es) THEN Len(es) - n ELSE 0
           /\ \A i \in 1 .. Len(After(es, n)) : After(es, n)[i] = es[n + i]
<1>1. Len(es) \in Nat /\ \A i \in n + 1 .. Len(es) : es[i] \in Request
  BY LenProperties, ElementOfSeq
<1>2. n + 1 \in Int /\ Len(es) \in Int
  BY <1>1
<1>3. /\ SubSeq(es, n + 1, Len(es)) \in Seq(Request)
      /\ Len(SubSeq(es, n + 1, Len(es))) =
            IF n + 1 <= Len(es) THEN Len(es) - (n + 1) + 1 ELSE 0
      /\ \A i \in 1 .. Len(es) - (n + 1) + 1 :
            SubSeq(es, n + 1, Len(es))[i] = es[n + 1 + i - 1]
  BY <1>1, <1>2, SubSeqProperties
<1> QED BY <1>1, <1>3 DEF After

LEMMA AfterAll ==
    ASSUME NEW es \in Seq(Request)
    PROVE  After(es, 0) = es /\ After(es, Len(es)) = << >>
<1>1. Len(es) \in Nat
  BY LenProperties
<1>2. After(es, 0) = es
  BY SubSeqFull DEF After
<1>3. After(es, Len(es)) = << >>
  BY <1>1, SubSeqEmpty, Len(es) + 1 \in Int DEF After
<1> QED BY <1>2, <1>3

\* More values at the end of a log are at the end of its end.
LEMMA AfterConcat ==
    ASSUME NEW es \in Seq(Request), NEW fs \in Seq(Request), NEW n \in Nat
    PROVE  /\ n <= Len(es) => After(es \o fs, n) = After(es, n) \o fs
           /\ After(es \o fs, Len(es) + n) = After(fs, n)
<1> DEFINE gs == es \o fs
<1>1. /\ Len(es) \in Nat /\ Len(fs) \in Nat /\ Len(es) + n \in Nat
      /\ gs \in Seq(Request) /\ Len(gs) = Len(es) + Len(fs)
      /\ \A i \in 1 .. Len(es) + Len(fs) :
            gs[i] = IF i <= Len(es) THEN es[i] ELSE fs[i - Len(es)]
  BY LenProperties, ConcatProperties
<1> HIDE DEF gs
<1>2. ASSUME n <= Len(es) PROVE After(gs, n) = After(es, n) \o fs
  <2> DEFINE hs == After(es, n)
             ks == hs \o fs
             ls == After(gs, n)
  <2>1. /\ ls \in Seq(Request)
        /\ Len(ls) = IF n <= Len(gs) THEN Len(gs) - n ELSE 0
        /\ \A i \in 1 .. Len(ls) : ls[i] = gs[n + i]
    BY <1>1, AfterAt
  <2>2. /\ hs \in Seq(Request)
        /\ Len(hs) = IF n <= Len(es) THEN Len(es) - n ELSE 0
        /\ \A i \in 1 .. Len(hs) : hs[i] = es[n + i]
    BY AfterAt
  <2> HIDE DEF hs, ls
  <2>3. /\ ks \in Seq(Request) /\ Len(ks) = Len(hs) + Len(fs)
        /\ \A i \in 1 .. Len(hs) + Len(fs) :
              ks[i] = IF i <= Len(hs) THEN hs[i] ELSE fs[i - Len(hs)]
    BY <2>2, ConcatProperties
  <2> HIDE DEF ks
  <2>4. Len(hs) = Len(es) - n /\ Len(ls) = Len(es) + Len(fs) - n /\ Len(ks) = Len(ls)
    BY <1>1, <1>2, <2>1, <2>2, <2>3
  <2>5. ASSUME NEW i \in 1 .. Len(ls) PROVE ls[i] = ks[i]
    <3>1. n + i \in 1 .. Len(es) + Len(fs) /\ i \in 1 .. Len(hs) + Len(fs)
      BY <1>1, <2>4
    <3>2. CASE i <= Len(hs)
      <4>1. n + i <= Len(es) /\ i \in 1 .. Len(hs)
        BY <1>1, <2>4, <3>2
      <4> QED BY <1>1, <2>1, <2>2, <2>3, <3>1, <3>2, <4>1
    <3>3. CASE ~(i <= Len(hs))
      <4>1. ~(n + i <= Len(es)) /\ n + i - Len(es) = i - Len(hs)
        BY <1>1, <2>4, <3>3
      <4>2. gs[n + i] = fs[n + i - Len(es)]
        BY <1>1, <3>1, <4>1
      <4>3. ks[i] = fs[i - Len(hs)]
        BY <2>3, <3>1, <3>3
      <4>4. ls[i] = gs[n + i]
        BY <2>1
      <4> QED BY <4>1, <4>2, <4>3, <4>4
    <3> QED BY <3>2, <3>3
  <2>6. ls = ks
    BY <2>1, <2>3, <2>4, <2>5, SeqEqual
  <2> QED BY <2>6 DEF hs, ks, ls
<1>3. After(gs, Len(es) + n) = After(fs, n)
  <2> DEFINE m  == Len(es) + n
             ls == After(gs, m)
             ks == After(fs, n)
  <2>1. m \in Nat
    BY <1>1
  <2> HIDE DEF m
  <2>2. /\ ls \in Seq(Request)
        /\ Len(ls) = IF m <= Len(gs) THEN Len(gs) - m ELSE 0
        /\ \A i \in 1 .. Len(ls) : ls[i] = gs[m + i]
    BY <1>1, <2>1, AfterAt
  <2>3. /\ ks \in Seq(Request)
        /\ Len(ks) = IF n <= Len(fs) THEN Len(fs) - n ELSE 0
        /\ \A i \in 1 .. Len(ks) : ks[i] = fs[n + i]
    BY AfterAt
  <2> HIDE DEF ls, ks
  <2>4. Len(ls) = Len(ks)
    BY <1>1, <2>2, <2>3 DEF m
  <2>5. ASSUME NEW i \in 1 .. Len(ls) PROVE ls[i] = ks[i]
    <3>1. i \in Nat /\ i >= 1 /\ n <= Len(fs) /\ n + i <= Len(fs)
      BY <1>1, <2>3, <2>4
    <3>2. PICK k \in Nat : k = m + i
      BY <2>1, <3>1
    <3>3. k = Len(es) + n + i
      BY <1>1, <3>1, <3>2 DEF m
    <3>4. k \in 1 .. Len(es) + Len(fs) /\ ~(k <= Len(es)) /\ k - Len(es) = n + i
      BY <1>1, <3>1, <3>3
    <3>5. gs[k] = fs[n + i]
      BY <1>1, <3>4
    <3>6. ls[i] = gs[k] /\ ks[i] = fs[n + i]
      BY <2>2, <2>3, <2>4, <3>2
    <3> QED BY <3>5, <3>6
  <2>6. ls = ks
    BY <2>2, <2>3, <2>4, <2>5, SeqEqual
  <2> QED BY <2>6 DEF ls, ks, m
<1> QED BY <1>2, <1>3 DEF gs

\* A table that agrees with the last values of a log is not changed by the end
\* of the log.
LEMMA ReplaySuffix ==
    ASSUME NEW t \in [User -> Values], NEW es \in Seq(Request), NEW n \in Nat,
           \A u \in User, i \in DOMAIN es : IsLastPut(es, u, i) => t[u] = es[i]
    PROVE  Replay(t, After(es, n)) = t
<1> DEFINE fs == After(es, n)
<1>1. /\ Len(es) \in Nat /\ DOMAIN es = 1 .. Len(es)
      /\ fs \in Seq(Request)
      /\ Len(fs) = IF n <= Len(es) THEN Len(es) - n ELSE 0
      /\ \A i \in 1 .. Len(fs) : fs[i] = es[n + i]
      /\ DOMAIN fs = 1 .. Len(fs)
  BY LenProperties, AfterAt
<1> HIDE DEF fs
<1>2. Replay(t, fs) \in [User -> Values]
  BY <1>1, ReplayType
<1>3. ASSUME NEW u \in User PROVE Replay(t, fs)[u] = t[u]
  <2>1. CASE \A i \in DOMAIN fs : userOf[fs[i]] # u
    BY <1>1, <2>1, ReplayNone
  <2>2. CASE \E i \in DOMAIN fs : userOf[fs[i]] = u
    <3>1. PICK i : IsLastPut(fs, u, i)
      BY <1>1, <2>2, LastExists
    <3>2. i \in 1 .. Len(fs) /\ n <= Len(es) /\ Len(fs) = Len(es) - n
      <4>1. i \in 1 .. Len(fs)
        BY <1>1, <3>1 DEF IsLastPut
      <4>2. Len(es) \in Nat /\ Len(fs) = IF n <= Len(es) THEN Len(es) - n ELSE 0
        BY <1>1
      <4> QED BY <4>1, <4>2
    <3>3. n + i \in DOMAIN es /\ fs[i] = es[n + i] /\ userOf[es[n + i]] = u
      BY <1>1, <3>1, <3>2 DEF IsLastPut
    <3>4. ASSUME NEW j \in DOMAIN es, userOf[es[j]] = u PROVE j <= n + i
      <4>1. CASE j <= n
        BY <1>1, <3>2, <4>1
      <4>2. CASE ~(j <= n)
        <5>1. j - n \in 1 .. Len(fs) /\ n + (j - n) = j
          BY <1>1, <3>2, <4>2
        <5>2. fs[j - n] = es[j]
          BY <1>1, <5>1
        <5>3. j - n <= i
          BY <1>1, <3>1, <3>4, <5>1, <5>2 DEF IsLastPut
        <5> QED BY <1>1, <3>2, <5>3
      <4> QED BY <4>1, <4>2
    <3>5. IsLastPut(es, u, n + i)
      BY <3>3, <3>4 DEF IsLastPut
    <3>6. Replay(t, fs)[u] = fs[i]
      <4>1. fs \in Seq(Request)
        BY <1>1
      <4> QED BY <3>1, <4>1, ReplayLast
    <3> QED BY <3>3, <3>5, <3>6
  <2> QED BY <2>1, <2>2
<1>4. Replay(t, fs) = t
  BY <1>2, <1>3, TableEqual
<1> QED BY <1>4 DEF fs

=============================================================================
