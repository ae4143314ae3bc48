---------------------------- MODULE RoutingProofs ----------------------------
(***************************************************************************)
(* Theorems about Routing.tla, for server lists of any shape, any rows and *)
(* any number of requests, changes and sockets.                            *)
(***************************************************************************)
EXTENDS Routing, TLAPS, SequenceTheorems

-----------------------------------------------------------------------------
(* Keys and lines.                                                         *)

\* The remainder that the front end computes is one of its keys, whatever a
\* user's name begins with.
LEMMA KeyType == \A r \in Request : KeyOf(r) \in Key
<1>1. SUFFICES ASSUME NEW r \in Request PROVE KeyOf(r) \in Key
  OBVIOUS
<1>2. letter[rowOf[r]] \in Int
  BY RoutingAssumption
<1> QED BY <1>2 DEF KeyOf, Rem, Key

\* The line of a key is a list of servers, empty if there is none.
LEMMA LineType == \A k \in Key : Line(k) \in Seq(Server)
<1>1. SUFFICES ASSUME NEW k \in Key PROVE Line(k) \in Seq(Server)
  OBVIOUS
<1>2. CASE k + 1 \in DOMAIN Lines
  <2>1. k + 1 \in 1 .. Len(Lines)
    BY <1>2, RoutingAssumption, LenProperties
  <2>2. Lines[k + 1] \in Seq(Server)
    BY <2>1, RoutingAssumption, ElementOfSeq
  <2> QED BY <1>2, <2>2 DEF Line
<1>3. CASE k + 1 \notin DOMAIN Lines
  BY <1>3, EmptySeq DEF Line
<1> QED BY <1>2, <1>3

\* A list that a stream has given up to some server.
Part(s, l) == Len(s) <= Len(l) /\ \A i \in 1 .. Len(s) : s[i] = l[i]

LEMMA PartOfLine ==
    ASSUME NEW l \in Seq(Server), NEW n \in 0 .. Len(l) - 1
    PROVE  SubSeq(l, 1, n) \in Seq(Server) /\ Part(SubSeq(l, 1, n), l)
<1>1. Len(l) \in Nat /\ \A i \in 1 .. n : l[i] \in Server
  BY LenProperties, ElementOfSeq
<1>2. n \in Int /\ 1 \in Int
  BY <1>1
<1>3. /\ SubSeq(l, 1, n) \in Seq(Server)
      /\ Len(SubSeq(l, 1, n)) = IF 1 <= n THEN n - 1 + 1 ELSE 0
      /\ \A i \in 1 .. n - 1 + 1 : SubSeq(l, 1, n)[i] = l[1 + i - 1]
  BY <1>1, <1>2, SubSeqProperties
<1>4. Len(SubSeq(l, 1, n)) = n
  BY <1>1, <1>3
<1>5. \A i \in 1 .. n : SubSeq(l, 1, n)[i] = l[i]
  BY <1>1, <1>3
<1> QED BY <1>1, <1>3, <1>4, <1>5 DEF Part

-----------------------------------------------------------------------------
(* Types.                                                                  *)

LEMMA InitType == Init => TypeOK
<1>1. <<>> \in Seq(Server)
  BY EmptySeq
<1> QED BY <1>1, RoutingAssumption DEF Init, TypeOK

LEMMA StepType ==
    ASSUME TypeOK, NEW r \in Request, Step(r)
    PROVE  TypeOK'
<1> USE DEF TypeOK, Busy, Goto, Search
<1>1. KeyOf(r) \in Key /\ Line(KeyOf(r)) \in Seq(Server)
  BY KeyType, LineType
<1>2. <<>> \in Seq(Server)
  BY EmptySeq
<1>3. CASE Start(r)
  BY <1>1, <1>3 DEF Start
<1>4. CASE Ask(r)
  <2>1. ips' \in [Request -> Seq(Server)]
    <3>1. \/ ips' = [ips EXCEPT ![r] = Line(KeyOf(r))]
          \/ ips' = [ips EXCEPT ![r] = <<>>]
          \/ \E n \in 0 .. Len(Line(KeyOf(r))) - 1 :
                ips' = [ips EXCEPT ![r] = SubSeq(Line(KeyOf(r)), 1, n)]
          \/ \E l \in Garbage : ips' = [ips EXCEPT ![r] = l]
      BY <1>4 DEF Ask
    <3>3. \A l \in Garbage : l \in Seq(Server)
      BY RoutingAssumption
    <3>2. ASSUME NEW n \in 0 .. Len(Line(KeyOf(r))) - 1,
                 ips' = [ips EXCEPT ![r] = SubSeq(Line(KeyOf(r)), 1, n)]
          PROVE  ips' \in [Request -> Seq(Server)]
      <4>1. SubSeq(Line(KeyOf(r)), 1, n) \in Seq(Server)
        BY <1>1, PartOfLine
      <4> QED BY <3>2, <4>1
    <3> QED BY <1>1, <1>2, <3>1, <3>2, <3>3
  <2>2. pc' = [pc EXCEPT ![r] = "update"] /\ master' \in BOOLEAN /\ cheated' \in SUBSET Request
    BY <1>4 DEF Ask
  <2>3. changes' \in 0 .. MaxChange
    BY <1>4, RoutingAssumption DEF Ask
  <2> QED BY <1>4, <2>1, <2>2, <2>3 DEF Ask
<1>5. CASE Update(r)
  BY <1>1, <1>5 DEF Update, history
<1>6. CASE Reread(r)
  BY <1>1, <1>6 DEF Reread, history
<1>7. CASE Beat(r)
  <2>1. sockets' \in 0 .. MaxSockets
    BY <1>7, RoutingAssumption DEF Beat
  <2>2. next[r] \in 1 .. Len(ips[r])
    BY <1>7, LenProperties DEF Beat
  <2>3. ips[r][next[r]] \in Server
    BY <2>2, ElementOfSeq
  <2>4. at' \in [Request -> Server \cup {None}]
    BY <1>7, <2>3 DEF Beat
  <2>6. next' \in [Request -> Nat \ {0}]
    BY <1>7 DEF Beat
  <2>5. pc' \in [Request -> Busy \cup {"idle", "answered", "failed", "dead"}]
    BY <1>7 DEF Beat
  <2> QED BY <1>7, <2>1, <2>4, <2>5, <2>6 DEF Beat, history
<1>8. CASE OutOfSockets(r) \/ NoneAnswers(r) \/ AskMisled(r)
  <2>1. PICK why \in {"null", "sockets", "stoi"} : FrontEnds(r, why)
    BY <1>8 DEF OutOfSockets, NoneAnswers, AskMisled
  <2>2. front' \in BOOLEAN
    BY <2>1 DEF FrontEnds
  <2>3. ipMap' \in [Key -> Seq(Server)] /\ sockets' \in 0 .. MaxSockets
    BY <1>2, <2>1, RoutingAssumption DEF FrontEnds
  <2>4. pc' \in [Request -> Busy \cup {"idle", "answered", "failed", "dead"}]
    BY <2>1 DEF FrontEnds
  <2>5. death' \in {None} \cup [by : Request, why : {"null", "sockets", "stoi"}]
    BY <2>1 DEF FrontEnds
  <2>6. UNCHANGED <<up, master, ips, next, at, changes, steady, cheated>>
    BY <1>8 DEF OutOfSockets, NoneAnswers, AskMisled
  <2> QED BY <2>2, <2>3, <2>4, <2>5, <2>6
<1>9. CASE Call(r)
  BY <1>9 DEF Call, history
<1> QED BY <1>3, <1>4, <1>5, <1>6, <1>7, <1>8, <1>9 DEF Step

LEMMA NextType == TypeOK /\ [Next]_vars => TypeOK'
<1> SUFFICES ASSUME TypeOK, [Next]_vars PROVE TypeOK'
  OBVIOUS
<1>1. CASE UNCHANGED vars
  BY <1>1 DEF TypeOK, vars, thread, history
<1>2. ASSUME NEW r \in Request, Step(r) PROVE TypeOK'
  BY <1>2, StepType
<1>3. ASSUME NEW s \in Server, Stop(s) PROVE TypeOK'
  BY <1>3, RoutingAssumption DEF TypeOK, Stop, thread, history
<1>4. CASE Boot
  <2>1. up' \in SUBSET Server /\ changes' \in 0 .. MaxChange
    BY <1>4, RoutingAssumption DEF TypeOK, Boot
  <2>2. master' \in BOOLEAN /\ front' \in BOOLEAN
    BY <1>4, Zenon DEF TypeOK, Boot
  <2>3. UNCHANGED <<ipMap, sockets, thread, steady>>
    BY <1>4 DEF Boot
  <2>4. cheated' \in {cheated, {}} /\ death' \in {death, None}
    BY <1>4 DEF Boot
  <2>5. cheated' \in SUBSET Request
    BY <2>4 DEF TypeOK
  <2>6. death' \in {None} \cup [by : Request, why : {"null", "sockets", "stoi"}]
    BY <2>4, Zenon DEF TypeOK
  <2> QED BY <2>1, <2>2, <2>3, <2>5, <2>6 DEF TypeOK, thread
<1>5. CASE MasterStops
  <2>1. changes' \in 0 .. MaxChange
    BY <1>5, RoutingAssumption DEF TypeOK, MasterStops
  <2>2. master' \in BOOLEAN
    BY <1>5 DEF MasterStops
  <2>3. UNCHANGED <<ipMap, up, front, sockets, thread, history>>
    BY <1>5 DEF MasterStops
  <2> QED BY <2>1, <2>2, <2>3 DEF TypeOK, thread, history
<1> QED BY <1>1, <1>2, <1>3, <1>4, <1>5 DEF Next

\* The state of the front end keeps its types for any list of servers.
THEOREM RoutingTypes == Spec => []TypeOK
<1> QED BY InitType, NextType, PTL DEF Spec

-----------------------------------------------------------------------------
(* The inductive invariant: what the map and each search may hold.         *)

\* A list is the whole line of its key, unless the master failed a request for
\* that key.
Full(s, k) == Len(s) = Len(Line(k)) \/ \E q \in cheated : KeyOf(q) = k

\* What is known of a row without a group may be anything.
PartOf(s, k) == k + 1 \in DOMAIN Lines => Part(s, Line(k))

Listed(k) ==
    /\ PartOf(ipMap[k], k)
    /\ ipMap[k] = <<>> \/ Full(ipMap[k], k)

\* The servers before its position were down at some time of the search.
Searched(r) ==
    /\ steady[r] \subseteq up
    /\ \A i \in 1 .. next[r] - 1 : i <= Len(ips[r]) /\ ips[r][i] \notin steady[r]
    /\ pc[r] \in {"ask", "update", "reread"} => next[r] = 1
    /\ pc[r] = "call" => next[r] <= Len(ips[r]) /\ at[r] = ips[r][next[r]]

Fetched(r) ==
    /\ PartOf(ips[r], KeyOf(r))
    /\ pc[r] \in {"update", "beat", "call"} => Full(ips[r], KeyOf(r))
    /\ pc[r] = "reread" => Full(ipMap[KeyOf(r)], KeyOf(r))

\* Nothing is left of a front end that has ended.
Ended == ~front => /\ \A r \in Request : pc[r] \notin Busy
                   /\ \A k \in Key : ipMap[k] = <<>>

RoutingInv ==
    /\ Ended
    /\ \A k \in Key : Listed(k)
    /\ \A r \in Request : pc[r] \in Busy => Searched(r) /\ Fetched(r)
    /\ death # None => pc[death.by] = "dead"
    /\ NullOnlyWithoutServers

LEMMA EmptyPart == \A l \in Seq(Server) : Part(<<>>, l)
<1>1. Len(<<>>) = 0
  BY LenProperties, EmptySeq
<1> SUFFICES ASSUME NEW l \in Seq(Server) PROVE Part(<<>>, l)
  OBVIOUS
<1>2. Len(l) \in Nat
  BY LenProperties
<1> QED BY <1>1, <1>2 DEF Part

LEMMA WholePart == \A l \in Seq(Server) : Part(l, l)
<1> SUFFICES ASSUME NEW l \in Seq(Server) PROVE Part(l, l)
  OBVIOUS
<1>1. Len(l) \in Nat
  BY LenProperties
<1> QED BY <1>1 DEF Part

LEMMA InitInv == Init => RoutingInv
<1> SUFFICES ASSUME Init PROVE RoutingInv
  OBVIOUS
<1>1. ASSUME NEW k \in Key PROVE Listed(k)
  <2>1. ipMap[k] = <<>>
    BY DEF Init
  <2> QED BY <2>1, LineType, EmptyPart DEF Listed, PartOf
<1>2. \A r \in Request : pc[r] \notin Busy
  BY DEF Init, Busy
<1>3. death = None /\ front
  BY DEF Init
<1> QED BY <1>1, <1>2, <1>3 DEF RoutingInv, NullOnlyWithoutServers, Ended

\* What a request does leaves the other requests as they were: only the map
\* can change under them.
LEMMA OthersKept ==
    ASSUME TypeOK, TypeOK', RoutingInv, NEW r \in Request,
           cheated \subseteq cheated',
           NEW q \in Request, pc[q] \in Busy, UNCHANGED <<pc[q], ips[q], next[q], at[q], steady[q], up>>,
           \/ UNCHANGED ipMap[KeyOf(q)]
           \/ Full(ipMap[KeyOf(q)], KeyOf(q))'
    PROVE  (Searched(q) /\ Fetched(q))'
<1>1. Searched(q) /\ Fetched(q)
  BY DEF RoutingInv
<1>2. Searched(q)'
  BY <1>1 DEF Searched
<1>3. Full(ips[q], KeyOf(q)) => Full(ips[q], KeyOf(q))'
  BY DEF Full
<1>4. pc[q] = "reread" => Full(ipMap[KeyOf(q)], KeyOf(q))'
  BY <1>1 DEF Fetched, Full
<1>5. Fetched(q)'
  BY <1>1, <1>3, <1>4 DEF Fetched
<1> QED BY <1>2, <1>5

\* No request starts again after the end of the front end.
LEMMA DeadKept ==
    ASSUME TypeOK, RoutingInv, cheated \subseteq cheated',
           UNCHANGED death,
           \A q \in Request : pc[q] = "dead" =>
                pc'[q] = "dead" /\ steady'[q] \subseteq steady[q]
    PROVE  (death # None => pc[death.by] = "dead")' /\ NullOnlyWithoutServers'
<1>1. CASE death = None
  BY <1>1 DEF NullOnlyWithoutServers
<1>2. CASE death # None
  <2>1. death.by \in Request
    BY <1>2 DEF TypeOK
  <2>2. pc[death.by] = "dead"
    BY <1>2 DEF RoutingInv
  <2>3. pc'[death.by] = "dead" /\ steady'[death.by] \subseteq steady[death.by]
    BY <2>1, <2>2
  <2> QED BY <2>3, <1>2 DEF RoutingInv, NullOnlyWithoutServers
<1> QED BY <1>1, <1>2

LEMMA ListedKept ==
    ASSUME RoutingInv, cheated \subseteq cheated', NEW k \in Key, UNCHANGED ipMap[k]
    PROVE  Listed(k)'
BY DEF RoutingInv, Listed, Full

\* A step of one thread keeps the invariant if it keeps that of its own search
\* and of the map.
LEMMA ThreadStep ==
    ASSUME TypeOK, TypeOK', RoutingInv, NEW r \in Request,
           cheated \subseteq cheated', UNCHANGED <<up, death, front>>,
           pc[r] # "dead", pc[r] \in Busy \/ front,
           \A q \in Request \ {r} : UNCHANGED <<pc[q], ips[q], next[q], at[q], steady[q]>>,
           \A k \in Key : Listed(k)',
           \A k \in Key : UNCHANGED ipMap[k] \/ Full(ipMap[k], k)',
           pc'[r] \in Busy => (Searched(r) /\ Fetched(r))'
    PROVE  RoutingInv'
<1>1. ASSUME NEW q \in Request \ {r}, pc[q] \in Busy
      PROVE  (Searched(q) /\ Fetched(q))'
  <2>1. KeyOf(q) \in Key
    BY KeyType
  <2>2. UNCHANGED ipMap[KeyOf(q)] \/ Full(ipMap[KeyOf(q)], KeyOf(q))'
    BY <2>1
  <2> QED BY <1>1, <2>2, OthersKept
<1>2. \A q \in Request : pc'[q] \in Busy => (Searched(q) /\ Fetched(q))'
  BY <1>1
<1>3. (death # None => pc[death.by] = "dead")' /\ NullOnlyWithoutServers'
  <2>1. \A q \in Request : pc[q] = "dead" => pc'[q] = "dead" /\ steady'[q] \subseteq steady[q]
    OBVIOUS
  <2> QED BY <2>1, DeadKept
<1>4. Ended'
  BY DEF RoutingInv, Ended
<1> QED BY <1>2, <1>3, <1>4 DEF RoutingInv, Busy

LEMMA StartInv ==
    ASSUME TypeOK, TypeOK', RoutingInv, NEW r \in Request, Start(r)
    PROVE  RoutingInv'
<1> DEFINE k == KeyOf(r)
<1>1. k \in Key /\ Line(k) \in Seq(Server)
  BY KeyType, LineType
<1>2. UNCHANGED <<ipMap, up, cheated, death, front>>
  BY DEF Start
<1>3. Listed(k) /\ \A j \in Key : Listed(j)'
  BY <1>1, <1>2, ListedKept DEF RoutingInv
<1>4. /\ ips'[r] = ipMap[k] /\ next'[r] = 1 /\ steady'[r] = up
      /\ pc'[r] = IF ipMap[k] = <<>> THEN "ask" ELSE "beat"
  BY DEF Start, Search, Goto, TypeOK
<1>5. Searched(r)'
  BY <1>2, <1>4 DEF Searched
<1>6. Fetched(r)'
  BY <1>2, <1>3, <1>4 DEF Fetched, Listed, Full
<1>7. \A q \in Request \ {r} : UNCHANGED <<pc[q], ips[q], next[q], at[q], steady[q]>>
  BY DEF Start, Search, Goto, TypeOK
<1>8. pc[r] # "dead" /\ front
  BY DEF Start
<1> QED BY <1>2, <1>3, <1>5, <1>6, <1>7, <1>8, ThreadStep

LEMMA AskInv ==
    ASSUME TypeOK, TypeOK', RoutingInv, NEW r \in Request, Ask(r)
    PROVE  RoutingInv'
<1> DEFINE k == KeyOf(r)
<1>1. k \in Key /\ Line(k) \in Seq(Server)
  BY KeyType, LineType
<1>2. /\ UNCHANGED <<ipMap, up, front, next, at, steady, death>>
      /\ cheated \subseteq cheated'
      /\ pc' = [pc EXCEPT ![r] = "update"]
      /\ pc[r] = "ask"
  BY DEF Ask, Goto
<1>3. Searched(r) /\ \A j \in Key : Listed(j)'
  BY <1>2, ListedKept DEF RoutingInv, Busy
<1>4. /\ \A q \in Request \ {r} : UNCHANGED ips[q]
      /\ PartOf(ips'[r], k) /\ Full(ips[r], k)'
  <2>1. CASE /\ ips' = [ips EXCEPT ![r] = Line(k)]
    BY <1>1, <2>1, WholePart DEF TypeOK, Full, PartOf
  <2>2. CASE /\ ips' = [ips EXCEPT ![r] = <<>>]
             /\ r \in cheated'
    BY <1>1, <2>2, EmptyPart DEF TypeOK, Full, PartOf
  <2>3. ASSUME NEW n \in 0 .. Len(Line(k)) - 1,
               ips' = [ips EXCEPT ![r] = SubSeq(Line(k), 1, n)],
               r \in cheated'
        PROVE  /\ \A q \in Request \ {r} : UNCHANGED ips[q]
               /\ PartOf(ips'[r], k) /\ Full(ips[r], k)'
    <3>1. Part(SubSeq(Line(k), 1, n), Line(k))
      BY <1>1, PartOfLine
    <3> QED BY <2>3, <3>1 DEF TypeOK, Full, PartOf
  <2>5. ASSUME NEW l \in Garbage, ips' = [ips EXCEPT ![r] = l], r \in cheated', ~HasLine(r)
        PROVE  /\ \A q \in Request \ {r} : UNCHANGED ips[q]
               /\ PartOf(ips'[r], k) /\ Full(ips[r], k)'
    BY <2>5 DEF TypeOK, Full, PartOf, HasLine
  <2>4. \/ ips' = [ips EXCEPT ![r] = Line(k)]
        \/ ips' = [ips EXCEPT ![r] = <<>>] /\ r \in cheated'
        \/ \E n \in 0 .. Len(Line(k)) - 1 :
              ips' = [ips EXCEPT ![r] = SubSeq(Line(k), 1, n)] /\ r \in cheated'
        \/ \E l \in Garbage : ips' = [ips EXCEPT ![r] = l] /\ r \in cheated' /\ ~HasLine(r)
    BY DEF Ask
  <2> QED BY <2>1, <2>2, <2>3, <2>4, <2>5
<1>5. Searched(r)' /\ Fetched(r)'
  BY <1>2, <1>3, <1>4 DEF Searched, Fetched, TypeOK
<1>6. \A q \in Request \ {r} : UNCHANGED <<pc[q], ips[q], next[q], at[q], steady[q]>>
  BY <1>2, <1>4 DEF TypeOK
<1> QED BY <1>2, <1>3, <1>5, <1>6, ThreadStep DEF Busy

LEMMA UpdateInv ==
    ASSUME TypeOK, TypeOK', RoutingInv, NEW r \in Request, Update(r)
    PROVE  RoutingInv'
<1> DEFINE k == KeyOf(r)
<1>1. k \in Key
  BY KeyType
<1>2. /\ UNCHANGED <<up, front, ips, next, at, steady, cheated, death>>
      /\ pc' = [pc EXCEPT ![r] = "reread"] /\ pc[r] = "update"
      /\ ipMap' = [ipMap EXCEPT ![k] = ips[r]]
  BY DEF Update, Goto, history
<1>3. Searched(r) /\ Fetched(r)
  BY <1>2 DEF RoutingInv, Busy
<1>4. PartOf(ipMap'[k], k) /\ Full(ipMap[k], k)'
  BY <1>1, <1>2, <1>3 DEF Fetched, Full, TypeOK
<1>5. \A j \in Key \ {k} : UNCHANGED ipMap[j] /\ Listed(j)'
  BY <1>1, <1>2, ListedKept DEF TypeOK
<1>6. Searched(r)' /\ Fetched(r)'
  BY <1>2, <1>3, <1>4 DEF Searched, Fetched, TypeOK
<1>7. \A q \in Request \ {r} : UNCHANGED <<pc[q], ips[q], next[q], at[q], steady[q]>>
  BY <1>2 DEF TypeOK
<1>8. Listed(k)'
  BY <1>4 DEF Listed
<1> QED BY <1>2, <1>4, <1>5, <1>6, <1>7, <1>8, ThreadStep DEF Busy

LEMMA RereadInv ==
    ASSUME TypeOK, TypeOK', RoutingInv, NEW r \in Request, Reread(r)
    PROVE  RoutingInv'
<1> DEFINE k == KeyOf(r)
<1>1. k \in Key
  BY KeyType
<1>2. /\ UNCHANGED <<ipMap, up, front, at, steady, cheated, death>>
      /\ pc' = [pc EXCEPT ![r] = "beat"] /\ pc[r] = "reread"
      /\ ips' = [ips EXCEPT ![r] = ipMap[k]] /\ next' = [next EXCEPT ![r] = 1]
  BY DEF Reread, Search, Goto, history
<1>3. Searched(r) /\ Fetched(r) /\ Listed(k) /\ \A j \in Key : Listed(j)'
  BY <1>1, <1>2, ListedKept DEF RoutingInv, Busy
<1>4. Searched(r)'
  BY <1>2, <1>3 DEF Searched, TypeOK
<1>5. Fetched(r)'
  BY <1>2, <1>3 DEF Fetched, Listed, Full, TypeOK
<1>6. \A q \in Request \ {r} : UNCHANGED <<pc[q], ips[q], next[q], at[q], steady[q]>>
  BY <1>2 DEF TypeOK
<1> QED BY <1>2, <1>3, <1>4, <1>5, <1>6, ThreadStep DEF Busy

LEMMA BeatInv ==
    ASSUME TypeOK, TypeOK', RoutingInv, NEW r \in Request, Beat(r)
    PROVE  RoutingInv'
<1>1. /\ UNCHANGED <<ipMap, up, front, ips, steady, cheated, death>>
      /\ pc[r] = "beat" /\ next[r] <= Len(ips[r])
  BY DEF Beat, history
<1>2. Searched(r) /\ Fetched(r) /\ \A j \in Key : Listed(j)'
  BY <1>1, ListedKept DEF RoutingInv, Busy
<1>3. Len(ips[r]) \in Nat /\ next[r] \in Nat
  BY LenProperties DEF TypeOK
<1>4. (Searched(r) /\ Fetched(r))'
  <2>1. CASE pc' = [pc EXCEPT ![r] = "call"] /\ at' = [at EXCEPT ![r] = ips[r][next[r]]]
             /\ UNCHANGED next
    BY <1>1, <1>2, <2>1 DEF Searched, Fetched, Full, TypeOK
  <2>2. CASE ips[r][next[r]] \notin up /\ next' = [next EXCEPT ![r] = @ + 1] /\ UNCHANGED pc
    <3>1. next'[r] = next[r] + 1 /\ pc'[r] = "beat"
      BY <1>1, <2>2 DEF TypeOK
    <3>2. \A i \in 1 .. next[r] : i <= Len(ips[r]) /\ ips[r][i] \notin steady[r]
      BY <1>1, <1>2, <1>3, <2>2 DEF Searched
    <3>3. Searched(r)'
      BY <1>1, <1>2, <1>3, <3>1, <3>2 DEF Searched
    <3> QED BY <1>1, <1>2, <3>1, <3>3 DEF Fetched, Full
  <2> QED BY <2>1, <2>2 DEF Beat, Goto
<1>5. \A q \in Request \ {r} : UNCHANGED <<pc[q], ips[q], next[q], at[q], steady[q]>>
  BY DEF Beat, Goto, TypeOK, history
<1> QED BY <1>1, <1>2, <1>4, <1>5, ThreadStep DEF Busy

LEMMA CallInv ==
    ASSUME TypeOK, TypeOK', RoutingInv, NEW r \in Request, Call(r)
    PROVE  RoutingInv'
<1>1. /\ UNCHANGED <<ipMap, up, front, ips, next, at, steady, cheated, death>>
      /\ pc[r] = "call" /\ pc'[r] \in {"answered", "failed"}
      /\ \A q \in Request \ {r} : UNCHANGED pc[q]
  BY DEF Call, Goto, history, TypeOK
<1>2. \A j \in Key : Listed(j)'
  BY <1>1, ListedKept
<1> QED BY <1>1, <1>2, ThreadStep DEF Busy

\* The front end ends: no search is left, and the one that ended it for want of
\* a server had looked at the whole list.
LEMMA FrontEndsInv ==
    ASSUME TypeOK, TypeOK', RoutingInv, NEW r \in Request,
           OutOfSockets(r) \/ NoneAnswers(r) \/ AskMisled(r)
    PROVE  RoutingInv'
<1> DEFINE k == KeyOf(r)
<1>1. k \in Key /\ Line(k) \in Seq(Server)
  BY KeyType, LineType
<1>2. PICK why \in {"null", "sockets", "stoi"} :
         FrontEnds(r, why) /\ (why = "null" => NoneAnswers(r))
  BY DEF OutOfSockets, NoneAnswers, AskMisled
<1>3. pc[r] \in Busy /\ UNCHANGED <<steady, cheated>>
  BY DEF OutOfSockets, NoneAnswers, AskMisled, Busy
<1>4. /\ \A q \in Request : pc'[q] \notin Busy
      /\ pc'[r] = "dead"
      /\ ipMap' = [j \in Key |-> <<>>]
      /\ death' = [by |-> r, why |-> why]
  BY <1>2, <1>3 DEF FrontEnds, TypeOK, Busy
<1>5. (\A j \in Key : Listed(j)') /\ Ended'
  BY <1>4, LineType, EmptyPart DEF Listed, PartOf, Ended
<1>6. CASE why # "null"
  BY <1>4, <1>5, <1>6 DEF RoutingInv, NullOnlyWithoutServers
<1>7. CASE why = "null"
  <2>1. next[r] > Len(ips[r])
    BY <1>2, <1>7 DEF NoneAnswers
  <2>2. Searched(r) /\ Fetched(r)
    BY <1>3 DEF RoutingInv
  <2>3. Len(ips[r]) \in Nat /\ next[r] \in Nat /\ Len(Line(k)) \in Nat
    BY <1>1, LenProperties DEF TypeOK
  <2>5. CASE Len(ips[r]) = Len(Line(k))
    <3>1. DOMAIN Line(k) = 1 .. Len(Line(k))
      BY <1>1, LenProperties
    <3>2. CASE k + 1 \in DOMAIN Lines
      <4>1. \A i \in 1 .. Len(ips[r]) : Line(k)[i] \notin steady[r]
        BY <2>1, <2>2, <2>3, <3>2 DEF Searched, Fetched, PartOf, Part
      <4>2. Range(Line(k)) \cap steady[r] = {}
        BY <2>5, <3>1, <4>1 DEF Range
      <4> QED BY <1>3, <1>4, <1>5, <4>2 DEF RoutingInv, NullOnlyWithoutServers
    <3>3. CASE k + 1 \notin DOMAIN Lines
      <4>1. Range(Line(k)) = {}
        BY <3>3 DEF Line, Range
      <4> QED BY <1>3, <1>4, <1>5, <4>1 DEF RoutingInv, NullOnlyWithoutServers
    <3> QED BY <3>2, <3>3
  <2>6. CASE \E q \in cheated : KeyOf(q) = k
    BY <1>3, <1>4, <1>5, <2>6 DEF RoutingInv, NullOnlyWithoutServers
  <2>7. pc[r] = "beat"
    BY <1>2, <1>7 DEF NoneAnswers
  <2> QED BY <2>2, <2>5, <2>6, <2>7 DEF Fetched, Full
<1> QED BY <1>2, <1>6, <1>7

\* Servers and the master stop and start: a server that stops leaves the steady
\* sets, and one that starts enters none.
LEMMA WorldInv ==
    ASSUME TypeOK, TypeOK', RoutingInv,
           UNCHANGED <<ipMap, front, thread, cheated, death>>,
           \A r \in Request : /\ steady'[r] \subseteq steady[r]
                              /\ steady[r] \subseteq up => steady'[r] \subseteq up'
    PROVE  RoutingInv'
<1>1. \A k \in Key : Listed(k)'
  BY ListedKept
<1>2. ASSUME NEW r \in Request, pc'[r] \in Busy PROVE (Searched(r) /\ Fetched(r))'
  <2>1. Searched(r) /\ Fetched(r)
    BY <1>2 DEF RoutingInv, thread
  <2>2. Searched(r)'
    BY <2>1 DEF Searched, thread
  <2>3. Fetched(r)'
    BY <2>1 DEF Fetched, Full, thread
  <2> QED BY <2>2, <2>3
<1>3. (death # None => pc[death.by] = "dead")' /\ NullOnlyWithoutServers'
  BY DeadKept DEF thread
<1>4. Ended'
  BY DEF RoutingInv, Ended, thread
<1> QED BY <1>1, <1>2, <1>3, <1>4 DEF RoutingInv, Busy

\* A new front end begins with an empty map, and the master has cheated it of
\* nothing.
LEMMA NewFrontInv ==
    ASSUME TypeOK, TypeOK', RoutingInv, ~front, cheated' = {}, death' = None,
           UNCHANGED <<ipMap, thread>>
    PROVE  RoutingInv'
<1>1. /\ \A r \in Request : pc'[r] \notin Busy
      /\ \A k \in Key : ipMap'[k] = <<>>
  BY DEF RoutingInv, Ended, thread
<1>2. \A k \in Key : Listed(k)'
  BY <1>1, LineType, EmptyPart DEF Listed, PartOf
<1> QED BY <1>1, <1>2 DEF RoutingInv, NullOnlyWithoutServers, Ended, Busy

LEMMA NextInv == TypeOK /\ RoutingInv /\ [Next]_vars => RoutingInv'
<1> SUFFICES ASSUME TypeOK, RoutingInv, [Next]_vars PROVE RoutingInv'
  OBVIOUS
<1>1. TypeOK'
  BY NextType
<1>2. CASE UNCHANGED vars
  BY <1>1, <1>2, WorldInv DEF vars, history
<1>3. ASSUME NEW r \in Request, Step(r) PROVE RoutingInv'
  BY <1>1, <1>3, StartInv, AskInv, UpdateInv, RereadInv, BeatInv, CallInv, FrontEndsInv
     DEF Step
<1>4. ASSUME NEW s \in Server, Stop(s) PROVE RoutingInv'
  <2>1. /\ UNCHANGED <<ipMap, front, thread, cheated, death>>
        /\ up' = up \ {s} /\ \A r \in Request : steady'[r] = steady[r] \ {s}
    BY <1>4 DEF Stop
  <2> QED BY <1>1, <2>1, WorldInv
<1>5. CASE Boot
  <2>1. UNCHANGED <<ipMap, thread, steady>> /\ up \subseteq up'
    BY <1>5 DEF Boot
  <2>2. CASE UNCHANGED <<front, cheated, death>>
    BY <1>1, <2>1, <2>2, WorldInv
  <2>3. CASE ~front /\ cheated' = {} /\ death' = None
    BY <1>1, <2>1, <2>3, NewFrontInv
  <2> QED BY <1>5, <2>2, <2>3 DEF Boot
<1>6. CASE MasterStops
  BY <1>1, <1>6, WorldInv DEF MasterStops, history
<1> QED BY <1>2, <1>3, <1>4, <1>5, <1>6 DEF Next

LEMMA RoutingInvariant == Spec => [](TypeOK /\ RoutingInv)
<1> QED BY InitType, NextType, InitInv, NextInv, PTL DEF Spec

-----------------------------------------------------------------------------
(* What a request can rely on.                                             *)

\* A request for a row with a group passes over a server of that group only if
\* it was down during the search, for any server lists, any number of overlapping
\* requests, and whatever is read beside the list for other rows.
THEOREM SearchIsInOrder == Spec => []EntersAtFirstLive
<1>1. ASSUME TypeOK, RoutingInv PROVE EntersAtFirstLive
  <2> SUFFICES ASSUME NEW r \in Request, pc[r] = "call", HasLine(r)
               PROVE  \E j \in DOMAIN Line(KeyOf(r)) :
                          /\ at[r] = Line(KeyOf(r))[j]
                          /\ \A i \in 1 .. j - 1 : Line(KeyOf(r))[i] \notin steady[r]
    BY DEF EntersAtFirstLive
  <2> DEFINE l == Line(KeyOf(r))
  <2>1. Searched(r) /\ Fetched(r)
    BY <1>1 DEF RoutingInv, Busy
  <2>2. l \in Seq(Server) /\ ips[r] \in Seq(Server) /\ next[r] \in Nat \ {0}
    BY <1>1, KeyType, LineType DEF TypeOK
  <2>3. DOMAIN l = 1 .. Len(l) /\ Len(l) \in Nat /\ Len(ips[r]) \in Nat
    BY <2>2, LenProperties
  <2>4. next[r] \in 1 .. Len(ips[r]) /\ Len(ips[r]) <= Len(l)
    BY <2>1, <2>2, <2>3 DEF Searched, Fetched, PartOf, HasLine, Part
  <2>5. next[r] \in DOMAIN l /\ at[r] = l[next[r]]
    BY <2>1, <2>3, <2>4 DEF Searched, Fetched, PartOf, HasLine, Part
  <2>6. \A i \in 1 .. next[r] - 1 : l[i] \notin steady[r]
    BY <2>1, <2>2, <2>3, <2>4 DEF Searched, Fetched, PartOf, HasLine, Part
  <2> QED BY <2>5, <2>6
<1> QED BY <1>1, RoutingInvariant, PTL

\* A request for a row with a group goes to a server of that group, however
\* threads overwrite the map and however the master fails.
THEOREM RowsKeepTheirGroup == Spec => []EntersOwnGroup
<1>1. EntersAtFirstLive => EntersOwnGroup
  BY DEF EntersAtFirstLive, EntersOwnGroup, Range
<1> QED BY <1>1, SearchIsInOrder, PTL

\* The front end ends for want of a server only if the whole group was down at
\* some time of the search or the master failed a request for the group.
THEOREM NullIsExplained == Spec => []NullOnlyWithoutServers
<1>1. RoutingInv => NullOnlyWithoutServers
  BY DEF RoutingInv
<1> QED BY <1>1, RoutingInvariant, PTL

=============================================================================
