---------------------------- MODULE SessionsProofs ----------------------------
(***************************************************************************)
(* Theorems about Sessions.tla, for any browsers, users, requests and      *)
(* session ids.                                                            *)
(***************************************************************************)
EXTENDS Sessions, TLAPS

-----------------------------------------------------------------------------
(* Types.                                                                  *)

LEMMA InitType == Init => TypeOK
<1> SUFFICES ASSUME Init PROVE TypeOK
  OBVIOUS
<1>1. /\ sessions \in SUBSET Session
      /\ heap \in [Session -> {"unborn", "live", "freed"}]
      /\ username \in [Session -> User \cup {None}]
      /\ jar \in [Browser -> Session \cup {None}]
      /\ pc \in [Request -> Busy \cup {"idle", "done", "dead", "wild"}]
  BY DEF Init
<1>2. /\ browser \in [Request -> Browser \cup {None}]
      /\ kind \in [Request -> Kind \cup {None}]
      /\ name \in [Request -> User \cup {None}]
      /\ cookie \in [Request -> Session \cup {None}]
      /\ session \in [Request -> Session \cup {None}]
      /\ entered \in [Browser -> SUBSET User]
      /\ mixed \in SUBSET Browser
  BY DEF Init
<1>3. valid \in [Session -> BOOLEAN] /\ isNew \in [Session -> BOOLEAN]
  BY DEF Init
<1>4. broken \in BOOLEAN /\ restarted \in BOOLEAN
  BY DEF Init
<1> QED BY <1>1, <1>2, <1>3, <1>4 DEF TypeOK

LEMMA UseType ==
    ASSUME broken \in BOOLEAN, NEW s, Use(s)
    PROVE  broken' \in BOOLEAN
BY DEF Use

LEMMA UseLive ==
    ASSUME NEW s, Use(s), s # None, heap[s] = "live", ~broken
    PROVE  ~broken'
BY DEF Use

LEMMA GotoType ==
    ASSUME TypeOK, NEW r \in Request, NEW p \in Busy \cup {"done", "wild"}, Goto(r, p)
    PROVE  /\ pc' \in [Request -> Busy \cup {"idle", "done", "dead", "wild"}]
           /\ pc'[r] = p
           /\ \A q \in Request \ {r} : pc'[q] = pc[q]
BY DEF TypeOK, Goto

\* What a step does to the worker threads: one moves on, and the pointers and
\* cookies of the others stay.
ThreadsMove(r) ==
    /\ pc' \in [Request -> Busy \cup {"idle", "done", "dead", "wild"}]
    /\ \A q \in Request \ {r} : UNCHANGED <<pc[q], cookie[q], session[q]>>
    /\ cookie' \in [Request -> Session \cup {None}]
    /\ session' \in [Request -> Session \cup {None}]

LEMMA ArriveType ==
    ASSUME TypeOK, NEW r \in Request, NEW b \in Browser, NEW k \in Kind,
           NEW u \in User \cup {None}, Arrive(r, b, k, u)
    PROVE  TypeOK' /\ ThreadsMove(r)
<1> USE DEF TypeOK
<1>1. pc' \in [Request -> Busy \cup {"idle", "done", "dead", "wild"}]
      /\ \A q \in Request \ {r} : pc'[q] = pc[q]
  BY GotoType DEF Arrive, Busy
<1>2. /\ browser' \in [Request -> Browser \cup {None}]
      /\ kind' \in [Request -> Kind \cup {None}]
      /\ name' \in [Request -> User \cup {None}]
  BY DEF Arrive
<1>3. /\ cookie' \in [Request -> Session \cup {None}]
      /\ \A q \in Request \ {r} : cookie'[q] = cookie[q]
  BY DEF Arrive
<1>4. mixed' \in SUBSET Browser
  BY DEF Arrive
<1>5. UNCHANGED <<sessions, objects, jar, session, broken, restarted, entered>>
  BY DEF Arrive
<1> QED BY <1>1, <1>2, <1>3, <1>4, <1>5 DEF ThreadsMove, objects

\* A garbled request only ends.
LEMMA GarbledMoves ==
    ASSUME TypeOK, NEW r \in Request, Garbled(r)
    PROVE  /\ TypeOK' /\ ThreadsMove(r)
           /\ pc[r] = "idle" /\ pc'[r] \in {"done", "wild"}
           /\ pc'[r] # "wild" => UNCHANGED broken
           /\ UNCHANGED <<sessions, objects, jar, ask, name, cookie, session, rest>>
<1> USE DEF TypeOK
<1>1. PICK p \in {"done", "wild"} :
         Goto(r, p) /\ IF p = "done" THEN UNCHANGED broken ELSE broken' = TRUE
  BY DEF Garbled
<1>2. /\ pc' \in [Request -> Busy \cup {"idle", "done", "dead", "wild"}]
      /\ pc'[r] = p /\ \A q \in Request \ {r} : pc'[q] = pc[q]
  BY <1>1, GotoType
<1>3. broken' \in BOOLEAN
  BY <1>1
<1>4. pc[r] = "idle" /\ UNCHANGED <<sessions, objects, jar, ask, name, cookie, session, rest>>
  BY DEF Garbled
<1> QED BY <1>1, <1>2, <1>3, <1>4 DEF ThreadsMove, objects, ask, rest

\* What a worker thread holds at each point.
Shape(r) ==
    /\ pc[r] \in Busy => browser[r] \in Browser
    /\ pc[r] = "idle" => cookie[r] = None
    /\ pc[r] \in {"idle", "parse", "found"} => session[r] = None
    /\ pc[r] = "found" => cookie[r] # None
    /\ pc[r] \in {"keep", "drop"} => session[r] # None /\ cookie[r] = session[r]
    /\ pc[r] \in {"unhash", "free"} => session[r] # None
    /\ pc[r] \in {"parse", "found", "keep", "drop", "serve"} /\ kind[r] = "login" =>
          name[r] # None
    /\ pc[r] \in Busy /\ kind[r] = "logout" /\ session[r] # None => cookie[r] = session[r]

LEMMA StepType ==
    ASSUME TypeOK, NEW r \in Request, Shape(r), Step(r)
    PROVE  TypeOK' /\ ThreadsMove(r)
<1> USE DEF TypeOK
<1>1. CASE Parse(r)
  <2>1. Goto(r, "found") \/ Goto(r, "serve")
    BY <1>1 DEF Parse
  <2>2. /\ pc' \in [Request -> Busy \cup {"idle", "done", "dead", "wild"}]
        /\ \A q \in Request \ {r} : pc'[q] = pc[q]
    BY <2>1, GotoType DEF Busy
  <2> QED BY <1>1, <2>2 DEF Parse, ThreadsMove, objects, ask, rest
<1>2. CASE Find(r)
  <2>1. CASE cookie[r] \in sessions
    <3>1. /\ Use(cookie[r]) /\ session' = [session EXCEPT ![r] = cookie[r]]
          /\ isNew' = [isNew EXCEPT ![cookie[r]] = FALSE]
          /\ Goto(r, "keep") \/ Goto(r, "drop")
      BY <1>2, <2>1 DEF Find
    <3>2. /\ pc' \in [Request -> Busy \cup {"idle", "done", "dead", "wild"}]
          /\ \A q \in Request \ {r} : pc'[q] = pc[q]
      BY <3>1, GotoType DEF Busy
    <3>3. broken' \in BOOLEAN
      BY <3>1, UseType
    <3>4. isNew' \in [Session -> BOOLEAN]
      BY <3>1
    <3> QED BY <1>2, <3>1, <3>2, <3>3, <3>4 DEF Find, ThreadsMove, ask, rest
  <2>2. CASE cookie[r] \notin sessions
    <3>1. broken' \in BOOLEAN
      BY <1>2, <2>2 DEF Find
    <3> QED BY <1>2, <2>2, <3>1 DEF Find, ThreadsMove, ask, rest
  <2> QED BY <2>1, <2>2
<1>3. CASE KeepOrDrop(r)
  <2>1. /\ pc' \in [Request -> Busy \cup {"idle", "done", "dead", "wild"}]
        /\ \A q \in Request \ {r} : pc'[q] = pc[q]
    BY <1>3, GotoType DEF KeepOrDrop, Busy
  <2>2. broken' \in BOOLEAN
    BY <1>3, UseType DEF KeepOrDrop
  <2>3. sessions' \in SUBSET Session
    <3>1. session[r] \in Session
      BY <1>3 DEF KeepOrDrop, Shape
    <3> QED BY <1>3, <3>1 DEF KeepOrDrop
  <2> QED BY <1>3, <2>1, <2>2, <2>3 DEF KeepOrDrop, ThreadsMove, objects, ask, rest
<1>4. CASE ServePage(r)
  <2>1. /\ pc' \in [Request -> Busy \cup {"idle", "done", "dead", "wild"}]
        /\ \A q \in Request \ {r} : pc'[q] = pc[q]
    BY <1>4, GotoType DEF ServePage, Busy
  <2>2. broken' \in BOOLEAN
    BY <1>4, UseType DEF ServePage
  <2> QED BY <1>4, <2>1, <2>2 DEF ServePage, ThreadsMove, objects, ask, rest
<1>5. CASE Refuse(r)
  <2>1. /\ pc' \in [Request -> Busy \cup {"idle", "done", "dead", "wild"}]
        /\ \A q \in Request \ {r} : pc'[q] = pc[q]
    BY <1>5, GotoType DEF Refuse, Busy
  <2> QED BY <1>5, <2>1 DEF Refuse, ThreadsMove, objects, ask, rest
<1>6. CASE Enter(r)
  <2>1. /\ pc' \in [Request -> Busy \cup {"idle", "done", "dead", "wild"}]
        /\ \A q \in Request \ {r} : pc'[q] = pc[q]
    BY <1>6, GotoType DEF Enter, Busy
  <2>2. PICK s \in Session :
           /\ Create(r, s) \/ Reuse(r, s)
           /\ username' = [username EXCEPT ![s] = name[r]]
    BY <1>6 DEF Enter
  <2>3. /\ name[r] \in User
        /\ entered' = [entered EXCEPT ![browser[r]] = @ \cup {name[r]}]
    BY <1>6 DEF Enter, Shape
  <2>4. /\ heap' \in [Session -> {"unborn", "live", "freed"}]
        /\ sessions' \in SUBSET Session
        /\ session' \in [Request -> Session \cup {None}]
        /\ \A q \in Request \ {r} : session'[q] = session[q]
    BY <2>2 DEF Create, Reuse
  <2>5. valid' \in [Session -> BOOLEAN]
    BY <2>2 DEF Create, Reuse
  <2>6. broken' \in BOOLEAN
    BY <2>2, UseType DEF Create, Reuse
  <2>7. username' \in [Session -> User \cup {None}]
    BY <2>2, <2>3
  <2>8. entered' \in [Browser -> SUBSET User]
    BY <2>3
  <2>9. UNCHANGED <<isNew, jar, ask, name, cookie, restarted, mixed>>
    BY <1>6 DEF Enter
  <2> QED BY <2>1, <2>4, <2>5, <2>6, <2>7, <2>8, <2>9 DEF ThreadsMove, ask
<1>7. CASE Logout(r)
  <2>1. /\ pc' \in [Request -> Busy \cup {"idle", "done", "dead", "wild"}]
        /\ \A q \in Request \ {r} : pc'[q] = pc[q]
    BY <1>7, GotoType DEF Logout, Busy
  <2>2. broken' \in BOOLEAN
    BY <1>7, UseType DEF Logout
  <2>3. valid' \in [Session -> BOOLEAN]
    BY <1>7 DEF Logout
  <2>4. entered' \in [Browser -> SUBSET User]
    BY <1>7 DEF Logout
  <2> QED BY <1>7, <2>1, <2>2, <2>3, <2>4 DEF Logout, ThreadsMove, ask
<1>8. CASE Commit(r)
  <2>1. /\ pc' \in [Request -> Busy \cup {"idle", "done", "dead", "wild"}]
        /\ \A q \in Request \ {r} : pc'[q] = pc[q]
    BY <1>8, GotoType DEF Commit, Busy
  <2>2. broken' \in BOOLEAN
    BY <1>8, UseType DEF Commit
  <2>3. /\ cookie' \in [Request -> Session \cup {None}]
        /\ \A q \in Request \ {r} : cookie'[q] = cookie[q]
    BY <1>8 DEF Commit
  <2> QED BY <1>8, <2>1, <2>2, <2>3 DEF Commit, ThreadsMove, objects, ask, rest
<1>9. CASE SetCookie(r)
  <2>1. /\ pc' \in [Request -> Busy \cup {"idle", "done", "dead", "wild"}]
        /\ \A q \in Request \ {r} : pc'[q] = pc[q]
    BY <1>9, GotoType DEF SetCookie, Answer, Busy
  <2>2. broken' \in BOOLEAN
    BY <1>9, UseType DEF SetCookie
  <2>3. jar' \in [Browser -> Session \cup {None}]
    BY <1>9 DEF SetCookie, Answer
  <2> QED BY <1>9, <2>1, <2>2, <2>3 DEF SetCookie, ThreadsMove, objects, ask, rest
<1>10. CASE Unhash(r)
  <2>1. /\ pc' \in [Request -> Busy \cup {"idle", "done", "dead", "wild"}]
        /\ \A q \in Request \ {r} : pc'[q] = pc[q]
    BY <1>10, GotoType DEF Unhash, Answer, Busy
  <2>2. sessions' \in SUBSET Session
    BY <1>10 DEF Unhash
  <2>3. jar' \in [Browser -> Session \cup {None}]
    BY <1>10 DEF Unhash, Answer
  <2> QED BY <1>10, <2>1, <2>2, <2>3 DEF Unhash, ThreadsMove, objects, ask, rest
<1>11. CASE Free(r)
  <2>1. /\ pc' \in [Request -> Busy \cup {"idle", "done", "dead", "wild"}]
        /\ \A q \in Request \ {r} : pc'[q] = pc[q]
    BY <1>11, GotoType DEF Free, Answer, Busy
  <2>2. broken' \in BOOLEAN
    BY <1>11, UseType DEF Free
  <2>3. jar' \in [Browser -> Session \cup {None}]
    BY <1>11 DEF Free, Answer
  <2>4. heap' \in [Session -> {"unborn", "live", "freed"}]
    BY <1>11 DEF Free
  <2> QED BY <1>11, <2>1, <2>2, <2>3, <2>4 DEF Free, ThreadsMove, ask, rest
<1> QED BY <1>1, <1>2, <1>3, <1>4, <1>5, <1>6, <1>7, <1>8, <1>9, <1>10, <1>11 DEF Step

LEMMA RestartType == ASSUME TypeOK, Restart PROVE TypeOK'
<1> USE DEF TypeOK
<1>1. restarted' \in BOOLEAN
  BY DEF Restart
<1>2. /\ sessions' \in SUBSET Session
      /\ heap' \in [Session -> {"unborn", "live", "freed"}]
      /\ pc' \in [Request -> Busy \cup {"idle", "done", "dead", "wild"}]
      /\ entered' \in [Browser -> SUBSET User]
      /\ mixed' \in SUBSET Browser
  BY DEF Restart
<1>3. UNCHANGED <<valid, isNew, username, jar, ask, name, cookie, session, broken>>
  BY DEF Restart
<1> QED BY <1>1, <1>2, <1>3 DEF ask

LEMMA ArriveShape ==
    ASSUME TypeOK, NEW r \in Request, Shape(r), NEW b \in Browser, NEW k \in Kind,
           NEW u \in User \cup {None}, Arrive(r, b, k, u)
    PROVE  Shape(r)'
<1>1. /\ pc'[r] = "parse" /\ browser'[r] = b /\ kind'[r] = k /\ name'[r] = u
      /\ session'[r] = None
      /\ k = "login" => u # None
  BY DEF Arrive, Goto, TypeOK, Shape
<1> QED BY <1>1 DEF Shape, Busy

LEMMA StepShape ==
    ASSUME TypeOK, NEW r \in Request, Shape(r), Step(r)
    PROVE  Shape(r)'
<1> USE DEF TypeOK
<1>1. CASE Parse(r)
  <2>1. /\ pc[r] = "parse" /\ UNCHANGED <<ask, name, cookie, session>>
        /\ pc'[r] = IF cookie[r] \in sessions THEN "found" ELSE "serve"
    BY <1>1 DEF Parse, Goto
  <2>2. cookie[r] \in sessions => cookie[r] # None
    BY SessionsAssumption
  <2> QED BY <2>1, <2>2 DEF Shape, Busy, ask
<1>2. CASE Find(r)
  <2>1. CASE cookie[r] \in sessions
    <3>1. /\ pc[r] = "found" /\ session'[r] = cookie[r] /\ cookie[r] # None
          /\ pc'[r] \in {"keep", "drop"} /\ UNCHANGED <<ask, name, cookie>>
      BY <1>2, <2>1 DEF Find, Goto, Shape
    <3> QED BY <3>1 DEF Shape, Busy, ask
  <2>2. CASE cookie[r] \notin sessions
    BY <1>2, <2>2 DEF Find, Shape, ask
  <2> QED BY <2>1, <2>2
<1>3. CASE KeepOrDrop(r)
  <2>1. /\ pc[r] \in {"keep", "drop"} /\ pc'[r] = "serve"
        /\ UNCHANGED <<ask, name, cookie, session>>
    BY <1>3 DEF KeepOrDrop, Goto
  <2> QED BY <2>1 DEF Shape, Busy, ask
<1>4. CASE ServePage(r) \/ Logout(r)
  <2>1. /\ pc[r] = "serve" /\ pc'[r] = "commit"
        /\ UNCHANGED <<ask, name, cookie, session>>
    BY <1>4 DEF ServePage, Logout, Goto
  <2> QED BY <2>1 DEF Shape, Busy, ask
<1>5. CASE Refuse(r) \/ Enter(r)
  <2>1. /\ pc[r] = "serve" /\ pc'[r] = "commit" /\ kind[r] = "login"
        /\ UNCHANGED <<ask, cookie>>
    BY <1>5 DEF Refuse, Enter, Goto
  <2> QED BY <2>1 DEF Shape, Busy, ask
<1>6. CASE Commit(r)
  <2>1. /\ pc[r] = "commit" /\ pc'[r] = "cookies" /\ UNCHANGED <<ask, name, session>>
        /\ cookie'[r] \in {cookie[r], session[r]}
    BY <1>6 DEF Commit, Goto
  <2> QED BY <2>1 DEF Shape, Busy, ask
<1>7. CASE SetCookie(r)
  <2>1. /\ pc[r] = "cookies" /\ UNCHANGED <<ask, name, cookie, session>>
        /\ \/ pc'[r] = "done"
           \/ pc'[r] = "unhash" /\ session[r] # None
    BY <1>7 DEF SetCookie, Answer, Goto
  <2> QED BY <2>1 DEF Shape, Busy, ask
<1>8. CASE Unhash(r) \/ Free(r)
  <2>1. /\ pc[r] \in {"unhash", "free"} /\ pc'[r] \in {"free", "done"}
        /\ UNCHANGED <<ask, name, cookie, session>>
    BY <1>8 DEF Unhash, Free, Answer, Goto
  <2> QED BY <2>1 DEF Shape, Busy, ask
<1> QED BY <1>1, <1>2, <1>3, <1>4, <1>5, <1>6, <1>7, <1>8 DEF Step

Shapes == TypeOK /\ \A r \in Request : Shape(r)

LEMMA InitShapes == Init => Shapes
<1> SUFFICES ASSUME Init PROVE \A r \in Request : Shape(r)
  BY InitType DEF Shapes
<1> QED BY DEF Init, Shape, Busy

\* The names and questions of the other requests do not change either.
LEMMA OthersAsk ==
    ASSUME TypeOK, NEW r \in Request,
           \/ Step(r)
           \/ \E b \in Browser, k \in Kind, u \in User \cup {None} : Arrive(r, b, k, u)
    PROVE  \A q \in Request \ {r} : UNCHANGED <<browser[q], kind[q], name[q]>>
<1> USE DEF TypeOK
<1>1. CASE Step(r)
  BY <1>1 DEF Step, Parse, Find, KeepOrDrop, ServePage, Refuse, Enter, Logout, Commit,
              SetCookie, Unhash, Free, ask
<1>2. CASE \E b \in Browser, k \in Kind, u \in User \cup {None} : Arrive(r, b, k, u)
  BY <1>2 DEF Arrive
<1> QED BY <1>1, <1>2

LEMMA ThreadShapes ==
    ASSUME Shapes, NEW r \in Request,
           \/ Step(r)
           \/ \E b \in Browser, k \in Kind, u \in User \cup {None} : Arrive(r, b, k, u)
    PROVE  Shapes' /\ ThreadsMove(r)
<1>1. TypeOK /\ Shape(r)
  BY DEF Shapes
<1>2. TypeOK' /\ ThreadsMove(r) /\ Shape(r)'
  BY <1>1, StepType, StepShape, ArriveType, ArriveShape
<1>3. \A q \in Request \ {r} : Shape(q)'
  BY <1>1, <1>2, OthersAsk DEF Shapes, Shape, ThreadsMove
<1> QED BY <1>2, <1>3 DEF Shapes

LEMMA NextShapes == Shapes /\ [Next]_vars => Shapes'
<1> SUFFICES ASSUME Shapes, [Next]_vars PROVE Shapes'
  OBVIOUS
<1>1. CASE UNCHANGED vars
  BY <1>1 DEF Shapes, TypeOK, Shape, vars, objects, ask, rest
<1>2. ASSUME NEW r \in Request,
             \/ Step(r)
             \/ \E b \in Browser, k \in Kind, u \in User \cup {None} : Arrive(r, b, k, u)
      PROVE  Shapes'
  BY <1>2, ThreadShapes
<1>4. ASSUME NEW r \in Request, Garbled(r) PROVE Shapes'
  <2>1. /\ TypeOK' /\ pc[r] = "idle" /\ pc'[r] \notin Busy /\ pc'[r] # "idle"
        /\ \A q \in Request \ {r} : UNCHANGED pc[q]
        /\ UNCHANGED <<ask, name, cookie, session>>
    BY <1>4, GarbledMoves DEF Shapes, ThreadsMove, Busy
  <2>2. ASSUME NEW q \in Request PROVE Shape(q)'
    <3>1. CASE q = r
      BY <2>1, <3>1 DEF Shape, Busy
    <3>2. CASE q # r
      BY <2>1, <3>2 DEF Shapes, Shape, ask
    <3> QED BY <3>1, <3>2
  <2> QED BY <2>1, <2>2 DEF Shapes
<1>3. CASE Restart
  <2>1. TypeOK'
    BY <1>3, RestartType DEF Shapes
  <2>2. /\ \A r \in Request : pc'[r] = IF pc[r] \in Busy THEN "dead" ELSE pc[r]
        /\ UNCHANGED <<ask, name, cookie, session>>
    BY <1>3 DEF Restart
  <2>3. ASSUME NEW r \in Request PROVE Shape(r)'
    <3>1. pc'[r] \notin Busy /\ (pc'[r] = "idle" => pc[r] = "idle")
      BY <2>2 DEF Busy, Shapes, TypeOK
    <3> QED BY <2>2, <3>1 DEF Shapes, Shape, Busy
  <2> QED BY <2>1, <2>3 DEF Shapes
<1> QED BY <1>1, <1>2, <1>3, <1>4 DEF Next

\* The state of the front end keeps its types, for any browsers and requests.
THEOREM SessionsTypes == Spec => []TypeOK
<1>1. Shapes => TypeOK
  BY DEF Shapes
<1> QED BY <1>1, InitShapes, NextShapes, PTL DEF Spec

-----------------------------------------------------------------------------
(* Sessions are not shared: as long as no logout overlaps another request   *)
(* of its browser, a session has one owner and only a logout removes it.    *)

\* Is session s in the jar of browser b, or in the hands of one of its requests?
Holds(b, s) ==
    \/ jar[b] = s
    \/ \E r \in Request : /\ pc[r] \in Busy /\ browser[r] = b
                          /\ s \in {cookie[r], session[r]}

\* Nobody knows an id before its session is made.
Unknown ==
    \A s \in Session : heap[s] = "unborn" =>
        /\ s \notin sessions
        /\ \A b \in Browser : jar[b] # s
        /\ \A r \in Request : cookie[r] # s /\ session[r] # s

\* A session that lives belongs to one browser.
Apart ==
    \A s \in Session, b, c \in Browser :
        heap[s] = "live" /\ Holds(b, s) /\ Holds(c, s) => b = c

\* A logout is alone in its browser.
LogoutsAlone ==
    \A q, r \in Request :
        (/\ pc[q] \in Busy /\ pc[r] \in Busy
         /\ browser[q] = browser[r] /\ kind[r] = "logout") => q = r

\* A thread's pointer leads to a session in the hash until a logout removes it.
Pointer(r) ==
    /\ pc[r] = "found" => cookie[r] \in sessions
    /\ pc[r] \in Busy \ {"free"} /\ session[r] # None => session[r] \in sessions
    /\ pc[r] = "free" => heap[session[r]] = "live" /\ session[r] \notin sessions
    /\ pc[r] \in {"unhash", "free"} => kind[r] = "logout"
    /\ pc[r] # "drop"

\* A session in the hash is valid, or the logout that has ended it will remove it.
Ending(s) ==
    \E r \in Request : /\ pc[r] \in {"commit", "cookies", "unhash"}
                       /\ kind[r] = "logout" /\ session[r] = s

SafeSessions ==
    /\ \A s \in sessions : heap[s] = "live" /\ (valid[s] \/ Ending(s))
    /\ Apart
    /\ LogoutsAlone
    /\ \A r \in Request : Pointer(r)
    /\ ~broken

Wild == \E r \in Request : pc[r] = "wild"

SessionsInv == Unknown /\ (mixed = {} /\ ~Wild => SafeSessions)

LEMMA InitSafe == Init => SessionsInv
<1> SUFFICES ASSUME Init PROVE SessionsInv
  OBVIOUS
<1>1. Unknown
  BY SessionsAssumption DEF Init, Unknown
<1>2. \A r \in Request : Pointer(r)
  BY DEF Init, Pointer, Busy
<1>3. LogoutsAlone /\ Apart
  BY DEF Init, LogoutsAlone, Apart, Busy
<1>4. ~broken /\ sessions = {}
  BY DEF Init
<1> QED BY <1>1, <1>2, <1>3, <1>4 DEF SessionsInv, SafeSessions

\* An id becomes known only when its session is made.
LEMMA UnknownKept ==
    ASSUME Shapes, Shapes', Unknown, NEW r \in Request, ThreadsMove(r),
           \A s \in Session : heap'[s] = "unborn" => heap[s] = "unborn",
           \A s \in sessions' : s \in sessions \/ s = session[r] \/ heap'[s] # "unborn",
           \A b \in Browser : jar'[b] \in {None, jar[b], cookie[r]},
           cookie'[r] \in {cookie[r], session[r]} \/ \E b \in Browser : cookie'[r] = jar[b],
           session'[r] \in {session[r], cookie[r]} \/ heap'[session'[r]] # "unborn"
    PROVE  Unknown'
<1> SUFFICES ASSUME NEW s \in Session, heap'[s] = "unborn"
             PROVE  /\ s \notin sessions'
                    /\ \A b \in Browser : jar'[b] # s
                    /\ \A q \in Request : cookie'[q] # s /\ session'[q] # s
  BY DEF Unknown
<1>1. /\ s \notin sessions /\ \A b \in Browser : jar[b] # s
      /\ \A q \in Request : cookie[q] # s /\ session[q] # s
  BY DEF Unknown
<1>2. s \notin sessions'
  BY <1>1
<1>3. \A b \in Browser : jar'[b] # s
  BY <1>1, SessionsAssumption
<1>4. cookie'[r] # s /\ session'[r] # s
  BY <1>1
<1> QED BY <1>1, <1>2, <1>3, <1>4 DEF ThreadsMove

\* A thread that only passes on what it holds.
LEMMA HoldsKept ==
    ASSUME Shapes, Shapes', NEW r \in Request, ThreadsMove(r), pc[r] \in Busy,
           \A q \in Request : UNCHANGED browser[q],
           \A b \in Browser : \/ jar'[b] \in {None, jar[b]}
                              \/ b = browser[r] /\ jar'[b] = cookie[r],
           {cookie'[r], session'[r]} \subseteq {cookie[r], session[r], None}
    PROVE  \A b \in Browser, s \in Session : Holds(b, s)' => Holds(b, s)
<1> SUFFICES ASSUME NEW b \in Browser, NEW s \in Session, Holds(b, s)'
             PROVE  Holds(b, s)
  OBVIOUS
<1>1. CASE jar'[b] = s
  BY <1>1, SessionsAssumption DEF Holds
<1>2. ASSUME NEW q \in Request, pc'[q] \in Busy, browser'[q] = b, s \in {cookie'[q], session'[q]}
      PROVE  Holds(b, s)
  <2>1. CASE q = r
    BY <1>2, <2>1, SessionsAssumption DEF Holds
  <2>2. CASE q # r
    BY <1>2, <2>2 DEF Holds, ThreadsMove
  <2> QED BY <2>1, <2>2
<1> QED BY <1>1, <1>2 DEF Holds

\* A step that removes and frees nothing.
LEMMA SafeKept ==
    ASSUME Shapes, Shapes', SafeSessions, NEW r \in Request, ThreadsMove(r), pc[r] \in Busy,
           \A q \in Request : UNCHANGED <<browser[q], kind[q]>>,
           UNCHANGED <<sessions, heap>>,
           \A b \in Browser, s \in Session : Holds(b, s)' => Holds(b, s),
           \A s \in sessions : valid[s] \/ Ending(s) => (valid[s] \/ Ending(s))',
           Pointer(r)',
           ~broken'
    PROVE  SafeSessions'
<1>1. \A s \in sessions : heap'[s] = "live" /\ (valid[s] \/ Ending(s))'
  BY DEF SafeSessions
<1>2. Apart'
  BY DEF SafeSessions, Apart
<1>3. LogoutsAlone'
  BY DEF SafeSessions, LogoutsAlone, ThreadsMove
<1>4. ASSUME NEW q \in Request PROVE Pointer(q)'
  <2>1. CASE q = r
    BY <2>1
  <2>2. CASE q # r
    BY <2>2 DEF SafeSessions, Pointer, ThreadsMove
  <2> QED BY <2>1, <2>2
<1> QED BY <1>1, <1>2, <1>3, <1>4 DEF SafeSessions

\* A logout goes on with the session it has ended.
LEMMA EndingKept ==
    ASSUME Shapes, NEW r \in Request, ThreadsMove(r), NEW s \in Session,
           \A q \in Request : UNCHANGED <<kind[q]>>,
           UNCHANGED valid,
           \/ pc'[r] \in {"commit", "cookies", "unhash"} /\ session'[r] = session[r]
           \/ pc[r] \notin {"commit", "cookies", "unhash"}
           \/ session[r] = None \/ valid[session[r]]
           \/ kind[r] # "logout",
           valid[s] \/ Ending(s)
    PROVE  (valid[s] \/ Ending(s))'
<1>1. CASE valid[s]
  BY <1>1
<1>2. ASSUME ~valid[s], NEW q \in Request, pc[q] \in {"commit", "cookies", "unhash"},
             kind[q] = "logout", session[q] = s
      PROVE  Ending(s)'
  <2>1. CASE q = r
    <3>1. session[r] # None
      BY <1>2, <2>1, SessionsAssumption
    <3> QED BY <1>2, <2>1, <3>1 DEF Ending
  <2>2. CASE q # r
    BY <1>2, <2>2 DEF Ending, ThreadsMove
  <2> QED BY <2>1, <2>2
<1> QED BY <1>1, <1>2 DEF Ending

\* What a thread points to is alive while no logout overlaps.
LEMMA PointerLive ==
    ASSUME Shapes, SafeSessions, NEW r \in Request, pc[r] \in Busy, session[r] # None
    PROVE  session[r] \in Session /\ heap[session[r]] = "live"
BY DEF SafeSessions, Pointer, Shapes, TypeOK

\* If the session of a request has been ended, the request is the logout.
LEMMA EndedByItself ==
    ASSUME Shapes, SafeSessions, NEW r \in Request, pc[r] \in Busy,
           NEW s \in sessions, s \in {cookie[r], session[r]}, ~valid[s]
    PROVE  /\ kind[r] = "logout" /\ session[r] = s
           /\ pc[r] \in {"commit", "cookies", "unhash"}
<1>1. s \in Session /\ heap[s] = "live" /\ Ending(s)
  BY DEF SafeSessions, Shapes, TypeOK
<1>2. PICK q \in Request : /\ pc[q] \in {"commit", "cookies", "unhash"}
                           /\ kind[q] = "logout" /\ session[q] = s
  BY <1>1 DEF Ending
<1>3. /\ pc[q] \in Busy /\ browser[q] \in Browser /\ browser[r] \in Browser
      /\ Holds(browser[q], s) /\ Holds(browser[r], s)
  BY <1>2 DEF Holds, Busy, Shapes, Shape
<1>4. browser[q] = browser[r]
  BY <1>1, <1>3 DEF SafeSessions, Apart
<1>5. q = r
  BY <1>2, <1>3, <1>4 DEF SafeSessions, LogoutsAlone
<1> QED BY <1>2, <1>5

LEMMA StepKinds ==
    ASSUME Shapes, NEW r \in Request, Step(r)
    PROVE  /\ Shapes' /\ ThreadsMove(r)
           /\ \A q \in Request : UNCHANGED <<browser[q], kind[q]>>
<1>1. UNCHANGED ask
  BY DEF Step, Parse, Find, KeepOrDrop, ServePage, Refuse, Enter, Logout, Commit,
         SetCookie, Unhash, Free
<1> QED BY <1>1, ThreadShapes DEF ask

\* The steps that take nothing out of the hash.
LEMMA QuietSafe ==
    ASSUME Shapes, SafeSessions, NEW r \in Request,
           \/ Parse(r) \/ Find(r) \/ KeepOrDrop(r) \/ ServePage(r) \/ Refuse(r)
           \/ Commit(r) \/ SetCookie(r)
    PROVE  SafeSessions'
<1>1. /\ Shapes' /\ ThreadsMove(r)
      /\ \A q \in Request : UNCHANGED <<browser[q], kind[q]>>
  BY StepKinds DEF Step
<1>2. pc[r] \in Busy /\ TypeOK /\ Shape(r) /\ Pointer(r)
  BY DEF Parse, Find, KeepOrDrop, ServePage, Refuse, Commit, SetCookie, Busy, Shapes, SafeSessions
<1>3. pc[r] # "found" \/ cookie[r] \in sessions
  BY <1>2 DEF Pointer
<1>4. UNCHANGED <<heap, valid>>
  BY <1>3 DEF Parse, Find, KeepOrDrop, ServePage, Refuse, Commit, SetCookie, objects
<1>5. UNCHANGED sessions
  <2>1. CASE KeepOrDrop(r)
    <3>1. pc[r] = "keep" /\ session[r] \in sessions
      BY <1>2, <2>1 DEF KeepOrDrop, Shape, Pointer, Busy
    <3> QED BY <2>1, <3>1 DEF KeepOrDrop
  <2>2. CASE ~KeepOrDrop(r)
    BY <2>2 DEF Parse, Find, ServePage, Refuse, Commit, SetCookie
  <2> QED BY <2>1, <2>2
<1>6. session[r] # None => heap[session[r]] = "live"
  BY <1>2, PointerLive
<1>7. cookie[r] \in sessions => cookie[r] # None /\ heap[cookie[r]] = "live"
  BY SessionsAssumption DEF SafeSessions, Shapes, TypeOK
<1>8. ~broken'
  <2>1. CASE Find(r)
    BY <1>3, <1>2, <1>7, <2>1, UseLive DEF Find, SafeSessions
  <2>2. CASE KeepOrDrop(r)
    BY <1>2, <2>2 DEF KeepOrDrop, Pointer, SafeSessions
  <2>3. CASE ServePage(r) \/ Commit(r) \/ SetCookie(r)
    BY <1>6, <2>3, UseLive DEF ServePage, Commit, SetCookie, SafeSessions
  <2>4. CASE Parse(r) \/ Refuse(r)
    BY <2>4 DEF Parse, Refuse, SafeSessions
  <2> QED BY <2>1, <2>2, <2>3, <2>4
<1>9. {cookie'[r], session'[r]} \subseteq {cookie[r], session[r], None}
  BY <1>2, <1>3 DEF Parse, Find, KeepOrDrop, ServePage, Refuse, Commit, SetCookie, TypeOK
<1>10. \A b \in Browser : \/ jar'[b] \in {None, jar[b]}
                          \/ b = browser[r] /\ jar'[b] = cookie[r]
  BY <1>2 DEF Parse, Find, KeepOrDrop, ServePage, Refuse, Commit, SetCookie, Answer, TypeOK
<1>11. \A b \in Browser, s \in Session : Holds(b, s)' => Holds(b, s)
  BY <1>1, <1>2, <1>9, <1>10, HoldsKept
<1>12. \/ pc'[r] \in {"commit", "cookies", "unhash"} /\ session'[r] = session[r]
       \/ pc[r] \notin {"commit", "cookies", "unhash"}
       \/ session[r] = None \/ valid[session[r]]
       \/ kind[r] # "logout"
  BY <1>2 DEF Parse, Find, KeepOrDrop, ServePage, Refuse, Commit, SetCookie, Goto, Answer,
              TypeOK, Shape, Busy
<1>13. \A s \in sessions : valid[s] \/ Ending(s) => (valid[s] \/ Ending(s))'
  BY <1>1, <1>2, <1>4, <1>12, EndingKept DEF TypeOK
<1>14. Pointer(r)'
  <2>1. CASE Parse(r)
    BY <1>2, <1>5, <2>1 DEF Parse, Goto, TypeOK, Pointer, Shape, Busy
  <2>2. CASE Find(r)
    <3>1. valid[cookie[r]]
      BY <1>2, <1>3, <2>2, EndedByItself DEF Find, Busy
    <3>2. pc'[r] = "keep" /\ session'[r] = cookie[r]
      BY <1>2, <1>3, <2>2, <3>1 DEF Find, Goto, TypeOK
    <3>3. session'[r] \in sessions'
      BY <1>2, <1>3, <1>5, <2>2, <3>2 DEF Find
    <3> QED BY <3>2, <3>3 DEF Pointer
  <2>3. CASE KeepOrDrop(r)
    BY <1>2, <1>5, <2>3 DEF KeepOrDrop, Goto, TypeOK, Pointer, Busy
  <2>4. CASE ServePage(r) \/ Refuse(r) \/ Commit(r)
    BY <1>2, <1>5, <2>4 DEF ServePage, Refuse, Commit, Goto, TypeOK, Pointer, Busy
  <2>5. CASE SetCookie(r)
    <3>1. pc'[r] = "done" \/ (pc'[r] = "unhash" /\ session[r] # None /\ ~valid[session[r]])
      BY <1>2, <2>5 DEF SetCookie, Answer, Goto, TypeOK
    <3>2. session'[r] = session[r] /\ kind'[r] = kind[r] /\ pc[r] = "cookies"
      BY <1>1, <2>5 DEF SetCookie
    <3>3. pc'[r] = "unhash" => kind[r] = "logout" /\ session[r] \in sessions
      BY <1>2, <3>1, <3>2, EndedByItself DEF Pointer, Busy
    <3> QED BY <1>5, <3>1, <3>2, <3>3 DEF Pointer, Busy
  <2> QED BY <2>1, <2>2, <2>3, <2>4, <2>5
<1> QED BY <1>1, <1>2, <1>4, <1>5, <1>8, <1>11, <1>13, <1>14, SafeKept

LEMMA LogoutSafe ==
    ASSUME Shapes, SafeSessions, NEW r \in Request, Logout(r)
    PROVE  SafeSessions'
<1>1. /\ Shapes' /\ ThreadsMove(r)
      /\ \A q \in Request : UNCHANGED <<browser[q], kind[q]>>
  BY StepKinds DEF Step
<1>2. /\ pc[r] = "serve" /\ kind[r] = "logout" /\ pc[r] \in Busy /\ TypeOK /\ Pointer(r)
      /\ UNCHANGED <<sessions, heap, jar, cookie, session>> /\ pc'[r] = "commit"
  BY DEF Logout, Goto, Busy, Shapes, TypeOK, SafeSessions
<1>3. \A b \in Browser, s \in Session : Holds(b, s)' => Holds(b, s)
  BY <1>1, <1>2, HoldsKept
<1>4. ~broken'
  BY <1>2, PointerLive, UseLive DEF Logout, SafeSessions
<1>5. ASSUME NEW s \in sessions, valid[s] \/ Ending(s) PROVE (valid[s] \/ Ending(s))'
  <2>1. CASE s = session[r]
    BY <1>1, <1>2, <2>1 DEF Ending
  <2>2. CASE s # session[r]
    <3>1. s \in Session /\ valid'[s] = valid[s]
      BY <1>2, <2>2 DEF Logout, TypeOK
    <3>2. CASE valid[s]
      BY <3>1, <3>2
    <3>3. CASE ~valid[s]
      <4>1. PICK q \in Request : /\ pc[q] \in {"commit", "cookies", "unhash"}
                                 /\ kind[q] = "logout" /\ session[q] = s
        BY <1>5, <3>3 DEF Ending
      <4>2. q # r
        BY <2>2, <4>1
      <4> QED BY <1>1, <4>1, <4>2 DEF Ending, ThreadsMove
    <3> QED BY <3>2, <3>3
  <2> QED BY <2>1, <2>2
<1>6. Pointer(r)'
  BY <1>2 DEF Pointer, Busy
<1> QED BY <1>1, <1>2, <1>3, <1>4, <1>5, <1>6, SafeKept

\* Who makes a session is the only one to hold it.
LEMMA CreateHolds ==
    ASSUME Shapes, Unknown, NEW r \in Request, ThreadsMove(r), pc[r] \in Busy,
           \A q \in Request : UNCHANGED browser[q],
           UNCHANGED <<jar, cookie>>, NEW s \in Session, heap[s] = "unborn", session'[r] = s
    PROVE  \A b \in Browser, t \in Session :
              Holds(b, t)' => IF t = s THEN b = browser[r] ELSE Holds(b, t)
<1> SUFFICES ASSUME NEW b \in Browser, NEW t \in Session, Holds(b, t)'
             PROVE  IF t = s THEN b = browser[r] ELSE Holds(b, t)
  OBVIOUS
<1>1. /\ \A c \in Browser : jar[c] # s
      /\ \A q \in Request : cookie[q] # s /\ session[q] # s
  BY DEF Unknown
<1>2. CASE jar'[b] = t
  BY <1>1, <1>2 DEF Holds
<1>3. ASSUME NEW q \in Request, pc'[q] \in Busy, browser'[q] = b, t \in {cookie'[q], session'[q]}
      PROVE  IF t = s THEN b = browser[r] ELSE Holds(b, t)
  <2>1. CASE q = r
    BY <1>1, <1>3, <2>1 DEF Holds
  <2>2. CASE q # r
    BY <1>1, <1>3, <2>2 DEF Holds, ThreadsMove
  <2> QED BY <2>1, <2>2
<1> QED BY <1>2, <1>3 DEF Holds

LEMMA EnterSafe ==
    ASSUME Shapes, Unknown, SafeSessions, NEW r \in Request, Enter(r)
    PROVE  SafeSessions'
<1>1. /\ Shapes' /\ ThreadsMove(r)
      /\ \A q \in Request : UNCHANGED <<browser[q], kind[q]>>
  BY StepKinds DEF Step
<1>2. /\ pc[r] = "serve" /\ kind[r] = "login" /\ pc[r] \in Busy /\ TypeOK /\ Pointer(r)
      /\ UNCHANGED <<jar, cookie>> /\ pc'[r] = "commit" /\ browser[r] \in Browser
  BY DEF Enter, Goto, Busy, Shapes, Shape, TypeOK, SafeSessions
<1>3. PICK s \in Session : Create(r, s) \/ Reuse(r, s)
  BY DEF Enter
<1>4. CASE Reuse(r, s)
  <2>1. /\ session[r] = s /\ s # None /\ heap[s] = "live"
        /\ UNCHANGED <<heap, valid, sessions, session>>
    BY <1>2, <1>4, PointerLive, SessionsAssumption DEF Reuse
  <2>2. ~broken'
    BY <1>4, <2>1, UseLive DEF Reuse, SafeSessions
  <2>3. \A b \in Browser, t \in Session : Holds(b, t)' => Holds(b, t)
    BY <1>1, <1>2, <2>1, HoldsKept
  <2>4. \A t \in sessions : valid[t] \/ Ending(t) => (valid[t] \/ Ending(t))'
    BY <1>1, <1>2, <2>1, EndingKept DEF TypeOK
  <2>5. Pointer(r)'
    BY <1>2, <2>1 DEF Pointer, Busy
  <2> QED BY <1>1, <1>2, <2>1, <2>2, <2>3, <2>4, <2>5, SafeKept
<1>5. CASE Create(r, s)
  <2>1. /\ heap[s] = "unborn" /\ s \notin sessions /\ session[r] = None
        /\ heap' = [heap EXCEPT ![s] = "live"] /\ sessions' = sessions \cup {s}
        /\ session'[r] = s /\ valid'[s] /\ ~broken'
        /\ \A t \in Session \ {s} : valid'[t] = valid[t] /\ heap'[t] = heap[t]
    BY <1>2, <1>5 DEF Create, Unknown, TypeOK, SafeSessions
  <2>2. /\ \A b \in Browser : jar[b] # s
        /\ \A q \in Request : cookie[q] # s /\ session[q] # s
    BY <2>1 DEF Unknown
  <2>3. ASSUME NEW t \in sessions' PROVE heap'[t] = "live" /\ (valid[t] \/ Ending(t))'
    <3>1. CASE t = s
      BY <1>2, <2>1, <3>1 DEF TypeOK
    <3>2. CASE t # s
      <4>1. t \in sessions /\ heap'[t] = "live" /\ valid'[t] = valid[t]
        BY <1>2, <2>1, <2>3, <3>2 DEF SafeSessions, TypeOK
      <4>2. CASE valid[t]
        BY <4>1, <4>2
      <4>3. CASE ~valid[t]
        <5>1. PICK q \in Request : /\ pc[q] \in {"commit", "cookies", "unhash"}
                                   /\ kind[q] = "logout" /\ session[q] = t
          BY <4>1, <4>3 DEF SafeSessions, Ending
        <5>2. q # r
          BY <1>2, <5>1
        <5> QED BY <1>1, <4>1, <5>1, <5>2 DEF Ending, ThreadsMove
      <4> QED BY <4>2, <4>3
    <3> QED BY <3>1, <3>2
  <2>4. \A b \in Browser, t \in Session :
           Holds(b, t)' => IF t = s THEN b = browser[r] ELSE Holds(b, t)
    BY <1>1, <1>2, <2>1, CreateHolds
  <2>5. Apart'
    <3> SUFFICES ASSUME NEW t \in Session, NEW b \in Browser, NEW c \in Browser,
                        heap'[t] = "live", Holds(b, t)', Holds(c, t)'
                 PROVE  b = c
      BY DEF Apart
    <3>1. CASE t = s
      BY <2>4, <3>1
    <3>2. CASE t # s
      <4>1. heap[t] = "live" /\ Holds(b, t) /\ Holds(c, t)
        BY <2>1, <2>4, <3>2
      <4> QED BY <4>1 DEF SafeSessions, Apart
    <3> QED BY <3>1, <3>2
  <2>6. LogoutsAlone'
    BY <1>1, <1>2 DEF SafeSessions, LogoutsAlone, ThreadsMove
  <2>7. ASSUME NEW q \in Request PROVE Pointer(q)'
    <3>1. CASE q = r
      BY <1>2, <2>1, <3>1 DEF Pointer, Busy
    <3>2. CASE q # r
      <4>1. /\ Pointer(q) /\ UNCHANGED <<pc[q], cookie[q], session[q], kind[q]>>
            /\ session[q] # s
        BY <1>1, <2>2, <3>2 DEF SafeSessions, ThreadsMove
      <4>2. pc[q] = "free" => session[q] \in Session
        BY DEF Shapes, Shape, TypeOK
      <4> QED BY <2>1, <4>1, <4>2 DEF Pointer
    <3> QED BY <3>1, <3>2
  <2> QED BY <2>1, <2>3, <2>5, <2>6, <2>7 DEF SafeSessions
<1> QED BY <1>3, <1>4, <1>5

\* Nobody else holds what a logout holds.
LEMMA LogoutHoldsAlone ==
    ASSUME Shapes, SafeSessions, NEW r \in Request, pc[r] \in Busy, kind[r] = "logout",
           NEW s \in Session, heap[s] = "live", s \in {cookie[r], session[r]},
           NEW q \in Request \ {r}, pc[q] \in Busy
    PROVE  cookie[q] # s /\ session[q] # s
<1>1. browser[q] \in Browser /\ browser[r] \in Browser /\ Holds(browser[r], s)
  BY DEF Shapes, Shape, Holds
<1>2. cookie[q] = s \/ session[q] = s => Holds(browser[q], s)
  BY DEF Holds
<1>3. browser[q] # browser[r]
  BY DEF SafeSessions, LogoutsAlone
<1> QED BY <1>1, <1>2, <1>3 DEF SafeSessions, Apart

\* A logout removes its session from the hash and frees it.
LEMMA RemoveSafe ==
    ASSUME Shapes, SafeSessions, NEW r \in Request, Unhash(r) \/ Free(r)
    PROVE  SafeSessions'
<1> DEFINE s == session[r]
<1>1. /\ Shapes' /\ ThreadsMove(r)
      /\ \A q \in Request : UNCHANGED <<browser[q], kind[q]>>
  BY StepKinds DEF Step
<1>2. /\ pc[r] \in {"unhash", "free"} /\ pc[r] \in Busy /\ kind[r] = "logout"
      /\ TypeOK /\ Pointer(r) /\ s \in Session
      /\ UNCHANGED <<valid, cookie, session>>
  BY DEF Unhash, Free, Busy, Shapes, Shape, TypeOK, SafeSessions, Pointer, objects
<1>3. heap[s] = "live"
  <2>1. s # None /\ (s \in sessions => heap[s] = "live")
    BY <1>2, SessionsAssumption DEF SafeSessions
  <2>2. CASE pc[r] = "unhash"
    BY <1>2, <2>1, <2>2 DEF Pointer
  <2>3. CASE pc[r] = "free"
    BY <1>2, <2>3 DEF Pointer
  <2> QED BY <1>2, <2>2, <2>3
<1>4. sessions' = sessions \ {s} /\ \A t \in Session \ {s} : heap'[t] = heap[t]
  BY <1>2 DEF Unhash, Free, Pointer, objects, TypeOK
<1>5. \A b \in Browser : jar'[b] \in {None, jar[b]}
  BY <1>2 DEF Unhash, Free, Answer, TypeOK
<1>6. \A b \in Browser, t \in Session : Holds(b, t)' => Holds(b, t)
  BY <1>1, <1>2, <1>5, HoldsKept
<1>7. \A t \in Session : heap'[t] = "live" => heap[t] = "live"
  BY <1>3, <1>4
<1>8. Apart'
  BY <1>6, <1>7 DEF SafeSessions, Apart
<1>9. LogoutsAlone'
  BY <1>1, <1>2 DEF SafeSessions, LogoutsAlone, ThreadsMove
<1>10. ~broken'
  <2>1. CASE Unhash(r)
    BY <2>1 DEF Unhash, SafeSessions
  <2>2. CASE Free(r)
    BY <1>2, <1>3, <2>2, UseLive, SessionsAssumption DEF Free, SafeSessions
  <2> QED BY <2>1, <2>2
<1>11. ASSUME NEW t \in sessions' PROVE heap'[t] = "live" /\ (valid[t] \/ Ending(t))'
  <2>1. t \in sessions /\ t # s /\ t \in Session /\ heap'[t] = "live" /\ valid'[t] = valid[t]
    BY <1>2, <1>4, <1>11 DEF SafeSessions, TypeOK
  <2>2. CASE valid[t]
    BY <2>1, <2>2
  <2>3. CASE ~valid[t]
    <3>1. PICK q \in Request : /\ pc[q] \in {"commit", "cookies", "unhash"}
                               /\ kind[q] = "logout" /\ session[q] = t
      BY <2>1, <2>3 DEF SafeSessions, Ending
    <3>2. q # r
      BY <2>1, <3>1
    <3> QED BY <1>1, <2>1, <3>1, <3>2 DEF Ending, ThreadsMove
  <2> QED BY <2>2, <2>3
<1>12. ASSUME NEW q \in Request PROVE Pointer(q)'
  <2>1. CASE q = r /\ Unhash(r)
    <3>1. pc'[r] = "free" \/ pc'[r] = "done"
      BY <1>2, <2>1 DEF Unhash, Goto, Answer, TypeOK
    <3>2. UNCHANGED <<heap, session>>
      BY <2>1 DEF Unhash, objects
    <3> QED BY <1>1, <1>2, <1>3, <1>4, <2>1, <3>1, <3>2 DEF Pointer, Busy
  <2>2. CASE q = r /\ Free(r)
    <3>1. pc'[r] = "done"
      BY <1>2, <2>2 DEF Free, Goto, Answer, TypeOK
    <3> QED BY <2>2, <3>1 DEF Pointer, Busy
  <2>3. CASE q # r /\ pc[q] \in Busy
    <3>1. cookie[q] # s /\ session[q] # s
      BY <1>2, <1>3, <2>3, LogoutHoldsAlone
    <3>2. Pointer(q) /\ UNCHANGED <<pc[q], cookie[q], session[q], kind[q]>>
      BY <1>1, <2>3 DEF SafeSessions, ThreadsMove
    <3>3. pc[q] = "free" => session[q] \in Session \ {s}
      BY <3>1 DEF Shapes, Shape, TypeOK
    <3> QED BY <1>4, <3>1, <3>2, <3>3 DEF Pointer
  <2>4. CASE q # r /\ pc[q] \notin Busy
    <3>1. pc'[q] \notin Busy /\ pc'[q] = pc[q]
      BY <1>1, <2>4 DEF ThreadsMove
    <3> QED BY <3>1 DEF Pointer, Busy
  <2> QED BY <2>1, <2>2, <2>3, <2>4
<1> QED BY <1>8, <1>9, <1>10, <1>11, <1>12 DEF SafeSessions

\* A new request brings the cookie of its browser, and no logout overlaps.
LEMMA ArriveSafe ==
    ASSUME Shapes, SafeSessions, NEW r \in Request, NEW b \in Browser, NEW k \in Kind,
           NEW u \in User \cup {None}, Arrive(r, b, k, u), mixed' = {}
    PROVE  SafeSessions'
<1>1. Shapes' /\ ThreadsMove(r) /\ \A q \in Request \ {r} : UNCHANGED <<browser[q], kind[q]>>
  BY ThreadShapes, OthersAsk DEF Shapes
<1>2. /\ pc'[r] = "parse" /\ browser'[r] = b /\ kind'[r] = k /\ pc[r] = "idle"
      /\ UNCHANGED <<sessions, heap, valid, jar, session, broken>>
      /\ cookie'[r] \in {jar[b], cookie[r]} /\ cookie[r] = None /\ session[r] = None
      /\ ~Mixes(b, k)
  BY DEF Arrive, Goto, Shapes, Shape, TypeOK, objects
<1>3. ASSUME NEW c \in Browser, NEW s \in Session, Holds(c, s)' PROVE Holds(c, s)
  <2>1. CASE jar'[c] = s
    BY <1>2, <2>1 DEF Holds
  <2>2. ASSUME NEW q \in Request, pc'[q] \in Busy, browser'[q] = c, s \in {cookie'[q], session'[q]}
        PROVE  Holds(c, s)
    <3>1. CASE q = r
      BY <1>2, <2>2, <3>1, SessionsAssumption DEF Holds
    <3>2. CASE q # r
      BY <1>1, <2>2, <3>2 DEF Holds, ThreadsMove
    <3> QED BY <3>1, <3>2
  <2> QED BY <1>3, <2>1, <2>2 DEF Holds
<1>4. Apart'
  BY <1>2, <1>3 DEF SafeSessions, Apart
<1>5. LogoutsAlone'
  <2>1. \A q \in Request \ {r} : pc[q] \in Busy /\ browser[q] = b =>
           k # "logout" /\ kind[q] # "logout"
    BY <1>2 DEF Mixes
  <2> QED BY <1>1, <1>2, <2>1 DEF SafeSessions, LogoutsAlone, ThreadsMove
<1>6. ASSUME NEW s \in sessions' PROVE heap'[s] = "live" /\ (valid[s] \/ Ending(s))'
  <2>1. s \in sessions /\ heap[s] = "live" /\ (valid[s] \/ Ending(s))
    BY <1>2, <1>6 DEF SafeSessions
  <2>2. Ending(s) => Ending(s)'
    BY <1>1, <1>2 DEF Ending, ThreadsMove
  <2> QED BY <1>2, <2>1, <2>2
<1>7. ASSUME NEW q \in Request PROVE Pointer(q)'
  <2>1. CASE q = r
    BY <1>2, <2>1 DEF Pointer
  <2>2. CASE q # r
    BY <1>1, <1>2, <2>2 DEF SafeSessions, Pointer, ThreadsMove
  <2> QED BY <2>1, <2>2
<1> QED BY <1>2, <1>4, <1>5, <1>6, <1>7 DEF SafeSessions

LEMMA RestartSafe ==
    ASSUME Shapes, Restart, ~broken
    PROVE  SafeSessions'
<1>1. /\ \A q \in Request : pc'[q] \notin Busy
      /\ sessions' = {} /\ broken' = broken
      /\ \A s \in Session : heap'[s] # "live"
  BY DEF Restart, Shapes, TypeOK, Busy
<1>2. \A q \in Request : Pointer(q)'
  BY <1>1 DEF Pointer, Busy
<1>3. Apart' /\ LogoutsAlone'
  BY <1>1 DEF Apart, LogoutsAlone
<1> QED BY <1>1, <1>2, <1>3 DEF SafeSessions

-----------------------------------------------------------------------------
(* The steps together.                                                     *)

LEMMA StepUnknown ==
    ASSUME Shapes, Unknown, NEW r \in Request, Step(r)
    PROVE  Unknown'
<1>1. Shapes' /\ ThreadsMove(r) /\ TypeOK /\ Shape(r)
  BY StepKinds DEF Shapes
<1>2. CASE Enter(r)
  <2>1. PICK s \in Session : Create(r, s) \/ Reuse(r, s)
    BY <1>2 DEF Enter
  <2>2. UNCHANGED <<jar, cookie>>
    BY <1>2 DEF Enter
  <2>3. CASE Create(r, s)
    <3>1. /\ heap'[s] = "live" /\ \A t \in Session \ {s} : heap'[t] = heap[t]
          /\ sessions' = sessions \cup {s} /\ session'[r] = s
      BY <1>1, <2>3 DEF Create, TypeOK
    <3> QED BY <1>1, <2>2, <3>1, UnknownKept
  <2>4. CASE Reuse(r, s)
    BY <1>1, <2>2, <2>4, UnknownKept DEF Reuse
  <2> QED BY <2>1, <2>3, <2>4
<1>3. CASE ~Enter(r)
  <2>1. \A s \in Session : heap'[s] = "unborn" => heap[s] = "unborn"
    BY <1>1, <1>3 DEF Step, Parse, Find, KeepOrDrop, ServePage, Refuse, Logout, Commit,
                      SetCookie, Unhash, Free, objects, TypeOK
  <2>2. \A s \in sessions' : s \in sessions \/ s = session[r]
    BY <1>1, <1>3 DEF Step, Parse, Find, KeepOrDrop, ServePage, Refuse, Logout, Commit,
                      SetCookie, Unhash, Free
  <2>3. \A b \in Browser : jar'[b] \in {None, jar[b], cookie[r]}
    BY <1>1, <1>3 DEF Step, Parse, Find, KeepOrDrop, ServePage, Refuse, Logout, Commit,
                      SetCookie, Unhash, Free, Answer, TypeOK
  <2>4. cookie'[r] \in {cookie[r], session[r]} /\ session'[r] \in {session[r], cookie[r]}
    BY <1>1, <1>3 DEF Step, Parse, Find, KeepOrDrop, ServePage, Refuse, Logout, Commit,
                      SetCookie, Unhash, Free, TypeOK
  <2> QED BY <1>1, <2>1, <2>2, <2>3, <2>4, UnknownKept
<1> QED BY <1>2, <1>3

LEMMA ArriveUnknown ==
    ASSUME Shapes, Unknown, NEW r \in Request, NEW b \in Browser, NEW k \in Kind,
           NEW u \in User \cup {None}, Arrive(r, b, k, u)
    PROVE  Unknown'
<1>1. Shapes' /\ ThreadsMove(r) /\ TypeOK
  BY ThreadShapes DEF Shapes
<1>2. /\ cookie'[r] \in {jar[b], cookie[r]}
      /\ UNCHANGED <<sessions, heap, jar, session>>
  BY <1>1 DEF Arrive, objects, TypeOK
<1> QED BY <1>1, <1>2, UnknownKept

LEMMA StepSafe ==
    ASSUME Shapes, Unknown, SafeSessions, NEW r \in Request, Step(r)
    PROVE  SafeSessions'
BY QuietSafe, LogoutSafe, EnterSafe, RemoveSafe DEF Step

LEMMA NextSafe == Shapes /\ SessionsInv /\ [Next]_vars => SessionsInv'
<1> SUFFICES ASSUME Shapes, SessionsInv, [Next]_vars PROVE SessionsInv'
  OBVIOUS
<1>1. Unknown /\ (mixed = {} /\ ~Wild => SafeSessions)
  BY DEF SessionsInv
<1>2. CASE UNCHANGED vars
  <2>1. Unknown' = Unknown
    BY <1>2 DEF vars, objects, Unknown
  <2>2. SafeSessions' = SafeSessions /\ mixed' = mixed /\ Wild' = Wild
    BY <1>2 DEF vars, objects, ask, rest, SafeSessions, Apart, LogoutsAlone, Pointer, Holds, Ending,
                Wild
  <2> QED BY <1>1, <2>1, <2>2 DEF SessionsInv
<1>3. ASSUME NEW r \in Request, NEW b \in Browser, NEW k \in Kind,
             NEW u \in User \cup {None}, Arrive(r, b, k, u)
      PROVE  SessionsInv'
  <2>1. (mixed' = {} => mixed = {}) /\ (Wild => Wild')
    <3>1. ThreadsMove(r) /\ pc[r] # "wild"
      BY <1>3, ThreadShapes DEF Arrive
    <3> QED BY <1>3, <3>1 DEF Arrive, Wild, ThreadsMove
  <2> QED BY <1>1, <1>3, <2>1, ArriveUnknown, ArriveSafe DEF SessionsInv
<1>4. ASSUME NEW r \in Request, Step(r) PROVE SessionsInv'
  <2>1. mixed' = mixed /\ (Wild => Wild')
    <3>1. ThreadsMove(r)
      BY <1>4, StepKinds
    <3>2. mixed' = mixed /\ pc[r] # "wild"
      BY <1>4 DEF Step, Parse, Find, KeepOrDrop, ServePage, Refuse, Enter, Logout, Commit,
                  SetCookie, Unhash, Free, rest
    <3> QED BY <3>1, <3>2 DEF Wild, ThreadsMove
  <2> QED BY <1>1, <1>4, <2>1, StepUnknown, StepSafe DEF SessionsInv
<1>6. ASSUME NEW r \in Request, Garbled(r) PROVE SessionsInv'
  <2>1. /\ ThreadsMove(r) /\ pc[r] = "idle" /\ pc'[r] \in {"done", "wild"}
        /\ pc'[r] # "wild" => UNCHANGED broken
        /\ UNCHANGED <<sessions, heap, valid, jar, cookie, session, browser, kind, mixed>>
    BY <1>6, GarbledMoves DEF Shapes, objects, ask, rest
  <2>2. Unknown'
    BY <1>1, <2>1 DEF Unknown
  <2>3. SUFFICES ASSUME mixed = {}, ~Wild' PROVE SafeSessions'
    BY <2>1, <2>2 DEF SessionsInv
  <2>4. ~Wild /\ SafeSessions /\ ~broken'
    <3>1. pc'[r] # "wild"
      BY <2>3 DEF Wild
    <3>2. ~Wild
      BY <2>1, <2>3 DEF Wild, ThreadsMove
    <3> QED BY <1>1, <2>1, <2>3, <3>1, <3>2 DEF SafeSessions
  <2>5. \A q \in Request :
           /\ pc'[q] \in Busy <=> pc[q] \in Busy
           /\ pc'[q] \in Busy \/ pc[q] \in Busy => pc'[q] = pc[q]
    BY <2>1 DEF ThreadsMove, Busy
  <2>6. \A b \in Browser, s \in Session : Holds(b, s)' => Holds(b, s)
    BY <2>1, <2>5 DEF Holds
  <2>7. Apart' /\ LogoutsAlone'
    BY <2>1, <2>4, <2>5, <2>6 DEF SafeSessions, Apart, LogoutsAlone
  <2>8. \A q \in Request : Pointer(q)'
    BY <2>1, <2>4, <2>5 DEF SafeSessions, Pointer, Busy
  <2>9. \A s \in sessions : Ending(s) => Ending(s)'
    BY <2>1, <2>5 DEF Ending, Busy
  <2> QED BY <2>1, <2>4, <2>7, <2>8, <2>9 DEF SafeSessions
<1>5. CASE Restart /\ ~broken
  <2>1. \A s \in Session : heap'[s] = "unborn" => heap[s] = "unborn"
    BY <1>5 DEF Restart, Shapes, TypeOK
  <2>2. sessions' = {} /\ UNCHANGED <<jar, cookie, session>>
    BY <1>5 DEF Restart
  <2>3. Unknown'
    BY <1>1, <2>1, <2>2 DEF Unknown
  <2> QED BY <1>5, <2>3, RestartSafe DEF SessionsInv
<1> QED BY <1>2, <1>3, <1>4, <1>5, <1>6 DEF Next

\* For any number of requests at once: while no logout has overlapped another
\* request of its browser, no thread uses a session that another has deleted.
THEOREM NothingFreed == Spec => []NothingFreedIsUsed
<1>1. Init => Shapes /\ SessionsInv
  BY InitShapes, InitSafe
<1>2. (Shapes /\ SessionsInv) /\ [Next]_vars => (Shapes /\ SessionsInv)'
  BY NextShapes, NextSafe
<1>3. SessionsInv => NothingFreedIsUsed
  BY DEF SessionsInv, SafeSessions, NothingFreedIsUsed, Wild
<1> QED BY <1>1, <1>2, <1>3, PTL DEF Spec

-----------------------------------------------------------------------------
(* Whom a browser acts for.  This holds of each browser without an overlapped *)
(* logout, whatever the others do.                                         *)

OneHolder == \A s \in Session, b, c \in Browser : Holds(b, s) /\ Holds(c, s) => b = c

\* Can a request still find session s, or has one found it?
Known(s) == s \in sessions \/ \E r \in Request : pc[r] \in Busy /\ session[r] = s

LogoutAlone ==
    \A q, r \in Request :
        (/\ pc[q] \in Busy /\ pc[r] \in Busy /\ kind[r] = "logout"
         /\ browser[q] = browser[r] /\ browser[r] \notin mixed) => q = r

LogoutCookie ==
    \A r \in Request :
        (pc[r] \in Busy /\ kind[r] = "logout" /\ browser[r] \notin mixed)
        => cookie[r] \in {None, jar[browser[r]]}

NamedIsEntered ==
    \A b \in Browser \ mixed, s \in Session :
        Holds(b, s) /\ Known(s) /\ valid[s] /\ username[s] # None => username[s] \in entered[b]

Owned   == Unknown /\ OneHolder /\ LogoutAlone /\ LogoutCookie
ActsInv == Owned /\ NamedIsEntered

LEMMA InitActs == Init => ActsInv
<1> SUFFICES ASSUME Init PROVE ActsInv
  OBVIOUS
<1>1. Unknown
  BY InitSafe DEF SessionsInv
<1>2. OneHolder /\ LogoutAlone /\ LogoutCookie /\ NamedIsEntered
  BY SessionsAssumption DEF Init, OneHolder, Holds, LogoutAlone, LogoutCookie, NamedIsEntered, Busy
<1> QED BY <1>1, <1>2 DEF ActsInv, Owned

\* A step of a thread that leaves its request and the cookie of its browser as
\* they are until it ends.
LEMMA OwnedKept ==
    ASSUME Shapes, Unknown', Owned, NEW r \in Request, ThreadsMove(r), pc[r] \in Busy,
           \A q \in Request : UNCHANGED <<browser[q], kind[q]>>,
           UNCHANGED mixed, OneHolder',
           \A b \in Browser \ {browser[r]} : UNCHANGED jar[b],
           pc'[r] \in Busy /\ kind[r] = "logout" => cookie'[r] = cookie[r] /\ UNCHANGED jar
    PROVE  Owned'
<1>1. LogoutAlone'
  BY DEF Owned, LogoutAlone, ThreadsMove
<1>2. LogoutCookie'
  <2> SUFFICES ASSUME NEW q \in Request, pc'[q] \in Busy, kind'[q] = "logout",
                      browser'[q] \notin mixed'
               PROVE  cookie'[q] \in {None, jar'[browser'[q]]}
    BY DEF LogoutCookie
  <2>1. kind[q] = "logout" /\ browser'[q] = browser[q] /\ browser[q] \notin mixed
    OBVIOUS
  <2>2. CASE q = r
    BY <2>1, <2>2 DEF Owned, LogoutCookie
  <2>3. CASE q # r
    <3>1. pc[q] \in Busy /\ cookie'[q] = cookie[q] /\ browser[q] \in Browser
      BY <2>3 DEF ThreadsMove, Shapes, Shape
    <3>2. browser[q] # browser[r]
      BY <2>1, <2>3, <3>1 DEF Owned, LogoutAlone
    <3> QED BY <2>1, <3>1, <3>2 DEF Owned, LogoutCookie
  <2> QED BY <2>2, <2>3
<1> QED BY <1>1, <1>2 DEF Owned

LEMMA QuietActs ==
    ASSUME Shapes, ActsInv, NEW r \in Request,
           \/ Parse(r) \/ Find(r) \/ KeepOrDrop(r) \/ ServePage(r) \/ Refuse(r)
           \/ Commit(r) \/ SetCookie(r) \/ Unhash(r) \/ Free(r)
    PROVE  ActsInv'
<1>1. /\ Shapes' /\ ThreadsMove(r) /\ Unknown'
      /\ \A q \in Request : UNCHANGED <<browser[q], kind[q]>>
  BY StepKinds, StepUnknown DEF Step, ActsInv, Owned
<1>2. pc[r] \in Busy /\ TypeOK /\ Shape(r)
  BY DEF Parse, Find, KeepOrDrop, ServePage, Refuse, Commit, SetCookie, Unhash, Free, Busy, Shapes
<1>3. UNCHANGED <<valid, username, entered, mixed>>
  BY DEF Parse, Find, KeepOrDrop, ServePage, Refuse, Commit, SetCookie, Unhash, Free, objects, rest
<1>4. /\ {cookie'[r], session'[r]} \subseteq {cookie[r], session[r], None}
      /\ session'[r] = session[r] \/ session'[r] \in sessions
  BY <1>2 DEF Parse, Find, KeepOrDrop, ServePage, Refuse, Commit, SetCookie, Unhash, Free, TypeOK
<1>5. \A b \in Browser : \/ jar'[b] \in {None, jar[b]}
                         \/ b = browser[r] /\ jar'[b] = cookie[r]
  BY <1>2 DEF Parse, Find, KeepOrDrop, ServePage, Refuse, Commit, SetCookie, Unhash, Free,
              Answer, TypeOK
<1>6. \A b \in Browser, s \in Session : Holds(b, s)' => Holds(b, s)
  BY <1>1, <1>2, <1>4, <1>5, HoldsKept
<1>7. OneHolder'
  BY <1>6 DEF ActsInv, Owned, OneHolder
<1>8. \A b \in Browser \ {browser[r]} : UNCHANGED jar[b]
  BY <1>2 DEF Parse, Find, KeepOrDrop, ServePage, Refuse, Commit, SetCookie, Unhash, Free,
              Answer, TypeOK
<1>9. pc'[r] \in Busy => UNCHANGED jar
  BY <1>2 DEF Parse, Find, KeepOrDrop, ServePage, Refuse, Commit, SetCookie, Unhash, Free,
              Answer, Goto, TypeOK, Busy
<1>10. kind[r] = "logout" => cookie'[r] = cookie[r]
  BY <1>2 DEF Parse, Find, KeepOrDrop, ServePage, Refuse, Commit, SetCookie, Unhash, Free,
              TypeOK, Shape
<1>11. Owned'
  BY <1>1, <1>2, <1>3, <1>7, <1>8, <1>9, <1>10, OwnedKept DEF ActsInv
<1>12. \A s \in sessions' : s \in sessions \/ s = session[r]
  BY DEF Parse, Find, KeepOrDrop, ServePage, Refuse, Commit, SetCookie, Unhash, Free
<1>13. ASSUME NEW s \in Session, Known(s)' PROVE Known(s)
  <2>1. CASE s \in sessions'
    BY <1>2, <1>12, <2>1 DEF Known
  <2>2. ASSUME NEW q \in Request, pc'[q] \in Busy, session'[q] = s PROVE Known(s)
    BY <1>1, <1>2, <1>4, <2>2 DEF Known, ThreadsMove
  <2> QED BY <1>13, <2>1, <2>2 DEF Known
<1>14. NamedIsEntered'
  BY <1>3, <1>6, <1>13 DEF ActsInv, NamedIsEntered
<1> QED BY <1>11, <1>14 DEF ActsInv

\* A logout ends the only session that its browser holds.
LEMMA LogoutActs ==
    ASSUME Shapes, ActsInv, NEW r \in Request, Logout(r)
    PROVE  ActsInv'
<1>1. /\ Shapes' /\ ThreadsMove(r) /\ Unknown'
      /\ \A q \in Request : UNCHANGED <<browser[q], kind[q]>>
  BY StepKinds, StepUnknown DEF Step, ActsInv, Owned
<1>2. /\ pc[r] \in Busy /\ kind[r] = "logout" /\ TypeOK /\ Shape(r) /\ browser[r] \in Browser
      /\ UNCHANGED <<sessions, jar, cookie, session, mixed, username>>
  BY DEF Logout, Busy, Shapes, Shape
<1>3. \A b \in Browser, s \in Session : Holds(b, s)' => Holds(b, s)
  BY <1>1, <1>2, HoldsKept
<1>4. OneHolder'
  BY <1>3 DEF ActsInv, Owned, OneHolder
<1>5. Owned'
  BY <1>1, <1>2, <1>4, OwnedKept DEF ActsInv
<1>6. \A s \in Session : Known(s)' => Known(s)
  BY <1>1, <1>2 DEF Known, ThreadsMove
<1>7. ASSUME NEW b \in Browser \ mixed, NEW s \in Session, Holds(b, s), Known(s),
             valid'[s], username[s] # None
      PROVE  username[s] \in entered'[b]
  <2>1. CASE b # browser[r] \/ session[r] = None
    <3>1. valid[s] /\ entered'[b] = entered[b]
      BY <1>2, <1>7, <2>1 DEF Logout, TypeOK
    <3> QED BY <1>7, <3>1 DEF ActsInv, NamedIsEntered
  <2>2. CASE b = browser[r] /\ session[r] # None
    <3>1. cookie[r] = session[r] /\ jar[b] = session[r]
      BY <1>2, <2>2 DEF Shape, ActsInv, Owned, LogoutCookie
    <3>2. \A q \in Request : pc[q] \in Busy /\ browser[q] = b => q = r
      BY <1>2, <2>2 DEF ActsInv, Owned, LogoutAlone
    <3>3. s = session[r]
      BY <1>7, <3>1, <3>2 DEF Holds
    <3>4. ~valid'[s]
      BY <1>2, <2>2, <3>3 DEF Logout, TypeOK
    <3> QED BY <1>7, <3>4
  <2> QED BY <2>1, <2>2
<1>8. NamedIsEntered'
  BY <1>2, <1>3, <1>6, <1>7 DEF NamedIsEntered
<1> QED BY <1>5, <1>8 DEF ActsInv

LEMMA EnterActs ==
    ASSUME Shapes, ActsInv, NEW r \in Request, Enter(r)
    PROVE  ActsInv'
<1>1. /\ Shapes' /\ ThreadsMove(r) /\ Unknown'
      /\ \A q \in Request : UNCHANGED <<browser[q], kind[q]>>
  BY StepKinds, StepUnknown DEF Step, ActsInv, Owned
<1>2. /\ pc[r] \in Busy /\ TypeOK /\ Shape(r) /\ browser[r] \in Browser
      /\ UNCHANGED <<jar, cookie, mixed>>
      /\ pc'[r] = "commit" /\ pc'[r] \in Busy /\ name[r] \in User
      /\ entered' = [entered EXCEPT ![browser[r]] = @ \cup {name[r]}]
  BY DEF Enter, Goto, Busy, Shapes, Shape, TypeOK
<1>3. PICK s \in Session : /\ Create(r, s) \/ Reuse(r, s)
                           /\ username' = [username EXCEPT ![s] = name[r]]
  BY DEF Enter
<1>4. /\ session'[r] = s
      /\ \A b \in Browser, t \in Session :
            Holds(b, t)' => IF t = s THEN b = browser[r] ELSE Holds(b, t)
      /\ \A t \in Session \ {s} : /\ Known(t)' => Known(t)
                                  /\ valid'[t] = valid[t]
  <2>1. CASE Create(r, s)
    <3>1. heap[s] = "unborn" /\ session'[r] = s /\ sessions' = sessions \cup {s}
      BY <1>2, <2>1 DEF Create, TypeOK
    <3>2. \A t \in Session \ {s} : valid'[t] = valid[t]
      BY <1>2, <2>1 DEF Create, TypeOK
    <3>3. \A t \in Session \ {s} : Known(t)' => Known(t)
      BY <1>1, <3>1 DEF Known, ThreadsMove
    <3>4. \A b \in Browser, t \in Session :
             Holds(b, t)' => IF t = s THEN b = browser[r] ELSE Holds(b, t)
      BY <1>1, <1>2, <3>1, CreateHolds DEF ActsInv, Owned
    <3> QED BY <3>1, <3>2, <3>3, <3>4
  <2>2. CASE Reuse(r, s)
    <3>1. session[r] = s /\ UNCHANGED <<valid, sessions, session>>
      BY <2>2 DEF Reuse
    <3>2. \A b \in Browser, t \in Session : Holds(b, t)' => Holds(b, t)
      BY <1>1, <1>2, <3>1, HoldsKept
    <3>3. Holds(browser[r], s)
      BY <1>2, <3>1 DEF Holds
    <3>4. \A t \in Session : Known(t)' => Known(t)
      BY <1>1, <1>2, <3>1 DEF Known, ThreadsMove
    <3> QED BY <1>2, <3>1, <3>2, <3>3, <3>4 DEF ActsInv, Owned, OneHolder
  <2> QED BY <1>3, <2>1, <2>2
<1>5. OneHolder'
  BY <1>4 DEF ActsInv, Owned, OneHolder
<1>6. Owned'
  BY <1>1, <1>2, <1>5, OwnedKept DEF ActsInv
<1>7. ASSUME NEW b \in Browser \ mixed, NEW t \in Session, Holds(b, t)', Known(t)',
             valid'[t], username'[t] # None
      PROVE  username'[t] \in entered'[b]
  <2>1. CASE t = s
    BY <1>2, <1>3, <1>4, <1>7, <2>1 DEF TypeOK
  <2>2. CASE t # s
    <3>1. Holds(b, t) /\ Known(t) /\ valid[t] /\ username'[t] = username[t]
      BY <1>2, <1>3, <1>4, <1>7, <2>2 DEF TypeOK
    <3>2. entered[b] \subseteq entered'[b]
      BY <1>2 DEF TypeOK
    <3> QED BY <1>7, <3>1, <3>2 DEF ActsInv, NamedIsEntered
  <2> QED BY <2>1, <2>2
<1>8. NamedIsEntered'
  BY <1>2, <1>7 DEF NamedIsEntered
<1> QED BY <1>6, <1>8 DEF ActsInv

LEMMA ArriveActs ==
    ASSUME Shapes, ActsInv, NEW r \in Request, NEW b \in Browser, NEW k \in Kind,
           NEW u \in User \cup {None}, Arrive(r, b, k, u)
    PROVE  ActsInv'
<1>1. /\ Shapes' /\ ThreadsMove(r) /\ Unknown'
      /\ \A q \in Request \ {r} : UNCHANGED <<browser[q], kind[q]>>
  BY ThreadShapes, OthersAsk, ArriveUnknown DEF Shapes, ActsInv, Owned
<1>2. /\ pc'[r] = "parse" /\ browser'[r] = b /\ kind'[r] = k /\ pc[r] = "idle"
      /\ UNCHANGED <<sessions, valid, username, jar, session, entered>>
      /\ cookie'[r] \in {jar[b], None} /\ session[r] = None
      /\ mixed \subseteq mixed' /\ (Mixes(b, k) => b \in mixed')
  BY DEF Arrive, Goto, Shapes, Shape, TypeOK, objects
<1>3. ASSUME NEW c \in Browser, NEW s \in Session, Holds(c, s)' PROVE Holds(c, s)
  <2>1. CASE jar'[c] = s
    BY <1>2, <2>1 DEF Holds
  <2>2. ASSUME NEW q \in Request, pc'[q] \in Busy, browser'[q] = c, s \in {cookie'[q], session'[q]}
        PROVE  Holds(c, s)
    <3>1. CASE q = r
      BY <1>2, <2>2, <3>1, SessionsAssumption DEF Holds
    <3>2. CASE q # r
      BY <1>1, <2>2, <3>2 DEF Holds, ThreadsMove
    <3> QED BY <3>1, <3>2
  <2> QED BY <1>3, <2>1, <2>2 DEF Holds
<1>4. OneHolder'
  BY <1>3 DEF ActsInv, Owned, OneHolder
<1>5. LogoutAlone'
  <2>1. \A q \in Request \ {r} : pc[q] \in Busy /\ browser[q] = b /\ b \notin mixed' =>
           k # "logout" /\ kind[q] # "logout"
    BY <1>2 DEF Mixes
  <2> QED BY <1>1, <1>2, <2>1 DEF ActsInv, Owned, LogoutAlone, ThreadsMove
<1>6. LogoutCookie'
  BY <1>1, <1>2 DEF ActsInv, Owned, LogoutCookie, ThreadsMove
<1>7. ASSUME NEW s \in Session, Known(s)' PROVE Known(s)
  BY <1>1, <1>2, <1>7, SessionsAssumption DEF Known, ThreadsMove
<1>8. NamedIsEntered'
  BY <1>2, <1>3, <1>7 DEF ActsInv, NamedIsEntered
<1> QED BY <1>1, <1>4, <1>5, <1>6, <1>8 DEF ActsInv, Owned

LEMMA RestartActs ==
    ASSUME Shapes, ActsInv, Restart
    PROVE  ActsInv'
<1>1. /\ \A q \in Request : pc'[q] \notin Busy
      /\ sessions' = {} /\ UNCHANGED <<jar, cookie, session>>
      /\ \A s \in Session : heap'[s] = "unborn" => heap[s] = "unborn"
  BY DEF Restart, Shapes, TypeOK, Busy
<1>2. Unknown'
  BY <1>1 DEF ActsInv, Owned, Unknown
<1>3. \A b \in Browser, s \in Session : Holds(b, s)' => Holds(b, s)
  BY <1>1 DEF Holds
<1>4. OneHolder' /\ LogoutAlone' /\ LogoutCookie'
  BY <1>1, <1>3 DEF ActsInv, Owned, OneHolder, LogoutAlone, LogoutCookie
<1>5. NamedIsEntered'
  BY <1>1 DEF NamedIsEntered, Known
<1> QED BY <1>2, <1>4, <1>5 DEF ActsInv, Owned

\* A garbled request holds nothing.
LEMMA GarbledKeeps ==
    ASSUME Shapes, NEW r \in Request, Garbled(r)
    PROVE  /\ \A q \in Request : pc'[q] = pc[q] \/ {pc[q], pc'[q]} \cap Busy = {}
           /\ UNCHANGED <<sessions, heap, valid, isNew, username, jar, cookie, session, browser,
                           kind, name, entered, mixed>>
BY GarbledMoves DEF Shapes, ThreadsMove, Busy, objects, ask, rest

LEMMA GarbledActs ==
    ASSUME Shapes, ActsInv, NEW r \in Request, Garbled(r)
    PROVE  ActsInv'
<1>1. /\ \A q \in Request : pc'[q] = pc[q] \/ {pc[q], pc'[q]} \cap Busy = {}
      /\ UNCHANGED <<sessions, heap, valid, username, jar, cookie, session, browser, kind,
                      entered, mixed>>
  BY GarbledKeeps
<1>2. \A q \in Request : pc'[q] \in Busy => pc[q] \in Busy
  BY <1>1
<1>3. /\ \A b \in Browser, s \in Session : Holds(b, s)' => Holds(b, s)
      /\ \A s \in Session : Known(s)' => Known(s)
  BY <1>1, <1>2 DEF Holds, Known
<1>4. Unknown' /\ OneHolder' /\ LogoutAlone' /\ LogoutCookie'
  BY <1>1, <1>2, <1>3 DEF ActsInv, Owned, Unknown, OneHolder, LogoutAlone, LogoutCookie
<1>5. NamedIsEntered'
  BY <1>1, <1>3 DEF ActsInv, NamedIsEntered
<1> QED BY <1>4, <1>5 DEF ActsInv, Owned

LEMMA NextActs == Shapes /\ ActsInv /\ [Next]_vars => ActsInv'
<1> SUFFICES ASSUME Shapes, ActsInv, [Next]_vars PROVE ActsInv'
  OBVIOUS
<1>1. CASE UNCHANGED vars
  BY <1>1 DEF vars, objects, ask, rest, ActsInv, Owned, Unknown, OneHolder, Holds, LogoutAlone,
              LogoutCookie, NamedIsEntered, Known
<1>2. ASSUME NEW r \in Request, Step(r) PROVE ActsInv'
  BY <1>2, QuietActs, LogoutActs, EnterActs DEF Step
<1> QED BY <1>1, <1>2, ArriveActs, GarbledActs, RestartActs DEF Next

\* No browser acts for a user who has not logged in there since its last logout,
\* for any number of requests at once, also while the requests of other
\* browsers overlap their logouts and use deleted sessions.
THEOREM IdentityIsEntered == Spec => []ActsForEntered
<1>1. Shapes /\ ActsInv => ActsForEntered
  <2> SUFFICES ASSUME Shapes, ActsInv, NEW b \in Browser \ mixed, Identity(b) # None
               PROVE  Identity(b) \in entered[b]
    BY DEF ActsForEntered
  <2>1. /\ jar[b] \in sessions /\ valid[jar[b]] /\ Identity(b) = username[jar[b]]
        /\ jar[b] \in Session
    BY DEF Identity, Shapes, TypeOK
  <2>2. Holds(b, jar[b]) /\ Known(jar[b])
    BY <2>1 DEF Holds, Known
  <2> QED BY <2>1, <2>2 DEF ActsInv, NamedIsEntered
<1> QED BY <1>1, InitShapes, NextShapes, InitActs, NextActs, PTL DEF Spec

-----------------------------------------------------------------------------
(* Who stays logged in.  A browser without an overlapped logout finds its  *)
(* session valid and in the hash until it ends it itself, and the cookie   *)
(* it is answered is the one of the session it logged in to, unless its    *)
(* request has brought another.                                            *)

NewIsNew == \A s \in Session : heap[s] = "unborn" => isNew[s]

ValidNamed == \A s \in Session : valid[s] => username[s] # None

LoginHasSession ==
    \A r \in Request :
        kind[r] = "login" /\ pc[r] \in {"commit", "cookies"} /\ name[r] # None => session[r] # None

\* Only a session that has just been made has not its cookie, for good if the
\* request has brought another, and nobody else knows it then.
CookieFollows ==
    \A r \in Request : pc[r] \in Busy /\ session[r] \notin {None, cookie[r]} =>
        /\ pc[r] = "commit" \/ (pc[r] = "cookies" /\ cookie[r] # None)
        /\ isNew[session[r]] /\ valid[session[r]]
        /\ \A b \in Browser : jar[b] # session[r]
        /\ \A q \in Request \ {r} : session[r] \notin {cookie[q], session[q]}

ValidOrEnding ==
    \A b \in Browser \ mixed, s \in sessions : Holds(b, s) => valid[s] \/ Ending(s)

\* What Pointer says of all threads is true of those of such a browser.
OwnPointer(r) ==
    pc[r] \in Busy /\ browser[r] \notin mixed =>
        /\ pc[r] = "found" => cookie[r] \in sessions
        /\ pc[r] # "free" /\ session[r] # None => session[r] \in sessions
        /\ pc[r] \in {"unhash", "free"} => kind[r] = "logout"
        /\ pc[r] # "drop"

LoginParts ==
    /\ NewIsNew /\ ValidNamed /\ LoginHasSession /\ CookieFollows /\ ValidOrEnding
    /\ \A r \in Request : OwnPointer(r)

LoginInv == Shapes /\ ActsInv /\ LoginParts

LEMMA InitLogin == Init => LoginParts
BY SessionsAssumption DEF Init, LoginParts, NewIsNew, ValidNamed, LoginHasSession, CookieFollows,
   ValidOrEnding, OwnPointer, Busy

\* Request r has made session s in this step, or it has ended it.
Made(r, s) ==
    /\ heap[s] = "unborn" /\ valid'[s] /\ s \in sessions' /\ session'[r] = s
    /\ pc[r] = "serve" /\ pc'[r] = "commit"

EndedBy(r, s) ==
    /\ kind[r] = "logout" /\ session[r] = s /\ session'[r] = s
    /\ pc[r] = "serve" /\ pc'[r] = "commit"

\* What a step of a request changes in the sessions.
LEMMA SessionsMove ==
    ASSUME Shapes, NEW r \in Request, Step(r)
    PROVE  /\ UNCHANGED mixed
           /\ \A s \in sessions' : s \in sessions \/ (pc[r] = "keep" /\ s = session[r]) \/ Made(r, s)
           /\ \A s \in sessions \ sessions' : s = session[r] /\ pc[r] \in {"drop", "unhash"}
           /\ pc[r] = "unhash" => session[r] \notin sessions'
           /\ \A s \in Session :
                 /\ heap'[s] = "unborn" => heap[s] = "unborn"
                 /\ valid[s] => valid'[s] \/ EndedBy(r, s)
                 /\ valid'[s] => valid[s] \/ Made(r, s)
                 /\ isNew'[s] = isNew[s] \/ (pc[r] = "found" /\ s = cookie[r] /\ s \in sessions)
                 /\ valid'[s] => /\ username'[s] # username[s] => username'[s] # None
                                 /\ username'[s] = None => valid[s]
<1>1. TypeOK /\ Shape(r)
  BY DEF Shapes
<1> USE DEF TypeOK, Goto, objects, rest
<1>2. CASE Enter(r)
  <2>1. PICK s \in Session : /\ Create(r, s) \/ Reuse(r, s)
                             /\ username' = [username EXCEPT ![s] = name[r]]
    BY <1>2 DEF Enter
  <2>2. /\ pc[r] = "serve" /\ pc'[r] = "commit" /\ name[r] # None
        /\ UNCHANGED <<isNew, mixed>>
    BY <1>1, <1>2 DEF Enter, Shape
  <2>3. CASE Create(r, s)
    <3>1. /\ heap[s] = "unborn" /\ heap' = [heap EXCEPT ![s] = "live"]
          /\ valid' = [valid EXCEPT ![s] = TRUE] /\ sessions' = sessions \cup {s}
          /\ session'[r] = s
      BY <1>1, <2>3 DEF Create
    <3>2. Made(r, s)
      BY <1>1, <2>2, <3>1 DEF Made
    <3> QED BY <1>1, <2>1, <2>2, <3>1, <3>2
  <2>4. CASE Reuse(r, s)
    BY <1>1, <2>1, <2>2, <2>4 DEF Reuse
  <2> QED BY <2>1, <2>3, <2>4
<1>3. CASE Logout(r)
  <2>1. CASE session[r] = None
    BY <1>1, <1>3, <2>1 DEF Logout
  <2>2. CASE session[r] # None
    BY <1>1, <1>3, <2>2 DEF Logout, EndedBy
  <2> QED BY <2>1, <2>2
<1>4. CASE Find(r)
  BY <1>1, <1>4 DEF Find
<1>5. CASE KeepOrDrop(r)
  BY <1>1, <1>5 DEF KeepOrDrop
<1>6. CASE Parse(r) \/ ServePage(r) \/ Refuse(r) \/ Commit(r) \/ SetCookie(r)
  BY <1>1, <1>6 DEF Parse, ServePage, Refuse, Commit, SetCookie
<1>7. CASE Unhash(r) \/ Free(r)
  BY <1>1, <1>7 DEF Unhash, Free
<1> QED BY <1>2, <1>3, <1>4, <1>5, <1>6, <1>7 DEF Step

\* What a step of a request changes in the request and in its browser.
LEMMA RequestMoves ==
    ASSUME Shapes, NEW r \in Request, Step(r)
    PROVE  /\ pc[r] \in Busy /\ browser[r] \in Browser
           /\ cookie'[r] = cookie[r]
              \/ (pc[r] = "commit" /\ session[r] # None /\ cookie'[r] = session[r])
           /\ \/ session'[r] = session[r]
              \/ pc[r] = "found" /\ session'[r] = cookie[r] /\ cookie[r] \in sessions
              \/ Made(r, session'[r])
           /\ \A b \in Browser : \/ jar'[b] \in {None, jar[b]}
                                 \/ b = browser[r] /\ jar'[b] = cookie[r]
           /\ pc'[r] = "found" => pc[r] = "found" \/ cookie[r] \in sessions'
           /\ pc'[r] = "drop" => pc[r] = "found" /\ cookie[r] \in sessions /\ ~valid[cookie[r]]
           /\ pc'[r] = "unhash" => pc[r] = "cookies" /\ session[r] # None /\ ~valid[session[r]]
           /\ pc'[r] = "free" => pc[r] = "unhash"
           /\ pc[r] = "free" => pc'[r] \notin Busy
           /\ pc[r] = "unhash" => pc'[r] \notin Busy \/ pc'[r] = "free"
           /\ pc[r] = "commit" =>
                 /\ pc'[r] = "cookies"
                 /\ session[r] # None /\ cookie[r] = None /\ isNew[session[r]]
                    /\ valid[session[r]] => cookie'[r] = session[r]
           /\ pc[r] = "cookies" => pc'[r] \notin Busy \/ pc'[r] = "unhash"
           /\ pc[r] = "cookies" /\ session[r] # None /\ cookie[r] # None /\ ~valid[session[r]] =>
                 pc'[r] = "unhash"
<1>1. TypeOK /\ Shape(r)
  BY DEF Shapes
<1>2. pc[r] \in Busy /\ browser[r] \in Browser
  BY <1>1 DEF Step, Parse, Find, KeepOrDrop, ServePage, Refuse, Enter, Logout, Commit, SetCookie,
     Unhash, Free, Busy, Shape
<1> USE <1>1, <1>2 DEF TypeOK, Goto, Busy
<1>3. CASE Enter(r)
  <2>1. /\ pc[r] = "serve" /\ pc'[r] = "commit" /\ UNCHANGED <<cookie, jar>>
        /\ session'[r] = session[r] \/ Made(r, session'[r])
    <3>1. PICK s \in Session : Create(r, s) \/ Reuse(r, s)
      BY <1>3 DEF Enter
    <3>2. pc[r] = "serve" /\ pc'[r] = "commit" /\ UNCHANGED <<cookie, jar>>
      BY <1>3 DEF Enter
    <3>3. CASE Create(r, s)
      <4>1. heap[s] = "unborn" /\ valid'[s] /\ s \in sessions' /\ session'[r] = s
        BY <3>3 DEF Create
      <4> QED BY <3>2, <4>1 DEF Made
    <3> QED BY <3>1, <3>2, <3>3 DEF Reuse
  <2> QED BY <2>1
<1>4. CASE Parse(r) \/ ServePage(r) \/ Refuse(r) \/ Logout(r)
  BY <1>4 DEF Parse, ServePage, Refuse, Logout
<1>5. CASE Find(r)
  BY <1>5 DEF Find
<1>6. CASE KeepOrDrop(r)
  BY <1>6 DEF KeepOrDrop
<1>7. CASE Commit(r)
  BY <1>7 DEF Commit
<1>8. CASE SetCookie(r)
  BY <1>8 DEF SetCookie, Answer
<1>9. CASE Unhash(r)
  BY <1>9 DEF Unhash, Answer
<1>10. CASE Free(r)
  BY <1>10 DEF Free, Answer
<1> QED BY <1>3, <1>4, <1>5, <1>6, <1>7, <1>8, <1>9, <1>10 DEF Step

\* A session comes to a browser only when it is made there.
LEMMA HoldsMove ==
    ASSUME Shapes, NEW r \in Request, Step(r),
           NEW b \in Browser, NEW s \in Session, Holds(b, s)'
    PROVE  Holds(b, s) \/ Made(r, s)
<1>1. /\ ThreadsMove(r)
      /\ \A q \in Request : UNCHANGED <<browser[q], kind[q]>>
  BY StepKinds
<1>2. CASE jar'[b] = s
  BY <1>2, RequestMoves, SessionsAssumption DEF Holds
<1>3. ASSUME NEW q \in Request, pc'[q] \in Busy, browser'[q] = b, s \in {cookie'[q], session'[q]}
      PROVE  Holds(b, s) \/ Made(r, s)
  <2>1. CASE q = r
    <3>1. browser[r] = b /\ pc[r] \in Busy
      BY <1>1, <1>3, <2>1, RequestMoves
    <3>2. s \in {cookie[r], session[r]} \/ Made(r, s)
      BY <1>3, <2>1, RequestMoves
    <3> QED BY <3>1, <3>2 DEF Holds
  <2>2. CASE q # r
    BY <1>1, <1>3, <2>2 DEF Holds, ThreadsMove
  <2> QED BY <2>1, <2>2
<1> QED BY <1>2, <1>3 DEF Holds

\* Two requests that hold a session are of one browser; if one is a logout and
\* has not overlapped the other, they are the same.
LEMMA SameLogout ==
    ASSUME Shapes, ActsInv, NEW s \in Session, NEW q \in Request, NEW r \in Request,
           pc[q] \in Busy, pc[r] \in Busy, s \in {cookie[q], session[q]},
           s \in {cookie[r], session[r]}
    PROVE  /\ browser[q] = browser[r] /\ browser[q] \in Browser
           /\ kind[q] = "logout" /\ browser[q] \notin mixed => q = r
<1>1. /\ browser[q] \in Browser /\ browser[r] \in Browser
      /\ Holds(browser[q], s) /\ Holds(browser[r], s)
  BY DEF Shapes, Shape, Holds
<1> QED BY <1>1 DEF ActsInv, Owned, OneHolder, LogoutAlone

\* A session that has ended and is still in the hash is the one of the logout.
LEMMA InvalidIsLogouts ==
    ASSUME LoginInv, NEW r \in Request, pc[r] \in Busy, browser[r] \notin mixed,
           NEW s \in sessions, s \in {cookie[r], session[r]}, ~valid[s]
    PROVE  kind[r] = "logout" /\ session[r] = s /\ pc[r] \in {"commit", "cookies", "unhash"}
<1>1. Shapes /\ ActsInv /\ ValidOrEnding /\ s \in Session
  BY DEF LoginInv, LoginParts, Shapes, TypeOK
<1>2. browser[r] \in Browser /\ Holds(browser[r], s)
  BY <1>1 DEF Shapes, Shape, Holds
<1>3. PICK q \in Request : /\ pc[q] \in {"commit", "cookies", "unhash"}
                           /\ kind[q] = "logout" /\ session[q] = s
  BY <1>1, <1>2 DEF ValidOrEnding, Ending
<1>4. q = r
  BY <1>1, <1>3, SameLogout DEF Busy
<1> QED BY <1>3, <1>4

LEMMA StepCookies ==
    ASSUME LoginInv, NEW r \in Request, Step(r)
    PROVE  CookieFollows'
<1>1. /\ Shapes /\ Unknown /\ NewIsNew /\ CookieFollows /\ TypeOK'
      /\ ThreadsMove(r) /\ TypeOK
  BY StepKinds DEF LoginInv, LoginParts, ActsInv, Owned, Shapes
<1>2. SUFFICES ASSUME NEW q \in Request, pc'[q] \in Busy, session'[q] \notin {None, cookie'[q]}
               PROVE  /\ pc'[q] = "commit" \/ (pc'[q] = "cookies" /\ cookie'[q] # None)
                      /\ isNew'[session'[q]] /\ valid'[session'[q]]
                      /\ \A b \in Browser : jar'[b] # session'[q]
                      /\ \A p \in Request \ {q} : session'[q] \notin {cookie'[p], session'[p]}
  BY DEF CookieFollows
<1> DEFINE s == session'[q]
<1>3. s \in Session /\ s # None
  BY <1>1, <1>2 DEF TypeOK
<1>4. CASE q # r
  <2>1. pc'[q] = pc[q] /\ session[q] = s /\ cookie'[q] = cookie[q]
    BY <1>1, <1>4 DEF ThreadsMove
  <2>2. /\ pc[q] = "commit" \/ (pc[q] = "cookies" /\ cookie[q] # None)
        /\ isNew[s] /\ valid[s]
        /\ \A b \in Browser : jar[b] # s
        /\ \A p \in Request \ {q} : s \notin {cookie[p], session[p]}
    BY <1>1, <1>2, <2>1 DEF CookieFollows
  <2>3. s # cookie[r] /\ s # session[r] /\ heap[s] # "unborn"
    BY <1>1, <1>3, <1>4, <2>1, <2>2 DEF Unknown
  <2>4. isNew'[s] /\ valid'[s]
    BY <1>1, <1>3, <2>2, <2>3, SessionsMove DEF EndedBy, TypeOK
  <2>5. \A b \in Browser : jar'[b] # s
    BY <1>1, <1>3, <2>2, <2>3, RequestMoves
  <2>6. s \notin {cookie'[r], session'[r]}
    BY <1>1, <2>3, RequestMoves DEF Made
  <2>7. \A p \in Request \ {q} : s \notin {cookie'[p], session'[p]}
    BY <1>1, <2>2, <2>6 DEF ThreadsMove
  <2> QED BY <2>1, <2>2, <2>4, <2>5, <2>7
<1>5. CASE q = r /\ session'[r] = session[r]
  <2>1. pc[r] \in Busy /\ cookie'[r] = cookie[r] /\ session[r] = s
    BY <1>1, <1>2, <1>5, RequestMoves
  <2>2. /\ pc[r] = "commit" \/ (pc[r] = "cookies" /\ cookie[r] # None)
        /\ isNew[s] /\ valid[s]
        /\ \A b \in Browser : jar[b] # s
        /\ \A p \in Request \ {r} : s \notin {cookie[p], session[p]}
    BY <1>1, <1>2, <1>5, <2>1 DEF CookieFollows
  <2>3. pc[r] # "cookies"
    BY <1>1, <1>2, <1>3, <1>5, <2>1, <2>2, RequestMoves
  <2>4. pc'[r] = "cookies" /\ cookie[r] # None
    BY <1>1, <1>2, <1>3, <1>5, <2>1, <2>2, <2>3, RequestMoves
  <2>5. isNew'[s] /\ valid'[s]
    BY <1>1, <1>3, <2>2, <2>3, SessionsMove DEF EndedBy, TypeOK
  <2>6. \A b \in Browser : jar'[b] # s
    BY <1>1, <1>2, <1>3, <1>5, <2>1, <2>2, RequestMoves
  <2>7. \A p \in Request \ {r} : s \notin {cookie'[p], session'[p]}
    BY <1>1, <2>2 DEF ThreadsMove
  <2> QED BY <1>5, <2>1, <2>4, <2>5, <2>6, <2>7
<1>6. CASE q = r /\ session'[r] # session[r]
  <2>1. Made(r, s)
    <3>1. ~(pc[r] = "found" /\ session'[r] = cookie[r])
      BY <1>1, <1>2, <1>6, RequestMoves
    <3> QED BY <1>1, <1>6, <3>1, RequestMoves
  <2>2. /\ s \notin sessions /\ isNew[s] /\ \A b \in Browser : jar[b] # s
        /\ \A p \in Request : cookie[p] # s /\ session[p] # s
    BY <1>1, <1>3, <2>1 DEF Made, Unknown, NewIsNew
  <2>3. pc'[q] = "commit" /\ valid'[s]
    BY <1>6, <2>1 DEF Made
  <2>4. isNew'[s]
    BY <1>1, <1>3, <2>2, SessionsMove
  <2>5. \A b \in Browser : jar'[b] # s
    BY <1>1, <1>3, <2>2, RequestMoves
  <2>6. \A p \in Request \ {q} : s \notin {cookie'[p], session'[p]}
    BY <1>1, <1>6, <2>2 DEF ThreadsMove
  <2> QED BY <2>3, <2>4, <2>5, <2>6
<1> QED BY <1>4, <1>5, <1>6

LEMMA StepEnding ==
    ASSUME LoginInv, NEW r \in Request, Step(r)
    PROVE  ValidOrEnding'
<1>1. /\ Shapes /\ ActsInv /\ ValidOrEnding /\ OwnPointer(r) /\ TypeOK /\ Shape(r)
      /\ ThreadsMove(r)
      /\ \A q \in Request : UNCHANGED <<browser[q], kind[q]>>
      /\ pc[r] \in Busy /\ browser[r] \in Browser /\ UNCHANGED mixed
      /\ sessions' \in SUBSET Session
  BY StepKinds, RequestMoves, SessionsMove DEF LoginInv, LoginParts, Shapes, TypeOK
<1>2. SUFFICES ASSUME NEW b \in Browser \ mixed, NEW s \in sessions', Holds(b, s)'
               PROVE  valid'[s] \/ Ending(s)'
  BY <1>1 DEF ValidOrEnding
<1>3. s \in Session
  BY <1>1
<1>4. CASE Made(r, s)
  BY <1>4 DEF Made
<1>5. CASE ~Made(r, s)
  <2>1. Holds(b, s)
    BY <1>1, <1>2, <1>3, <1>5, HoldsMove
  <2>2. s \in sessions
    <3>1. CASE pc[r] = "keep" /\ s = session[r]
      <4>1. Holds(browser[r], s)
        BY <1>1, <3>1 DEF Holds
      <4>2. b = browser[r]
        BY <1>1, <1>3, <2>1, <4>1 DEF ActsInv, Owned, OneHolder
      <4> QED BY <1>1, <1>2, <1>3, <3>1, <4>2, SessionsAssumption DEF OwnPointer
    <3> QED BY <1>1, <1>2, <1>5, <3>1, SessionsMove
  <2>3. valid[s] \/ Ending(s)
    BY <1>1, <1>2, <2>1, <2>2 DEF ValidOrEnding
  <2>4. CASE valid[s]
    <3>1. valid'[s] \/ EndedBy(r, s)
      BY <1>1, <1>3, <2>4, SessionsMove
    <3> QED BY <1>1, <3>1 DEF EndedBy, Ending
  <2>5. ASSUME ~valid[s], NEW q \in Request, pc[q] \in {"commit", "cookies", "unhash"},
               kind[q] = "logout", session[q] = s
        PROVE  Ending(s)'
    <3>1. CASE q # r
      BY <1>1, <2>5, <3>1 DEF Ending, ThreadsMove
    <3>2. CASE q = r
      <4>1. session'[r] = s /\ s # None /\ cookie[r] # None
        BY <1>1, <1>3, <2>5, <3>2, RequestMoves, SessionsAssumption DEF Made, Shape
      <4>2. pc'[r] \in {"cookies", "unhash"}
        BY <1>1, <1>2, <2>5, <3>2, <4>1, RequestMoves, SessionsMove
      <4> QED BY <1>1, <2>5, <3>2, <4>1, <4>2 DEF Ending
    <3> QED BY <3>1, <3>2
  <2> QED BY <2>3, <2>4, <2>5 DEF Ending
<1> QED BY <1>4, <1>5

LEMMA StepPointers ==
    ASSUME LoginInv, NEW r \in Request, Step(r)
    PROVE  \A q \in Request : OwnPointer(q)'
<1>1. /\ Shapes /\ ActsInv /\ OwnPointer(r) /\ TypeOK /\ Shape(r)
      /\ ThreadsMove(r)
      /\ \A q \in Request : UNCHANGED <<browser[q], kind[q]>>
      /\ pc[r] \in Busy /\ browser[r] \in Browser /\ UNCHANGED mixed
  BY StepKinds, RequestMoves, SessionsMove DEF LoginInv, LoginParts, Shapes
<1>2. ASSUME NEW q \in Request \ {r} PROVE OwnPointer(q)'
  <2>1. UNCHANGED <<pc[q], cookie[q], session[q], browser[q], kind[q], mixed>> /\ OwnPointer(q)
    BY <1>1, <1>2 DEF ThreadsMove, LoginInv, LoginParts
  <2>2. ASSUME NEW s \in sessions, pc[q] \in Busy, browser[q] \notin mixed,
               s \in {cookie[q], session[q]}
        PROVE  s \in sessions'
    <3>1. SUFFICES ASSUME s \notin sessions' PROVE FALSE
      OBVIOUS
    <3>2. s = session[r] /\ pc[r] \in {"drop", "unhash"} /\ s \in Session
      BY <1>1, <3>1, SessionsMove DEF TypeOK
    <3>3. browser[q] = browser[r]
      BY <1>1, <1>2, <2>2, <3>2, SameLogout
    <3>4. kind[r] = "logout" /\ browser[r] \notin mixed
      BY <1>1, <2>2, <3>2, <3>3 DEF OwnPointer
    <3> QED BY <1>1, <1>2, <2>2, <3>2, <3>4, SameLogout
  <2> QED BY <2>1, <2>2 DEF OwnPointer
<1>3. OwnPointer(r)'
  <2>1. SUFFICES ASSUME pc'[r] \in Busy, browser[r] \notin mixed
                 PROVE  /\ pc'[r] = "found" => cookie'[r] \in sessions'
                        /\ pc'[r] # "free" /\ session'[r] # None => session'[r] \in sessions'
                        /\ pc'[r] \in {"unhash", "free"} => kind[r] = "logout"
                        /\ pc'[r] # "drop"
    BY <1>1 DEF OwnPointer
  <2>2. /\ pc[r] = "found" => cookie[r] \in sessions
        /\ pc[r] # "free" /\ session[r] # None => session[r] \in sessions
        /\ pc[r] \in {"unhash", "free"} => kind[r] = "logout"
        /\ pc[r] # "drop"
    BY <1>1, <2>1 DEF OwnPointer
  <2>3. pc'[r] = "found" => cookie'[r] \in sessions'
    <3>1. ASSUME pc'[r] = "found" PROVE pc[r] # "commit" /\ pc[r] # "unhash"
      BY <1>1, <3>1, RequestMoves DEF Busy
    <3>2. ASSUME pc'[r] = "found" PROVE cookie[r] \in sessions'
      BY <1>1, <2>2, <3>1, <3>2, RequestMoves, SessionsMove
    <3> QED BY <1>1, <3>1, <3>2, RequestMoves
  <2>4. ASSUME pc'[r] # "free", session'[r] # None PROVE session'[r] \in sessions'
    <3>1. CASE Made(r, session'[r])
      BY <3>1 DEF Made
    <3>2. CASE session'[r] = session[r]
      <4>1. pc[r] # "free" /\ pc[r] # "unhash"
        BY <1>1, <2>1, <2>4, RequestMoves
      <4> QED BY <1>1, <2>2, <2>4, <3>2, <4>1, SessionsMove
    <3>3. CASE pc[r] = "found" /\ session'[r] = cookie[r] /\ cookie[r] \in sessions
      BY <1>1, <3>3, SessionsMove
    <3> QED BY <1>1, <3>1, <3>2, <3>3, RequestMoves
  <2>5. ASSUME pc'[r] = "unhash" PROVE kind[r] = "logout"
    <3>1. pc[r] = "cookies" /\ session[r] # None /\ ~valid[session[r]]
      BY <1>1, <2>5, RequestMoves
    <3>2. session[r] \in sessions
      BY <2>2, <3>1
    <3> QED BY <1>1, <2>1, <3>1, <3>2, InvalidIsLogouts
  <2>6. pc'[r] = "free" => kind[r] = "logout"
    BY <1>1, <2>2, RequestMoves
  <2>7. ASSUME pc'[r] = "drop" PROVE FALSE
    <3>1. pc[r] = "found" /\ cookie[r] \in sessions /\ ~valid[cookie[r]]
      BY <1>1, <2>7, RequestMoves
    <3> QED BY <1>1, <2>1, <3>1, InvalidIsLogouts
  <2> QED BY <2>3, <2>4, <2>5, <2>6, <2>7
<1> QED BY <1>2, <1>3

LEMMA StepNames ==
    ASSUME LoginInv, NEW r \in Request, Step(r)
    PROVE  NewIsNew' /\ ValidNamed' /\ LoginHasSession'
<1>1. /\ Shapes /\ Unknown /\ NewIsNew /\ ValidNamed /\ LoginHasSession /\ TypeOK /\ Shape(r)
      /\ ThreadsMove(r)
      /\ \A q \in Request : UNCHANGED <<browser[q], kind[q]>>
  BY StepKinds DEF LoginInv, LoginParts, ActsInv, Owned, Shapes
<1>2. NewIsNew'
  BY <1>1, SessionsMove DEF NewIsNew, Unknown
<1>3. ValidNamed'
  BY <1>1, SessionsMove DEF ValidNamed
<1>4. ASSUME NEW q \in Request \ {r}, kind[q] = "login", pc'[q] \in {"commit", "cookies"},
             name'[q] # None
      PROVE  session'[q] # None
  <2>1. UNCHANGED <<pc[q], session[q]>> /\ name'[q] = name[q]
    BY <1>1, <1>4, OthersAsk DEF ThreadsMove
  <2> QED BY <1>1, <1>4, <2>1 DEF LoginHasSession
<1>5. ASSUME kind[r] = "login", pc'[r] \in {"commit", "cookies"}, name'[r] # None
      PROVE  session'[r] # None
  <2> USE DEF TypeOK, Goto
  <2>1. CASE Enter(r)
    <3>1. PICK s \in Session : Create(r, s) \/ Reuse(r, s)
      BY <2>1 DEF Enter
    <3>2. session'[r] = s
      BY <1>1, <3>1 DEF Create, Reuse
    <3> QED BY <3>2, SessionsAssumption
  <2>2. CASE Refuse(r)
    BY <1>1, <1>5, <2>2 DEF Refuse
  <2>3. CASE Commit(r)
    BY <1>1, <1>5, <2>3 DEF Commit, LoginHasSession
  <2>4. CASE ServePage(r) \/ Logout(r)
    BY <1>5, <2>4 DEF ServePage, Logout
  <2>5. CASE Parse(r) \/ KeepOrDrop(r)
    BY <1>1, <1>5, <2>5 DEF Parse, KeepOrDrop
  <2>6. CASE Find(r)
    BY <1>1, <1>5, <2>6 DEF Find
  <2>7. CASE SetCookie(r)
    BY <1>1, <1>5, <2>7 DEF SetCookie, Answer
  <2>8. CASE Unhash(r) \/ Free(r)
    BY <1>1, <1>5, <2>8 DEF Unhash, Free, Answer
  <2> QED BY <2>1, <2>2, <2>3, <2>4, <2>5, <2>6, <2>7, <2>8 DEF Step
<1>6. LoginHasSession'
  BY <1>1, <1>4, <1>5 DEF LoginHasSession
<1> QED BY <1>2, <1>3, <1>6

LEMMA ArriveLogin ==
    ASSUME LoginInv, NEW r \in Request, NEW b \in Browser, NEW k \in Kind,
           NEW u \in User \cup {None}, Arrive(r, b, k, u)
    PROVE  LoginParts'
<1>1. /\ Shapes /\ LoginParts /\ TypeOK /\ ThreadsMove(r)
      /\ \A q \in Request \ {r} : UNCHANGED <<browser[q], kind[q], name[q]>>
  BY ThreadShapes, OthersAsk DEF LoginInv, Shapes
<1>2. /\ pc'[r] = "parse" /\ browser'[r] = b /\ kind'[r] = k /\ pc[r] = "idle"
      /\ UNCHANGED <<sessions, heap, valid, isNew, username, jar, session>>
      /\ cookie'[r] \in {jar[b], None} /\ session[r] = None
      /\ mixed \subseteq mixed'
  BY <1>1 DEF Arrive, Goto, Shapes, Shape, TypeOK, objects
<1>3. ASSUME NEW c \in Browser, NEW s \in Session, Holds(c, s)' PROVE Holds(c, s)
  <2>1. CASE jar'[c] = s
    BY <1>2, <2>1 DEF Holds
  <2>2. ASSUME NEW q \in Request, pc'[q] \in Busy, browser'[q] = c, s \in {cookie'[q], session'[q]}
        PROVE  Holds(c, s)
    <3>1. CASE q = r
      BY <1>2, <2>2, <3>1, SessionsAssumption DEF Holds
    <3>2. CASE q # r
      BY <1>1, <2>2, <3>2 DEF Holds, ThreadsMove
    <3> QED BY <3>1, <3>2
  <2> QED BY <1>3, <2>1, <2>2 DEF Holds
<1>4. NewIsNew' /\ ValidNamed'
  BY <1>1, <1>2 DEF LoginParts, NewIsNew, ValidNamed
<1>5. LoginHasSession'
  <2> SUFFICES ASSUME NEW q \in Request, kind'[q] = "login", pc'[q] \in {"commit", "cookies"},
                      name'[q] # None
               PROVE  session'[q] # None
    BY DEF LoginHasSession
  <2>1. q # r
    BY <1>2
  <2> QED BY <1>1, <2>1 DEF LoginParts, LoginHasSession, ThreadsMove
<1>6. ASSUME NEW q \in Request, pc'[q] \in Busy, session'[q] \notin {None, cookie'[q]}
      PROVE  /\ pc'[q] = "commit" \/ (pc'[q] = "cookies" /\ cookie'[q] # None)
             /\ isNew'[session'[q]] /\ valid'[session'[q]]
             /\ \A c \in Browser : jar'[c] # session'[q]
             /\ \A p \in Request \ {q} : session'[q] \notin {cookie'[p], session'[p]}
  <2>1. q # r
    BY <1>2, <1>6
  <2>2. /\ pc'[q] = pc[q] /\ session'[q] = session[q] /\ cookie'[q] = cookie[q]
    BY <1>1, <2>1 DEF ThreadsMove
  <2>3. /\ pc[q] = "commit" \/ (pc[q] = "cookies" /\ cookie[q] # None)
        /\ isNew[session[q]] /\ valid[session[q]]
        /\ \A c \in Browser : jar[c] # session[q]
        /\ \A p \in Request \ {q} : session[q] \notin {cookie[p], session[p]}
    BY <1>1, <1>6, <2>2 DEF LoginParts, CookieFollows
  <2>4. session[q] \notin {cookie'[r], session'[r]}
    BY <1>2, <1>6, <2>2, <2>3
  <2>5. \A p \in Request \ {q} : session[q] \notin {cookie'[p], session'[p]}
    BY <1>1, <2>3, <2>4 DEF ThreadsMove
  <2> QED BY <1>2, <2>2, <2>3, <2>5
<1>7. ASSUME NEW c \in Browser \ mixed', NEW s \in sessions, Holds(c, s)'
      PROVE  valid[s] \/ Ending(s)'
  <2>1. s \in Session /\ c \in Browser \ mixed
    BY <1>1, <1>2 DEF TypeOK
  <2>2. valid[s] \/ Ending(s)
    BY <1>1, <1>3, <1>7, <2>1 DEF LoginParts, ValidOrEnding
  <2>3. ASSUME Ending(s) PROVE Ending(s)'
    <3>1. PICK q \in Request : /\ pc[q] \in {"commit", "cookies", "unhash"}
                               /\ kind[q] = "logout" /\ session[q] = s
      BY <2>3 DEF Ending
    <3>2. q # r
      BY <1>2, <3>1
    <3> QED BY <1>1, <3>1, <3>2 DEF Ending, ThreadsMove
  <2> QED BY <2>2, <2>3
<1>8. ASSUME NEW q \in Request PROVE OwnPointer(q)'
  <2>1. CASE q = r
    BY <1>2, <2>1 DEF OwnPointer
  <2>2. CASE q # r
    <3>1. UNCHANGED <<pc[q], cookie[q], session[q], browser[q], kind[q], sessions>>
      BY <1>1, <1>2, <2>2 DEF ThreadsMove
    <3> QED BY <1>1, <1>2, <3>1 DEF LoginParts, OwnPointer
  <2> QED BY <2>1, <2>2
<1> QED BY <1>2, <1>4, <1>5, <1>6, <1>7, <1>8 DEF LoginParts, CookieFollows, ValidOrEnding

LEMMA RestartLogin ==
    ASSUME LoginInv, Restart
    PROVE  LoginParts'
<1>1. /\ \A q \in Request : pc'[q] \notin Busy
      /\ sessions' = {} /\ UNCHANGED <<isNew, valid, username>>
      /\ \A s \in Session : heap'[s] = "unborn" => heap[s] = "unborn"
  BY DEF Restart, LoginInv, Shapes, TypeOK, Busy
<1>2. {"commit", "cookies"} \subseteq Busy
  BY DEF Busy
<1> QED BY <1>1, <1>2 DEF LoginInv, LoginParts, NewIsNew, ValidNamed, LoginHasSession,
           CookieFollows, ValidOrEnding, OwnPointer

LEMMA GarbledLogin ==
    ASSUME LoginInv, NEW r \in Request, Garbled(r)
    PROVE  LoginParts'
<1>1. /\ \A q \in Request : pc'[q] = pc[q] \/ {pc[q], pc'[q]} \cap Busy = {}
      /\ UNCHANGED <<sessions, heap, valid, isNew, username, jar, cookie, session, browser,
                      kind, name, mixed>>
      /\ LoginParts
  BY GarbledKeeps DEF LoginInv
<1>2. \A q \in Request : pc'[q] \in Busy => pc'[q] = pc[q]
  BY <1>1
<1>3. {"found", "drop", "commit", "cookies", "unhash", "free"} \subseteq Busy
  BY DEF Busy
<1>4. NewIsNew' /\ ValidNamed' /\ LoginHasSession'
  BY <1>1, <1>2, <1>3 DEF LoginParts, NewIsNew, ValidNamed, LoginHasSession
<1>5. CookieFollows'
  BY <1>1, <1>2 DEF LoginParts, CookieFollows
<1>6. \A b \in Browser, s \in Session : Holds(b, s)' => Holds(b, s)
  BY <1>1, <1>2 DEF Holds
<1>7. \A s \in Session : Ending(s) => Ending(s)'
  BY <1>1, <1>3 DEF Ending
<1>8. sessions \in SUBSET Session
  BY DEF LoginInv, Shapes, TypeOK
<1>9. ValidOrEnding'
  BY <1>1, <1>6, <1>7, <1>8 DEF LoginParts, ValidOrEnding
<1>10. \A q \in Request : OwnPointer(q)'
  BY <1>1, <1>2, <1>3 DEF LoginParts, OwnPointer
<1> QED BY <1>4, <1>5, <1>9, <1>10 DEF LoginParts

LEMMA NextLogin == LoginInv /\ [Next]_vars => LoginInv'
<1> SUFFICES ASSUME LoginInv, [Next]_vars PROVE LoginInv'
  OBVIOUS
<1>1. Shapes' /\ ActsInv'
  BY NextShapes, NextActs DEF LoginInv
<1>2. SUFFICES LoginParts'
  BY <1>1 DEF LoginInv
<1>3. CASE UNCHANGED vars
  BY <1>3 DEF vars, objects, ask, rest, LoginInv, LoginParts, NewIsNew, ValidNamed,
              LoginHasSession, CookieFollows, ValidOrEnding, OwnPointer, Holds, Ending
<1>4. ASSUME NEW r \in Request, Step(r) PROVE LoginParts'
  BY <1>4, StepNames, StepCookies, StepEnding, StepPointers DEF LoginParts
<1> QED BY <1>3, <1>4, ArriveLogin, GarbledLogin, RestartLogin DEF Next

\* A request changes its browser's cookie when it forgets it at the end of a
\* logout, or sends it with a session that is valid.
LEMMA JarMoves ==
    ASSUME Shapes, NEW r \in Request, Step(r), NEW b \in Browser, jar'[b] # jar[b]
    PROVE  /\ b = browser[r]
           /\ \/ pc[r] \in {"unhash", "free"}
              \/ /\ pc[r] = "cookies" /\ session[r] # None /\ valid[session[r]]
                 /\ jar'[b] = cookie[r] /\ UNCHANGED <<sessions, valid>>
<1>1. TypeOK
  BY DEF Shapes
<1>2. CASE SetCookie(r)
  BY <1>1, <1>2 DEF SetCookie, Answer, TypeOK, objects
<1>3. CASE Unhash(r) \/ Free(r)
  BY <1>1, <1>3 DEF Unhash, Free, Answer, TypeOK
<1> QED BY <1>2, <1>3 DEF Step, Parse, Find, KeepOrDrop, ServePage, Refuse, Enter, Logout, Commit

\* The cookie that a request sends is the one of its session or one it brought.
LEMMA AnswerIsSession ==
    ASSUME LoginInv, NEW r \in Request, pc[r] = "cookies", session[r] # None,
           browser[r] \notin mixed, ~Stale(r)
    PROVE  cookie[r] = session[r] /\ session[r] \in sessions /\ cookie[r] # None
<1>1. CookieFollows /\ OwnPointer(r)
  BY DEF LoginInv, LoginParts
<1> QED BY <1>1 DEF CookieFollows, OwnPointer, Stale, Busy

\* What a step of a request may do to a browser that is logged in.
LEMMA StepStays ==
    ASSUME LoginInv, LoginInv', NEW r \in Request, Step(r), NEW b \in Browser,
           Identity(b) # None, ~(browser[r] = b /\ (kind[r] = "logout" \/ b \in mixed \/ Stale(r)))
    PROVE  Identity(b)' # None
<1>1. /\ Shapes /\ ActsInv /\ OwnPointer(r) /\ TypeOK /\ pc[r] \in Busy /\ browser[r] \in Browser
  BY RequestMoves DEF LoginInv, LoginParts, Shapes
<1> DEFINE s == jar[b]
<1>2. s \in sessions /\ valid[s] /\ s \in Session /\ Holds(b, s)
  BY <1>1 DEF Identity, TypeOK, Holds
<1>3. SUFFICES jar'[b] \in sessions' /\ valid'[jar'[b]]
  BY DEF LoginInv, LoginParts, ValidNamed, Identity, Shapes, TypeOK
<1>4. CASE jar'[b] = s
  <2>1. s = session[r] => browser[r] = b
    BY <1>1, <1>2 DEF Holds, ActsInv, Owned, OneHolder
  <2>2. s \in sessions'
    <3>1. SUFFICES ASSUME s \notin sessions' PROVE FALSE
      OBVIOUS
    <3>2. s = session[r] /\ pc[r] \in {"drop", "unhash"}
      BY <1>1, <1>2, <3>1, SessionsMove
    <3> QED BY <1>1, <2>1, <3>2 DEF OwnPointer
  <2>3. valid'[s]
    BY <1>1, <1>2, <2>1, SessionsMove DEF EndedBy
  <2> QED BY <1>4, <2>2, <2>3
<1>5. CASE jar'[b] # s
  <2>1. /\ pc[r] = "cookies" /\ session[r] # None /\ valid[session[r]] /\ b = browser[r]
        /\ jar'[b] = cookie[r] /\ UNCHANGED <<sessions, valid>>
    BY <1>1, <1>5, JarMoves DEF OwnPointer
  <2> QED BY <2>1, AnswerIsSession
<1> QED BY <1>4, <1>5

\* For any number of requests at once: nobody is logged out but by a restart or
\* by a request of his own browser that is under way, a logout, one that has
\* overlapped a logout, or a login that answers with the stale cookie it has
\* brought; what other browsers do cannot log him out.
THEOREM LoggedInUntilLogout == Spec => StaysLoggedIn
<1>1. LoginInv /\ LoginInv' /\ [Next]_vars =>
          [\A b \in Browser :
              Identity(b) # None /\ Identity(b)' = None =>
                  \/ \E r \in Request : /\ pc[r] \in Busy /\ browser[r] = b
                                         /\ (kind[r] = "logout" \/ b \in mixed \/ Stale(r))
                  \/ restarted' # restarted]_vars
  <2> SUFFICES ASSUME LoginInv, LoginInv', Next, NEW b \in Browser,
                      Identity(b) # None, Identity(b)' = None, restarted' = restarted
               PROVE  \E r \in Request : /\ pc[r] \in Busy /\ browser[r] = b
                                          /\ (kind[r] = "logout" \/ b \in mixed \/ Stale(r))
    OBVIOUS
  <2>1. CASE Restart
    BY <2>1 DEF Restart
  <2>2. ASSUME NEW r \in Request, NEW c \in Browser, NEW k \in Kind, NEW u \in User \cup {None},
               Arrive(r, c, k, u)
        PROVE  FALSE
    BY <2>2 DEF Arrive, Identity, objects
  <2>4. ASSUME NEW r \in Request, Garbled(r) PROVE FALSE
    BY <2>4 DEF Garbled, Identity, objects
  <2>3. ASSUME NEW r \in Request, Step(r)
        PROVE  /\ pc[r] \in Busy /\ browser[r] = b
               /\ (kind[r] = "logout" \/ b \in mixed \/ Stale(r))
    BY <2>3, StepStays, RequestMoves DEF LoginInv
  <2> QED BY <2>1, <2>2, <2>3, <2>4 DEF Next
<1>2. Init => LoginInv
  BY InitShapes, InitActs, InitLogin DEF LoginInv
<1> QED BY <1>1, <1>2, NextLogin, PTL DEF Spec, StaysLoggedIn

\* For any number of requests at once: when a login that was not refused is
\* answered, the browser has the cookie of a session in the hash that is valid
\* and has a name, unless it has logged out at the same time or the request has
\* brought the cookie of another session.
THEOREM LoginIsKept == Spec => LoginTakesEffectUnlessStale
<1>1. LoginInv /\ LoginInv' /\ [Next]_vars =>
          [\A r \in Request : Welcomed(r) /\ ~Stale(r) => Identity(browser[r])' # None]_vars
  <2> SUFFICES ASSUME LoginInv, LoginInv', Next, NEW r \in Request,
                      pc[r] = "cookies", pc'[r] = "done", kind[r] = "login", name[r] # None,
                      browser[r] \notin mixed, ~Stale(r)
               PROVE  Identity(browser[r])' # None
    BY DEF Welcomed
  <2>1. /\ Shapes /\ TypeOK /\ LoginHasSession /\ session[r] # None /\ browser[r] \in Browser
    BY DEF LoginInv, LoginParts, LoginHasSession, Shapes, Shape, Busy
  <2>2. cookie[r] = session[r] /\ session[r] \in sessions /\ cookie[r] # None
    BY <2>1, AnswerIsSession
  <2>3. SetCookie(r)
    <3>1. ~Restart
      BY <2>1 DEF Restart, TypeOK, Busy
    <3>2. ASSUME NEW q \in Request, NEW c \in Browser, NEW k \in Kind, NEW u \in User \cup {None},
                 Arrive(q, c, k, u)
          PROVE  FALSE
      BY <2>1, <3>2 DEF Arrive, Goto, TypeOK
    <3>3. ASSUME NEW q \in Request, Step(q) PROVE q = r
      BY <2>1, <3>3, StepKinds DEF ThreadsMove
    <3>5. ASSUME NEW q \in Request, Garbled(q) PROVE FALSE
      BY <2>1, <3>5, GarbledKeeps DEF Busy
    <3>4. Step(r)
      BY <3>1, <3>2, <3>3, <3>5 DEF Next
    <3> QED BY <3>4 DEF Step, Parse, Find, KeepOrDrop, ServePage, Refuse, Enter, Logout, Commit,
               Unhash, Free
  <2>4. /\ valid[session[r]] /\ UNCHANGED <<sessions, valid>>
        /\ jar'[browser[r]] = cookie[r]
    BY <2>1, <2>2, <2>3 DEF SetCookie, Answer, Goto, TypeOK, objects
  <2>5. jar'[browser[r]] \in sessions' /\ valid'[jar'[browser[r]]]
    BY <2>2, <2>4
  <2>6. browser'[r] = browser[r]
    BY <2>3 DEF SetCookie, ask
  <2> QED BY <2>1, <2>5, <2>6 DEF Identity, LoginInv, LoginParts, ValidNamed, Shapes, TypeOK
<1>2. Init => LoginInv
  BY InitShapes, InitActs, InitLogin DEF LoginInv
<1> QED BY <1>1, <1>2, NextLogin, PTL DEF Spec, LoginTakesEffectUnlessStale

=============================================================================
