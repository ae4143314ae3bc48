------------------------------- MODULE Sessions -------------------------------
(***************************************************************************)
(* Sessions of the web front end: httpserver/servletmanager, httprequest,  *)
(* httpresponse, and the servlets that make and end sessions.  A request   *)
(* runs on a thread of its own and holds a pointer to its session object   *)
(* from parseSession to Cookie_Commit; a hash maps the value of the cookie *)
(* to the object.  Nothing is locked and objects are not counted: the      *)
(* request that finds its session invalid at the end deletes it.           *)
(*                                                                         *)
(* isValid also compares the time from the last access to the creation of  *)
(* a session, which is never positive, with an hour: no session expires,   *)
(* and isValid_status alone decides.                                       *)
(***************************************************************************)
EXTENDS FiniteSets

CONSTANTS
    Browser,
    User,
    Request,
    Session,   \* ids (QUuid::createUuid), of which each is used once
    None,
    MayRestart \* can the front end die and be started again, once?

\* What a request asks for: a page (/home, /email and so on); /login, as which
\* /signup and /session1 count, that refuse nobody; /logout or /session2.
Kind    == {"page", "login", "logout"}
Busy    == {"parse", "found", "keep", "drop", "serve", "commit", "cookies", "unhash", "free"}

ASSUME SessionsAssumption ==
    /\ None \notin Session /\ None \notin User /\ None \notin Browser
    /\ MayRestart \in BOOLEAN

VARIABLES
    sessions, \* the ids in the hash
    heap,     \* heap[s]: "unborn", "live" or "freed"
    valid,    \* isValid_status of each session object
    isNew,    \* isNew_status
    username, \* its attribute
    jar,      \* jar[b]: the JSESSIONID cookie of browser b
    pc,       \* where the worker thread of each request is
    browser, kind,
    name,     \* the user who wants to log in, None if he may not
    cookie,   \* the JSESSIONID among the request's cookies
    session,  \* the request's pointer
    broken,   \* has a freed object, or no object, been used?
    restarted,
    \* history
    entered,  \* who has logged in at a browser since it logged out
    mixed     \* the browsers where a logout has overlapped another request

objects == <<heap, valid, isNew, username>>
ask     == <<browser, kind>>
rest    == <<restarted, entered, mixed>>
vars    == <<sessions, objects, jar, pc, ask, name, cookie, session, broken, rest>>

Init ==
    /\ sessions = {}
    /\ heap = [s \in Session |-> "unborn"]
    /\ valid = [s \in Session |-> FALSE]
    /\ isNew = [s \in Session |-> TRUE]
    /\ username = [s \in Session |-> None]
    /\ jar = [b \in Browser |-> None]
    /\ pc = [r \in Request |-> "idle"]
    /\ browser = [r \in Request |-> None]
    /\ kind = [r \in Request |-> None]
    /\ name = [r \in Request |-> None]
    /\ cookie = [r \in Request |-> None]
    /\ session = [r \in Request |-> None]
    /\ broken = FALSE
    /\ restarted = FALSE
    /\ entered = [b \in Browser |-> {}]
    /\ mixed = {}

Goto(r, p) == pc' = [pc EXCEPT ![r] = p]

\* Using a pointer to a freed object, or NULL, is undefined behaviour.
Use(s) == broken' = (broken \/ s = None \/ heap[s] # "live")

-----------------------------------------------------------------------------
(* A request arrives and finds its session.                                *)

\* Does a request of kind k overlap a logout of its browser, or the other way?
Mixes(b, k) ==
    \E q \in Request : /\ pc[q] \in Busy /\ browser[q] = b
                       /\ "logout" \in {k, kind[q]}

\* What the socket holds when the request is parsed may end before the cookies.
Arrive(r, b, k, u) ==
    /\ pc[r] = "idle"
    /\ (u = None) = (k # "login")
    /\ browser' = [browser EXCEPT ![r] = b]
    /\ kind' = [kind EXCEPT ![r] = k]
    /\ name' = [name EXCEPT ![r] = u]
    /\ \/ cookie' = [cookie EXCEPT ![r] = jar[b]]
       \/ UNCHANGED cookie
    /\ Goto(r, "parse")
    /\ mixed' = IF Mixes(b, k) THEN mixed \cup {b} ELSE mixed
    /\ UNCHANGED <<sessions, objects, jar, session, broken, restarted, entered>>

\* A request that cannot be parsed has no path and is answered 404.  Its session
\* pointer was never set, and committing the answer goes after it unless it
\* happens to be NULL.
Garbled(r) ==
    /\ pc[r] = "idle"
    /\ \/ Goto(r, "done") /\ UNCHANGED broken
       \/ Goto(r, "wild") /\ broken' = TRUE
    /\ UNCHANGED <<sessions, objects, jar, ask, name, cookie, session, rest>>

\* parseSession, and sessions.contains(name).
Parse(r) ==
    /\ pc[r] = "parse"
    /\ Goto(r, IF cookie[r] \in sessions THEN "found" ELSE "serve")
    /\ UNCHANGED <<sessions, objects, jar, ask, name, cookie, session, broken, rest>>

\* sessions.value(name) is NULL if another thread has removed it meanwhile.
Find(r) ==
    /\ pc[r] = "found"
    /\ IF cookie[r] \in sessions
       THEN /\ Use(cookie[r])
            /\ session' = [session EXCEPT ![r] = cookie[r]]
            /\ isNew' = [isNew EXCEPT ![cookie[r]] = FALSE]
            /\ Goto(r, IF valid[cookie[r]] THEN "keep" ELSE "drop")
       ELSE broken' = TRUE /\ UNCHANGED <<session, isNew, pc>>
    /\ UNCHANGED <<sessions, heap, valid, username, jar, ask, name, cookie, rest>>

\* Mutant of KeepOrDrop: a valid session is removed too.
KeepOrDropDrops(r) ==
    /\ pc[r] \in {"keep", "drop"}
    /\ sessions' = sessions \ {session[r]}
    /\ Use(session[r])
    /\ Goto(r, "serve")
    /\ UNCHANGED <<objects, jar, ask, name, cookie, session, rest>>

\* A valid session is put into the hash again, an invalid one is removed, and
\* either is returned.
KeepOrDrop(r) ==
    /\ \/ pc[r] = "keep" /\ sessions' = sessions \cup {session[r]} /\ UNCHANGED broken
       \/ pc[r] = "drop" /\ sessions' = sessions \ {session[r]} /\ Use(session[r])
    /\ Goto(r, "serve")
    /\ UNCHANGED <<objects, jar, ask, name, cookie, session, rest>>

-----------------------------------------------------------------------------
(* The servlets.                                                           *)

\* The user's name is read for the page, if there is a session.
ServePage(r) ==
    /\ pc[r] = "serve" /\ kind[r] = "page"
    /\ IF session[r] = None THEN UNCHANGED broken ELSE Use(session[r])
    /\ Goto(r, "commit")
    /\ UNCHANGED <<sessions, objects, jar, ask, name, cookie, session, rest>>

\* Mutant of Refuse: the session is made in spite of the refusal.
RefuseFallsThrough(r) ==
    /\ pc[r] = "serve" /\ kind[r] = "login" /\ name[r] # None
    /\ name' = [name EXCEPT ![r] = None]
    /\ UNCHANGED <<sessions, objects, jar, pc, ask, cookie, session, broken, rest>>

\* The password is wrong, there is no such user, or the store does not answer.
Refuse(r) ==
    /\ pc[r] = "serve" /\ kind[r] = "login"
    /\ name' = [name EXCEPT ![r] = None]
    /\ Goto(r, "commit")
    /\ UNCHANGED <<sessions, objects, jar, ask, cookie, session, broken, rest>>

\* HttpGetSession(true) makes a session only if the request has none.
Create(r, s) ==
    /\ session[r] = None
    /\ heap[s] = "unborn"
    /\ heap' = [heap EXCEPT ![s] = "live"]
    /\ valid' = [valid EXCEPT ![s] = TRUE]
    /\ sessions' = sessions \cup {s}
    /\ session' = [session EXCEPT ![r] = s]
    /\ UNCHANGED broken

Reuse(r, s) ==
    /\ session[r] = s
    /\ Use(s)
    /\ UNCHANGED <<heap, valid, sessions, session>>

\* The session, an old one too, gets the name of the user.
Enter(r) ==
    /\ pc[r] = "serve" /\ kind[r] = "login"
    /\ \E s \in Session :
          /\ Create(r, s) \/ Reuse(r, s)
          /\ username' = [username EXCEPT ![s] = name[r]]
    /\ entered' = [entered EXCEPT ![browser[r]] = @ \cup {name[r]}]
    /\ Goto(r, "commit")
    /\ UNCHANGED <<isNew, jar, ask, name, cookie, restarted, mixed>>

\* Mutant of Logout: the session is deleted at once.
LogoutDeletes(r) ==
    /\ pc[r] = "serve" /\ kind[r] = "logout"
    /\ IF session[r] = None
       THEN UNCHANGED <<heap, broken, entered>>
       ELSE /\ Use(session[r])
            /\ heap' = [heap EXCEPT ![session[r]] = "freed"]
            /\ entered' = [entered EXCEPT ![browser[r]] = {}]
    /\ Goto(r, "commit")
    /\ UNCHANGED <<sessions, valid, isNew, username, jar, ask, name, cookie, session,
                   restarted, mixed>>

\* Mutant of Logout: the session stays valid.
LogoutStays(r) ==
    /\ pc[r] = "serve" /\ kind[r] = "logout"
    /\ IF session[r] = None
       THEN UNCHANGED <<broken, entered>>
       ELSE /\ Use(session[r])
            /\ entered' = [entered EXCEPT ![browser[r]] = {}]
    /\ Goto(r, "commit")
    /\ UNCHANGED <<sessions, objects, jar, ask, name, cookie, session, restarted, mixed>>

Logout(r) ==
    /\ pc[r] = "serve" /\ kind[r] = "logout"
    /\ IF session[r] = None
       THEN UNCHANGED <<valid, broken, entered>>
       ELSE /\ Use(session[r])
            /\ valid' = [valid EXCEPT ![session[r]] = FALSE]
            /\ entered' = [entered EXCEPT ![browser[r]] = {}]
    /\ Goto(r, "commit")
    /\ UNCHANGED <<sessions, heap, isNew, username, jar, ask, name, cookie, session,
                   restarted, mixed>>

-----------------------------------------------------------------------------
(* The response.                                                           *)

\* Mutant of Commit: a session gets a cookie when it is not new.
CommitNotNew(r) ==
    /\ pc[r] = "commit"
    /\ IF session[r] = None
       THEN UNCHANGED <<cookie, broken>>
       ELSE /\ Use(session[r])
            /\ cookie' = IF cookie[r] = None /\ ~isNew[session[r]] /\ valid[session[r]]
                         THEN [cookie EXCEPT ![r] = session[r]] ELSE cookie
    /\ Goto(r, "cookies")
    /\ UNCHANGED <<sessions, objects, jar, ask, name, session, rest>>

\* commit: a new session gets a cookie.  It is put into a set of cookies that
\* compares them by name, and does not replace one that the request has brought.
Commit(r) ==
    /\ pc[r] = "commit"
    /\ IF session[r] = None
       THEN UNCHANGED <<cookie, broken>>
       ELSE /\ Use(session[r])
            /\ cookie' = IF cookie[r] = None /\ isNew[session[r]] /\ valid[session[r]]
                         THEN [cookie EXCEPT ![r] = session[r]] ELSE cookie
    /\ Goto(r, "cookies")
    /\ UNCHANGED <<sessions, objects, jar, ask, name, session, rest>>

Answer(r, c) == jar' = [jar EXCEPT ![browser[r]] = c] /\ Goto(r, "done")

\* Cookie_Commit.
SetCookie(r) ==
    /\ pc[r] = "cookies"
    /\ IF session[r] = None \/ cookie[r] = None
       THEN Goto(r, "done") /\ UNCHANGED <<jar, broken>>
       ELSE /\ Use(session[r])
            /\ IF valid[session[r]] THEN Answer(r, cookie[r])
                                    ELSE Goto(r, "unhash") /\ UNCHANGED jar
    /\ UNCHANGED <<sessions, objects, ask, name, cookie, session, rest>>

\* deleteSession: no object is found if another thread has removed it.
Unhash(r) ==
    /\ pc[r] = "unhash"
    /\ sessions' = sessions \ {session[r]}
    /\ IF session[r] \in sessions THEN Goto(r, "free") /\ UNCHANGED jar
                                  ELSE Answer(r, None)
    /\ UNCHANGED <<objects, ask, name, cookie, session, broken, rest>>

\* The answer makes the browser forget its cookie.
Free(r) ==
    /\ pc[r] = "free"
    /\ Use(session[r])
    /\ heap' = [heap EXCEPT ![session[r]] = "freed"]
    /\ Answer(r, None)
    /\ UNCHANGED <<sessions, valid, isNew, username, ask, name, cookie, session, rest>>

-----------------------------------------------------------------------------
\* The front end dies and is started again: sessions are in memory only.
Restart ==
    /\ MayRestart /\ ~restarted
    /\ restarted' = TRUE
    /\ sessions' = {}
    /\ heap' = [s \in Session |-> IF heap[s] = "unborn" THEN "unborn" ELSE "freed"]
    /\ pc' = [r \in Request |-> IF pc[r] \in Busy THEN "dead" ELSE pc[r]]
    /\ entered' = [b \in Browser |-> {}]
    /\ mixed' = {}
    /\ UNCHANGED <<valid, isNew, username, jar, ask, name, cookie, session, broken>>

Step(r) ==
    \/ Parse(r) \/ Find(r) \/ KeepOrDrop(r)
    \/ ServePage(r) \/ Refuse(r) \/ Enter(r) \/ Logout(r)
    \/ Commit(r) \/ SetCookie(r) \/ Unhash(r) \/ Free(r)

Next ==
    /\ ~broken
    /\ \/ \E r \in Request, b \in Browser, k \in Kind, u \in User \cup {None} :
             Arrive(r, b, k, u)
       \/ \E r \in Request : Garbled(r) \/ Step(r)
       \/ Restart

Spec == Init /\ [][Next]_vars

-----------------------------------------------------------------------------
(* Properties.                                                             *)

TypeOK ==
    /\ sessions \in SUBSET Session
    /\ heap \in [Session -> {"unborn", "live", "freed"}]
    /\ valid \in [Session -> BOOLEAN] /\ isNew \in [Session -> BOOLEAN]
    /\ username \in [Session -> User \cup {None}]
    /\ jar \in [Browser -> Session \cup {None}]
    /\ pc \in [Request -> Busy \cup {"idle", "done", "dead", "wild"}]
    /\ browser \in [Request -> Browser \cup {None}]
    /\ kind \in [Request -> Kind \cup {None}]
    /\ name \in [Request -> User \cup {None}]
    /\ cookie \in [Request -> Session \cup {None}]
    /\ session \in [Request -> Session \cup {None}]
    /\ broken \in BOOLEAN /\ restarted \in BOOLEAN
    /\ entered \in [Browser -> SUBSET User]
    /\ mixed \in SUBSET Browser

\* As long as every browser lets its other requests finish before it logs out,
\* no thread uses a session that another has deleted, and none is deleted twice;
\* what is used then is the pointer that a garbled request has never set.
NothingFreedIsUsed == broken => mixed # {} \/ \E r \in Request : pc[r] = "wild"

\* The user as whom a request with browser b's cookie would be answered.
Identity(b) ==
    IF jar[b] \in sessions /\ valid[jar[b]] THEN username[jar[b]] ELSE None

\* A browser acts for nobody but a user who has logged in there since the last
\* logout or restart, also when others overlap their requests and theirs fail.
ActsForEntered ==
    \A b \in Browser \ mixed : Identity(b) # None => Identity(b) \in entered[b]

\* The request has brought the cookie of another session than the one it made.
Stale(r) == session[r] # None /\ cookie[r] \notin {None, session[r]}

\* Nobody is logged out but by a restart or a request of his own browser that is
\* under way: a logout, one that has overlapped a logout, or a login that answers
\* with the stale cookie it has brought.
StaysLoggedIn ==
    [][\A b \in Browser :
          Identity(b) # None /\ Identity(b)' = None =>
              \/ \E r \in Request : /\ pc[r] \in Busy /\ browser[r] = b
                                     /\ (kind[r] = "logout" \/ b \in mixed \/ Stale(r))
              \/ restarted' # restarted]_vars

\* The answer to a login that was not refused, of a browser that has not logged
\* out at the same time.
Welcomed(r) ==
    /\ pc[r] = "cookies" /\ pc'[r] = "done"
    /\ kind[r] = "login" /\ name[r] # None
    /\ browser[r] \notin mixed

\* When "Thank you for login" is answered, the browser is logged in.
LoginTakesEffect ==
    [][\A r \in Request : Welcomed(r) => Identity(browser[r])' # None]_vars

\* So it is, except where the request has brought a stale cookie.
LoginTakesEffectUnlessStale ==
    [][\A r \in Request : Welcomed(r) /\ ~Stale(r) => Identity(browser[r])' # None]_vars

=============================================================================
