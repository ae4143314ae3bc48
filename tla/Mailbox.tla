------------------------------- MODULE Mailbox -------------------------------
(***************************************************************************)
(* The mail servlet (httpserver/emailservlet.cpp).  A user's mail is kept  *)
(* in cells of the store: three lists of headers, and one cell with the    *)
(* text of each mail.  Each request runs on a worker thread of its own and *)
(* changes the cells by one GET or PUT after the other, without a lock; a  *)
(* list is read, changed and put back.                                     *)
(*                                                                         *)
(* A header is a member of Mail: sender, receivers, subject and time.  The *)
(* order of a list, and a header that is in it twice, are left out: equal  *)
(* entries are removed together.                                           *)
(***************************************************************************)
EXTENDS Naturals, Sequences, Functions

CONSTANTS
    User,         \* users with an account
    Unknown,      \* names @bigtable.com without an account
    Outside,      \* addresses at another host
    Malformed,    \* addresses without a host
    Mail,         \* headers of mails
    sender,       \* [Mail -> User]
    receivers,    \* the tobox and the ccbox of a mail, a sequence
    Capitals,     \* the mails with a capital letter in their header
    Request,      \* requests that change something
    None,
    Failed,       \* "$Failed$", what GetValue returns for no value and for no answer
    Alone,        \* is there one request at a time, and not only one of each user?
    MayFail,      \* which of "GET" and "PUT" may fail, once each
    MaxCrash      \* how often the front end may die

Box    == {"receive", "send", "trash"}
Source == {"receive", "send"}
Entry  == Source \X Mail
Lists  == {Failed} \cup SUBSET Entry
Name   == User \cup Unknown \cup Outside \cup Malformed
Busy   == {"check", "rRead", "rPut", "rBody", "smtp", "sPut", "sBody",
           "dRead", "dPut", "tRead", "tPut", "eBody", "eRead", "ePut"}
Ended  == {"sent", "refused", "moved", "erased", "dead"}

ASSUME MailAssumption ==
    /\ sender \in [Mail -> User]
    /\ receivers \in [Mail -> Seq(Name)]
    /\ User \cap (Unknown \cup Outside \cup Malformed) = {}
    /\ Failed \notin Entry /\ \A v \in SUBSET Entry : Failed # v
    /\ None \notin User \cup Entry \cup {"new", "delete", "erase"}
    /\ Alone \in BOOLEAN
    /\ MaxCrash \in Nat

VARIABLES
    list,   \* list[u][b]: the headers in u's cell email:b
    body,   \* body[u]: the entries e whose cell email:e of u holds a text
    seen,   \* seen[u][b]: the entries that pages in u's browser link to
    pc,     \* where the worker thread of each request is
    kind,   \* "new", "delete" or "erase", None before a request is made
    user,   \* the user of each request
    entry,  \* the mail each request is about
    next,   \* the receiver a new mail is at
    got,    \* the list a request has read
    failed, \* which calls have failed so far
    crashes

cells  == <<list, body>>
thread == <<kind, user, entry>>
faults == <<failed, crashes>>
vars   == <<list, body, seen, pc, thread, next, got, faults>>

Init ==
    /\ list = [u \in User |-> [b \in Box |-> Failed]]
    /\ body = [u \in User |-> {}]
    /\ seen = [u \in User |-> [b \in Box |-> {}]]
    /\ pc = [r \in Request |-> "idle"]
    /\ kind = [r \in Request |-> None]
    /\ user = [r \in Request |-> None]
    /\ entry = [r \in Request |-> None]
    /\ next = [r \in Request |-> 1]
    /\ got = [r \in Request |-> Failed]
    /\ failed = {}
    /\ crashes = 0

-----------------------------------------------------------------------------
(* The calls of BigTableClient.                                            *)

Listed(u, b) == IF list[u][b] = Failed THEN {} ELSE list[u][b]

\* GetValue: a failed call looks like a cell that was never written.
GetList(r, u, b) ==
    \/ got' = [got EXCEPT ![r] = list[u][b]] /\ UNCHANGED failed
    \/ /\ "GET" \in MayFail \ failed
       /\ got' = [got EXCEPT ![r] = Failed]
       /\ failed' = failed \cup {"GET"}

\* PutValue: nobody looks at its result.
PutList(u, b, v) ==
    \/ list' = [list EXCEPT ![u][b] = v] /\ UNCHANGED failed
    \/ /\ "PUT" \in MayFail \ failed
       /\ failed' = failed \cup {"PUT"}
       /\ UNCHANGED list

PutBody(u, texts) ==
    \/ body' = [body EXCEPT ![u] = texts] /\ UNCHANGED failed
    \/ /\ "PUT" \in MayFail \ failed
       /\ failed' = failed \cup {"PUT"}
       /\ UNCHANGED body

\* Mutant of Added: the new header takes the place of the list.
AddedAlone(v, e) == {e}

\* "$Failed$" is no list: the new header becomes the first.
Added(v, e)   == IF v = Failed THEN {e} ELSE v \cup {e}

\* Mutant of Removed: "$Failed$" is put back as if it were a header.
RemovedFailed(v, e) == (IF v = Failed THEN {Failed} ELSE v) \ {e}

\* "$Failed$" is split and put back like a list.
Removed(v, e) == IF v = Failed THEN Failed ELSE v \ {e}

\* The text a user sees when he opens a mail: the request line has been put in
\* lower case, so the cell of a mail with a capital letter is not found.
Text(u, e) == IF e \in body[u] /\ e[2] \notin Capitals THEN e ELSE Failed

-----------------------------------------------------------------------------
(* The pages with lists, and the links on them.                            *)

Free(u) == \A q \in Request : pc[q] \in Busy => ~Alone /\ user[q] # u

ListPage(u, b) ==
    /\ Free(u)
    /\ seen' = [seen EXCEPT ![u][b] = @ \cup Listed(u, b)]
    /\ UNCHANGED <<cells, pc, thread, next, got, faults>>

Arrive(r, u, k, e, p) ==
    /\ pc[r] = "idle" /\ Free(u)
    /\ pc' = [pc EXCEPT ![r] = p]
    /\ kind' = [kind EXCEPT ![r] = k]
    /\ user' = [user EXCEPT ![r] = u]
    /\ entry' = [entry EXCEPT ![r] = e]
    /\ UNCHANGED <<cells, seen, next, got, faults>>

-----------------------------------------------------------------------------
(* A new mail.  Two mails get the same header when they are sent in the    *)
(* same second, which is over when a user has found the first in a list.   *)

NewMail(r, m) ==
    /\ \A q \in Request : kind[q] \in {"delete", "erase"} => entry[q][2] # m
    /\ Arrive(r, sender[m], "new", <<"send", m>>, "check")

MailOf(r)     == entry[r][2]
Receiver(r)   == receivers[MailOf(r)][next[r]]
MoreToSend(r) == next[r] <= Len(receivers[MailOf(r)])
Goto(r, p)    == pc' = [pc EXCEPT ![r] = p]

\* The front end dies with all its threads; cells and browsers remain.
Die == pc' = [q \in Request |-> IF pc[q] \in Busy THEN "dead" ELSE pc[q]]

\* Is there such a receiver?  One that is not ends the request, one without a
\* host (an index out of range) the process.
CheckReceiver(r) ==
    /\ pc[r] = "check" /\ MoreToSend(r)
    /\ \/ Receiver(r) \in User /\ Goto(r, "rRead") /\ UNCHANGED failed
       \/ /\ Receiver(r) \in User /\ "GET" \in MayFail \ failed
          /\ failed' = failed \cup {"GET"}
          /\ Goto(r, "refused")
       \/ Receiver(r) \in Unknown /\ Goto(r, "refused") /\ UNCHANGED failed
       \/ Receiver(r) \in Outside /\ Goto(r, "smtp") /\ UNCHANGED failed
       \/ Receiver(r) \in Malformed /\ Die /\ UNCHANGED failed
    /\ UNCHANGED <<cells, seen, thread, next, got, crashes>>

ReadReceived(r) ==
    /\ pc[r] = "rRead"
    /\ GetList(r, Receiver(r), "receive")
    /\ Goto(r, "rPut")
    /\ UNCHANGED <<cells, seen, thread, next, crashes>>

PutReceived(r) ==
    /\ pc[r] = "rPut"
    /\ PutList(Receiver(r), "receive", Added(got[r], <<"receive", MailOf(r)>>))
    /\ Goto(r, "rBody")
    /\ UNCHANGED <<body, seen, thread, next, got, crashes>>

\* Mutant of NextReceiver: the loop stays at one receiver.
NextReceiverSame(r) == Goto(r, "check") /\ UNCHANGED next

NextReceiver(r) ==
    /\ next' = [next EXCEPT ![r] = @ + 1]
    /\ Goto(r, "check")

\* Mutant of PutReceivedBody: the text goes to the sender.
PutReceivedBodyAtSender(r) ==
    /\ pc[r] = "rBody"
    /\ PutBody(user[r], body[user[r]] \cup {<<"receive", MailOf(r)>>})
    /\ NextReceiver(r)
    /\ UNCHANGED <<list, seen, thread, got, crashes>>

PutReceivedBody(r) ==
    /\ pc[r] = "rBody"
    /\ PutBody(Receiver(r), body[Receiver(r)] \cup {<<"receive", MailOf(r)>>})
    /\ NextReceiver(r)
    /\ UNCHANGED <<list, seen, thread, got, crashes>>

\* send_msg: the answers of the other host are read, without a timeout, and not
\* looked at.
SendOutside(r) ==
    /\ pc[r] = "smtp"
    /\ NextReceiver(r)
    /\ UNCHANGED <<cells, seen, thread, got, faults>>

\* All receivers have it: the mail is filed at its sender.
ReadSent(r) ==
    /\ pc[r] = "check" /\ ~MoreToSend(r)
    /\ GetList(r, user[r], "send")
    /\ Goto(r, "sPut")
    /\ UNCHANGED <<cells, seen, thread, next, crashes>>

PutSent(r) ==
    /\ pc[r] = "sPut"
    /\ PutList(user[r], "send", Added(got[r], entry[r]))
    /\ Goto(r, "sBody")
    /\ UNCHANGED <<body, seen, thread, next, got, crashes>>

PutSentBody(r) ==
    /\ pc[r] = "sBody"
    /\ PutBody(user[r], body[user[r]] \cup {entry[r]})
    /\ Goto(r, "sent")
    /\ UNCHANGED <<list, seen, thread, next, got, crashes>>

-----------------------------------------------------------------------------
(* /email_delete moves a header from its list to the trash.                *)

\* The link is on the page that shows the mail, found in any of the lists.
AskDelete(r, u, e) ==
    /\ \E b \in Box : e \in seen[u][b]
    /\ Arrive(r, u, "delete", e, "dRead")

ReadOld(r) ==
    /\ pc[r] = "dRead"
    /\ GetList(r, user[r], entry[r][1])
    /\ Goto(r, "dPut")
    /\ UNCHANGED <<cells, seen, thread, next, crashes>>

\* Headers are compared without regard to case.
PutOld(r) ==
    /\ pc[r] = "dPut"
    /\ PutList(user[r], entry[r][1], Removed(got[r], entry[r]))
    /\ Goto(r, "tRead")
    /\ UNCHANGED <<body, seen, thread, next, got, crashes>>

ReadTrash(r) ==
    /\ pc[r] = "tRead"
    /\ GetList(r, user[r], "trash")
    /\ Goto(r, "tPut")
    /\ UNCHANGED <<cells, seen, thread, next, crashes>>

\* Mutant of PutTrash: what is in the trash already is overwritten.
PutTrashAlone(r) ==
    /\ pc[r] = "tPut"
    /\ PutList(user[r], "trash", {entry[r]})
    /\ Goto(r, "moved")
    /\ UNCHANGED <<body, seen, thread, next, got, crashes>>

PutTrash(r) ==
    /\ pc[r] = "tPut"
    /\ PutList(user[r], "trash", Added(got[r], entry[r]))
    /\ Goto(r, "moved")
    /\ UNCHANGED <<body, seen, thread, next, got, crashes>>

-----------------------------------------------------------------------------
(* /complete_delete overwrites the text and takes the header off the trash.*)

AskErase(r, u, e) ==
    /\ e \in seen[u]["trash"]
    /\ Arrive(r, u, "erase", e, "eBody")

\* Mutant of EraseBody: both copies of a mail are erased.
EraseBodyTwice(r) ==
    /\ pc[r] = "eBody"
    /\ PutBody(user[r], IF MailOf(r) \in Capitals THEN body[user[r]]
                        ELSE body[user[r]] \ (Source \X {MailOf(r)}))
    /\ Goto(r, "eRead")
    /\ UNCHANGED <<list, seen, thread, next, got, crashes>>

\* The cell of a mail with a capital letter is not the one that is overwritten.
EraseBody(r) ==
    /\ pc[r] = "eBody"
    /\ PutBody(user[r], IF MailOf(r) \in Capitals THEN body[user[r]]
                                                  ELSE body[user[r]] \ {entry[r]})
    /\ Goto(r, "eRead")
    /\ UNCHANGED <<list, seen, thread, next, got, crashes>>

ReadErased(r) ==
    /\ pc[r] = "eRead"
    /\ GetList(r, user[r], "trash")
    /\ Goto(r, "ePut")
    /\ UNCHANGED <<cells, seen, thread, next, crashes>>

PutErased(r) ==
    /\ pc[r] = "ePut"
    /\ PutList(user[r], "trash", Removed(got[r], entry[r]))
    /\ Goto(r, "erased")
    /\ UNCHANGED <<body, seen, thread, next, got, crashes>>

-----------------------------------------------------------------------------
\* The front end can die between any two calls (also inside send_msg, when the
\* other host has no address).
Crash ==
    /\ crashes < MaxCrash
    /\ crashes' = crashes + 1
    /\ Die
    /\ UNCHANGED <<cells, seen, thread, next, got, failed>>

\* The steps of a worker thread that wait for nothing but the store.
StoreStep(r) ==
    \/ CheckReceiver(r) \/ ReadReceived(r) \/ PutReceived(r) \/ PutReceivedBody(r)
    \/ ReadSent(r) \/ PutSent(r) \/ PutSentBody(r)
    \/ ReadOld(r) \/ PutOld(r) \/ ReadTrash(r) \/ PutTrash(r)
    \/ EraseBody(r) \/ ReadErased(r) \/ PutErased(r)

Next ==
    \/ \E u \in User, b \in Box : ListPage(u, b)
    \/ \E r \in Request, m \in Mail : NewMail(r, m)
    \/ \E r \in Request, u \in User, e \in Entry : AskDelete(r, u, e) \/ AskErase(r, u, e)
    \/ \E r \in Request : StoreStep(r) \/ SendOutside(r)
    \/ Crash

Spec == Init /\ [][Next]_vars

\* A worker thread that can run is scheduled, and a call to the store ends.
FairSpec == Spec /\ \A r \in Request : WF_vars(StoreStep(r))

-----------------------------------------------------------------------------
(* Properties.                                                             *)

TypeOK ==
    /\ list \in [User -> [Box -> Lists]]
    /\ body \in [User -> SUBSET Entry]
    /\ seen \in [User -> [Box -> SUBSET Entry]]
    /\ pc \in [Request -> {"idle"} \cup Busy \cup Ended]
    /\ kind \in [Request -> {"new", "delete", "erase", None}]
    /\ user \in [Request -> User \cup {None}]
    /\ entry \in [Request -> Entry \cup {None}]
    /\ next \in [Request -> Nat \ {0}]
    /\ got \in [Request -> Lists]
    /\ failed \in SUBSET {"GET", "PUT"}
    /\ crashes \in 0..MaxCrash
    /\ \A r \in Request : pc[r] # "idle" => user[r] \in User /\ entry[r] \in Entry

\* Has u asked to throw e away, or to destroy it?
Asked(k, u, e) == \E q \in Request : kind[q] = k /\ user[q] = u /\ entry[q] = e

\* While each user does one thing at a time, his list of sent mails and his
\* trash keep what his requests have put there until he removes it himself,
\* whatever other users do and wherever the front end dies.
OwnListsKept ==
    failed = {} =>
        \A r \in Request :
            LET u == user[r]  e == entry[r] IN
            /\ pc[r] = "sent" => e \in Listed(u, "send") \/ Asked("delete", u, e)
            /\ pc[r] = "moved" => e \in Listed(u, "trash") \/ Asked("erase", u, e)

\* Has u got mail m through request r so far?
Reached(r, u) == \E j \in 1..next[r] - 1 : receivers[MailOf(r)][j] = u

\* Also when lists get lost, the text of a mail is at every receiver that the
\* sending thread has passed, and at the sender when it says "sent", until its
\* owner destroys it.
TextsKept ==
    "PUT" \notin failed =>
        \A r \in Request : kind[r] = "new" =>
            /\ pc[r] = "sent" =>
                  entry[r] \in body[user[r]] \/ Asked("erase", user[r], entry[r])
            /\ \A u \in User : Reached(r, u) =>
                  LET e == <<"receive", MailOf(r)>> IN
                  e \in body[u] \/ Asked("erase", u, e)

\* With one request at a time no mail is lost: every receiver that a request
\* has passed has the mail in his list until he throws it away, also if a later
\* receiver does not exist or the front end dies.
ReceivedKept ==
    failed = {} =>
        \A r \in Request : kind[r] = "new" =>
            \A u \in User : Reached(r, u) =>
                LET e == <<"receive", MailOf(r)>> IN
                e \in Listed(u, "receive") \/ Asked("delete", u, e)

\* With one request at a time, a mail that a receiver's list names can be opened
\* once the sending thread has passed him, unless it has a capital letter: also
\* when a request has died half way.
ListedCanBeOpened ==
    failed = {} =>
        \A r \in Request : kind[r] = "new" /\ MailOf(r) \notin Capitals =>
            \A u \in User : Reached(r, u) =>
                LET e == <<"receive", MailOf(r)>> IN
                e \in Listed(u, "receive") => Text(u, e) # Failed

\* With one request at a time and no failed call the servlet implements
\* MailStore: a mail that is on its way to the trash counts as being there.
\* A mail is in a box when it is listed and has a text.
Moving(u) == {entry[r] : r \in {q \in Request : pc[q] \in {"tRead", "tPut"} /\ user[q] = u}}

Copies(e) ==
    IF e[1] = "receive" THEN {}
    ELSE {<<u, <<"receive", e[2]>>>> : u \in Range(receivers[e[2]]) \cap User}

Boxes   == [u \in User |-> (Listed(u, "receive") \cup Listed(u, "send")) \cap body[u]]
Trashes == [u \in User |-> Listed(u, "trash") \cup Moving(u)]
Pending == {<<kind[r], user[r], entry[r]>> : r \in {q \in Request : pc[q] \in Busy}}

Promise == INSTANCE MailStore WITH
    box    <- Boxes,
    trash  <- Trashes,
    asked  <- Pending,
    deaths <- crashes,
    copies <- [e \in Entry |-> Copies(e)]

ActsAsMailStore == Promise!Spec

\* A mail to users of this system is answered, and a request to delete one is
\* carried out, unless the front end dies: only another host can hold it up.
LocalRequestsEnd ==
    \A r \in Request :
        (/\ pc[r] \in {"check", "dRead", "eBody"}
         /\ Range(receivers[MailOf(r)]) \cap Outside = {})
        ~> pc[r] \in Ended

=============================================================================
