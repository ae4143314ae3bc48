---------------------------- MODULE MailboxProofs ----------------------------
(***************************************************************************)
(* Theorems about Mailbox.tla, for any users, mails, addresses, requests,  *)
(* failing calls and number of crashes.                                    *)
(***************************************************************************)
EXTENDS Mailbox, TLAPS, SequenceTheorems

-----------------------------------------------------------------------------
(* Stages: what a worker thread knows at each point.                       *)

Sending  == {"check", "rRead", "rPut", "rBody", "smtp", "sPut", "sBody", "sent"}
Deleting == {"dRead", "dPut", "tRead", "tPut", "moved"}
Erasing  == {"eBody", "eRead", "ePut", "erased"}

Stage(r) ==
    /\ pc[r] = "idle" => kind[r] = None /\ next[r] = 1
    /\ pc[r] \in Sending => kind[r] = "new"
    /\ pc[r] \in Deleting => kind[r] = "delete"
    /\ pc[r] \in Erasing => kind[r] = "erase"
    /\ kind[r] = "new" => pc[r] # "idle" /\ entry[r][1] = "send"
    /\ pc[r] \in {"rRead", "rPut", "rBody"} => MoreToSend(r) /\ Receiver(r) \in User
    /\ pc[r] = "smtp" => MoreToSend(r) /\ Receiver(r) \in Outside

StageInv == TypeOK /\ \A r \in Request : Stage(r)

LEMMA EntryParts == \A e \in Entry : e[1] \in Source /\ e[2] \in Mail
BY DEF Entry

LEMMA NewEntry == \A s \in Source, m \in Mail : <<s, m>> \in Entry
BY DEF Entry

\* A list with an entry more or less is a list.
LEMMA ListsClosed ==
    ASSUME NEW v \in Lists, NEW e \in Entry
    PROVE  Added(v, e) \in Lists /\ Removed(v, e) \in Lists
BY DEF Lists, Added, Removed

LEMMA GetListType ==
    ASSUME TypeOK, NEW r \in Request, NEW u \in User, NEW b \in Box, GetList(r, u, b)
    PROVE  /\ got' \in [Request -> Lists] /\ failed' \in SUBSET {"GET", "PUT"}
           /\ failed \subseteq failed'
           /\ \A q \in Request \ {r} : got'[q] = got[q]
           /\ failed' = {} => failed = {} /\ got'[r] = list[u][b]
<1>1. list[u][b] \in Lists /\ Failed \in Lists
  BY DEF TypeOK, Lists
<1>2. CASE got' = [got EXCEPT ![r] = list[u][b]] /\ UNCHANGED failed
  BY <1>1, <1>2 DEF TypeOK
<1>3. CASE /\ got' = [got EXCEPT ![r] = Failed]
           /\ failed' = failed \cup {"GET"}
  BY <1>1, <1>3 DEF TypeOK
<1> QED BY <1>2, <1>3 DEF GetList

LEMMA PutListType ==
    ASSUME TypeOK, NEW u \in User, NEW b \in Box, NEW v \in Lists, PutList(u, b, v)
    PROVE  /\ list' \in [User -> [Box -> Lists]] /\ failed' \in SUBSET {"GET", "PUT"}
           /\ failed \subseteq failed'
           /\ \A w \in User, c \in Box : (w # u \/ c # b) => list'[w][c] = list[w][c]
           /\ failed' = {} => failed = {} /\ list'[u][b] = v
<1>1. CASE list' = [list EXCEPT ![u][b] = v] /\ UNCHANGED failed
  BY <1>1 DEF TypeOK
<1>2. CASE failed' = failed \cup {"PUT"} /\ UNCHANGED list
  BY <1>2 DEF TypeOK
<1> QED BY <1>1, <1>2 DEF PutList

LEMMA PutBodyType ==
    ASSUME TypeOK, NEW u \in User, NEW texts \in SUBSET Entry, PutBody(u, texts)
    PROVE  /\ body' \in [User -> SUBSET Entry] /\ failed' \in SUBSET {"GET", "PUT"}
           /\ failed \subseteq failed'
           /\ \A w \in User \ {u} : body'[w] = body[w]
           /\ "PUT" \notin failed' => "PUT" \notin failed /\ body'[u] = texts
<1>1. CASE body' = [body EXCEPT ![u] = texts] /\ UNCHANGED failed
  BY <1>1 DEF TypeOK
<1>2. CASE failed' = failed \cup {"PUT"} /\ UNCHANGED body
  BY <1>2 DEF TypeOK
<1> QED BY <1>1, <1>2 DEF PutBody

LEMMA InitStage == Init => StageInv
<1> SUFFICES ASSUME Init PROVE StageInv
  OBVIOUS
<1>1. Failed \in Lists /\ Box # {}
  BY DEF Lists, Box
<1>2. TypeOK
  BY <1>1, MailAssumption DEF Init, TypeOK, Busy, Ended
<1>3. \A r \in Request : Stage(r)
  BY MailAssumption DEF Init, Stage, Sending, Deleting, Erasing
<1> QED BY <1>2, <1>3 DEF StageInv

\* The three kinds of calls keep the types.
LEMMA ReadStep ==
    ASSUME TypeOK, NEW r \in Request, NEW u \in User, NEW b \in Box, NEW p \in Busy,
           pc[r] # "idle", GetList(r, u, b), Goto(r, p),
           UNCHANGED <<cells, seen, thread, next, crashes>>
    PROVE  TypeOK'
BY GetListType DEF TypeOK, Goto, cells, thread

LEMMA PutListStep ==
    ASSUME TypeOK, NEW r \in Request, NEW u \in User, NEW b \in Box, NEW v \in Lists,
           NEW p \in Busy \cup Ended,
           pc[r] # "idle", PutList(u, b, v), Goto(r, p),
           UNCHANGED <<body, seen, thread, next, got, crashes>>
    PROVE  TypeOK'
<1>1. list' \in [User -> [Box -> Lists]] /\ failed' \in SUBSET {"GET", "PUT"}
  BY PutListType
<1> QED BY <1>1 DEF TypeOK, Goto, thread

LEMMA PutBodyStep ==
    ASSUME TypeOK, NEW r \in Request, NEW u \in User, NEW texts \in SUBSET Entry,
           NEW p \in Busy \cup Ended,
           pc[r] # "idle", PutBody(u, texts), Goto(r, p),
           next' \in [Request -> Nat \ {0}],
           UNCHANGED <<list, seen, thread, got, crashes>>
    PROVE  TypeOK'
<1>1. body' \in [User -> SUBSET Entry] /\ failed' \in SUBSET {"GET", "PUT"}
  BY PutBodyType
<1> QED BY <1>1 DEF TypeOK, Goto, thread

\* A step of one thread keeps the stages of the others.
LEMMA StageKept ==
    ASSUME StageInv, TypeOK', NEW r \in Request,
           \A q \in Request \ {r} : UNCHANGED <<pc[q], kind[q], entry[q], next[q]>>,
           Stage(r)'
    PROVE  StageInv'
BY DEF StageInv, Stage, MoreToSend, Receiver, MailOf

LEMMA ArriveStage ==
    ASSUME StageInv, NEW r \in Request, NEW u \in User, NEW e \in Entry,
           NEW k \in {"new", "delete", "erase"}, NEW p,
           \/ k = "new" /\ p = "check" /\ e[1] = "send"
           \/ k = "delete" /\ p = "dRead"
           \/ k = "erase" /\ p = "eBody",
           Arrive(r, u, k, e, p)
    PROVE  StageInv'
<1>1. /\ pc' = [pc EXCEPT ![r] = p] /\ kind' = [kind EXCEPT ![r] = k]
      /\ user' = [user EXCEPT ![r] = u] /\ entry' = [entry EXCEPT ![r] = e]
      /\ UNCHANGED <<cells, seen, next, got, faults>>
  BY DEF Arrive
<1>2. p \in {"check", "dRead", "eBody"}
  OBVIOUS
<1>3. TypeOK'
  BY <1>1, <1>2 DEF StageInv, TypeOK, Busy, cells, faults
<1>4. /\ pc'[r] = p /\ kind'[r] = k /\ entry'[r] = e
      /\ \A q \in Request \ {r} : UNCHANGED <<pc[q], kind[q], entry[q], next[q]>>
  BY <1>1 DEF StageInv, TypeOK
<1>5. Stage(r)'
  BY <1>2, <1>4, MailAssumption DEF Stage, Sending, Deleting, Erasing
<1> QED BY <1>3, <1>4, <1>5, StageKept

\* The receiver that a sending thread is at.
LEMMA ReceiverType ==
    ASSUME TypeOK, NEW r \in Request, pc[r] # "idle", MoreToSend(r)
    PROVE  /\ MailOf(r) \in Mail
           /\ Receiver(r) \in Name
           /\ next[r] \in 1 .. Len(receivers[MailOf(r)])
<1>1. MailOf(r) \in Mail
  BY EntryParts DEF TypeOK, MailOf
<1>2. receivers[MailOf(r)] \in Seq(Name)
  BY <1>1, MailAssumption
<1>3. next[r] \in 1 .. Len(receivers[MailOf(r)])
  BY <1>2, LenProperties DEF MoreToSend, TypeOK
<1> QED BY <1>1, <1>2, <1>3, ElementOfSeq DEF Receiver

LEMMA SendStage ==
    ASSUME StageInv, NEW r \in Request,
           \/ CheckReceiver(r) /\ ~Die
           \/ ReadReceived(r) \/ PutReceived(r) \/ PutReceivedBody(r) \/ SendOutside(r)
           \/ ReadSent(r) \/ PutSent(r) \/ PutSentBody(r)
    PROVE  StageInv'
<1> USE DEF StageInv
<1>1. CASE CheckReceiver(r) /\ ~Die
  <2>1. /\ pc[r] = "check" /\ MoreToSend(r)
        /\ UNCHANGED <<cells, seen, thread, next, got, crashes>>
    BY <1>1 DEF CheckReceiver
  <2>2. PICK p \in {"rRead", "refused", "smtp"} :
           /\ Goto(r, p)
           /\ p = "rRead" => Receiver(r) \in User
           /\ p = "smtp" => Receiver(r) \in Outside
    BY <1>1 DEF CheckReceiver
  <2>3. failed' \in SUBSET {"GET", "PUT"}
    BY <1>1 DEF CheckReceiver, TypeOK
  <2>4. /\ pc' = [pc EXCEPT ![r] = p] /\ pc'[r] = p
        /\ \A q \in Request \ {r} : UNCHANGED <<pc[q], kind[q], entry[q], next[q]>>
    BY <2>1, <2>2 DEF Goto, TypeOK, thread
  <2>5. TypeOK'
    BY <2>1, <2>3, <2>4 DEF TypeOK, cells, thread, Busy, Ended
  <2>6. Stage(r)'
    BY <2>1, <2>2, <2>4 DEF Stage, Sending, Deleting, Erasing, thread,
                            MoreToSend, Receiver, MailOf
  <2> QED BY <2>4, <2>5, <2>6, StageKept
<1>2. CASE ReadReceived(r)
  <2>1. pc[r] = "rRead" /\ Receiver(r) \in User /\ "receive" \in Box
    BY <1>2 DEF ReadReceived, Stage, Box
  <2>2. TypeOK'
    BY <1>2, <2>1, ReadStep DEF ReadReceived, Busy
  <2>3. /\ pc'[r] = "rPut" /\ UNCHANGED <<thread, next>>
        /\ \A q \in Request \ {r} : UNCHANGED pc[q]
    BY <1>2 DEF ReadReceived, Goto, TypeOK
  <2>4. Stage(r)'
    BY <2>1, <2>3 DEF Stage, Sending, Deleting, Erasing, thread, MoreToSend, Receiver, MailOf
  <2> QED BY <2>2, <2>3, <2>4, StageKept DEF thread
<1>3. CASE PutReceived(r)
  <2>1. pc[r] = "rPut" /\ MoreToSend(r) /\ Receiver(r) \in User /\ "receive" \in Box
    BY <1>3 DEF PutReceived, Stage, Box
  <2>2. Added(got[r], <<"receive", MailOf(r)>>) \in Lists
    BY <2>1, ReceiverType, NewEntry, ListsClosed DEF TypeOK, Source
  <2>3. TypeOK'
    BY <1>3, <2>1, <2>2, PutListStep DEF PutReceived, Busy
  <2>4. /\ pc'[r] = "rBody" /\ UNCHANGED <<thread, next>>
        /\ \A q \in Request \ {r} : UNCHANGED pc[q]
    BY <1>3 DEF PutReceived, Goto, TypeOK
  <2>5. Stage(r)'
    BY <2>1, <2>4 DEF Stage, Sending, Deleting, Erasing, thread, MoreToSend, Receiver, MailOf
  <2> QED BY <2>3, <2>4, <2>5, StageKept DEF thread
<1>4. CASE PutReceivedBody(r)
  <2>1. pc[r] = "rBody" /\ MoreToSend(r) /\ Receiver(r) \in User
    BY <1>4 DEF PutReceivedBody, Stage
  <2>2. body[Receiver(r)] \cup {<<"receive", MailOf(r)>>} \in SUBSET Entry
    BY <2>1, ReceiverType, NewEntry DEF TypeOK, Source
  <2>3. next' = [next EXCEPT ![r] = @ + 1] /\ Goto(r, "check")
    BY <1>4 DEF PutReceivedBody, NextReceiver
  <2>4. next' \in [Request -> Nat \ {0}]
    BY <2>3 DEF TypeOK
  <2>5. TypeOK'
    BY <1>4, <2>1, <2>2, <2>3, <2>4, PutBodyStep DEF PutReceivedBody, Busy
  <2>6. /\ pc'[r] = "check" /\ UNCHANGED thread
        /\ \A q \in Request \ {r} : UNCHANGED <<pc[q], next[q]>>
    BY <1>4, <2>3 DEF PutReceivedBody, Goto, TypeOK
  <2>7. Stage(r)'
    BY <2>1, <2>6 DEF Stage, Sending, Deleting, Erasing, thread
  <2> QED BY <2>5, <2>6, <2>7, StageKept DEF thread
<1>5. CASE SendOutside(r)
  <2>1. /\ pc[r] = "smtp" /\ next' = [next EXCEPT ![r] = @ + 1] /\ Goto(r, "check")
        /\ UNCHANGED <<cells, seen, thread, got, faults>>
    BY <1>5 DEF SendOutside, NextReceiver
  <2>2. TypeOK'
    BY <2>1 DEF TypeOK, Goto, Busy, cells, thread, faults
  <2>3. /\ pc'[r] = "check"
        /\ \A q \in Request \ {r} : UNCHANGED <<pc[q], next[q]>>
    BY <2>1 DEF Goto, TypeOK
  <2>4. Stage(r)'
    BY <2>1, <2>3 DEF Stage, Sending, Deleting, Erasing, thread
  <2> QED BY <2>1, <2>2, <2>3, <2>4, StageKept DEF thread
<1>6. CASE ReadSent(r)
  <2>1. pc[r] = "check" /\ user[r] \in User /\ "send" \in Box
    BY <1>6 DEF ReadSent, TypeOK, Box
  <2>2. TypeOK'
    BY <1>6, <2>1, ReadStep DEF ReadSent, Busy
  <2>3. /\ pc'[r] = "sPut" /\ UNCHANGED <<thread, next>>
        /\ \A q \in Request \ {r} : UNCHANGED pc[q]
    BY <1>6 DEF ReadSent, Goto, TypeOK
  <2>4. Stage(r)'
    BY <2>1, <2>3 DEF Stage, Sending, Deleting, Erasing, thread
  <2> QED BY <2>2, <2>3, <2>4, StageKept DEF thread
<1>7. CASE PutSent(r)
  <2>1. pc[r] = "sPut" /\ user[r] \in User /\ entry[r] \in Entry /\ "send" \in Box
    BY <1>7 DEF PutSent, TypeOK, Box
  <2>2. Added(got[r], entry[r]) \in Lists
    BY <2>1, ListsClosed DEF TypeOK
  <2>3. TypeOK'
    BY <1>7, <2>1, <2>2, PutListStep DEF PutSent, Busy
  <2>4. /\ pc'[r] = "sBody" /\ UNCHANGED <<thread, next>>
        /\ \A q \in Request \ {r} : UNCHANGED pc[q]
    BY <1>7 DEF PutSent, Goto, TypeOK
  <2>5. Stage(r)'
    BY <2>1, <2>4 DEF Stage, Sending, Deleting, Erasing, thread
  <2> QED BY <2>3, <2>4, <2>5, StageKept DEF thread
<1>8. CASE PutSentBody(r)
  <2>1. pc[r] = "sBody" /\ user[r] \in User /\ entry[r] \in Entry
    BY <1>8 DEF PutSentBody, TypeOK
  <2>2. body[user[r]] \cup {entry[r]} \in SUBSET Entry
    BY <2>1 DEF TypeOK
  <2>3. next' \in [Request -> Nat \ {0}]
    BY <1>8 DEF PutSentBody, TypeOK
  <2>4. TypeOK'
    BY <1>8, <2>1, <2>2, <2>3, PutBodyStep DEF PutSentBody, Ended
  <2>5. /\ pc'[r] = "sent" /\ UNCHANGED <<thread, next>>
        /\ \A q \in Request \ {r} : UNCHANGED pc[q]
    BY <1>8 DEF PutSentBody, Goto, TypeOK
  <2>6. Stage(r)'
    BY <2>1, <2>5 DEF Stage, Sending, Deleting, Erasing, thread
  <2> QED BY <2>4, <2>5, <2>6, StageKept DEF thread
<1> QED BY <1>1, <1>2, <1>3, <1>4, <1>5, <1>6, <1>7, <1>8

LEMMA DeleteStage ==
    ASSUME StageInv, NEW r \in Request,
           \/ ReadOld(r) \/ PutOld(r) \/ ReadTrash(r) \/ PutTrash(r)
           \/ EraseBody(r) \/ ReadErased(r) \/ PutErased(r)
    PROVE  StageInv'
<1> USE DEF StageInv
<1>1. pc[r] \in Deleting \cup Erasing /\ pc[r] # "idle"
  BY DEF ReadOld, PutOld, ReadTrash, PutTrash, EraseBody, ReadErased, PutErased,
         Deleting, Erasing
<1>2. user[r] \in User /\ entry[r] \in Entry /\ MailOf(r) \in Mail
  BY <1>1, EntryParts DEF TypeOK, MailOf
<1>3. "trash" \in Box /\ entry[r][1] \in Box
  BY <1>2, EntryParts DEF Source, Box
<1>4. /\ Added(got[r], entry[r]) \in Lists /\ Removed(got[r], entry[r]) \in Lists
  BY <1>2, ListsClosed DEF TypeOK
<1>5. /\ UNCHANGED <<thread, next>>
      /\ \A q \in Request \ {r} : UNCHANGED pc[q]
  BY DEF ReadOld, PutOld, ReadTrash, PutTrash, EraseBody, ReadErased, PutErased,
         Goto, TypeOK
<1>6. TypeOK'
  <2>1. CASE ReadOld(r)
    BY <1>1, <1>2, <1>3, <2>1, ReadStep DEF ReadOld, Busy
  <2>2. CASE PutOld(r)
    BY <1>1, <1>2, <1>3, <1>4, <2>2, PutListStep DEF PutOld, Busy
  <2>3. CASE ReadTrash(r)
    BY <1>1, <1>2, <1>3, <2>3, ReadStep DEF ReadTrash, Busy
  <2>4. CASE PutTrash(r)
    BY <1>1, <1>2, <1>3, <1>4, <2>4, PutListStep DEF PutTrash, Ended
  <2>5. CASE EraseBody(r)
    <3>1. (IF MailOf(r) \in Capitals THEN body[user[r]]
                                     ELSE body[user[r]] \ {entry[r]}) \in SUBSET Entry
      BY <1>2 DEF TypeOK
    <3>2. next' \in [Request -> Nat \ {0}]
      BY <1>5 DEF TypeOK
    <3> QED BY <1>1, <1>2, <2>5, <3>1, <3>2, PutBodyStep DEF EraseBody, Busy
  <2>6. CASE ReadErased(r)
    BY <1>1, <1>2, <1>3, <2>6, ReadStep DEF ReadErased, Busy
  <2>7. CASE PutErased(r)
    BY <1>1, <1>2, <1>3, <1>4, <2>7, PutListStep DEF PutErased, Ended
  <2> QED BY <2>1, <2>2, <2>3, <2>4, <2>5, <2>6, <2>7
<1>7. \/ pc[r] \in Deleting /\ pc'[r] \in Deleting
      \/ pc[r] \in Erasing /\ pc'[r] \in Erasing
  BY DEF ReadOld, PutOld, ReadTrash, PutTrash, EraseBody, ReadErased, PutErased,
         Goto, TypeOK, Deleting, Erasing
<1>8. Stage(r)'
  BY <1>5, <1>7 DEF Stage, Sending, Deleting, Erasing, thread
<1> QED BY <1>5, <1>6, <1>8, StageKept DEF thread

\* The front end dies: the requests under way are over.
LEMMA DieStage ==
    ASSUME StageInv, Die, UNCHANGED <<cells, seen, thread, next, got>>,
           failed' \in SUBSET {"GET", "PUT"}, crashes' \in 0 .. MaxCrash
    PROVE  StageInv'
<1> USE DEF StageInv
<1>1. \A r \in Request : pc'[r] = IF pc[r] \in Busy THEN "dead" ELSE pc[r]
  BY DEF Die, TypeOK
<1>2. pc' \in [Request -> {"idle"} \cup Busy \cup Ended]
  BY DEF Die, TypeOK, Ended
<1>3. \A r \in Request : pc'[r] # "idle" => pc[r] # "idle"
  BY <1>1 DEF Busy
<1>4. TypeOK'
  BY <1>2, <1>3 DEF TypeOK, cells, thread
<1>5. ASSUME NEW r \in Request PROVE Stage(r)'
  <2>1. pc'[r] # pc[r] => pc'[r] = "dead" /\ pc[r] # "idle"
    BY <1>1 DEF Busy
  <2>2. Stage(r) /\ UNCHANGED <<kind[r], entry[r], next[r]>>
    BY DEF thread
  <2> QED BY <2>1, <2>2 DEF Stage, Sending, Deleting, Erasing, MoreToSend, Receiver, MailOf
<1> QED BY <1>4, <1>5

LEMMA ListPageStage ==
    ASSUME StageInv, NEW u \in User, NEW b \in Box, ListPage(u, b)
    PROVE  StageInv'
<1>1. Listed(u, b) \in SUBSET Entry
  BY DEF StageInv, TypeOK, Listed, Lists
<1>2. seen' \in [User -> [Box -> SUBSET Entry]]
  BY <1>1 DEF ListPage, StageInv, TypeOK
<1>3. UNCHANGED <<cells, pc, thread, next, got, faults>>
  BY DEF ListPage
<1>4. TypeOK'
  BY <1>2, <1>3 DEF StageInv, TypeOK, cells, thread, faults
<1> QED BY <1>3, <1>4 DEF StageInv, Stage, thread, MoreToSend, Receiver, MailOf

LEMMA NextStage == StageInv /\ [Next]_vars => StageInv'
<1> SUFFICES ASSUME StageInv, [Next]_vars PROVE StageInv'
  OBVIOUS
<1>1. CASE UNCHANGED vars
  BY <1>1 DEF StageInv, TypeOK, Stage, vars, cells, thread, faults,
              MoreToSend, Receiver, MailOf
<1>2. ASSUME NEW u \in User, NEW b \in Box, ListPage(u, b) PROVE StageInv'
  BY <1>2, ListPageStage
<1>3. ASSUME NEW r \in Request, NEW m \in Mail, NewMail(r, m) PROVE StageInv'
  <2>1. <<"send", m>> \in Entry /\ <<"send", m>>[1] = "send" /\ sender[m] \in User
    BY NewEntry, MailAssumption DEF Source
  <2> QED BY <1>3, <2>1, ArriveStage DEF NewMail
<1>4. ASSUME NEW r \in Request, NEW u \in User, NEW e \in Entry,
             AskDelete(r, u, e) \/ AskErase(r, u, e)
      PROVE  StageInv'
  <2>1. CASE AskDelete(r, u, e)
    <3>1. Arrive(r, u, "delete", e, "dRead") /\ "delete" \in {"new", "delete", "erase"}
      BY <2>1 DEF AskDelete
    <3> QED BY <3>1, ArriveStage
  <2>2. CASE AskErase(r, u, e)
    <3>1. Arrive(r, u, "erase", e, "eBody") /\ "erase" \in {"new", "delete", "erase"}
      BY <2>2 DEF AskErase
    <3> QED BY <3>1, ArriveStage
  <2> QED BY <1>4, <2>1, <2>2
<1>5. ASSUME NEW r \in Request, CheckReceiver(r), Die PROVE StageInv'
  <2>1. UNCHANGED <<cells, seen, thread, next, got, crashes>>
    BY <1>5 DEF CheckReceiver
  <2>2. failed' \in SUBSET {"GET", "PUT"} /\ crashes' \in 0 .. MaxCrash
    BY <1>5 DEF CheckReceiver, StageInv, TypeOK
  <2> QED BY <1>5, <2>1, <2>2, DieStage
<1>6. ASSUME NEW r \in Request, StoreStep(r) \/ SendOutside(r) PROVE StageInv'
  BY <1>5, <1>6, SendStage, DeleteStage DEF StoreStep
<1>7. CASE Crash
  <2>1. crashes' \in 0 .. MaxCrash /\ failed' \in SUBSET {"GET", "PUT"}
    BY <1>7, MailAssumption DEF Crash, StageInv, TypeOK
  <2> QED BY <1>7, <2>1, DieStage DEF Crash
<1> QED BY <1>1, <1>2, <1>3, <1>4, <1>6, <1>7 DEF Next

\* Cells, pages and threads keep their types, for any mails and addresses and
\* any number of requests.
THEOREM MailboxTypes == Spec => []TypeOK
<1>1. StageInv => TypeOK
  BY DEF StageInv
<1> QED BY <1>1, InitStage, NextStage, PTL DEF Spec

-----------------------------------------------------------------------------
(* Texts.                                                                  *)

LEMMA ArriveFacts ==
    ASSUME StageInv, NEW r \in Request, NEW u \in User, NEW k, NEW e, NEW p, Arrive(r, u, k, e, p)
    PROVE  /\ pc[r] = "idle" /\ kind[r] = None /\ next[r] = 1
           /\ pc'[r] = p /\ kind'[r] = k /\ user'[r] = u /\ entry'[r] = e
           /\ \A q \in Request \ {r} : UNCHANGED <<pc[q], kind[q], user[q], entry[q]>>
           /\ UNCHANGED <<cells, seen, next, got, faults>>
           /\ \A q \in Request : pc[q] \in Busy => user[q] # u
BY DEF Arrive, Free, StageInv, Stage, TypeOK

\* A step keeps the texts if it takes none away but for a request to erase it,
\* and a thread says "sent", or passes a receiver, only when the text is there.
LEMMA TextStep ==
    ASSUME StageInv, TextsKept, failed \subseteq failed',
           "PUT" \notin failed' =>
              \A u \in User, e \in Entry :
                 e \in body[u] => e \in body'[u] \/ Asked("erase", u, e)',
           \A u \in User, e \in Entry : Asked("erase", u, e) => Asked("erase", u, e)',
           \A q \in Request : kind'[q] = "new" =>
              \/ pc'[q] = "check" /\ next'[q] = 1
              \/ /\ UNCHANGED <<kind[q], user[q], entry[q]>>
                 /\ \/ pc'[q] = "sent" => pc[q] = "sent"
                    \/ "PUT" \notin failed' => entry[q] \in body'[user[q]]
                 /\ \/ next'[q] = next[q]
                    \/ /\ next'[q] = next[q] + 1
                       /\ Receiver(q) \in User /\ "PUT" \notin failed' =>
                             <<"receive", MailOf(q)>> \in body'[Receiver(q)]
    PROVE  TextsKept'
<1> SUFFICES ASSUME "PUT" \notin failed', NEW q \in Request, kind'[q] = "new"
             PROVE  /\ pc'[q] = "sent" =>
                          entry'[q] \in body'[user'[q]] \/ Asked("erase", user[q], entry[q])'
                    /\ \A u \in User : Reached(q, u)' =>
                          \/ <<"receive", MailOf(q)>>' \in body'[u]
                          \/ Asked("erase", u, <<"receive", MailOf(q)>>)'
  BY DEF TextsKept
<1>1. CASE pc'[q] = "check" /\ next'[q] = 1
  BY <1>1 DEF Reached
<1>2. CASE ~(pc'[q] = "check" /\ next'[q] = 1)
  <2>1. /\ UNCHANGED <<kind[q], user[q], entry[q]>> /\ kind[q] = "new"
        /\ pc[q] # "idle" /\ user[q] \in User /\ entry[q] \in Entry
        /\ UNCHANGED MailOf(q)
    BY <1>2 DEF StageInv, Stage, TypeOK, MailOf
  <2>2. MailOf(q) \in Mail /\ <<"receive", MailOf(q)>> \in Entry
    BY <2>1, EntryParts, NewEntry DEF MailOf, Source
  <2>3. "PUT" \notin failed
    OBVIOUS
  <2>4. pc'[q] = "sent" => entry'[q] \in body'[user'[q]] \/ Asked("erase", user[q], entry[q])'
    BY <1>2, <2>1, <2>3 DEF TextsKept
  <2>5. ASSUME NEW u \in User, Reached(q, u)'
        PROVE  \/ <<"receive", MailOf(q)>>' \in body'[u]
               \/ Asked("erase", u, <<"receive", MailOf(q)>>)'
    <3>1. PICK j \in 1 .. next'[q] - 1 : receivers[MailOf(q)][j] = u
      BY <2>1, <2>5 DEF Reached
    <3>2. next[q] \in Nat
      BY DEF StageInv, TypeOK
    <3>3. CASE j \in 1 .. next[q] - 1
      <4>1. Reached(q, u)
        BY <3>1, <3>3 DEF Reached
      <4>2. <<"receive", MailOf(q)>> \in body[u] \/ Asked("erase", u, <<"receive", MailOf(q)>>)
        BY <2>1, <2>3, <4>1 DEF TextsKept
      <4> QED BY <2>1, <2>2, <4>2
    <3>4. CASE j \notin 1 .. next[q] - 1
      <4>0. next'[q] = next[q] \/ next'[q] = next[q] + 1
        BY <1>2
      <4>1. next'[q] = next[q] + 1 /\ j = next[q]
        BY <3>2, <3>4, <4>0
      <4>2. Receiver(q) = u
        BY <3>1, <4>1 DEF Receiver
      <4>3. next'[q] # next[q]
        BY <3>2, <4>1
      <4>4. <<"receive", MailOf(q)>> \in body'[Receiver(q)]
        BY <1>2, <4>2, <4>3
      <4>5. MailOf(q)' = MailOf(q)
        BY <2>1
      <4> QED BY <4>2, <4>4, <4>5
    <3> QED BY <3>3, <3>4
  <2> QED BY <2>4, <2>5
<1> QED BY <1>1, <1>2

LEMMA TextQuiet ==
    ASSUME StageInv, TextsKept, failed \subseteq failed',
           UNCHANGED <<body, thread, next>>,
           \A q \in Request : pc'[q] = "sent" => pc[q] = "sent"
    PROVE  TextsKept'
<1>1. \A u \in User, e \in Entry : Asked("erase", u, e) => Asked("erase", u, e)'
  BY DEF Asked, thread
<1> QED BY <1>1, TextStep DEF thread

LEMMA TextAct ==
    ASSUME StageInv, TextsKept, NEW r \in Request, StoreStep(r) \/ SendOutside(r)
    PROVE  TextsKept'
<1> USE DEF StageInv
<1>1. CASE PutReceivedBody(r)
  <2>1. /\ pc[r] = "rBody" /\ Receiver(r) \in User /\ MailOf(r) \in Mail
        /\ body[Receiver(r)] \cup {<<"receive", MailOf(r)>>} \in SUBSET Entry
    BY <1>1, ReceiverType, NewEntry DEF PutReceivedBody, Stage, TypeOK, Source
  <2>2. /\ failed \subseteq failed'
        /\ \A w \in User \ {Receiver(r)} : body'[w] = body[w]
        /\ "PUT" \notin failed' =>
              body'[Receiver(r)] = body[Receiver(r)] \cup {<<"receive", MailOf(r)>>}
    BY <1>1, <2>1, PutBodyType DEF PutReceivedBody
  <2>3. /\ UNCHANGED thread /\ next' = [next EXCEPT ![r] = @ + 1]
        /\ pc' = [pc EXCEPT ![r] = "check"]
    BY <1>1 DEF PutReceivedBody, NextReceiver, Goto
  <2>4. /\ next'[r] = next[r] + 1 /\ pc'[r] = "check"
        /\ \A q \in Request \ {r} : next'[q] = next[q] /\ pc'[q] = pc[q]
    BY <2>3 DEF TypeOK
  <2>5. \A u \in User, e \in Entry : Asked("erase", u, e) => Asked("erase", u, e)'
    BY <2>3 DEF Asked, thread
  <2>6. "PUT" \notin failed' =>
           \A u \in User, e \in Entry : e \in body[u] => e \in body'[u]
    BY <2>2
  <2>7. \A q \in Request :
           /\ UNCHANGED <<kind[q], user[q], entry[q]>>
           /\ pc'[q] = "sent" => pc[q] = "sent"
           /\ \/ next'[q] = next[q]
              \/ /\ next'[q] = next[q] + 1
                 /\ Receiver(q) \in User /\ "PUT" \notin failed' =>
                       <<"receive", MailOf(q)>> \in body'[Receiver(q)]
    BY <2>2, <2>3, <2>4 DEF thread
  <2> QED BY <2>2, <2>5, <2>6, <2>7, TextStep
<1>2. CASE SendOutside(r)
  <2>1. /\ UNCHANGED <<thread, body, failed>> /\ next' = [next EXCEPT ![r] = @ + 1]
        /\ pc' = [pc EXCEPT ![r] = "check"]
    BY <1>2 DEF SendOutside, NextReceiver, Goto, cells, faults
  <2>2. Receiver(r) \notin User
    BY <1>2, MailAssumption DEF SendOutside, Stage
  <2>3. /\ next'[r] = next[r] + 1 /\ pc'[r] = "check"
        /\ \A q \in Request \ {r} : next'[q] = next[q] /\ pc'[q] = pc[q]
    BY <2>1 DEF TypeOK
  <2>4. \A u \in User, e \in Entry : Asked("erase", u, e) => Asked("erase", u, e)'
    BY <2>1 DEF Asked, thread
  <2>5. \A q \in Request :
           /\ UNCHANGED <<kind[q], user[q], entry[q]>>
           /\ pc'[q] = "sent" => pc[q] = "sent"
           /\ \/ next'[q] = next[q]
              \/ next'[q] = next[q] + 1 /\ Receiver(q) \notin User
    BY <2>1, <2>2, <2>3 DEF thread
  <2> QED BY <2>1, <2>4, <2>5, TextStep
<1>3. CASE PutSentBody(r)
  <2>1. /\ pc[r] = "sBody" /\ user[r] \in User
        /\ body[user[r]] \cup {entry[r]} \in SUBSET Entry
    BY <1>3 DEF PutSentBody, TypeOK
  <2>2. /\ failed \subseteq failed'
        /\ \A w \in User \ {user[r]} : body'[w] = body[w]
        /\ "PUT" \notin failed' => body'[user[r]] = body[user[r]] \cup {entry[r]}
    BY <1>3, <2>1, PutBodyType DEF PutSentBody
  <2>3. /\ UNCHANGED <<thread, next>> /\ \A q \in Request \ {r} : pc'[q] = pc[q]
    BY <1>3 DEF PutSentBody, Goto, TypeOK
  <2>4. \A u \in User, e \in Entry : Asked("erase", u, e) => Asked("erase", u, e)'
    BY <2>3 DEF Asked, thread
  <2>5. "PUT" \notin failed' =>
           \A u \in User, e \in Entry : e \in body[u] => e \in body'[u]
    BY <2>2
  <2>6. \A q \in Request :
           /\ UNCHANGED <<kind[q], user[q], entry[q], next[q]>>
           /\ \/ pc'[q] = "sent" => pc[q] = "sent"
              \/ "PUT" \notin failed' => entry[q] \in body'[user[q]]
    BY <2>2, <2>3 DEF thread
  <2> QED BY <2>2, <2>4, <2>5, <2>6, TextStep
<1>4. CASE EraseBody(r)
  <2> DEFINE texts == IF MailOf(r) \in Capitals THEN body[user[r]]
                                                ELSE body[user[r]] \ {entry[r]}
  <2>1. /\ pc[r] = "eBody" /\ user[r] \in User /\ kind[r] = "erase"
        /\ texts \in SUBSET Entry
    BY <1>4 DEF EraseBody, TypeOK, Stage, Erasing
  <2>2. /\ failed \subseteq failed'
        /\ \A w \in User \ {user[r]} : body'[w] = body[w]
        /\ "PUT" \notin failed' => body'[user[r]] = texts
    BY <1>4, <2>1, PutBodyType DEF EraseBody
  <2>3. /\ UNCHANGED <<thread, next>> /\ pc' = [pc EXCEPT ![r] = "eRead"]
    BY <1>4 DEF EraseBody, Goto
  <2>4. \A u \in User, e \in Entry : Asked("erase", u, e) => Asked("erase", u, e)'
    BY <2>3 DEF Asked, thread
  <2>5. ASSUME "PUT" \notin failed', NEW u \in User, NEW e \in Entry, e \in body[u]
        PROVE  e \in body'[u] \/ Asked("erase", u, e)'
    <3>1. CASE u = user[r] /\ e = entry[r]
      BY <2>1, <2>3, <3>1 DEF Asked, thread
    <3>2. CASE u = user[r] /\ e # entry[r]
      BY <2>2, <2>5, <3>2
    <3>3. CASE u # user[r]
      BY <2>2, <2>5, <3>3
    <3> QED BY <3>1, <3>2, <3>3
  <2>6. "PUT" \notin failed' =>
           \A u \in User, e \in Entry :
              e \in body[u] => e \in body'[u] \/ Asked("erase", u, e)'
    BY <2>5
  <2>7. \A q \in Request :
           /\ UNCHANGED <<kind[q], user[q], entry[q], next[q]>>
           /\ pc'[q] = "sent" => pc[q] = "sent"
    BY <2>3 DEF thread, TypeOK
  <2> QED BY <2>2, <2>4, <2>6, <2>7, TextStep
<1>5. CASE CheckReceiver(r)
  <2>1. UNCHANGED <<body, thread, next>> /\ failed \subseteq failed'
    BY <1>5 DEF CheckReceiver, cells
  <2>2. \A q \in Request : pc'[q] = "sent" => pc[q] = "sent"
    BY <1>5 DEF CheckReceiver, Die, Goto, TypeOK
  <2> QED BY <2>1, <2>2, TextQuiet
<1>6. CASE \/ ReadReceived(r) \/ PutReceived(r) \/ ReadSent(r) \/ PutSent(r)
           \/ ReadOld(r) \/ PutOld(r) \/ ReadTrash(r) \/ PutTrash(r)
           \/ ReadErased(r) \/ PutErased(r)
  <2>1. UNCHANGED <<body, thread, next>>
    BY <1>6 DEF ReadReceived, PutReceived, ReadSent, PutSent, ReadOld, PutOld,
                ReadTrash, PutTrash, ReadErased, PutErased, cells
  <2>2. failed \subseteq failed'
    BY <1>6 DEF ReadReceived, PutReceived, ReadSent, PutSent, ReadOld, PutOld,
                ReadTrash, PutTrash, ReadErased, PutErased, GetList, PutList
  <2>3. \E p \in (Busy \cup Ended) \ {"sent"} : Goto(r, p)
    BY <1>6 DEF ReadReceived, PutReceived, ReadSent, PutSent, ReadOld, PutOld,
                ReadTrash, PutTrash, ReadErased, PutErased, Busy, Ended
  <2>4. \A q \in Request : pc'[q] = "sent" => pc[q] = "sent"
    BY <2>3 DEF Goto, TypeOK
  <2> QED BY <2>1, <2>2, <2>4, TextQuiet
<1> QED BY <1>1, <1>2, <1>3, <1>4, <1>5, <1>6 DEF StoreStep

LEMMA NextTexts == StageInv /\ TextsKept /\ [Next]_vars => TextsKept'
<1> SUFFICES ASSUME StageInv, TextsKept, [Next]_vars PROVE TextsKept'
  OBVIOUS
<1>1. CASE UNCHANGED vars
  BY <1>1, TextQuiet DEF vars, cells, faults
<1>2. ASSUME NEW u \in User, NEW b \in Box, ListPage(u, b) PROVE TextsKept'
  BY <1>2, TextQuiet DEF ListPage, cells, faults
<1>3. ASSUME NEW r \in Request, NEW u \in User, NEW e, NEW k, NEW p,
             Arrive(r, u, k, e, p), k = "new" => p = "check"
      PROVE  TextsKept'
  <2>1. /\ pc[r] = "idle" /\ kind[r] = None /\ next[r] = 1
        /\ pc'[r] = p /\ kind'[r] = k
        /\ \A q \in Request \ {r} : UNCHANGED <<pc[q], kind[q], user[q], entry[q]>>
        /\ UNCHANGED <<body, next, failed>>
    BY <1>3, ArriveFacts DEF cells, faults
  <2>2. \A w \in User, x \in Entry : Asked("erase", w, x) => Asked("erase", w, x)'
    BY <2>1, MailAssumption DEF Asked
  <2> QED BY <1>3, <2>1, <2>2, TextStep
<1>4. ASSUME NEW r \in Request, NEW m \in Mail, NewMail(r, m) PROVE TextsKept'
  BY <1>3, <1>4, MailAssumption DEF NewMail
<1>5. ASSUME NEW r \in Request, NEW u \in User, NEW e \in Entry,
             AskDelete(r, u, e) \/ AskErase(r, u, e)
      PROVE  TextsKept'
  <2>1. CASE AskDelete(r, u, e)
    <3>1. Arrive(r, u, "delete", e, "dRead")
      BY <2>1 DEF AskDelete
    <3> QED BY <1>3, <3>1
  <2>2. CASE AskErase(r, u, e)
    <3>1. Arrive(r, u, "erase", e, "eBody")
      BY <2>2 DEF AskErase
    <3> QED BY <1>3, <3>1
  <2> QED BY <1>5, <2>1, <2>2
<1>6. ASSUME NEW r \in Request, StoreStep(r) \/ SendOutside(r) PROVE TextsKept'
  BY <1>6, TextAct
<1>7. CASE Crash
  <2>1. \A q \in Request : pc'[q] = "sent" => pc[q] = "sent"
    BY <1>7 DEF Crash, Die, StageInv, TypeOK
  <2> QED BY <1>7, <2>1, TextQuiet DEF Crash, cells
<1> QED BY <1>1, <1>2, <1>4, <1>5, <1>6, <1>7 DEF Next

\* Texts are never lost while no PUT fails, for any mails, any number of
\* overlapping requests and crashes, also when GETs fail and lists get lost.
THEOREM TextsAreKept == Spec => []TextsKept
<1>1. Init => TextsKept
  BY MailAssumption DEF Init, TextsKept
<1> QED BY <1>1, InitStage, NextStage, NextTexts, PTL DEF Spec

-----------------------------------------------------------------------------
(* A user's own lists.  He has one request at a time, and only his requests *)
(* change his sent mails and his trash: what a request has read is still    *)
(* there when it writes.                                                   *)

OneEach ==
    \A q, r \in Request :
        pc[q] \in Busy /\ pc[r] \in Busy /\ user[q] = user[r] => q = r

Fresh(r) ==
    /\ pc[r] = "sPut" => got[r] = list[user[r]]["send"]
    /\ pc[r] \in {"tPut", "ePut"} => got[r] = list[user[r]]["trash"]
    /\ pc[r] = "dPut" /\ entry[r][1] = "send" => got[r] = list[user[r]]["send"]
    /\ pc[r] = "sBody" => entry[r] \in Listed(user[r], "send")

OwnInv ==
    /\ OneEach
    /\ failed = {} => \A r \in Request : Fresh(r)
    /\ OwnListsKept

LEMMA InitOwn == Init => OwnInv
BY MailAssumption DEF Init, OwnInv, OneEach, Fresh, OwnListsKept, Busy

\* A step that changes no list and begins no request.
LEMMA OwnQuiet ==
    ASSUME StageInv, OwnInv, UNCHANGED <<list, thread, got>>, failed \subseteq failed',
           \A q \in Request :
              \/ UNCHANGED pc[q]
              \/ pc'[q] \in Ended \ {"sent", "moved"}
              \/ pc'[q] \in {"check", "rRead", "rBody", "smtp"} /\ pc[q] \in Busy
              \/ pc'[q] = "sent" /\ pc[q] = "sBody"
              \/ pc'[q] = "eRead" /\ pc[q] \in Busy
    PROVE  OwnInv'
<1>1. \A q \in Request : pc'[q] \in Busy => pc[q] \in Busy
  BY DEF Busy, Ended
<1>2. OneEach'
  BY <1>1 DEF OwnInv, OneEach, thread
<1>3. ASSUME failed' = {}, NEW r \in Request PROVE Fresh(r)'
  <2>1. failed = {} /\ Fresh(r)
    BY <1>3 DEF OwnInv
  <2>2. UNCHANGED <<user[r], entry[r], got[r], list>>
    BY DEF thread
  <2>3. pc'[r] \in {"sPut", "tPut", "ePut", "dPut", "sBody"} => pc'[r] = pc[r]
    BY DEF Ended
  <2> QED BY <2>1, <2>2, <2>3 DEF Fresh, Listed
<1>4. ASSUME failed' = {}, NEW r \in Request
      PROVE  /\ pc'[r] = "sent" => \/ entry[r] \in Listed(user[r], "send")
                                   \/ Asked("delete", user[r], entry[r])
             /\ pc'[r] = "moved" => \/ entry[r] \in Listed(user[r], "trash")
                                    \/ Asked("erase", user[r], entry[r])
  <2>1. failed = {} /\ Fresh(r)
    BY <1>4 DEF OwnInv
  <2>2. pc'[r] = "sent" => pc[r] \in {"sent", "sBody"}
    BY DEF Ended
  <2>3. pc'[r] = "moved" => pc[r] = "moved"
    BY DEF Ended
  <2> QED BY <2>1, <2>2, <2>3 DEF OwnInv, OwnListsKept, Fresh
<1>5. OwnListsKept'
  BY <1>4 DEF OwnListsKept, Asked, Listed, thread
<1> QED BY <1>2, <1>3, <1>5 DEF OwnInv

\* A step of a request that reads or changes a list: its own user's, or one of
\* received mails.
LEMMA OwnStep ==
    ASSUME StageInv, OwnInv, NEW r \in Request, pc[r] \in Busy,
           UNCHANGED thread, failed \subseteq failed',
           \A q \in Request \ {r} : UNCHANGED <<pc[q], got[q]>>,
           \A w \in User, c \in {"send", "trash"} :
              w # user[r] => UNCHANGED list[w][c],
           failed' = {} => Fresh(r)',
           failed' = {} =>
              /\ \A e \in Entry : e \in Listed(user[r], "send") =>
                    e \in Listed(user[r], "send")' \/ (kind[r] = "delete" /\ e = entry[r])
              /\ \A e \in Entry : e \in Listed(user[r], "trash") =>
                    e \in Listed(user[r], "trash")' \/ (kind[r] = "erase" /\ e = entry[r]),
           pc'[r] # "sent",
           failed' = {} /\ pc'[r] = "moved" => entry[r] \in Listed(user[r], "trash")'
    PROVE  OwnInv'
<1>0. user[r] \in User /\ entry[r] \in Entry
  BY DEF StageInv, TypeOK, Busy
<1>1. OneEach'
  BY DEF OwnInv, OneEach, thread
<1>2. ASSUME failed' = {}, NEW q \in Request \ {r} PROVE Fresh(q)'
  <2>1. Fresh(q) /\ UNCHANGED <<pc[q], got[q], user[q], entry[q]>>
    BY <1>2 DEF OwnInv, thread
  <2>2. CASE pc[q] \in {"sPut", "tPut", "ePut", "dPut", "sBody"}
    <3>1. user[q] \in User /\ user[q] # user[r]
      BY <2>2 DEF StageInv, TypeOK, OwnInv, OneEach, Busy
    <3> QED BY <2>1, <3>1 DEF Fresh, Listed
  <2>3. CASE pc[q] \notin {"sPut", "tPut", "ePut", "dPut", "sBody"}
    BY <2>1, <2>3 DEF Fresh
  <2> QED BY <2>2, <2>3
<1>3. ASSUME failed' = {}, NEW q \in Request
      PROVE  /\ pc'[q] = "sent" => \/ entry[q] \in Listed(user[q], "send")'
                                   \/ Asked("delete", user[q], entry[q])
             /\ pc'[q] = "moved" => \/ entry[q] \in Listed(user[q], "trash")'
                                    \/ Asked("erase", user[q], entry[q])
  <2>1. CASE q = r
    BY <1>3, <2>1
  <2>2. CASE q # r /\ pc[q] \in {"sent", "moved"}
    <3>1. /\ pc[q] = "sent" => \/ entry[q] \in Listed(user[q], "send")
                               \/ Asked("delete", user[q], entry[q])
          /\ pc[q] = "moved" => \/ entry[q] \in Listed(user[q], "trash")
                                \/ Asked("erase", user[q], entry[q])
      BY <1>3 DEF OwnInv, OwnListsKept
    <3>2. user[q] \in User /\ entry[q] \in Entry /\ pc'[q] = pc[q]
      BY <2>2 DEF StageInv, TypeOK
    <3>3. CASE user[q] # user[r]
      BY <3>1, <3>2, <3>3 DEF Listed, thread
    <3>4. CASE user[q] = user[r]
      <4>1. kind[r] = "delete" => Asked("delete", user[r], entry[r])
        BY DEF Asked
      <4>2. kind[r] = "erase" => Asked("erase", user[r], entry[r])
        BY DEF Asked
      <4>3. UNCHANGED <<user[q], user[r]>>
        BY DEF thread
      <4>4. entry[q] \in Listed(user[q], "send") =>
               \/ entry[q] \in Listed(user[q], "send")'
               \/ Asked("delete", user[q], entry[q])
        BY <1>3, <3>2, <3>4, <4>1, <4>3
      <4>5. entry[q] \in Listed(user[q], "trash") =>
               \/ entry[q] \in Listed(user[q], "trash")'
               \/ Asked("erase", user[q], entry[q])
        BY <1>3, <3>2, <3>4, <4>2, <4>3
      <4> QED BY <3>1, <3>2, <4>4, <4>5
    <3> QED BY <3>3, <3>4
  <2> QED BY <2>1, <2>2
<1>4. OwnListsKept'
  BY <1>3 DEF OwnListsKept, Asked, thread
<1> QED BY <1>1, <1>2, <1>4 DEF OwnInv

\* A list that was read and is put back with an entry more or less.
LEMMA ListedAdded ==
    ASSUME NEW u \in User, NEW b \in Box, NEW e \in Entry, list[u][b] \in Lists,
           list'[u][b] = Added(list[u][b], e)
    PROVE  e \in Listed(u, b)' /\ \A x \in Entry : x \in Listed(u, b) => x \in Listed(u, b)'
<1>1. Added(list[u][b], e) # Failed
  BY MailAssumption DEF Added, Lists
<1> QED BY <1>1 DEF Listed, Added

LEMMA ListedRemoved ==
    ASSUME NEW u \in User, NEW b \in Box, NEW e \in Entry, list[u][b] \in Lists,
           list'[u][b] = Removed(list[u][b], e)
    PROVE  \A x \in Entry : x \in Listed(u, b) => x \in Listed(u, b)' \/ x = e
<1>1. list[u][b] # Failed => Removed(list[u][b], e) # Failed
  BY MailAssumption DEF Removed, Lists
<1> QED BY <1>1 DEF Listed, Removed

\* Requests that read a list.
LEMMA OwnRead ==
    ASSUME StageInv, OwnInv, NEW r \in Request,
           ReadReceived(r) \/ ReadSent(r) \/ ReadOld(r) \/ ReadTrash(r) \/ ReadErased(r)
    PROVE  OwnInv'
<1> USE DEF StageInv
<1>1. /\ pc[r] \in {"rRead", "check", "dRead", "tRead", "eRead"}
      /\ UNCHANGED <<list, thread>>
      /\ \A q \in Request \ {r} : UNCHANGED pc[q]
      /\ pc'[r] \in {"rPut", "sPut", "dPut", "tPut", "ePut"}
  BY DEF ReadReceived, ReadSent, ReadOld, ReadTrash, ReadErased, Goto, TypeOK, cells
<1>2. /\ pc[r] \in Busy /\ user[r] \in User /\ entry[r][1] \in Box
      /\ "send" \in Box /\ "trash" \in Box /\ "receive" \in Box
  BY <1>1, EntryParts DEF Busy, TypeOK, Source, Box
<1>3. \E u \in User, b \in Box :
         /\ GetList(r, u, b)
         /\ pc'[r] = "sPut" => u = user[r] /\ b = "send"
         /\ pc'[r] \in {"tPut", "ePut"} => u = user[r] /\ b = "trash"
         /\ pc'[r] = "dPut" => u = user[r] /\ b = entry[r][1]
  <2>1. CASE ReadReceived(r)
    <3>1. Receiver(r) \in User /\ GetList(r, Receiver(r), "receive") /\ pc'[r] = "rPut"
      BY <2>1 DEF ReadReceived, Stage, Goto, TypeOK
    <3> QED BY <1>2, <3>1
  <2>2. CASE ReadSent(r)
    BY <1>2, <2>2 DEF ReadSent, Goto, TypeOK
  <2>3. CASE ReadOld(r)
    BY <1>2, <2>3 DEF ReadOld, Goto, TypeOK
  <2>4. CASE ReadTrash(r) \/ ReadErased(r)
    BY <1>2, <2>4 DEF ReadTrash, ReadErased, Goto, TypeOK
  <2> QED BY <2>1, <2>2, <2>3, <2>4
<1>4. /\ \A q \in Request \ {r} : UNCHANGED got[q]
      /\ failed \subseteq failed'
      /\ failed' = {} => Fresh(r)'
  BY <1>1, <1>3, GetListType DEF Fresh, thread
<1>5. UNCHANGED <<Listed(user[r], "send"), Listed(user[r], "trash")>>
  BY <1>1 DEF Listed, thread
<1> QED BY <1>1, <1>2, <1>4, <1>5, OwnStep

\* Requests that put a list back.
LEMMA OwnPut ==
    ASSUME StageInv, OwnInv, NEW r \in Request,
           PutReceived(r) \/ PutSent(r) \/ PutOld(r) \/ PutTrash(r) \/ PutErased(r)
    PROVE  OwnInv'
<1> USE DEF StageInv
<1>1. /\ pc[r] \in {"rPut", "sPut", "dPut", "tPut", "ePut"}
      /\ UNCHANGED <<got, thread>>
      /\ \A q \in Request \ {r} : UNCHANGED pc[q]
      /\ pc'[r] \in {"rBody", "sBody", "tRead", "moved", "erased"}
  BY DEF PutReceived, PutSent, PutOld, PutTrash, PutErased, Goto, TypeOK
<1>2. /\ pc[r] \in Busy /\ user[r] \in User /\ entry[r] \in Entry /\ entry[r][1] \in Source
      /\ "send" \in Box /\ "trash" \in Box /\ "receive" \in Box
      /\ UNCHANGED <<user[r], entry[r]>>
  BY <1>1, EntryParts DEF Busy, TypeOK, Box, thread
<1>3. /\ Added(got[r], entry[r]) \in Lists /\ Removed(got[r], entry[r]) \in Lists
      /\ list[user[r]]["send"] \in Lists /\ list[user[r]]["trash"] \in Lists
  BY <1>2, ListsClosed DEF TypeOK
<1>4. CASE PutReceived(r)
  <2>1. Receiver(r) \in User /\ pc'[r] = "rBody"
    BY <1>4 DEF PutReceived, Stage, Goto, TypeOK
  <2>2. Added(got[r], <<"receive", MailOf(r)>>) \in Lists
    BY <1>2, EntryParts, NewEntry, ListsClosed DEF TypeOK, MailOf, Source
  <2>3. /\ failed \subseteq failed'
        /\ \A w \in User, c \in {"send", "trash"} : UNCHANGED list[w][c]
    BY <1>2, <1>4, <2>1, <2>2, PutListType DEF PutReceived
  <2>4. UNCHANGED <<Listed(user[r], "send"), Listed(user[r], "trash")>>
    BY <1>2, <2>3 DEF Listed
  <2>5. Fresh(r)'
    BY <2>1 DEF Fresh
  <2> QED BY <1>1, <1>2, <2>1, <2>3, <2>4, <2>5, OwnStep
<1>5. CASE PutSent(r)
  <2>1. pc[r] = "sPut" /\ pc'[r] = "sBody"
    BY <1>5 DEF PutSent, Goto, TypeOK
  <2>2. /\ failed \subseteq failed'
        /\ \A w \in User, c \in Box : (w # user[r] \/ c # "send") => UNCHANGED list[w][c]
        /\ failed' = {} => list'[user[r]]["send"] = Added(got[r], entry[r])
    BY <1>2, <1>3, <1>5, PutListType DEF PutSent
  <2>3. failed' = {} => got[r] = list[user[r]]["send"]
    BY <2>1, <2>2 DEF OwnInv, Fresh
  <2>4. failed' = {} =>
           /\ entry[r] \in Listed(user[r], "send")'
           /\ \A x \in Entry : x \in Listed(user[r], "send") => x \in Listed(user[r], "send")'
    BY <1>2, <1>3, <2>2, <2>3, ListedAdded DEF Listed
  <2>5. UNCHANGED Listed(user[r], "trash")
    BY <1>2, <2>2 DEF Listed
  <2>6. failed' = {} => Fresh(r)'
    BY <1>2, <2>1, <2>4 DEF Fresh
  <2> QED BY <1>1, <1>2, <2>1, <2>2, <2>4, <2>5, <2>6, OwnStep
<1>6. CASE PutOld(r)
  <2>1. pc[r] = "dPut" /\ pc'[r] = "tRead" /\ kind[r] = "delete"
    BY <1>6 DEF PutOld, Goto, TypeOK, Stage, Deleting
  <2>2. entry[r][1] \in Box /\ entry[r][1] # "trash"
    BY <1>2 DEF Source, Box
  <2>3. /\ failed \subseteq failed'
        /\ \A w \in User, c \in Box : (w # user[r] \/ c # entry[r][1]) => UNCHANGED list[w][c]
        /\ failed' = {} => list'[user[r]][entry[r][1]] = Removed(got[r], entry[r])
    BY <1>2, <1>3, <1>6, <2>2, PutListType DEF PutOld
  <2>4. failed' = {} =>
           \A x \in Entry : x \in Listed(user[r], "send") =>
              x \in Listed(user[r], "send")' \/ x = entry[r]
    <3>1. CASE entry[r][1] = "send"
      <4>1. failed' = {} => got[r] = list[user[r]]["send"]
        BY <2>1, <2>3, <3>1 DEF OwnInv, Fresh
      <4> QED BY <1>2, <1>3, <2>3, <3>1, <4>1, ListedRemoved DEF Listed
    <3>2. CASE entry[r][1] # "send"
      BY <1>2, <2>3, <3>2 DEF Listed
    <3> QED BY <3>1, <3>2
  <2>5. UNCHANGED Listed(user[r], "trash")
    BY <1>2, <2>2, <2>3 DEF Listed
  <2>6. Fresh(r)'
    BY <2>1 DEF Fresh
  <2> QED BY <1>1, <1>2, <2>1, <2>3, <2>4, <2>5, <2>6, OwnStep
<1>7. CASE PutTrash(r)
  <2>1. pc[r] = "tPut" /\ pc'[r] = "moved"
    BY <1>7 DEF PutTrash, Goto, TypeOK
  <2>2. /\ failed \subseteq failed'
        /\ \A w \in User, c \in Box : (w # user[r] \/ c # "trash") => UNCHANGED list[w][c]
        /\ failed' = {} => list'[user[r]]["trash"] = Added(got[r], entry[r])
    BY <1>2, <1>3, <1>7, PutListType DEF PutTrash
  <2>3. failed' = {} => got[r] = list[user[r]]["trash"]
    BY <2>1, <2>2 DEF OwnInv, Fresh
  <2>4. failed' = {} =>
           /\ entry[r] \in Listed(user[r], "trash")'
           /\ \A x \in Entry : x \in Listed(user[r], "trash") => x \in Listed(user[r], "trash")'
    BY <1>2, <1>3, <2>2, <2>3, ListedAdded DEF Listed
  <2>5. UNCHANGED Listed(user[r], "send")
    BY <1>2, <2>2 DEF Listed
  <2>6. Fresh(r)'
    BY <2>1 DEF Fresh
  <2> QED BY <1>1, <1>2, <2>1, <2>2, <2>4, <2>5, <2>6, OwnStep
<1>8. CASE PutErased(r)
  <2>1. pc[r] = "ePut" /\ pc'[r] = "erased" /\ kind[r] = "erase"
    BY <1>8 DEF PutErased, Goto, TypeOK, Stage, Erasing
  <2>2. /\ failed \subseteq failed'
        /\ \A w \in User, c \in Box : (w # user[r] \/ c # "trash") => UNCHANGED list[w][c]
        /\ failed' = {} => list'[user[r]]["trash"] = Removed(got[r], entry[r])
    BY <1>2, <1>3, <1>8, PutListType DEF PutErased
  <2>3. failed' = {} => got[r] = list[user[r]]["trash"]
    BY <2>1, <2>2 DEF OwnInv, Fresh
  <2>4. failed' = {} =>
           \A x \in Entry : x \in Listed(user[r], "trash") =>
              x \in Listed(user[r], "trash")' \/ x = entry[r]
    BY <1>2, <1>3, <2>2, <2>3, ListedRemoved DEF Listed
  <2>5. UNCHANGED Listed(user[r], "send")
    BY <1>2, <2>2 DEF Listed
  <2>6. Fresh(r)'
    BY <2>1 DEF Fresh
  <2> QED BY <1>1, <1>2, <2>1, <2>2, <2>4, <2>5, <2>6, OwnStep
<1> QED BY <1>4, <1>5, <1>6, <1>7, <1>8

LEMMA OwnArrive ==
    ASSUME StageInv, OwnInv, NEW r \in Request, NEW u \in User, NEW e, NEW k,
           NEW p \in {"check", "dRead", "eBody"}, Arrive(r, u, k, e, p)
    PROVE  OwnInv'
<1>1. /\ pc[r] = "idle" /\ kind[r] = None
      /\ pc'[r] = p /\ user'[r] = u
      /\ \A q \in Request \ {r} : UNCHANGED <<pc[q], kind[q], user[q], entry[q]>>
      /\ UNCHANGED <<list, got, failed>>
      /\ \A q \in Request : pc[q] \in Busy => user[q] # u
  BY ArriveFacts DEF cells, faults
<1>2. OneEach'
  BY <1>1 DEF OwnInv, OneEach
<1>3. ASSUME failed' = {}, NEW q \in Request PROVE Fresh(q)'
  BY <1>1, <1>3 DEF OwnInv, Fresh, Listed
<1>4. \A x \in {"delete", "erase"}, w \in User, y \in Entry : Asked(x, w, y) => Asked(x, w, y)'
  BY <1>1, MailAssumption DEF Asked
<1>5. ASSUME failed' = {}, NEW q \in Request \ {r}, pc'[q] \in {"sent", "moved"}
      PROVE  /\ pc'[q] = "sent" => \/ entry[q] \in Listed(user[q], "send")'
                                   \/ Asked("delete", user[q], entry[q])'
             /\ pc'[q] = "moved" => \/ entry[q] \in Listed(user[q], "trash")'
                                    \/ Asked("erase", user[q], entry[q])'
  <2>1. user[q] \in User /\ entry[q] \in Entry /\ UNCHANGED <<user[q], entry[q], pc[q]>>
    BY <1>1, <1>5 DEF StageInv, TypeOK
  <2>2. /\ pc[q] = "sent" => \/ entry[q] \in Listed(user[q], "send")
                             \/ Asked("delete", user[q], entry[q])
        /\ pc[q] = "moved" => \/ entry[q] \in Listed(user[q], "trash")
                              \/ Asked("erase", user[q], entry[q])
    BY <1>1, <1>5 DEF OwnInv, OwnListsKept
  <2>3. UNCHANGED <<Listed(user[q], "send"), Listed(user[q], "trash")>>
    BY <1>1, <2>1 DEF Listed
  <2>4. /\ Asked("delete", user[q], entry[q]) => Asked("delete", user[q], entry[q])'
        /\ Asked("erase", user[q], entry[q]) => Asked("erase", user[q], entry[q])'
    BY <1>4, <2>1
  <2> QED BY <2>1, <2>2, <2>3, <2>4
<1>6. OwnListsKept'
  BY <1>1, <1>5 DEF OwnListsKept
<1> QED BY <1>2, <1>3, <1>6 DEF OwnInv

LEMMA NextOwn == StageInv /\ OwnInv /\ [Next]_vars => OwnInv'
<1> SUFFICES ASSUME StageInv, OwnInv, [Next]_vars PROVE OwnInv'
  OBVIOUS
<1>1. CASE UNCHANGED vars
  BY <1>1, OwnQuiet DEF vars, cells, faults
<1>2. ASSUME NEW u \in User, NEW b \in Box, ListPage(u, b) PROVE OwnInv'
  BY <1>2, OwnQuiet DEF ListPage, cells, faults
<1>3. ASSUME NEW r \in Request, NEW m \in Mail, NewMail(r, m) PROVE OwnInv'
  <2>1. Arrive(r, sender[m], "new", <<"send", m>>, "check") /\ sender[m] \in User
    BY <1>3, MailAssumption DEF NewMail
  <2> QED BY <2>1, OwnArrive
<1>4. ASSUME NEW r \in Request, NEW u \in User, NEW e \in Entry,
             AskDelete(r, u, e) \/ AskErase(r, u, e)
      PROVE  OwnInv'
  <2>1. CASE AskDelete(r, u, e)
    BY <2>1, OwnArrive DEF AskDelete
  <2>2. CASE AskErase(r, u, e)
    BY <2>2, OwnArrive DEF AskErase
  <2> QED BY <1>4, <2>1, <2>2
<1>5. ASSUME NEW r \in Request,
             CheckReceiver(r) \/ PutReceivedBody(r) \/ SendOutside(r)
             \/ PutSentBody(r) \/ EraseBody(r)
      PROVE  OwnInv'
  <2>1. UNCHANGED <<list, thread, got>>
    BY <1>5 DEF CheckReceiver, PutReceivedBody, SendOutside, PutSentBody, EraseBody, cells
  <2>2. failed \subseteq failed'
    BY <1>5 DEF CheckReceiver, PutReceivedBody, SendOutside, PutSentBody, EraseBody,
                PutBody, faults
  <2>3. \A q \in Request :
           \/ UNCHANGED pc[q]
           \/ pc'[q] \in Ended \ {"sent", "moved"}
           \/ pc'[q] \in {"check", "rRead", "rBody", "smtp"} /\ pc[q] \in Busy
           \/ pc'[q] = "sent" /\ pc[q] = "sBody"
           \/ pc'[q] = "eRead" /\ pc[q] \in Busy
    BY <1>5 DEF CheckReceiver, PutReceivedBody, SendOutside, PutSentBody, EraseBody,
                NextReceiver, Die, Goto, Busy, Ended, StageInv, TypeOK
  <2> QED BY <2>1, <2>2, <2>3, OwnQuiet
<1>6. ASSUME NEW r \in Request, StoreStep(r) \/ SendOutside(r) PROVE OwnInv'
  BY <1>5, <1>6, OwnRead, OwnPut DEF StoreStep
<1>7. CASE Crash
  <2>1. \A q \in Request : UNCHANGED pc[q] \/ pc'[q] \in Ended \ {"sent", "moved"}
    BY <1>7 DEF Crash, Die, Ended, StageInv, TypeOK
  <2> QED BY <1>7, <2>1, OwnQuiet DEF Crash, cells
<1> QED BY <1>1, <1>2, <1>3, <1>4, <1>6, <1>7 DEF Next

\* What a user's own requests have put into his sent mails and his trash stays
\* there, for any number of users, overlapping requests and crashes.
THEOREM OwnListsAreKept == Spec => []OwnListsKept
<1>1. OwnInv => OwnListsKept
  BY DEF OwnInv
<1> QED BY <1>1, InitStage, NextStage, InitOwn, NextOwn, PTL DEF Spec

-----------------------------------------------------------------------------
(* One request at a time.  A mail that is in the trash, or has been         *)
(* destroyed, is in no other list, and is not sent again.                  *)

OneAtATime == \A q, r \in Request : pc[q] \in Busy /\ pc[r] \in Busy => q = r

NotSentAgain ==
    \A q, r \in Request :
        kind[q] = "delete" /\ kind[r] = "new" /\ pc[r] \in Busy => MailOf(r) # MailOf(q)

Read(r) ==
    /\ pc[r] = "rPut" => got[r] = list[Receiver(r)]["receive"]
    /\ pc[r] = "rBody" => <<"receive", MailOf(r)>> \in Listed(Receiver(r), "receive")
    /\ pc[r] = "dPut" => got[r] = list[user[r]][entry[r][1]]

ThrownAway(u, e) ==
    \/ e \in Listed(u, "trash") \cup seen[u]["trash"]
    \/ \E r \in Request : /\ pc[r] \in {"tRead", "tPut"} \/ kind[r] = "erase"
                          /\ user[r] = u /\ entry[r] = e

Gone ==
    \A u \in User, e \in Entry :
        ThrownAway(u, e) =>
            /\ \A b \in Source : e \notin Listed(u, b)
            /\ Asked("delete", u, e)

\* The list of received mails names received ones, the list of sent mails sent ones.
InPlace == \A u \in User, b \in Source : \A e \in Listed(u, b) : e[1] = b

AloneInv ==
    /\ OneAtATime /\ NotSentAgain
    /\ failed = {} => Gone /\ InPlace /\ \A r \in Request : Read(r)
    /\ ReceivedKept

LEMMA InitAlone == Init => AloneInv
<1> SUFFICES ASSUME Init PROVE AloneInv
  OBVIOUS
<1>1. \A u \in User, b \in Box : Listed(u, b) = {} /\ seen[u][b] = {}
  BY DEF Init, Listed
<1>2. Gone /\ InPlace
  BY <1>1, MailAssumption DEF Init, Gone, InPlace, ThrownAway, Source, Box
<1>3. OneAtATime /\ NotSentAgain /\ ReceivedKept /\ \A r \in Request : Read(r)
  BY MailAssumption DEF Init, OneAtATime, NotSentAgain, ReceivedKept, Read, Busy
<1> QED BY <1>2, <1>3 DEF AloneInv

LEMMA AddedExactly ==
    ASSUME NEW u \in User, NEW b \in Box, NEW e \in Entry, list[u][b] \in Lists,
           list'[u][b] = Added(list[u][b], e)
    PROVE  Listed(u, b)' = Listed(u, b) \cup {e}
<1>1. Added(list[u][b], e) # Failed
  BY MailAssumption DEF Added, Lists
<1> QED BY <1>1 DEF Listed, Added

LEMMA RemovedExactly ==
    ASSUME NEW u \in User, NEW b \in Box, NEW e \in Entry, list[u][b] \in Lists,
           list'[u][b] = Removed(list[u][b], e)
    PROVE  Listed(u, b)' = Listed(u, b) \ {e}
<1>1. list[u][b] # Failed => Removed(list[u][b], e) # Failed
  BY MailAssumption DEF Removed, Lists
<1> QED BY <1>1 DEF Listed, Removed

\* A step of the one thread that runs.
LEMMA AloneStep ==
    ASSUME StageInv, AloneInv, NEW r \in Request, pc[r] \in Busy,
           UNCHANGED <<thread, seen>>, failed \subseteq failed',
           \A q \in Request \ {r} : UNCHANGED next[q] /\ pc'[q] \notin Busy,
           failed' = {} =>
              /\ Read(r)'
              /\ \A u \in User, m \in Mail :
                    <<"receive", m>> \in Listed(u, "receive") =>
                          \/ <<"receive", m>> \in Listed(u, "receive")'
                          \/ Asked("delete", u, <<"receive", m>>)
              /\ \A u \in User, b \in Source : \A e \in Listed(u, b)' :
                    \/ e \in Listed(u, b)
                    \/ e[1] = b /\ kind[r] = "new" /\ MailOf(r) = e[2]
              /\ \A u \in User, e \in Entry :
                    ThrownAway(u, e)' =>
                          \/ ThrownAway(u, e)
                          \/ /\ \A b \in Source : e \notin Listed(u, b)'
                             /\ Asked("delete", u, e)
              /\ \/ next'[r] = next[r]
                 \/ /\ next'[r] = next[r] + 1
                    /\ \A u \in User : Receiver(r) = u =>
                          <<"receive", MailOf(r)>> \in Listed(u, "receive")'
    PROVE  AloneInv'
<1>1. OneAtATime'
  BY DEF OneAtATime
<1>2. NotSentAgain'
  BY DEF AloneInv, NotSentAgain, thread, MailOf
<1>3. ASSUME failed' = {}, NEW q \in Request PROVE Read(q)'
  BY <1>3 DEF Read, Busy
<1>4. \A k, u, e : Asked(k, u, e)' = Asked(k, u, e)
  BY DEF Asked, thread
<1>5. ASSUME failed' = {} PROVE Gone' /\ InPlace'
  <2>1. InPlace'
    BY <1>5 DEF AloneInv, InPlace
  <2> SUFFICES ASSUME NEW u \in User, NEW e \in Entry, ThrownAway(u, e)'
               PROVE  /\ \A b \in Source : e \notin Listed(u, b)'
                      /\ Asked("delete", u, e)'
    BY <2>1 DEF Gone
  <2>2. CASE ThrownAway(u, e)
    <3>1. (\A b \in Source : e \notin Listed(u, b)) /\ Asked("delete", u, e)
      BY <1>5, <2>2 DEF AloneInv, Gone
    <3>2. PICK q \in Request : kind[q] = "delete" /\ entry[q] = e
      BY <3>1 DEF Asked
    <3>3. pc[r] \in Busy /\ kind[r] = "new" => MailOf(r) # e[2]
      BY <3>2 DEF AloneInv, NotSentAgain, MailOf
    <3> QED BY <1>4, <1>5, <3>1, <3>3
  <2>3. CASE ~ThrownAway(u, e)
    BY <1>4, <1>5, <2>3
  <2> QED BY <2>2, <2>3
<1>6. ReceivedKept'
  <2> SUFFICES ASSUME failed' = {}, NEW q \in Request, kind[q] = "new",
                      NEW u \in User, Reached(q, u)'
               PROVE  \/ <<"receive", MailOf(q)>> \in Listed(u, "receive")'
                      \/ Asked("delete", u, <<"receive", MailOf(q)>>)
    BY <1>4 DEF ReceivedKept, thread, MailOf
  <2>1. MailOf(q) \in Mail /\ next[q] \in Nat /\ failed = {}
    BY EntryParts DEF StageInv, Stage, TypeOK, MailOf
  <2>2. PICK j \in 1 .. next'[q] - 1 : receivers[MailOf(q)][j] = u
    BY DEF Reached, MailOf, thread
  <2>3. CASE j \in 1 .. next[q] - 1
    <3>1. \/ <<"receive", MailOf(q)>> \in Listed(u, "receive")
          \/ Asked("delete", u, <<"receive", MailOf(q)>>)
      BY <2>1, <2>2, <2>3 DEF AloneInv, ReceivedKept, Reached
    <3> QED BY <2>1, <3>1
  <2>4. CASE j \notin 1 .. next[q] - 1
    <3>1. q = r /\ next'[r] # next[r]
      BY <2>2, <2>4
    <3>2. next'[r] = next[r] + 1 /\ j = next[r]
      BY <2>1, <2>2, <2>4, <3>1
    <3>3. Receiver(r) = u
      BY <2>2, <3>1, <3>2 DEF Receiver
    <3> QED BY <2>1, <3>1, <3>2, <3>3
  <2> QED BY <2>3, <2>4
<1> QED BY <1>1, <1>2, <1>3, <1>5, <1>6 DEF AloneInv

\* A step that leaves the lists and what has been read alone.
LEMMA AloneQuiet ==
    ASSUME StageInv, AloneInv, UNCHANGED <<list, thread>>, failed \subseteq failed',
           \A u \in User : seen'[u]["trash"] \subseteq seen[u]["trash"] \cup Listed(u, "trash"),
           \A q \in Request :
              /\ pc'[q] \in Busy => pc[q] \in Busy
              /\ pc'[q] \in {"tRead", "tPut"} => pc[q] \in {"tRead", "tPut"}
              /\ \/ UNCHANGED <<pc[q], next[q], got[q]>>
                 \/ UNCHANGED next[q] /\ pc'[q] \notin {"rPut", "rBody", "dPut"}
                 \/ /\ pc[q] = "rBody" \/ Receiver(q) \notin User
                    /\ pc'[q] = "check" /\ next'[q] = next[q] + 1
    PROVE  AloneInv'
<1>1. OneAtATime' /\ NotSentAgain'
  BY DEF AloneInv, OneAtATime, NotSentAgain, MailOf, thread
<1>2. /\ \A u \in User, b \in Box : Listed(u, b)' = Listed(u, b)
      /\ \A k, u, e : Asked(k, u, e)' = Asked(k, u, e)
  BY DEF Listed, Asked, thread
<1>3. ASSUME failed' = {}, NEW q \in Request PROVE Read(q)'
  <2>1. Read(q)
    BY <1>3 DEF AloneInv
  <2>2. CASE UNCHANGED <<pc[q], next[q], got[q]>>
    BY <2>1, <2>2 DEF Read, Receiver, MailOf, thread, Listed
  <2>3. CASE pc'[q] \notin {"rPut", "rBody", "dPut"}
    BY <2>3 DEF Read
  <2> QED BY <2>2, <2>3
<1>4. ASSUME failed' = {} PROVE Gone' /\ InPlace'
  <2>1. \A u \in User : \A e : ThrownAway(u, e)' => ThrownAway(u, e)
    BY DEF ThrownAway, Listed, thread
  <2>2. Gone /\ InPlace
    BY <1>4 DEF AloneInv
  <2> QED BY <1>2, <2>1, <2>2 DEF Gone, InPlace, Box, Source
<1>5. ReceivedKept'
  <2> SUFFICES ASSUME failed' = {}, NEW q \in Request, kind[q] = "new",
                      NEW u \in User, Reached(q, u)'
               PROVE  \/ <<"receive", MailOf(q)>> \in Listed(u, "receive")
                      \/ Asked("delete", u, <<"receive", MailOf(q)>>)
    BY <1>2 DEF ReceivedKept, thread, MailOf, Box
  <2>1. next[q] \in Nat /\ failed = {}
    BY DEF StageInv, TypeOK
  <2>2. PICK j \in 1 .. next'[q] - 1 : receivers[MailOf(q)][j] = u
    BY DEF Reached, MailOf, thread
  <2>3. CASE j \in 1 .. next[q] - 1
    BY <2>1, <2>2, <2>3 DEF AloneInv, ReceivedKept, Reached
  <2>4. CASE j \notin 1 .. next[q] - 1
    <3>1. next'[q] # next[q]
      BY <2>2, <2>4
    <3>2. next'[q] = next[q] + 1 /\ j = next[q] /\ (pc[q] = "rBody" \/ Receiver(q) \notin User)
      BY <2>1, <2>2, <2>4, <3>1
    <3>3. Receiver(q) = u
      BY <2>2, <3>2 DEF Receiver
    <3> QED BY <2>1, <3>2, <3>3 DEF AloneInv, Read
  <2> QED BY <2>3, <2>4
<1> QED BY <1>1, <1>3, <1>4, <1>5 DEF AloneInv

LEMMA AloneRead ==
    ASSUME StageInv, AloneInv, NEW r \in Request,
           ReadReceived(r) \/ ReadSent(r) \/ ReadOld(r) \/ ReadTrash(r) \/ ReadErased(r)
    PROVE  AloneInv'
<1> USE DEF StageInv
<1>1. /\ pc[r] \in {"rRead", "check", "dRead", "tRead", "eRead"}
      /\ UNCHANGED <<list, seen, thread, next>>
      /\ \A q \in Request \ {r} : UNCHANGED pc[q]
      /\ pc'[r] \in {"rPut", "sPut", "dPut", "tPut", "ePut"}
      /\ pc'[r] = "tPut" => pc[r] = "tRead"
  BY DEF ReadReceived, ReadSent, ReadOld, ReadTrash, ReadErased, Goto, TypeOK, cells
<1>2. /\ pc[r] \in Busy /\ user[r] \in User /\ entry[r][1] \in Box
      /\ "trash" \in Box /\ "receive" \in Box /\ "send" \in Box
  BY <1>1, EntryParts DEF Busy, TypeOK, Source, Box
<1>3. \A q \in Request \ {r} : pc'[q] \notin Busy
  BY <1>1, <1>2 DEF AloneInv, OneAtATime
<1>4. failed \subseteq failed' /\ (failed' = {} => Read(r)')
  <2>1. CASE ReadReceived(r)
    <3>1. Receiver(r) \in User /\ GetList(r, Receiver(r), "receive") /\ pc'[r] = "rPut"
      BY <2>1 DEF ReadReceived, Stage, Goto, TypeOK
    <3>2. UNCHANGED Receiver(r)
      BY <1>1 DEF Receiver, MailOf, thread
    <3> QED BY <1>1, <1>2, <3>1, <3>2, GetListType DEF Read
  <2>2. CASE ReadSent(r)
    <3>1. GetList(r, user[r], "send") /\ pc'[r] = "sPut"
      BY <2>2 DEF ReadSent, Goto, TypeOK
    <3> QED BY <1>2, <3>1, GetListType DEF Read
  <2>3. CASE ReadOld(r)
    <3>1. GetList(r, user[r], entry[r][1]) /\ pc'[r] = "dPut"
      BY <2>3 DEF ReadOld, Goto, TypeOK
    <3> QED BY <1>1, <1>2, <3>1, GetListType DEF Read, thread
  <2>4. CASE ReadTrash(r) \/ ReadErased(r)
    <3>1. GetList(r, user[r], "trash") /\ pc'[r] \in {"tPut", "ePut"}
      BY <2>4 DEF ReadTrash, ReadErased, Goto, TypeOK
    <3> QED BY <1>2, <3>1, GetListType DEF Read
  <2> QED BY <2>1, <2>2, <2>3, <2>4
<1>5. \A u \in User, b \in Box : Listed(u, b)' = Listed(u, b)
  BY <1>1 DEF Listed
<1>6. ASSUME NEW u \in User, NEW e, ThrownAway(u, e)' PROVE ThrownAway(u, e)
  BY <1>1, <1>2, <1>5, <1>6 DEF ThrownAway, thread
<1> QED BY <1>1, <1>2, <1>3, <1>4, <1>5, <1>6, AloneStep DEF Source, Box

LEMMA AlonePut ==
    ASSUME StageInv, OwnInv, AloneInv, NEW r \in Request,
           PutReceived(r) \/ PutSent(r) \/ PutOld(r) \/ PutTrash(r) \/ PutErased(r)
    PROVE  AloneInv'
<1> USE DEF StageInv
<1>1. /\ pc[r] \in {"rPut", "sPut", "dPut", "tPut", "ePut"}
      /\ UNCHANGED <<got, seen, thread, next>>
      /\ \A q \in Request \ {r} : UNCHANGED pc[q]
      /\ pc'[r] \in {"rBody", "sBody", "tRead", "moved", "erased"}
  BY DEF PutReceived, PutSent, PutOld, PutTrash, PutErased, Goto, TypeOK
<1>2. /\ pc[r] \in Busy /\ user[r] \in User /\ entry[r] \in Entry
      /\ "send" \in Box /\ "trash" \in Box /\ "receive" \in Box
      /\ MailOf(r) \in Mail /\ <<"receive", MailOf(r)>> \in Entry
  BY <1>1, EntryParts, NewEntry DEF Busy, TypeOK, Box, MailOf, Source
<1>3. \A q \in Request \ {r} : pc'[q] \notin Busy /\ UNCHANGED next[q]
  BY <1>1, <1>2 DEF AloneInv, OneAtATime
<1>4. /\ Added(got[r], entry[r]) \in Lists /\ Removed(got[r], entry[r]) \in Lists
      /\ \A u \in User, b \in Box : list[u][b] \in Lists
  BY <1>2, ListsClosed DEF TypeOK
<1>5. \A u \in User : \A e :
         ThrownAway(u, e)' =>
            \/ ThrownAway(u, e) \/ e \in Listed(u, "trash")'
            \/ pc'[r] = "tRead" /\ user[r] = u /\ entry[r] = e
  <2>1. \A q \in Request :
           pc'[q] \in {"tRead", "tPut"} =>
              \/ pc'[q] = pc[q]
              \/ q = r /\ pc'[r] = "tRead"
    BY <1>1
  <2> QED BY <1>1, <2>1 DEF ThrownAway, thread
<1>6. CASE PutReceived(r)
  <2>1. /\ Receiver(r) \in User /\ pc[r] = "rPut" /\ pc'[r] = "rBody" /\ kind[r] = "new"
        /\ UNCHANGED <<Receiver(r), MailOf(r)>>
    BY <1>1, <1>6 DEF PutReceived, Stage, Sending, Goto, TypeOK, Receiver, MailOf, thread
  <2>2. PICK v \in User : v = Receiver(r)
    BY <2>1
  <2>3. PICK e \in Entry : e = <<"receive", MailOf(r)>>
    BY <1>2
  <2>4. /\ failed \subseteq failed'
        /\ \A w \in User, c \in Box : (w # v \/ c # "receive") => UNCHANGED list[w][c]
        /\ failed' = {} => list'[v]["receive"] = Added(got[r], e)
    BY <1>2, <1>4, <1>6, <2>2, <2>3, PutListType, ListsClosed DEF PutReceived, TypeOK
  <2>5. failed' = {} => got[r] = list[v]["receive"]
    BY <2>1, <2>2, <2>4 DEF AloneInv, Read
  <2>6. failed' = {} => Listed(v, "receive")' = Listed(v, "receive") \cup {e}
    BY <1>2, <1>4, <2>4, <2>5, AddedExactly
  <2>7. \A u \in User, b \in {"send", "trash"} : Listed(u, b)' = Listed(u, b)
    BY <1>2, <2>4 DEF Listed
  <2>8. \A u \in User \ {v} : Listed(u, "receive")' = Listed(u, "receive")
    BY <1>2, <2>4 DEF Listed
  <2>9. failed' = {} => Read(r)'
    <3>1. failed' = {} => e \in Listed(v, "receive")'
      BY <2>6
    <3>2. Receiver(r)' = v /\ <<"receive", MailOf(r)>>' = e
      BY <2>1, <2>2, <2>3
    <3> QED BY <2>1, <3>1, <3>2 DEF Read
  <2>10. ASSUME failed' = {}, NEW u \in User
         PROVE  /\ \A x \in Listed(u, "receive") : x \in Listed(u, "receive")'
                /\ \A b \in Source : \A x \in Listed(u, b)' :
                      x \in Listed(u, b) \/ (x[1] = b /\ MailOf(r) = x[2])
    BY <2>3, <2>6, <2>7, <2>8, <2>10 DEF Source
  <2>11. \A u \in User : \A x : ThrownAway(u, x)' => ThrownAway(u, x)
    BY <1>5, <2>1, <2>7 DEF ThrownAway
  <2> QED BY <1>1, <1>2, <1>3, <2>1, <2>4, <2>9, <2>10, <2>11, AloneStep
<1>7. CASE PutOld(r)
  <2>1. pc[r] = "dPut" /\ pc'[r] = "tRead" /\ kind[r] = "delete"
    BY <1>7 DEF PutOld, Goto, TypeOK, Stage, Deleting
  <2>2. PICK v \in User, e \in Entry, b \in Source : v = user[r] /\ e = entry[r] /\ b = e[1]
    BY <1>2, EntryParts
  <2>3. b \in Box /\ b # "trash" /\ UNCHANGED <<user[r], entry[r]>>
    BY <1>1 DEF Source, Box, thread
  <2>4. /\ failed \subseteq failed'
        /\ \A w \in User, c \in Box : (w # v \/ c # b) => UNCHANGED list[w][c]
        /\ failed' = {} => list'[v][b] = Removed(got[r], e)
    BY <1>4, <1>7, <2>2, <2>3, PutListType DEF PutOld
  <2>5. failed' = {} => got[r] = list[v][b]
    BY <2>1, <2>2, <2>4 DEF AloneInv, Read
  <2>6. failed' = {} => Listed(v, b)' = Listed(v, b) \ {e}
    BY <1>4, <2>3, <2>4, <2>5, RemovedExactly
  <2>7. \A u \in User : Listed(u, "trash")' = Listed(u, "trash")
    BY <1>2, <2>3, <2>4 DEF Listed
  <2>8. \A u \in User, c \in Source : u # v \/ b # c => Listed(u, c)' = Listed(u, c)
    BY <1>2, <2>4 DEF Listed, Source
  <2>9. Asked("delete", v, e)
    BY <2>1, <2>2 DEF Asked
  <2>10. ASSUME failed' = {}, NEW u \in User
         PROVE  /\ \A c \in Source : Listed(u, c)' \subseteq Listed(u, c)
                /\ \A x \in Listed(u, "receive") :
                      x \in Listed(u, "receive")' \/ Asked("delete", u, x)
    BY <2>6, <2>8, <2>9, <2>10 DEF Source
  <2>11. failed' = {} => \A c \in Source : e \notin Listed(v, c)'
    <3>1. failed' = {} => InPlace
      BY <2>4 DEF AloneInv
    <3> QED BY <2>2, <2>6, <2>8, <3>1 DEF InPlace
  <2>12. \A u \in User : \A x : ThrownAway(u, x)' => ThrownAway(u, x) \/ (u = v /\ x = e)
    BY <1>5, <2>2, <2>7 DEF ThrownAway
  <2>13. \A u \in User, x \in Entry :
            failed' = {} /\ ThrownAway(u, x)' =>
               \/ ThrownAway(u, x)
               \/ /\ \A c \in Source : x \notin Listed(u, c)'
                  /\ Asked("delete", u, x)
    BY <2>9, <2>11, <2>12
  <2>14. Read(r)'
    BY <2>1 DEF Read
  <2> QED BY <1>1, <1>2, <1>3, <2>4, <2>10, <2>13, <2>14, AloneStep
<1>8. CASE PutSent(r) \/ PutTrash(r) \/ PutErased(r)
  <2>1. PICK v \in User, e \in Entry : v = user[r] /\ e = entry[r]
    BY <1>2
  <2>2. \E b \in {"send", "trash"}, x \in Lists : PutList(v, b, x)
    BY <1>4, <1>8, <2>1 DEF PutSent, PutTrash, PutErased
  <2>3. /\ failed \subseteq failed'
        /\ \A w \in User : UNCHANGED list[w]["receive"]
    BY <1>2, <2>2, PutListType
  <2>4. ASSUME failed' = {}, NEW u \in User
        PROVE  /\ Listed(u, "receive")' = Listed(u, "receive")
               /\ \A b \in Source : \A x \in Listed(u, b)' :
                     \/ x \in Listed(u, b)
                     \/ x[1] = b /\ kind[r] = "new" /\ MailOf(r) = x[2]
    <3>1. Listed(u, "receive")' = Listed(u, "receive")
      BY <2>3 DEF Listed
    <3>2. CASE PutSent(r)
      <4>1. /\ pc[r] = "sPut" /\ kind[r] = "new" /\ e[1] = "send"
            /\ \A w \in User : w # v => UNCHANGED list[w]["send"]
            /\ failed = {} /\ list'[v]["send"] = Added(got[r], e)
        BY <1>2, <1>4, <2>1, <2>4, <3>2, PutListType DEF PutSent, Stage, Sending
      <4>2. got[r] = list[v]["send"]
        BY <2>1, <4>1 DEF OwnInv, Fresh
      <4>3. Listed(v, "send")' = Listed(v, "send") \cup {e}
        BY <1>2, <1>4, <4>1, <4>2, AddedExactly
      <4>4. u # v => Listed(u, "send")' = Listed(u, "send")
        BY <4>1 DEF Listed
      <4> QED BY <2>1, <3>1, <4>1, <4>3, <4>4 DEF MailOf, Source
    <3>3. CASE PutTrash(r) \/ PutErased(r)
      <4>1. Listed(u, "send")' = Listed(u, "send")
        BY <1>2, <1>4, <2>1, <3>3, PutListType DEF PutTrash, PutErased, Listed
      <4> QED BY <3>1, <4>1 DEF Source
    <3> QED BY <1>8, <3>2, <3>3
  <2>5. Read(r)'
    BY <1>8 DEF PutSent, PutTrash, PutErased, Goto, TypeOK, Read
  <2>6. pc'[r] # "tRead"
    BY <1>8 DEF PutSent, PutTrash, PutErased, Goto, TypeOK
  <2>7. ASSUME failed' = {}, NEW u \in User, NEW x \in Entry, x \in Listed(u, "trash")'
        PROVE  ThrownAway(u, x)
    <3>1. CASE PutSent(r)
      <4>1. Listed(u, "trash")' = Listed(u, "trash")
        BY <1>2, <1>4, <3>1, PutListType DEF PutSent, Listed
      <4> QED BY <2>7, <4>1 DEF ThrownAway
    <3>2. CASE PutTrash(r)
      <4>1. /\ pc[r] = "tPut"
            /\ \A w \in User : w # v => UNCHANGED list[w]["trash"]
            /\ failed = {} /\ list'[v]["trash"] = Added(got[r], e)
        BY <1>2, <1>4, <2>1, <2>7, <3>2, PutListType DEF PutTrash
      <4>2. got[r] = list[v]["trash"]
        BY <2>1, <4>1 DEF OwnInv, Fresh
      <4>3. Listed(v, "trash")' = Listed(v, "trash") \cup {e}
        BY <1>2, <1>4, <4>1, <4>2, AddedExactly
      <4>4. u # v => Listed(u, "trash")' = Listed(u, "trash")
        BY <4>1 DEF Listed
      <4> QED BY <2>1, <2>7, <4>1, <4>3, <4>4 DEF ThrownAway
    <3>3. CASE PutErased(r)
      <4>1. /\ pc[r] = "ePut"
            /\ \A w \in User : w # v => UNCHANGED list[w]["trash"]
            /\ failed = {} /\ list'[v]["trash"] = Removed(got[r], e)
        BY <1>2, <1>4, <2>1, <2>7, <3>3, PutListType DEF PutErased
      <4>2. got[r] = list[v]["trash"]
        BY <2>1, <4>1 DEF OwnInv, Fresh
      <4>3. Listed(v, "trash")' = Listed(v, "trash") \ {e}
        BY <1>2, <1>4, <4>1, <4>2, RemovedExactly
      <4>4. u # v => Listed(u, "trash")' = Listed(u, "trash")
        BY <4>1 DEF Listed
      <4> QED BY <2>7, <4>3, <4>4 DEF ThrownAway
    <3> QED BY <1>8, <3>1, <3>2, <3>3
  <2>8. \A u \in User, x \in Entry : failed' = {} /\ ThrownAway(u, x)' => ThrownAway(u, x)
    BY <1>5, <2>6, <2>7
  <2> QED BY <1>1, <1>2, <1>3, <2>3, <2>4, <2>5, <2>8, AloneStep
<1> QED BY <1>6, <1>7, <1>8

\* A new request: no other one is running.
LEMMA AloneArrive ==
    ASSUME StageInv, AloneInv, Alone, NEW r \in Request, NEW u \in User, NEW e \in Entry,
           NEW k \in {"new", "delete", "erase"}, NEW p \in {"check", "dRead", "eBody"},
           Arrive(r, u, k, e, p),
           k = "new" => \A q \in Request :
                           kind[q] \in {"delete", "erase"} => entry[q][2] # e[2],
           k = "erase" => e \in seen[u]["trash"]
    PROVE  AloneInv'
<1>1. /\ pc[r] = "idle" /\ kind[r] = None /\ next[r] = 1
      /\ pc'[r] = p /\ kind'[r] = k /\ user'[r] = u /\ entry'[r] = e
      /\ \A q \in Request \ {r} : UNCHANGED <<pc[q], kind[q], user[q], entry[q]>>
      /\ UNCHANGED <<list, seen, got, next, failed>>
  BY ArriveFacts DEF cells, faults, StageInv, TypeOK, Arrive, Stage
<1>2. \A q \in Request : pc[q] \notin Busy
  BY DEF Arrive, Free
<1>3. OneAtATime'
  BY <1>1, <1>2 DEF OneAtATime
<1>4. NotSentAgain'
  <2> SUFFICES ASSUME NEW q \in Request, NEW s \in Request, kind'[q] = "delete",
                      kind'[s] = "new", pc'[s] \in Busy
               PROVE  entry'[s][2] # entry'[q][2]
    BY DEF NotSentAgain, MailOf
  <2>1. s = r /\ k = "new" /\ q # r
    BY <1>1, <1>2
  <2> QED BY <1>1, <2>1
<1>5. ASSUME NEW q \in Request PROVE Read(q)'
  BY <1>1, <1>2 DEF Read, Busy
<1>6. \A w \in User : \A x : Asked("delete", w, x) => Asked("delete", w, x)'
  BY <1>1, MailAssumption DEF Asked
<1>7. \A w \in User, b \in Box : Listed(w, b)' = Listed(w, b)
  BY <1>1 DEF Listed
<1>8. ASSUME failed' = {} PROVE Gone' /\ InPlace'
  <2>1. ASSUME NEW w \in User, NEW x, ThrownAway(w, x)' PROVE ThrownAway(w, x)
    <3>1. CASE x \in Listed(w, "trash")' \cup seen'[w]["trash"]
      BY <1>1, <1>7, <3>1 DEF ThrownAway, Box
    <3>2. CASE \E q \in Request \ {r} :
                  /\ pc'[q] \in {"tRead", "tPut"} \/ kind'[q] = "erase"
                  /\ user'[q] = w /\ entry'[q] = x
      BY <1>1, <3>2 DEF ThrownAway
    <3>3. CASE kind'[r] = "erase" /\ user'[r] = w /\ entry'[r] = x
      BY <1>1, <3>3 DEF ThrownAway
    <3> QED BY <1>1, <2>1, <3>1, <3>2, <3>3 DEF ThrownAway
  <2>2. Gone /\ InPlace
    BY <1>1, <1>8 DEF AloneInv
  <2> QED BY <1>6, <1>7, <2>1, <2>2 DEF Gone, InPlace, Box, Source
<1>9. ReceivedKept'
  <2> SUFFICES ASSUME failed' = {}, NEW q \in Request, kind'[q] = "new",
                      NEW w \in User, Reached(q, w)'
               PROVE  (\/ <<"receive", MailOf(q)>> \in Listed(w, "receive")
                       \/ Asked("delete", w, <<"receive", MailOf(q)>>))'
    BY DEF ReceivedKept
  <2>1. q # r
    BY <1>1 DEF Reached
  <2>2. UNCHANGED <<kind[q], MailOf(q)>> /\ Reached(q, w)
    BY <1>1, <2>1 DEF Reached, MailOf
  <2>3. \/ <<"receive", MailOf(q)>> \in Listed(w, "receive")
        \/ Asked("delete", w, <<"receive", MailOf(q)>>)
    BY <1>1, <2>2 DEF AloneInv, ReceivedKept
  <2> QED BY <1>6, <1>7, <2>2, <2>3 DEF Box
<1> QED BY <1>3, <1>4, <1>5, <1>8, <1>9 DEF AloneInv

LEMMA NextAlone ==
    ASSUME Alone, StageInv, OwnInv, AloneInv, [Next]_vars
    PROVE  AloneInv'
<1>1. CASE UNCHANGED vars
  BY <1>1, AloneQuiet DEF vars, cells, faults
<1>2. ASSUME NEW u \in User, NEW b \in Box, ListPage(u, b) PROVE AloneInv'
  <2>1. UNCHANGED <<list, thread, pc, next, got, failed>>
    BY <1>2 DEF ListPage, cells, faults
  <2>2. \A w \in User : seen'[w]["trash"] \subseteq seen[w]["trash"] \cup Listed(w, "trash")
    BY <1>2 DEF ListPage, StageInv, TypeOK, Box
  <2> QED BY <2>1, <2>2, AloneQuiet
<1>3. ASSUME NEW r \in Request, NEW m \in Mail, NewMail(r, m) PROVE AloneInv'
  <2>1. PICK e \in Entry : e = <<"send", m>>
    BY NewEntry DEF Source
  <2>2. sender[m] \in User /\ Arrive(r, sender[m], "new", e, "check") /\ e[2] = m
    BY <1>3, <2>1, MailAssumption DEF NewMail
  <2>3. \A q \in Request : kind[q] \in {"delete", "erase"} => entry[q][2] # e[2]
    BY <1>3, <2>2 DEF NewMail
  <2> QED BY <2>2, <2>3, AloneArrive
<1>4. ASSUME NEW r \in Request, NEW u \in User, NEW e \in Entry,
             AskDelete(r, u, e) \/ AskErase(r, u, e)
      PROVE  AloneInv'
  <2>1. CASE AskDelete(r, u, e)
    BY <2>1, AloneArrive DEF AskDelete
  <2>2. CASE AskErase(r, u, e)
    BY <2>2, AloneArrive DEF AskErase
  <2> QED BY <1>4, <2>1, <2>2
<1>5. ASSUME NEW r \in Request,
             \/ CheckReceiver(r) \/ PutReceivedBody(r) \/ SendOutside(r)
             \/ PutSentBody(r) \/ EraseBody(r)
      PROVE  AloneInv'
  <2>1. UNCHANGED <<list, seen, thread, got>> /\ failed \subseteq failed'
    BY <1>5 DEF CheckReceiver, PutReceivedBody, SendOutside, PutSentBody, EraseBody,
                PutBody, cells, faults
  <2>2. ASSUME NEW q \in Request
        PROVE  /\ pc'[q] \in Busy => pc[q] \in Busy
               /\ pc'[q] \in {"tRead", "tPut"} => pc[q] \in {"tRead", "tPut"}
               /\ \/ UNCHANGED <<pc[q], next[q], got[q]>>
                  \/ UNCHANGED next[q] /\ pc'[q] \notin {"rPut", "rBody", "dPut"}
                  \/ /\ pc[q] = "rBody" \/ Receiver(q) \notin User
                     /\ pc'[q] = "check" /\ next'[q] = next[q] + 1
    <3>1. CASE CheckReceiver(r)
      BY <2>1, <3>1 DEF CheckReceiver, Die, Goto, Busy, StageInv, TypeOK
    <3>2. CASE PutReceivedBody(r)
      BY <2>1, <3>2 DEF PutReceivedBody, NextReceiver, Goto, Busy, StageInv, TypeOK
    <3>3. CASE SendOutside(r)
      <4>1. Receiver(r) \notin User
        BY <3>3, MailAssumption DEF SendOutside, StageInv, Stage
      <4> QED BY <2>1, <3>3, <4>1 DEF SendOutside, NextReceiver, Goto, Busy, StageInv, TypeOK
    <3>4. CASE PutSentBody(r) \/ EraseBody(r)
      BY <2>1, <3>4 DEF PutSentBody, EraseBody, Goto, Busy, StageInv, TypeOK
    <3> QED BY <1>5, <3>1, <3>2, <3>3, <3>4
  <2> QED BY <2>1, <2>2, AloneQuiet
<1>6. ASSUME NEW r \in Request, StoreStep(r) \/ SendOutside(r) PROVE AloneInv'
  BY <1>5, <1>6, AloneRead, AlonePut DEF StoreStep
<1>7. CASE Crash
  <2>1. UNCHANGED <<list, seen, thread, next, got, failed>>
    BY <1>7 DEF Crash, cells
  <2>2. \A q \in Request : UNCHANGED pc[q] \/ pc'[q] = "dead"
    BY <1>7 DEF Crash, Die, StageInv, TypeOK
  <2> QED BY <2>1, <2>2, AloneQuiet DEF Busy
<1> QED BY <1>1, <1>2, <1>3, <1>4, <1>6, <1>7 DEF Next

\* While requests come one at a time and no call fails, no receiver that a
\* sending request has passed loses the mail, for any mails, receivers and
\* crashes.
THEOREM ReceivedIsKept ==
    ASSUME Alone
    PROVE  Spec => []ReceivedKept
<1>1. AloneInv => ReceivedKept
  BY DEF AloneInv
<1>2. StageInv /\ OwnInv /\ AloneInv /\ [Next]_vars => AloneInv'
  BY NextAlone
<1> QED BY <1>1, <1>2, InitStage, NextStage, InitOwn, NextOwn, InitAlone, PTL DEF Spec

\* Under the same conditions, what a receiver's list names can be opened when
\* its header has no capital letter.
THEOREM ListedIsOpened ==
    ASSUME Alone
    PROVE  Spec => []ListedCanBeOpened
<1>1. AloneInv /\ TextsKept /\ StageInv => ListedCanBeOpened
  <2> SUFFICES ASSUME AloneInv, TextsKept, StageInv, failed = {},
                      NEW r \in Request, kind[r] = "new", MailOf(r) \notin Capitals,
                      NEW u \in User, Reached(r, u),
                      <<"receive", MailOf(r)>> \in Listed(u, "receive")
               PROVE  Text(u, <<"receive", MailOf(r)>>) # Failed
    BY DEF ListedCanBeOpened
  <2>1. PICK m \in Mail : m = MailOf(r)
    BY EntryParts DEF StageInv, Stage, TypeOK, MailOf
  <2>2. ~Asked("erase", u, <<"receive", m>>)
    BY <2>1, NewEntry DEF AloneInv, Gone, ThrownAway, Asked, Source
  <2>3. <<"receive", m>> \in body[u]
    BY <2>1, <2>2 DEF TextsKept
  <2>4. <<"receive", m>> # Failed
    BY <2>1, NewEntry, MailAssumption DEF Source
  <2> QED BY <2>1, <2>3, <2>4 DEF Text
<1>2. Init => TextsKept
  BY MailAssumption DEF Init, TextsKept
<1>3. StageInv /\ OwnInv /\ AloneInv /\ [Next]_vars => AloneInv'
  BY NextAlone
<1> QED BY <1>1, <1>2, <1>3, InitStage, NextStage, NextTexts, InitOwn, NextOwn, InitAlone,
          PTL DEF Spec

-----------------------------------------------------------------------------
(* The servlet implements MailStore, with one request at a time and no      *)
(* failed call: every step is a step of MailStore or changes nothing of it. *)

NoFailure == failed = {}

LEMMA NextNoFailure ==
    ASSUME MayFail = {}, NoFailure, [Next]_vars
    PROVE  NoFailure'
<1> USE DEF NoFailure
<1>1. CASE UNCHANGED vars
  BY <1>1 DEF vars, faults
<1>2. ASSUME NEW u \in User, NEW b \in Box, ListPage(u, b) PROVE NoFailure'
  BY <1>2 DEF ListPage, faults
<1>3. ASSUME NEW r \in Request, NEW u, NEW k, NEW e, NEW p, Arrive(r, u, k, e, p)
      PROVE  NoFailure'
  BY <1>3 DEF Arrive, faults
<1>4. ASSUME NEW r \in Request, CheckReceiver(r) \/ SendOutside(r) PROVE NoFailure'
  BY <1>4 DEF CheckReceiver, SendOutside, faults
<1>5. ASSUME NEW r \in Request, NEW u, NEW b, NEW v,
             GetList(r, u, b) \/ PutList(u, b, v) \/ PutBody(u, v)
      PROVE  NoFailure'
  BY <1>5 DEF GetList, PutList, PutBody
<1>6. ASSUME NEW r \in Request, StoreStep(r) \/ SendOutside(r) PROVE NoFailure'
  BY <1>4, <1>5, <1>6 DEF StoreStep, ReadReceived, PutReceived, PutReceivedBody, ReadSent, PutSent,
     PutSentBody, ReadOld, PutOld, ReadTrash, PutTrash, EraseBody, ReadErased, PutErased
<1>7. CASE Crash
  BY <1>7 DEF Crash
<1> QED BY <1>1, <1>2, <1>3, <1>6, <1>7 DEF Next, NewMail, AskDelete, AskErase

\* A mail is filed as sent when its receivers have all been passed.
Filing == \A r \in Request : pc[r] \in {"sPut", "sBody"} => ~MoreToSend(r)

LEMMA NextFiling == StageInv /\ Filing /\ [Next]_vars => Filing'
<1> SUFFICES ASSUME StageInv, Filing, [Next]_vars PROVE Filing'
  OBVIOUS
<1> USE DEF StageInv, Filing, MoreToSend, MailOf
<1>1. CASE UNCHANGED vars
  BY <1>1 DEF vars, thread
<1>2. ASSUME NEW u \in User, NEW b \in Box, ListPage(u, b) PROVE Filing'
  BY <1>2 DEF ListPage, thread
<1>3. ASSUME NEW r \in Request, NEW u, NEW k, NEW e, NEW p \in {"check", "dRead", "eBody"},
             Arrive(r, u, k, e, p)
      PROVE  Filing'
  BY <1>3 DEF Arrive, TypeOK
<1>4. ASSUME NEW r \in Request, StoreStep(r) \/ SendOutside(r) PROVE Filing'
  <2>1. UNCHANGED thread
    BY <1>4 DEF StoreStep, CheckReceiver, ReadReceived, PutReceived, PutReceivedBody, ReadSent,
       PutSent, PutSentBody, ReadOld, PutOld, ReadTrash, PutTrash, EraseBody, ReadErased,
       PutErased, SendOutside
  <2>2. \A q \in Request : pc'[q] \in {"sPut", "sBody"} =>
           /\ UNCHANGED next[q]
           /\ pc[q] \in {"sPut", "sBody"} \/ ~MoreToSend(q)
    <3>1. CASE CheckReceiver(r)
      BY <3>1 DEF CheckReceiver, Die, Goto, TypeOK
    <3>2. CASE ReadSent(r) \/ PutSent(r) \/ PutSentBody(r)
      BY <3>2 DEF ReadSent, PutSent, PutSentBody, Goto, TypeOK
    <3>3. CASE PutReceivedBody(r) \/ SendOutside(r)
      BY <3>3 DEF PutReceivedBody, SendOutside, NextReceiver, Goto, TypeOK
    <3>4. CASE \/ ReadReceived(r) \/ PutReceived(r) \/ ReadOld(r) \/ PutOld(r) \/ ReadTrash(r)
               \/ PutTrash(r) \/ EraseBody(r) \/ ReadErased(r) \/ PutErased(r)
      BY <3>4 DEF ReadReceived, PutReceived, ReadOld, PutOld, ReadTrash, PutTrash, EraseBody,
                  ReadErased, PutErased, Goto, TypeOK
    <3> QED BY <1>4, <3>1, <3>2, <3>3, <3>4 DEF StoreStep
  <2> QED BY <2>1, <2>2 DEF thread
<1>5. CASE Crash
  BY <1>5 DEF Crash, Die, TypeOK, thread
<1> QED BY <1>1, <1>2, <1>3, <1>4, <1>5 DEF Next, NewMail, AskDelete, AskErase

\* What the mapped steps rest on.
Mapped ==
    /\ StageInv /\ OwnInv /\ TextsKept /\ AloneInv
    /\ NoFailure /\ Filing

Req(r) == <<kind[r], user[r], entry[r]>>

\* The one request under way.
LEMMA OnePending ==
    ASSUME Mapped, NEW r \in Request, pc[r] \in Busy, UNCHANGED thread,
           \A q \in Request \ {r} : UNCHANGED pc[q] \/ pc'[q] \notin Busy
    PROVE  /\ Pending = {Req(r)}
           /\ Pending' = IF pc'[r] \in Busy THEN {Req(r)} ELSE {}
           /\ \A u \in User :
                 /\ Moving(u) = IF pc[r] \in {"tRead", "tPut"} /\ user[r] = u
                                THEN {entry[r]} ELSE {}
                 /\ Moving(u)' = IF pc'[r] \in {"tRead", "tPut"} /\ user[r] = u
                                 THEN {entry[r]} ELSE {}
<1>1. \A q \in Request : pc[q] \in Busy => q = r
  BY DEF Mapped, AloneInv, OneAtATime
<1>2. \A q \in Request : pc'[q] \in Busy => q = r
  BY <1>1
<1>3. UNCHANGED <<kind, user, entry>>
  BY DEF thread
<1>4. Pending = {Req(r)}
  BY <1>1 DEF Pending, Req
<1>5. Pending' = IF pc'[r] \in Busy THEN {Req(r)} ELSE {}
  BY <1>2, <1>3 DEF Pending, Req
<1>6. {"tRead", "tPut"} \subseteq Busy
  BY DEF Busy
<1>7. ASSUME NEW u \in User
      PROVE  Moving(u) = IF pc[r] \in {"tRead", "tPut"} /\ user[r] = u THEN {entry[r]} ELSE {}
  BY <1>1, <1>6 DEF Moving
<1>8. ASSUME NEW u \in User
      PROVE  Moving(u)' = IF pc'[r] \in {"tRead", "tPut"} /\ user[r] = u THEN {entry[r]} ELSE {}
  BY <1>2, <1>3, <1>6 DEF Moving
<1> QED BY <1>4, <1>5, <1>7, <1>8

PromiseStep == Promise!Next \/ UNCHANGED Promise!vars

LEMMA Stutters ==
    ASSUME UNCHANGED <<Boxes, Trashes, Pending, crashes>>
    PROVE  PromiseStep
BY DEF PromiseStep, Promise!vars

LEMMA Delivers ==
    ASSUME Mapped, NEW r \in Request, Pending = {Req(r)}, kind[r] = "new", entry[r] \in Entry,
           NEW u \in User, NEW e \in Entry,
           <<u, e>> \in Copies(entry[r]) \cup {<<user[r], entry[r]>>},
           \A c \in Copies(e) : c[2] \in Boxes[c[1]],
           Boxes' = [Boxes EXCEPT ![u] = @ \cup {e}], UNCHANGED <<Trashes, crashes>>,
           Pending' \in {Pending, {}}
    PROVE  PromiseStep
<1>1. Promise!Deliver(Req(r), u, e)
  BY DEF Promise!Deliver, Req
<1> QED BY <1>1 DEF PromiseStep, Promise!Next

LEMMA Ends ==
    ASSUME NEW r \in Request, Pending = {Req(r)}, Pending' = {},
           UNCHANGED <<Boxes, Trashes, crashes>>
    PROVE  PromiseStep
<1>1. Promise!End(Req(r))
  BY DEF Promise!End, Req
<1> QED BY <1>1 DEF PromiseStep, Promise!Next

\* Two states of the boxes compared user by user.
LEMMA UserByUser ==
    /\ (\A u \in User : Boxes'[u] = Boxes[u]) => UNCHANGED Boxes
    /\ (\A u \in User : Trashes'[u] = Trashes[u]) => UNCHANGED Trashes
    /\ \A v \in User : \A x :
          (\A u \in User : Boxes'[u] = IF u = v THEN x ELSE Boxes[u]) =>
              Boxes' = [Boxes EXCEPT ![v] = x]
    /\ \A v \in User : \A x :
          (\A u \in User : Trashes'[u] = IF u = v THEN x ELSE Trashes[u]) =>
              Trashes' = [Trashes EXCEPT ![v] = x]
<1>1. Boxes = [u \in User |-> Boxes[u]] /\ Boxes' = [u \in User |-> Boxes'[u]]
  BY DEF Boxes
<1>2. Trashes = [u \in User |-> Trashes[u]] /\ Trashes' = [u \in User |-> Trashes'[u]]
  BY DEF Trashes
<1> QED BY <1>1, <1>2, Zenon

\* Steps that change no cell.
LEMMA MapQuiet ==
    ASSUME Mapped, NEW r \in Request, pc[r] \in Busy, UNCHANGED <<list, body, thread, crashes>>,
           \A q \in Request \ {r} : UNCHANGED pc[q] \/ pc'[q] \notin Busy,
           \/ pc'[r] \in Busy /\ (pc[r] \in {"tRead", "tPut"} <=> pc'[r] \in {"tRead", "tPut"})
           \/ pc'[r] \notin Busy /\ pc[r] \notin {"tRead", "tPut"}
    PROVE  PromiseStep
<1>1. \A u \in User, b \in Box : Listed(u, b)' = Listed(u, b)
  BY DEF Listed
<1>2. UNCHANGED Boxes
  BY <1>1 DEF Boxes, Box
<1>3. pc[r] \in {"tRead", "tPut"} <=> pc'[r] \in {"tRead", "tPut"}
  BY DEF Busy
<1>4. UNCHANGED Trashes
  BY <1>1, <1>3, OnePending DEF Trashes, Box
<1>5. CASE pc'[r] \in Busy
  BY <1>2, <1>4, <1>5, OnePending, Stutters
<1>6. CASE pc'[r] \notin Busy
  BY <1>2, <1>4, <1>6, OnePending, Ends
<1> QED BY <1>5, <1>6

\* The steps of a thread that change no cell.
LEMMA MapReads ==
    ASSUME Mapped, NEW r \in Request,
           \/ CheckReceiver(r) \/ ReadReceived(r) \/ SendOutside(r) \/ ReadSent(r)
           \/ ReadOld(r) \/ ReadTrash(r) \/ ReadErased(r)
    PROVE  PromiseStep
<1>1. UNCHANGED <<list, body, thread, crashes>> /\ pc \in [Request -> {"idle"} \cup Busy \cup Ended]
  BY DEF CheckReceiver, ReadReceived, SendOutside, ReadSent, ReadOld, ReadTrash, ReadErased, cells, faults,
         Mapped, StageInv, TypeOK
<1>2. pc[r] \in Busy
  BY DEF CheckReceiver, ReadReceived, SendOutside, ReadSent, ReadOld, ReadTrash, ReadErased, Busy
<1>3. CASE CheckReceiver(r)
  BY <1>1, <1>2, <1>3, MapQuiet DEF CheckReceiver, Goto, Die, Busy
<1>4. CASE ~CheckReceiver(r)
  <2>1. /\ \A q \in Request \ {r} : UNCHANGED pc[q]
        /\ pc'[r] \in Busy /\ (pc[r] \in {"tRead", "tPut"} <=> pc'[r] \in {"tRead", "tPut"})
    BY <1>1, <1>4 DEF ReadReceived, SendOutside, ReadSent, ReadOld, ReadTrash, ReadErased,
                      NextReceiver, Goto, Busy
  <2> QED BY <1>1, <1>2, <2>1, MapQuiet
<1> QED BY <1>3, <1>4

\* What can be seen of the lists after a list has been put.
LEMMA PutExactly ==
    ASSUME Mapped, NoFailure', NEW u \in User, NEW b \in Box, NEW v \in Lists, PutList(u, b, v)
    PROVE  /\ list'[u][b] = v
           /\ \A w \in User, c \in Box : w # u \/ c # b => Listed(w, c)' = Listed(w, c)
<1>1. /\ \A w \in User, c \in Box : w # u \/ c # b => list'[w][c] = list[w][c]
      /\ list'[u][b] = v
  BY PutListType DEF Mapped, StageInv, NoFailure
<1> QED BY <1>1 DEF Listed

\* The entry a receiver gets is one of the copies of a mail.
LEMMA Receiving ==
    ASSUME Mapped, NEW r \in Request, pc[r] \in {"rPut", "rBody"}
    PROVE  /\ Receiver(r) \in User /\ kind[r] = "new" /\ entry[r] \in Entry
           /\ <<"receive", MailOf(r)>> \in Entry
           /\ <<Receiver(r), <<"receive", MailOf(r)>>>> \in Copies(entry[r])
           /\ Copies(<<"receive", MailOf(r)>>) = {}
<1> USE DEF Mapped, StageInv
<1>1. Receiver(r) \in User /\ kind[r] = "new" /\ entry[r] \in Entry /\ MoreToSend(r)
  BY DEF Stage, Sending, TypeOK
<1>2. entry[r][1] = "send" /\ MailOf(r) \in Mail
  BY <1>1, EntryParts DEF Stage, MailOf
<1>3. next[r] \in 1 .. Len(receivers[MailOf(r)]) /\ receivers[MailOf(r)] \in Seq(Name)
  BY <1>1, <1>2, ReceiverType, MailAssumption
<1>4. Receiver(r) \in Range(receivers[MailOf(r)])
  BY <1>3 DEF Receiver, Range
<1>5. <<Receiver(r), <<"receive", MailOf(r)>>>> \in Copies(entry[r])
  BY <1>1, <1>2, <1>4 DEF Copies, MailOf
<1>6. <<"receive", MailOf(r)>> \in Entry /\ Copies(<<"receive", MailOf(r)>>) = {}
  BY <1>2, NewEntry DEF Copies, Source
<1> QED BY <1>1, <1>5, <1>6

LEMMA MapPutReceived ==
    ASSUME Mapped, NoFailure', NEW r \in Request, PutReceived(r)
    PROVE  PromiseStep
<1> USE DEF Mapped, StageInv
<1>1. /\ pc[r] = "rPut" /\ pc'[r] = "rBody" /\ UNCHANGED <<body, thread, crashes>>
      /\ \A q \in Request \ {r} : UNCHANGED pc[q]
      /\ pc[r] \in Busy /\ pc'[r] \in Busy
  BY DEF PutReceived, Goto, TypeOK, Busy
<1>2. PICK v \in User, e \in Entry : v = Receiver(r) /\ e = <<"receive", MailOf(r)>>
  BY <1>1, Receiving
<1>3. "receive" \in Box /\ "send" \in Box /\ "trash" \in Box
  BY DEF Box
<1>4. got[r] \in Lists /\ Added(got[r], e) \in Lists /\ list[v]["receive"] \in Lists
  BY <1>3, ListsClosed DEF TypeOK
<1>5. got[r] = list[v]["receive"]
  BY <1>1, <1>2 DEF AloneInv, Read, NoFailure
<1>6. PutList(v, "receive", Added(got[r], e))
  BY <1>2 DEF PutReceived
<1>7. /\ Listed(v, "receive")' = Listed(v, "receive") \cup {e}
      /\ \A w \in User, c \in Box : w # v \/ c # "receive" => Listed(w, c)' = Listed(w, c)
  BY <1>3, <1>4, <1>5, <1>6, PutExactly, AddedExactly
<1>8. UNCHANGED Trashes
  BY <1>1, <1>3, <1>7, OnePending DEF Trashes
<1>9. Pending = {Req(r)} /\ UNCHANGED Pending
  BY <1>1, OnePending
<1>10. \A u \in User : Boxes'[u] = IF u = v THEN Boxes[v] \cup ({e} \cap body[v]) ELSE Boxes[u]
  BY <1>1, <1>3, <1>7 DEF Boxes
<1>11. CASE e \in body[v]
  <2>1. Boxes[v] \cup ({e} \cap body[v]) = Boxes[v] \cup {e}
    BY <1>11
  <2>2. Boxes' = [Boxes EXCEPT ![v] = @ \cup {e}]
    BY <1>10, <2>1, UserByUser
  <2> QED BY <1>1, <1>2, <1>8, <1>9, <2>2, Receiving, Delivers
<1>12. CASE e \notin body[v]
  <2>1. \A u \in User : Boxes'[u] = Boxes[u]
    BY <1>10, <1>12
  <2> QED BY <1>1, <1>8, <1>9, <2>1, UserByUser, Stutters
<1> QED BY <1>11, <1>12

LEMMA MapPutReceivedBody ==
    ASSUME Mapped, NoFailure', NEW r \in Request, PutReceivedBody(r)
    PROVE  PromiseStep
<1> USE DEF Mapped, StageInv
<1>1. /\ pc[r] = "rBody" /\ pc'[r] = "check" /\ UNCHANGED <<list, thread, crashes>>
      /\ \A q \in Request \ {r} : UNCHANGED pc[q]
      /\ pc[r] \in Busy /\ pc'[r] \in Busy
  BY DEF PutReceivedBody, NextReceiver, Goto, TypeOK, Busy
<1>2. PICK v \in User, e \in Entry : v = Receiver(r) /\ e = <<"receive", MailOf(r)>>
  BY <1>1, Receiving
<1>3. e \in Listed(v, "receive")
  BY <1>1, <1>2 DEF AloneInv, Read, NoFailure
<1>4. body[v] \cup {e} \in SUBSET Entry /\ PutBody(v, body[v] \cup {e})
  BY <1>2 DEF PutReceivedBody, TypeOK
<1>5. body'[v] = body[v] \cup {e} /\ \A u \in User \ {v} : body'[u] = body[u]
  BY <1>4, PutBodyType DEF NoFailure
<1>6. \A u \in User, b \in Box : Listed(u, b)' = Listed(u, b)
  BY <1>1 DEF Listed
<1>7. \A u \in User : Boxes'[u] = IF u = v THEN Boxes[v] \cup {e} ELSE Boxes[u]
  BY <1>3, <1>5, <1>6 DEF Boxes, Box
<1>8. Boxes' = [Boxes EXCEPT ![v] = @ \cup {e}]
  BY <1>7, UserByUser
<1>9. UNCHANGED Trashes
  BY <1>1, <1>6, OnePending DEF Trashes, Box
<1>10. Pending = {Req(r)} /\ UNCHANGED Pending
  BY <1>1, OnePending
<1> QED BY <1>1, <1>2, <1>8, <1>9, <1>10, Receiving, Delivers

\* When a mail is filed as sent, every receiver of this system has it.
LEMMA CopiesThere ==
    ASSUME Mapped, NEW r \in Request, pc[r] \in {"sPut", "sBody"}
    PROVE  /\ kind[r] = "new" /\ entry[r] \in Entry /\ user[r] \in User
           /\ \A c \in Copies(entry[r]) : c[2] \in Boxes[c[1]]
<1> USE DEF Mapped, StageInv
<1>1. kind[r] = "new" /\ entry[r] \in Entry /\ user[r] \in User /\ pc[r] \in Busy
  BY DEF Stage, Sending, TypeOK, Busy
<1>2. entry[r][1] = "send" /\ MailOf(r) \in Mail /\ ~MoreToSend(r) /\ next[r] \in Nat
  BY <1>1, EntryParts DEF Stage, MailOf, Filing, TypeOK
<1>3. ASSUME NEW c \in Copies(entry[r]) PROVE c[2] \in Boxes[c[1]]
  <2>1. PICK u \in Range(receivers[MailOf(r)]) \cap User : c = <<u, <<"receive", MailOf(r)>>>>
    BY <1>2 DEF Copies, MailOf
  <2>2. PICK e \in Entry : e = <<"receive", MailOf(r)>>
    BY <1>2, NewEntry DEF Source
  <2>3. receivers[MailOf(r)] \in Seq(Name)
    BY <1>2, MailAssumption
  <2>4. Reached(r, u)
    <3>1. PICK j \in 1 .. Len(receivers[MailOf(r)]) : receivers[MailOf(r)][j] = u
      BY <2>1, <2>3 DEF Range
    <3>2. j \in 1 .. next[r] - 1
      BY <1>2, <2>3, <3>1 DEF MoreToSend
    <3> QED BY <3>1, <3>2 DEF Reached
  <2>5. ~Asked("delete", u, e)
    BY <1>1, <2>2 DEF Asked, AloneInv, NotSentAgain, MailOf
  <2>6. ~Asked("erase", u, e)
    BY <2>1, <2>5 DEF AloneInv, Gone, ThrownAway, Asked, NoFailure
  <2>7. e \in Listed(u, "receive")
    BY <1>1, <2>1, <2>2, <2>4, <2>5 DEF AloneInv, ReceivedKept, NoFailure
  <2>8. e \in body[u]
    BY <1>1, <2>1, <2>2, <2>4, <2>6 DEF TextsKept, NoFailure
  <2> QED BY <2>1, <2>2, <2>7, <2>8 DEF Boxes
<1> QED BY <1>1, <1>3

LEMMA MapPutSent ==
    ASSUME Mapped, NoFailure', NEW r \in Request, PutSent(r)
    PROVE  PromiseStep
<1> USE DEF Mapped, StageInv
<1>1. /\ pc[r] = "sPut" /\ pc'[r] = "sBody" /\ UNCHANGED <<body, thread, crashes>>
      /\ \A q \in Request \ {r} : UNCHANGED pc[q]
      /\ pc[r] \in Busy /\ pc'[r] \in Busy
  BY DEF PutSent, Goto, TypeOK, Busy
<1>2. PICK v \in User, e \in Entry : v = user[r] /\ e = entry[r]
  BY <1>1, CopiesThere
<1>3. "receive" \in Box /\ "send" \in Box /\ "trash" \in Box
  BY DEF Box
<1>4. got[r] \in Lists /\ Added(got[r], e) \in Lists /\ list[v]["send"] \in Lists
  BY <1>3, ListsClosed DEF TypeOK
<1>5. got[r] = list[v]["send"]
  BY <1>1, <1>2 DEF OwnInv, Fresh, NoFailure
<1>6. PutList(v, "send", Added(got[r], e))
  BY <1>2 DEF PutSent
<1>7. /\ Listed(v, "send")' = Listed(v, "send") \cup {e}
      /\ \A w \in User, c \in Box : w # v \/ c # "send" => Listed(w, c)' = Listed(w, c)
  BY <1>3, <1>4, <1>5, <1>6, PutExactly, AddedExactly
<1>8. UNCHANGED Trashes
  BY <1>1, <1>3, <1>7, OnePending DEF Trashes
<1>9. Pending = {Req(r)} /\ UNCHANGED Pending
  BY <1>1, OnePending
<1>10. \A u \in User : Boxes'[u] = IF u = v THEN Boxes[v] \cup ({e} \cap body[v]) ELSE Boxes[u]
  BY <1>1, <1>3, <1>7 DEF Boxes
<1>11. CASE e \in body[v]
  <2>1. Boxes[v] \cup ({e} \cap body[v]) = Boxes[v] \cup {e}
    BY <1>11
  <2>2. Boxes' = [Boxes EXCEPT ![v] = @ \cup {e}]
    BY <1>10, <2>1, UserByUser
  <2> QED BY <1>1, <1>2, <1>8, <1>9, <2>2, CopiesThere, Delivers
<1>12. CASE e \notin body[v]
  <2>1. \A u \in User : Boxes'[u] = Boxes[u]
    BY <1>10, <1>12
  <2> QED BY <1>1, <1>8, <1>9, <2>1, UserByUser, Stutters
<1> QED BY <1>11, <1>12

LEMMA MapPutSentBody ==
    ASSUME Mapped, NoFailure', NEW r \in Request, PutSentBody(r)
    PROVE  PromiseStep
<1> USE DEF Mapped, StageInv
<1>1. /\ pc[r] = "sBody" /\ pc'[r] = "sent" /\ UNCHANGED <<list, thread, crashes>>
      /\ \A q \in Request \ {r} : UNCHANGED pc[q]
      /\ pc[r] \in Busy /\ pc'[r] \notin Busy
  BY DEF PutSentBody, Goto, TypeOK, Busy
<1>2. PICK v \in User, e \in Entry : v = user[r] /\ e = entry[r]
  BY <1>1, CopiesThere
<1>3. e \in Listed(v, "send")
  BY <1>1, <1>2 DEF OwnInv, Fresh, NoFailure
<1>4. body[v] \cup {e} \in SUBSET Entry /\ PutBody(v, body[v] \cup {e})
  BY <1>2 DEF PutSentBody, TypeOK
<1>5. body'[v] = body[v] \cup {e} /\ \A u \in User \ {v} : body'[u] = body[u]
  BY <1>4, PutBodyType DEF NoFailure
<1>6. \A u \in User, b \in Box : Listed(u, b)' = Listed(u, b)
  BY <1>1 DEF Listed
<1>7. \A u \in User : Boxes'[u] = IF u = v THEN Boxes[v] \cup {e} ELSE Boxes[u]
  BY <1>3, <1>5, <1>6 DEF Boxes, Box
<1>8. Boxes' = [Boxes EXCEPT ![v] = @ \cup {e}]
  BY <1>7, UserByUser
<1>9. UNCHANGED Trashes
  BY <1>1, <1>6, OnePending DEF Trashes, Box
<1>10. Pending = {Req(r)} /\ Pending' = {}
  BY <1>1, OnePending
<1> QED BY <1>1, <1>2, <1>8, <1>9, <1>10, CopiesThere, Delivers

\* The requests of a user about one of his own mails.
LEMMA Handling ==
    ASSUME Mapped, NEW r \in Request, pc[r] \in Deleting \cup Erasing
    PROVE  /\ user[r] \in User /\ entry[r] \in Entry /\ entry[r][1] \in Source
           /\ kind[r] = IF pc[r] \in Deleting THEN "delete" ELSE "erase"
<1>1. pc[r] # "idle"
  BY DEF Deleting, Erasing
<1> QED BY <1>1, EntryParts DEF Mapped, StageInv, Stage, TypeOK, Deleting, Erasing

LEMMA MapPutOld ==
    ASSUME Mapped, NoFailure', NEW r \in Request, PutOld(r)
    PROVE  PromiseStep
<1> USE DEF Mapped, StageInv
<1>1. /\ pc[r] = "dPut" /\ pc'[r] = "tRead" /\ UNCHANGED <<body, thread, crashes>>
      /\ \A q \in Request \ {r} : UNCHANGED pc[q]
      /\ pc[r] \in Busy /\ pc'[r] \in Busy
  BY DEF PutOld, Goto, TypeOK, Busy
<1>2. PICK v \in User, e \in Entry, b \in Source :
         v = user[r] /\ e = entry[r] /\ b = e[1] /\ kind[r] = "delete"
  BY <1>1, Handling DEF Deleting
<1>3. "receive" \in Box /\ "send" \in Box /\ "trash" \in Box /\ b \in Box /\ b # "trash"
  BY DEF Box, Source
<1>4. got[r] \in Lists /\ Removed(got[r], e) \in Lists /\ list[v][b] \in Lists
  BY <1>3, ListsClosed DEF TypeOK
<1>5. got[r] = list[v][b]
  BY <1>1, <1>2 DEF AloneInv, Read, NoFailure
<1>6. PutList(v, b, Removed(got[r], e))
  BY <1>2 DEF PutOld
<1>7. /\ Listed(v, b)' = Listed(v, b) \ {e}
      /\ \A w \in User, c \in Box : w # v \/ c # b => Listed(w, c)' = Listed(w, c)
  BY <1>3, <1>4, <1>5, <1>6, PutExactly, RemovedExactly
<1>8. \A c \in Source : Listed(v, c)' = Listed(v, c) \ {e}
  <2>1. \A c \in Source : c # b => e \notin Listed(v, c)
    BY <1>2 DEF AloneInv, InPlace, NoFailure
  <2> QED BY <1>7, <2>1 DEF Source, Box
<1>9. \A u \in User : Boxes'[u] = IF u = v THEN Boxes[v] \ {e} ELSE Boxes[u]
  BY <1>1, <1>3, <1>7, <1>8 DEF Boxes, Source
<1>10. Boxes' = [Boxes EXCEPT ![v] = @ \ {e}]
  BY <1>9, UserByUser
<1>11. \A u \in User : Trashes'[u] = IF u = v THEN Trashes[v] \cup {e} ELSE Trashes[u]
  BY <1>1, <1>2, <1>3, <1>7, OnePending DEF Trashes
<1>12. Trashes' = [Trashes EXCEPT ![v] = @ \cup {e}]
  BY <1>11, UserByUser
<1>13. Pending = {Req(r)} /\ UNCHANGED Pending
  BY <1>1, OnePending
<1>14. Promise!Delete(Req(r))
  BY <1>1, <1>2, <1>10, <1>12, <1>13 DEF Promise!Delete, Req
<1> QED BY <1>13, <1>14 DEF PromiseStep, Promise!Next

LEMMA MapPutTrash ==
    ASSUME Mapped, NoFailure', NEW r \in Request, PutTrash(r)
    PROVE  PromiseStep
<1> USE DEF Mapped, StageInv
<1>1. /\ pc[r] = "tPut" /\ pc'[r] = "moved" /\ UNCHANGED <<body, thread, crashes>>
      /\ \A q \in Request \ {r} : UNCHANGED pc[q]
      /\ pc[r] \in Busy /\ pc'[r] \notin Busy
  BY DEF PutTrash, Goto, TypeOK, Busy
<1>2. PICK v \in User, e \in Entry : v = user[r] /\ e = entry[r]
  BY <1>1, Handling DEF Deleting
<1>3. "receive" \in Box /\ "send" \in Box /\ "trash" \in Box
  BY DEF Box
<1>4. got[r] \in Lists /\ Added(got[r], e) \in Lists /\ list[v]["trash"] \in Lists
  BY <1>3, ListsClosed DEF TypeOK
<1>5. got[r] = list[v]["trash"]
  BY <1>1, <1>2 DEF OwnInv, Fresh, NoFailure
<1>6. PutList(v, "trash", Added(got[r], e))
  BY <1>2 DEF PutTrash
<1>7. /\ Listed(v, "trash")' = Listed(v, "trash") \cup {e}
      /\ \A w \in User, c \in Box : w # v \/ c # "trash" => Listed(w, c)' = Listed(w, c)
  BY <1>3, <1>4, <1>5, <1>6, PutExactly, AddedExactly
<1>8. \A u \in User : Boxes'[u] = Boxes[u]
  BY <1>1, <1>3, <1>7 DEF Boxes
<1>9. \A u \in User : Trashes'[u] = Trashes[u]
  BY <1>1, <1>2, <1>3, <1>7, OnePending DEF Trashes
<1>10. Pending = {Req(r)} /\ Pending' = {}
  BY <1>1, OnePending
<1> QED BY <1>1, <1>8, <1>9, <1>10, UserByUser, Ends

\* A mail whose text is overwritten is in no box any more.
LEMMA MapEraseBody ==
    ASSUME Mapped, NoFailure', NEW r \in Request, EraseBody(r)
    PROVE  PromiseStep
<1> USE DEF Mapped, StageInv
<1>1. /\ pc[r] = "eBody" /\ pc'[r] = "eRead" /\ UNCHANGED <<list, thread, crashes>>
      /\ \A q \in Request \ {r} : UNCHANGED pc[q]
      /\ pc[r] \in Busy /\ pc'[r] \in Busy
  BY DEF EraseBody, Goto, TypeOK, Busy
<1>2. PICK v \in User, e \in Entry : v = user[r] /\ e = entry[r] /\ kind[r] = "erase"
  BY <1>1, Handling DEF Deleting, Erasing
<1>3. \A b \in Source : e \notin Listed(v, b)
  <2>1. ThrownAway(v, e)
    BY <1>2 DEF ThrownAway
  <2> QED BY <2>1 DEF AloneInv, Gone, NoFailure
<1>4. PICK texts \in {body[v], body[v] \ {e}} : PutBody(v, texts)
  BY <1>2 DEF EraseBody
<1>5. body'[v] = texts /\ \A u \in User \ {v} : body'[u] = body[u]
  BY <1>4, PutBodyType DEF TypeOK, NoFailure
<1>6. \A u \in User, b \in Box : Listed(u, b)' = Listed(u, b)
  BY <1>1 DEF Listed
<1>7. \A u \in User : Boxes'[u] = Boxes[u]
  BY <1>3, <1>4, <1>5, <1>6 DEF Boxes, Box, Source
<1>8. \A u \in User : Trashes'[u] = Trashes[u]
  BY <1>1, <1>6, OnePending DEF Trashes, Box
<1>9. UNCHANGED Pending
  BY <1>1, OnePending
<1> QED BY <1>1, <1>7, <1>8, <1>9, UserByUser, Stutters

LEMMA MapPutErased ==
    ASSUME Mapped, NoFailure', NEW r \in Request, PutErased(r)
    PROVE  PromiseStep
<1> USE DEF Mapped, StageInv
<1>1. /\ pc[r] = "ePut" /\ pc'[r] = "erased" /\ UNCHANGED <<body, thread, crashes>>
      /\ \A q \in Request \ {r} : UNCHANGED pc[q]
      /\ pc[r] \in Busy /\ pc'[r] \notin Busy
  BY DEF PutErased, Goto, TypeOK, Busy
<1>2. PICK v \in User, e \in Entry : v = user[r] /\ e = entry[r] /\ kind[r] = "erase"
  BY <1>1, Handling DEF Deleting, Erasing
<1>3. "receive" \in Box /\ "send" \in Box /\ "trash" \in Box
  BY DEF Box
<1>4. got[r] \in Lists /\ Removed(got[r], e) \in Lists /\ list[v]["trash"] \in Lists
  BY <1>3, ListsClosed DEF TypeOK
<1>5. got[r] = list[v]["trash"]
  BY <1>1, <1>2 DEF OwnInv, Fresh, NoFailure
<1>6. PutList(v, "trash", Removed(got[r], e))
  BY <1>2 DEF PutErased
<1>7. /\ Listed(v, "trash")' = Listed(v, "trash") \ {e}
      /\ \A w \in User, c \in Box : w # v \/ c # "trash" => Listed(w, c)' = Listed(w, c)
  BY <1>3, <1>4, <1>5, <1>6, PutExactly, RemovedExactly
<1>8. \A u \in User : Boxes'[u] = Boxes[u]
  BY <1>1, <1>3, <1>7 DEF Boxes
<1>9. \A u \in User : Trashes'[u] = IF u = v THEN Trashes[v] \ {e} ELSE Trashes[u]
  BY <1>1, <1>2, <1>3, <1>7, OnePending DEF Trashes
<1>10. UNCHANGED Boxes /\ Trashes' = [Trashes EXCEPT ![v] = @ \ {e}]
  BY <1>8, <1>9, UserByUser
<1>11. Pending = {Req(r)} /\ Pending' = {}
  BY <1>1, OnePending
<1>12. Promise!Erase(Req(r))
  BY <1>1, <1>2, <1>10, <1>11 DEF Promise!Erase, Req
<1> QED BY <1>11, <1>12 DEF PromiseStep, Promise!Next

LEMMA MapArrive ==
    ASSUME Mapped, Alone, NEW r \in Request, NEW u \in User, NEW e \in Entry,
           NEW k \in {"new", "delete", "erase"}, NEW p \in {"check", "dRead", "eBody"},
           Arrive(r, u, k, e, p)
    PROVE  PromiseStep
<1>1. \A q \in Request : pc[q] \notin Busy
  BY DEF Arrive, Free
<1>2. /\ pc'[r] = p /\ kind'[r] = k /\ user'[r] = u /\ entry'[r] = e
      /\ \A q \in Request \ {r} : pc'[q] = pc[q]
      /\ UNCHANGED <<list, body, crashes>>
  BY DEF Arrive, Mapped, StageInv, TypeOK, cells, faults
<1>3. p \in Busy /\ p \notin {"tRead", "tPut"} /\ {"tRead", "tPut"} \subseteq Busy
  BY DEF Busy
<1>4. Pending = {} /\ Pending' = {<<k, u, e>>}
  BY <1>1, <1>2, <1>3 DEF Pending
<1>5. \A w \in User : Moving(w) = {} /\ Moving(w)' = {}
  BY <1>1, <1>2, <1>3 DEF Moving
<1>6. \A w \in User, b \in Box : Listed(w, b)' = Listed(w, b)
  BY <1>2 DEF Listed
<1>7. \A w \in User : Boxes'[w] = Boxes[w] /\ Trashes'[w] = Trashes[w]
  BY <1>2, <1>5, <1>6 DEF Boxes, Trashes, Box
<1>8. Promise!Ask(k, u, e)
  BY <1>2, <1>4, <1>7, UserByUser DEF Promise!Ask
<1> QED BY <1>8 DEF PromiseStep, Promise!Next

LEMMA Dies ==
    ASSUME crashes' = crashes + 1, Pending' = {}, UNCHANGED Boxes,
           NEW lost \in SUBSET {a \in Pending : a[1] = "delete"},
           \A u \in User :
               Trashes'[u] = Trashes[u] \ {a[3] : a \in {b \in lost : b[2] = u}}
    PROVE  PromiseStep
<1>1. Trashes' = [u \in User |-> Trashes[u] \ {a[3] : a \in {b \in lost : b[2] = u}}]
  BY DEF Trashes
<1>2. Promise!Die
  BY <1>1 DEF Promise!Die
<1> QED BY <1>2 DEF PromiseStep, Promise!Next

\* The front end dies: the mail that was on its way to the trash, and is not
\* there for another reason, is lost.
LEMMA MapCrash ==
    ASSUME Mapped, Crash
    PROVE  PromiseStep
<1>1. /\ UNCHANGED <<list, body, thread>> /\ crashes' = crashes + 1
      /\ \A q \in Request : pc'[q] \notin Busy
  BY DEF Crash, Die, cells, Busy
<1>2. \A u \in User, b \in Box : Listed(u, b)' = Listed(u, b)
  BY <1>1 DEF Listed
<1>3. UNCHANGED Boxes
  BY <1>1, <1>2 DEF Boxes, Box
<1>4. Pending' = {} /\ \A u \in User : Trashes'[u] = Listed(u, "trash")
  BY <1>1, <1>2 DEF Pending, Trashes, Moving, Busy, Box
<1>5. CASE \A u \in User : Moving(u) \subseteq Listed(u, "trash")
  <2>1. \A u \in User : Trashes'[u] = Trashes[u] \ {a[3] : a \in {b \in {} : b[2] = u}}
    BY <1>4, <1>5 DEF Trashes
  <2>2. {} \in SUBSET {a \in Pending : a[1] = "delete"}
    OBVIOUS
  <2> QED BY <1>1, <1>3, <1>4, <2>1, <2>2, Dies
<1>6. ASSUME NEW v \in User, ~(Moving(v) \subseteq Listed(v, "trash")) PROVE PromiseStep
  <2>1. PICK r \in Request :
           pc[r] \in {"tRead", "tPut"} /\ user[r] = v /\ entry[r] \notin Listed(v, "trash")
    BY <1>6 DEF Moving
  <2>2. pc[r] \in Busy /\ kind[r] = "delete"
    BY <2>1 DEF Mapped, StageInv, Stage, Deleting, Busy
  <2>3. /\ Pending = {Req(r)}
        /\ \A u \in User : Moving(u) = IF u = v THEN {entry[r]} ELSE {}
    BY <1>1, <2>1, <2>2, OnePending
  <2>4. {Req(r)} \in SUBSET {a \in Pending : a[1] = "delete"}
    BY <2>2, <2>3 DEF Req
  <2>5. ASSUME NEW u \in User
        PROVE  Trashes'[u] = Trashes[u] \ {a[3] : a \in {b \in {Req(r)} : b[2] = u}}
    <3>1. {a[3] : a \in {b \in {Req(r)} : b[2] = u}} = IF u = v THEN {entry[r]} ELSE {}
      <4>1. Req(r)[2] = v /\ Req(r)[3] = entry[r]
        BY <2>1 DEF Req
      <4>2. {b \in {Req(r)} : b[2] = u} = IF u = v THEN {Req(r)} ELSE {}
        BY <4>1
      <4>3. CASE u = v
        <5>1. {a[3] : a \in {Req(r)}} = {Req(r)[3]}
          OBVIOUS
        <5> QED BY <4>1, <4>2, <4>3, <5>1
      <4>4. CASE u # v
        BY <4>2, <4>4
      <4> QED BY <4>3, <4>4
    <3>2. Trashes[u] = Listed(u, "trash") \cup IF u = v THEN {entry[r]} ELSE {}
      BY <2>3 DEF Trashes
    <3> QED BY <1>4, <2>1, <3>1, <3>2
  <2> QED BY <1>1, <1>3, <1>4, <2>4, <2>5, Dies
<1> QED BY <1>5, <1>6

LEMMA NextMaps ==
    ASSUME Alone, Mapped, NoFailure', [Next]_vars
    PROVE  PromiseStep
<1>1. ASSUME UNCHANGED <<list, body, thread, pc, crashes>> PROVE PromiseStep
  <2>1. \A u \in User, b \in Box : Listed(u, b)' = Listed(u, b)
    BY <1>1 DEF Listed
  <2>2. UNCHANGED Pending /\ \A u \in User : Moving(u)' = Moving(u)
    BY <1>1 DEF Pending, Moving, thread
  <2>3. \A u \in User : Boxes'[u] = Boxes[u] /\ Trashes'[u] = Trashes[u]
    BY <1>1, <2>1, <2>2 DEF Boxes, Trashes, Box
  <2> QED BY <1>1, <2>2, <2>3, UserByUser, Stutters
<1>2. CASE UNCHANGED vars
  BY <1>1, <1>2 DEF vars, cells, faults
<1>3. ASSUME NEW u \in User, NEW b \in Box, ListPage(u, b) PROVE PromiseStep
  BY <1>1, <1>3 DEF ListPage, cells, faults
<1>4. ASSUME NEW r \in Request, NEW m \in Mail, NewMail(r, m) PROVE PromiseStep
  <2>1. sender[m] \in User /\ <<"send", m>> \in Entry
    BY NewEntry, MailAssumption DEF Source
  <2> QED BY <1>4, <2>1, MapArrive DEF NewMail
<1>5. ASSUME NEW r \in Request, NEW u \in User, NEW e \in Entry,
             AskDelete(r, u, e) \/ AskErase(r, u, e)
      PROVE  PromiseStep
  BY <1>5, MapArrive DEF AskDelete, AskErase
<1>6. ASSUME NEW r \in Request, StoreStep(r) \/ SendOutside(r) PROVE PromiseStep
  BY <1>6, MapReads, MapPutReceived, MapPutReceivedBody, MapPutSent, MapPutSentBody, MapPutOld,
     MapPutTrash, MapEraseBody, MapPutErased DEF StoreStep
<1> QED BY <1>2, <1>3, <1>4, <1>5, <1>6, MapCrash DEF Next

\* With one request at a time and no failed call, the mail servlet does what
\* MailStore promises: a mail is at a user once received and once sent, is filed
\* as sent when all receivers have it, and moves and disappears as a whole, for
\* any users, mails, receivers and crashes.
THEOREM ServletIsMailStore ==
    ASSUME Alone, MayFail = {}
    PROVE  Spec => ActsAsMailStore
<1>1. Init => Promise!Init
  <2> SUFFICES ASSUME Init PROVE Promise!Init
    OBVIOUS
  <2>1. \A u \in User, b \in Box : Listed(u, b) = {}
    BY DEF Init, Listed
  <2>2. Pending = {} /\ crashes = 0 /\ \A u \in User : Moving(u) = {}
    BY DEF Init, Pending, Moving, Busy
  <2> QED BY <2>1, <2>2 DEF Promise!Init, Boxes, Trashes, Box
<1>2. Init => Mapped
  <2> SUFFICES ASSUME Init PROVE Mapped
    OBVIOUS
  <2>1. TextsKept /\ NoFailure /\ Filing
    BY MailAssumption DEF Init, TextsKept, NoFailure, Filing
  <2> QED BY <2>1, InitStage, InitOwn, InitAlone DEF Mapped
<1>3. Mapped /\ [Next]_vars => Mapped'
  BY NextStage, NextOwn, NextTexts, NextAlone, NextNoFailure, NextFiling DEF Mapped
<1>4. Mapped /\ Mapped' /\ [Next]_vars => [Promise!Next]_(Promise!vars)
  BY NextMaps DEF Mapped, PromiseStep
<1> QED BY <1>1, <1>2, <1>3, <1>4, PTL DEF Spec, ActsAsMailStore, Promise!Spec

=============================================================================
