# Verification of Mini-Google-Drive

TLA+ modules, TLC runs and TLAPS proofs for the program in `src/`: a web front
end (mail, login, console) over a replicated key/value store in the manner of
Bigtable.  Every definition is translated from the source; `PROJECT.json` maps
each one to its lines, and lists the runs, the mutants that show each property
can fail, the findings, the hazards and the theorems.

## 1. The system

| component | source | state | operations |
|---|---|---|---|
| replica group | `backend/bigtable_server.cc` | `primary_map`, `replica_lst[..]->server_status`, `down_lst`, the log file with its marker lines | PUT, Report, Update_Primary, PutFromReplica, Update_Sever_Down_Status, Update_Sever_Up_Status, ReadLog, Synchronize, Terminate |
| tablet storage | `backend/bigtable.cc`, `find_file` .. `check_exist` of `bigtable_server.cc` | `cache_table`, metadata file, table files, log | put_value, GET, CPUT, DELETE, split_file, UpdateMetaData, UpdateCheckpoint, ParseMetaData, ParseLogFile |
| master | `backend/master_server.cc` | the server list, read once | Find, GetIpList |
| front end routing | `httpserver/servletmanager.*` | `ipMap`, filled on demand; the descriptors of heartbeats | getRandomBackendIp, FindIpList, heartbeat |
| sessions | `servletmanager.*`, `httpsession`, `httprequest`, `httpresponse`, `loginservlet` | the hash `sessions`, the session objects, the pointer each request holds, the browser's cookie | HttpGetSession, login, signup, logout, commit, Cookie_Commit, deleteSession |
| mail | `emailservlet.cpp` | cells `email:receive`, `email:send`, `email:trash` and one cell per mail | list pages, new mail, delete, complete delete, send_msg |
| worker threads | `tcpserver`, `tcpworker` | one thread per connection | |
| console, static files, storage stub | `consoleservlet`, `fileioservlet`, `storageservlet` | none | Terminate |

How they interact.  A request runs on a worker thread, finds its user by the
session, asks the master once per group for the group's three addresses, takes
the first whose heartbeat (a TCP connect) succeeds, and calls GET and PUT there.
PUT at a backend server elects a primary if it knows none, reports the value to
the primary if that is another server, and broadcasts it if it is its own.  All
servers of a group hold all of the group's rows.  A server that restarts reads
its files, asks the first live replica for the values it missed, tells the
replicas "I am back" and then begins to listen.

What is hard: gRPC runs each handler on a thread of its own and there is no lock
anywhere; heartbeat and RPC are separate steps; RPC results of the broadcast are
not looked at; who is down is remembered in memory only and what it misses in the
log file; the log is truncated by a checkpoint; the checkpoint itself is a
sequence of file writes.  In the front end all worker threads share the map of
groups, the sessions and the session objects without a lock; a session is deleted
while others may point to it; a list of mails is read, changed and put back; a
failed GET looks like an empty cell.  The hazards are listed one by one in `PROJECT.json`.

What makes each part correct:

* replica group: an acknowledged value is at every server that is supposed to
  have it; servers agree when nothing is going on; a server that comes back
  catches up; every PUT ends;
* storage: a map from keys to values, across splits, checkpoints and restarts;
* routing: a row's requests go to the group that holds the row; a live server of
  the group is found if there is one;
* sessions: a request acts for a user who is logged in; nobody uses a session
  that is gone;
* mail: no mail is lost on its way; nobody but its owner takes a mail off a list;
  a listed mail can be opened.

## 2. Modules

```
SingleStore  <--implements-- ReplicaGroupSerial --EXTENDS--> ReplicaGroup <--EXTENDS-- ReplicaGroupProofs
KVStore      <--implements-- TabletStore <--EXTENDS-- TabletStoreProofs
MailStore    <--implements-- Mailbox   <--EXTENDS-- MailboxProofs
                             Routing   <--EXTENDS-- RoutingProofs
                             Sessions  <--EXTENDS-- SessionsProofs

ReplicaGroupProofs, LeastNumber <--EXTENDS-- ReplicaGroupLogs
LeastNumber <--EXTENDS-- TabletStoreProofs
ReplicaGroupSerial, ReplicaGroupLogs <--EXTENDS-- ReplicaGroupSerialProofs
```

An `MC*` module extends each module that is run and holds the values of its
constants.  Operators whose comment begins with "Mutant of" are plausible bugs,
used to show that the properties can fail.

The modules meet at the places where the code does.  Routing's
`EntersAtFirstLive` is the condition `FirstEntry` under which ReplicaGroupSerial
shows that a group is one store (SingleStore); TabletStore shows when one server
of it is a map (KVStore); and Mailbox takes its cells from such a map, whose calls
may fail.

**ReplicaGroup** models one group of `bigtable_server` processes and all its
RPCs.  A client's PUT is a handler `<<r, 1>>`; the handler it starts at the
primary by Report is `<<r, 2>>`, and so on.  A handler's program counter says
which loop it is in: `select` is `select_primary`, `bcast` is `broadcast`,
`...Send` means that the heartbeat of the next replica has answered and the RPC
is next, `...Tell` is `deliver_server_status`.  Steps of different handlers
interleave between any two RPCs or heartbeats; a handler that makes no RPC
(`Update_Primary`, `PutFromReplica`, `Update_Sever_Down_Status`,
`Update_Sever_Up_Status`, `ReadLog`) is one step, because the caller waits for
it and it reads nothing twice.  (It can still race with another such handler
statement by statement: see section 7.)

`table` is `cache_table` seen through GET; `log` is the log file without its
"checkpoint" and address lines, whose positions are kept in `ckptAt` and
`marker`; `ckpt` is the contents of the table files.  A checkpoint is part of
`put_value` (a full table is split), so `PutValues` contains it as an alternative
that a value with a new key may take.  Whether the table is full is a matter of
sizes, which this module leaves out.

Undefined behaviour is a choice.  `ReadLog` and `ParseLogFile` read from a
position that is set only when a marker or checkpoint line is found; without one
the model reads from any value of the log, or (`SourceDies`) the process ends
because it started inside a record.

**ReplicaGroupSerial** is the same group with a client that sends one PUT at a
time, starting after a first checkpoint.  `FirstEntry` restricts the client to
the first live server, which is what `getRandomBackendIp` does;
`IdleFailures` restricts crashes and restarts to the time between PUTs.  The
modules keep these apart because the code promises different things under them
(section 4).

**SingleStore** is what a group promises to such a client: one map, in which a
PUT takes effect once, when it returns.

**TabletStore** models the storage of one server: the tables with their first
keys and sizes, `find_file`'s search as it is written (`Search` halves the interval,
`Place` chooses between the two neighbours it ends with), `split_file`, the sort,
and the checkpoint as the separate opens and closes of the metadata, each table
file and the log, so that a crash can come between any two.  A file is empty from
the open that truncates it to the close.  `late` keeps the index to which
`put_value` adds the size at its end, although the tables have been sorted
meanwhile.  Sizes and keys are numbers; keys keep their order.  `Replay` says what
`ParseLogFile` leaves: of the values of a key, the last one, in the table where
find_file looks for the key; since a put moves no first key, that is the same for
all of them.  `answers`, `torn` and `unsaved` are history: what GET returned before
the crash while the process is down, whether a crash has come before the first checkpoint was complete
or in the middle of a later one, and the keys whose DELETE neither the log nor the
files know.

**KVStore** is the map that TabletStore is meant to implement.

**Routing** models the way of a request from its row to a server:
`getRandomBackendIp` with the map `ipMap` that all worker threads share, the
master's `Find`, and `heartbeat`.  A worker thread goes through `ask`
(`FindIpList`), `update` (`updateIpMap`), `reread` (`getIpList`, which may find
what another thread has written meanwhile), `beat` (one heartbeat per step) and
`call`.  The group of a row is the C++ remainder of its first character, which
is negative for digits and capitals: `server_list` is then read out of range, and
the master ends or sends what it reads there, which may be nothing, the line of
another group or no address at all (the constant `Garbage`; `AskMisled` is the front
end's end when `stoi` finds no port).  The master may end while it sends, and the
front end keeps the part that came.  Each heartbeat uses up a descriptor, because
it never closes its socket; with none left, or with no server that answers (a
string is made from NULL), the front end ends with all its threads.  Servers, the
master and the front end stop and are started again `MaxChange` times in all.
`steady`, `cheated` and `death` are history; the last two tell of one run of the
front end, and start anew with it.

**Sessions** models a session object from its making to its deletion, and the
pointers to it.  A request is parsed (`Parse`, `Find`, `KeepOrDrop` are
`parseSession` and `HttpGetSession`: contains, value with the test, insert or
remove), served (`ServePage`, `Refuse`, `Enter`, `Logout`), and answered
(`Commit`, `SetCookie`, `Unhash`, `Free` are `commit`, `Cookie_Commit` and
`deleteSession`).  `heap` says whether an object lives; to use one that does not,
or NULL, sets `broken`, after which the model stops, for the behaviour is then
undefined.  A request that the parser refuses (`Garbled`) is answered through a
pointer that was never set: by chance that does nothing, or it is undefined too.
`jar` is the browser's cookie, which changes when the answer comes.  The answer
sends back the cookies of the request, and `commit` adds the session's to them only
if there is none of that name: cookies are equal when their names are.
`entered` and `mixed` are history: who has logged in at a browser, and where a
logout has overlapped another request of the same browser.

**Mailbox** models the mail servlet: three lists of headers and the texts of a
user, and requests that change them by one GET or PUT after the other
(`ReadReceived`, `PutReceived`, `PutReceivedBody` for each receiver of a new
mail, then `ReadSent`, `PutSent`, `PutSentBody` at the sender; `ReadOld` ..
`PutTrash` for /email_delete; `EraseBody` .. `PutErased` for /complete_delete).
`got` is the list a thread has read and not yet put back.  `seen` are the links in
a user's browser: a mail is thrown away or destroyed by a link on a page that may
be old.  A GET and a PUT may fail once each (`MayFail`), and the front end may
die between any two calls.  A receiver without an account ends the request, one
without a host ends the process, and one at another host is a step that may
never come (`send_one` reads without a timeout).  `Text` is what a user sees when
he opens a mail: the request line is put in lower case, so a mail with a capital
letter in its header is not found.  `Alone` chooses between one request at a time
and one request of each user at a time.

**MailStore** is what the mail servlet promises to its users: each mail is in a
user's box or trash, comes in when it was sent, is filed as sent after all its
receivers have it, and moves as a whole when its owner asks.  The refinement maps
a mail between the two lists (`Moving`) to the trash, and one that is listed
without a text to no box.  A mail that is being thrown away can be lost only
by `Die`, the death of the front end.

## 3. Runs

States as TLC reports them:

| run | question | bounds | distinct states |
|---|---|---|---|
| Concurrent | do overlapping PUTs and a crash ever skip a server that never failed? | 3 servers, 2 PUTs to one row, one crash of server 2, RPCs may fail to a server that is back | 3,044,468 |
| Failures | is every replica that is passed over marked in the log? | 3 servers, 1 PUT, each server may crash once | 1,590,668 |
| SerialAnyTime | do the servers that never failed agree, and does every PUT end? | 2 PUTs, any entry, one crash of server 1 at any time | 374,625 |
| SerialAnyEntry | do all servers know the same primary, and is a value reported once? | 3 PUTs, any entry, one crash of servers 1 and 3 each, between PUTs | 1,220,496 |
| SerialFirst | do markers and recovery restore every server, and is the group one store? | 2 PUTs at the first live server, crashes 2, 1 and 1 between PUTs | 802,356 |
| StoreReload | is a server a map but when it splits more than one table, does a restart change an answer, and do tables and files keep their shape? | 3 keys, 2 values (a large one and the deleted one), 3 tables, 2 values in the log, one crash at any point, CPUT and DELETE | 283,913 |
| StoreUnavailable | (violation) can a value be there and not be found? | 4 keys, 2 values, 3 tables, 4 values in the log, no crash | |
| MailSerial | is any mail lost on its way, is the servlet a MailStore, and does every request end? | 2 users, 3 requests one at a time, 4 mails: to both users, to a user and an unknown name, to another host and a user, to an address without a host; one crash | 244,642 |
| MailUsers | what is safe when users overlap and calls fail? | 2 users, 3 requests, one at a time of each user, 3 mails; one crash, one failed GET, one failed PUT | 1,676,279 |
| Routes | which server does a request enter at, and why may the front end die? | 3 servers in 2 groups, 4 requests (2 to one row, 1 to another group, 1 to a row of no group, whose line is read elsewhere), 4 descriptors, 3 stops and starts | 3,997,424 |
| SessionRequests | are sessions mixed up, lost, or used after their deletion? | 2 browsers, 2 users, 4 requests, 2 session ids, one restart | 871,339 |
| StaleCookie | (violation) is a user logged in when his login is answered? | 1 browser, 1 user, 2 requests, 2 session ids, one restart | |

Why the bounds are enough.  *Replica group*: three servers are what a line of
`serverlist.txt` has; the loops visit replicas in order, so three servers give the
entry, a replica before and a replica after the failed one.  One user: rows share
nothing but the log, and the marker positions count values of any row.
`MaxDepth` bounds the chain of reports: 2 is the longest there is without
crossing elections, and SerialAnyTime and SerialAnyEntry use 3 so that a longer
one would be seen.  SerialAnyEntry has three PUTs, for an election, one by the
server that has forgotten it, and a PUT at the third.
*Storage*: `FileSize` is 1 or 2 and values have sizes 1 to 3, so that the first
table is full after one or two values (the code's `file_size` is 30 bytes).
Three tables are the least with which `find_file` goes wrong; a new server's table
begins with a key that has others before and behind it.  *Routing*: three
stops and starts take the master down in the middle of an answer, bring it back
and change a server; two requests for one group make two threads overwrite each
other's list.  *Sessions*: four requests are a login, a page and a logout of one
browser with one of the other, in any overlap; ids are used once, so two ids are
a session of each browser or an old and a new one.  *Mail*: three requests take
a mail from one user to the other, into the trash and out of it, and two mails at
the same time to the same user.  The theorems of section 6 remove the bounds for
all invariants and step properties of the passing runs.

Symmetry over requests (those of one row in Routes, and users, browsers and ids as
well in SessionRequests) is used only where the properties are invariants or step
properties.

Deadlock checking is off where the bounds make the model stop: the chain of
reports at `MaxDepth`, requests that are all used up, a log at `MaxLog`, and in
Sessions the stop at an undefined behaviour.  In ReplicaGroupSerial it is on:
`Wait` is the only way to do nothing, and only when every handler has ended.

Fairness.  `FairSerialSpec` has weak fairness of each handler's steps: a thread
that can run is scheduled, and an RPC to a dead server fails.  Restarts and
clients are not fair: nobody promises that a server is started again, so PutEnds
says that a PUT ends even if the dead server stays dead.  Mailbox's `FairSpec`
has weak fairness of the steps of a worker thread that wait for nothing but the
store, whose calls end.  `SendOutside` is not fair: nobody promises that
another host answers, and `LocalRequestsEnd` is about mails without such a
receiver only.

## 4. What the runs show

Under the conditions of the passing runs the system works, and the runs say
which conditions it needs.

*Replica group.*  An acknowledged PUT is at every server that never went down,
under any interleaving.  Servers agree between PUTs only if PUTs do not overlap:
two PUTs of one row reach the replicas in different orders.  Three overlapping
PUTs can leave two servers that name each other as primary, and a later PUT is
reported from one to the other without end.  Without overlaps all servers know the
same primary between PUTs, as long as servers stop only then; when crashes cut two
selections short (`IdleFailures = FALSE` with two crashes of server 3 and three
PUTs violates `TaskGoesToPrimary`) a server may name one that names a third as
primary, and a value is passed on.  Such a chain ends, because each server in it was
made primary after the one before.  A server that was down catches up
only if PUTs enter at the first live server and failures fall between PUTs:
otherwise a primary may send the value to one replica before it finds another
dead, so that the marker comes after the value, and recovery begins behind it.
With overlapping PUTs a server may also hear twice that another is down, with a
value in between, and the second marker hides it.  A server that comes back while
it is being reported as down is told so itself, looks itself up among its
replicas, and dies.

*Storage.*  A server is a map from keys to values: a put, a CPUT or a DELETE changes
the answer of its key alone, wherever crashes fall, and so does the split of the
only table.  Once there are two, `find_file` sends keys beyond the last table's first
key to the table before the last, and after the next split some are searched
elsewhere: GET says "data not available" (StoreUnavailable, a finding of
`PROJECT.json`).  The storage survives a crash after a first checkpoint and outside a
checkpoint; a crash between the truncation and the writing of the metadata, or of a
table file, loses tables or values (without its condition `~torn`,
`RestartKeepsAnswers` is violated).  DELETE writes no log, so its value comes back
after a restart (`unsaved`; the front end deletes by putting `$deleted$`), and a
`$deleted$` value is visible until a checkpoint and a restart drop it (the properties
treat it as absent).  With more than three tables two may begin with the same key, in
an order that `sort` does not determine, and a restart may exchange them.

*Routing.*  Whatever threads write into the shared map, a request goes to its
own group and to the first server of it that was up throughout its search, which
is what SerialFirst assumes of one client; two requests at the same time may
still enter at different servers, when one of them sees a server that is just
coming back.  An incomplete list is cached for good: the servers that did not
come are never asked again, and the front end dies when those that came are
down although others of the group are up, as `NullOnlyWithoutServers` admits.
A row that begins with a digit or a capital may end the master or the front end,
or be served by another group, for its line is read out of range.  Since no
heartbeat closes its socket, any front end ends after enough requests.

*Sessions.*  As long as a browser does not overlap a logout with another
request, no thread uses a deleted session, a browser acts for nobody but users
who have logged in there since its last logout, and nobody is logged out by
others.  When a logout does overlap (two tabs are enough) a request that found
the session before uses it after it was freed, or puts it into the hash again.
A login takes effect unless its request brings a cookie that the server no longer
knows, as any does that was given before a restart: then the browser is thanked and
told to keep the old cookie, and the new session is out of reach (StaleCookie, the
other finding).  A request that cannot be parsed is answered through an unset
pointer.  The test for the age of a session compares a negative number with an hour, so no
session ever expires; the model has no such step.

*Mail.*  With one request at a time no mail is lost on its way, except that a
crash between the two PUTs of /email_delete loses the mail that is being moved.
When users overlap (`Alone = FALSE`) `ReceivedKept` and `ActsAsMailStore` are
violated: two mails to the same user read the same list, and one of the headers
is lost; a header that its owner threw away meanwhile comes back, also when its
text is destroyed later, so that `ListedCanBeOpened` is stated for one request at
a time.  What is safe then is what MailUsers checks: the texts, and each user's
own list of sent mails and trash.  A failed GET of a list makes the next PUT
overwrite the list by one header.  A mail with a capital letter in its header is
listed and stored, and can be neither opened nor destroyed.  An address without
"@" ends the process for everybody; a receiver at a host that does not answer
holds up the sender's request for good.

## 5. The properties

`NeverFailedNeverSkipped` relates the acknowledgement, the crash history and
what each server has applied.  `PassedOverIsMarked` ties `server_status`,
`down_lst` and the log file together: it says that no checkpoint of any
interleaving removes a marker that is needed.  `MissingInfoKept` is the
corresponding step property: what the log holds for a server that is down only
grows.  `OnePrimary` compares the maps that the servers keep of who is primary, each its
own, and `TaskGoesToPrimary` says that Report is never passed on.
`NeverFailedAgree`, `ServingAgree` and `ActsAsOneStore` are three degrees of
replica consistency; `PutEnds` is the liveness of a PUT.
`ActsAsStoreButAtLaterSplits` and `RestartKeepsAnswers` are the map that the storage
should be, and `UnavailableIsAbsent` (violated) is what the first leaves out;
`FilesApart` says that naming a table file by the number of tables is enough, and
`ThreeFirstsApart` that with up to three tables, as long as no crash has come inside a
checkpoint, the comparison given to
`std::sort`, which puts each of two equal keys before the other, never meets two
equal keys.  The bound belongs to the property: with five tables that hold three
values each, a key that a third table has made unreachable begins a table a second
time.

`EntersOwnGroup`, `EntersAtFirstLive` and `NullOnlyWithoutServers` compare what
a thread does with a shared map that may be overwritten under it, and with the
servers that were up since it began; the first two are about rows that have a
group.  `NothingFreedIsUsed` is memory safety of
the session objects; `ActsForEntered`, `StaysLoggedIn` and
`LoginTakesEffectUnlessStale` say what a user may expect of his cookie, and
`LoginTakesEffect` (violated) what the answer to a login says.  `ReceivedKept`,
`OwnListsKept` and `TextsKept` say which mail survives which overlaps and failures,
`ListedCanBeOpened` relates the lists to the texts, `ActsAsMailStore` is the
refinement, and `LocalRequestsEnd` the liveness of a request.

## 6. Proofs

Six modules hold the theorems, and `LeastNumber` and `ReplicaGroupLogs` lemmas
they use.  Each theorem holds for any sets and numbers of servers, users, rows,
mails, browsers, requests, keys and values and any bounds, under the named
assumptions of the module it extends (types of the constants, and that `None` and
`Failed` are not among the other values) and those it names itself.

`ReplicaGroupProofs`:

* `TypeCorrect`: `Spec => []TypeOK`.  The lemmas `PutValuesType`,
  `RecordDownType`, `KillType` and so on give the type of what a group of
  assignments leaves, and there is one step per action.
* `AckedReachesNeverFailed`: `Spec => []NeverFailedNeverSkipped`.  The property
  speaks of returned PUTs; to make it inductive one has to say what is true
  on the way.  `BeliefInv`: who is not serving, is not in some `avail`, or is being
  reported as down, has failed.  `ValueInv`: a handler in its broadcast loop has
  stored the value at every server that has not failed and is no longer in `todo`
  (its own excepted), a handler that has returned has stored it at all of them,
  and a handler that waits for a Report has the callee it waits for.  `IInv` is
  the conjunction with `TypeOK`.
* `PassedOverHasMarker`: `Spec => []PassedOverIsMarked`, from the invariant
  `MarkInv`, which adds that a server announces itself to others only.

`ReplicaGroupLogs` has the algebra of log files: what `Replay` and `After` do with
an empty log, with one value, with two logs put together, and with a log of which
a beginning is already in the table.  "The last PUT of a row" is a greatest
number with a property, hence `LeastNumber`.

`ReplicaGroupSerialProofs`, for a client that sends one PUT at a time:

* `NeverFailedServersAgree`: `SerialSpec => []NeverFailedAgree`, whatever server a
  PUT enters at, whenever servers crash and whether or not channels go on failing.
  `AgreeInv` adds to `IInv` what is true while a PUT is under way (`RowsAgree`): of
  the servers that never failed, one that has stored its value holds it, and two
  that have not hold the same older value of that row; all other rows are equal.
  When the PUT returns, `ReturnedHeld` says that all of them have stored it.
  `NotYetStored` says that no such server has stored the value of a PUT that has
  not arrived.
* `ServingServersAgree` and `GroupIsOneStore`: `SerialSpec => []ServingAgree` and
  `SerialSpec => ActsAsOneStore`, under the assumption `OneClientAtFirst`
  (`FirstEntry`, `IdleFailures`, no `ChannelBackoff`), the second for groups of at
  least two servers, of which one therefore serves.  `SerialInv` has these parts:
  the files of a server hold what its table holds, and its log ends with the
  table's values (`FilesInv`); one server at a time does not serve (`OneDown`), and
  is on the lists of those it has still to tell (`DownKnown`); no server knows a
  primary behind itself in the order (`NotAbove`), so that nothing is reported;
  the PUT under way runs at the first serving server (`ThreadInv`) and has reached
  the replicas behind it in its loop (`TablesInv`); and what a server that is down
  has in its files, followed by what comes after its marker in the first server's
  log, is what the first server holds (`Behind`).  The last part is why recovery
  works: the values that a restarting server puts a second time are again the last
  ones of their rows.  The step that SingleStore sees is `StoreOwn`; everything
  else, a failover and a recovery included, stutters.
* `LogKeepsWhatIsMissing`: `SerialSpec => MissingInfoKept`, under the same
  assumption.  A checkpoint keeps the log while a replica is recorded; what could
  still lose values is a second record of a replica that is recorded already, which
  would move its marker to the end of the log.  `InfoInv` says why there is none:
  nobody has recorded a replica that the first serving server has not (`DownFirst`),
  and whom it has still to tell has not recorded it (`NotTold`).

* `PrimariesAgree` and `ReportedOnce`: `SerialSpec => []OnePrimary` and
  `SerialSpec => []TaskGoesToPrimary`, for PUTs that enter at any server, under the
  assumption `FailuresBetweenPuts` (`IdleFailures`, no `ChannelBackoff`).
  `PrimaryInv` says that meanwhile nobody stops or starts, so that a heartbeat that
  answers is followed by an RPC that arrives (`WorkInv`); that a server which does
  not serve knows no primary, the servers that are no longer in the loop of a
  selection know its server or nobody (`Chosen`), and of every other row the same
  primary is known everywhere (`OneKnown`); and that a list names only servers
  that do not serve (`DownKnown`), for one that served and was passed over would go
  on naming the old primary.

`TabletStoreProofs`:

* `StoreTypes` and `StoreFiles`: `Spec => []TypeOK` and `Spec => []FilesApart`, with
  crashes at any point.  The invariant `Shape` adds that the tables, in memory and
  in the metadata file, have the files 1 to n, each once (`Numbered`), are sorted
  by their first keys (`Ordered`), and that `nth` and `late` point at tables while
  a checkpoint is under way.
  `Bounded` says that there is a greatest key anywhere, so that the table a split
  takes its last cell from has one: `Key` need not be finite.
* The lemmas on find_file: among ascending first keys the search ends with the last
  table, the very last excepted, that begins with k or before, and its neighbour
  (`SearchEnds`), and so it chooses a table (`PlaceIs`).  The halving of the
  interval is a recursive function: that `Neighbours` satisfies its equation is
  `NeighboursArePair`, and that nothing else does `PairUnique`, by a shortest
  interval on which two solutions would differ.
* `RestartRestores`: `Spec => RestartKeepsAnswers`, for any number of tables, calls and
  crashes.  The property is about the restart from metadata in which no two tables
  begin with the same key (`Apart`): with two equal ones the order in which a restart
  finds the tables is not determined.  As long as no crash has come inside a
  checkpoint (`~torn`), `SaveInv` says what a
  checkpoint has written at each of its steps (the metadata describe the tables,
  the files up to `nth` hold their cells without the deleted ones), and `DiskInv`
  that the files and the log together give every GET the answer it has, or had
  before the crash (`OnDisk`).  A value put into the log is the last one of its
  key, and its table is found at the same place when the log is read, because
  `find_file` sees only first keys (`Place`), which the metadata keep.  A deleted key
  is left out until a put or a checkpoint saves what it holds (`unsaved`): in memory
  and on the disk its tables differ there alone (`Agree`).  The property says nothing
  of crashes inside a checkpoint because answers are lost in them (section 4).
* `ThreeTablesApart`: `Spec => []ThreeFirstsApart`.  `PlaceInv` says that, as long as no
  crash has come inside a checkpoint, with one or two tables every cell is in the
  table where find_file looks for it (`Placed`): so the cells that a split moves lie
  between the first keys of its neighbours, and the new first key is new.  With
  three tables that is no longer true, and no invariant can say it.
* `StoreActs`: `Spec => ActsAsStoreButAtLaterSplits`, for any number of tables and
  crashes.  The mapping is `View`, what GET shows or showed before the crash.  A
  put changes the cell of its key in the table that find_file names, and find_file
  sees only first keys, which it leaves alone (`PutValueActs`); the split of the only
  table leaves every cell in the table where find_file now looks for it
  (`SplitAnswers`); checkpoints and crashes stutter.  The splits that it leaves out
  are those of StoreUnavailable.

`RoutingProofs`:

* `RoutingTypes`: `Spec => []TypeOK`.
* `RowsKeepTheirGroup`, `SearchIsInOrder`, `NullIsExplained`: the three properties
  of Routes, from `RoutingInv`.  Its parts: what the map holds of a group is a
  prefix of the master's line, and the whole line unless the master has cheated
  (`Listed`); the same of the list a thread works on (`Fetched`), although the map
  may be overwritten between its write and its read (`PartOf` says both, of rows that have
  a group); what a thread has passed over was down at some time since it began
  (`Searched`); and nothing of a front end that has ended is under way (`Ended`), so
  that a new one knows of no incomplete answer.

`SessionsProofs`:

* `SessionsTypes`: `Spec => []TypeOK`, with what a thread holds at each point
  (`Shape`): its pointer is the session its cookie names.
* `NothingFreed`: `Spec => []NothingFreedIsUsed`.  The inductive invariant
  `SessionsInv` says that nobody knows an id before its session is made
  (`Unknown`), and, while no logout has overlapped, `SafeSessions`: a session
  that lives is held by one browser only, in its cookie or its requests
  (`Apart`); a logout is alone in its browser; a session in the hash lives, and
  is valid unless the logout that has ended it is about to remove it (`Ending`);
  and the pointer of a thread leads into the hash until that removal
  (`Pointer`).  So the thread that deletes is the only one that holds the
  session.  The pointer of a garbled request is not among them: `Wild` is excepted,
  as in the property.
* `IdentityIsEntered`: `Spec => []ActsForEntered`.  This property is about each
  browser by itself, so its invariant `ActsInv` says nothing of the others' logouts:
  a session, also a freed one, is held by one browser (`OneHolder`); a logout of a
  browser outside `mixed` is alone there and holds the browser's own cookie
  (`LogoutAlone`, `LogoutCookie`), and therefore ends the only session that the
  browser holds; and the user of a valid session that a request can still find, or
  has found, has logged in at its holder (`NamedIsEntered`).
* `LoggedInUntilLogout` and `LoginIsKept`: `Spec => StaysLoggedIn` and
  `Spec => LoginTakesEffectUnlessStale`, from `LoginInv`, which adds to `ActsInv` what a
  browser without an overlapped logout can rely on: its session is valid and in
  the hash until its own logout removes it (`ValidOrEnding`, `OwnPointer`); only a
  session that has just been made is not yet in the browser's cookie, and then
  nobody else knows it (`CookieFollows`, `NewIsNew`), and the answer puts it there
  unless the request has brought a stale cookie; a valid session has a name
  (`ValidNamed`); and a login that was not refused has a session
  (`LoginHasSession`).

`MailboxProofs`:

* `MailboxTypes`: `Spec => []TypeOK`, from `StageInv`, which says at each point
  which request a thread carries out and which receiver it is at.
* `TextsAreKept`: `Spec => []TextsKept`.  With `StageInv` the property is
  inductive: only EraseBody takes a text away, and its request asked for it.
* `OwnListsAreKept`: `Spec => []OwnListsKept`.  `OwnInv` adds that a user has one
  request under way (`OneEach`), and that therefore what a thread has read of his
  list of sent mails or his trash is still what is there when it is put back
  (`Fresh`).  For the list of received mails there is no such invariant, because
  senders write it too; only with one request at a time is it kept:
* `ReceivedIsKept` and `ListedIsOpened`: under the assumption `Alone`,
  `Spec => []ReceivedKept` and `Spec => []ListedCanBeOpened`.  `AloneInv` says that
  one request is under way (`OneAtATime`), that a thread which puts back the list
  of received mails has read what is there (`Read`), that a mail which is in the
  trash, on its way there, seen there or asked to be destroyed is in no other list
  (`Gone`), and that each list names mails of its own kind (`InPlace`).  That a mail
  which has been deleted is not sent again (`NotSentAgain`) comes from the guard of
  NewMail.  A listed mail has therefore not been destroyed, and with `TextsKept` its
  text is there.
* `ServletIsMailStore`: under `Alone` and `MayFail = {}`, `Spec => ActsAsMailStore`.
  The mapping (`Boxes`, `Trashes`, `Pending`) takes a mail to be in a box when it is
  listed and has a text, and in the trash from the moment it leaves its list.
  `Mapped` is the invariant: the ones above, no failed call, and that a mail is
  filed as sent only when its receivers have all been passed (`Filing`).  The steps
  MailStore sees are Arrive, the texts a mail is filed with (PutReceivedBody,
  PutSentBody), PutOld, which throws the mail away, and PutErased, which removes it;
  reads, a list that is put before its text, and the erasure of a text that is in
  no list but the trash are steps of the servlet alone.  The last step of a
  request ends it in MailStore too, and a crash is its `Die`, the only step in which
  a mail that is on its way to the trash may be lost.

The inductive invariants were checked with TLC on the instances of section 3
before they were proved.

Only model-checked: the liveness properties `PutEnds` and `LocalRequestsEnd`, because
fairness and ENABLED are out of the prover's reach.  Induction over data is too,
which is why what a sequence of values leaves (`Replay`) is stated by its last
values, and a search by the two neighbours it ends with.

## 7. Not modelled

* Races statement by statement inside handlers that make no RPC
  (`record_replica_status`, `Update_Sever_Up_Status`, `put_value` and the
  checkpoint): they are data races on `std::map`, `std::vector` and files, and
  have no defined set of outcomes.  The same is true of `std::sort` with a
  comparison that is not a strict weak ordering, and of the shared `std::map` and
  `QHash` of the front end, whose single operations are steps.
* A source of recovery that dies while it streams its log: the stream is one step, so
  it dies before or after it.  What is checked of recovery holds for failures between
  PUTs, one server at a time.
* `GetDataList`, `get_data`, `GetIpList`: they read and change nothing.
  `evict_table` is never called.
* A split that leaves a table without a key, and CPUT of an absent key, end the
  process in the model as in the code; what the process does after reading an
  empty map is not defined.
* Mail: the order of a list and a header that is in it twice (equal ones are
  removed together); the text form of headers, which is cut at commas by the
  storage and at "&" and "/" by the pages; links with a missing prefix, where
  `isReceive` is read uninitialised; the pages that prepare a reply or a
  forward.
* Sessions: a second request on the same connection, and the deletion of a
  response when its connection closes.
* The three front end modules take a cell of the store as a value that a GET
  returns and a PUT replaces; what the store does to it is in ReplicaGroup and
  TabletStore, and is not composed with them action by action, because the state
  space would be the product.
* HTML, HTTP parsing beyond the cookie and the lower-case request line, the
  contents of SMTP dialogues, the static file and storage servlets (fixed pages),
  the command line client (a manual test), the timer (never started), generated
  code and assets.
