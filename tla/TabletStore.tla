----------------------------- MODULE TabletStore -----------------------------
(***************************************************************************)
(* The storage of one backend server: the tables of backend/bigtable.cc    *)
(* and the functions of bigtable_server.cc that keep them.                 *)
(*                                                                         *)
(* The cells of a server are spread over tables, each with a file and with *)
(* the key it begins with; cache_table is sorted by that key and find_file *)
(* searches it.  put_value puts a value into the table of its key and into *)
(* the log.  A new key that finds the table full has the table's last cell *)
(* split off into a table of its own, and then the metadata, the files of  *)
(* all tables and the log are written anew, one after the other.  A server *)
(* that restarts reads the three back.                                     *)
(*                                                                         *)
(* A key stands for a row and a column without commas, which the files     *)
(* cannot tell from their separators: tables compare the row first.  All   *)
(* replicas are taken to be up, so that a checkpoint starts a new log, and *)
(* calls come one at a time: the code has no lock.                         *)
(***************************************************************************)
EXTENDS Integers, Sequences

Seqs == INSTANCE SequencesExt

CONSTANTS
    Key,        \* the cells, in the order of their row and column
    FirstLine,  \* "a,a": the key a new server's metadata begins its table with
    Value,
    Deleted,    \* "$deleted$", the value the front end puts to delete a cell
    sizeOf,     \* the length of each value
    None,
    FileSize,   \* file_size: a table larger than this is split
    MaxTables,  \* bound: tables
    MaxLog,     \* bound: values in the log
    MaxCrash    \* bound: crashes

ASSUME KeyAssumption == Key \cup {FirstLine} \subseteq Nat
ASSUME ValueAssumption == Deleted \in Value /\ \A v \in Value : sizeOf[v] \in Nat
ASSUME NoneAssumption == None \notin Value
ASSUME BoundAssumption ==
    {FileSize, MaxTables, MaxLog, MaxCrash} \subseteq Nat /\ MaxTables # 0

VARIABLES
    up,         \* is the process running?
    tables,     \* cache_table
    step,       \* what put_value does next, "ready" when it is not running
    nth,        \* the table whose file is being written
    late,       \* what put_value adds, at the end, to the size of which table
    meta,       \* the metadata file
    files,      \* the table files, by number
    log,        \* the log file, from its "checkpoint" line if it has one
    marked,     \* has it one?
    crashes,
    torn,       \* history: has a crash come before the first checkpoint was
                \* complete, or in the middle of a later one?
    unsaved,    \* history: the keys whose DELETE neither log nor files know
    answers     \* history: what GET returned before the crash, while the process
                \* is down

memory == <<up, tables, step, nth, late>>
disk   == <<meta, files, log, marked>>
vars   == <<memory, disk, crashes, torn, unsaved, answers>>

-----------------------------------------------------------------------------
(* Tables.                                                                 *)

NoCells == [k \in Key |-> None]
Stored(cells) == {k \in Key : cells[k] # None}

Firsts(ts) == [i \in DOMAIN ts |-> ts[i].first]

\* The two neighbours with which the search for k ends.
Search(first, k) ==
    LET Pair[p \in (DOMAIN first) \X (DOMAIN first)] ==
            IF p[1] + 1 < p[2]
            THEN LET mid == (p[1] + p[2]) \div 2 IN
                 Pair[IF first[mid] <= k THEN <<mid, p[2]>> ELSE <<p[1], mid>>]
            ELSE p
    IN Pair[<<1, Len(first)>>]

\* The one of them that is to hold k.  A key beyond the last table's first key
\* is sent to the table before the last.
Place(first, k) ==
    LET pair == Search(first, k) IN
    CASE Len(first) = 1 -> 1
      [] Len(first) # 1 /\ first[pair[1]] = k -> pair[1]
      [] Len(first) # 1 /\ first[pair[1]] # k /\ first[pair[2]] = k -> pair[2]
      [] OTHER -> IF first[pair[1]] <= k THEN pair[1] ELSE pair[2]

\* find_file: the place in cache_table of the table that is to hold k.
Find(ts, k) == Place(Firsts(ts), k)

\* The orders in which sort may leave the tables.
Sorted(ts) ==
    {q \in Seqs!SetToSeqs(Seqs!ToSet(ts)) :
        \A i \in 1 .. Len(q) - 1 : q[i].first <= q[i + 1].first}

NewTable(f, k, v) ==
    [file |-> f, size |-> sizeOf[v], first |-> k, cells |-> [NoCells EXCEPT ![k] = v]]

\* Table t without the value of its cell k.
Without(t, k) ==
    [t EXCEPT !.size = @ - sizeOf[t.cells[k]], !.cells[k] = None]

\* Mutant of Split: the full table keeps its first key.
SplitKeepsFirst(ts, i) ==
    LET last == Seqs!Max(Stored(ts[i].cells)) IN
    Append([ts EXCEPT ![i] = Without(@, last)],
           NewTable(Len(ts) + 1, last, ts[i].cells[last]))

\* Mutant of Split: the new table gets the file of the last one.
SplitReusesFile(ts, i) ==
    LET last == Seqs!Max(Stored(ts[i].cells))
        rest == Without(ts[i], last)
    IN Append([ts EXCEPT ![i] = [rest EXCEPT !.first = Seqs!Min(Stored(rest.cells))]],
              NewTable(Len(ts), last, ts[i].cells[last]))

\* Mutant of Split: a file is skipped.
SplitSkipsFile(ts, i) ==
    LET last == Seqs!Max(Stored(ts[i].cells))
        rest == Without(ts[i], last)
    IN Append([ts EXCEPT ![i] = [rest EXCEPT !.first = Seqs!Min(Stored(rest.cells))]],
              NewTable(Len(ts) + 2, last, ts[i].cells[last]))

\* Mutant of Split: the full table keeps the cell that goes into the new one.
SplitCopies(ts, i) ==
    LET last == Seqs!Max(Stored(ts[i].cells))
    IN Append([ts EXCEPT ![i].first = Seqs!Min(Stored(ts[i].cells))],
              NewTable(Len(ts) + 1, last, ts[i].cells[last]))

\* split_file: the last cell of table i becomes a table of its own, and both
\* begin with the first key they have now (update_first_line).
Split(ts, i) ==
    LET last == Seqs!Max(Stored(ts[i].cells))
        rest == Without(ts[i], last)
    IN Append([ts EXCEPT ![i] = [rest EXCEPT !.first = Seqs!Min(Stored(rest.cells))]],
              NewTable(Len(ts) + 1, last, ts[i].cells[last]))

\* GET from the tables ts: None when the answer is NOT_FOUND.
Answer(ts, k) == ts[Find(ts, k)].cells[k]
Got(k) == Answer(tables, k)

-----------------------------------------------------------------------------
(* The calls.                                                              *)

Ready == up /\ step = "ready"

\* The process dies when its memory holds the tables ts.
Die(ts) ==
    /\ crashes < MaxCrash
    /\ up' = FALSE
    /\ tables' = << >>
    /\ step' = "ready"
    /\ crashes' = crashes + 1
    /\ torn' = (torn \/ ~(Ready /\ marked))
    /\ answers' = [k \in Key |-> Answer(ts, k)]
    /\ UNCHANGED <<nth, late>>

\* put_value: the value goes into memory and into the log, and a full table
\* is split, unless the new key is the only one it has: update_first_line then
\* looks for the first key of an empty map.  A crash before the line is in the
\* log leaves what a crash before the call leaves.
PutValue(k, v) ==
    LET i   == Find(tables, k)
        old == tables[i].cells[k]
        put == [tables EXCEPT ![i].cells[k] = v]
        full == old = None /\ tables[i].size > FileSize
    IN
    /\ Len(log) < MaxLog
    /\ log' = Append(log, <<k, v>>)
    /\ unsaved' = unsaved \ {k}
    /\ \/ /\ ~full
          /\ tables' = [put EXCEPT ![i].size =
                            @ + sizeOf[v] - (IF old = None THEN 0 ELSE sizeOf[old])]
          /\ UNCHANGED <<up, step, nth, late, crashes, torn, answers>>
       \/ /\ full
          /\ Stored(put[i].cells) # {k}
          /\ Len(tables) < MaxTables
          /\ tables' \in Sorted(Split(put, i))
          /\ step' = "openMeta"
          /\ late' = [num |-> i, size |-> sizeOf[v]]
          /\ UNCHANGED <<up, nth, crashes, torn, answers>>
       \/ /\ full
          /\ Stored(put[i].cells) = {k}
          /\ Die(put)
    /\ UNCHANGED <<meta, files, marked>>

\* PUT, as PutFromReplica or from the primary's own broadcast.
Put(k, v) == Ready /\ PutValue(k, v)

\* CPUT.
ConditionalPut(k, old, v) ==
    /\ Ready
    /\ Got(k) = old
    /\ PutValue(k, v)

\* CPUT of a key that is not there follows a null pointer.
ConditionalPutAbsent(k) ==
    /\ Ready
    /\ Got(k) = None
    /\ Die(tables)
    /\ UNCHANGED <<disk, unsaved>>

\* DELETE: neither the log nor the size of the table hears of it.
Delete(k) ==
    /\ Ready
    /\ tables' = [tables EXCEPT ![Find(tables, k)].cells[k] = None]
    /\ unsaved' = unsaved \cup {k}
    /\ UNCHANGED <<up, step, nth, late, disk, crashes, torn, answers>>

-----------------------------------------------------------------------------
(* The rest of a put_value that has split a table.  A file is empty from   *)
(* the open that truncates it to the close that flushes what was written.  *)

Checkpointing(now, then) ==
    /\ up
    /\ step = now
    /\ step' = then
    /\ UNCHANGED <<up, crashes, torn, answers>>

OpenMeta ==
    /\ Checkpointing("openMeta", "closeMeta")
    /\ meta' = << >>
    /\ UNCHANGED <<tables, nth, late, files, log, marked, unsaved>>

\* UpdateMetaData.
CloseMeta ==
    /\ Checkpointing("closeMeta", "openFile")
    /\ meta' = [i \in DOMAIN tables |->
                  [file |-> tables[i].file, size |-> tables[i].size,
                   first |-> tables[i].first]]
    /\ nth' = 1
    /\ UNCHANGED <<tables, late, files, log, marked, unsaved>>

OpenFile ==
    /\ Checkpointing("openFile", "closeFile")
    /\ files' = [files EXCEPT ![tables[nth].file] = NoCells]
    /\ UNCHANGED <<tables, nth, late, meta, log, marked, unsaved>>

\* Mutant of CloseFile: only the new table's file is written.
CloseFileNewOnly ==
    LET i == Len(tables) IN
    /\ Checkpointing("closeFile", "openLog")
    /\ files' = [files EXCEPT ![tables[i].file] = tables[i].cells]
    /\ UNCHANGED <<tables, nth, late, meta, log, marked, unsaved>>

\* update_file: deleted values are left out.
CloseFile ==
    /\ Checkpointing("closeFile",
                     IF nth < Len(tables) THEN "openFile" ELSE "openLog")
    /\ files' = [files EXCEPT ![tables[nth].file] =
                   [k \in Key |-> IF tables[nth].cells[k] = Deleted
                                  THEN None ELSE tables[nth].cells[k]]]
    /\ nth' = nth + 1
    /\ UNCHANGED <<tables, late, meta, log, marked, unsaved>>

OpenLog ==
    /\ Checkpointing("openLog", "closeLog")
    /\ log' = << >>
    /\ marked' = FALSE
    /\ UNCHANGED <<tables, nth, late, meta, files, unsaved>>

\* UpdateCheckpoint ends; put_value counts the new value where the table was
\* before the tables were sorted.
CloseLog ==
    /\ Checkpointing("closeLog", "ready")
    /\ marked' = TRUE
    /\ tables' = [tables EXCEPT ![late.num].size = @ + late.size]
    /\ unsaved' = {}
    /\ UNCHANGED <<nth, late, meta, files, log>>

-----------------------------------------------------------------------------
(* Crash and restart.                                                      *)

Crash ==
    /\ up
    /\ Die(tables)
    /\ UNCHANGED <<disk, unsaved>>

\* The metadata of a server that has none.
NewMeta == <<[file |-> 1, size |-> 0, first |-> FirstLine]>>

\* load_table: the tables as the metadata m and the files describe them.
Loaded(m) ==
    [i \in DOMAIN m |-> [file |-> m[i].file, size |-> m[i].size,
                         first |-> m[i].first, cells |-> files[m[i].file]]]

IsLastPut(es, k, j) ==
    /\ j \in DOMAIN es /\ es[j][1] = k
    /\ \A i \in DOMAIN es : es[i][1] = k => i <= j

\* The tables ts after the values es of the log have been put into them in
\* order; that moves no first key.
Replay(ts, es) ==
    [i \in DOMAIN ts |-> [ts[i] EXCEPT !.cells =
        [k \in Key |-> IF Find(ts, k) = i /\ \E j \in DOMAIN es : IsLastPut(es, k, j)
                       THEN es[CHOOSE j \in DOMAIN es : IsLastPut(es, k, j)][2]
                       ELSE ts[i].cells[k]]]]

\* ParseMetaData and ParseLogFile.  With no "checkpoint" line the position to
\* read from is never set.
Restart ==
    /\ ~up
    /\ up' = TRUE
    /\ meta' = IF meta = << >> THEN NewMeta ELSE meta
    /\ \E ts \in Sorted(Loaded(meta')), n \in IF marked THEN {0} ELSE 0 .. Len(log) :
          tables' = Replay(ts, SubSeq(log, n + 1, Len(log)))
    /\ unsaved' = {} /\ answers' = NoCells
    /\ UNCHANGED <<step, nth, late, files, log, marked, crashes, torn>>

-----------------------------------------------------------------------------
(* A server started for the first time.                                    *)

Init ==
    /\ up = TRUE
    /\ tables = <<[file |-> 1, size |-> 0, first |-> FirstLine, cells |-> NoCells]>>
    /\ step = "ready"
    /\ nth = 1
    /\ late = [num |-> 1, size |-> 0]
    /\ meta = NewMeta
    /\ files = [f \in 1 .. MaxTables |-> NoCells]
    /\ log = << >>
    /\ marked = FALSE
    /\ crashes = 0
    /\ torn = FALSE
    /\ unsaved = {}
    /\ answers = NoCells

Call ==
    \E k \in Key :
       \/ \E v \in Value : Put(k, v)
       \/ \E old, v \in Value \ {Deleted} : ConditionalPut(k, old, v)
       \/ ConditionalPutAbsent(k)
       \/ Delete(k)

Next ==
    \/ Call
    \/ OpenMeta
    \/ CloseMeta
    \/ OpenFile
    \/ CloseFile
    \/ OpenLog
    \/ CloseLog
    \/ Crash
    \/ Restart

Spec == Init /\ [][Next]_vars

-----------------------------------------------------------------------------
(* Properties.                                                             *)

TypeOK ==
    /\ up \in BOOLEAN
    /\ tables \in Seq([file : 1 .. MaxTables, size : Int,
                       first : Key \cup {FirstLine}, cells : [Key -> Value \cup {None}]])
    /\ up <=> tables # << >>
    /\ step \in {"ready", "openMeta", "closeMeta", "openFile", "closeFile",
                 "openLog", "closeLog"}
    /\ nth \in 1 .. MaxTables + 1
    /\ late \in [num : 1 .. MaxTables, size : Nat]
    /\ meta \in Seq([file : 1 .. MaxTables, size : Int, first : Key \cup {FirstLine}])
    /\ files \in [1 .. MaxTables -> [Key -> Value \cup {None}]]
    /\ log \in Seq(Key \X Value)
    /\ marked \in BOOLEAN
    /\ crashes \in 0 .. MaxCrash
    /\ torn \in BOOLEAN
    /\ unsaved \subseteq Key
    /\ answers \in [Key -> Value \cup {None}]

Visible(v) == IF v = Deleted THEN None ELSE v

\* What a GET shows, or showed before the crash.
View == [k \in Key |-> Visible(IF up THEN Got(k) ELSE answers[k])]

KV == INSTANCE KVStore WITH
    Value <- Value \ {Deleted},
    store <- View

\* A server is a map from keys to values, whatever crashes it has been through,
\* but when a split finds more than one table: a call changes the answer of its
\* key alone, the only table is split without changing any, and the table a
\* later PUT, CPUT or DELETE is sent to is the one that holds the key.  (A later
\* split may take from sight what find_file then looks for in another table:
\* UnavailableIsAbsent.  What a restart shows is RestartKeepsAnswers.)
LaterSplit == Len(tables) >= 2 /\ Len(tables') > Len(tables)

ActsAsStoreButAtLaterSplits ==
    KV!Init /\ [][up /\ ~LaterSplit => KV!Next]_View

\* No two of the tables ts begin with the same key.
Apart(ts) == \A i, j \in DOMAIN ts : ts[i].first = ts[j].first => i = j

\* A restart gives every GET the answer it had before the crash: what the files
\* hold and what the log adds come together in the tables they were in.  Left
\* out are a server that has crashed before its first checkpoint was complete or
\* inside a later one, keys whose DELETE was never saved, and tables of which
\* two begin with the same key, which sort may exchange.
RestartKeepsAnswers ==
    [][~up /\ up' /\ ~torn /\ Apart(meta) =>
         \A k \in Key \ unsaved : Visible(Got(k)') = Visible(answers[k])]_vars

\* No two tables write the same file: split_file names a table by the number of
\* tables there are, also after a restart that has lost some.
FilesApart ==
    \A i, j \in DOMAIN tables : tables[i].file = tables[j].file => i = j

\* Up to three tables begin with different keys, unless a crash has come before
\* the first checkpoint was complete or inside a later one.  sort would be given
\* a comparison that puts each of two equal keys before the other, and find_file
\* would never come to the second table.  (Five tables may begin with equal
\* keys: the third is where find_file first looks in the wrong table.)
ThreeFirstsApart == ~torn /\ Len(tables) <= 3 => Apart(tables)

\* GET says "data not available" only of a key no table holds.
UnavailableIsAbsent ==
    \A k \in Key : up /\ Got(k) = None =>
        \A i \in DOMAIN tables : tables[i].cells[k] = None

=============================================================================
