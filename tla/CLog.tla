-------------------------------- MODULE CLog --------------------------------
(***************************************************************************)
(* The log of the module (src/CLog.cpp): lines go to the current file, a   *)
(* full file is closed and a new one created, and from MaxFiles files on   *)
(* the oldest is to be removed.  mutex_ makes every write one step, all    *)
(* but its first statement: SysTime is set before the lock is taken, so    *)
(* that other calls may set it anew before it is formatted.  Files are     *)
(* numbered in the order of their creation; their names, the time of       *)
(* creation, are taken to differ.                                          *)
(***************************************************************************)
EXTENDS Integers, Sequences, FiniteSets

CONSTANTS
  MaxSize,     \* a file with more lines than this is full (50 MB)
  MaxFiles,    \* listFiles.size() from which on files are removed (50)
  FlushLimit,  \* flushCount above which a line is flushed (5000)
  MaxCreated,  \* BOUND: files created, by all processes
  Env          \* what happens to the files besides

ASSUME MaxSizeAssumption    == MaxSize \in Nat
ASSUME MaxFilesAssumption   == MaxFiles \in Nat /\ MaxFiles >= 2
ASSUME FlushLimitAssumption == FlushLimit \in Nat
ASSUME MaxCreatedAssumption == MaxCreated \in Nat \ {0}
ASSUME EnvAssumption ==
  Env \subseteq {"hold",      \* another program keeps a file from being removed
                 "remove",    \* somebody removes an old file
                 "openFails", \* a new file cannot be opened
                 "restart"}   \* the worker process ends and another starts

VARIABLES
  process,     \* whether the worker process, and the CLog in it, is up
  current,     \* the open file, 0 when ofs is closed
  lines,       \* how the lines of the current file begin, see Prefixes
  unflushed,   \* lines in the buffer of ofs
  flushCount,
  listFiles,
  disk,        \* the log files there are
  held,        \* those that cannot be removed
  born,        \* the first file of this process
  created      \* the last file created

vars == <<process, current, lines, unflushed, flushCount, listFiles, disk,
          held, born, created>>

Files == 1..MaxCreated

\* strDate as write formats it, with SysTime as the call set it or as another
\* call did, wholly or in part, in between (GetLocalTime at 93 has no lock).
Times == {"time", "othersTime"}

\* "name": strDate as createFile formats it, for the name of the file.
Prefixes == Times \cup {"name", "greeting"}

\* The constructor: a new list, and a file that begins with a greeting.
Init ==
  /\ process = "up"
  /\ current = 1
  /\ lines = <<"greeting">>
  /\ unflushed = 1
  /\ flushCount = 0
  /\ listFiles = <<1>>
  /\ disk = {1}
  /\ held = {}
  /\ born = 1
  /\ created = 1

----------------------------------------------------------------------------
\* A bug Flush might have: flushCount-- for flushCount++.
FlushCountsDown(n, force) ==
  IF flushCount > FlushLimit \/ force
    THEN unflushed' = 0 /\ flushCount' = 0
    ELSE unflushed' = n /\ flushCount' = flushCount - 1

\* Another: the else branch is missing.
FlushForgetsToCount(n, force) ==
  IF flushCount > FlushLimit \/ force
    THEN unflushed' = 0 /\ flushCount' = 0
    ELSE unflushed' = n /\ UNCHANGED flushCount

\* The end of write: n lines wait in the buffer, the new one included.
Flush(n, force) ==
  IF flushCount > FlushLimit \/ force
    THEN unflushed' = 0 /\ flushCount' = 0
    ELSE unflushed' = n /\ flushCount' = flushCount + 1

Full == Len(lines) > MaxSize

\* No stream is open: tellp() is -1, so the log never rotates again, and
\* what is written goes nowhere.
WriteNowhere(force) ==
  /\ process = "up" /\ current = 0
  /\ Flush(0, force)
  /\ UNCHANGED <<process, current, lines, listFiles, disk, held, born, created>>

\* A bug: strDate is formatted when a file is created, not for every line.
WriteLineUntimed(force) ==
  /\ process = "up" /\ current # 0 /\ ~Full
  /\ lines' = Append(lines, "name")
  /\ Flush(unflushed + 1, force)
  /\ UNCHANGED <<process, current, listFiles, disk, held, born, created>>

WriteLine(force) ==
  /\ process = "up" /\ current # 0 /\ ~Full
  /\ \E time \in Times : lines' = Append(lines, time)
  /\ Flush(unflushed + 1, force)
  /\ UNCHANGED <<process, current, listFiles, disk, held, born, created>>

(***************************************************************************)
(* checkFile.  fs::remove answers true when it removed the file, false     *)
(* when there was none, and throws when it could not.  The test of the     *)
(* code takes true for an error: the name is dropped from the list only    *)
(* when there was no file.                                                 *)
(***************************************************************************)
Removing == Len(listFiles) >= MaxFiles

\* A bug: back() for front().
Newest == listFiles[Len(listFiles)]

Oldest == Head(listFiles)

DiskAfter == IF Removing THEN disk \ {Oldest} ELSE disk

\* A bug: the name is dropped before its file is removed.
ListPopsEarly == IF Len(listFiles) + 1 >= MaxFiles THEN Tail(listFiles) ELSE listFiles

ListAfter == IF Removing /\ Oldest \notin disk THEN Tail(listFiles) ELSE listFiles

\* A bug: createFile does not enter the new file in the list.
WriteRotatesUnlisted(force) ==
  /\ process = "up" /\ current # 0 /\ Full
  /\ ~(Removing /\ Oldest \in held)
  /\ created < MaxCreated
  /\ created' = created + 1
  /\ current' = created'
  /\ disk' = DiskAfter \cup {created'}
  /\ listFiles' = ListAfter
  /\ lines' = <<"name">>
  /\ Flush(1, force)
  /\ UNCHANGED <<process, held, born>>

\* createFile formats the time for the file name into strDate, and the line
\* that made the log rotate starts with that.
WriteRotates(force) ==
  /\ process = "up" /\ current # 0 /\ Full
  /\ ~(Removing /\ Oldest \in held)
  /\ created < MaxCreated
  /\ created' = created + 1
  /\ current' = created'
  /\ disk' = DiskAfter \cup {created'}
  /\ listFiles' = Append(ListAfter, created')
  /\ lines' = <<"name">>
  /\ Flush(1, force)
  /\ UNCHANGED <<process, held, born>>

\* fs::remove throws after ofs was closed and write ends with the exception.
\* OnBeginRequest catches it; nothing does above a WebSocket callback.
WriteThrows ==
  /\ process = "up" /\ current # 0 /\ Full
  /\ Removing /\ Oldest \in held
  /\ process' \in {"up", "down"}
  /\ current' = 0
  /\ lines' = <<>>
  /\ unflushed' = 0
  /\ UNCHANGED <<flushCount, listFiles, disk, held, born, created>>

\* createFile calls itself until a file opens: the stack ends first.
WriteOverflows ==
  /\ "openFails" \in Env
  /\ process = "up" /\ current # 0 /\ Full
  /\ ~(Removing /\ Oldest \in held)
  /\ process' = "down"
  /\ current' = 0
  /\ lines' = <<>>
  /\ unflushed' = 0
  /\ disk' = DiskAfter
  /\ listFiles' = ListAfter
  /\ UNCHANGED <<flushCount, held, born, created>>

Write == \/ \E force \in BOOLEAN :
              WriteNowhere(force) \/ WriteLine(force) \/ WriteRotates(force)
         \/ WriteThrows \/ WriteOverflows

----------------------------------------------------------------------------
\* DllMain: the process detaches (~CLog closes the file) or is killed; the
\* next one attaches (CLog::CLog) and knows nothing of the files there are.
Stop ==
  /\ "restart" \in Env /\ process = "up"
  /\ process' = "down"
  /\ current' = 0
  /\ lines' = <<>>
  /\ unflushed' = 0
  /\ UNCHANGED <<flushCount, listFiles, disk, held, born, created>>

Start ==
  /\ "restart" \in Env /\ process = "down" /\ created < MaxCreated
  /\ process' = "up"
  /\ created' = created + 1
  /\ current' = created'
  /\ born' = created'
  /\ lines' = <<"greeting">>
  /\ unflushed' = 1
  /\ flushCount' = 0
  /\ listFiles' = <<created'>>
  /\ disk' = disk \cup {created'}
  /\ UNCHANGED held

\* Other programs: they cannot remove the file that is open.
Outside ==
  \E f \in disk \ {current} :
    /\ \/ /\ "hold" \in Env
          /\ held' = IF f \in held THEN held \ {f} ELSE held \cup {f}
          /\ UNCHANGED disk
       \/ /\ "remove" \in Env /\ f \notin held
          /\ disk' = disk \ {f}
          /\ UNCHANGED held
    /\ UNCHANGED <<process, current, lines, unflushed, flushCount, listFiles,
                   born, created>>

Next == Write \/ Stop \/ Start \/ Outside

Spec == Init /\ [][Next]_vars

----------------------------------------------------------------------------
Listed == {listFiles[i] : i \in 1..Len(listFiles)}

\* The values every variable takes; flushCount never gets below 0.
TypeOK ==
  /\ process \in {"up", "down"}
  /\ current \in Files \cup {0}
  /\ lines \in Seq(Prefixes)
  /\ unflushed \in Nat
  /\ flushCount \in Nat
  /\ listFiles \in Seq(Files)
  /\ disk \subseteq Files
  /\ held \subseteq Files
  /\ born \in Files
  /\ created \in Files

\* A process that dies loses at most FlushLimit + 1 lines and the greeting,
\* though flushCount is not reset when a file is closed.
LossBounded == unflushed <= flushCount + 1 /\ flushCount <= FlushLimit + 1

\* The open file is the newest of the list, and it is there.
CurrentKept ==
  current # 0 => current = listFiles[Len(listFiles)] /\ current \in disk

\* As long as a file of this process exists, its name is in the list.
NoneForgotten == process = "up" => \A f \in disk : f >= born => f \in Listed

\* Every line but the first of its file begins with a date and the number of
\* the thread that wrote it, formatted for this line under the lock, and only
\* the first may begin with digits from a file name, though both use strDate.
\* The date may be another call's: SysTime has no lock.
LinesPrefixed == \A i \in 2..Len(lines) : lines[i] \in Times

\* The log removes nothing but the oldest file of its process.
OldestRemoved ==
  [][Write => \A f \in disk \ disk' :
                f >= born /\ \A g \in disk : g >= born => f <= g]_vars

\* "listFiles.size() >= 50": there are never more files than that.
Retention == Cardinality({f \in disk : f >= born}) <= MaxFiles
=============================================================================
