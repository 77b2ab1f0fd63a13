# IISModule in TLA+

IISModule is a native HTTP module for IIS (C++). It upgrades requests to
WebSockets and echoes what clients send, answers a few test commands over HTTP,
and logs what it does. This directory holds TLA+ models of it, the TLC
configurations that check them and TLAPS proofs about them. Line numbers below
are those of the files under `src/`.

## 1. The system

### Components

| Component | State | Operations | Here |
|---|---|---|---|
| **WebSocket sessions**, `MyWebSocket` and `functorWebSocket` (`mywebsocket.cpp`) | per connection: `remote.connectionId`, `mtx`, `data`, `readBuffer`, `writeBuffer`; shared: `g_ListWebSocket`, `g_IISCounter` | constructor, `continuousReading`, `Write`, `ContinuousReadAsyncCompletion`, `WritAsyncCompletion`, `CleanupStoredContext` | `MyWebSocket.tla` |
| **Polling reader**, `MyWebSocket::Reading`, `ReadAsyncCompletion` | the same | a second way to read, called from nowhere | not modelled |
| **Request handling**, `CMyHttpModule` (`mymodule.cpp`) | the request and its response; the thread of `ExecuteRequest`; the warm-up state of the application | `OnBeginRequest` (six commands), `ExecuteRequest`, notifications that log | `HttpModule.tla`, `ModuleLife.tla` |
| **Request helpers**, `IISHelpers` | `urlmap` | `GetEntity`, `WriteResponse`, `GetVariable`, ... | `GetEntity`, `WriteResponse`, `urlmap` in `HttpModule.tla` |
| **Log**, `CLog` (`CLog.cpp`) | the stream, `flushCount`, `listFiles`, the files on disk | constructor, destructor, `write`, `checkFile`, `createFile` | `CLog.tla` |
| **Stress client** (`WinHTTP WebSocket sample/C++/`) | per thread: four handles, the receive buffer and what is left of it, `dwError`; per process: thread and data arrays | `wmain`, `threadWebSocket` | `StressClient.tla` |
| **Life of the module**, `DllMain`, `RegisterModule`, `CMyHttpModuleFactory` (`main.cpp`, `mymodulefactory.h`) | `p_log`, the factory, a `CMyHttpModule` per request | attach and detach of the process and of threads, registration, `GetHttpModule`, `Terminate` | `ModuleLife.tla` |
| **Global module**, `MyGlobalModule` (`myglobalmodule.cpp`) | the context of a preload | `OnGlobalApplicationPreload`; notifications that log; `ReadFileChunk`, which is not called | `ModuleLife.tla` |
| **Browser client**, `Page/websocket2.html` | the connections it made, the buttons, `loopRunning`, its timers | connect, disconnect, send in a loop, `onOpen`, `onClose` | `PageClient.tla` |
| **Handshake**, `WebSocketHandshake` (vendored) | none | SHA-1 and base64 of the key | not modelled |

### How they interact

IIS runs the module in a pool of threads. It calls `OnBeginRequest` for a
request; for the command `websocket` that makes a `MyWebSocket` and calls
`continuousReading`, which enters the object in `g_ListWebSocket`, writes a
notice to every object in that map (the new one included) and starts the first
`ReadFragment`. `OnBeginRequest` then returns `RQ_NOTIFICATION_PENDING`. From
there on IIS drives the session with callbacks on any thread of the pool: the
read callback echoes the message and asks for the next one, or, on a close
frame, cleans up: it erases the object from the map, completes the request and
deletes the object. Write callbacks count. Every step logs to the one `CLog` of
the process. Clients see a service that greets them with notices and echoes
their messages.

Around this, a process loads the module (`DllMain` opens the log), registers it
(`RegisterModule` makes the global module and the factory and gives both to
IIS), preloads the application, gets a `CMyHttpModule` for every request, and,
when its requests are completed, terminates what it was given and exits.

### What is hard

* **Threads.** A connection is touched by the thread of its `OnBeginRequest`,
  by its read and write callbacks, and by the `OnBeginRequest` threads of *other*
  connections that send a notice. Each object has a mutex; the map, the
  counters and parts of the callbacks have none.
* **Lifetime.** `CleanupStoredContext` ends in `delete this`; other threads and
  late callbacks may hold the pointer.
* **Asynchrony.** A `ReadFragment` or `WriteFragment` may complete in the call,
  later, or fail; `ERROR_IO_PENDING` means that one is already outstanding, and
  there is one write buffer and one retry.
* **Who completes a request.** It is completed by what `OnBeginRequest` returns,
  or by exactly one `IndicateCompletion` of a session or a detached thread.
* **Failure.** Connections break, writes fail, files cannot be opened or
  removed, `p_log->write` throws, a registration is refused, the worker process
  is recycled.
* **Ownership at the edges of the process.** The log is deleted by `DllMain`
  while destructors and detached threads still write to it; the factory and the
  global module change owner in the middle of `RegisterModule`.
* **Events of a browser.** Every connection calls the same `onClose`, whichever
  the page holds; a timer of a loop outlives the click that stops it.

What makes each component correct: a *session* has one reader at a time, is
used after it is deleted in no place but the five this project names, finishes
its request once and writes only what `EchoSession` allows, and its threads come
back to the pool; a *request* is completed once, answered, and afterwards used
only by a session that closes; the *log* bounds what a crash
loses and never forgets or removes the wrong file; the *client* closes what it
opened, stays in its buffer and reports success only when it is true; the
*process* has an open log whenever something may write to it, deletes each
object once, and cuts off no request when it stops; the *page* has buttons that
tell the truth and loops that do not multiply, and die under a button that says
they run in two known ways only.

## 2. The modules

```
EchoSession            what a client may observe (abstract)
WebSocketContext       state, IIS, clients, network (mostly external)
  MyWebSocket          the session code; implements EchoSession (EchoService)
    MCMyWebSocket      instances for TLC
    MyWebSocketProofs
      MyWebSocketSession the refinement of EchoSession and what follows
HttpModule             OnBeginRequest, ExecuteRequest, GetEntity, warm-up
  HttpModuleProofs
    HttpEntityProofs
  ModuleLife           the process around it; implements HttpModule
    MCModuleLife       an instance for TLC
    ModuleLifeProofs
CLog
  CLogProofs
StressClient           the client, composed with EchoSession as its service
  StressClientProofs
PageClient             the browser page
  PageClientProofs
```

### MyWebSocket and WebSocketContext

A thread is a program counter `pc[t]` and a `frame[t]`: the connection its
activation is about, the object it calls `Write` on, where `Write` returns to.
A step ends where another thread can see the difference: at a lock, at an access
to state that no lock protects, at a call of IIS. Code between two such points
is one action; releasing a lock is joined to the step before it.

| Code | Actions |
|---|---|
| `OnBeginRequest`, case WEB_SOCKET, and the constructor | `OnBeginRequest`, `BeginRefused` |
| `continuousReading` | `Insert`, `Notify`, `NotifyEnds`, `CheckStatus`, `FirstRead`, `FirstAppend`, `FirstClear`, `FirstFailed`, `FirstReturn` |
| `Write` | `WriteRefused`, `WriteLock`, `WriteSend`, `WriteResend` |
| `ContinuousReadAsyncCompletion` | `ReadDisconnected`, `ReadLock`, `ReadFinal`, `ReadPartial`, `ReadClear`, `Reread`, `RereadFailed`, `CleanupReturn` |
| `CleanupStoredContext` | `CleanupErase`, `CleanupFinish`, `CleanupDelete` |
| `WritAsyncCompletion` | `WriteDone`, `WriteCount` |

Undefined behaviour is a choice. When a thread is about to use a deleted object
(`TouchesDeleted`), `Fault` lets the process die; the ordinary step, on memory
that is still as it was, stays possible too. `process = "terminated"` is final.

`g_ListWebSocket` is a `std::map` that no lock protects. When two threads are at
it together and one of them inserts or erases (`RegistryRace`), or an iterator's
element is gone, three things can come of it: no harm, and the steps happen one
after the other; the end of the process (`Fault`); or a map that is no longer
what was put into it (`MapBreaks`): two inserts that both find the same empty
link lose one of them, and so may an erase. From then on `intact` is `FALSE`.
`registry` goes on to be what was inserted and not erased, but a loop over the
map no longer goes by it: it may visit any object ever made, deleted ones
included, in any order and more than once, and may end at any point. `MaxTold`
bounds how many texts are written in all while a loop goes on so. What a
property says of the registry it says while `intact`.

`WebSocketContext` also holds what is outside the repository, from the way the
code uses it: `ReadFragment` answers `async`, `sync`, `failed` or
`ERROR_IO_PENDING`; `WriteFragment` is accepted, fails or answers
`ERROR_IO_PENDING`, and keeps the address of the buffer; a close frame is
delivered after the messages before it; a connection that breaks makes the
outstanding read fail; `CancelOutstandingIO` makes outstanding operations
complete with an error. `accepted` is a history of the texts accepted for each
client. `Env` switches these behaviours on: `fragment`, `syncRead`, `close`,
`earlyClose`, `abort`, `writeFail`, `slowWrite`, `refuse`.

Abstractions: a fragment is `<<message, kind>>`; a text is a sequence of
fragments; the wording ("echo ", "ID[..]") and the 1024 bytes of the buffers are
left out. `300 ms` is: the retry happens when the outstanding write has ended,
or, with `slowWrite`, at any moment.

`EchoSession` is the promise to the client: echoes of messages it sent, in
order, none twice (some may be missing), each notice at most once, nothing after
the request is finished, and an empty text only once the connection is lost. A
service that is not `orderly` may repeat notices; `orderly` is `intact` in the
refinement.
`MyWebSocket!Session` instantiates it with `life` from `obj`, `indicated` and
`link`, and `told` from `accepted`; any text that is not one whole message has
no counterpart and refutes the refinement.

### HttpModule

`pc[r]` is where `OnBeginRequest` is for request `r`, `thread[r]` the detached
thread of `ExecuteRequest`, `session[r]` the session of `MyWebSocket.tla` cut
down to what it does with the request: `SessionEnds`, the `IndicateCompletion` of
`CleanupStoredContext`, and `SessionCloses`, what that does after it (39-45) with
the `IWebSocketContext`. Meanwhile `OnBeginRequest` may still be in
`continuousReading`: at `reading`, after the `ReadFragment` of the first read, it
logs `readBuffer`, memory of the request (`ReadLogged`). These are the two places
`ContextLives` excepts, and the only ones. `result[r]` and `indicated[r]` are the two ways
a request is completed. A byte of a body is `NUL` or not, which is what
`GetEntity` tells apart: `ReadEntityBody` returns any part of what is left, no
more than the size offered, and overwrites that size. `POST_DATA` has no `case`
and falls to the warm-up; `WarmupNests` covers both readings of
`BeginApplicationWarmup`, a counter and a flag. A WebSocket request without
`User-Agent` or `Sec-WebSocket-Key` leaves a pointer `NULL` that the code puts
into a stream or passes to `WebSocketHandshake::generate`: no `catch` stops that,
and `HeaderMissing` ends the process (`crashed`, after which nothing happens).

`p_log->write` can throw, when a rotation of the log calls `fs::remove`
(`CLog!WriteThrows`). In `OnBeginRequest` that ends in its `catch`: status 500
and `CONTINUE`. `LogFails` is that throw at each place where the handler logs;
`LogThrows` switches it on. Before the request was left to a session or to the
detached thread that is one more way to complete it. Afterwards it completes a
request that somebody else is going to complete too: `thrown` is the set of
those requests, and what the properties about completion leave out. A throw
anywhere else (a callback, the detached thread, a destructor, `RegisterModule`,
the later notifications) meets no handler and ends the process, which is
`CLog!Stop`. The file an upload is stored in is left out.

### ModuleLife

`ModuleLife` extends `HttpModule` with the process: every step of `HttpModule`
is taken in a process that serves (or, for a detached thread or a session, is
stopping), by a `CMyHttpModule` that lives, in a thread that `DllMain` has seen.
A request that ends the process ends it here too (`Crashes`).
`LifeNext` adds the code that runs only at the edges:

| Code | Actions |
|---|---|
| `DllMain`, its four reasons | `ProcessAttach`, `ThreadAttach`, `ThreadDetach`, `ProcessDetach` |
| `RegisterModule` | `NewGlobal`, `SetGlobalNotifications`, `NewFactory`, `SetRequestNotifications` |
| `OnGlobalApplicationPreload` | `CreateContext`, `GetInterface`, `ReleaseContext` |
| the factory, `CMyHttpModule`'s constructor and destructor, `Terminate` | `GetHttpModule`, `Dispose`, `Terminate` |
| IIS | `Serve`, `StopServing`, `Exit` |

`objects` is what is made and deleted once in a process; an object deleted while
it does not live is `"wild"`. `registered` is what IIS was given. `Logging` says
who writes to `p_log`, now or in the next call of IIS, which includes the
notifications that do nothing else (`Notified`, `Handling`): they can come at
any time, so they are a condition and not steps. IIS is taken to stop a process
only when its requests are completed, to terminate what it was given before it
exits, and to end all other threads, wherever they are, before
`DLL_PROCESS_DETACH`. A request whose `ExecuteRequest` could not write its
response is never completed, so its process never gets there. `RegisterModule`
gets both its pointers and `new` does not answer `NULL`.

### CLog

`write` holds `mutex_` from its second statement on, so every write is one step
(its first, `GetLocalTime(&SysTime)`, is outside: `Times` lets a line begin with
the time that another call set before this one formatted it): `WriteLine` (into a file
that is not full), `WriteRotates` (`checkFile` with `createFile`), `WriteThrows`
(`fs::remove` throws, after the file was closed), `WriteOverflows` (`createFile`
calls itself for as long as no file opens), `WriteNowhere` (no open stream).
Files are numbers in order of creation and a size is a number of lines. `Stop`
and `Start` are a recycled or killed worker process; `Outside` is other
programs, which hold and remove files. The test of `fs::remove` is modelled as
written: the name leaves the list only if there was no such file.

### StressClient

`wmain` creates threads and waits for all; a thread goes
through the calls of the handshake (`Calls` says which handle each opens and
whether its failure is kept in `dwError`), then sends and receives. Every call
may fail. The service is `EchoSession`: `Service!Open`, `Echo`, `Enter`,
`Finish` are what the client may meet. It need not be `orderly`: connections that
come in such numbers may well race for the registry. `MaxTold` bounds what one
thread is told. What the service says while a thread prints is, for the thread,
as if said at its next call.

### PageClient

`websocket2.html`: `sockets` is the `readyState` of every connection the page
made, `websocket` the one its variable holds, `connected` what `setGuiConnected`
was last told (which buttons work), `timers` the callbacks of `setTimeout` that
wait. `doSendLoop` is `StartLoop` and `StopLoop`; the callback of a timer is
`Timer`: it sends, which throws while the connection is still connecting (and
ends the callback before `sendLoop`), and sets the next timer if `loopRunning`.
`PeerCloses` is a closing handshake the module begins, `OnClose` any end.
`doubled`, `overtaken`, `early`, `reopened` and `starts` are histories the
properties need: whether the page connected with a connection not closed,
connected while a timer waited, started the loop while the connection in
`websocket` was still connecting, had a connection open under a running loop, and
how many loops were started since no timer waited. `LoopAlive` says that a loop
can die under a button that says it runs in two ways, those of `overtaken` and of
`early`, and that the second takes two connections at a time.

## 3. The runs

| Run | Module, cfg | What it asks | Bounds |
|---|---|---|---|
| session | MCMyWebSocket_Session | `TypeOK`, `FinishedOnce`, `ThreadsReturn`, `EchoService` under everything in `Env` | 1 connection, 3 threads, 2 messages |
| pair | MCMyWebSocket_Pair | `OneReader`, `LateUsesOnly`, `RegistryLive`, `WebsocketsCounted`, `NoticeReachesOne`, `NoWriteAfterFinish`, `EchoService`, with a break and a map that may be corrupted | 2 connections, 2 threads, no messages, 1 break, 2 texts before a loop over a corrupt map writes no more; threads symmetric |
| echo | MCMyWebSocket_Echo | `EchoEventually`, `CloseCompletes` | 1 connection, 2 threads, 2 messages |
| log_files | CLog_Files | `TypeOK`, `LossBounded`, `CurrentKept`, `NoneForgotten`, `LinesPrefixed`, `OldestRemoved` | 6 files, 2 kept, 2 lines a file |
| life | MCModuleLife_Life | `TypeOK`, `CompletedOnce`, `ContextLives`, `FinishedAnswered`, `BodySetBack`, `WarmupEnded`, `LogOutlives`, `ObjectsOwned`, `DrainedAtExit`, `RequestCompletes` | a process from load to exit; 2 requests, one of any kind, one that opens a session, goes through the warm-up or reads the counters; bodies up to 2 bytes; the log throws |
| threads | StressClient_Threads | `TypeOK`, `HandlesClosedOnce`, `BufferFits`, `ZeroMeansDone`, `AnswerNotAhead` | 2 threads, 2 messages, buffer 2, messages up to 3 units, 2 of the service to a thread |
| page | PageClient_Page | `OneConnection`, `LoopAlive`, `LoopsCounted`, `LabelTells`, `LoopStops` | 4 connections, 4 timers that wait at a time |

Five runs show where the program does something else than its own words say; TLC
finds a counterexample in each:

| Run | Property | What happens |
|---|---|---|
| fragment | `FragmentReadsOn` | A message in two fragments: `lck.lock()` (628) on a lock that is already owned throws, and the worker process ends. |
| sync_read | `EchoEventually` | The next message is already there when the callback asks for it: `bCompletionExpected` (629) is not looked at, the message is not echoed and nothing is read any more. |
| abort | `BrokenFinalized` | A connection breaks, no close status can be had and the next `ReadFragment` fails: the request stays pending, the object in the map (638). |
| late_use | `DisconnectedFound` | A write callback or a notice comes after the object whose `connectionId` it tests was deleted (500). |
| retention | `Retention` | The test of `fs::remove` is inverted (`CLog.cpp` 78): of two rotations only one removes a file. |

**Why the bounds are enough.** *One connection, three threads*: a connection has
at most one reader (`OneReader`), so two threads more are what its write
callbacks need to overlap with it and with each other. Two messages make the
retry, the second read and an echo that follows a notice happen. *Two
connections*: the interesting meetings over the map are of two connections (both
insert, one iterates while the other erases, one writes to the other while that
is deleted), and of two threads; a thread can serve both connections in turn.
Messages would add nothing to the map and are left to the other runs. One
connection may break (`MaxBreaks`), at any moment: that takes its session through
every way of ending, the whole of the cleanup included, while the other goes
through the map, and leaves a request finished with a link that still takes
writes. A second one that leaves at the same time adds only two erases that meet;
for that, as for larger numbers, there are the theorems. Two texts (`MaxTold`)
let a loop over a corrupt map tell somebody twice. *Echo* leaves out breaks, slow and
failing writes, synchronous reads and fragments, because with any of them a
message is lost, as the runs above show or the code logs. *Files*: with 2 files
kept, 6 are three rounds of the removal, over at least one restart; `FlushLimit`
2 is reached within a file and across two. *Bodies* of 2 bytes allow reads of
1 + 1, of 2 and of 1 followed by a failure, with a NUL in either place; two
requests are what the warm-up needs to interleave. Requests meet only in the
warm-up, the log and the process, so one request of any kind (`Commands`) meets
a second one of the kinds that touch these; `MaxBody` and the uploads concern a
request alone. The warm-up is a flag in the run, the reading in which one
request can end what another began; `WarmupIsEnded` is proved for both. One
preload comes before the first request, with which it shares nothing. The page
needs two connections at a time and a third after them for each way in which an
old one ends late; with four timers a loop is restarted three times before its
first timer is due. The *client's* messages of 3
units against a buffer of 2 are the case that must not fit. A thread reads as
many messages as it sends, so what the service would tell it after 2 it does not
read.

No run checks for deadlock: connections, requests and files are bounded, so
every model comes to an end, and the code itself waits for clients. Threads that
wait for ever are what `ThreadsReturn` and `RequestCompletes` look for.

**Fairness.** `MyWebSocket!Fairness`: the system schedules every pool thread
(each step of a thread is weakly fair), and IIS completes every operation it has
accepted and calls its callback. That a client sends, closes or breaks is
never assumed, nor that a fault happens. A mutex needs no stronger fairness: a
thread that waits for one is waiting for a thread that holds it for finitely
many steps, and no client can make others take it again and again, because
messages are finite. In `ModuleLife` (`LifeFairSpec`) the system runs every
thread it has started: the handler of a request, the start of a detached thread
and its steps are weakly fair, each by itself. Sessions, clients, and a log that
throws owe nothing, and IIS need not stop. In `PageClient` the browser runs a
timer that is due (`WF_vars(Timer)`: an event loop takes its timers in turn);
clicks and the network owe nothing.

Every property is tested against a changed form of an action (a dropped guard, a
missing reset, a swapped order), which stands before the definition it changes
under the comment "A bug". These forms are not part of any specification.

## 4. The proofs

The theorems hold for all values of the constants that the named assumptions of
the modules allow: any finite set of connections, any set of threads, any bounds
and any `Env` (only `OneIsTold` has a condition on it).

**MyWebSocketProofs.** `TypeCorrect`, `ReadersExclusive`,
`DeletedObjectUses`, `RegistryListsLiveObjects`, `RequestFinishedOnce`,
`NothingWrittenAfterFinish`, `WebsocketsAreCounted`, `LocksDoNotNest`. None of the properties is inductive alone. That a
connection has one reader depends on IIS having no read outstanding while a
thread is between two reads (the lines `continuousReading` logs after its
`ReadFragment` excepted: there `readBuffer` is read while IIS or the callback may
change it); that a deleted object is used nowhere but in the five places of
`LateUsesOnly` depends on cleaning up being done by the reader, with the mutex
held; that nothing is written after the request
was finished depends on the mutex: a thread that is about to call
`WriteFragment` owns it, so the callback that finishes the request cannot
be inside `CleanupStoredContext`. `IInv` collects these facts: `FramesOK` (a
thread works on an object that was made), `MutexesOK` (who owns a mutex),
`UnreadOK` and `UnwrittenOK` (what is outstanding on which objects), `ConnsOK`
(the stages of a connection) and `StagesOK` (the stages of cleaning up). There is
one lemma per action, most by `QuietStep` or `ReaderStep`, which say what a step
must leave alone to preserve `IInv`.

Two more invariants rest on `IInv`. `CountInv`: the counter is the number of
objects less the number of threads in the rest of a cleanup, and these threads
are finitely many, which has to be part of the invariant because the pool need
not be finite. `OwnerInv`: who holds the mutex of an object is in a critical
section on it, the converse of `MutexesOK`. None of these sections takes another
lock or returns with the one it has (`NoWaitForWaiter`), so no cycle of threads
that wait for mutexes can exist, with any number of threads and objects. That is
the part of `ThreadsReturn` that is not about fairness.

**MyWebSocketSession.** `ImplementsEchoSession`: every step of `MyWebSocket` is
one of `EchoSession` or changes nothing a client sees. What has to be known of a
thread that is about to send is what it holds, so the invariant `TextInv`
follows the texts. `InboxOK`: fragments wait in the order in which they were
sent, and none is of a message that was echoed. `WaitsOK`: a read that is
outstanding was given empty buffers, and nobody was told of a connection that
was not opened. `Reads(t, c)`: what the buffers of `c` hold at each place where
a thread that reads from `c` can be; above all, a text that is about to be
echoed is one whole message, sent and not followed by an echo (`Due`), or is
empty because the connection broke. `Announces(t, c)`: who was told of `c` has
been passed by the iterator of the thread that announces `c`, so nobody is told
twice though the registry changes under the loop. `OneReader` of `IInv` is what
keeps other threads out of these buffers. There are two kinds of steps: those
that leave the texts of other connections alone (`LocalStep`, `OneConnStep`,
most of them) and the one that tells somebody something (`AcceptStep`). The step
simulation then maps that one to `Echo`, `Enter` or `Nothing` (`TellsSession`).

`EchoesInOrder` says it without `EchoSession`: in `accepted`, which is what
`WriteFragment` took, the echoes on one connection are of ever later messages
that were sent, and no notice comes twice.

`OneIsTold` is `NoticeReachesOne` for an `Env` without `writeFail` and
`slowWrite` (`OnTime`): with these a notice can be lost, and the property does
not hold. Everything else `Env` may
switch on stays; run `pair` has such an `Env`. The property speaks of a map that
is `intact`: of two inserts that met one may be lost, and then neither of the two
need be told. The invariant `NoticeInv` says of any
two keys of the registry that one was told of the other unless a thread has still
to do it (`Mutual`), and that every live object is in the registry or about to
enter it (`Listed`). It speaks of states in which all
links are up and the map is intact (`Undisturbed`); links do not come up again
(`LinksFall`) and the map does not mend, so it is enough that it is kept while
they are. `Severed` gives that nothing is cleaned up then: an
iterator never stands at an erased key, `++` leaves out no key (`NoneLater`: a
set of keys above the iterator that is not empty has a least one), and `Write`
never finds `connectionId` 0. The rest is the order of two steps of two threads:
of two that enter the registry the later one finds the other.

**CLogProofs.** `TypeCorrect`, `LossIsBounded`, `CurrentIsKept`,
`NoFileForgotten`, `LinesHavePrefix`, `OldestIsRemoved`. The invariant is the
conjunction of what they state, with `disk \subseteq 1..created`, and
`Ordered`: `listFiles` has the files of this process in the order of their
creation (and `BornFirst`: none is older than the process). The core is
`ListAfterKeeps`: the name that the inverted test drops is one whose file is
already gone, so that no file that exists is forgotten, though files
accumulate; with `Ordered` it follows that what is removed is the oldest.

**HttpModuleProofs.** `RequestCompletedOnce`, `CompletedContextUnused`,
`FinishedIsAnswered`, `WarmupIsEnded`, with a log that throws or not.
`RequestInv(r)` says who is to complete
request `r` and that it has happened exactly when `thread` is done or `session`
has indicated it; `CompletedContextUnused` follows, with the two places it
excepts;
`WarmupInv` says that, if the warm-up counts, it counts the requests that are in
it, and if it is a flag, somebody who has begun is still to end it.
`RequestInv` is per request: a lemma (`OneRequest`) reduces a step to the
request that takes it.

**HttpEntityProofs.** The data of the same steps: `HttpTypes` (the whole
`TypeOK`) and `BodyIsSetBack`, for bodies of any length. The invariant says that
what was read and what is left make up the body at every read, so nothing is
lost however `ReadEntityBody` splits it. `UpToNUL`, a choice, is dealt with by
what it returns (`UpToNULProperties`): a prefix of the body that ends before the
first `NUL`, which exists because the numbers are well-founded (`FirstNUL`); for
a body without one it is the whole body.

**ModuleLifeProofs.** `LifeImplementsHttpModule`: every step of `ModuleLife` is
a step of `HttpModule` or leaves its variables alone, so the theorems above hold
of requests in the life of a process, and their invariant is used here.
`LogIsOpenWhenWritten`, `ObjectsHaveOneOwner`, `StopCutsNothing`: `LifeInv`
says how far the log, the registration and the objects are in each state of the
process (`PhaseInv`, `OwnInv`, `PreloadInv`), and that a request without a live
`CMyHttpModule` in a process that no longer serves is completed (`ServedInv`,
`AllServed`). Together with `RequestInv`, which says who completes a request,
that leaves no thread and no session with a request to complete. What a session
does after that (`SessionCloses`) may be cut off.

**PageClientProofs.** `OneConnectionAtATime`, `LoopStaysAlive`,
`LoopsAreCounted`, `LabelIsRight`, for any number of connections. The invariant
adds that a timer which waits while the connection in `websocket` is connecting
was overtaken by `doConnect` or belongs to a loop that was started then: there is
no other way for `send` to throw.

**StressClientProofs.** All five invariants of the run, for any number of
threads and messages and any sizes: `TypeCorrect`, `EveryHandleClosedOnce`,
`BufferIsNotOverrun`, `SuccessMeansDone`, `NoAnswerAhead`. `ThreadInv(k)` says which handles thread `k` has open
(`HandlesInv`: a handle was closed once exactly when it was opened and its
variable is `NULL`), how many messages it has sent and received wherever it is
(`ProgressInv`), and that what it was told echoes only what was sent
(`ToldInv`). The last needs the service only not to echo what was not sent: a
thread sends message `n` after it received `n - 1`, so the `n`th thing it
receives cannot echo a later message. A step is reduced to the thread that
takes it (`OneThread`).

**Only model-checked.** What is temporal under fairness: `ThreadsReturn`,
`EchoEventually`, `CloseCompletes`, `RequestCompletes`, `LoopStops`. Liveness is
out of the prover's reach, and so are the counterexamples of the runs that
expect a violation. Every invariant and every action property of the passing
runs, and the refinement, is a theorem.

## 5. What is not modelled

* The polling reader: dead code, its only call is commented out
  (`mymodule.cpp:244`); `ReadFileChunk`: its only call is inside a comment
  (`myglobalmodule.cpp:162`). No state of the program is one of theirs.
* A throw of the log outside `OnBeginRequest`: it ends the process, and what a
  process that ends leaves behind is in `CLog.tla`. `MyWebSocket.tla` takes the
  log to return, in its constructor too, which counts the object up before its
  first log line (`mywebsocket.cpp:7`): if that throws, `websockets` stays up.
* What `IISHelpers` only formats for the log (`GetVariable`, `GetIpAddr`,
  `ErrorHandler`). A header that is missing is modelled where `OnBeginRequest`
  uses it (`HeaderMissing`), not in `continuousReading` (263), which declares its
  pointer without a value; nor is a key shorter than the 24 bytes `generate` reads.
* A first `ReadFragment` that completes in the call with a close flag
  (`mywebsocket.cpp:319`; `bConnectionClose` is only logged there).
* A process that is killed, or a module that is unloaded, while requests are
  under way, beyond what the log loses; an IIS thread that is ended while it
  holds the mutex of the log, which `DLL_PROCESS_DETACH` then waits for.
* Lengths of messages, and with them `strcpy` into the buffer of 1024 bytes; the
  byte by which the `strcpy` of `GetEntity` (`iishelpers.cpp:230`) may write past
  its buffer; the size the client zeroes its buffer with, which is a byte of it
  (`WinHttpWebSocket.cpp:388`); the file an upload is stored in; wording of
  anything.
* What `wmain` frees at its end: `WaitForMultipleObjects` is taken to wait for
  all threads, and nothing runs after it.
* What IIS does with a context between `IndicateCompletion` and
  `CancelOutstandingIO`, or when `IndicateCompletion` comes before
  `RQ_NOTIFICATION_PENDING`: not decided by this code. (`ContextLives` names the
  two places that use what belongs to a completed request.)
* Whether IIS copies the text of a `WriteFragment` before it returns
  (`mywebsocket.cpp:219` refills the buffer while an earlier write may be
  outstanding).
* What the page shows of texts and the single send of `doSend`;
  `websocket.html`, which has no state.
* The SHA-1 and base64 of the handshake, error texts, the build, the Microsoft
  sample server.

## 6. Plan

Done, in this order: the session and its abstract specification, the log, the
requests, the client; the proofs of the session's, the log's and the requests'
safety; the life of the process around the requests, with a log that throws, and
its proofs; the page and its proofs; the proofs of the client, and the rest of
the log's.

Then the data of the sessions and of the requests: the refinement of
`EchoSession`, step by step, and what it means for a client; the notices; the
counter; the locks; the body of a request.

What would come next: a log that throws inside a session, between its entry in
`g_ListWebSocket` and the first read; and safety lemmas under the liveness
properties that are left, as `LocksDoNotNest` is for `ThreadsReturn` (what a
state has to offer so that some step of the right kind can be taken).
