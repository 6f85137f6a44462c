# Jaxer in TLA+

Jaxer runs JavaScript pages on the server: a web server hands requests to the
*Jaxer Manager*, which hands each to one of a pool of *Jaxer* worker processes
(an embedded Mozilla engine that runs the pages). This directory specifies the
parts where things can go wrong in ways tests hardly reach: the manager, its
pool and its protocol with the workers; the lists it keeps them in; the service
by which the threads of a worker talk to the manager; the way of a request from
an Apache child to a worker and back; and the way of a log message to its file.

Paths below are under `src/server/src/mozilla/aptana/` unless they start with
`src/` or are one of: H `manager/impl.h`, D `manager/decl.h`, U
`manager/JaxerManagerUnix.cpp`, S `managerCmdService/aptManagerCmdService.cpp`,
R `Jaxer/aptMgrCmdReader.cpp`, C and F `mod_jaxer_connection.c` and
`mod_jaxer_filter.c` in `src/server/src/connectors/apache/apache-modules/mod_jaxer/`.

## 1. Inventory

| Component | State | Operations | Interacts with | Hard because |
|---|---|---|---|---|
| Jaxer Manager (H, D, U) | mode, counts, idle list, waiting list, a `Server` for each worker (callbacks, bound connection, last message sent, timers), the list of `Message`s, settings | accept, `RequestArrived`, `ServerStarted`, `RecvServerMsg`, `WakeupServer`, `DoPush`, `ProcessNeedRespCmd`, the one-second `TimedEventCallback`, administrator commands | web servers, workers, administrators, log server; sockets and libevent | callbacks in any order, deferred deletion, workers that die or hang, messages not yet sent, unsigned counters |
| Command service of a worker (`managerCmdService/`, R) | one command's fields, two locks, a monitor | `ExecNeedRespCmd`, `ExecNoRespCmd`, `ExecEndReqCmd`, `SetCmdRespData`, `NotifyPossibleCmdFailure` | page code on several threads, the reader thread, the manager | shared fields, lock order, lost notifications, answers without identity |
| Jaxer worker (`Jaxer/`) | `gJaxerState`, event queue, socket | `JaxerStartup`, `aptManagerEvent` handlers, the main loop, shutdown | manager, web server connection, the engine | two threads and a socket closed by one of them |
| Apache connector (C, F, `mod_jaxer_proc.c`) | a pool of connections, the negotiated version, the filter's context | begin a request, send a document and post data, read the answer, return the connection | web server, manager, worker | reuse of connections that died or are not empty, a filter that is not called again, two directions at once |
| Streams (`FCGXStream/`, `eh/`) | blocks of one connection | parse and write the connector protocol and HTTP | connector, document fetcher | order of post data and document, versions, partial reads |
| Document fetcher (`httpdocument/`) | one page load | callbacks of the engine | engine, framework | reentrant events |
| Log client and server (`JaxerLog/`) | a list of messages and a thread in each process; a FIFO with a lock; the log file, its size and its backups | append, open, lock, write, retry; read, write, rotate | manager, workers, file system | messages longer than a write, a server that is restarted while clients write, processes that die with the lock |
| Framework (`src/server/framework/`) | containers in a database, callbacks, caches | load, persist, invoke | worker, database | concurrent requests of one session |
| Windows manager (`manager/JaxerManagerWin32.cpp`), IIS and servlet connectors | as above | as above | as above | overlapped reads and writes |

What makes them correct, and what is stated of them here:

* a web server connection is in one place: watched, waiting, or bound to one
  worker; requests are served first come, first served, none waits beside an
  idle worker, and each waits not for ever;
* the idle list holds workers that are ready, longest idle first; the count is
  exact; the pool stays within `maxprocesses` and the purge within
  `minprocesses`;
* manager and worker agree on whose turn it is, whatever kills, crashes and
  timeouts come between; nothing follows an exit message; a preference or an
  exit is heard before more work, by every worker, once, in order, and no
  message is deleted while somebody remembers it;
* a reload and a stop end; a page cannot keep a connection for ever;
* of a worker's commands one is in progress, its answer reaches it, its
  callback runs once, and it ends; the two locks are taken without deadlock;
* a page runs at most once for a request although a request may be begun again
  on another connection; a request gets its own answer; a connection that
  goes back to the pool is clean or is noticed; worker and connector never wait
  for each other or misread each other;
* the messages that processes log are written whole, in order, once; nothing
  vanishes between client and server; files are rotated when they are large; a
  log server that dies is restarted, if that succeeds, and recovers.

`PROJECT.json` lists the hazards, each at its line, with the properties that
would catch it.

## 2. Modules

| Module | Contents |
|---|---|
| `JaxerManager` | the manager, its workers and its clients; properties |
| `RequestBroker` | what the manager promises the web server; `JaxerManager` implements it |
| `ManagerLists` | the linked idle list and the counted list of messages |
| `Mailboxes` | what `JaxerManager` takes for granted of these lists; `ManagerLists` implements it |
| `ManagerCmdService` | the command service of a worker; properties |
| `ConnectorSession` | connector, streams, worker and the manager's part between them; properties |
| `JaxerLog` | log clients, FIFO, log server; properties |
| `MC...` | sets and symmetries for TLC |
| `JaxerManagerSessions`, `-Placement`, `-Workers`, `ManagerListsProofs`, `ManagerCmdServiceProofs`, `JaxerLogProofs`, `ConnectorSessionProofs`, `ConnectorSessionStreams` | theorems, section 5 |

The modules fit together like this: `JaxerManager` models the manager with an
idle set and a mailbox for each server, and `ManagerLists` shows that the
linked lists of the code are those; its workers are abstract, and
`ManagerCmdService` has the inside of one of them, with a manager that does
what `JaxerManager` says of `RecvServerMsg` and `ProcessNeedRespCmd`;
`ConnectorSession` has the way of one request past the manager, which hands the
connection over as `RequestBroker` says; `JaxerLog` uses only the manager's tick.

A definition whose comment starts with "Faulty" is a plausible error of the
definition after it. The specification does not use it; `PROJECT.json` names
the property that catches it.

### JaxerManager

The manager is one thread, and libevent calls one handler at a time, so **one
handler is one action**. The manager's memory is one record `mgr`; a C++
function that changes it is an operator from record to record, and a handler
composes them in the order of the code. Each action does all that the handler
does, down to `CreateNewProcess` at the end of a tick.

| In the model | In the code |
|---|---|
| `mgr.phase` free, live, dying | slot without a `Server`; on `g_servers`; on `g_toDelete` (U 1509, 1933) |
| `mgr.started` | `m_onRecv` is `RecvServerMsg`, no longer `ServerStarted` |
| `mgr.armed` | the libevent registration, deleted by `event_del` in `SocketEventCallback` only |
| `mgr.onSend` | the callback that runs when the socket is writable; `none` when the events are `EV_READ` |
| `mgr.lastSent`, `mgr.queue` | `m_lastSent` and what `Message::Next` would find from there; `null` is a null pointer |
| `mgr.idle`, `mgr.idleTime` | the idle list; its order is that of the idle times (`HeadOfIdle`), ties in any order |
| `mgr.waiting`, `mgr.conn`, `mgr.bound` | `g_connFirst`.., and where a `Connection` is |
| `mgr.serverCount` | `g_serverCount`, modulo `CountWord` (2^32 in the code) |
| `inbox`, `outbox` | bytes in the socket pair, as messages |
| `proc` | what the worker process does: booting, idle, busy, asking, dead |
| `peer` | what the web server has done on a connection that the manager has not seen |

Handlers are `RequestArrived`, `NewConnection`, `ServerStarted`,
`RecvServerMsg`, `WakeupServer`, `DoPush`, `ProcessNeedRespCmd`, `Tick`
(`TimedEventCallback` with `DoPeriodic`, the deferred deletion and the creation
of a worker) and the commands `DoReload`, `DoRestart`, `DoStopCommand`,
`DoExit`, `DoPause`, `DoResume`, `SetPref`, `DoPing`. The environment is
`ClientRequest`, `ClientClose`, `WorkerStarts`, `WorkerDies`, `WorkerReads`,
`WorkerEnds`, `ExecNoRespCmd` and `ExecNeedRespCmd`: a worker may stop, hang or
die between any two handlers.

Bounds, all constants: `Servers` (slots for `Server` objects; a handler that
may fork waits for a free slot), `Connections`, `MaxPrefs`, `MaxCommands`,
`MaxCrashes`. `idleTime`, `belowMin` and `sincePing` stop counting above the
last value they are compared with, `nreq` at `MaxRequests`.

### RequestBroker

Three variables: connections that are watched, connections that wait, in order,
and the connection each worker was handed. A step accepts or refuses a
connection, hands a request to a worker or puts it last, hands the *first*
waiting request over, or ends what a worker was handed; a stop may dismiss all.
`JaxerManager!Broker` maps `mgr` to it; the manager may end several things in
one handler, which the broker allows only in the order of the waiting list.
A worker may be lost at any time with the connection it was handed; so the broker
also allows what happens after a restart, when the `END_REQUEST` of a server that
is already on `g_toDelete` is read and it is given a waiting connection, which the
next tick deletes with it (U 1935). No property forbids that.

### ManagerLists

One record `mem` with the pointers and counters of H 60-460: `g_idleServers`,
`m_nextIdle`, `g_idleCount`, `m_lastSent`, `s_first`, `s_last`, `next`,
`refcount`, `target`, `cancelled`. An address may be used again for another
object, so a stale pointer is a pointer to something else and not to nothing.
`Append` empties the idle list and builds it again while it walks the old links
(H 327); `CancelTarget` stops before the last message (H 399); messages that every
server has passed are deleted from the front (H 411); `RoundRobin` is the setting
`roundrobinjaxers`. `Mailboxes` has a sequence and a mailbox for each server
instead.

Left out: events of a removed server that arrive before it is deleted
(`ServerStarted` after a restart takes a reference that nobody gives back),
`g_minIdleCount`, which is in `JaxerManager`, and the list of Jaxers to debug.

### ManagerCmdService

Here several threads run, so **an action is the code between two points at
which another thread can interfere**: a lock, a monitor, the socket, or a
shared field read or written without a lock (`mCmdInProgress`, `mIsAsync`,
`mCallingThread`). `svc` holds the fields, both locks and the monitor; `pc` is
where each caller is; `reader` and `held` are the reader thread; `toManager`
and `toWorker` are the socket.

`of` in an answer and the variables `owner`, `called`, `failed` are history:
nothing in the code could read them. `PR_ExitMonitor` by a thread that is not
in the monitor does nothing
(`src/server/src/mozilla/nsprpub/pr/src/pthreads/ptsynch.c:553`); `PR_Wait` by
such a thread is undefined, and the model says nothing beyond the call.

`Habits` says which values of `bAsync` the callers of one process use. The
service mixes calls up when threads that wait and threads that do not call it at
the same time: it reads `mIsAsync` after the send, when it may belong to
another call (S 261), and `mCallingThread` after it has cleared
`mCmdInProgress` (S 358). Nothing under `src/` calls it from several threads in
that way, so the run takes what the service is used for: callers that all wait,
callers none of which waits, or one thread that issues every command and does as
it likes. Callers that do not wait process their events, as
`aptIManagerCmdService.idl:59` asks of them.

### ConnectorSession

One child of Apache with one pooled connection: **an action is the handling of
one block**, or of what the connector sends without reading in between. `ac` is
the connector (`jaxer_connection`, `jaxer_worker`, the filter's context and the
place in the code), `up` and `down` the two directions of each socket, `place`
where the manager has it, `wk` each worker with its `FCGXStream`. A block
remembers its request, which it does not in the code: that is what the
properties compare.

* The kinds of requests are those that differ in what is sent when: `get`,
  `post` (the worker asks for post data, before or after the end of the
  document), `options` (the connector does not read while it sends), `handler`
  and `handlerpost` (no document; F is not used, `mod_jaxer_proc.c` is).
* The three header blocks go together and are one block, `Headers`.
* A begin that fails on a pooled connection is repeated on a new one (C 1059);
  a refused version is tried again with the older one (C 390).
* After an error the filter is not called again; then, and when Apache drops a
  request in the middle of a document, the connection goes to the pool as it
  is. `spoilt` remembers such sockets.
* A socket that the other side has closed with something unread loses what
  came before (`Reset`), as TCP and local sockets do.
* `crashed` is a handler without a connection, which dereferences a null
  pointer (`mod_jaxer_proc.c:486`).

Left out: contents, the threads of one child (`worker->retry` and `use_proto`
are shared by them without a lock), requests for a marked Jaxer, sizes of
blocks, the IIS and servlet connectors, which send the same blocks.

### JaxerLog

**An action is one system call of a thread, with what follows up to the next.**
`client` has the thread of each `LogClient`, `queue` its list, `lock` the flock
on the FIFO, `pipe` what is in the FIFO, `server` the log server, `file`,
`closed` and `log` the log file, its backups and all that was ever written. A
message is `Length` chunks; a chunk is what one read of the log server takes.

Facts of the code that matter, all in the model: the FIFO is written with
`O_NDELAY`; when the tries are used up `m_bOK` is cleared, but `Write` does not
return and goes on with the same descriptor, which works again as soon as the
log server is back (`JaxerLog/logclient.h:588`); the kernel keeps what is in
the FIFO while anybody has it open; the process that ends waits ten seconds
for its thread and no longer; the log server dies with what it has read; `Init`
does not reset the size after a rotation at the start, so that the first write
rotates again (`JaxerLog/LogServerUnix.cpp:128`: the exception in
`RotatedWhenLarge`); a log server that cannot open the log file removes the
FIFO in its destructor, after which no restarted one finds it
(`LogServerUnix.cpp:80`: the excuse `~fifo` in `EveryMessageLogged`); when the
tick reaps the log server it sets the pid to -1 and ignores what
`CreateLogServer` returns, so that after one failure of `socketpair` or `fork`
the log server is never created again (`manager/JaxerManagerUnix.cpp:1966`:
`server.pc = "forgotten"`, the other excuse). A failed creation is not counted
among the faults: it can happen only once.
`src/server/distro/jam/jaxer/default_local_jaxer/conf/JaxerManager.cfg:33` has
the rotation happen only when the manager starts; the code rotates at once.

Left out: the first open by two threads at once (`logclient.h:345`), processes
that start later (`LogClient::Init` of a new worker makes a FIFO that was removed
again, `logclient.h:390`, while the descriptors of the others still lead to the
old one), the text that the log server itself writes into the file after a failed
rename (`LogServer.h:464`, perhaps between two reads of one message: what is said
of messages is said of the messages of the processes), piping to an external
program, which backup is replaced, the end of the log server with the manager,
`m_bFailedWrite`, Windows.

## 3. What the runs check

TLC explores every state of the instance.

| Run | Instance | Checked | States |
|---|---|---|---|
| `Pool` | 2 servers, 2 connections, min 1, max 2, `maxrequests` 1; reload, restart, stop, setpref, commands of pages, one crash | `TypeOK`, `Sessions`, `ConnectionPlacement`, `IdleSound`, `ExitIsFinal`, `ImplementsBroker`, `ToldBeforeWork` | 309,840 |
| `Workday` | 2 servers, 2 connections, pause and resume, failed starts, one crash, purge | `CountExact`, `PoolBounded`, `CallbacksArmed`, `BeliefSound`, `WorkConserving`, `PurgeKeepsMinimum` | 119,936 |
| `Lifecycle` | 2 servers, 1 connection, `requesttimeout` 1 with an extra 1; two of reload, restart, stop, exit, ping and requests for more time; fairness | `WaitingServed`, `BoundReleased`, `ReloadEndsOnceStarted`, `StopEndsOnceStarted` | 21,670 |
| `CmdService` | 2 callers, 2 commands with and 1 without response, 2 messages an answer; fairness | `TypeOK`, `OneCommand`, `AnswersReachTheirCommand`, `CalledWhenReady`, `LockOrder`, `CommandEnds` | 74,482 |
| `Connector` | 2 requests of any kinds, 2 document blocks, 2 workers (one of version 3), 3 sockets, one crash; fairness | `TypeOK`, `RunsOnce`, `OwnAnswer`, `NeverConfused`, `PooledClean`, `NoFailureWithoutCause`, `RequestEnds` | 146,342 |
| `LogServer` | 2 processes, 2 messages of 2 chunks, a FIFO of 2, files of 2, one try, one fault, one error text; fairness | `TypeOK`, `MessagesWhole`, `InOrder`, `NothingVanishes`, `RotatedWhenLarge`, `EveryMessageLogged` | 184,103 |
| `Lists` | 3 servers, 3 messages, 3 addresses, 1 preference | `TypeOK`, `IdleListSound`, `MessagesHeld`, `ImplementsMailboxes` | 238,760 |

Why the bounds are enough:

* `Pool`, `Workday`, `Lifecycle`: two workers are the least with one busy and
  one idle, one leaving and one starting, or a surplus over `minprocesses`; a
  third behaves like one of the two. Two connections are the least for a waiting
  list that is not empty while a worker is bound, and the broker compares the
  order of two. `MaxRequests` 1 gives a worker whose first request is its last; 0
  is no limit. `SecondsToLive` 1 or 2 instead of 10 keeps the order of the
  timers: only whether a timer expires before another event matters, and the
  tick can always come first. `CountWord` 8 is above every count that occurs,
  so a wrap is visible as a count of 7. `Workday` has two pauses or resumes, so
  that one follows the other with waiting requests in between. What needs
  three workers or more is covered by the theorems of section 5.
* `CmdService`: two commands are the least for one to disturb the other; three
  (991,091 states, more than a run has time for) show no difference.
* `Connector`: the second request finds what the first left in the connection,
  and every pair of kinds occurs. Two document blocks are the least with post
  data between them. With three sockets a request may lose the pooled one and
  its replacement and open another. One crash, at any point; a second one adds
  only failures that have a cause.
* `LogServer`: a FIFO of the length of one message makes a second message wait
  and a first stop in the middle; one try makes the first failure a retry and
  the second the end of the tries; a file of two chunks is rotated by the third.
  Two messages in all may be of one process or of two, which suffices for their
  order and for a mixture of two. One fault is a crash, a failed write or
  rotation, or a killed process, anywhere. The error text is bounded because a
  client that writes it into all the room there is would never go on.
* `Lists`: three servers, so that one may leave from between two others on the
  idle list; three addresses for messages, of which the third message reuses the
  first one.

Deadlock is checked in `Workday` and `Lists`, which go on for ever, and not where
the manager may exit, callers stop calling or nobody has to log.

**Fairness.** libevent reports every ready socket and the timer again until it
is handled, so each handler is weakly fair; the kernel runs every worker, so a
worker starts, and its reader thread reads what is sent. `WorkerEnds` is not
fair: a page may run for ever, which is what `requesttimeout` is for. Clients,
administrators and crashes are not fair. `Fairness` spells `ENABLED` out, with
`ServerReady` and the like, because TLC evaluates that faster. In
`ManagerCmdService` the threads, the reader and the manager are fair; starting
a call and the end of the manager are not. In `ConnectorSession` the child, the
manager and each worker are fair (a page that does not end is killed by
`requesttimeout`); giving up, crashes and asking for post data are choices. In
`JaxerLog` each log thread, the log server, the end of a process that waits for
its thread and the manager's tick are fair; appending, ending and failing are
not. Weak fairness is enough throughout: nothing has to win a race again and
again.

`ReloadEndsOnceStarted` and `StopEndsOnceStarted` assume that no worker is
still starting when the command comes; section 4 says why. `WaitingServed`
assumes `minprocesses` of at least 1 (see the hazards) and that the
administrator does not stop or pause for good.

## 4. What the runs found

Each of these runs violates one property, which a comment in the code states.

* `SlowStart`, `ReloadEnds` (D 601). A reload gives every worker ten seconds,
  also one that has not reported in. Killed, it is removed from a count it was
  never part of: `g_serverCount` wraps, `g_processCreationPending` stays set and
  the reload never ends.
* `LastRequest`, `SlaughterOnlyTheTold` (H 1333). On the last request that
  `maxrequests` allows the ten seconds start with the request (H 141), so a page
  longer than that is killed; the worker is told to exit only after it.
* `Restart`, `CallbacksArmed` (U 1933). A restart clears `m_lastSent` of a worker
  whose write event stays registered; `DoPush` dereferences it (U 791).
* `RoundRobin`, `RemovedFromIdleList` (H 230, "Remove from idle list, if on
  it."). With `roundrobinjaxers` off, `RemoveServer` of the first server on the
  idle list takes the last one off; the first stays on it and is deleted. The
  setting is on by default.
* `Downgrade`, `OlderVersionServes` (`mod_jaxer_connection.h:81`). After a
  downgrade the reply is compared with the newest version (C 412) and not with
  the one that was asked for, so a Jaxer that accepts the older version is
  refused for good.

## 5. What is proved

The theorems about `JaxerManager` hold for every number of servers and
connections and every value of the settings that `PoolAssumption`,
`TimerAssumption` and `BoundAssumption` admit (types, `MinServers <= MaxServers`,
finitely many servers); those about `ManagerCmdService` for every finite set of
threads, any mixture of threads that wait and threads that do not, and all bounds
(`CommandAssumption`), except that `CallbacksWhenReady` and `LocksInOrder` assume
that no two different callers have different habits (`Agree`): with a caller that
waits and another that does not, TLC finds `CalledWhenReady` violated, and nothing
under `src/` calls the service in that way (section 2); those about `JaxerLog` for
every finite set of processes and every size of messages, FIFO and files
(`LogAssumption`); those about `ConnectorSession` for any sockets, workers, mixture
of versions, kinds of requests, and numbers of requests, blocks and crashes
(`SessionAssumption`).

The theorems about `ManagerLists` are for every finite set of servers, every number
of addresses, messages and preferences (`ListAssumption`), and for the setting
`roundrobinjaxers` on, its default (D 369): with it off, the lists are not sound
(`RoundRobin`, section 4).

Four theorems about `JaxerManager` have hypotheses, each of which is needed or is
what the code is built with:

* No command is `restart`, and `[]Unhurried`: no worker that is starting is given a
  time to live, which only a reload or a stop at that moment does (a worker that
  has not reported in has no last request, and the purge tells idle ones). Both
  are what the code gets wrong: `SlowStart` and `Restart` (section 4) show what
  happens without them. Everything else is allowed:
  reload, stop, exit, pause, failed starts, crashes, timeouts.
* `MaxServers < CountWord`: the pool fits the 32 bits of `g_serverCount`.
* `MinServers > 0 => Servers # {}`: a manager that wants workers has a slot.
* `SecondsToLive <= IdleBase + 1`, for the purge: both are 10 (D 383, D 437).

| Theorem | Module | Says |
|---|---|---|
| `TypeCorrect` | `JaxerManagerSessions` | `Spec => []TypeOK` |
| `SessionsAgree` | `JaxerManagerSessions` | `Spec => []Sessions` |
| `IdleServersAreReady` | `JaxerManagerSessions` | `Spec => []IdleSound` |
| `NothingAfterExit` | `JaxerManagerSessions` | `Spec => []ExitIsFinal` |
| `ManagerIsRight` | `JaxerManagerSessions` | `Spec => []BeliefSound` |
| `ConnectionsInOnePlace` | `JaxerManagerPlacement` | `Spec => []ConnectionPlacement` |
| `ManagerImplementsBroker` | `JaxerManagerPlacement` | `Spec => Broker!Spec` |
| `BrokerKeepsPlaces` | `JaxerManagerPlacement` | the broker's own invariant, carried over |
| `WorkIsConserved` | `JaxerManagerPlacement` | `Spec => []WorkConserving` |
| `CountIsExact` | `JaxerManagerWorkers` | no restart, `[]Unhurried`: `[]CountExact` |
| `PoolStaysBounded` | `JaxerManagerWorkers` | the same: `[]PoolBounded` |
| `PurgeKeepsPool` | `JaxerManagerWorkers` | the same and `SecondsToLive <= IdleBase + 1`: `PurgeKeepsMinimum` |
| `CallbacksStayArmed` | `JaxerManagerWorkers` | no restart: `Spec => []CallbacksArmed` |
| `MessagesBeforeWork` | `JaxerManagerWorkers` | `Spec => ToldBeforeWork` |
| `ListsTypeCorrect` | `ManagerListsProofs` | round robin: `Spec => []TypeOK` |
| `IdleListIsSound` | `ManagerListsProofs` | round robin: `Spec => []IdleListSound` |
| `MessagesAreHeld` | `ManagerListsProofs` | round robin: `Spec => []MessagesHeld` |
| `RemovedAreOffTheList` | `ManagerListsProofs` | round robin: `Spec => []RemovedFromIdleList` |
| `TypeCorrect` | `ManagerCmdServiceProofs` | `Spec => []TypeOK` |
| `OneAtATime` | `ManagerCmdServiceProofs` | `Spec => []OneCommand` |
| `AnswersMatch` | `ManagerCmdServiceProofs` | `Spec => []AnswersReachTheirCommand` |
| `CallbacksWhenReady` | `ManagerCmdServiceProofs` | callers agree: `Spec => []CalledWhenReady` |
| `LocksInOrder` | `ManagerCmdServiceProofs` | callers agree: `Spec => []LockOrder` |
| `LogTypesCorrect` | `JaxerLogProofs` | `Spec => []TypeOK` |
| `MessagesStayWhole` | `JaxerLogProofs` | `Spec => []MessagesWhole` |
| `MessagesStayInOrder` | `JaxerLogProofs` | `Spec => []InOrder` |
| `NothingWrittenVanishes` | `JaxerLogProofs` | `Spec => []NothingVanishes` |
| `OnlyLargeFilesRotated` | `JaxerLogProofs` | `Spec => []RotatedWhenLarge` |
| `TypeCorrect` | `ConnectorSessionProofs` | `Spec => []TypeOK` |
| `AnswersAreOwn` | `ConnectorSessionProofs` | `Spec => []OwnAnswer` |
| `PagesRunOnce` | `ConnectorSessionProofs` | `Spec => []RunsOnce` |
| `WorkersUnderstand` | `ConnectorSessionStreams` | `Spec => []NeverConfused` |
| `PoolIsClean` | `ConnectorSessionStreams` | `Spec => []PooledClean` |
| `FailuresHaveCause` | `ConnectorSessionStreams` | `Spec => NoFailureWithoutCause` |

**TypeCorrect.** `TypeOK` is inductive. The record `mgr` changes through
operators, so there is one lemma for each operator, saying that it takes
`Memory` to `Memory`, and one for each action, which composes them.

**SessionsAgree.** Neither `IdleSound` nor `ExitIsFinal` is inductive: whether
an idle server stays sound depends on what may still be in the sockets. The
strengthening is `Sessions`. For each server it lists the seven situations of a
session (unused, starting, resting, serving, answering, leaving, failed), each a
condition on the manager's memory of that server *and* on the worker and the two
sockets. `TypeOK /\ Sessions` is inductive. Two kinds of lemma carry the proof:
an operator that does not touch what `Session` reads of a server keeps its
situation, and an operator that does moves it from one situation to a named
other. Every action is then a case over the situations of the server it acts on,
plus the lemma that the others keep theirs. `IdleSound`, `ExitIsFinal` and
`BeliefSound` follow from `Sessions` without further induction.

**ConnectionsInOnePlace, ManagerImplementsBroker.** Both come from one case
analysis. A *move* is what a step may do to the three places a connection can be
in (accepted, dismissed, enqueued, handed over, released, ...). Each operator's
lemma says which moves it makes, and each action's lemma chains them; that a move
keeps every connection in one place, and that a move is a step of the broker, is
then shown once for each move. `Sessions` is needed to know that a server that is
handed a connection had none.

**WorkIsConserved.** Most operators are *still*: nobody becomes idle and nobody
begins to wait. The few that are not (a worker becomes idle, a request is
enqueued, a resume pairs the two lists) do so when the other list is empty, or
until it is. A stop of a paused manager, which may have both lists full, empties
the idle list.

**CountIsExact, PoolStaysBounded.** `CountExact` is not inductive: whether a worker
that reports in, fails or is deleted is counted rightly depends on how many may be
starting, and that on `g_processCreationPending` and its delay. `Counted` ties
them: those reported in are counted, at most one worker starts, and the flag is up
exactly while one starts or a delay runs, never both. Most operators are
*routine*: workers neither come nor go, and the idle list and the timers keep
their order (`Routine`); a handler that removes a worker is `Orderly`. The lemmas
about the rest say what they do to the cardinalities: a fork adds one that
starts, a failed start is counted and removed, a kill takes off the count those
that were on it. The tick is the only step that kills several at once; that none
of them is starting is `Unhurried`. The bound `maxprocesses` then follows at the fork,
which sees a count that is exact and nobody starting.

**PurgeKeepsPool.** The purge tells a worker to exit when `g_serverCount` is above
`minprocesses`, but the count has those told before. That there is none is a
matter of time: telling one resets the idle times of all, so that nobody on the
idle list has been there longer than a worker has been on its way out (`Timed`),
and a worker idles out after that one is gone.

**CallbacksStayArmed.** A callback without its argument is excluded by the
situations of `Sessions`, except for a worker that is being deleted: the
invariant `Disarmed` says that without a restart it has no event left. That no other
operator crashes the manager is `Sane`.

**MessagesBeforeWork.** What an operator may do to a server that gets a connection is
`Employs`: it had no message waiting and has at most the exit that its last
request adds, and then `maxrequests` are used up. `AssignServers` does this to servers
without messages; the five handlers that reach it find a server so because it is
on the idle list (`IdleSound`), has nothing left to take (`HasNext`) or was never
addressed (`Silent`: a server that is sent nothing has nothing waiting).

**IdleListIsSound, MessagesAreHeld.** The code walks along `m_nextIdle` and `m_next`,
and `Chain` is such a walk, defined by recursion. `ChainIs` shows once that a
walk meets a sequence `q` whenever `q` is `Linked`: from each of its different
elements to the next, and from the last to null. (The step from `n` to `n + 1` is
`Induct`, which comes from numbers being well founded; `Recursion` is the same for
the loops of `Append` and `BringUpToDate`.) From there on the proofs are about
sequences: adding a server appends, removing one leaves it out, whatever stale
links lie about. The invariant `Sound` says that such a sequence exists for either
list, that the idle list has the idle servers, and that every reference count is
the number of servers that remember the message (`Held`). The loop of `Append`
takes the idle list apart and puts it together again while it moves servers on in
the list of messages; `Waking` is its invariant after `k` servers. `Joined` ties
the two halves: a server has a message it was sent last exactly while it is
started and not removed.

**OneAtATime, AnswersMatch.** `mCmdInProgress` is cleared by three kinds of
threads (a sender that fails, the reader, the thread that ran a callback), none of
which checks that it clears its own command's flag. The strengthening
`ServiceInv` says that while the reader listens, a command in progress is in
exactly one stage: with its sender, with the manager, on its way back, with the
reader, or with the thread that runs its callback. So whoever clears the flag is
the only stage there is, and when the flag is down there is none (`AcceptCmd` then
makes one). `mCmdLock` carries the second check over to the assignment
(`Exclusive`). The single stage does not survive the end of the manager: the
reader then reports the failure while a thread may be sending. `Closing` covers
this: nothing is written any more, the reader reads no further answer, and what
is left in the socket belongs to one command.

**CallbacksWhenReady, LocksInOrder.** When callers agree, the shared fields a
thread reads too late (`mIsAsync`, `mCallingThread`) still say what it needs:
either nobody waits, or somebody does and then only one command is in the
service, whether the manager is there or not (`HabitInv`). On top of it
`CallbackInv` follows one response from the reader, which fills it, to the one
place from which it is given away, an event or the caller that is woken: until
then it is not called (`NotYet`), there are not two such places (`Once`,
`PostedOnce`), and it is complete (`Filled`).

**MessagesStayWhole, MessagesStayInOrder.** The *trail* is the log, what the log
server has read and what is in the FIFO, end to end. Every step hands chunks on
(the trail is the same), loses some (it gets thinner: there is an increasing map
of the positions left to the positions there were), or adds chunks of the
message of the process that holds the lock. Any statement about all pairs or
triples of positions survives the first two, so that only the third is left. For
it the invariant needs two things more: nothing in the trail is newer than what
its process has written (`BoundedIn`), and nothing comes after the current
message of the holder of the lock (`LatestIn`). That the lock is held exactly
while a thread writes, that its list continues its current message, and that
this one is complete when it takes another, is `Threads`.

**NothingWrittenVanishes.** What is held (trail and losses) only grows, and what
has been written grows only by what a step puts into the FIFO; `Threads` is needed
where a thread takes its next message.

**OnlyLargeFilesRotated.** While the log server runs, it knows the size of the
file, knows that it does not, or has rotated when it started and counts on
(`SizeKnown`).

**AnswersAreOwn, PagesRunOnce.** A block does not name its request, so the proof
has to find out whose it is from where it is. `Base` says who holds a connection:
the connector, the manager or one worker, and nobody else writes to it
(`Held`). `Agreement` says that what the connector reads after a good reply was
written after the begin that the reply answers: the begin is the last thing in
its direction, the reply the last in the other, and once it was read everything
that comes is of this request. For `RunsOnce` the invariant adds that the headers
of a request are sent once, on the connection that was agreed on, and that a page
runs only for headers that were read (`Coming`): a begin may be repeated, its
headers are not.

**WorkersUnderstand, PoolIsClean, FailuresHaveCause.** `Conversation` is the
protocol between connector and worker, as an invariant of the connections on
which no request was given up: what is on its way to a worker can follow what the
worker has read (`Told`), and connector, both directions and worker fit together
(`Coupled`): given what the connector did last, the blocks in the two directions
determine what the worker has still to do. `AtWork`, `LastWord` and `Quiet` are
its ends: somebody is there to answer, nothing follows the end of an answer, a
connection in the pool is at rest. The conversation on a spoilt connection is
not described at all, as it need not be: it is noticed while the next request
begins, which is what `Agreement` shows.

Only model-checked, and why:

* `CountExact`, `PoolBounded` and `CallbacksArmed` with a slow start or a restart: they
  do not hold (section 4).
* That `ManagerLists` implements `Mailboxes`: a mailbox is what `SelectSeq` selects
  from the list, and the provers know nothing of that operator.
* `RemovedFromIdleList` with round robin off: it does not hold (section 4).
* Everything under fairness: liveness and `ENABLED` are out of the prover's reach.

## 6. Not modelled

* Of the manager: Jaxers marked for debugging and their requests (H 2017 is a
  hazard without a property for that reason); a page's own `maxrequests`; changes
  of `minprocesses` and `maxprocesses` while running (H 1311); parsing of
  commands and the contents of messages (H 435); configuration sent to workers
  (compiled out); the memory limit of the macOS build. `pingtimeout` is modelled
  and 0 in every run (H 1368).
* In `JaxerManager` an answer to a command is one message and a worker has one
  command at a time; `ManagerCmdService` has the rest.
* Of the command service: the exit message while a command is in progress (the
  manager sends it to free workers only), spurious wakeups of `PR_Wait`, contents.
* Of the worker: its own shutdown. A worker that leaves after a request it
  could not begin (`Jaxer/aptManagerEvent.cpp:37`) closes the socket and joins
  the reader thread, which may still be blocked in `recvmsg`
  (`Jaxer/Jaxer.cpp:1059`); to the manager this is a worker that hangs.
* What section 2 names under each module.
* Document fetcher beyond its order of reading, running and answering; worker
  services; the framework; the Windows manager; IIS and servlet connectors;
  launcher, tools and installers, which keep no state.
* Vendored code, which is most of this repository by far (Mozilla, MySQL, Apache
  httpd, libevent). It is not Jaxer's own logic. What the code takes from it
  (`PR_Wait`, `PR_ExitMonitor`, libevent's registration, sockets, FIFOs and flock)
  is modelled from its use.

## 7. Plan

Done: `JaxerManager`, `ManagerCmdService`, `RequestBroker`, `ManagerLists` with
`Mailboxes`, `ConnectorSession`, `JaxerLog`, and the proofs of section 5.

Left, in order of importance:

1. `JaxerWorker`: main thread, reader thread, event queue, shutdown. It implements
   the worker that `JaxerManager` assumes; hazard `Jaxer/Jaxer.cpp:1059`.
2. Debugging Jaxers; settings that change while running; a watchdog run with
   `pingtimeout` and `startjaxertimeout`.
3. Several threads of one Apache child; the first open of the FIFO.
4. `SessionContainer` and `PageCache` of the framework.
