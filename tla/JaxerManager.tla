---------------------------- MODULE JaxerManager ----------------------------
(***************************************************************************)
(* The Jaxer Manager: the process that owns the web server connections and *)
(* a pool of Jaxer worker processes, gives each request to one worker,     *)
(* tells workers to exit, and replaces them.                               *)
(*                                                                         *)
(* The manager is single threaded: libevent calls one handler at a time.   *)
(* Its whole memory is one record, mgr; a C++ function that changes it is  *)
(* an operator from the record before the call to the record after it, and *)
(* a handler is one action that composes them in the order of the code.    *)
(* Workers, sockets and clients are the environment: they move between any *)
(* two handlers.                                                           *)
(*                                                                         *)
(* Settings modelled: round robin on (its default); no Jaxer is marked for *)
(* debugging.                                                              *)
(*                                                                         *)
(* A definition whose comment starts with "Faulty" is a plausible error in *)
(* the one after it; the specification does not use it.                    *)
(***************************************************************************)
EXTENDS Integers, Sequences, FiniteSets

CONSTANTS
  Servers,        \* slots for Server objects; a slot is reused after delete
  Connections,    \* sockets a web server may open to the manager
  NoConnection,   \* the null m_boundConnection
  MinServers,     \* setting minprocesses
  MaxServers,     \* setting maxprocesses
  MaxRequests,    \* setting maxrequests, 0 for no limit
  RequestTimeout, \* setting requesttimeout, 0 for none
  ExtraTimeout,   \* the requesttimeoutextra a page may ask for
  StartTimeout,   \* setting startjaxertimeout, 0 for none
  PingTimeout,    \* setting pingtimeout, 0 for none
  IdleBase,       \* g_IdleBase
  IdleFactor,     \* g_IdleFactor
  SecondsToLive,  \* SECONDS_TO_LIVE, 10 in the code
  StartDelay,     \* ticks before retrying a failed creation, 5 in the code
  CountWord,      \* unsigned arithmetic is modulo this, 2^32 in the code
  Commands,       \* administrator and page commands used in this instance
  MaxPrefs,       \* bound: distinct preferences set
  MaxCommands,    \* bound: administrator commands issued
  MaxCrashes      \* bound: workers that die or fail on their own

ASSUME PoolAssumption ==
  /\ IsFiniteSet(Servers)
  /\ NoConnection \notin Connections
  /\ MinServers \in Nat
  /\ MaxServers \in Nat
  /\ MinServers <= MaxServers
  /\ MaxRequests \in Nat

ASSUME TimerAssumption ==
  /\ RequestTimeout \in Nat
  /\ ExtraTimeout \in Nat
  /\ StartTimeout \in Nat
  /\ PingTimeout \in Nat
  /\ IdleBase \in Nat
  /\ IdleFactor \in Nat
  /\ SecondsToLive \in Nat \ {0}
  /\ StartDelay \in Nat \ {0}

ASSUME BoundAssumption ==
  /\ CountWord \in Nat \ {0}
  /\ MaxPrefs \in Nat
  /\ MaxCommands \in Nat
  /\ MaxCrashes \in Nat

VARIABLES
  mgr,      \* the manager's memory
  proc,     \* what the worker process of each slot is doing
  inbox,    \* bytes from the manager to each worker, as messages
  outbox,   \* bytes from each worker to the manager, as messages
  peer,     \* what the web server has done on each connection
  spent     \* how much of MaxCommands and MaxCrashes is used up

vars == <<mgr, proc, inbox, outbox, peer, spent>>
world == <<proc, inbox, outbox>>

Lesser(a, b) == IF a < b THEN a ELSE b

-----------------------------------------------------------------------------
(* The manager's memory.                                                   *)

Modes == {"running", "paused", "reloading", "stopping"}
Kinds == {"pref", "exit"}
Callbacks == {"none", "WakeupServer", "DoPush", "ProcessNeedRespCmd"}

\* idleTime stops counting here, above every limit it is compared with.
IdleTimeBound == IdleBase + IdleFactor * MaxServers + 1

Memory ==
  [ process     : {"up", "exited", "crashed"},
    mode        : Modes,
    serverCount : 0..CountWord-1,
    pending     : BOOLEAN,                  \* g_processCreationPending
    delay       : 0..StartDelay,            \* g_processCreationDelay
    belowMin    : Nat,                      \* g_elapsedTimeServerBelowMin
    sincePing   : Nat,                      \* g_secsSinceLastPing
    minIdle     : Nat,                      \* g_minIdleCount
    prefs       : Nat,                      \* g_PrefSettings.size()
    phase       : [Servers -> {"free", "live", "dying"}],
    started     : [Servers -> BOOLEAN],     \* m_onRecv is RecvServerMsg
    armed       : [Servers -> BOOLEAN],     \* m_ev is registered
    onSend      : [Servers -> Callbacks],
    bound       : [Servers -> Connections \cup {NoConnection}],
    lastSent    : [Servers -> Kinds \cup {"null", "none"}],
    queue       : [Servers -> Seq(Kinds)],  \* what Message::Next has to give
    exiting     : [Servers -> BOOLEAN],
    ttl         : [Servers -> Int],         \* m_secondsToLive
    age         : [Servers -> Nat],         \* m_secsSinceRequestStart
    extra       : [Servers -> Nat],         \* m_requestTimeoutExtra
    nreq        : [Servers -> Nat],         \* m_nRequests
    idleTime    : [Servers -> Nat],
    idle        : SUBSET Servers,
    waiting     : Seq(Connections),
    conn        : [Connections -> {"none", "looking", "waiting", "bound"}] ]

Each(v) == [s \in Servers |-> v]

InitMemory ==
  [ process |-> "up", mode |-> "running", serverCount |-> 0,
    pending |-> FALSE, delay |-> 0, belowMin |-> 0, sincePing |-> 0,
    minIdle |-> 0, prefs |-> 0,
    phase |-> Each("free"), started |-> Each(FALSE), armed |-> Each(TRUE),
    onSend |-> Each("none"), bound |-> Each(NoConnection),
    lastSent |-> Each("null"), queue |-> Each(<<>>), exiting |-> Each(FALSE),
    ttl |-> Each(-1), age |-> Each(0), extra |-> Each(0), nreq |-> Each(0),
    idleTime |-> Each(0), idle |-> {}, waiting |-> <<>>,
    conn |-> [c \in Connections |-> "none"] ]

Live(m) == {s \in Servers : m.phase[s] = "live"}
Dying(m) == {s \in Servers : m.phase[s] = "dying"}
Free(m) == {s \in Servers : m.phase[s] = "free"}

-----------------------------------------------------------------------------
(* Messages to workers: class Message, seen from each server.  lastSent is *)
(* the message DoPush sends next, queue the ones Next would still give.    *)

\* Message::CancelTarget, and the unlinking RemoveServer does around it, for
\* every server of K at once.
RemoveServers(m, K) ==
  [m EXCEPT
    !.idle = @ \ K,
    !.minIdle = Lesser(@, Cardinality(m.idle \ K)),
    !.lastSent = [s \in Servers |-> IF s \in K THEN "null" ELSE @[s]],
    !.queue = [s \in Servers |-> IF s \in K THEN <<>> ELSE @[s]],
    !.serverCount = (@ - Cardinality(K)) % CountWord]

\* KillServer for the servers of K: a second kill of one does nothing.
KillServers(m, K) ==
  [RemoveServers(m, K \ Dying(m)) EXCEPT
    !.phase = [s \in Servers |-> IF s \in K THEN "dying" ELSE @[s]]]

\* Faulty: the servers put back on the idle list keep their idle time.
AppendMessageKeepingTimes(m, kind, T) ==
  LET sent  == {s \in T : m.lastSent[s] # "null"}
      woken == m.idle \cap sent
  IN  [m EXCEPT
        !.queue = [s \in Servers |->
                     IF s \in sent \ woken THEN Append(@[s], kind) ELSE @[s]],
        !.lastSent = [s \in Servers |-> IF s \in woken THEN kind ELSE @[s]],
        !.onSend = [s \in Servers |-> IF s \in woken THEN "DoPush" ELSE @[s]],
        !.idle = @ \ woken,
        !.minIdle = Lesser(@, Cardinality(m.idle \ woken))]

\* Message::Append of one message for the servers of T.  Idle servers with
\* something to read start pushing it; the others rejoin the idle list, which
\* resets their idle time.
AppendMessage(m, kind, T) ==
  LET sent  == {s \in T : m.lastSent[s] # "null"}
      woken == m.idle \cap sent
  IN  [m EXCEPT
        !.queue = [s \in Servers |->
                     IF s \in sent \ woken THEN Append(@[s], kind) ELSE @[s]],
        !.lastSent = [s \in Servers |-> IF s \in woken THEN kind ELSE @[s]],
        !.onSend = [s \in Servers |-> IF s \in woken THEN "DoPush" ELSE @[s]],
        !.idle = @ \ woken,
        !.idleTime = [s \in Servers |-> IF s \in m.idle \ woken THEN 0 ELSE @[s]],
        !.minIdle = Lesser(@, Cardinality(m.idle \ woken))]

\* Message::BringUpToDate: nothing of the past, then every preference set so
\* far, each appended for this server alone.
BringUpToDate(m, s) ==
  [m EXCEPT
    !.lastSent[s] = "none",
    !.queue[s] = [i \in 1..m.prefs |-> "pref"],
    !.idleTime = [x \in Servers |->
                    IF m.prefs > 0 /\ x \in m.idle THEN 0 ELSE @[x]]]

HasNext(m, s) == m.lastSent[s] # "null" /\ m.queue[s] # <<>>

\* Message::Next when there is one.
TakeNext(m, s) ==
  [m EXCEPT !.lastSent[s] = Head(m.queue[s]), !.queue[s] = Tail(@)]

StopAllServers(m) ==
  [AppendMessage(m, "exit", Servers) EXCEPT
    !.ttl = [s \in Servers |->
               IF m.phase[s] = "live" /\ @[s] = -1 THEN SecondsToLive ELSE @[s]]]

-----------------------------------------------------------------------------
(* Giving connections to servers.                                          *)

\* Faulty: takes servers that are being deleted.
AddAnyServer(m, s) == [m EXCEPT !.idle = @ \cup {s}, !.idleTime[s] = 0]

AddIdleServer(m, s) ==
  IF m.phase[s] = "dying" THEN m
  ELSE [m EXCEPT !.idle = @ \cup {s}, !.idleTime[s] = 0]

GetIdleServers(m, S) ==
  [m EXCEPT !.idle = @ \ S, !.minIdle = Lesser(@, Cardinality(m.idle \ S))]

\* ResetOnNewRequest and BindToConnection, of to[s] for each s of S.
BindServers(m, S, to) ==
  [m EXCEPT
    !.extra = [s \in Servers |-> IF s \in S THEN 0 ELSE @[s]],
    !.bound = [s \in Servers |-> IF s \in S THEN to[s] ELSE @[s]],
    !.age = [s \in Servers |-> IF s \in S THEN 0 ELSE @[s]],
    !.nreq = [s \in Servers |-> IF s \in S THEN Lesser(@[s] + 1, MaxRequests) ELSE @[s]],
    !.onSend = [s \in Servers |-> IF s \in S THEN "WakeupServer" ELSE @[s]],
    !.conn = [c \in Connections |-> IF \E s \in S : to[s] = c THEN "bound" ELSE @[c]]]

\* CountRequest: the exit message of a last request waits until s is free again.
LastRequest(m, S) == {s \in S : MaxRequests > 0 /\ m.nreq[s] >= MaxRequests}
CountRequests(m, S) ==
  LET last == LastRequest(m, S)
      told == [m EXCEPT
                !.ttl = [s \in Servers |-> IF s \in last THEN SecondsToLive ELSE @[s]]]
  IN  IF last = {} THEN m ELSE AppendMessage(told, "exit", last)

AssignServers(m, S, to) == CountRequests(BindServers(m, S, to), S)
AssignServer(m, s, c) == AssignServers(m, {s}, [x \in {s} |-> c])

\* Faulty: the connection stays on the waiting list.
GiveWorkTwice(m, s) ==
  IF m.waiting # <<>> /\ m.mode # "paused"
  THEN AssignServer(m, s, Head(m.waiting)) ELSE AddIdleServer(m, s)

\* Faulty: takes the newest connection.
GiveNewestWork(m, s) ==
  LET n == Len(m.waiting)
  IN  IF n > 0 /\ m.mode # "paused"
      THEN AssignServer([m EXCEPT !.waiting = SubSeq(@, 1, n - 1)], s, m.waiting[n])
      ELSE AddIdleServer(m, s)

\* The end of RedeployServer and of DoPush: the next waiting connection
\* unless paused, otherwise the idle list.
GiveWork(m, s) ==
  IF m.waiting # <<>> /\ m.mode # "paused"
  THEN AssignServer([m EXCEPT !.waiting = Tail(@)], s, Head(m.waiting))
  ELSE AddIdleServer(m, s)

\* The connection goes back to LookForNewRequest.
Unbind(m, s) ==
  IF m.bound[s] = NoConnection THEN m
  ELSE [m EXCEPT !.bound[s] = NoConnection, !.conn[m.bound[s]] = "looking"]

\* Faulty: work before messages.
RedeployToWorkFirst(m, s) ==
  LET u == Unbind(m, s)
  IN  IF HasNext(u, s) /\ u.waiting = <<>>
      THEN [TakeNext(u, s) EXCEPT !.onSend[s] = "DoPush"]
      ELSE GiveWork(u, s)

\* Faulty: the server keeps its connection.
RedeployStillBound(m, s) ==
  IF HasNext(m, s)
  THEN [TakeNext(m, s) EXCEPT !.onSend[s] = "DoPush"]
  ELSE GiveWork(m, s)

RedeployServer(m, s) ==
  LET u == Unbind(m, s)
  IN  IF HasNext(u, s)
      THEN [TakeNext(u, s) EXCEPT !.onSend[s] = "DoPush"]
      ELSE GiveWork(u, s)

\* Faulty: does not wait for the worker that is starting.
CreationAllowedAtOnce(m) == m.serverCount < MaxServers /\ m.mode = "running"

ProcessCreationAllowed(m) ==
  ~m.pending /\ m.serverCount < MaxServers /\ m.mode = "running"

\* CreateNewProcess: fork, and a Server object in a free slot.  A free slot
\* already holds the values of the constructor.
CreateNewProcess(m) ==
  IF ProcessCreationAllowed(m)
  THEN LET s == CHOOSE x \in Servers : m.phase[x] = "free"
       IN  [m EXCEPT !.pending = TRUE, !.phase[s] = "live"]
  ELSE m

\* Bound: a handler that may fork runs when a slot is free.
RoomToFork(m) == ProcessCreationAllowed(m) => Free(m) # {}

\* Faulty: the server stays on the idle list.
StartNewRequestInPlace(m, c, s) ==
  IF m.waiting = <<>> /\ m.idle # {} /\ m.mode # "paused"
  THEN AssignServer(m, s, c)
  ELSE CreateNewProcess([m EXCEPT !.waiting = Append(@, c), !.conn[c] = "waiting"])

\* StartNewRequest, when the idle list hands out s.
StartNewRequest(m, c, s) ==
  IF m.waiting = <<>> /\ m.idle # {} /\ m.mode # "paused"
  THEN AssignServer(GetIdleServers(m, {s}), s, c)
  ELSE CreateNewProcess([m EXCEPT !.waiting = Append(@, c), !.conn[c] = "waiting"])

-----------------------------------------------------------------------------
(* The end of the manager and the periodic work.                           *)

\* Faulty: the events of the server stay registered.
FailServerStillArmed(m, s) == KillServers(m, {s})

\* A failed callback: event_del, then KillServer.
FailServer(m, s) == KillServers([m EXCEPT !.armed[s] = FALSE], {s})

DoStop(m) ==
  LET told == [StopAllServers(m) EXCEPT !.mode = "stopping"]
  IN  IF m.serverCount = 0 THEN [told EXCEPT !.process = "exited"] ELSE told

\* Faulty: one mode is forgotten.
LastServerStoppedForGood(m) ==
  IF m.mode = "stopping" THEN [m EXCEPT !.process = "exited"] ELSE m

LastServerReloaded(m) ==
  IF m.mode = "reloading" THEN [m EXCEPT !.mode = "running"] ELSE m

LastServerStopped(m) ==
  CASE m.mode = "stopping"  -> [m EXCEPT !.process = "exited"]
    [] m.mode = "reloading" -> [m EXCEPT !.mode = "running"]
    [] OTHER                -> m

\* Faulty: the connections of deleted servers are kept.
NoneBoundTo(m, D) == {}

BoundTo(m, D) == {c \in Connections : \E s \in D : m.bound[s] = c}

\* Delete everything on g_toDelete, with the connections bound to it.
DeleteServers(m) ==
  LET D == Dying(m)
      gone == [m EXCEPT
        !.conn = [c \in Connections |->
                    IF c \in BoundTo(m, D) THEN "none" ELSE @[c]],
        !.phase = [s \in Servers |-> IF s \in D THEN "free" ELSE @[s]],
        !.started = [s \in Servers |-> IF s \in D THEN FALSE ELSE @[s]],
        !.armed = [s \in Servers |-> IF s \in D THEN TRUE ELSE @[s]],
        !.onSend = [s \in Servers |-> IF s \in D THEN "none" ELSE @[s]],
        !.bound = [s \in Servers |-> IF s \in D THEN NoConnection ELSE @[s]],
        !.lastSent = [s \in Servers |-> IF s \in D THEN "null" ELSE @[s]],
        !.queue = [s \in Servers |-> IF s \in D THEN <<>> ELSE @[s]],
        !.exiting = [s \in Servers |-> IF s \in D THEN FALSE ELSE @[s]],
        !.ttl = [s \in Servers |-> IF s \in D THEN -1 ELSE @[s]],
        !.age = [s \in Servers |-> IF s \in D THEN 0 ELSE @[s]],
        !.extra = [s \in Servers |-> IF s \in D THEN 0 ELSE @[s]],
        !.nreq = [s \in Servers |-> IF s \in D THEN 0 ELSE @[s]],
        !.idleTime = [s \in Servers |-> IF s \in D THEN 0 ELSE @[s]]]
  IN  IF D # {} /\ m.serverCount = 0 THEN LastServerStopped(gone) ELSE gone

\* Servers DoPeriodic finds out of time: told to exit and still here, or too
\* long on one request.
TooLongDying(m) == {s \in Live(m) : m.ttl[s] = 1}
TooLongBusy(m) ==
  {s \in Live(m) : /\ RequestTimeout > 0
                   /\ m.bound[s] # NoConnection
                   /\ m.age[s] >= RequestTimeout + m.extra[s]}
Overdue(m) == TooLongDying(m) \cup TooLongBusy(m)

\* The loop over g_servers in DoPeriodic.
CheckServers(m) ==
  [KillServers(m, Overdue(m)) EXCEPT
    !.ttl = [s \in Servers |->
               IF s \in Live(m) /\ @[s] > 0 THEN @[s] - 1 ELSE @[s]],
    !.age = [s \in Servers |->
               IF /\ s \in Live(m) \ Overdue(m)
                  /\ RequestTimeout > 0
                  /\ m.bound[s] # NoConnection
               THEN @[s] + 1 ELSE @[s]]]

\* Faulty: counts below zero.
CountDelayUnguarded(m) ==
  [m EXCEPT !.delay = @ - 1, !.pending = IF m.delay = 1 THEN FALSE ELSE @]

\* g_processCreationDelay, counted down before DoPeriodic.
CountDelay(m) ==
  [m EXCEPT !.delay = IF @ > 0 THEN @ - 1 ELSE 0,
            !.pending = IF m.delay = 1 THEN FALSE ELSE @]

\* Bound: the two second counters stop above the settings they are held against.
CheckPing(m) ==
  LET late == PingTimeout > 0 /\ m.sincePing >= PingTimeout
      counted == [m EXCEPT
        !.belowMin = Lesser(@ + 1, StartTimeout + 1),
        !.sincePing = IF PingTimeout > 0 THEN Lesser(@ + 1, PingTimeout) ELSE 0]
  IN  IF late THEN DoStop(counted) ELSE counted

\* s is the head of the idle list: nobody on it has been idle longer.
HeadOfIdle(m, s) ==
  m.idle # {} => s \in m.idle /\ \A t \in m.idle : m.idleTime[t] <= m.idleTime[s]

IdleLimit(m) ==
  LET surplus == Lesser(m.minIdle, m.serverCount - MinServers)
  IN  IdleBase + IdleFactor * (MaxServers - MinServers - surplus)

PeriodicIdleServerPurge(m, head) ==
  LET older == [m EXCEPT !.idleTime =
                 [s \in Servers |->
                    IF s \in m.idle THEN Lesser(@[s] + 1, IdleTimeBound) ELSE @[s]]]
      spare == m.serverCount > MinServers /\ m.minIdle >= 1
      purged == IF spare /\ older.idleTime[head] > IdleLimit(m)
                THEN AppendMessage([older EXCEPT !.ttl[head] = SecondsToLive],
                                   "exit", {head})
                ELSE older
  IN  [purged EXCEPT !.minIdle = Cardinality(purged.idle)]

\* The rest of DoPeriodic, after the server loop.
CheckPool(m, head) ==
  IF m.mode = "stopping" THEN m
  ELSE LET p == CheckPing(m)
           q == IF p.serverCount >= MinServers THEN [p EXCEPT !.belowMin = 0] ELSE p
           late == /\ p.serverCount < MinServers
                   /\ StartTimeout > 0 /\ p.belowMin > StartTimeout
       IN  IF p.process = "exited" \/ p.mode = "paused" THEN p
           ELSE IF late THEN DoStop(p) ELSE PeriodicIdleServerPurge(q, head)

\* Faulty: does not replace what it deletes.
CleanUpOnly(m) == DeleteServers(m)

\* TimedEventCallback after DoPeriodicLinux.
CleanUp(m) ==
  LET d == DeleteServers(m)
  IN  IF d.process = "up" /\ d.serverCount < MinServers
      THEN CreateNewProcess(d) ELSE d

-----------------------------------------------------------------------------
(* Handlers of the event loop.  Each is one call from libevent.            *)

Init ==
  /\ mgr = IF MinServers > 0 THEN CreateNewProcess(InitMemory) ELSE InitMemory
  /\ proc = [s \in Servers |-> IF mgr.phase[s] = "live" THEN "booting" ELSE "none"]
  /\ inbox = Each(<<>>)
  /\ outbox = Each(<<>>)
  /\ peer = [c \in Connections |-> "quiet"]
  /\ spent = [commands |-> 0, crashes |-> 0]

\* What a handler that kills the servers of K, deletes some and may fork does
\* to the worker processes.  A deleted worker sees its socket closed and exits.
WorldAfter(K) ==
  LET born == {s \in Live(mgr') : s \in K \/ mgr.phase[s] # "live"}
      new == born \cup Free(mgr')
  IN  /\ proc' = [s \in Servers |->
                    CASE s \in born -> "booting"
                      [] s \in Free(mgr') -> "none"
                      [] s \in K \ new -> "dead"
                      [] OTHER -> proc[s]]
      /\ inbox' = [s \in Servers |-> IF s \in new \cup K THEN <<>> ELSE inbox[s]]
      /\ outbox' = [s \in Servers |-> IF s \in new THEN <<>> ELSE outbox[s]]

\* Listener::Accept and NewConnection.
NewConnection(c) ==
  /\ mgr.process = "up"
  /\ mgr.conn[c] = "none"
  /\ mgr' = [mgr EXCEPT !.conn[c] = "looking"]
  /\ peer' = [peer EXCEPT ![c] = "quiet"]
  /\ UNCHANGED <<world, spent>>

\* Readable, for LookForNewRequest.
Refused(c) == mgr.mode = "stopping" \/ peer[c] = "closed"
RequestReady(c) ==
  /\ mgr.process = "up"
  /\ mgr.conn[c] = "looking"
  /\ peer[c] # "quiet"
  /\ Refused(c) \/ RoomToFork(mgr)

\* Connection::RequestArrived: the web server sent a request or closed.
RequestArrived(c) ==
  /\ RequestReady(c)
  /\ IF Refused(c)
     THEN mgr' = [mgr EXCEPT !.conn[c] = "none"]
     ELSE \E s \in Servers : /\ mgr.idle # {} => HeadOfIdle(mgr, s)
                             /\ mgr' = StartNewRequest(mgr, c, s)
  /\ peer' = [peer EXCEPT ![c] = "quiet"]
  /\ WorldAfter({})
  /\ UNCHANGED spent

\* Readable: bytes have come, or the worker is gone.
CanRead(s) ==
  /\ mgr.process = "up"
  /\ mgr.phase[s] # "free"
  /\ mgr.armed[s]
  /\ mgr.onSend[s] # "ProcessNeedRespCmd"
  /\ outbox[s] # <<>> \/ proc[s] = "dead"

CanWrite(s, callback) ==
  /\ mgr.process = "up"
  /\ mgr.phase[s] # "free"
  /\ mgr.armed[s]
  /\ mgr.onSend[s] = callback

\* Faulty: forgets that the server was never counted.
StartFailedUncounted(m, s) == FailServer([m EXCEPT !.delay = StartDelay], s)

\* The start failed: the count is corrected for the kill that follows.
StartFailed(m, s) ==
  FailServer([m EXCEPT !.serverCount = (@ + 1) % CountWord,
                       !.delay = StartDelay], s)

StartSucceeded(m, s) ==
  LET up == [m EXCEPT !.serverCount = (@ + 1) % CountWord,
                      !.started[s] = TRUE, !.pending = FALSE]
  IN  RedeployServer(BringUpToDate(up, s), s)

\* Server::ServerStarted: the first byte, or the end of the socket.
ServerStarted(s) ==
  /\ CanRead(s)
  /\ ~mgr.started[s]
  /\ IF outbox[s] # <<>>
     THEN /\ mgr' = StartSucceeded(mgr, s)
          /\ outbox' = [outbox EXCEPT ![s] = Tail(@)]
     ELSE /\ mgr' = StartFailed(mgr, s)
          /\ UNCHANGED outbox
  /\ UNCHANGED <<proc, inbox, peer, spent>>

\* Server::RecvServerMsg.
RecvServerMsg(s) ==
  /\ CanRead(s)
  /\ mgr.started[s]
  /\ IF outbox[s] = <<>>
     THEN mgr' = FailServer(mgr, s) /\ UNCHANGED outbox
     ELSE /\ outbox' = [outbox EXCEPT ![s] = Tail(@)]
          /\ mgr' = CASE Head(outbox[s]) = "END_REQUEST" -> RedeployServer(mgr, s)
                      [] Head(outbox[s]) = "NO_RESP_CMD" ->
                           [mgr EXCEPT !.extra[s] = ExtraTimeout]
                      [] Head(outbox[s]) = "NEED_RESP_CMD" ->
                           [mgr EXCEPT !.onSend[s] = "ProcessNeedRespCmd"]
                      [] OTHER -> FailServer(mgr, s)
  /\ UNCHANGED <<proc, inbox, peer, spent>>

\* sendmsg of msg to s; it fails when the worker is gone.
SendOr(s, msg, onSent, onFailure) ==
  IF proc[s] = "dead"
  THEN mgr' = onFailure /\ UNCHANGED inbox
  ELSE mgr' = onSent /\ inbox' = [inbox EXCEPT ![s] = Append(@, msg)]

\* Server::WakeupServer: hands the bound connection's socket to the worker.
WakeupServer(s) ==
  /\ CanWrite(s, "WakeupServer")
  /\ LET m == [mgr EXCEPT !.onSend[s] = "none"]
     IN  IF mgr.bound[s] = NoConnection
         THEN mgr' = [mgr EXCEPT !.process = "crashed"] /\ UNCHANGED inbox
         ELSE SendOr(s, "request", m, FailServer(m, s))
  /\ UNCHANGED <<proc, outbox, peer, spent>>

\* Faulty: goes on after an exit.
AfterPushRegardless(m, s) ==
  IF HasNext(m, s) THEN TakeNext(m, s)
  ELSE GiveWork([m EXCEPT !.onSend[s] = "none"], s)

\* After a push: nothing more for a worker told to exit, otherwise the next
\* message or, when there is none, work.
AfterPush(m, s) ==
  LET done == [m EXCEPT !.onSend[s] = "none"]
  IN  IF m.exiting[s] THEN done
      ELSE IF HasNext(m, s) THEN TakeNext(m, s) ELSE GiveWork(done, s)

\* Server::DoPush: sends m_lastSent, which must not be null.
DoPush(s) ==
  /\ CanWrite(s, "DoPush")
  /\ LET m == [mgr EXCEPT !.exiting[s] = @ \/ mgr.lastSent[s] = "exit"]
     IN  IF mgr.lastSent[s] = "null"
         THEN mgr' = [mgr EXCEPT !.process = "crashed"] /\ UNCHANGED inbox
         ELSE SendOr(s, mgr.lastSent[s], AfterPush(m, s), FailServer(m, s))
  /\ UNCHANGED <<proc, outbox, peer, spent>>

\* Server::ProcessNeedRespCmd with one response.
ProcessNeedRespCmd(s) ==
  /\ CanWrite(s, "ProcessNeedRespCmd")
  /\ SendOr(s, "response", [mgr EXCEPT !.onSend[s] = "none"], FailServer(mgr, s))
  /\ UNCHANGED <<proc, outbox, peer, spent>>

\* DoPeriodicLinux, and all of TimedEventCallback, when the idle list starts
\* with head.
Checked(head) == CheckPool(CheckServers(CountDelay(mgr)), head)
Ticked(head) ==
  LET p == Checked(head) IN IF p.process = "up" THEN CleanUp(p) ELSE p
TickWith(head) ==
  /\ HeadOfIdle(CheckServers(mgr), head)
  /\ RoomToFork(DeleteServers(Checked(head)))

\* TimedEventCallback, once a second.
Tick ==
  /\ mgr.process = "up"
  /\ \E head \in Servers : TickWith(head) /\ mgr' = Ticked(head)
  /\ WorldAfter(Overdue(mgr))
  /\ peer' = [c \in Connections |->
                IF mgr.conn[c] # "none" /\ mgr'.conn[c] = "none" THEN "quiet" ELSE peer[c]]
  /\ UNCHANGED spent

-----------------------------------------------------------------------------
(* Administrator commands.                                                 *)

Command(name) ==
  /\ mgr.process = "up"
  /\ name \in Commands
  /\ spent.commands < MaxCommands
  /\ spent' = [spent EXCEPT !.commands = @ + 1]
  /\ UNCHANGED peer

\* StopAllServers, then wait for the last worker in mode reloading.
DoReload ==
  /\ Command("reload")
  /\ mgr.mode = "running"
  /\ mgr' = [StopAllServers(mgr) EXCEPT !.mode = "reloading"]
  /\ UNCHANGED world

\* SlaughterAllServers: SIGKILL, with every event left registered.
DoRestart ==
  /\ Command("restart")
  /\ mgr.mode = "running"
  /\ mgr' = [KillServers(mgr, Live(mgr)) EXCEPT !.mode = "reloading"]
  /\ WorldAfter(Live(mgr))

DoStopCommand ==
  /\ Command("stop")
  /\ mgr' = DoStop(mgr)
  /\ UNCHANGED world

DoExit ==
  /\ Command("exit")
  /\ mgr' = [KillServers(mgr, Live(mgr)) EXCEPT !.process = "exited"]
  /\ WorldAfter(Live(mgr))

DoPause ==
  /\ Command("pause")
  /\ mgr.mode = "running"
  /\ mgr' = [mgr EXCEPT !.mode = "paused"]
  /\ UNCHANGED world

\* Faulty: those who wait stay where they are.
DoResumeAlone ==
  /\ Command("resume")
  /\ mgr.mode = "paused"
  /\ mgr' = [mgr EXCEPT !.mode = "running"]
  /\ UNCHANGED world

\* DoResume unites waiting connections, oldest first, with idle servers.
DoResume ==
  /\ Command("resume")
  /\ mgr.mode = "paused"
  /\ LET n == Lesser(Len(mgr.waiting), Cardinality(mgr.idle))
     IN  \E S \in SUBSET mgr.idle : \E rank \in [S -> 1..n] :
           /\ Cardinality(S) = n
           /\ \A s, t \in S : rank[s] = rank[t] => s = t
           /\ \A s \in S, t \in mgr.idle \ S : mgr.idleTime[t] <= mgr.idleTime[s]
           /\ mgr' = AssignServers(
                [GetIdleServers(mgr, S) EXCEPT
                  !.mode = "running",
                  !.waiting = SubSeq(@, n + 1, Len(@))],
                S, [s \in S |-> mgr.waiting[rank[s]]])
  /\ UNCHANGED world

\* SetPref of a new name, or of one that is set already.
SetPref ==
  /\ Command("setpref")
  /\ \E n \in {mgr.prefs, mgr.prefs + 1} :
       /\ n \in 1..MaxPrefs
       /\ mgr' = [AppendMessage(mgr, "pref", Servers) EXCEPT !.prefs = n]
  /\ UNCHANGED world

DoPing ==
  /\ Command("ping")
  /\ mgr' = [mgr EXCEPT !.sincePing = 0]
  /\ UNCHANGED world

-----------------------------------------------------------------------------
(* The environment: web servers and workers.                               *)

\* The worker of c has answered it and is about to say so to the manager.
Answered(c) ==
  \E s \in Live(mgr) : mgr.bound[s] = c /\ proc[s] = "idle" /\ outbox[s] # <<>>

\* A web server sends a request on a connection nobody is serving.
ClientRequest(c) ==
  /\ mgr.process = "up"
  /\ peer[c] = "quiet"
  /\ mgr.conn[c] = "looking" \/ Answered(c)
  /\ peer' = [peer EXCEPT ![c] = "request"]
  /\ UNCHANGED <<mgr, world, spent>>

ClientClose(c) ==
  /\ mgr.process = "up"
  /\ mgr.conn[c] # "none"
  /\ peer[c] = "quiet"
  /\ peer' = [peer EXCEPT ![c] = "closed"]
  /\ UNCHANGED <<mgr, world, spent>>

\* One step of the worker of s, which leaves the manager and clients alone.
WorkerStep(s, from, to, sent) ==
  /\ mgr.process = "up"
  /\ proc[s] = from
  /\ proc' = [proc EXCEPT ![s] = to]
  /\ outbox' = [outbox EXCEPT ![s] = @ \o sent]
  /\ UNCHANGED <<mgr, peer>>

\* JaxerStartup sends the alive byte.
WorkerStarts(s) ==
  WorkerStep(s, "booting", "idle", <<"started">>) /\ UNCHANGED <<inbox, spent>>

\* A worker that dies, fails to start or closes its socket.
WorkerDies(s) ==
  /\ proc[s] \notin {"none", "dead"}
  /\ spent.crashes < MaxCrashes
  /\ spent' = [spent EXCEPT !.crashes = @ + 1]
  /\ WorkerStep(s, proc[s], "dead", <<>>)
  /\ inbox' = [inbox EXCEPT ![s] = <<>>]

\* aptMgrCmdReader and the event it posts; "wait" and "busy" are the main
\* thread of the worker.
WorkerReads(s) ==
  /\ inbox[s] # <<>>
  /\ LET to == CASE Head(inbox[s]) = "request"  -> "busy"
                 [] Head(inbox[s]) = "response" -> "busy"
                 [] Head(inbox[s]) = "exit"     -> "dead"
                 [] OTHER                       -> proc[s]
     IN  /\ Head(inbox[s]) = "request" => proc[s] = "idle"
         /\ WorkerStep(s, proc[s], to, <<>>)
         /\ inbox' = [inbox EXCEPT ![s] = IF to = "dead" THEN <<>> ELSE Tail(@)]
  /\ UNCHANGED spent

\* OnNewRequest is done with the request: ExecEndReqCmd.
WorkerEnds(s) ==
  WorkerStep(s, "busy", "idle", <<"END_REQUEST">>) /\ UNCHANGED <<inbox, spent>>

\* A page asks for more time, or sends a command and waits for the answer.
PageCommand(s, name, to, sent) ==
  /\ name \in Commands
  /\ spent.commands < MaxCommands
  /\ spent' = [spent EXCEPT !.commands = @ + 1]
  /\ WorkerStep(s, "busy", to, <<sent>>)
  /\ UNCHANGED inbox

ExecNoRespCmd(s) == PageCommand(s, "setmytimeout", "busy", "NO_RESP_CMD")
ExecNeedRespCmd(s) == PageCommand(s, "getsettings", "asking", "NEED_RESP_CMD")

-----------------------------------------------------------------------------
ServerReady(s) == CanRead(s) \/ \E f \in Callbacks \ {"none"} : CanWrite(s, f)

ServerEvent(s) ==
  \/ ServerStarted(s)
  \/ RecvServerMsg(s)
  \/ WakeupServer(s)
  \/ DoPush(s)
  \/ ProcessNeedRespCmd(s)

Administrator ==
  \/ DoReload
  \/ DoRestart
  \/ DoStopCommand
  \/ DoExit
  \/ DoPause
  \/ DoResume
  \/ SetPref
  \/ DoPing

Worker(s) ==
  \/ WorkerStarts(s)
  \/ WorkerDies(s)
  \/ WorkerReads(s)
  \/ WorkerEnds(s)
  \/ ExecNoRespCmd(s)
  \/ ExecNeedRespCmd(s)

Next ==
  \/ \E c \in Connections : NewConnection(c) \/ RequestArrived(c)
  \/ \E s \in Servers : ServerEvent(s)
  \/ Tick
  \/ Administrator
  \/ \E c \in Connections : ClientRequest(c) \/ ClientClose(c)
  \/ \E s \in Servers : Worker(s)

Spec == Init /\ [][Next]_vars

\* A tick that changes something is due.
TickReady ==
  mgr.process = "up" /\ \E head \in Servers : TickWith(head) /\ Ticked(head) # mgr

\* libevent reports every ready socket and the timer, the kernel runs every
\* worker: a worker starts and reads what it is sent.  Nothing makes a page
\* end, a client act or an administrator resume.  The first three are WF_vars
\* of the handlers with ENABLED spelt out, which TLC evaluates faster.
Fairness ==
  /\ []<>~TickReady \/ []<><<Tick>>_vars
  /\ \A c \in Connections : []<>~RequestReady(c) \/ []<><<RequestArrived(c)>>_vars
  /\ \A s \in Servers :
       /\ []<>~ServerReady(s) \/ []<><<ServerEvent(s)>>_vars
       /\ WF_vars(WorkerStarts(s))
       /\ WF_vars(WorkerReads(s))

FairSpec == Spec /\ Fairness
-----------------------------------------------------------------------------
(* Safety.                                                                 *)

Processes == {"none", "booting", "idle", "busy", "asking", "dead"}
Received == Kinds \cup {"none", "request", "response"}
Messages == {"started", "END_REQUEST", "NO_RESP_CMD", "NEED_RESP_CMD"}

\* The manager's memory and the environment have the shapes declared above
\* (that DoPush never sends "none" is CallbacksArmed).
TypeOK ==
  /\ mgr \in Memory
  /\ proc \in [Servers -> Processes]
  /\ inbox \in [Servers -> Seq(Received)]
  /\ outbox \in [Servers -> Seq(Messages)]
  /\ peer \in [Connections -> {"quiet", "request", "closed"}]
  /\ spent \in [commands : Nat, crashes : Nat]

Up == mgr.process = "up"
InQueue(c) == \E i \in DOMAIN mgr.waiting : mgr.waiting[i] = c

\* Every web server connection is in exactly one place: watched for a request,
\* once in the waiting list, or bound to exactly one server that exists
\* (Connection::m_boundServer, g_connFirst, m_boundConnection).
WatchedNowhereElse ==
  \A c \in Connections :
    mgr.conn[c] \in {"none", "looking"} =>
      ~InQueue(c) /\ \A s \in Servers : mgr.bound[s] # c
WaitingOnce ==
  /\ \A i, j \in DOMAIN mgr.waiting : mgr.waiting[i] = mgr.waiting[j] => i = j
  /\ \A c \in Connections : mgr.conn[c] = "waiting" <=> InQueue(c)
BoundOnce ==
  /\ \A c \in Connections :
       mgr.conn[c] = "bound" <=> \E s \in Servers : mgr.bound[s] = c
  /\ \A s, t \in Servers :
       mgr.bound[s] = mgr.bound[t] /\ mgr.bound[s] # NoConnection => s = t
  /\ \A s \in Free(mgr) : mgr.bound[s] = NoConnection
ConnectionPlacement == WatchedNowhereElse /\ WaitingOnce /\ BoundOnce

\* A server on the idle list can be given a request or a message at once: it
\* has started, is not being deleted, was told everything, has no connection,
\* sends nothing and was not told to exit.
IdleSound ==
  \A s \in mgr.idle :
    /\ mgr.phase[s] = "live"
    /\ mgr.started[s]
    /\ mgr.bound[s] = NoConnection
    /\ mgr.onSend[s] = "none"
    /\ mgr.lastSent[s] # "null"
    /\ mgr.queue[s] = <<>>
    /\ ~mgr.exiting[s]

\* g_serverCount is the number of servers that have reported in and are not
\* being deleted, and g_minIdleCount never exceeds the idle list, through
\* every failed start, kill and deferred deletion (the count is "corrected"
\* in ServerStarted).
CountExact ==
  Up => /\ mgr.serverCount = Cardinality({s \in Live(mgr) : mgr.started[s]})
        /\ mgr.minIdle <= Cardinality(mgr.idle)

\* g_processCreationPending admits one worker at a time, so the manager never
\* has more workers than maxprocesses.
PoolBounded ==
  LET starting == {s \in Live(mgr) : ~mgr.started[s]}
  IN  /\ Cardinality(Live(mgr)) <= MaxServers
      /\ Cardinality(starting) <= 1
      /\ Up => (mgr.pending <=> starting # {} \/ mgr.delay > 0)

\* Unless paused, no request waits while a worker is idle: StartNewRequest,
\* RedeployServer, DoPush and DoResume hand over at every occasion.
WorkConserving ==
  Up /\ mgr.mode # "paused" => mgr.waiting = <<>> \/ mgr.idle = {}

\* A registered write callback has what it dereferences: WakeupServer its
\* connection, DoPush a message of this server.
CallbacksArmed ==
  /\ mgr.process # "crashed"
  /\ \A s \in Servers : Up /\ mgr.armed[s] =>
       /\ mgr.onSend[s] = "WakeupServer" => mgr.bound[s] # NoConnection
       /\ mgr.onSend[s] = "DoPush" => mgr.lastSent[s] \in Kinds

\* What the manager believes of a started worker is true of it: on the idle
\* list, being pushed a message or about to be woken, it is not in a request
\* and owes the manager nothing; and one that was handed a request gets
\* nothing but answers to its commands until it has said END_REQUEST.
Unoccupied(s) ==
  s \in mgr.idle \/ mgr.onSend[s] \in {"DoPush", "WakeupServer"}
Requests(s) == {i \in DOMAIN inbox[s] : inbox[s][i] = "request"}
BeliefSound ==
  \A s \in Servers : Up /\ mgr.phase[s] = "live" /\ proc[s] # "dead" =>
    /\ Unoccupied(s) => proc[s] = "idle" /\ outbox[s] = <<>> /\ Requests(s) = {}
    /\ proc[s] \in {"busy", "asking"} =>
         \A i \in DOMAIN inbox[s] : inbox[s][i] = "response"
    /\ Cardinality(Requests(s)) <= 1

\* Where the session of a worker stands, as the manager and the worker see it.
\* Each situation is what the manager remembers of the server and what may then
\* be in the sockets between the two: no message is misread, whatever the
\* order of handlers, kills, crashes and reuse of the slot.  Sessions is
\* inductive; IdleSound, BeliefSound and ExitIsFinal follow from it.
Only(q, S) == \A i \in DOMAIN q : q[i] \in S
EndsIn(q, S, L) == q # <<>> /\ q[Len(q)] \in L /\ \A i \in 1..Len(q)-1 : q[i] \in S

Unused(m, s) ==
  /\ m.phase[s] = "free" /\ s \notin m.idle
  /\ ~m.started[s] /\ m.armed[s] /\ m.onSend[s] = "none"
  /\ m.bound[s] = NoConnection /\ m.lastSent[s] = "null" /\ ~m.exiting[s]
Starting(m, s) ==
  /\ m.phase[s] # "free" /\ s \notin m.idle
  /\ ~m.started[s] /\ m.armed[s] /\ m.onSend[s] = "none"
  /\ m.bound[s] = NoConnection /\ m.lastSent[s] = "null" /\ ~m.exiting[s]
Failed(m, s) ==
  /\ m.phase[s] = "dying" /\ s \notin m.idle /\ ~m.armed[s]
  /\ m.exiting[s] => m.bound[s] = NoConnection

Reporting(m, s) == m.phase[s] # "free" /\ m.started[s] /\ m.armed[s]
Idling(m, s) ==
  /\ Reporting(m, s) /\ s \in m.idle /\ m.phase[s] = "live" /\ ~m.exiting[s]
  /\ m.onSend[s] = "none" /\ m.bound[s] = NoConnection
  /\ m.lastSent[s] # "null" /\ m.queue[s] = <<>>
Heard(m, s) == m.lastSent[s] # "null" \/ m.phase[s] = "dying"
Pushing(m, s) ==
  /\ Reporting(m, s) /\ s \notin m.idle /\ ~m.exiting[s] /\ Heard(m, s)
  /\ m.onSend[s] = "DoPush" /\ m.bound[s] = NoConnection /\ m.lastSent[s] # "none"
Waking(m, s) ==
  /\ Reporting(m, s) /\ s \notin m.idle /\ ~m.exiting[s] /\ Heard(m, s)
  /\ m.onSend[s] = "WakeupServer" /\ m.bound[s] # NoConnection
Serving(m, s) ==
  /\ Reporting(m, s) /\ s \notin m.idle /\ ~m.exiting[s] /\ Heard(m, s)
  /\ m.onSend[s] = "none" /\ m.bound[s] # NoConnection
Answering(m, s) ==
  /\ Reporting(m, s) /\ s \notin m.idle /\ ~m.exiting[s] /\ Heard(m, s)
  /\ m.onSend[s] = "ProcessNeedRespCmd" /\ m.bound[s] # NoConnection
Leaving(m, s) ==
  /\ Reporting(m, s) /\ s \notin m.idle /\ (m.exiting[s] \/ m.phase[s] = "dying")
  /\ m.onSend[s] = "none" /\ m.bound[s] = NoConnection

\* The worker has what the manager sent in i, has sent o and does p.
Absent(p, i, o) == p = "none" /\ i = <<>> /\ o = <<>>
Boots(p, i, o) ==
  /\ i = <<>>
  /\ \/ p = "booting" /\ o = <<>>
     \/ p = "idle" /\ o = <<"started">>
     \/ p = "dead" /\ o \in {<<>>, <<"started">>}
Rests(p, i, o) ==
  /\ o = <<>>
  /\ \/ p = "idle" /\ Only(i, {"pref"})
     \/ p = "dead" /\ i = <<>>
Works(p, i, o) ==
  \/ p = "idle" /\ EndsIn(i, {"pref"}, {"request"}) /\ o = <<>>
  \/ p = "busy" /\ i = <<>> /\ Only(o, {"NO_RESP_CMD"})
  \/ p = "asking" /\ i = <<>> /\ EndsIn(o, {"NO_RESP_CMD"}, {"NEED_RESP_CMD"})
  \/ p = "asking" /\ i = <<"response">> /\ o = <<>>
  \/ p = "idle" /\ i = <<>> /\ EndsIn(o, {"NO_RESP_CMD"}, {"END_REQUEST"})
  \/ /\ p = "dead" /\ i = <<>>
     /\ \/ Only(o, {"NO_RESP_CMD"})
        \/ EndsIn(o, {"NO_RESP_CMD"}, {"NEED_RESP_CMD", "END_REQUEST"})
Waits(p, i, o) == p \in {"asking", "dead"} /\ i = <<>> /\ o = <<>>
Leaves(p, i, o) ==
  /\ o = <<>>
  /\ \/ p = "idle" /\ Only(i, {"pref", "exit"})
     \/ p = "dead" /\ i = <<>>

Session(m, s, p, i, o) ==
  \/ Unused(m, s) /\ Absent(p, i, o)
  \/ Starting(m, s) /\ Boots(p, i, o)
  \/ (Idling(m, s) \/ Pushing(m, s) \/ Waking(m, s)) /\ Rests(p, i, o)
  \/ Serving(m, s) /\ Works(p, i, o)
  \/ Answering(m, s) /\ Waits(p, i, o)
  \/ Leaving(m, s) /\ Leaves(p, i, o)
  \/ Failed(m, s) /\ (p = "dead" => i = <<>>)
Sessions == \A s \in Servers : Session(mgr, s, proc[s], inbox[s], outbox[s])

\* A worker that has been sent ExitMessage is never on the idle list, never
\* bound and never written to again (m_exiting in DoPush).
ExitIsFinal ==
  \A s \in Servers : Up /\ mgr.exiting[s] =>
    /\ s \notin mgr.idle
    /\ mgr.bound[s] = NoConnection
    /\ mgr.armed[s] => mgr.onSend[s] = "none"

-----------------------------------------------------------------------------
(* What a step may never do.                                               *)

\* A server is given a connection only when it has been sent every message
\* meant for it; the one that may follow is its own exit at maxrequests.  A
\* worker told to exit or to change a preference hears it before more work.
ToldBeforeWork ==
  [][ \A s \in Servers :
        mgr.bound[s] # mgr'.bound[s] /\ mgr'.bound[s] # NoConnection =>
          /\ mgr'.queue[s] \in {<<>>, <<"exit">>}
          /\ mgr'.queue[s] = <<"exit">> => mgr'.nreq[s] = MaxRequests
          /\ mgr.onSend[s] = "DoPush" => Len(inbox'[s]) = Len(inbox[s]) + 1
          /\ Len(mgr.queue[s]) = 0 ]_vars

\* The purge of idle servers leaves minprocesses of them: when a tick tells
\* one to exit, that many others are there and not told to exit.
Staying(m) == {s \in Live(m) : m.started[s] /\ m.ttl[s] = -1}
PurgeKeepsMinimum ==
  [][ (\E s \in mgr.idle : mgr'.ttl[s] = SecondsToLive) /\ mgr'.mode # "stopping" /\ Tick
        => Cardinality(Staying(mgr')) >= MinServers ]_vars

\* impl.h:1333 says the servers slaughtered for being slow to die "were told
\* to exit": a server that is killed when its time to live ends has been sent
\* ExitMessage, unless it is over its request time too.
SlaughterOnlyTheTold ==
  [][ \A s \in Servers :
        /\ Tick /\ mgr.ttl[s] = 1 /\ s \in Live(mgr)
        /\ s \notin TooLongBusy(mgr)
        => mgr.exiting[s] ]_vars

\* The manager implements RequestBroker, the abstract promise to the web
\* server, through every handler, kill, deferred deletion and reuse of a slot.
Broker ==
  INSTANCE RequestBroker WITH
    Workers <- Servers,
    Nobody  <- NoConnection,
    watched <- {c \in Connections : mgr.conn[c] = "looking"},
    waiting <- mgr.waiting,
    served  <- mgr.bound
ImplementsBroker == Broker!Spec

-----------------------------------------------------------------------------
(* Liveness.                                                               *)

\* A waiting connection is served, or the manager ends, or an administrator
\* holds it back by a pause or a reload: pages that never end are cut off by
\* requesttimeout, workers that die are replaced.
WaitingServed ==
  \A c \in Connections :
    mgr.conn[c] = "waiting" ~> mgr.conn[c] # "waiting" \/ ~Up \/ mgr.mode # "running"

\* No page keeps a connection: requesttimeout releases it.
BoundReleased ==
  \A c \in Connections : mgr.conn[c] = "bound" ~> mgr.conn[c] # "bound" \/ ~Up

\* decl.h:601: the new configuration "will be read and applied once all Jaxers
\* have stopped", so a reload ends.
ReloadEnds == mgr.mode = "reloading" ~> mgr.mode # "reloading" \/ ~Up

\* The same when no worker is starting while the others are asked to exit.
Settled == Live(mgr) # {} /\ \A s \in Live(mgr) : mgr.started[s]
ReloadEndsOnceStarted ==
  mgr.mode = "reloading" /\ Settled ~> mgr.mode # "reloading" \/ ~Up

\* A stop ends the process, even when pages never end and workers do not exit.
StopEndsOnceStarted == mgr.mode = "stopping" /\ Settled ~> ~Up
=============================================================================
