------------------------ MODULE JaxerManagerSessions ------------------------
(***************************************************************************)
(* Proofs about JaxerManager for every pool size, setting and bound.       *)
(*                                                                         *)
(* First its types.  Each operator that stands for a function of the       *)
(* manager has a lemma that says its result is a Memory; an action         *)
(* composes operators, and its step of the proof composes their lemmas.    *)
(*                                                                         *)
(* Then the sessions between the manager and its workers: Sessions is an   *)
(* invariant, and with it IdleSound, BeliefSound and ExitIsFinal.  Each    *)
(* operator changes the situation of a few servers in a way its lemma      *)
(* states, and leaves the Same memory of the others.                       *)
(***************************************************************************)
EXTENDS JaxerManager, FiniteSetTheorems, TLAPS

-----------------------------------------------------------------------------
(* Arithmetic and cardinalities.                                           *)

LEMMA LesserType == \A a, b \in Nat : Lesser(a, b) \in Nat
BY DEF Lesser

\* g_idleCount is a number: the idle list is a finite set of servers.
LEMMA CardinalityOfServers ==
  ASSUME NEW S \in SUBSET Servers
  PROVE  Cardinality(S) \in Nat
BY PoolAssumption, FS_CardinalityType, FS_Subset

\* Unsigned arithmetic stays within the word.
LEMMA WordType == \A i \in Int : i % CountWord \in 0..CountWord-1
BY BoundAssumption

-----------------------------------------------------------------------------
(* A memory with a field replaced by a value of its type is a memory.      *)

LEMMA FlagFields ==
  ASSUME NEW m \in Memory
  PROVE  /\ \A v \in {"up", "exited", "crashed"} : [m EXCEPT !.process = v] \in Memory
         /\ \A v \in Modes : [m EXCEPT !.mode = v] \in Memory
         /\ \A v \in 0..CountWord-1 : [m EXCEPT !.serverCount = v] \in Memory
         /\ \A v \in BOOLEAN : [m EXCEPT !.pending = v] \in Memory
         /\ \A v \in 0..StartDelay : [m EXCEPT !.delay = v] \in Memory
         /\ \A v \in Nat : [m EXCEPT !.minIdle = v] \in Memory
<1>1. /\ \A v \in {"up", "exited", "crashed"} : [m EXCEPT !.process = v] \in Memory
      /\ \A v \in Modes : [m EXCEPT !.mode = v] \in Memory
  BY DEF Memory
<1>2. /\ \A v \in 0..CountWord-1 : [m EXCEPT !.serverCount = v] \in Memory
      /\ \A v \in BOOLEAN : [m EXCEPT !.pending = v] \in Memory
  BY DEF Memory
<1>3. /\ \A v \in 0..StartDelay : [m EXCEPT !.delay = v] \in Memory
      /\ \A v \in Nat : [m EXCEPT !.minIdle = v] \in Memory
  BY DEF Memory
<1> QED
  BY <1>1, <1>2, <1>3

-----------------------------------------------------------------------------
(* Messages.                                                               *)

LEMMA RemoveServersType ==
  ASSUME NEW m \in Memory, NEW K \in SUBSET Servers
  PROVE  RemoveServers(m, K) \in Memory
<1> DEFINE idle == m.idle \ K
           minIdle == Lesser(m.minIdle, Cardinality(idle))
           lastSent == [s \in Servers |-> IF s \in K THEN "null" ELSE m.lastSent[s]]
           queue == [s \in Servers |-> IF s \in K THEN <<>> ELSE m.queue[s]]
           count == (m.serverCount - Cardinality(K)) % CountWord
<1>1. idle \in SUBSET Servers
  BY DEF Memory
<1>2. minIdle \in Nat
  BY <1>1, CardinalityOfServers, LesserType DEF Memory
<1>3. lastSent \in [Servers -> Kinds \cup {"null", "none"}]
  BY DEF Memory
<1>4. queue \in [Servers -> Seq(Kinds)]
  BY DEF Memory
<1>5. count \in 0..CountWord-1
  <2>1. m.serverCount \in Int /\ Cardinality(K) \in Int
    BY CardinalityOfServers, BoundAssumption DEF Memory
  <2> QED
    BY <2>1, WordType
<1>6. RemoveServers(m, K) =
        [m EXCEPT !.idle = idle, !.minIdle = minIdle, !.lastSent = lastSent,
                  !.queue = queue, !.serverCount = count]
  BY DEF RemoveServers, Memory
<1> HIDE DEF idle, minIdle, lastSent, queue, count
<1>7. [m EXCEPT !.idle = idle, !.minIdle = minIdle, !.lastSent = lastSent,
                  !.queue = queue, !.serverCount = count] \in Memory
  BY <1>1, <1>2, <1>3, <1>4, <1>5 DEF Memory
<1> QED
  BY <1>6, <1>7

LEMMA KillServersType ==
  ASSUME NEW m \in Memory, NEW K \in SUBSET Servers
  PROVE  KillServers(m, K) \in Memory
<1> DEFINE r == RemoveServers(m, K \ Dying(m))
           phase == [s \in Servers |-> IF s \in K THEN "dying" ELSE r.phase[s]]
<1>1. r \in Memory
  BY RemoveServersType
<1> HIDE DEF r
<1>2. phase \in [Servers -> {"free", "live", "dying"}]
  BY <1>1 DEF Memory
<1>3. KillServers(m, K) = [r EXCEPT !.phase = phase]
  BY <1>1 DEF KillServers, r, Memory
<1> HIDE DEF phase
<1>4. [r EXCEPT !.phase = phase] \in Memory
  BY <1>1, <1>2 DEF Memory
<1> QED
  BY <1>3, <1>4

LEMMA AppendMessageType ==
  ASSUME NEW m \in Memory, NEW kind \in Kinds, NEW T \in SUBSET Servers
  PROVE  AppendMessage(m, kind, T) \in Memory
<1> DEFINE sent == {s \in T : m.lastSent[s] # "null"}
           woken == m.idle \cap sent
           queue == [s \in Servers |-> IF s \in sent \ woken
                                       THEN Append(m.queue[s], kind) ELSE m.queue[s]]
           lastSent == [s \in Servers |-> IF s \in woken THEN kind ELSE m.lastSent[s]]
           onSend == [s \in Servers |-> IF s \in woken THEN "DoPush" ELSE m.onSend[s]]
           idle == m.idle \ woken
           idleTime == [s \in Servers |-> IF s \in m.idle \ woken THEN 0 ELSE m.idleTime[s]]
           minIdle == Lesser(m.minIdle, Cardinality(idle))
<1>1. queue \in [Servers -> Seq(Kinds)]
  BY DEF Memory
<1>2. lastSent \in [Servers -> Kinds \cup {"null", "none"}]
  BY DEF Memory
<1>3. onSend \in [Servers -> Callbacks]
  BY DEF Memory, Callbacks
<1>4. idle \in SUBSET Servers
  BY DEF Memory
<1>5. idleTime \in [Servers -> Nat]
  BY DEF Memory
<1>6. minIdle \in Nat
  BY <1>4, CardinalityOfServers, LesserType DEF Memory
<1>7. AppendMessage(m, kind, T) =
        [m EXCEPT !.queue = queue, !.lastSent = lastSent, !.onSend = onSend,
                  !.idle = idle, !.idleTime = idleTime, !.minIdle = minIdle]
  BY DEF AppendMessage, Memory
<1> HIDE DEF queue, lastSent, onSend, idle, idleTime, minIdle
<1>8. [m EXCEPT !.queue = queue, !.lastSent = lastSent, !.onSend = onSend,
                  !.idle = idle, !.idleTime = idleTime, !.minIdle = minIdle] \in Memory
  BY <1>1, <1>2, <1>3, <1>4, <1>5, <1>6 DEF Memory
<1> QED
  BY <1>7, <1>8

LEMMA BringUpToDateType ==
  ASSUME NEW m \in Memory, NEW s \in Servers
  PROVE  BringUpToDate(m, s) \in Memory
<1> DEFINE prefs == [i \in 1..m.prefs |-> "pref"]
           idleTime == [x \in Servers |->
                          IF m.prefs > 0 /\ x \in m.idle THEN 0 ELSE m.idleTime[x]]
<1>1. prefs \in Seq(Kinds)
  <2>1. m.prefs \in Nat /\ prefs \in [1..m.prefs -> Kinds]
    BY DEF Memory, Kinds
  <2> QED
    BY <2>1
<1>2. idleTime \in [Servers -> Nat]
  BY DEF Memory
<1>3. BringUpToDate(m, s) =
        [m EXCEPT !.lastSent[s] = "none", !.queue[s] = prefs, !.idleTime = idleTime]
  BY DEF BringUpToDate, Memory
<1> HIDE DEF prefs, idleTime
<1>4. [m EXCEPT !.lastSent[s] = "none", !.queue[s] = prefs, !.idleTime = idleTime] \in Memory
  BY <1>1, <1>2 DEF Memory
<1> QED
  BY <1>3, <1>4

LEMMA TakeNextType ==
  ASSUME NEW m \in Memory, NEW s \in Servers, HasNext(m, s)
  PROVE  TakeNext(m, s) \in Memory
<1>1. m.queue[s] \in Seq(Kinds) /\ m.queue[s] # <<>>
  BY DEF HasNext, Memory
<1>2. Head(m.queue[s]) \in Kinds /\ Tail(m.queue[s]) \in Seq(Kinds)
  BY <1>1
<1> DEFINE next == Head(m.queue[s])  rest == Tail(m.queue[s])
<1>3. TakeNext(m, s) = [m EXCEPT !.lastSent[s] = next, !.queue[s] = rest]
  BY DEF TakeNext, Memory
<1> HIDE DEF next, rest
<1>4. [m EXCEPT !.lastSent[s] = next, !.queue[s] = rest] \in Memory
  BY <1>2 DEF Memory, next, rest
<1> QED
  BY <1>3, <1>4

LEMMA StopAllServersType ==
  ASSUME NEW m \in Memory
  PROVE  StopAllServers(m) \in Memory
<1> DEFINE a == AppendMessage(m, "exit", Servers)
           ttl == [s \in Servers |-> IF m.phase[s] = "live" /\ a.ttl[s] = -1
                                     THEN SecondsToLive ELSE a.ttl[s]]
<1>1. a \in Memory
  BY AppendMessageType DEF Kinds
<1> HIDE DEF a
<1>2. ttl \in [Servers -> Int]
  BY <1>1, TimerAssumption DEF Memory
<1>3. StopAllServers(m) = [a EXCEPT !.ttl = ttl]
  BY <1>1 DEF StopAllServers, a, Memory
<1> HIDE DEF ttl
<1>4. [a EXCEPT !.ttl = ttl] \in Memory
  BY <1>1, <1>2 DEF Memory
<1> QED
  BY <1>3, <1>4

-----------------------------------------------------------------------------
(* Giving connections to servers.                                          *)

LEMMA AddIdleServerType ==
  ASSUME NEW m \in Memory, NEW s \in Servers
  PROVE  AddIdleServer(m, s) \in Memory
<1> DEFINE idle == m.idle \cup {s}
<1>1. idle \in SUBSET Servers
  BY DEF Memory
<1>2. AddIdleServer(m, s) \in {m, [m EXCEPT !.idle = idle, !.idleTime[s] = 0]}
  BY DEF AddIdleServer, Memory
<1> HIDE DEF idle
<1>3. [m EXCEPT !.idle = idle, !.idleTime[s] = 0] \in Memory
  BY <1>1 DEF Memory
<1> QED
  BY <1>2, <1>3

LEMMA GetIdleServersType ==
  ASSUME NEW m \in Memory, NEW S \in SUBSET Servers
  PROVE  GetIdleServers(m, S) \in Memory
<1> DEFINE idle == m.idle \ S
           minIdle == Lesser(m.minIdle, Cardinality(idle))
<1>1. idle \in SUBSET Servers
  BY DEF Memory
<1>2. minIdle \in Nat
  BY <1>1, CardinalityOfServers, LesserType DEF Memory
<1>3. GetIdleServers(m, S) = [m EXCEPT !.idle = idle, !.minIdle = minIdle]
  BY DEF GetIdleServers, Memory
<1> HIDE DEF idle, minIdle
<1>4. [m EXCEPT !.idle = idle, !.minIdle = minIdle] \in Memory
  BY <1>1, <1>2 DEF Memory
<1> QED
  BY <1>3, <1>4

LEMMA BindServersType ==
  ASSUME NEW m \in Memory, NEW S \in SUBSET Servers, NEW to \in [S -> Connections]
  PROVE  BindServers(m, S, to) \in Memory
<1> DEFINE extra == [s \in Servers |-> IF s \in S THEN 0 ELSE m.extra[s]]
           bound == [s \in Servers |-> IF s \in S THEN to[s] ELSE m.bound[s]]
           age == [s \in Servers |-> IF s \in S THEN 0 ELSE m.age[s]]
           nreq == [s \in Servers |->
                      IF s \in S THEN Lesser(m.nreq[s] + 1, MaxRequests) ELSE m.nreq[s]]
           onSend == [s \in Servers |-> IF s \in S THEN "WakeupServer" ELSE m.onSend[s]]
           conn == [c \in Connections |->
                      IF \E s \in S : to[s] = c THEN "bound" ELSE m.conn[c]]
           bind == [m EXCEPT !.extra = extra, !.bound = bound, !.age = age,
                             !.nreq = nreq, !.onSend = onSend, !.conn = conn]
<1>1. nreq \in [Servers -> Nat]
  <2>1. \A s \in Servers : m.nreq[s] \in Nat
    BY DEF Memory
  <2>2. \A s \in Servers : m.nreq[s] + 1 \in Nat
    BY <2>1
  <2>3. \A s \in Servers : Lesser(m.nreq[s] + 1, MaxRequests) \in Nat
    BY <2>2, PoolAssumption, LesserType
  <2> QED
    BY <2>1, <2>3
<1>2. extra \in [Servers -> Nat] /\ age \in [Servers -> Nat]
  BY DEF Memory
<1>3. bound \in [Servers -> Connections \cup {NoConnection}]
  BY DEF Memory
<1>4. onSend \in [Servers -> Callbacks]
  BY DEF Memory, Callbacks
<1>5. conn \in [Connections -> {"none", "looking", "waiting", "bound"}]
  BY DEF Memory
<1>6. BindServers(m, S, to) = bind
  BY DEF BindServers, Memory
<1> HIDE DEF extra, bound, age, nreq, onSend, conn
<1>7. bind \in Memory
  BY <1>1, <1>2, <1>3, <1>4, <1>5 DEF Memory
<1> QED
  BY <1>6, <1>7

\* The server whose last request this is has its time to live.
LEMMA LastRequestType ==
  ASSUME NEW m \in Memory, NEW S \in SUBSET Servers, NEW n,
         n = [m EXCEPT !.ttl = [s \in Servers |->
                IF s \in LastRequest(m, S) THEN SecondsToLive ELSE @[s]]]
  PROVE  n \in Memory
<1> DEFINE ttl == [s \in Servers |->
                     IF s \in LastRequest(m, S) THEN SecondsToLive ELSE m.ttl[s]]
<1>1. ttl \in [Servers -> Int]
  BY TimerAssumption DEF Memory
<1>2. n = [m EXCEPT !.ttl = ttl]
  BY DEF Memory
<1> HIDE DEF ttl
<1>3. [m EXCEPT !.ttl = ttl] \in Memory
  BY <1>1 DEF Memory
<1> QED
  BY <1>2, <1>3

LEMMA AssignServersType ==
  ASSUME NEW m \in Memory, NEW S \in SUBSET Servers, NEW to \in [S -> Connections]
  PROVE  AssignServers(m, S, to) \in Memory
<1> DEFINE b == BindServers(m, S, to)
           last == LastRequest(b, S)
           told == [b EXCEPT !.ttl = [s \in Servers |->
                      IF s \in last THEN SecondsToLive ELSE @[s]]]
<1>1. b \in Memory
  BY BindServersType
<1>2. AssignServers(m, S, to) = IF last = {} THEN b ELSE AppendMessage(told, "exit", last)
  BY Zenon DEF AssignServers, CountRequests
<1> HIDE DEF b
<1>3. told \in Memory
  BY <1>1, LastRequestType, Zenon
<1>4. last \in SUBSET Servers
  BY DEF LastRequest
<1> HIDE DEF told, last
<1> QED
  BY <1>1, <1>2, <1>3, <1>4, AppendMessageType DEF Kinds

LEMMA AssignServerType ==
  ASSUME NEW m \in Memory, NEW s \in Servers, NEW c \in Connections
  PROVE  AssignServer(m, s, c) \in Memory
<1>1. {s} \in SUBSET Servers /\ [x \in {s} |-> c] \in [{s} -> Connections]
  OBVIOUS
<1> QED
  BY <1>1, AssignServersType DEF AssignServer

LEMMA GiveWorkType ==
  ASSUME NEW m \in Memory, NEW s \in Servers
  PROVE  GiveWork(m, s) \in Memory
<1>1. CASE m.waiting # <<>>
  <2>1. m.waiting \in Seq(Connections)
    BY DEF Memory
  <2>2. Head(m.waiting) \in Connections /\ Tail(m.waiting) \in Seq(Connections)
    BY <1>1, <2>1
  <2> DEFINE rest == Tail(m.waiting)
  <2>3. [m EXCEPT !.waiting = Tail(@)] = [m EXCEPT !.waiting = rest]
    BY DEF Memory
  <2> HIDE DEF rest
  <2>4. [m EXCEPT !.waiting = rest] \in Memory
    BY <2>2 DEF Memory, rest
  <2> QED
    BY <2>2, <2>3, <2>4, AssignServerType, AddIdleServerType DEF GiveWork
<1>2. CASE m.waiting = <<>>
  BY <1>2, AddIdleServerType DEF GiveWork
<1> QED
  BY <1>1, <1>2

LEMMA UnbindType ==
  ASSUME NEW m \in Memory, NEW s \in Servers
  PROVE  Unbind(m, s) \in Memory
<1> DEFINE c == m.bound[s]
           u == [m EXCEPT !.bound[s] = NoConnection, !.conn[c] = "looking"]
<1>1. CASE m.bound[s] = NoConnection
  BY <1>1 DEF Unbind
<1>2. CASE m.bound[s] # NoConnection
  <2>1. Unbind(m, s) = u
    BY <1>2 DEF Unbind, Memory
  <2>2. c \in Connections
    BY <1>2 DEF Memory
  <2> HIDE DEF c
  <2>3. u \in Memory
    BY <2>2 DEF Memory
  <2> QED
    BY <2>1, <2>3
<1> QED
  BY <1>1, <1>2

LEMMA RedeployServerType ==
  ASSUME NEW m \in Memory, NEW s \in Servers
  PROVE  RedeployServer(m, s) \in Memory
<1> DEFINE u == Unbind(m, s)
           n == TakeNext(u, s)
<1>1. u \in Memory
  BY UnbindType
<1> HIDE DEF u
<1>2. CASE HasNext(u, s)
  <2>1. n \in Memory
    BY <1>1, <1>2, TakeNextType
  <2>2. RedeployServer(m, s) = [n EXCEPT !.onSend[s] = "DoPush"]
    BY <1>2 DEF RedeployServer, u
  <2> HIDE DEF n
  <2>3. [n EXCEPT !.onSend[s] = "DoPush"] \in Memory
    BY <2>1 DEF Memory, Callbacks
  <2> QED
    BY <2>2, <2>3
<1>3. CASE ~HasNext(u, s)
  BY <1>1, <1>3, GiveWorkType DEF RedeployServer, u
<1> QED
  BY <1>2, <1>3

LEMMA CreateNewProcessType ==
  ASSUME NEW m \in Memory
  PROVE  CreateNewProcess(m) \in Memory
<1> DEFINE s == CHOOSE x \in Servers : m.phase[x] = "free"
<1>1. CreateNewProcess(m) \in {m, [m EXCEPT !.pending = TRUE, !.phase[s] = "live"]}
  BY DEF CreateNewProcess, Memory
<1> HIDE DEF s
<1>2. [m EXCEPT !.pending = TRUE, !.phase[s] = "live"] \in Memory
  BY DEF Memory
<1> QED
  BY <1>1, <1>2

LEMMA StartNewRequestType ==
  ASSUME NEW m \in Memory, NEW c \in Connections, NEW s \in Servers
  PROVE  StartNewRequest(m, c, s) \in Memory
<1> DEFINE g == GetIdleServers(m, {s})
           waiting == Append(m.waiting, c)
           w == [m EXCEPT !.waiting = waiting, !.conn[c] = "waiting"]
<1>1. g \in Memory
  BY GetIdleServersType
<1>2. waiting \in Seq(Connections)
  BY DEF Memory
<1>3. StartNewRequest(m, c, s) \in {AssignServer(g, s, c), CreateNewProcess(w)}
  BY DEF StartNewRequest, Memory
<1> HIDE DEF g, waiting
<1>4. w \in Memory
  BY <1>2 DEF Memory
<1> HIDE DEF w
<1> QED
  BY <1>1, <1>3, <1>4, AssignServerType, CreateNewProcessType

-----------------------------------------------------------------------------
(* The end of the manager and the periodic work.                           *)

LEMMA FailServerType ==
  ASSUME NEW m \in Memory, NEW s \in Servers
  PROVE  FailServer(m, s) \in Memory
<1>1. [m EXCEPT !.armed[s] = FALSE] \in Memory
  BY DEF Memory
<1> QED
  BY <1>1, KillServersType DEF FailServer

LEMMA DoStopType ==
  ASSUME NEW m \in Memory
  PROVE  DoStop(m) \in Memory
<1> DEFINE told == [StopAllServers(m) EXCEPT !.mode = "stopping"]
<1>1. told \in Memory
  BY StopAllServersType, FlagFields DEF Modes
<1> HIDE DEF told
<1>2. [told EXCEPT !.process = "exited"] \in Memory
  BY <1>1, FlagFields
<1> QED
  BY <1>1, <1>2 DEF DoStop, told

LEMMA LastServerStoppedType ==
  ASSUME NEW m \in Memory
  PROVE  LastServerStopped(m) \in Memory
<1>1. /\ [m EXCEPT !.process = "exited"] \in Memory
      /\ [m EXCEPT !.mode = "running"] \in Memory
  BY FlagFields DEF Modes
<1> QED
  BY <1>1 DEF LastServerStopped

LEMMA DeleteServersType ==
  ASSUME NEW m \in Memory
  PROVE  DeleteServers(m) \in Memory
<1> DEFINE D == Dying(m)
           conn == [c \in Connections |-> IF c \in BoundTo(m, D) THEN "none" ELSE m.conn[c]]
           phase == [s \in Servers |-> IF s \in D THEN "free" ELSE m.phase[s]]
           started == [s \in Servers |-> IF s \in D THEN FALSE ELSE m.started[s]]
           armed == [s \in Servers |-> IF s \in D THEN TRUE ELSE m.armed[s]]
           onSend == [s \in Servers |-> IF s \in D THEN "none" ELSE m.onSend[s]]
           bound == [s \in Servers |-> IF s \in D THEN NoConnection ELSE m.bound[s]]
           lastSent == [s \in Servers |-> IF s \in D THEN "null" ELSE m.lastSent[s]]
           queue == [s \in Servers |-> IF s \in D THEN <<>> ELSE m.queue[s]]
           exiting == [s \in Servers |-> IF s \in D THEN FALSE ELSE m.exiting[s]]
           ttl == [s \in Servers |-> IF s \in D THEN -1 ELSE m.ttl[s]]
           age == [s \in Servers |-> IF s \in D THEN 0 ELSE m.age[s]]
           extra == [s \in Servers |-> IF s \in D THEN 0 ELSE m.extra[s]]
           nreq == [s \in Servers |-> IF s \in D THEN 0 ELSE m.nreq[s]]
           idleTime == [s \in Servers |-> IF s \in D THEN 0 ELSE m.idleTime[s]]
           gone == [m EXCEPT
             !.conn = conn, !.phase = phase, !.started = started, !.armed = armed,
             !.onSend = onSend, !.bound = bound, !.lastSent = lastSent,
             !.queue = queue, !.exiting = exiting, !.ttl = ttl, !.age = age,
             !.extra = extra, !.nreq = nreq, !.idleTime = idleTime]
<1>1. DeleteServers(m) =
        IF D # {} /\ m.serverCount = 0 THEN LastServerStopped(gone) ELSE gone
  BY Zenon DEF DeleteServers
<1> HIDE DEF D
<1>2. conn \in [Connections -> {"none", "looking", "waiting", "bound"}]
  BY DEF Memory
<1>3. phase \in [Servers -> {"free", "live", "dying"}]
  BY DEF Memory
<1>4. started \in [Servers -> BOOLEAN]
  BY DEF Memory
<1>5. armed \in [Servers -> BOOLEAN]
  BY DEF Memory
<1>6. onSend \in [Servers -> Callbacks]
  BY DEF Memory, Callbacks
<1>7. bound \in [Servers -> Connections \cup {NoConnection}]
  BY DEF Memory
<1>8. lastSent \in [Servers -> Kinds \cup {"null", "none"}]
  BY DEF Memory
<1>9. queue \in [Servers -> Seq(Kinds)]
  BY DEF Memory
<1>10. exiting \in [Servers -> BOOLEAN]
  BY DEF Memory
<1>11. ttl \in [Servers -> Int]
  BY DEF Memory
<1>12. age \in [Servers -> Nat] /\ extra \in [Servers -> Nat]
  BY DEF Memory
<1>13. nreq \in [Servers -> Nat] /\ idleTime \in [Servers -> Nat]
  BY DEF Memory
<1> HIDE DEF conn, phase, started, armed, onSend, bound, lastSent, queue, exiting,
             ttl, age, extra, nreq, idleTime
<1>14. gone \in Memory
  BY <1>2, <1>3, <1>4, <1>5, <1>6, <1>7, <1>8, <1>9, <1>10, <1>11, <1>12, <1>13,
     ZenonT(60) DEF Memory
<1> HIDE DEF gone
<1> QED
  BY <1>1, <1>14, LastServerStoppedType

LEMMA CheckServersType ==
  ASSUME NEW m \in Memory
  PROVE  CheckServers(m) \in Memory
<1> DEFINE k == KillServers(m, Overdue(m))
           ttl == [s \in Servers |->
                     IF s \in Live(m) /\ k.ttl[s] > 0 THEN k.ttl[s] - 1 ELSE k.ttl[s]]
           age == [s \in Servers |->
                     IF /\ s \in Live(m) \ Overdue(m)
                        /\ RequestTimeout > 0
                        /\ m.bound[s] # NoConnection
                     THEN k.age[s] + 1 ELSE k.age[s]]
<1>1. Overdue(m) \in SUBSET Servers
  BY DEF Overdue, TooLongDying, TooLongBusy, Live
<1>2. k \in Memory
  BY <1>1, KillServersType
<1> HIDE DEF k
<1>3. ttl \in [Servers -> Int]
  <2>1. \A s \in Servers : k.ttl[s] \in Int
    BY <1>2 DEF Memory
  <2>2. \A s \in Servers : k.ttl[s] - 1 \in Int
    BY <2>1
  <2> QED
    BY <2>1, <2>2
<1>4. age \in [Servers -> Nat]
  <2>1. \A s \in Servers : k.age[s] \in Nat
    BY <1>2 DEF Memory
  <2>2. \A s \in Servers : k.age[s] + 1 \in Nat
    BY <2>1
  <2> QED
    BY <2>1, <2>2
<1>5. CheckServers(m) = [k EXCEPT !.ttl = ttl, !.age = age]
  BY <1>2 DEF CheckServers, k, Memory
<1> HIDE DEF ttl, age
<1>6. [k EXCEPT !.ttl = ttl, !.age = age] \in Memory
  BY <1>2, <1>3, <1>4 DEF Memory
<1> QED
  BY <1>5, <1>6

LEMMA CountDelayType ==
  ASSUME NEW m \in Memory
  PROVE  CountDelay(m) \in Memory
<1> DEFINE delay == IF m.delay > 0 THEN m.delay - 1 ELSE 0
           pending == IF m.delay = 1 THEN FALSE ELSE m.pending
<1>1. delay \in 0..StartDelay
  BY TimerAssumption DEF Memory
<1>2. pending \in BOOLEAN
  BY DEF Memory
<1>3. CountDelay(m) = [m EXCEPT !.delay = delay, !.pending = pending]
  BY DEF CountDelay, Memory
<1> HIDE DEF delay, pending
<1>4. [m EXCEPT !.delay = delay, !.pending = pending] \in Memory
  BY <1>1, <1>2 DEF Memory
<1> QED
  BY <1>3, <1>4

LEMMA CheckPingType ==
  ASSUME NEW m \in Memory
  PROVE  CheckPing(m) \in Memory
<1> DEFINE below == Lesser(m.belowMin + 1, StartTimeout + 1)
           since == IF PingTimeout > 0 THEN Lesser(m.sincePing + 1, PingTimeout) ELSE 0
           counted == [m EXCEPT !.belowMin = below, !.sincePing = since]
<1>1. below \in Nat /\ since \in Nat
  <2>1. /\ m.belowMin + 1 \in Nat /\ StartTimeout + 1 \in Nat
        /\ m.sincePing + 1 \in Nat /\ PingTimeout \in Nat
    BY TimerAssumption DEF Memory
  <2> QED
    BY <2>1, LesserType
<1>2. CheckPing(m) \in {counted, DoStop(counted)}
  <2>1. counted = [m EXCEPT
          !.belowMin = Lesser(@ + 1, StartTimeout + 1),
          !.sincePing = IF PingTimeout > 0 THEN Lesser(@ + 1, PingTimeout) ELSE 0]
    BY DEF Memory
  <2> QED
    BY <2>1 DEF CheckPing
<1> HIDE DEF below, since
<1>3. counted \in Memory
  BY <1>1 DEF Memory
<1> HIDE DEF counted
<1> QED
  BY <1>2, <1>3, DoStopType

\* The idle servers a second older.
LEMMA IdleTimesType ==
  ASSUME NEW m \in Memory
  PROVE  [s \in Servers |-> IF s \in m.idle THEN Lesser(m.idleTime[s] + 1, IdleTimeBound)
                                            ELSE m.idleTime[s]] \in [Servers -> Nat]
<1>1. IdleTimeBound \in Nat
  BY PoolAssumption, TimerAssumption DEF IdleTimeBound
<1>2. \A s \in Servers : m.idleTime[s] \in Nat
  BY DEF Memory
<1>3. \A s \in Servers : m.idleTime[s] + 1 \in Nat
  BY <1>2
<1>4. \A s \in Servers : Lesser(m.idleTime[s] + 1, IdleTimeBound) \in Nat
  BY <1>1, <1>3, LesserType
<1> QED
  BY <1>2, <1>4

\* A server given its time to live.
LEMMA TtlType ==
  ASSUME NEW m \in Memory, NEW s \in Servers
  PROVE  [m EXCEPT !.ttl[s] = SecondsToLive] \in Memory
<1> DEFINE ttl == [m.ttl EXCEPT ![s] = SecondsToLive]
<1>1. m.ttl \in [Servers -> Int] /\ SecondsToLive \in Int
  BY TimerAssumption DEF Memory
<1>2. ttl \in [Servers -> Int]
  BY <1>1
<1>3. [m EXCEPT !.ttl[s] = SecondsToLive] = [m EXCEPT !.ttl = ttl]
  BY DEF Memory
<1> HIDE DEF ttl
<1>4. [m EXCEPT !.ttl = ttl] \in Memory
  BY <1>2 DEF Memory
<1> QED
  BY <1>3, <1>4

LEMMA PeriodicIdleServerPurgeType ==
  ASSUME NEW m \in Memory, NEW head \in Servers
  PROVE  PeriodicIdleServerPurge(m, head) \in Memory
<1> DEFINE times == [s \in Servers |->
                       IF s \in m.idle THEN Lesser(m.idleTime[s] + 1, IdleTimeBound)
                                       ELSE m.idleTime[s]]
           older == [m EXCEPT !.idleTime = times]
           told == [older EXCEPT !.ttl[head] = SecondsToLive]
           spare == m.serverCount > MinServers /\ m.minIdle >= 1
           purged == IF spare /\ older.idleTime[head] > IdleLimit(m)
                     THEN AppendMessage(told, "exit", {head}) ELSE older
<1>1. times \in [Servers -> Nat]
  BY IdleTimesType
<1>2. older = [m EXCEPT !.idleTime = [s \in Servers |->
                 IF s \in m.idle THEN Lesser(@[s] + 1, IdleTimeBound) ELSE @[s]]]
  BY DEF Memory
<1>3. PeriodicIdleServerPurge(m, head) = [purged EXCEPT !.minIdle = Cardinality(purged.idle)]
  BY <1>2, Zenon DEF PeriodicIdleServerPurge
<1> HIDE DEF times
<1>4. older \in Memory
  BY <1>1 DEF Memory
<1> HIDE DEF older
<1>5. told \in Memory
  BY <1>4, TtlType
<1> HIDE DEF told, spare
<1>6. purged \in Memory
  BY <1>4, <1>5, AppendMessageType DEF Kinds
<1> HIDE DEF purged
<1>7. Cardinality(purged.idle) \in Nat
  BY <1>6, CardinalityOfServers DEF Memory
<1> QED
  BY <1>3, <1>6, <1>7, FlagFields

LEMMA CheckPoolType ==
  ASSUME NEW m \in Memory, NEW head \in Servers
  PROVE  CheckPool(m, head) \in Memory
<1> DEFINE p == CheckPing(m)
           q == IF p.serverCount >= MinServers THEN [p EXCEPT !.belowMin = 0] ELSE p
<1>1. p \in Memory
  BY CheckPingType
<1> HIDE DEF p
<1>2. q \in Memory
  <2>1. [p EXCEPT !.belowMin = 0] \in Memory
    BY <1>1 DEF Memory
  <2> QED
    BY <1>1, <2>1
<1>3. CheckPool(m, head) \in {m, p, DoStop(p), PeriodicIdleServerPurge(q, head)}
  BY DEF CheckPool, p
<1> HIDE DEF q
<1> QED
  BY <1>1, <1>2, <1>3, DoStopType, PeriodicIdleServerPurgeType

LEMMA TickedType ==
  ASSUME NEW m \in Memory, NEW head \in Servers, mgr = m
  PROVE  Ticked(head) \in Memory
<1> DEFINE p == CheckPool(CheckServers(CountDelay(m)), head)
           d == DeleteServers(p)
<1>1. p \in Memory
  BY CountDelayType, CheckServersType, CheckPoolType
<1>2. d \in Memory
  BY <1>1, DeleteServersType
<1>3. CreateNewProcess(d) \in Memory
  BY <1>2, CreateNewProcessType
<1>4. Ticked(head) \in {p, d, CreateNewProcess(d)}
  BY DEF Ticked, Checked, CleanUp
<1> QED
  BY <1>1, <1>2, <1>3, <1>4

-----------------------------------------------------------------------------
(* Handlers.                                                               *)

LEMMA StartFailedType ==
  ASSUME NEW m \in Memory, NEW s \in Servers
  PROVE  StartFailed(m, s) \in Memory
<1> DEFINE count == (m.serverCount + 1) % CountWord
           f == [m EXCEPT !.serverCount = count, !.delay = StartDelay]
<1>1. count \in 0..CountWord-1
  <2>1. m.serverCount + 1 \in Int
    BY BoundAssumption DEF Memory
  <2> QED
    BY <2>1, WordType
<1>2. StartFailed(m, s) = FailServer(f, s)
  BY DEF StartFailed, Memory
<1> HIDE DEF count
<1>3. StartDelay \in 0..StartDelay
  BY TimerAssumption
<1>4. f \in Memory
  BY <1>1, <1>3 DEF Memory
<1> HIDE DEF f
<1> QED
  BY <1>2, <1>4, FailServerType

LEMMA StartSucceededType ==
  ASSUME NEW m \in Memory, NEW s \in Servers
  PROVE  StartSucceeded(m, s) \in Memory
<1> DEFINE count == (m.serverCount + 1) % CountWord
           up == [m EXCEPT !.serverCount = count, !.started[s] = TRUE, !.pending = FALSE]
<1>1. count \in 0..CountWord-1
  <2>1. m.serverCount + 1 \in Int
    BY BoundAssumption DEF Memory
  <2> QED
    BY <2>1, WordType
<1>2. StartSucceeded(m, s) = RedeployServer(BringUpToDate(up, s), s)
  BY DEF StartSucceeded, Memory
<1> HIDE DEF count
<1>3. up \in Memory
  BY <1>1 DEF Memory
<1> HIDE DEF up
<1> QED
  BY <1>2, <1>3, BringUpToDateType, RedeployServerType

LEMMA AfterPushType ==
  ASSUME NEW m \in Memory, NEW s \in Servers
  PROVE  AfterPush(m, s) \in Memory
<1> DEFINE done == [m EXCEPT !.onSend[s] = "none"]
<1>1. done \in Memory
  BY DEF Memory, Callbacks
<1>2. AfterPush(m, s) =
        IF m.exiting[s] THEN done
        ELSE IF HasNext(m, s) THEN TakeNext(m, s) ELSE GiveWork(done, s)
  BY Zenon DEF AfterPush
<1> HIDE DEF done
<1> QED
  BY <1>1, <1>2, TakeNextType, GiveWorkType

-----------------------------------------------------------------------------
(* The shapes of the memory and of the environment.                        *)

LEMMA WorldAfterType ==
  ASSUME TypeOK, NEW K \in SUBSET Servers, WorldAfter(K)
  PROVE  /\ proc' \in [Servers -> Processes]
         /\ inbox' \in [Servers -> Seq(Received)]
         /\ outbox' \in [Servers -> Seq(Messages)]
<1> DEFINE born == {s \in Live(mgr') : s \in K \/ mgr.phase[s] # "live"}
           new == born \cup Free(mgr')
<1>1. proc' = [s \in Servers |-> CASE s \in born -> "booting"
                                   [] s \in Free(mgr') -> "none"
                                   [] s \in K \ new -> "dead"
                                   [] OTHER -> proc[s]]
  BY Zenon DEF WorldAfter
<1>2. inbox' = [s \in Servers |-> IF s \in new \cup K THEN <<>> ELSE inbox[s]]
  BY Zenon DEF WorldAfter
<1>3. outbox' = [s \in Servers |-> IF s \in new THEN <<>> ELSE outbox[s]]
  BY Zenon DEF WorldAfter
<1> HIDE DEF born, new
<1>4. proc \in [Servers -> Processes]
  BY DEF TypeOK, Processes
<1>5. inbox \in [Servers -> Seq(Received)] /\ outbox \in [Servers -> Seq(Messages)]
  BY DEF TypeOK, Received
<1>6. proc' \in [Servers -> Processes]
  BY <1>1, <1>4 DEF Processes
<1> QED
  BY <1>2, <1>3, <1>5, <1>6

\* Sending msg to s keeps the inboxes typed.
LEMMA SendOrType ==
  ASSUME TypeOK, NEW s \in Servers, NEW msg \in Received,
         NEW a \in Memory, NEW b \in Memory, SendOr(s, msg, a, b)
  PROVE  mgr' \in Memory /\ inbox' \in [Servers -> Seq(Received)]
<1>1. inbox \in [Servers -> Seq(Received)]
  BY DEF TypeOK, Received
<1>2. mgr' \in {a, b} /\ inbox' \in {inbox, [inbox EXCEPT ![s] = Append(@, msg)]}
  BY DEF SendOr
<1>3. [inbox EXCEPT ![s] = Append(@, msg)] \in [Servers -> Seq(Received)]
  BY <1>1
<1> QED
  BY <1>1, <1>2, <1>3

LEMMA InitMemoryType == InitMemory \in Memory
<1>1. /\ Each(<<>>) \in [Servers -> Seq(Kinds)] /\ <<>> \in Seq(Connections)
      /\ Each(-1) \in [Servers -> Int] /\ Each(0) \in [Servers -> Nat]
      /\ Each(FALSE) \in [Servers -> BOOLEAN] /\ Each(TRUE) \in [Servers -> BOOLEAN]
  BY DEF Each
<1>2. /\ Each("free") \in [Servers -> {"free", "live", "dying"}]
      /\ Each("none") \in [Servers -> Callbacks]
      /\ Each(NoConnection) \in [Servers -> Connections \cup {NoConnection}]
      /\ Each("null") \in [Servers -> Kinds \cup {"null", "none"}]
      /\ [c \in Connections |-> "none"]
           \in [Connections -> {"none", "looking", "waiting", "bound"}]
  BY DEF Each, Callbacks
<1>3. 0 \in 0..CountWord-1 /\ 0 \in 0..StartDelay
  BY BoundAssumption, TimerAssumption
<1> QED
  BY <1>1, <1>2, <1>3 DEF InitMemory, Memory, Modes

LEMMA InitType == Init => TypeOK
<1> SUFFICES ASSUME Init PROVE TypeOK
  OBVIOUS
<1>1. InitMemory \in Memory
  BY InitMemoryType
<1>2. mgr \in Memory
  BY <1>1, CreateNewProcessType DEF Init
<1>3. /\ proc \in [Servers -> Processes]
      /\ inbox \in [Servers -> Seq(Received)]
      /\ outbox \in [Servers -> Seq(Messages)]
  BY DEF Init, Processes, Each
<1>4. /\ peer \in [Connections -> {"quiet", "request", "closed"}]
      /\ spent \in [commands : Nat, crashes : Nat]
  BY DEF Init
<1> QED
  BY <1>2, <1>3, <1>4 DEF TypeOK, Processes, Received

-----------------------------------------------------------------------------
(* Every action keeps the shapes.                                          *)

LEMMA ConnectionStepType ==
  ASSUME TypeOK, NEW c \in Connections,
         NewConnection(c) \/ RequestArrived(c) \/ ClientRequest(c) \/ ClientClose(c)
  PROVE  TypeOK'
<1>0. /\ mgr \in Memory /\ spent \in [commands : Nat, crashes : Nat]
      /\ peer \in [Connections -> {"quiet", "request", "closed"}]
  BY DEF TypeOK
<1>1. CASE NewConnection(c)
  <2>1. [mgr EXCEPT !.conn[c] = "looking"] \in Memory
    BY <1>0 DEF Memory
  <2>2. peer' \in [Connections -> {"quiet", "request", "closed"}]
    BY <1>0, <1>1 DEF NewConnection
  <2> QED
    BY <1>1, <2>1, <2>2 DEF NewConnection, TypeOK, world
<1>2. CASE RequestArrived(c)
  <2>1. [mgr EXCEPT !.conn[c] = "none"] \in Memory
    BY <1>0 DEF Memory
  <2>2. mgr' \in Memory
    BY <1>0, <1>2, <2>1, StartNewRequestType DEF RequestArrived
  <2>3. peer' \in [Connections -> {"quiet", "request", "closed"}]
    BY <1>0, <1>2 DEF RequestArrived
  <2>4. WorldAfter({}) /\ spent' = spent
    BY <1>2 DEF RequestArrived
  <2> QED
    BY <1>0, <2>2, <2>3, <2>4, WorldAfterType DEF TypeOK
<1>3. CASE ClientRequest(c)
  <2>1. peer' \in [Connections -> {"quiet", "request", "closed"}]
    BY <1>0, <1>3 DEF ClientRequest
  <2> QED
    BY <1>3, <2>1 DEF ClientRequest, TypeOK, world
<1>4. CASE ClientClose(c)
  <2>1. peer' \in [Connections -> {"quiet", "request", "closed"}]
    BY <1>0, <1>4 DEF ClientClose
  <2> QED
    BY <1>4, <2>1 DEF ClientClose, TypeOK, world
<1> QED
  BY <1>1, <1>2, <1>3, <1>4

LEMMA ServerEventType ==
  ASSUME TypeOK, NEW s \in Servers, ServerEvent(s)
  PROVE  TypeOK'
<1>0. /\ mgr \in Memory
      /\ outbox \in [Servers -> Seq(Messages)]
      /\ inbox \in [Servers -> Seq(Received)]
  BY DEF TypeOK
<1>1. outbox[s] # <<>> => [outbox EXCEPT ![s] = Tail(@)] \in [Servers -> Seq(Messages)]
  BY <1>0
<1>2. CASE ServerStarted(s)
  <2>1. mgr' \in Memory
    BY <1>0, <1>2, StartSucceededType, StartFailedType DEF ServerStarted
  <2>2. outbox' \in [Servers -> Seq(Messages)]
    BY <1>0, <1>1, <1>2 DEF ServerStarted
  <2> QED
    BY <1>2, <2>1, <2>2 DEF ServerStarted, TypeOK
<1>3. CASE RecvServerMsg(s)
  <2>1. /\ [mgr EXCEPT !.extra[s] = ExtraTimeout] \in Memory
        /\ [mgr EXCEPT !.onSend[s] = "ProcessNeedRespCmd"] \in Memory
    BY <1>0, TimerAssumption DEF Memory, Callbacks
  <2>2. FailServer(mgr, s) \in Memory /\ RedeployServer(mgr, s) \in Memory
    BY <1>0, FailServerType, RedeployServerType
  <2>3. mgr' \in Memory
    BY <1>3, <2>1, <2>2 DEF RecvServerMsg
  <2>4. outbox' \in [Servers -> Seq(Messages)]
    BY <1>0, <1>1, <1>3 DEF RecvServerMsg
  <2> QED
    BY <1>3, <2>3, <2>4 DEF RecvServerMsg, TypeOK
<1>4. CASE WakeupServer(s)
  <2> DEFINE m == [mgr EXCEPT !.onSend[s] = "none"]
  <2>0. [mgr EXCEPT !.process = "crashed"] \in Memory
    BY <1>0, FlagFields
  <2>1. m \in Memory
    BY <1>0 DEF Memory, Callbacks
  <2>2. FailServer(m, s) \in Memory
    BY <2>1, FailServerType
  <2>3. \/ mgr' = [mgr EXCEPT !.process = "crashed"] /\ inbox' = inbox
        \/ SendOr(s, "request", m, FailServer(m, s))
    BY <1>4 DEF WakeupServer
  <2> HIDE DEF m
  <2>4. mgr' \in Memory /\ inbox' \in [Servers -> Seq(Received)]
    BY <1>0, <2>0, <2>1, <2>2, <2>3, SendOrType DEF Received
  <2> QED
    BY <1>4, <2>4 DEF WakeupServer, TypeOK
<1>5. CASE DoPush(s)
  <2> DEFINE m == [mgr EXCEPT !.exiting[s] = @ \/ mgr.lastSent[s] = "exit"]
  <2>0. [mgr EXCEPT !.process = "crashed"] \in Memory
    BY <1>0, FlagFields
  <2>1. m \in Memory
    <3> DEFINE e == mgr.exiting[s] \/ mgr.lastSent[s] = "exit"
    <3>1. e \in BOOLEAN
      BY <1>0 DEF Memory
    <3>2. m = [mgr EXCEPT !.exiting[s] = e]
      BY <1>0 DEF Memory
    <3> HIDE DEF e
    <3> QED
      BY <1>0, <3>1, <3>2 DEF Memory
  <2>2. FailServer(m, s) \in Memory /\ AfterPush(m, s) \in Memory
    BY <2>1, FailServerType, AfterPushType
  <2>3. mgr.lastSent[s] # "null" => mgr.lastSent[s] \in Received
    BY <1>0 DEF Memory, Received
  <2>4. \/ mgr' = [mgr EXCEPT !.process = "crashed"] /\ inbox' = inbox
        \/ /\ mgr.lastSent[s] # "null"
           /\ SendOr(s, mgr.lastSent[s], AfterPush(m, s), FailServer(m, s))
    BY <1>5 DEF DoPush
  <2> HIDE DEF m
  <2>5. mgr' \in Memory /\ inbox' \in [Servers -> Seq(Received)]
    BY <1>0, <2>0, <2>1, <2>2, <2>3, <2>4, SendOrType
  <2> QED
    BY <1>5, <2>5 DEF DoPush, TypeOK
<1>6. CASE ProcessNeedRespCmd(s)
  <2> DEFINE m == [mgr EXCEPT !.onSend[s] = "none"]
  <2>1. m \in Memory
    BY <1>0 DEF Memory, Callbacks
  <2>2. FailServer(mgr, s) \in Memory
    BY <1>0, FailServerType
  <2>3. SendOr(s, "response", m, FailServer(mgr, s))
    BY <1>6 DEF ProcessNeedRespCmd
  <2> HIDE DEF m
  <2>4. mgr' \in Memory /\ inbox' \in [Servers -> Seq(Received)]
    BY <2>1, <2>2, <2>3, SendOrType DEF Received
  <2> QED
    BY <1>6, <2>4 DEF ProcessNeedRespCmd, TypeOK
<1> QED
  BY <1>2, <1>3, <1>4, <1>5, <1>6 DEF ServerEvent

LEMMA TickType ==
  ASSUME TypeOK, Tick
  PROVE  TypeOK'
<1>1. mgr \in Memory /\ peer \in [Connections -> {"quiet", "request", "closed"}]
  BY DEF TypeOK
<1>2. mgr' \in Memory
  BY <1>1, TickedType DEF Tick
<1>3. Overdue(mgr) \in SUBSET Servers
  BY DEF Overdue, TooLongDying, TooLongBusy, Live
<1>4. WorldAfter(Overdue(mgr)) /\ spent' = spent
  BY DEF Tick
<1>5. peer' \in [Connections -> {"quiet", "request", "closed"}]
  BY <1>1 DEF Tick
<1>6. /\ proc' \in [Servers -> Processes]
      /\ inbox' \in [Servers -> Seq(Received)]
      /\ outbox' \in [Servers -> Seq(Messages)]
  BY <1>3, <1>4, WorldAfterType
<1> QED
  BY <1>2, <1>4, <1>5, <1>6 DEF TypeOK

LEMMA AdministratorType ==
  ASSUME TypeOK, Administrator
  PROVE  TypeOK'
<1>0. mgr \in Memory /\ spent \in [commands : Nat, crashes : Nat]
  BY DEF TypeOK
<1>1. ASSUME NEW name, Command(name)
      PROVE  spent' \in [commands : Nat, crashes : Nat] /\ peer' = peer
  BY <1>0, <1>1 DEF Command
<1>2. Live(mgr) \in SUBSET Servers
  BY DEF Live
<1>3. ASSUME mgr' \in Memory, world' = world \/ WorldAfter(Live(mgr)),
             spent' \in [commands : Nat, crashes : Nat], peer' = peer
      PROVE  TypeOK'
  <2>1. /\ proc' \in [Servers -> Processes]
        /\ inbox' \in [Servers -> Seq(Received)]
        /\ outbox' \in [Servers -> Seq(Messages)]
    <3>1. CASE WorldAfter(Live(mgr))
      BY <1>2, <3>1, WorldAfterType
    <3>2. CASE world' = world
      BY <3>2 DEF world, TypeOK
    <3> QED
      BY <1>3, <3>1, <3>2
  <2> QED
    BY <1>3, <2>1 DEF TypeOK
<1>4. CASE DoReload
  <2>1. [StopAllServers(mgr) EXCEPT !.mode = "reloading"] \in Memory
    BY <1>0, StopAllServersType, FlagFields DEF Modes
  <2> QED
    BY <1>1, <1>3, <1>4, <2>1 DEF DoReload
<1>5. CASE DoRestart
  <2>1. [KillServers(mgr, Live(mgr)) EXCEPT !.mode = "reloading"] \in Memory
    BY <1>0, <1>2, KillServersType, FlagFields DEF Modes
  <2> QED
    BY <1>1, <1>3, <1>5, <2>1 DEF DoRestart
<1>6. CASE DoStopCommand
  BY <1>0, <1>1, <1>3, <1>6, DoStopType DEF DoStopCommand
<1>7. CASE DoExit
  <2>1. [KillServers(mgr, Live(mgr)) EXCEPT !.process = "exited"] \in Memory
    BY <1>0, <1>2, KillServersType, FlagFields
  <2> QED
    BY <1>1, <1>3, <1>7, <2>1 DEF DoExit
<1>8. CASE DoPause
  <2>1. [mgr EXCEPT !.mode = "paused"] \in Memory
    BY <1>0, FlagFields DEF Modes
  <2> QED
    BY <1>1, <1>3, <1>8, <2>1 DEF DoPause
<1>9. CASE DoResume
  <2> DEFINE n == Lesser(Len(mgr.waiting), Cardinality(mgr.idle))
  <2>0. n \in Nat /\ n <= Len(mgr.waiting)
    <3>1. Len(mgr.waiting) \in Nat /\ Cardinality(mgr.idle) \in Nat
      BY <1>0, CardinalityOfServers DEF Memory
    <3> QED
      BY <3>1 DEF Lesser
  <2>1. PICK S \in SUBSET mgr.idle : \E rank \in [S -> 1..n] :
          mgr' = AssignServers([GetIdleServers(mgr, S) EXCEPT
                                  !.mode = "running",
                                  !.waiting = SubSeq(@, n + 1, Len(@))],
                               S, [s \in S |-> mgr.waiting[rank[s]]])
    BY <1>9, Zenon DEF DoResume
  <2> HIDE DEF n
  <2>a. PICK rank \in [S -> 1..n] :
          mgr' = AssignServers([GetIdleServers(mgr, S) EXCEPT
                                  !.mode = "running",
                                  !.waiting = SubSeq(@, n + 1, Len(@))],
                               S, [s \in S |-> mgr.waiting[rank[s]]])
    BY <2>1
  <2> DEFINE rest == SubSeq(mgr.waiting, n + 1, Len(mgr.waiting))
             g == GetIdleServers(mgr, S)
             r == [g EXCEPT !.mode = "running", !.waiting = rest]
  <2>2. rest \in Seq(Connections)
    BY <1>0, <2>0 DEF Memory
  <2>3. S \in SUBSET Servers
    BY <1>0 DEF Memory
  <2>4. g \in Memory /\ g.waiting = mgr.waiting
    BY <1>0, <2>3, GetIdleServersType DEF GetIdleServers, Memory
  <2>5. [GetIdleServers(mgr, S) EXCEPT
          !.mode = "running", !.waiting = SubSeq(@, n + 1, Len(@))] = r
    BY <2>4 DEF Memory
  <2> HIDE DEF rest, g
  <2>6. r \in Memory
    BY <2>2, <2>4 DEF Memory, Modes
  <2> HIDE DEF r
  <2>7. [s \in S |-> mgr.waiting[rank[s]]] \in [S -> Connections]
    <3>1. mgr.waiting \in Seq(Connections) /\ n <= Len(mgr.waiting)
      BY <1>0, <2>0 DEF Memory
    <3>2. \A s \in S : rank[s] \in 1..Len(mgr.waiting)
      BY <2>0, <2>a, <3>1
    <3>3. \A s \in S : mgr.waiting[rank[s]] \in Connections
      BY <3>1, <3>2
    <3> QED
      BY <3>3
  <2>8. mgr' \in Memory
    BY <2>a, <2>3, <2>5, <2>6, <2>7, AssignServersType
  <2> QED
    BY <1>1, <1>3, <1>9, <2>8 DEF DoResume
<1>10. CASE SetPref
  <2>1. PICK n \in Nat : mgr' = [AppendMessage(mgr, "pref", Servers) EXCEPT !.prefs = n]
    BY <1>10, BoundAssumption DEF SetPref
  <2> DEFINE a == AppendMessage(mgr, "pref", Servers)
  <2>2. a \in Memory
    BY <1>0, AppendMessageType DEF Kinds
  <2> HIDE DEF a
  <2>3. [a EXCEPT !.prefs = n] \in Memory
    BY <2>2 DEF Memory
  <2>4. mgr' \in Memory
    BY <2>1, <2>3 DEF a
  <2> QED
    BY <1>1, <1>3, <1>10, <2>4 DEF SetPref
<1>11. CASE DoPing
  <2>1. [mgr EXCEPT !.sincePing = 0] \in Memory
    BY <1>0 DEF Memory
  <2> QED
    BY <1>1, <1>3, <1>11, <2>1 DEF DoPing
<1> QED
  BY <1>4, <1>5, <1>6, <1>7, <1>8, <1>9, <1>10, <1>11 DEF Administrator

\* Both bounds count up.
LEMMA SpentType ==
  ASSUME NEW x \in [commands : Nat, crashes : Nat]
  PROVE  /\ [x EXCEPT !.commands = @ + 1] \in [commands : Nat, crashes : Nat]
         /\ [x EXCEPT !.crashes = @ + 1] \in [commands : Nat, crashes : Nat]
OBVIOUS

LEMMA WorkerType ==
  ASSUME TypeOK, NEW s \in Servers, Worker(s)
  PROVE  TypeOK'
<1>0. /\ proc \in [Servers -> Processes]
      /\ inbox \in [Servers -> Seq(Received)]
      /\ outbox \in [Servers -> Seq(Messages)]
      /\ spent \in [commands : Nat, crashes : Nat]
  BY DEF TypeOK
<1>1. ASSUME NEW from, NEW to \in Processes, NEW sent \in Seq(Messages),
             WorkerStep(s, from, to, sent),
             inbox' \in [Servers -> Seq(Received)],
             spent' \in [commands : Nat, crashes : Nat]
      PROVE  TypeOK'
  <2>1. proc' \in [Servers -> Processes]
    BY <1>0, <1>1 DEF WorkerStep
  <2>2. outbox[s] \o sent \in Seq(Messages)
    BY <1>0, <1>1
  <2>3. outbox' \in [Servers -> Seq(Messages)]
    BY <1>0, <1>1, <2>2 DEF WorkerStep
  <2> QED
    BY <1>1, <2>1, <2>3 DEF WorkerStep, TypeOK
<1>2. /\ <<>> \in Seq(Messages)
      /\ \A msg \in Messages : <<msg>> \in Seq(Messages)
  OBVIOUS
<1>3. CASE WorkerStarts(s)
  BY <1>0, <1>1, <1>2, <1>3 DEF WorkerStarts, Processes, Messages
<1>4. CASE WorkerDies(s)
  <2>1. inbox' \in [Servers -> Seq(Received)]
    BY <1>0, <1>4 DEF WorkerDies
  <2>2. spent' = [spent EXCEPT !.crashes = @ + 1]
    BY <1>4 DEF WorkerDies
  <2>3. spent' \in [commands : Nat, crashes : Nat]
    BY <1>0, <2>2, SpentType, Zenon
  <2> QED
    BY <1>1, <1>2, <1>4, <2>1, <2>3 DEF WorkerDies, Processes
<1>5. CASE WorkerReads(s)
  <2>1. PICK to \in Processes :
          /\ WorkerStep(s, proc[s], to, <<>>)
          /\ inbox' = [inbox EXCEPT ![s] = IF to = "dead" THEN <<>> ELSE Tail(@)]
    <3> DEFINE to == CASE Head(inbox[s]) = "request"  -> "busy"
                       [] Head(inbox[s]) = "response" -> "busy"
                       [] Head(inbox[s]) = "exit"     -> "dead"
                       [] OTHER                       -> proc[s]
    <3>1. to \in Processes
      BY <1>0 DEF Processes
    <3>2. /\ WorkerStep(s, proc[s], to, <<>>)
          /\ inbox' = [inbox EXCEPT ![s] = IF to = "dead" THEN <<>> ELSE Tail(@)]
      BY <1>5, Zenon DEF WorkerReads
    <3> HIDE DEF to
    <3> QED
      BY <3>1, <3>2
  <2>2. inbox[s] # <<>>
    BY <1>5 DEF WorkerReads
  <2>3. inbox' \in [Servers -> Seq(Received)]
    BY <1>0, <2>1, <2>2
  <2>4. spent' = spent
    BY <1>5 DEF WorkerReads
  <2> QED
    BY <1>0, <1>1, <1>2, <2>1, <2>3, <2>4
<1>6. CASE WorkerEnds(s)
  BY <1>0, <1>1, <1>2, <1>6 DEF WorkerEnds, Processes, Messages
<1>7. ASSUME NEW name, NEW to \in Processes, NEW sent \in Messages,
             PageCommand(s, name, to, sent)
      PROVE  TypeOK'
  <2>1. spent' = [spent EXCEPT !.commands = @ + 1]
    BY <1>7 DEF PageCommand
  <2>2. spent' \in [commands : Nat, crashes : Nat]
    BY <1>0, <2>1, SpentType, Zenon
  <2> QED
    BY <1>0, <1>1, <1>2, <1>7, <2>2 DEF PageCommand
<1>8. CASE ExecNoRespCmd(s)
  BY <1>7, <1>8 DEF ExecNoRespCmd, Processes, Messages
<1>9. CASE ExecNeedRespCmd(s)
  BY <1>7, <1>9 DEF ExecNeedRespCmd, Processes, Messages
<1> QED
  BY <1>3, <1>4, <1>5, <1>6, <1>8, <1>9 DEF Worker

LEMMA NextType ==
  ASSUME TypeOK, [Next]_vars
  PROVE  TypeOK'
<1>1. CASE Next
  BY <1>1, ConnectionStepType, ServerEventType, TickType, AdministratorType, WorkerType
  DEF Next
<1>2. CASE UNCHANGED vars
  BY <1>2 DEF vars, TypeOK
<1> QED
  BY <1>1, <1>2

\* Whatever the manager does, its memory keeps its shape: the counters stay
\* counters, the lists hold connections and servers, and every server's fields
\* have values its handlers know.
THEOREM TypeCorrect == Spec => []TypeOK
<1>1. Init => TypeOK
  BY InitType
<1>2. TypeOK /\ [Next]_vars => TypeOK'
  BY NextType
<1> QED
  BY <1>1, <1>2, PTL DEF Spec


-----------------------------------------------------------------------------
(* What a situation depends on.                                            *)

\* m and n hold the same about t.
Same(m, n, t) ==
  /\ n.phase[t] = m.phase[t]
  /\ n.started[t] = m.started[t]
  /\ n.armed[t] = m.armed[t]
  /\ n.onSend[t] = m.onSend[t]
  /\ n.bound[t] = m.bound[t]
  /\ n.lastSent[t] = m.lastSent[t]
  /\ n.queue[t] = m.queue[t]
  /\ n.exiting[t] = m.exiting[t]
  /\ t \in n.idle <=> t \in m.idle

LEMMA SameIsTransitive ==
  ASSUME NEW a, NEW b, NEW c, NEW t, Same(a, b, t), Same(b, c, t)
  PROVE  Same(a, c, t)
BY DEF Same

LEMMA SameSession ==
  ASSUME NEW m, NEW n, NEW t, NEW p, NEW i, NEW o,
         Same(m, n, t), Session(m, t, p, i, o)
  PROVE  Session(n, t, p, i, o)
BY DEF Same, Session, Unused, Starting, Failed, Reporting, Idling, Heard, Pushing,
       Waking, Serving, Answering, Leaving

\* A server that has done what it had to and can be given a connection.
Ready(m, s) ==
  /\ Reporting(m, s) /\ s \notin m.idle /\ ~m.exiting[s] /\ Heard(m, s)
  /\ m.onSend[s] = "none" /\ m.bound[s] = NoConnection

\* A server whose worker rests and that has been given something to do.
Posted(m, s) ==
  Idling(m, s) \/ Pushing(m, s) \/ Waking(m, s) \/ Leaving(m, s)

LEMMA PostedSession ==
  ASSUME NEW m, NEW s, NEW p, NEW i, NEW o, Posted(m, s), Rests(p, i, o)
  PROVE  Session(m, s, p, i, o)
<1>1. Leaves(p, i, o)
  BY DEF Rests, Leaves, Only
<1> QED
  BY <1>1 DEF Posted, Session

\* A worker that is gone has nothing left to read.
LEMMA DeadReadsNothing ==
  ASSUME NEW m, NEW s, NEW i, NEW o, Session(m, s, "dead", i, o)
  PROVE  i = <<>>
BY DEF Session, Absent, Boots, Rests, Works, Waits, Leaves

-----------------------------------------------------------------------------
(* Messages.                                                               *)

Woken(m, T) == m.idle \cap {s \in T : m.lastSent[s] # "null"}

LEMMA AppendMessageEffect ==
  ASSUME NEW m \in Memory, NEW kind \in Kinds, NEW T \in SUBSET Servers, NEW n,
         n = AppendMessage(m, kind, T)
  PROVE  /\ n.phase = m.phase /\ n.started = m.started /\ n.armed = m.armed
         /\ n.bound = m.bound /\ n.exiting = m.exiting
         /\ n.idle = m.idle \ Woken(m, T)
         /\ \A s \in Servers :
              /\ n.onSend[s] = IF s \in Woken(m, T) THEN "DoPush" ELSE m.onSend[s]
              /\ n.lastSent[s] = IF s \in Woken(m, T) THEN kind ELSE m.lastSent[s]
              /\ s \notin T \/ s \in m.idle => n.queue[s] = m.queue[s]
         /\ n.process = m.process /\ n.mode = m.mode /\ n.serverCount = m.serverCount
         /\ n.pending = m.pending /\ n.waiting = m.waiting
BY DEF AppendMessage, Memory, Woken

\* A message for servers that are not idle waits for them.
LEMMA AppendMessageToBusy ==
  ASSUME NEW m \in Memory, NEW kind \in Kinds, NEW T \in SUBSET Servers,
         \A s \in T : s \notin m.idle, NEW n, n = AppendMessage(m, kind, T)
  PROVE  /\ n.phase = m.phase /\ n.started = m.started /\ n.armed = m.armed
         /\ n.bound = m.bound /\ n.exiting = m.exiting /\ n.idle = m.idle
         /\ \A s \in Servers :
              /\ n.onSend[s] = m.onSend[s] /\ n.lastSent[s] = m.lastSent[s]
              /\ s \notin T => n.queue[s] = m.queue[s]
<1>1. \A s : s \notin Woken(m, T)
  BY DEF Woken
<1>2. /\ n.phase = m.phase /\ n.started = m.started /\ n.armed = m.armed
      /\ n.bound = m.bound /\ n.exiting = m.exiting
  BY AppendMessageEffect
<1>3. n.idle = m.idle \ Woken(m, T)
  BY AppendMessageEffect
<1>4. \A s \in Servers :
        /\ n.onSend[s] = IF s \in Woken(m, T) THEN "DoPush" ELSE m.onSend[s]
        /\ n.lastSent[s] = IF s \in Woken(m, T) THEN kind ELSE m.lastSent[s]
        /\ s \notin T \/ s \in m.idle => n.queue[s] = m.queue[s]
  BY AppendMessageEffect
<1> QED
  BY <1>1, <1>2, <1>3, <1>4

LEMMA AppendMessageSession ==
  ASSUME NEW m \in Memory, NEW kind \in Kinds, NEW T \in SUBSET Servers,
         NEW t \in Servers, NEW p, NEW i, NEW o, Session(m, t, p, i, o)
  PROVE  Session(AppendMessage(m, kind, T), t, p, i, o)
<1> DEFINE n == AppendMessage(m, kind, T)
<1>0. n = AppendMessage(m, kind, T)
  OBVIOUS
<1> HIDE DEF n
<1>1. /\ n.phase = m.phase /\ n.started = m.started /\ n.armed = m.armed
      /\ n.bound = m.bound /\ n.exiting = m.exiting
      /\ n.idle = m.idle \ Woken(m, T)
      /\ n.onSend[t] = IF t \in Woken(m, T) THEN "DoPush" ELSE m.onSend[t]
      /\ n.lastSent[t] = IF t \in Woken(m, T) THEN kind ELSE m.lastSent[t]
      /\ t \in m.idle => n.queue[t] = m.queue[t]
  BY <1>0, AppendMessageEffect
<1>2. CASE t \in Woken(m, T)
  <2>1. Idling(m, t) /\ Rests(p, i, o)
    BY <1>2 DEF Session, Woken, Unused, Starting, Failed, Pushing, Waking, Serving,
                Answering, Leaving
  <2>2. Pushing(n, t)
    BY <1>1, <1>2, <2>1 DEF Idling, Pushing, Reporting, Heard, Kinds
  <2> QED
    BY <1>0, <2>1, <2>2 DEF Session
<1>3. CASE t \notin Woken(m, T)
  <2>1. Session(n, t, p, i, o)
    BY <1>1, <1>3 DEF Session, Unused, Starting, Failed, Reporting, Idling, Heard,
                      Pushing, Waking, Serving, Answering, Leaving
  <2> QED
    BY <1>0, <2>1
<1> QED
  BY <1>2, <1>3

LEMMA StopAllServersSession ==
  ASSUME NEW m \in Memory, NEW t \in Servers, NEW p, NEW i, NEW o,
         Session(m, t, p, i, o)
  PROVE  Session(StopAllServers(m), t, p, i, o)
<1> DEFINE a == AppendMessage(m, "exit", Servers)
           n == StopAllServers(m)
<1>1. a \in Memory /\ Session(a, t, p, i, o)
  BY AppendMessageType, AppendMessageSession DEF Kinds
<1>2. Same(a, n, t)
  BY <1>1 DEF StopAllServers, Same, Memory
<1> HIDE DEF a, n
<1>3. Session(n, t, p, i, o)
  BY <1>1, <1>2, SameSession
<1> QED
  BY <1>3 DEF n

LEMMA OnSendEffect ==
  ASSUME NEW m \in Memory, NEW s \in Servers, NEW v \in Callbacks,
         NEW n, n = [m EXCEPT !.onSend[s] = v]
  PROVE  /\ n \in Memory
         /\ n.phase = m.phase /\ n.started = m.started /\ n.armed = m.armed
         /\ n.bound = m.bound /\ n.exiting = m.exiting /\ n.idle = m.idle
         /\ n.lastSent = m.lastSent /\ n.queue = m.queue
         /\ n.onSend[s] = v
         /\ \A t \in Servers : t # s => Same(m, n, t)
<1>1. n \in Memory
  <2> DEFINE onSend == [m.onSend EXCEPT ![s] = v]
  <2>1. onSend \in [Servers -> Callbacks]
    BY DEF Memory
  <2>2. n = [m EXCEPT !.onSend = onSend]
    BY DEF Memory
  <2> HIDE DEF onSend
  <2> QED
    BY <2>1, <2>2, ZenonT(60) DEF Memory
<1>2. /\ n.phase = m.phase /\ n.started = m.started /\ n.armed = m.armed
      /\ n.bound = m.bound /\ n.exiting = m.exiting /\ n.idle = m.idle
      /\ n.lastSent = m.lastSent /\ n.queue = m.queue
      /\ n.onSend[s] = v
      /\ \A t \in Servers : t # s => n.onSend[t] = m.onSend[t]
  BY DEF Memory
<1> QED
  BY <1>1, <1>2 DEF Same

-----------------------------------------------------------------------------
(* Giving connections to servers.                                          *)

LEMMA GetIdleServersEffect ==
  ASSUME NEW m \in Memory, NEW S \in SUBSET Servers, NEW n, n = GetIdleServers(m, S)
  PROVE  /\ n \in Memory
         /\ \A t \in Servers : t \notin S => Same(m, n, t)
         /\ \A s \in S : Idling(m, s) => Ready(n, s)
<1>1. n \in Memory
  BY GetIdleServersType
<1>2. /\ n.phase = m.phase /\ n.started = m.started /\ n.armed = m.armed
      /\ n.bound = m.bound /\ n.exiting = m.exiting /\ n.onSend = m.onSend
      /\ n.lastSent = m.lastSent /\ n.queue = m.queue /\ n.idle = m.idle \ S
  BY DEF GetIdleServers, Memory
<1>3. \A t \in Servers : t \notin S => Same(m, n, t)
  BY <1>2 DEF Same
<1>4. \A s \in S : Idling(m, s) => Ready(n, s)
  BY <1>2 DEF Idling, Ready, Reporting, Heard
<1> QED
  BY <1>1, <1>3, <1>4

\* Servers that are ready wake up to their connections, and the exit message
\* of a last request concerns nobody else.
LEMMA AssignServersEffect ==
  ASSUME NEW m \in Memory, NEW S \in SUBSET Servers, NEW to \in [S -> Connections],
         \A s \in S : Ready(m, s), NEW n, n = AssignServers(m, S, to)
  PROVE  /\ \A s \in S : Waking(n, s)
         /\ \A t \in Servers : t \notin S => Same(m, n, t)
<1> DEFINE b == BindServers(m, S, to)
           last == LastRequest(b, S)
           told == [b EXCEPT !.ttl = [s \in Servers |->
                      IF s \in last THEN SecondsToLive ELSE @[s]]]
           bound == [s \in Servers |-> IF s \in S THEN to[s] ELSE m.bound[s]]
           onSend == [s \in Servers |-> IF s \in S THEN "WakeupServer" ELSE m.onSend[s]]
<1>1. n = IF last = {} THEN b ELSE AppendMessage(told, "exit", last)
  BY Zenon DEF AssignServers, CountRequests
<1>2. last \in SUBSET S
  BY DEF LastRequest
<1>3. b \in Memory
  BY BindServersType
<1>a. /\ b.phase = m.phase /\ b.started = m.started /\ b.armed = m.armed
      /\ b.exiting = m.exiting /\ b.lastSent = m.lastSent
      /\ b.queue = m.queue /\ b.idle = m.idle
      /\ b.bound = bound /\ b.onSend = onSend
  BY DEF BindServers, Memory
<1> HIDE DEF b
<1>4. \A s \in S : Waking(b, s)
  <2>1. \A s \in S : bound[s] \in Connections /\ onSend[s] = "WakeupServer"
    OBVIOUS
  <2> HIDE DEF bound, onSend
  <2> QED
    BY <1>a, <2>1, PoolAssumption DEF Ready, Waking, Reporting, Heard
<1>5. \A t \in Servers : t \notin S => Same(m, b, t)
  BY <1>a DEF Same
<1> HIDE DEF bound, onSend
<1>b. told \in Memory
  BY <1>3, LastRequestType, Zenon
<1>c. /\ told.phase = b.phase /\ told.started = b.started /\ told.armed = b.armed
      /\ told.bound = b.bound /\ told.exiting = b.exiting /\ told.idle = b.idle
      /\ told.onSend = b.onSend /\ told.lastSent = b.lastSent /\ told.queue = b.queue
  BY <1>3 DEF Memory
<1> HIDE DEF told, last
<1>6. CASE last = {}
  BY <1>1, <1>4, <1>5, <1>6
<1>7. CASE last # {}
  <2>1. n = AppendMessage(told, "exit", last)
    BY <1>1, <1>7
  <2>2. \A s \in S : s \notin b.idle
    BY <1>4 DEF Waking
  <2>4. "exit" \in Kinds /\ last \in SUBSET Servers
    BY <1>2 DEF Kinds
  <2>3. \A s \in last : s \notin told.idle
    BY <1>2, <1>c, <2>2
  <2>5. /\ n.phase = told.phase /\ n.started = told.started /\ n.armed = told.armed
        /\ n.bound = told.bound /\ n.exiting = told.exiting
        /\ n.idle = told.idle
        /\ \A s \in Servers :
             /\ n.onSend[s] = told.onSend[s] /\ n.lastSent[s] = told.lastSent[s]
             /\ s \notin last => n.queue[s] = told.queue[s]
    BY <1>b, <2>1, <2>3, <2>4, AppendMessageToBusy
  <2>6. \A s \in S : Waking(n, s)
    BY <1>4, <1>c, <2>5 DEF Waking, Reporting, Heard
  <2>7. \A t \in Servers : t \notin S => Same(b, n, t)
    BY <1>2, <1>c, <2>5 DEF Same
  <2> QED
    BY <1>5, <2>6, <2>7, SameIsTransitive
<1> QED
  BY <1>6, <1>7

LEMMA AssignServerEffect ==
  ASSUME NEW m \in Memory, NEW s \in Servers, NEW c \in Connections, Ready(m, s),
         NEW n, n = AssignServer(m, s, c)
  PROVE  /\ Waking(n, s)
         /\ \A t \in Servers : t # s => Same(m, n, t)
<1>1. {s} \in SUBSET Servers /\ [x \in {s} |-> c] \in [{s} -> Connections]
  OBVIOUS
<1>2. n = AssignServers(m, {s}, [x \in {s} |-> c])
  BY DEF AssignServer
<1>3. \A x \in {s} : Ready(m, x)
  OBVIOUS
<1>4. \A x \in {s} : Waking(n, x)
  BY <1>1, <1>2, <1>3, AssignServersEffect
<1>5. \A t \in Servers : t \notin {s} => Same(m, n, t)
  BY <1>1, <1>2, <1>3, AssignServersEffect
<1> QED
  BY <1>4, <1>5

\* A server that is ready and has heard everything gets a connection or is
\* idle, unless it is being deleted.
LEMMA GiveWorkEffect ==
  ASSUME NEW m \in Memory, NEW s \in Servers, Ready(m, s), ~HasNext(m, s),
         NEW n, n = GiveWork(m, s)
  PROVE  /\ Posted(n, s)
         /\ \A t \in Servers : t # s => Same(m, n, t)
<1>1. CASE m.waiting # <<>> /\ m.mode # "paused"
  <2> DEFINE rest == Tail(m.waiting)
             c == Head(m.waiting)
             w == [m EXCEPT !.waiting = rest]
  <2>1. m.waiting \in Seq(Connections)
    BY DEF Memory
  <2>2. c \in Connections /\ rest \in Seq(Connections)
    BY <1>1, <2>1
  <2>3. n = AssignServer(w, s, c)
    BY <1>1 DEF GiveWork, Memory
  <2> HIDE DEF rest, c
  <2>4. w \in Memory
    BY <2>2 DEF Memory
  <2>5. \A t \in Servers : Same(m, w, t)
    BY DEF Same, Memory
  <2>6. Ready(w, s)
    BY <2>5 DEF Same, Ready, Reporting, Heard
  <2> HIDE DEF w
  <2>7. Waking(n, s) /\ \A t \in Servers : t # s => Same(w, n, t)
    BY <2>2, <2>3, <2>4, <2>6, AssignServerEffect
  <2> QED
    BY <2>5, <2>7, SameIsTransitive DEF Posted
<1>2. CASE ~(m.waiting # <<>> /\ m.mode # "paused") /\ m.phase[s] = "dying"
  <2>1. n = m
    BY <1>2 DEF GiveWork, AddIdleServer
  <2>2. Leaving(n, s)
    BY <1>2, <2>1 DEF Ready, Leaving
  <2> QED
    BY <2>1, <2>2 DEF Posted, Same
<1>3. CASE ~(m.waiting # <<>> /\ m.mode # "paused") /\ m.phase[s] # "dying"
  <2>1. n = [m EXCEPT !.idle = @ \cup {s}, !.idleTime[s] = 0]
    BY <1>3 DEF GiveWork, AddIdleServer
  <2>2. /\ n.phase = m.phase /\ n.started = m.started /\ n.armed = m.armed
        /\ n.bound = m.bound /\ n.exiting = m.exiting /\ n.onSend = m.onSend
        /\ n.lastSent = m.lastSent /\ n.queue = m.queue /\ n.idle = m.idle \cup {s}
    BY <2>1 DEF Memory
  <2>3. m.phase[s] = "live"
    BY <1>3 DEF Ready, Reporting, Memory
  <2>4. m.queue[s] = <<>>
    BY <2>3 DEF HasNext, Ready, Heard
  <2>5. Idling(n, s)
    BY <2>2, <2>3, <2>4 DEF Ready, Idling, Reporting, Heard
  <2>6. \A t \in Servers : t # s => Same(m, n, t)
    BY <2>2 DEF Same
  <2> QED
    BY <2>5, <2>6 DEF Posted
<1> QED
  BY <1>1, <1>2, <1>3

\* The next message is one DoPush can send.
LEMMA TakeNextEffect ==
  ASSUME NEW m \in Memory, NEW s \in Servers, HasNext(m, s), NEW n, n = TakeNext(m, s)
  PROVE  /\ n \in Memory
         /\ n.phase = m.phase /\ n.started = m.started /\ n.armed = m.armed
         /\ n.bound = m.bound /\ n.exiting = m.exiting /\ n.onSend = m.onSend
         /\ n.idle = m.idle
         /\ n.lastSent[s] \in Kinds
         /\ \A t \in Servers : t # s => Same(m, n, t)
<1>1. n \in Memory
  BY TakeNextType
<1>2. m.queue[s] \in Seq(Kinds) /\ m.queue[s] # <<>>
  BY DEF HasNext, Memory
<1>3. Head(m.queue[s]) \in Kinds
  BY <1>2
<1>4. /\ n.phase = m.phase /\ n.started = m.started /\ n.armed = m.armed
      /\ n.bound = m.bound /\ n.exiting = m.exiting /\ n.onSend = m.onSend
      /\ n.idle = m.idle
      /\ n.lastSent[s] = Head(m.queue[s])
      /\ \A t \in Servers : t # s => n.lastSent[t] = m.lastSent[t] /\ n.queue[t] = m.queue[t]
  BY DEF TakeNext, Memory
<1>5. \A t \in Servers : t # s => Same(m, n, t)
  BY <1>4 DEF Same
<1> QED
  BY <1>1, <1>3, <1>4, <1>5

LEMMA UnbindEffect ==
  ASSUME NEW m \in Memory, NEW s \in Servers, NEW n, n = Unbind(m, s)
  PROVE  /\ n \in Memory
         /\ n.phase = m.phase /\ n.started = m.started /\ n.armed = m.armed
         /\ n.exiting = m.exiting /\ n.onSend = m.onSend /\ n.lastSent = m.lastSent
         /\ n.queue = m.queue /\ n.idle = m.idle
         /\ n.bound[s] = NoConnection
         /\ \A t \in Servers : t # s => Same(m, n, t)
<1>1. n \in Memory
  BY UnbindType
<1>2. /\ n.phase = m.phase /\ n.started = m.started /\ n.armed = m.armed
      /\ n.exiting = m.exiting /\ n.onSend = m.onSend /\ n.lastSent = m.lastSent
      /\ n.queue = m.queue /\ n.idle = m.idle
      /\ n.bound[s] = NoConnection
      /\ \A t \in Servers : t # s => n.bound[t] = m.bound[t]
  <2>1. CASE m.bound[s] = NoConnection
    BY <2>1 DEF Unbind
  <2>2. CASE m.bound[s] # NoConnection
    BY <2>2 DEF Unbind, Memory
  <2> QED
    BY <2>1, <2>2
<1>3. \A t \in Servers : t # s => Same(m, n, t)
  BY <1>2 DEF Same
<1> QED
  BY <1>1, <1>2, <1>3

\* Whatever its connection, a server that has done what it had to is posted.
LEMMA RedeployServerEffect ==
  ASSUME NEW m \in Memory, NEW s \in Servers, NEW n, n = RedeployServer(m, s),
         Reporting(m, s), s \notin m.idle, ~m.exiting[s], Heard(m, s),
         m.onSend[s] = "none"
  PROVE  /\ Posted(n, s)
         /\ \A t \in Servers : t # s => Same(m, n, t)
<1> DEFINE u == Unbind(m, s)
           k == TakeNext(u, s)
<1>0. u = Unbind(m, s)
  OBVIOUS
<1>1. n = IF HasNext(u, s) THEN [k EXCEPT !.onSend[s] = "DoPush"] ELSE GiveWork(u, s)
  BY DEF RedeployServer
<1> HIDE DEF u
<1>2. /\ u \in Memory
      /\ u.phase = m.phase /\ u.started = m.started /\ u.armed = m.armed
      /\ u.exiting = m.exiting /\ u.onSend = m.onSend /\ u.lastSent = m.lastSent
      /\ u.queue = m.queue /\ u.idle = m.idle
      /\ u.bound[s] = NoConnection
      /\ \A t \in Servers : t # s => Same(m, u, t)
  BY <1>0, UnbindEffect
<1>3. Ready(u, s)
  BY <1>2 DEF Ready, Reporting, Heard
<1>4. CASE HasNext(u, s)
  <2>0. k = TakeNext(u, s)
    OBVIOUS
  <2> HIDE DEF k
  <2>1. /\ k \in Memory
        /\ k.phase = u.phase /\ k.started = u.started /\ k.armed = u.armed
        /\ k.bound = u.bound /\ k.exiting = u.exiting /\ k.onSend = u.onSend
        /\ k.idle = u.idle
        /\ k.lastSent[s] \in Kinds
        /\ \A t \in Servers : t # s => Same(u, k, t)
    BY <1>2, <1>4, <2>0, TakeNextEffect
  <2>2. n = [k EXCEPT !.onSend[s] = "DoPush"]
    BY <1>1, <1>4
  <2>3. /\ n.phase = k.phase /\ n.started = k.started /\ n.armed = k.armed
        /\ n.bound = k.bound /\ n.exiting = k.exiting /\ n.idle = k.idle
        /\ n.lastSent = k.lastSent /\ n.queue = k.queue
        /\ n.onSend[s] = "DoPush"
        /\ \A t \in Servers : t # s => Same(k, n, t)
    BY <2>1, <2>2, OnSendEffect DEF Callbacks
  <2>4. Pushing(n, s)
    BY <1>3, <2>1, <2>3 DEF Ready, Pushing, Reporting, Heard, Kinds
  <2> QED
    BY <1>2, <2>1, <2>3, <2>4, SameIsTransitive DEF Posted
<1>5. CASE ~HasNext(u, s)
  <2>1. n = GiveWork(u, s)
    BY <1>1, <1>5
  <2>2. Posted(n, s) /\ \A t \in Servers : t # s => Same(u, n, t)
    BY <1>2, <1>3, <1>5, <2>1, GiveWorkEffect
  <2> QED
    BY <1>2, <2>2, SameIsTransitive
<1> QED
  BY <1>4, <1>5

\* A worker that reports in is posted at once, or leaves because it was killed
\* while it started.
LEMMA StartSucceededEffect ==
  ASSUME NEW m \in Memory, NEW s \in Servers, Starting(m, s),
         NEW n, n = StartSucceeded(m, s)
  PROVE  /\ Posted(n, s)
         /\ \A t \in Servers : t # s => Same(m, n, t)
<1> DEFINE count == (m.serverCount + 1) % CountWord
           up == [m EXCEPT !.serverCount = count, !.started[s] = TRUE, !.pending = FALSE]
           b == BringUpToDate(up, s)
<1>1. count \in 0..CountWord-1
  <2>1. m.serverCount + 1 \in Int
    BY BoundAssumption DEF Memory
  <2> QED
    BY <2>1, WordType
<1>2. n = RedeployServer(b, s)
  BY DEF StartSucceeded, Memory
<1> HIDE DEF count
<1>3. up \in Memory
  BY <1>1 DEF Memory
<1>4. /\ up.phase = m.phase /\ up.armed = m.armed /\ up.exiting = m.exiting
      /\ up.onSend = m.onSend /\ up.idle = m.idle /\ up.started[s] = TRUE
      /\ up.bound = m.bound /\ up.lastSent = m.lastSent /\ up.queue = m.queue
      /\ \A t \in Servers : t # s => up.started[t] = m.started[t]
  BY DEF Memory
<1> HIDE DEF up
<1>5. b \in Memory
  BY <1>3, BringUpToDateType
<1>6. /\ b.phase = up.phase /\ b.armed = up.armed /\ b.exiting = up.exiting
      /\ b.onSend = up.onSend /\ b.idle = up.idle /\ b.started = up.started
      /\ b.bound = up.bound /\ b.lastSent[s] = "none"
      /\ \A t \in Servers : t # s => b.lastSent[t] = up.lastSent[t] /\ b.queue[t] = up.queue[t]
  BY <1>3 DEF BringUpToDate, Memory
<1> HIDE DEF b
<1>7. \A t \in Servers : t # s => Same(m, b, t)
  BY <1>4, <1>6 DEF Same
<1>8. Reporting(b, s) /\ s \notin b.idle /\ ~b.exiting[s] /\ Heard(b, s) /\ b.onSend[s] = "none"
  BY <1>4, <1>6 DEF Starting, Reporting, Heard
<1>9. Posted(n, s) /\ \A t \in Servers : t # s => Same(b, n, t)
  BY <1>2, <1>5, <1>8, RedeployServerEffect
<1> QED
  BY <1>7, <1>9, SameIsTransitive

\* After a push: a worker told to exit leaves, any other is posted.
LEMMA AfterPushEffect ==
  ASSUME NEW m \in Memory, NEW s \in Servers, NEW n, n = AfterPush(m, s),
         Reporting(m, s), s \notin m.idle, Heard(m, s),
         m.onSend[s] = "DoPush", m.bound[s] = NoConnection
  PROVE  /\ Posted(n, s)
         /\ m.exiting[s] => Leaving(n, s)
         /\ \A t \in Servers : t # s => Same(m, n, t)
<1> DEFINE done == [m EXCEPT !.onSend[s] = "none"]
<1>1. n = IF m.exiting[s] THEN done
          ELSE IF HasNext(m, s) THEN TakeNext(m, s) ELSE GiveWork(done, s)
  BY Zenon DEF AfterPush
<1>2. done = [m EXCEPT !.onSend[s] = "none"]
  OBVIOUS
<1> HIDE DEF done
<1>3. /\ done \in Memory
      /\ done.phase = m.phase /\ done.started = m.started /\ done.armed = m.armed
      /\ done.bound = m.bound /\ done.exiting = m.exiting /\ done.idle = m.idle
      /\ done.lastSent = m.lastSent /\ done.queue = m.queue
      /\ done.onSend[s] = "none"
      /\ \A t \in Servers : t # s => Same(m, done, t)
  BY <1>2, OnSendEffect DEF Callbacks
<1>4. CASE m.exiting[s]
  <2>1. n = done
    BY <1>1, <1>4
  <2>2. Leaving(n, s)
    BY <1>3, <1>4, <2>1 DEF Leaving, Reporting
  <2> QED
    BY <1>3, <2>1, <2>2 DEF Posted
<1>5. CASE ~m.exiting[s] /\ HasNext(m, s)
  <2>1. n = TakeNext(m, s)
    BY <1>1, <1>5
  <2>2. /\ n.phase = m.phase /\ n.started = m.started /\ n.armed = m.armed
        /\ n.bound = m.bound /\ n.exiting = m.exiting /\ n.onSend = m.onSend
        /\ n.idle = m.idle
        /\ n.lastSent[s] \in Kinds
        /\ \A t \in Servers : t # s => Same(m, n, t)
    BY <1>5, <2>1, TakeNextEffect
  <2>3. Pushing(n, s)
    BY <1>5, <2>2 DEF Pushing, Reporting, Heard, Kinds
  <2> QED
    BY <1>5, <2>2, <2>3 DEF Posted
<1>6. CASE ~m.exiting[s] /\ ~HasNext(m, s)
  <2>1. n = GiveWork(done, s)
    BY <1>1, <1>6
  <2>2. Ready(done, s) /\ ~HasNext(done, s)
    BY <1>3, <1>6 DEF Ready, Reporting, Heard, HasNext
  <2>3. Posted(n, s) /\ \A t \in Servers : t # s => Same(done, n, t)
    BY <1>3, <2>1, <2>2, GiveWorkEffect
  <2> QED
    BY <1>3, <1>6, <2>3, SameIsTransitive
<1> QED
  BY <1>4, <1>5, <1>6

-----------------------------------------------------------------------------
(* Killing, deleting and creating servers.                                 *)

LEMMA KillServersEffect ==
  ASSUME NEW m \in Memory, NEW K \in SUBSET Servers, NEW n, n = KillServers(m, K)
  PROVE  /\ \A t \in Servers : t \notin K => Same(m, n, t)
         /\ \A t \in K :
              /\ n.phase[t] = "dying"
              /\ t \in n.idle <=> t \in m.idle /\ m.phase[t] = "dying"
              /\ n.started[t] = m.started[t] /\ n.armed[t] = m.armed[t]
              /\ n.onSend[t] = m.onSend[t] /\ n.bound[t] = m.bound[t]
              /\ n.exiting[t] = m.exiting[t]
              /\ n.lastSent[t] \in {"null", m.lastSent[t]}
<1> DEFINE r == RemoveServers(m, K \ Dying(m))
<1>1. r \in Memory
  BY RemoveServersType
<1>2. /\ r.phase = m.phase /\ r.started = m.started /\ r.armed = m.armed
      /\ r.onSend = m.onSend /\ r.bound = m.bound /\ r.exiting = m.exiting
      /\ r.idle = m.idle \ (K \ Dying(m))
      /\ \A t \in Servers :
           /\ r.lastSent[t] = IF t \in K \ Dying(m) THEN "null" ELSE m.lastSent[t]
           /\ r.queue[t] = IF t \in K \ Dying(m) THEN <<>> ELSE m.queue[t]
  BY DEF RemoveServers, Memory
<1> HIDE DEF r
<1>3. /\ n.started = r.started /\ n.armed = r.armed /\ n.onSend = r.onSend
      /\ n.bound = r.bound /\ n.exiting = r.exiting /\ n.idle = r.idle
      /\ n.lastSent = r.lastSent /\ n.queue = r.queue
      /\ \A t \in Servers : n.phase[t] = IF t \in K THEN "dying" ELSE r.phase[t]
  BY <1>1 DEF KillServers, r, Memory
<1>4. \A t \in Servers : t \notin K => Same(m, n, t)
  BY <1>2, <1>3 DEF Same
<1>5. \A t \in K : t \in n.idle <=> t \in m.idle /\ m.phase[t] = "dying"
  BY <1>2, <1>3 DEF Dying
<1> QED
  BY <1>2, <1>3, <1>4, <1>5

\* A worker that is slaughtered leaves its session as a dead one.
LEMMA KilledSession ==
  ASSUME NEW m \in Memory, NEW K \in SUBSET Servers, NEW t \in K,
         NEW p, NEW i, NEW o, Session(m, t, p, i, o), m.phase[t] = "live"
  PROVE  Session(KillServers(m, K), t, "dead", <<>>, o)
<1> DEFINE n == KillServers(m, K)
<1>1. n = KillServers(m, K)
  OBVIOUS
<1> HIDE DEF n
<1>2. /\ n.phase[t] = "dying" /\ t \notin n.idle
      /\ n.started[t] = m.started[t] /\ n.armed[t] = m.armed[t]
      /\ n.onSend[t] = m.onSend[t] /\ n.bound[t] = m.bound[t]
      /\ n.exiting[t] = m.exiting[t]
      /\ n.lastSent[t] \in {"null", m.lastSent[t]}
  BY <1>1, KillServersEffect
<1>3. CASE Starting(m, t) /\ Boots(p, i, o)
  <2>1. Starting(n, t) /\ Boots("dead", <<>>, o)
    BY <1>2, <1>3 DEF Starting, Boots
  <2> QED
    BY <1>1, <2>1 DEF Session
<1>4. CASE Idling(m, t) /\ Rests(p, i, o)
  <2>1. Leaving(n, t) /\ Leaves("dead", <<>>, o)
    BY <1>2, <1>4 DEF Idling, Leaving, Reporting, Rests, Leaves
  <2> QED
    BY <1>1, <2>1 DEF Session
<1>5. CASE (Pushing(m, t) \/ Waking(m, t)) /\ Rests(p, i, o)
  <2>1. (Pushing(n, t) \/ Waking(n, t)) /\ Rests("dead", <<>>, o)
    BY <1>2, <1>5 DEF Pushing, Waking, Reporting, Heard, Rests
  <2> QED
    BY <1>1, <2>1 DEF Session
<1>6. CASE Serving(m, t) /\ Works(p, i, o)
  <2>1. Serving(n, t)
    BY <1>2, <1>6 DEF Serving, Reporting, Heard
  <2>2. Works("dead", <<>>, o)
    BY <1>6 DEF Works, Only, EndsIn
  <2> QED
    BY <1>1, <2>1, <2>2 DEF Session
<1>7. CASE Answering(m, t) /\ Waits(p, i, o)
  <2>1. Answering(n, t) /\ Waits("dead", <<>>, o)
    BY <1>2, <1>7 DEF Answering, Reporting, Heard, Waits
  <2> QED
    BY <1>1, <2>1 DEF Session
<1>8. CASE Leaving(m, t) /\ Leaves(p, i, o)
  <2>1. Leaving(n, t) /\ Leaves("dead", <<>>, o)
    BY <1>2, <1>8 DEF Leaving, Reporting, Leaves
  <2> QED
    BY <1>1, <2>1 DEF Session
<1> QED
  BY <1>3, <1>4, <1>5, <1>6, <1>7, <1>8 DEF Session, Unused, Failed

\* A callback that fails leaves the server for deletion, without its events.
LEMMA FailServerEffect ==
  ASSUME NEW m \in Memory, NEW s \in Servers, NEW n, n = FailServer(m, s),
         s \in m.idle => m.phase[s] = "live",
         m.exiting[s] => m.bound[s] = NoConnection
  PROVE  /\ Failed(n, s)
         /\ \A t \in Servers : t # s => Same(m, n, t)
<1> DEFINE a == [m EXCEPT !.armed[s] = FALSE]
<1>1. n = KillServers(a, {s})
  BY DEF FailServer
<1>2. a \in Memory
  BY DEF Memory
<1>3. /\ a.phase = m.phase /\ a.started = m.started /\ a.onSend = m.onSend
      /\ a.bound = m.bound /\ a.exiting = m.exiting /\ a.idle = m.idle
      /\ a.lastSent = m.lastSent /\ a.queue = m.queue
      /\ a.armed[s] = FALSE
      /\ \A t \in Servers : t # s => a.armed[t] = m.armed[t]
  BY DEF Memory
<1> HIDE DEF a
<1>4. \A t \in Servers : t # s => Same(m, a, t)
  BY <1>3 DEF Same
<1>5. {s} \in SUBSET Servers
  OBVIOUS
<1>6. \A t \in Servers : t \notin {s} => Same(a, n, t)
  BY <1>1, <1>2, <1>5, KillServersEffect
<1>7. \A t \in {s} :
        /\ n.phase[t] = "dying"
        /\ t \in n.idle <=> t \in a.idle /\ a.phase[t] = "dying"
        /\ n.started[t] = a.started[t] /\ n.armed[t] = a.armed[t]
        /\ n.onSend[t] = a.onSend[t] /\ n.bound[t] = a.bound[t]
        /\ n.exiting[t] = a.exiting[t]
        /\ n.lastSent[t] \in {"null", a.lastSent[t]}
  BY <1>1, <1>2, <1>5, KillServersEffect
<1>8. Failed(n, s)
  BY <1>3, <1>7 DEF Failed
<1> QED
  BY <1>4, <1>6, <1>8, SameIsTransitive

LEMMA DeleteServersEffect ==
  ASSUME NEW m \in Memory, NEW n, n = DeleteServers(m)
  PROVE  /\ \A t \in Servers : m.phase[t] # "dying" => Same(m, n, t)
         /\ \A t \in Servers : m.phase[t] = "dying" /\ t \notin m.idle => Unused(n, t)
<1>1. /\ n.idle = m.idle
      /\ \A t \in Servers :
           /\ n.phase[t] = IF t \in Dying(m) THEN "free" ELSE m.phase[t]
           /\ n.started[t] = IF t \in Dying(m) THEN FALSE ELSE m.started[t]
           /\ n.armed[t] = IF t \in Dying(m) THEN TRUE ELSE m.armed[t]
           /\ n.onSend[t] = IF t \in Dying(m) THEN "none" ELSE m.onSend[t]
           /\ n.bound[t] = IF t \in Dying(m) THEN NoConnection ELSE m.bound[t]
           /\ n.lastSent[t] = IF t \in Dying(m) THEN "null" ELSE m.lastSent[t]
           /\ n.queue[t] = IF t \in Dying(m) THEN <<>> ELSE m.queue[t]
           /\ n.exiting[t] = IF t \in Dying(m) THEN FALSE ELSE m.exiting[t]
  <2>1. /\ n.idle = m.idle
        /\ \A t \in Servers :
             /\ n.phase[t] = IF t \in Dying(m) THEN "free" ELSE m.phase[t]
             /\ n.started[t] = IF t \in Dying(m) THEN FALSE ELSE m.started[t]
    BY DEF DeleteServers, LastServerStopped, Memory
  <2>2. \A t \in Servers :
           /\ n.armed[t] = IF t \in Dying(m) THEN TRUE ELSE m.armed[t]
           /\ n.onSend[t] = IF t \in Dying(m) THEN "none" ELSE m.onSend[t]
           /\ n.bound[t] = IF t \in Dying(m) THEN NoConnection ELSE m.bound[t]
    BY DEF DeleteServers, LastServerStopped, Memory
  <2>3. \A t \in Servers :
           /\ n.lastSent[t] = IF t \in Dying(m) THEN "null" ELSE m.lastSent[t]
           /\ n.queue[t] = IF t \in Dying(m) THEN <<>> ELSE m.queue[t]
           /\ n.exiting[t] = IF t \in Dying(m) THEN FALSE ELSE m.exiting[t]
    BY DEF DeleteServers, LastServerStopped, Memory
  <2> QED
    BY <2>1, <2>2, <2>3
<1>2. \A t \in Servers : t \in Dying(m) <=> m.phase[t] = "dying"
  BY DEF Dying
<1>3. \A t \in Servers : m.phase[t] # "dying" => Same(m, n, t)
  BY <1>1, <1>2 DEF Same
<1>4. \A t \in Servers : m.phase[t] = "dying" /\ t \notin m.idle => Unused(n, t)
  BY <1>1, <1>2 DEF Unused
<1> QED
  BY <1>3, <1>4

\* A new server takes a free slot, which holds what the constructor sets.
LEMMA CreateNewProcessEffect ==
  ASSUME NEW m \in Memory, RoomToFork(m), NEW n, n = CreateNewProcess(m)
  PROVE  /\ \A t \in Servers : m.phase[t] # "free" => Same(m, n, t)
         /\ \A t \in Servers :
              Unused(m, t) => Unused(n, t) \/ (Starting(n, t) /\ n.phase[t] = "live")
<1>1. CASE ~ProcessCreationAllowed(m)
  <2>1. n = m
    BY <1>1 DEF CreateNewProcess
  <2>2. \A t : Same(m, n, t)
    BY <2>1 DEF Same
  <2>3. \A t : Unused(m, t) => Unused(n, t)
    BY <2>1
  <2> QED
    BY <2>2, <2>3
<1>2. CASE ProcessCreationAllowed(m)
  <2> DEFINE s == CHOOSE x \in Servers : m.phase[x] = "free"
  <2>1. s \in Servers /\ m.phase[s] = "free"
    BY <1>2 DEF RoomToFork, Free
  <2>2. n = [m EXCEPT !.pending = TRUE, !.phase[s] = "live"]
    BY <1>2 DEF CreateNewProcess
  <2> HIDE DEF s
  <2>3. /\ n.started = m.started /\ n.armed = m.armed /\ n.onSend = m.onSend
        /\ n.bound = m.bound /\ n.exiting = m.exiting /\ n.idle = m.idle
        /\ n.lastSent = m.lastSent /\ n.queue = m.queue
        /\ \A t \in Servers : n.phase[t] = IF t = s THEN "live" ELSE m.phase[t]
    <3> DEFINE phase == [m.phase EXCEPT ![s] = "live"]
    <3>1. \A t \in Servers : phase[t] = IF t = s THEN "live" ELSE m.phase[t]
      BY <2>1 DEF Memory
    <3>2. n = [m EXCEPT !.pending = TRUE, !.phase = phase]
      BY <2>2 DEF Memory
    <3> HIDE DEF phase
    <3>3. n.phase = phase
      BY <3>2 DEF Memory
    <3>4. /\ n.started = m.started /\ n.armed = m.armed /\ n.onSend = m.onSend
          /\ n.bound = m.bound /\ n.exiting = m.exiting /\ n.idle = m.idle
          /\ n.lastSent = m.lastSent /\ n.queue = m.queue
      BY <3>2 DEF Memory
    <3> QED
      BY <3>1, <3>3, <3>4
  <2>4. \A t \in Servers : m.phase[t] # "free" => Same(m, n, t)
    BY <2>1, <2>3 DEF Same
  <2>5. ASSUME NEW t \in Servers, Unused(m, t)
        PROVE  Unused(n, t) \/ (Starting(n, t) /\ n.phase[t] = "live")
    BY <2>1, <2>3, <2>5 DEF Unused, Starting
  <2> QED
    BY <2>4, <2>5
<1> QED
  BY <1>1, <1>2

-----------------------------------------------------------------------------
(* What is in a socket.                                                    *)

LEMMA LengthZero ==
  ASSUME NEW X, NEW q \in Seq(X)
  PROVE  Len(q) \in Nat /\ (q = <<>> <=> Len(q) = 0)
OBVIOUS

LEMMA OnlyTail ==
  ASSUME NEW X, NEW q \in Seq(X), NEW S, Only(q, S), q # <<>>
  PROVE  Head(q) \in S /\ Only(Tail(q), S)
BY DEF Only

\* The length and the elements of Append.
LEMMA Appended ==
  ASSUME NEW X, NEW q \in Seq(X), NEW x \in X
  PROVE  /\ Append(q, x) \in Seq(X) /\ Append(q, x) # <<>>
         /\ Len(Append(q, x)) = Len(q) + 1
         /\ DOMAIN Append(q, x) = 1..Len(q)+1
         /\ Append(q, x)[Len(q)+1] = x
         /\ \A j \in 1..Len(q) : Append(q, x)[j] = q[j]
OBVIOUS

LEMMA OnlyAppend ==
  ASSUME NEW X, NEW q \in Seq(X), NEW S, Only(q, S), NEW x \in X
  PROVE  /\ x \in S => Only(Append(q, x), S)
         /\ \A L : x \in L => EndsIn(Append(q, x), S, L)
<1>1. Len(q) \in Nat /\ DOMAIN q = 1..Len(q)
  OBVIOUS
<1>2. \A j \in 1..Len(q) : Append(q, x)[j] \in S
  BY <1>1, Appended DEF Only
<1>3. ASSUME x \in S PROVE Only(Append(q, x), S)
  <2>1. \A j \in 1..Len(q)+1 : j \in 1..Len(q) \/ j = Len(q)+1
    BY <1>1
  <2> QED
    BY <1>2, <1>3, <2>1, Appended DEF Only
<1>4. ASSUME NEW L, x \in L PROVE EndsIn(Append(q, x), S, L)
  <2>1. 1..Len(Append(q, x))-1 = 1..Len(q)
    BY <1>1, Appended
  <2>2. Append(q, x)[Len(Append(q, x))] \in L /\ Append(q, x) # <<>>
    BY <1>4, Appended
  <2> QED
    BY <1>2, <2>1, <2>2 DEF EndsIn
<1> QED
  BY <1>3, <1>4

LEMMA OneOrMore == \A n \in Nat : n >= 1 => n = 1 \/ n > 1
OBVIOUS

LEMMA EndsInTail ==
  ASSUME NEW X, NEW q \in Seq(X), NEW S, NEW L, EndsIn(q, S, L)
  PROVE  \/ Tail(q) = <<>> /\ Head(q) \in L
         \/ Head(q) \in S /\ EndsIn(Tail(q), S, L)
<1>a. q # <<>>
  BY DEF EndsIn
<1>0. Len(q) \in Nat /\ Len(q) >= 1
  BY <1>a, LengthZero
<1>1. q # <<>> /\ Len(q) \in Nat /\ Len(q) >= 1 /\ Head(q) = q[1]
  BY <1>a, <1>0
<1>2. /\ q[Len(q)] \in L
      /\ \A j \in 1..Len(q)-1 : q[j] \in S
  BY DEF EndsIn
<1>3. /\ Tail(q) \in Seq(X) /\ Len(Tail(q)) = Len(q) - 1
      /\ \A j \in 1..Len(q)-1 : Tail(q)[j] = q[j+1]
  BY <1>1
<1>4. CASE Len(q) = 1
  <2>1. Len(Tail(q)) = 0
    BY <1>3, <1>4
  <2>1a. Tail(q) = <<>>
    BY <1>3, <2>1, LengthZero
  <2> QED
    BY <1>1, <1>2, <1>4, <2>1a
<1>5. CASE Len(q) > 1
  <2>1. Head(q) \in S
    BY <1>1, <1>2, <1>5
  <2>2. Len(q)-1 \in 1..Len(q)-1 /\ (Len(q)-1)+1 = Len(q)
    BY <1>1, <1>5
  <2>3. Tail(q)[Len(Tail(q))] \in L
    BY <1>2, <1>3, <2>2
  <2>4. \A j \in 1..Len(Tail(q))-1 : j \in 1..Len(q)-1 /\ j+1 \in 1..Len(q)-1
    BY <1>1, <1>3
  <2>5. \A j \in 1..Len(Tail(q))-1 : Tail(q)[j] \in S
    BY <1>2, <1>3, <2>4
  <2>6a. Len(Tail(q)) # 0
    BY <1>0, <1>3, <1>5
  <2>6. Tail(q) # <<>>
    BY <1>3, <2>6a, LengthZero
  <2> QED
    BY <2>1, <2>3, <2>5, <2>6 DEF EndsIn
<1> QED
  BY <1>0, <1>4, <1>5, OneOrMore

\* EndsIn and Only of the sequences the proofs name.
LEMMA ShortSequences ==
  ASSUME NEW x, NEW S
  PROVE  /\ Only(<<>>, S)
         /\ x \in S => Only(<<x>>, S)
         /\ \A L : x \in L => EndsIn(<<x>>, S, L)
BY DEF Only, EndsIn

-----------------------------------------------------------------------------
(* Steps of the manager: what holds of one server after them.              *)

\* Every situation, read from the fields that tell it.
LEMMA IdleSession ==
  ASSUME NEW m, NEW s, NEW p, NEW i, NEW o, Session(m, s, p, i, o), s \in m.idle
  PROVE  Idling(m, s) /\ Rests(p, i, o)
BY DEF Session, Unused, Starting, Pushing, Waking, Serving, Answering, Leaving, Failed

LEMMA FreeSession ==
  ASSUME NEW m, NEW s, NEW p, NEW i, NEW o, Session(m, s, p, i, o), m.phase[s] = "free"
  PROVE  Unused(m, s) /\ Absent(p, i, o)
BY DEF Session, Starting, Reporting, Idling, Pushing, Waking, Serving, Answering,
       Leaving, Failed

\* FailServer may be called on any server.
LEMMA SessionMayFail ==
  ASSUME NEW m, NEW s, NEW p, NEW i, NEW o, Session(m, s, p, i, o)
  PROVE  /\ s \in m.idle => m.phase[s] = "live"
         /\ m.exiting[s] => m.bound[s] = NoConnection
BY DEF Session, Unused, Starting, Idling, Pushing, Waking, Serving, Answering,
       Leaving, Failed

\* A step about one server.
LEMMA OneServer ==
  ASSUME Sessions, NEW s \in Servers,
         \A t \in Servers : t # s =>
           /\ Same(mgr, mgr', t)
           /\ proc'[t] = proc[t] /\ inbox'[t] = inbox[t] /\ outbox'[t] = outbox[t],
         Session(mgr', s, proc'[s], inbox'[s], outbox'[s])
  PROVE  Sessions'
<1>1. ASSUME NEW t \in Servers, t # s
      PROVE  Session(mgr', t, proc'[t], inbox'[t], outbox'[t])
  <2>1. Session(mgr, t, proc[t], inbox[t], outbox[t]) /\ Same(mgr, mgr', t)
    BY <1>1 DEF Sessions
  <2>2. Session(mgr', t, proc[t], inbox[t], outbox[t])
    BY <2>1, SameSession
  <2> QED
    BY <1>1, <2>2
<1> QED
  BY <1>1 DEF Sessions

\* A step that keeps every situation and leaves the workers alone.
LEMMA WorldUnchanged ==
  ASSUME UNCHANGED world,
         \A t \in Servers : Session(mgr', t, proc[t], inbox[t], outbox[t])
  PROVE  Sessions'
BY DEF world, Sessions

LEMMA WorldAfterEffect ==
  ASSUME NEW K, WorldAfter(K), NEW t \in Servers
  PROVE  /\ mgr'.phase[t] = "free" =>
              proc'[t] = "none" /\ inbox'[t] = <<>> /\ outbox'[t] = <<>>
         /\ mgr'.phase[t] = "live" /\ (t \in K \/ mgr.phase[t] # "live") =>
              proc'[t] = "booting" /\ inbox'[t] = <<>> /\ outbox'[t] = <<>>
         /\ t \in K /\ mgr'.phase[t] = "dying" =>
              proc'[t] = "dead" /\ inbox'[t] = <<>> /\ outbox'[t] = outbox[t]
         /\ (t \notin K /\ mgr'.phase[t] # "free"
                        /\ (mgr'.phase[t] = "live" => mgr.phase[t] = "live")) =>
              proc'[t] = proc[t] /\ inbox'[t] = inbox[t] /\ outbox'[t] = outbox[t]
<1> DEFINE born == {s \in Live(mgr') : s \in K \/ mgr.phase[s] # "live"}
           new == born \cup Free(mgr')
<1>1. proc' = [s \in Servers |-> CASE s \in born -> "booting"
                                   [] s \in Free(mgr') -> "none"
                                   [] s \in K \ new -> "dead"
                                   [] OTHER -> proc[s]]
  BY Zenon DEF WorldAfter
<1>2. inbox' = [s \in Servers |-> IF s \in new \cup K THEN <<>> ELSE inbox[s]]
  BY Zenon DEF WorldAfter
<1>3. outbox' = [s \in Servers |-> IF s \in new THEN <<>> ELSE outbox[s]]
  BY Zenon DEF WorldAfter
<1>4. t \in born <=> mgr'.phase[t] = "live" /\ (t \in K \/ mgr.phase[t] # "live")
  BY DEF Live
<1>5. t \in Free(mgr') <=> mgr'.phase[t] = "free"
  BY DEF Free
<1>6. t \in new <=> t \in born \/ t \in Free(mgr')
  OBVIOUS
<1> HIDE DEF born, new
<1>7. proc'[t] = CASE t \in born -> "booting"
                   [] t \in Free(mgr') -> "none"
                   [] t \in K \ new -> "dead"
                   [] OTHER -> proc[t]
  BY <1>1
<1>8. /\ inbox'[t] = IF t \in new \/ t \in K THEN <<>> ELSE inbox[t]
      /\ outbox'[t] = IF t \in new THEN <<>> ELSE outbox[t]
  BY <1>2, <1>3
<1>9. ~(t \in born /\ t \in Free(mgr'))
  BY <1>4, <1>5
<1>10. CASE t \in born
  BY <1>4, <1>5, <1>6, <1>7, <1>8, <1>9, <1>10
<1>11. CASE t \in Free(mgr')
  BY <1>4, <1>5, <1>6, <1>7, <1>8, <1>9, <1>11
<1>12. CASE t \notin born /\ t \notin Free(mgr')
  BY <1>4, <1>5, <1>6, <1>7, <1>8, <1>12
<1> QED
  BY <1>10, <1>11, <1>12

\* What a handler that kills and forks owes for each server: its situation is
\* kept; or the server is unused, or was just forked; or its worker was killed.
LEMMA SlotSession ==
  ASSUME NEW K, WorldAfter(K), NEW t \in Servers,
         \/ /\ t \notin K
            /\ Session(mgr', t, proc[t], inbox[t], outbox[t])
            /\ mgr'.phase[t] = "live" => mgr.phase[t] = "live"
         \/ Unused(mgr', t)
         \/ /\ Starting(mgr', t) /\ mgr'.phase[t] = "live"
            /\ t \in K \/ mgr.phase[t] # "live"
         \/ /\ t \in K /\ mgr'.phase[t] = "dying"
            /\ Session(mgr', t, "dead", <<>>, outbox[t])
  PROVE  Session(mgr', t, proc'[t], inbox'[t], outbox'[t])
<1>1. ASSUME Unused(mgr', t)
      PROVE  Session(mgr', t, proc'[t], inbox'[t], outbox'[t])
  <2>1. proc'[t] = "none" /\ inbox'[t] = <<>> /\ outbox'[t] = <<>>
    BY <1>1, WorldAfterEffect DEF Unused
  <2> QED
    BY <1>1, <2>1 DEF Session, Absent
<1>2. CASE /\ t \notin K
           /\ Session(mgr', t, proc[t], inbox[t], outbox[t])
           /\ mgr'.phase[t] = "live" => mgr.phase[t] = "live"
  <2>1. CASE mgr'.phase[t] = "free"
    BY <1>1, <1>2, <2>1, FreeSession
  <2>2. CASE mgr'.phase[t] # "free"
    <3>1. proc'[t] = proc[t] /\ inbox'[t] = inbox[t] /\ outbox'[t] = outbox[t]
      BY <1>2, <2>2, WorldAfterEffect
    <3> QED
      BY <1>2, <3>1
  <2> QED
    BY <2>1, <2>2
<1>3. CASE /\ Starting(mgr', t) /\ mgr'.phase[t] = "live"
           /\ t \in K \/ mgr.phase[t] # "live"
  <2>1. proc'[t] = "booting" /\ inbox'[t] = <<>> /\ outbox'[t] = <<>>
    BY <1>3, WorldAfterEffect
  <2> QED
    BY <1>3, <2>1 DEF Session, Boots
<1>4. CASE /\ t \in K /\ mgr'.phase[t] = "dying"
           /\ Session(mgr', t, "dead", <<>>, outbox[t])
  <2>1. proc'[t] = "dead" /\ inbox'[t] = <<>> /\ outbox'[t] = outbox[t]
    BY <1>4, WorldAfterEffect
  <2> QED
    BY <1>4, <2>1
<1> QED
  BY <1>1, <1>2, <1>3, <1>4

-----------------------------------------------------------------------------
(* Connections.                                                            *)

LEMMA StartNewRequestSession ==
  ASSUME TypeOK, Sessions, NEW c \in Connections, NEW s \in Servers,
         RoomToFork(mgr), mgr.idle # {} => s \in mgr.idle,
         mgr' = StartNewRequest(mgr, c, s), WorldAfter({})
  PROVE  Sessions'
<1>0. mgr \in Memory
  BY DEF TypeOK
<1>1. CASE mgr.waiting = <<>> /\ mgr.idle # {} /\ mgr.mode # "paused"
  <2> DEFINE g == GetIdleServers(mgr, {s})
  <2>1. Idling(mgr, s) /\ Rests(proc[s], inbox[s], outbox[s])
    BY <1>1, IdleSession DEF Sessions
  <2>2. {s} \in SUBSET Servers
    OBVIOUS
  <2>3. g \in Memory /\ Ready(g, s) /\ \A t \in Servers : t # s => Same(mgr, g, t)
    BY <1>0, <2>1, <2>2, GetIdleServersEffect
  <2>4. mgr' = AssignServer(g, s, c)
    BY <1>1 DEF StartNewRequest
  <2> HIDE DEF g
  <2>5. Waking(mgr', s) /\ \A t \in Servers : t # s => Same(g, mgr', t)
    BY <2>3, <2>4, AssignServerEffect
  <2>6. Session(mgr', s, proc[s], inbox[s], outbox[s]) /\ mgr.phase[s] = "live"
    BY <2>1, <2>5 DEF Session, Idling
  <2>7. ASSUME NEW t \in Servers, t # s
        PROVE  /\ Session(mgr', t, proc[t], inbox[t], outbox[t])
               /\ mgr'.phase[t] = mgr.phase[t]
    <3>1. Same(mgr, mgr', t)
      BY <2>3, <2>5, <2>7, SameIsTransitive
    <3>2. Session(mgr, t, proc[t], inbox[t], outbox[t])
      BY DEF Sessions
    <3>3. Session(mgr', t, proc[t], inbox[t], outbox[t])
      BY <3>1, <3>2, SameSession
    <3> QED
      BY <3>1, <3>3 DEF Same
  <2>8. ASSUME NEW t \in Servers
        PROVE  Session(mgr', t, proc'[t], inbox'[t], outbox'[t])
    <3>1. /\ Session(mgr', t, proc[t], inbox[t], outbox[t])
          /\ mgr'.phase[t] = "live" => mgr.phase[t] = "live"
      BY <2>6, <2>7
    <3> QED
      BY <3>1, SlotSession
  <2> QED
    BY <2>8 DEF Sessions
<1>2. CASE ~(mgr.waiting = <<>> /\ mgr.idle # {} /\ mgr.mode # "paused")
  <2> DEFINE w == [mgr EXCEPT !.waiting = Append(@, c), !.conn[c] = "waiting"]
  <2>1. mgr' = CreateNewProcess(w)
    BY <1>2 DEF StartNewRequest
  <2>2. w \in Memory
    <3>1. Append(mgr.waiting, c) \in Seq(Connections)
      BY <1>0 DEF Memory
    <3> QED
      BY <1>0, <3>1 DEF Memory
  <2>3. /\ w.phase = mgr.phase /\ w.started = mgr.started /\ w.armed = mgr.armed
        /\ w.onSend = mgr.onSend /\ w.bound = mgr.bound /\ w.exiting = mgr.exiting
        /\ w.lastSent = mgr.lastSent /\ w.queue = mgr.queue /\ w.idle = mgr.idle
        /\ w.pending = mgr.pending /\ w.serverCount = mgr.serverCount
        /\ w.mode = mgr.mode
    BY <1>0 DEF Memory
  <2> HIDE DEF w
  <2>4. RoomToFork(w)
    BY <2>3 DEF RoomToFork, ProcessCreationAllowed, Free
  <2>5. \A t \in Servers : Same(mgr, w, t)
    BY <2>3 DEF Same
  <2>6. /\ \A t \in Servers : w.phase[t] # "free" => Same(w, mgr', t)
        /\ \A t \in Servers :
             Unused(w, t) => Unused(mgr', t) \/ (Starting(mgr', t) /\ mgr'.phase[t] = "live")
    BY <2>1, <2>2, <2>4, CreateNewProcessEffect
  <2>7. ASSUME NEW t \in Servers
        PROVE  Session(mgr', t, proc'[t], inbox'[t], outbox'[t])
    <3>1. Session(w, t, proc[t], inbox[t], outbox[t])
      BY <2>5, SameSession DEF Sessions
    <3>2. CASE w.phase[t] # "free"
      <4>1. Same(w, mgr', t) /\ Same(mgr, mgr', t)
        BY <2>5, <2>6, <3>2, SameIsTransitive
      <4>2. Session(mgr', t, proc[t], inbox[t], outbox[t])
        BY <3>1, <4>1, SameSession
      <4>3. mgr'.phase[t] = mgr.phase[t]
        BY <4>1 DEF Same
      <4> QED
        BY <4>2, <4>3, SlotSession
    <3>3. CASE w.phase[t] = "free"
      <4>1. Unused(w, t) /\ mgr.phase[t] # "live"
        BY <2>3, <3>1, <3>3, FreeSession
      <4>2. Unused(mgr', t) \/ (Starting(mgr', t) /\ mgr'.phase[t] = "live")
        BY <2>6, <4>1
      <4> QED
        BY <4>1, <4>2, SlotSession
    <3> QED
      BY <3>2, <3>3
  <2> QED
    BY <2>7 DEF Sessions
<1> QED
  BY <1>1, <1>2

LEMMA ConnectionStepSession ==
  ASSUME TypeOK, Sessions, NEW c \in Connections,
         NewConnection(c) \/ RequestArrived(c) \/ ClientRequest(c) \/ ClientClose(c)
  PROVE  Sessions'
<1>0. mgr \in Memory
  BY DEF TypeOK
<1>1. ASSUME NEW v, mgr' = [mgr EXCEPT !.conn[c] = v], UNCHANGED world \/ WorldAfter({})
      PROVE  Sessions'
  <2>1. \A t \in Servers : Same(mgr, mgr', t)
    BY <1>0, <1>1 DEF Memory, Same
  <2>2. \A t \in Servers : /\ Session(mgr', t, proc[t], inbox[t], outbox[t])
                           /\ mgr'.phase[t] = mgr.phase[t]
    BY <2>1, SameSession DEF Sessions, Same
  <2>3. CASE UNCHANGED world
    BY <2>2, <2>3, WorldUnchanged
  <2>4. CASE WorldAfter({})
    <3>1. \A t \in Servers : Session(mgr', t, proc'[t], inbox'[t], outbox'[t])
      BY <2>2, <2>4, SlotSession
    <3> QED
      BY <3>1 DEF Sessions
  <2> QED
    BY <1>1, <2>3, <2>4
<1>2. CASE NewConnection(c)
  BY <1>1, <1>2 DEF NewConnection
<1>3. CASE RequestArrived(c)
  <2>1. CASE Refused(c)
    BY <1>1, <1>3, <2>1 DEF RequestArrived
  <2>2. CASE ~Refused(c)
    <3>1. PICK s \in Servers : /\ mgr.idle # {} => HeadOfIdle(mgr, s)
                               /\ mgr' = StartNewRequest(mgr, c, s)
      BY <1>3, <2>2 DEF RequestArrived
    <3>2. mgr.idle # {} => s \in mgr.idle
      BY <3>1 DEF HeadOfIdle
    <3>3. RoomToFork(mgr) /\ WorldAfter({})
      BY <1>3, <2>2 DEF RequestArrived, RequestReady
    <3> QED
      BY <3>1, <3>2, <3>3, StartNewRequestSession
  <2> QED
    BY <2>1, <2>2
<1>4. CASE ClientRequest(c) \/ ClientClose(c)
  <2>1. mgr' = mgr /\ UNCHANGED world
    BY <1>4 DEF ClientRequest, ClientClose
  <2> QED
    BY <2>1, WorldUnchanged DEF Sessions
<1> QED
  BY <1>2, <1>3, <1>4

-----------------------------------------------------------------------------
(* Servers: what comes in and what goes out.                               *)

\* Reading one message of a worker in a request.
LEMMA ReadReport ==
  ASSUME NEW p, NEW i, NEW o \in Seq(Messages), Works(p, i, o), o # <<>>
  PROVE  \/ Head(o) = "NO_RESP_CMD" /\ Works(p, i, Tail(o))
         \/ Head(o) = "NEED_RESP_CMD" /\ Waits(p, i, Tail(o))
         \/ Head(o) = "END_REQUEST" /\ Rests(p, i, Tail(o))
<1>1. CASE Only(o, {"NO_RESP_CMD"}) /\ p \in {"busy", "dead"} /\ i = <<>>
  <2>1. Head(o) \in {"NO_RESP_CMD"} /\ Only(Tail(o), {"NO_RESP_CMD"})
    BY <1>1, OnlyTail
  <2> QED
    BY <1>1, <2>1 DEF Works
<1>2. CASE EndsIn(o, {"NO_RESP_CMD"}, {"NEED_RESP_CMD"}) /\ p = "asking" /\ i = <<>>
  <2>1. \/ Tail(o) = <<>> /\ Head(o) \in {"NEED_RESP_CMD"}
        \/ Head(o) \in {"NO_RESP_CMD"} /\ EndsIn(Tail(o), {"NO_RESP_CMD"}, {"NEED_RESP_CMD"})
    BY <1>2, EndsInTail
  <2> QED
    BY <1>2, <2>1 DEF Works, Waits
<1>3. CASE EndsIn(o, {"NO_RESP_CMD"}, {"END_REQUEST"}) /\ p = "idle" /\ i = <<>>
  <2>1. \/ Tail(o) = <<>> /\ Head(o) \in {"END_REQUEST"}
        \/ Head(o) \in {"NO_RESP_CMD"} /\ EndsIn(Tail(o), {"NO_RESP_CMD"}, {"END_REQUEST"})
    BY <1>3, EndsInTail
  <2>2. Only(<<>>, {"pref"})
    BY ShortSequences
  <2> QED
    BY <1>3, <2>1, <2>2 DEF Works, Rests
<1>4. CASE /\ EndsIn(o, {"NO_RESP_CMD"}, {"NEED_RESP_CMD", "END_REQUEST"})
           /\ p = "dead" /\ i = <<>>
  <2>1. \/ Tail(o) = <<>> /\ Head(o) \in {"NEED_RESP_CMD", "END_REQUEST"}
        \/ /\ Head(o) \in {"NO_RESP_CMD"}
           /\ EndsIn(Tail(o), {"NO_RESP_CMD"}, {"NEED_RESP_CMD", "END_REQUEST"})
    BY <1>4, EndsInTail
  <2> QED
    BY <1>4, <2>1 DEF Works, Waits, Rests
<1> QED
  BY <1>1, <1>2, <1>3, <1>4 DEF Works

\* The situations in which a server can be read or written.
LEMMA SessionAtRead ==
  ASSUME NEW s, Session(mgr, s, proc[s], inbox[s], outbox[s]), CanRead(s)
  PROVE  /\ ~mgr.started[s] => Starting(mgr, s) /\ Boots(proc[s], inbox[s], outbox[s])
         /\ mgr.started[s] /\ outbox[s] # <<>> =>
              Serving(mgr, s) /\ Works(proc[s], inbox[s], outbox[s])
BY DEF Session, CanRead, Unused, Starting, Failed, Reporting, Idling, Pushing, Waking,
       Serving, Answering, Leaving, Rests, Waits, Leaves

LEMMA SessionAtWrite ==
  ASSUME NEW s, Session(mgr, s, proc[s], inbox[s], outbox[s]), NEW f, CanWrite(s, f)
  PROVE  /\ f = "WakeupServer" =>
              Waking(mgr, s) /\ Rests(proc[s], inbox[s], outbox[s])
         /\ f = "DoPush" => Pushing(mgr, s) /\ Rests(proc[s], inbox[s], outbox[s])
         /\ f = "ProcessNeedRespCmd" =>
              Answering(mgr, s) /\ Waits(proc[s], inbox[s], outbox[s])
BY DEF Session, CanWrite, Unused, Starting, Failed, Reporting, Idling, Pushing, Waking,
       Serving, Answering, Leaving

LEMMA FailedSession ==
  ASSUME NEW m, NEW s, NEW p, NEW i, NEW o, Failed(m, s), p = "dead" => i = <<>>
  PROVE  Session(m, s, p, i, o)
BY DEF Session

LEMMA ServerStartedSession ==
  ASSUME TypeOK, Sessions, NEW s \in Servers, ServerStarted(s)
  PROVE  Sessions'
<1>0. mgr \in Memory /\ outbox \in [Servers -> Seq(Messages)]
  BY DEF TypeOK
<1>1. CanRead(s) /\ ~mgr.started[s] /\ proc' = proc /\ inbox' = inbox
  BY DEF ServerStarted
<1>2. Starting(mgr, s) /\ Boots(proc[s], inbox[s], outbox[s])
  BY <1>1, SessionAtRead DEF Sessions
<1>3. CASE outbox[s] # <<>>
  <2>1. mgr' = StartSucceeded(mgr, s) /\ outbox' = [outbox EXCEPT ![s] = Tail(@)]
    BY <1>3 DEF ServerStarted
  <2>2. Posted(mgr', s) /\ \A t \in Servers : t # s => Same(mgr, mgr', t)
    BY <1>0, <1>2, <2>1, StartSucceededEffect
  <2>3. /\ outbox'[s] = Tail(outbox[s])
        /\ \A t \in Servers : t # s => outbox'[t] = outbox[t]
    BY <1>0, <2>1
  <2>4. outbox[s] = <<"started">> /\ proc[s] \in {"idle", "dead"} /\ inbox[s] = <<>>
    BY <1>2, <1>3 DEF Boots
  <2>5. Only(<<>>, {"pref"})
    BY ShortSequences
  <2>a. Tail(outbox[s]) = <<>>
    BY <2>4
  <2>6. Rests(proc'[s], inbox'[s], outbox'[s])
    BY <1>1, <2>3, <2>4, <2>5, <2>a DEF Rests
  <2> QED
    BY <1>1, <2>2, <2>3, <2>6, PostedSession, OneServer
<1>4. CASE outbox[s] = <<>>
  <2> DEFINE count == (mgr.serverCount + 1) % CountWord
             m == [mgr EXCEPT !.serverCount = count, !.delay = StartDelay]
  <2>a. count \in 0..CountWord-1
    <3>1. mgr.serverCount + 1 \in Int
      BY <1>0, BoundAssumption DEF Memory
    <3> QED
      BY <3>1, WordType
  <2>1. mgr' = FailServer(m, s) /\ outbox' = outbox
    BY <1>0, <1>4 DEF ServerStarted, StartFailed, Memory
  <2> HIDE DEF count
  <2>b. StartDelay \in 0..StartDelay
    BY TimerAssumption
  <2>2. m \in Memory
    BY <1>0, <2>a, <2>b DEF Memory
  <2>3. \A t \in Servers : Same(mgr, m, t)
    BY <1>0 DEF Memory, Same
  <2> HIDE DEF m
  <2>4. Session(m, s, proc[s], inbox[s], outbox[s])
    BY <2>3, SameSession DEF Sessions
  <2>5. Failed(mgr', s) /\ \A t \in Servers : t # s => Same(m, mgr', t)
    BY <2>1, <2>2, <2>4, SessionMayFail, FailServerEffect
  <2>6. \A t \in Servers : t # s => Same(mgr, mgr', t)
    BY <2>3, <2>5, SameIsTransitive
  <2>7. Session(mgr', s, proc'[s], inbox'[s], outbox'[s])
    BY <1>1, <1>2, <2>5, FailedSession DEF Boots
  <2> QED
    BY <1>1, <2>1, <2>6, <2>7, OneServer
<1> QED
  BY <1>3, <1>4

LEMMA RecvServerMsgSession ==
  ASSUME TypeOK, Sessions, NEW s \in Servers, RecvServerMsg(s)
  PROVE  Sessions'
<1>0. mgr \in Memory /\ outbox \in [Servers -> Seq(Messages)]
  BY DEF TypeOK
<1>1. CanRead(s) /\ mgr.started[s] /\ proc' = proc /\ inbox' = inbox
  BY DEF RecvServerMsg
<1>2. Session(mgr, s, proc[s], inbox[s], outbox[s])
  BY DEF Sessions
<1>3. CASE outbox[s] = <<>>
  <2>1. mgr' = FailServer(mgr, s) /\ outbox' = outbox
    BY <1>3 DEF RecvServerMsg
  <2>2. Failed(mgr', s) /\ \A t \in Servers : t # s => Same(mgr, mgr', t)
    BY <1>0, <1>2, <2>1, SessionMayFail, FailServerEffect
  <2>3. proc[s] = "dead" => inbox[s] = <<>>
    BY <1>2, DeadReadsNothing
  <2>4. Session(mgr', s, proc'[s], inbox'[s], outbox'[s])
    BY <1>1, <2>2, <2>3, FailedSession
  <2> QED
    BY <1>1, <2>1, <2>2, <2>4, OneServer
<1>4. CASE outbox[s] # <<>>
  <2> DEFINE p == proc[s]  i == inbox[s]  o == outbox[s]
  <2>1. outbox' = [outbox EXCEPT ![s] = Tail(@)]
    BY <1>4 DEF RecvServerMsg
  <2>2. /\ outbox'[s] = Tail(o)
        /\ \A t \in Servers : t # s => outbox'[t] = outbox[t]
    BY <1>0, <2>1
  <2>3. Serving(mgr, s) /\ Works(p, i, o)
    BY <1>1, <1>2, <1>4, SessionAtRead
  <2>4. \/ Head(o) = "NO_RESP_CMD" /\ Works(p, i, Tail(o))
        \/ Head(o) = "NEED_RESP_CMD" /\ Waits(p, i, Tail(o))
        \/ Head(o) = "END_REQUEST" /\ Rests(p, i, Tail(o))
    BY <1>0, <1>4, <2>3, ReadReport
  <2>5. mgr' = CASE Head(o) = "END_REQUEST" -> RedeployServer(mgr, s)
                 [] Head(o) = "NO_RESP_CMD" -> [mgr EXCEPT !.extra[s] = ExtraTimeout]
                 [] Head(o) = "NEED_RESP_CMD" ->
                      [mgr EXCEPT !.onSend[s] = "ProcessNeedRespCmd"]
                 [] OTHER -> FailServer(mgr, s)
    BY <1>4, Zenon DEF RecvServerMsg
  <2> HIDE DEF p, i, o
  <2>6. ASSUME \A t \in Servers : t # s => Same(mgr, mgr', t),
               Session(mgr', s, p, i, Tail(o))
        PROVE  Sessions'
    BY <1>1, <2>2, <2>6, OneServer DEF p, i
  <2>7. CASE Head(o) = "NO_RESP_CMD" /\ Works(p, i, Tail(o))
    <3>1. mgr' = [mgr EXCEPT !.extra[s] = ExtraTimeout]
      BY <2>5, <2>7
    <3>2. \A t \in Servers : Same(mgr, mgr', t)
      BY <1>0, <3>1 DEF Memory, Same
    <3>3. Session(mgr, s, p, i, Tail(o))
      BY <2>3, <2>7 DEF Session
    <3>4. Session(mgr', s, p, i, Tail(o))
      BY <3>2, <3>3, SameSession
    <3> QED
      BY <2>6, <3>2, <3>4
  <2>8. CASE Head(o) = "NEED_RESP_CMD" /\ Waits(p, i, Tail(o))
    <3>1. mgr' = [mgr EXCEPT !.onSend[s] = "ProcessNeedRespCmd"]
      BY <2>5, <2>8
    <3>2. /\ mgr'.phase = mgr.phase /\ mgr'.started = mgr.started
          /\ mgr'.armed = mgr.armed /\ mgr'.bound = mgr.bound
          /\ mgr'.exiting = mgr.exiting /\ mgr'.idle = mgr.idle
          /\ mgr'.lastSent = mgr.lastSent
          /\ mgr'.onSend[s] = "ProcessNeedRespCmd"
          /\ \A t \in Servers : t # s => Same(mgr, mgr', t)
      BY <1>0, <3>1, OnSendEffect DEF Callbacks
    <3>3. Answering(mgr', s)
      BY <2>3, <3>2 DEF Serving, Answering, Reporting, Heard
    <3>4. Session(mgr', s, p, i, Tail(o))
      BY <2>8, <3>3 DEF Session
    <3> QED
      BY <2>6, <3>2, <3>4
  <2>9. CASE Head(o) = "END_REQUEST" /\ Rests(p, i, Tail(o))
    <3>1. mgr' = RedeployServer(mgr, s)
      BY <2>5, <2>9
    <3>2. Posted(mgr', s) /\ \A t \in Servers : t # s => Same(mgr, mgr', t)
      BY <1>0, <2>3, <3>1, RedeployServerEffect DEF Serving
    <3> QED
      BY <2>6, <2>9, <3>2, PostedSession
  <2> QED
    BY <2>4, <2>7, <2>8, <2>9
<1> QED
  BY <1>3, <1>4

\* Sending to one server: either the worker is gone and the server fails, or
\* it has the message and the manager goes on.
LEMMA SendOrSession ==
  ASSUME TypeOK, Sessions, NEW s \in Servers, NEW msg \in Received,
         NEW n, NEW m \in Memory, SendOr(s, msg, n, FailServer(m, s)),
         UNCHANGED <<proc, outbox>>,
         s \in m.idle => m.phase[s] = "live",
         m.exiting[s] => m.bound[s] = NoConnection,
         \A t \in Servers : t # s => Same(mgr, m, t) /\ Same(mgr, n, t),
         proc[s] # "dead" =>
           Session(n, s, proc[s], Append(inbox[s], msg), outbox[s])
  PROVE  Sessions'
<1>0. inbox \in [Servers -> Seq(Received)]
  BY DEF TypeOK
<1>1. CASE proc[s] = "dead"
  <2>1. mgr' = FailServer(m, s) /\ inbox' = inbox
    BY <1>1 DEF SendOr
  <2>2. Failed(mgr', s) /\ \A t \in Servers : t # s => Same(m, mgr', t)
    BY <2>1, FailServerEffect
  <2>3. \A t \in Servers : t # s => Same(mgr, mgr', t)
    BY <2>2, SameIsTransitive
  <2>4. inbox[s] = <<>>
    BY <1>1, DeadReadsNothing DEF Sessions
  <2>5. Session(mgr', s, proc'[s], inbox'[s], outbox'[s])
    BY <2>1, <2>2, <2>4, FailedSession
  <2> QED
    BY <2>1, <2>3, <2>5, OneServer
<1>2. CASE proc[s] # "dead"
  <2>1. mgr' = n /\ inbox' = [inbox EXCEPT ![s] = Append(@, msg)]
    BY <1>2 DEF SendOr
  <2>2. /\ inbox'[s] = Append(inbox[s], msg)
        /\ \A t \in Servers : t # s => inbox'[t] = inbox[t]
    BY <1>0, <2>1
  <2>3. Session(mgr', s, proc'[s], inbox'[s], outbox'[s])
    BY <1>2, <2>1, <2>2
  <2> QED
    BY <2>1, <2>2, <2>3, OneServer
<1> QED
  BY <1>1, <1>2

\* mgr' is mgr but for the end of the process.
LEMMA CrashSession ==
  ASSUME TypeOK, Sessions, mgr' = [mgr EXCEPT !.process = "crashed"], UNCHANGED world
  PROVE  Sessions'
<1>1. \A t \in Servers : Same(mgr, mgr', t)
  BY DEF TypeOK, Memory, Same
<1> QED
  BY <1>1, SameSession, WorldUnchanged DEF Sessions

LEMMA WakeupServerSession ==
  ASSUME TypeOK, Sessions, NEW s \in Servers, WakeupServer(s)
  PROVE  Sessions'
<1> DEFINE m == [mgr EXCEPT !.onSend[s] = "none"]
<1>0. mgr \in Memory /\ inbox[s] \in Seq(Received)
  BY DEF TypeOK
<1>1. Waking(mgr, s) /\ Rests(proc[s], inbox[s], outbox[s])
  BY SessionAtWrite DEF WakeupServer, Sessions
<1>2. mgr.bound[s] # NoConnection
  BY <1>1 DEF Waking
<1>3. SendOr(s, "request", m, FailServer(m, s))
  BY <1>2 DEF WakeupServer
<1>4. UNCHANGED <<proc, outbox>>
  BY DEF WakeupServer
<1>5. /\ m \in Memory
      /\ m.phase = mgr.phase /\ m.started = mgr.started /\ m.armed = mgr.armed
      /\ m.bound = mgr.bound /\ m.exiting = mgr.exiting /\ m.idle = mgr.idle
      /\ m.lastSent = mgr.lastSent
      /\ m.onSend[s] = "none"
      /\ \A t \in Servers : t # s => Same(mgr, m, t)
  BY <1>0, OnSendEffect DEF Callbacks
<1> HIDE DEF m
<1>6. Serving(m, s)
  BY <1>1, <1>5 DEF Serving, Waking, Reporting, Heard
<1>7. ASSUME proc[s] # "dead"
      PROVE  Session(m, s, proc[s], Append(inbox[s], "request"), outbox[s])
  <2>1. proc[s] = "idle" /\ outbox[s] = <<>> /\ Only(inbox[s], {"pref"})
    BY <1>1, <1>7 DEF Rests
  <2>2. EndsIn(Append(inbox[s], "request"), {"pref"}, {"request"})
    BY <1>0, <2>1, OnlyAppend DEF Received
  <2>3. Works(proc[s], Append(inbox[s], "request"), outbox[s])
    BY <2>1, <2>2 DEF Works
  <2> QED
    BY <1>6, <2>3 DEF Session
<1>8. /\ s \in m.idle => m.phase[s] = "live"
      /\ m.exiting[s] => m.bound[s] = NoConnection
  BY <1>6 DEF Serving
<1>9. "request" \in Received
  BY DEF Received
<1> QED
  BY <1>3, <1>4, <1>5, <1>7, <1>8, <1>9, SendOrSession

LEMMA DoPushSession ==
  ASSUME TypeOK, Sessions, NEW s \in Servers, DoPush(s)
  PROVE  Sessions'
<1> DEFINE e == mgr.exiting[s] \/ mgr.lastSent[s] = "exit"
           m == [mgr EXCEPT !.exiting[s] = e]
<1>0. mgr \in Memory /\ inbox[s] \in Seq(Received)
  BY DEF TypeOK
<1>1. Pushing(mgr, s) /\ Rests(proc[s], inbox[s], outbox[s])
  BY SessionAtWrite DEF DoPush, Sessions
<1>2. UNCHANGED <<proc, outbox>>
  BY DEF DoPush
<1>3. m = [mgr EXCEPT !.exiting[s] = @ \/ mgr.lastSent[s] = "exit"]
  BY <1>0 DEF Memory
<1>4. \/ mgr' = [mgr EXCEPT !.process = "crashed"] /\ inbox' = inbox
      \/ /\ mgr.lastSent[s] # "null"
         /\ SendOr(s, mgr.lastSent[s], AfterPush(m, s), FailServer(m, s))
  BY <1>3 DEF DoPush
<1>5. e \in BOOLEAN
  BY <1>0 DEF Memory
<1>6. e <=> mgr.lastSent[s] = "exit"
  BY <1>1 DEF Pushing
<1> HIDE DEF e
<1>7. /\ m \in Memory
      /\ m.phase = mgr.phase /\ m.started = mgr.started /\ m.armed = mgr.armed
      /\ m.bound = mgr.bound /\ m.onSend = mgr.onSend /\ m.idle = mgr.idle
      /\ m.lastSent = mgr.lastSent
  BY <1>0, <1>5 DEF Memory
<1>8. m.exiting[s] = e /\ \A t \in Servers : t # s => Same(mgr, m, t)
  BY <1>0, <1>5 DEF Memory, Same
<1> HIDE DEF m
<1>9. CASE mgr' = [mgr EXCEPT !.process = "crashed"] /\ inbox' = inbox
  BY <1>2, <1>9, CrashSession DEF world
<1>10. CASE /\ mgr.lastSent[s] # "null"
            /\ SendOr(s, mgr.lastSent[s], AfterPush(m, s), FailServer(m, s))
  <2>1. mgr.lastSent[s] \in Kinds
    BY <1>0, <1>1, <1>10 DEF Pushing, Memory
  <2>2. /\ Reporting(m, s) /\ s \notin m.idle /\ Heard(m, s)
        /\ m.onSend[s] = "DoPush" /\ m.bound[s] = NoConnection
    BY <1>1, <1>7 DEF Pushing, Reporting, Heard
  <2> DEFINE n == AfterPush(m, s)
  <2>3. /\ Posted(n, s)
        /\ m.exiting[s] => Leaving(n, s)
        /\ \A t \in Servers : t # s => Same(m, n, t)
    BY <1>7, <2>2, AfterPushEffect
  <2> HIDE DEF n
  <2>4. \A t \in Servers : t # s => Same(mgr, m, t) /\ Same(mgr, n, t)
    BY <1>8, <2>3, SameIsTransitive
  <2>5. ASSUME proc[s] # "dead"
        PROVE  Session(n, s, proc[s], Append(inbox[s], mgr.lastSent[s]), outbox[s])
    <3>1. proc[s] = "idle" /\ outbox[s] = <<>> /\ Only(inbox[s], {"pref"})
      BY <1>1, <2>5 DEF Rests
    <3>2. CASE mgr.lastSent[s] = "pref"
      <4>1. Only(Append(inbox[s], "pref"), {"pref"})
        BY <1>0, <3>1, OnlyAppend DEF Received, Kinds
      <4>2. Rests(proc[s], Append(inbox[s], "pref"), outbox[s])
        BY <3>1, <4>1 DEF Rests
      <4> QED
        BY <2>3, <3>2, <4>2, PostedSession
    <3>3. CASE mgr.lastSent[s] = "exit"
      <4>1. Only(inbox[s], {"pref", "exit"})
        BY <3>1 DEF Only
      <4>2. Only(Append(inbox[s], "exit"), {"pref", "exit"})
        BY <1>0, <4>1, OnlyAppend DEF Received, Kinds
      <4>3. Leaves(proc[s], Append(inbox[s], "exit"), outbox[s])
        BY <3>1, <4>2 DEF Leaves
      <4>4. Leaving(n, s)
        BY <1>6, <1>8, <2>3, <3>3
      <4> QED
        BY <3>3, <4>3, <4>4 DEF Session
    <3> QED
      BY <2>1, <3>2, <3>3 DEF Kinds
  <2>6. mgr.lastSent[s] \in Received
    BY <2>1 DEF Received
  <2>7. SendOr(s, mgr.lastSent[s], n, FailServer(m, s))
    BY <1>10 DEF n
  <2> QED
    BY <1>2, <1>7, <2>2, <2>4, <2>5, <2>6, <2>7, SendOrSession
<1> QED
  BY <1>4, <1>9, <1>10

LEMMA ProcessNeedRespCmdSession ==
  ASSUME TypeOK, Sessions, NEW s \in Servers, ProcessNeedRespCmd(s)
  PROVE  Sessions'
<1> DEFINE m == [mgr EXCEPT !.onSend[s] = "none"]
<1>0. mgr \in Memory /\ inbox[s] \in Seq(Received)
  BY DEF TypeOK
<1>1. Answering(mgr, s) /\ Waits(proc[s], inbox[s], outbox[s])
  BY SessionAtWrite DEF ProcessNeedRespCmd, Sessions
<1>2. SendOr(s, "response", m, FailServer(mgr, s)) /\ UNCHANGED <<proc, outbox>>
  BY DEF ProcessNeedRespCmd
<1>3. /\ m.phase = mgr.phase /\ m.started = mgr.started /\ m.armed = mgr.armed
      /\ m.bound = mgr.bound /\ m.exiting = mgr.exiting /\ m.idle = mgr.idle
      /\ m.lastSent = mgr.lastSent
      /\ m.onSend[s] = "none"
      /\ \A t \in Servers : t # s => Same(mgr, m, t)
  BY <1>0, OnSendEffect DEF Callbacks
<1> HIDE DEF m
<1>4. Serving(m, s)
  BY <1>1, <1>3 DEF Serving, Answering, Reporting, Heard
<1>5. ASSUME proc[s] # "dead"
      PROVE  Session(m, s, proc[s], Append(inbox[s], "response"), outbox[s])
  <2>1. proc[s] = "asking" /\ outbox[s] = <<>> /\ inbox[s] = <<>>
    BY <1>1, <1>5 DEF Waits
  <2>2. Append(inbox[s], "response") = <<"response">>
    BY <2>1
  <2>3. Works(proc[s], Append(inbox[s], "response"), outbox[s])
    BY <2>1, <2>2 DEF Works
  <2> QED
    BY <1>4, <2>3 DEF Session
<1>6. \A t \in Servers : Same(mgr, mgr, t)
  BY DEF Same
<1>7. /\ s \in mgr.idle => mgr.phase[s] = "live"
      /\ mgr.exiting[s] => mgr.bound[s] = NoConnection
  BY <1>1 DEF Answering
<1>8. "response" \in Received
  BY DEF Received
<1> QED
  BY <1>0, <1>2, <1>3, <1>5, <1>6, <1>7, <1>8, SendOrSession

LEMMA ServerEventSession ==
  ASSUME TypeOK, Sessions, NEW s \in Servers, ServerEvent(s)
  PROVE  Sessions'
BY ServerStartedSession, RecvServerMsgSession, WakeupServerSession, DoPushSession,
   ProcessNeedRespCmdSession DEF ServerEvent

-----------------------------------------------------------------------------
(* The timer.                                                              *)

\* Every situation of m is one of n.
Keeps(m, n) ==
  /\ n.phase = m.phase
  /\ \A t \in Servers : \A p, i, o : Session(m, t, p, i, o) => Session(n, t, p, i, o)

LEMMA KeepsIsTransitive ==
  ASSUME NEW a, NEW b, NEW c, Keeps(a, b), Keeps(b, c)
  PROVE  Keeps(a, c)
BY DEF Keeps

LEMMA SameKeeps ==
  ASSUME NEW m, NEW n, n.phase = m.phase, \A t \in Servers : Same(m, n, t)
  PROVE  Keeps(m, n)
BY SameSession DEF Keeps

LEMMA AppendMessageKeeps ==
  ASSUME NEW m \in Memory, NEW kind \in Kinds, NEW T \in SUBSET Servers
  PROVE  Keeps(m, AppendMessage(m, kind, T))
<1>1. AppendMessage(m, kind, T).phase = m.phase
  BY AppendMessageEffect
<1> QED
  BY <1>1, AppendMessageSession DEF Keeps

\* Fields no situation mentions.
LEMMA OtherFieldsKeep ==
  ASSUME NEW m \in Memory, NEW v
  PROVE  /\ Keeps(m, [m EXCEPT !.mode = v])
         /\ Keeps(m, [m EXCEPT !.process = v])
         /\ Keeps(m, [m EXCEPT !.belowMin = v])
         /\ Keeps(m, [m EXCEPT !.sincePing = v])
         /\ Keeps(m, [m EXCEPT !.minIdle = v])
         /\ Keeps(m, [m EXCEPT !.prefs = v])
         /\ Keeps(m, [m EXCEPT !.idleTime = v])
         /\ Keeps(m, [m EXCEPT !.ttl = v])
<1> DEFINE Sames(n) == n.phase = m.phase /\ \A t \in Servers : Same(m, n, t)
<1>1. Sames([m EXCEPT !.mode = v]) /\ Sames([m EXCEPT !.process = v])
  BY DEF Memory, Same
<1>2. Sames([m EXCEPT !.belowMin = v]) /\ Sames([m EXCEPT !.sincePing = v])
  BY DEF Memory, Same
<1>3. Sames([m EXCEPT !.minIdle = v]) /\ Sames([m EXCEPT !.prefs = v])
  BY DEF Memory, Same
<1>4. Sames([m EXCEPT !.idleTime = v]) /\ Sames([m EXCEPT !.ttl = v])
  BY DEF Memory, Same
<1> QED
  BY <1>1, <1>2, <1>3, <1>4, SameKeeps

LEMMA StopAllServersKeeps ==
  ASSUME NEW m \in Memory
  PROVE  Keeps(m, StopAllServers(m))
<1> DEFINE a == AppendMessage(m, "exit", Servers)
<1>1. a \in Memory /\ a.phase = m.phase
  BY AppendMessageType, AppendMessageEffect DEF Kinds
<1>2. StopAllServers(m).phase = a.phase
  BY <1>1 DEF StopAllServers, Memory
<1> QED
  BY <1>1, <1>2, StopAllServersSession DEF Keeps

LEMMA DoStopKeeps ==
  ASSUME NEW m \in Memory
  PROVE  Keeps(m, DoStop(m))
<1> DEFINE a == StopAllServers(m)
           told == [a EXCEPT !.mode = "stopping"]
<1>1. a \in Memory /\ Keeps(m, a)
  BY StopAllServersType, StopAllServersKeeps
<1>2. DoStop(m) \in {told, [told EXCEPT !.process = "exited"]}
  BY DEF DoStop
<1> HIDE DEF a
<1>3. told \in Memory /\ Keeps(m, told)
  BY <1>1, FlagFields, OtherFieldsKeep, KeepsIsTransitive DEF Modes
<1> HIDE DEF told
<1>4. Keeps(m, [told EXCEPT !.process = "exited"])
  BY <1>3, OtherFieldsKeep, KeepsIsTransitive
<1> QED
  BY <1>2, <1>3, <1>4

LEMMA CheckPingKeeps ==
  ASSUME NEW m \in Memory
  PROVE  Keeps(m, CheckPing(m))
<1> DEFINE below == Lesser(m.belowMin + 1, StartTimeout + 1)
           since == IF PingTimeout > 0 THEN Lesser(m.sincePing + 1, PingTimeout) ELSE 0
           b == [m EXCEPT !.belowMin = below]
           counted == [b EXCEPT !.sincePing = since]
<1>1. below \in Nat /\ since \in Nat
  <2>1. /\ m.belowMin + 1 \in Nat /\ StartTimeout + 1 \in Nat
        /\ m.sincePing + 1 \in Nat /\ PingTimeout \in Nat
    BY TimerAssumption DEF Memory
  <2> QED
    BY <2>1, LesserType
<1>2. CheckPing(m) \in {counted, DoStop(counted)}
  <2>1. counted = [m EXCEPT
          !.belowMin = Lesser(@ + 1, StartTimeout + 1),
          !.sincePing = IF PingTimeout > 0 THEN Lesser(@ + 1, PingTimeout) ELSE 0]
    BY DEF Memory
  <2> QED
    BY <2>1 DEF CheckPing
<1> HIDE DEF below, since
<1>3. b \in Memory /\ Keeps(m, b)
  BY <1>1, OtherFieldsKeep DEF Memory
<1> HIDE DEF b
<1>4. counted \in Memory
  BY <1>1, <1>3 DEF Memory
<1>5. Keeps(m, counted)
  BY <1>3, OtherFieldsKeep, KeepsIsTransitive
<1> HIDE DEF counted
<1>6. Keeps(m, DoStop(counted))
  BY <1>4, <1>5, DoStopKeeps, KeepsIsTransitive
<1> QED
  BY <1>2, <1>5, <1>6

LEMMA PeriodicIdleServerPurgeKeeps ==
  ASSUME NEW m \in Memory, NEW head \in Servers
  PROVE  Keeps(m, PeriodicIdleServerPurge(m, head))
<1> DEFINE times == [s \in Servers |->
                       IF s \in m.idle THEN Lesser(m.idleTime[s] + 1, IdleTimeBound)
                                       ELSE m.idleTime[s]]
           older == [m EXCEPT !.idleTime = times]
           ttl == [older.ttl EXCEPT ![head] = SecondsToLive]
           told == [older EXCEPT !.ttl[head] = SecondsToLive]
           spare == m.serverCount > MinServers /\ m.minIdle >= 1
           purged == IF spare /\ older.idleTime[head] > IdleLimit(m)
                     THEN AppendMessage(told, "exit", {head}) ELSE older
<1>1. times \in [Servers -> Nat]
  BY IdleTimesType
<1>2. older = [m EXCEPT !.idleTime = [s \in Servers |->
                 IF s \in m.idle THEN Lesser(@[s] + 1, IdleTimeBound) ELSE @[s]]]
  BY DEF Memory
<1>5. PeriodicIdleServerPurge(m, head) = [purged EXCEPT !.minIdle = Cardinality(purged.idle)]
  BY <1>2, Zenon DEF PeriodicIdleServerPurge
<1> HIDE DEF times
<1>3. older \in Memory /\ Keeps(m, older)
  BY <1>1, OtherFieldsKeep DEF Memory
<1>4. told = [older EXCEPT !.ttl = ttl]
  BY <1>3 DEF Memory
<1> HIDE DEF older, ttl
<1>6. told \in Memory
  BY <1>3, TtlType
<1>7. Keeps(m, told)
  BY <1>3, <1>4, OtherFieldsKeep, KeepsIsTransitive
<1> HIDE DEF told, spare
<1>8. /\ AppendMessage(told, "exit", {head}) \in Memory
      /\ Keeps(m, AppendMessage(told, "exit", {head}))
  BY <1>6, <1>7, AppendMessageType, AppendMessageKeeps, KeepsIsTransitive DEF Kinds
<1>9. purged \in Memory /\ Keeps(m, purged)
  BY <1>3, <1>8
<1> HIDE DEF purged
<1> QED
  BY <1>5, <1>9, OtherFieldsKeep, KeepsIsTransitive

LEMMA CheckPoolKeeps ==
  ASSUME NEW m \in Memory, NEW head \in Servers
  PROVE  Keeps(m, CheckPool(m, head))
<1> DEFINE p == CheckPing(m)
           q == IF p.serverCount >= MinServers THEN [p EXCEPT !.belowMin = 0] ELSE p
<1>1. p \in Memory /\ Keeps(m, p)
  BY CheckPingType, CheckPingKeeps
<1>2. CheckPool(m, head) \in {m, p, DoStop(p), PeriodicIdleServerPurge(q, head)}
  BY DEF CheckPool
<1> HIDE DEF p
<1>3. q \in Memory
  <2>1. [p EXCEPT !.belowMin = 0] \in Memory
    BY <1>1 DEF Memory
  <2> QED
    BY <1>1, <2>1
<1>4. Keeps(m, q)
  BY <1>1, OtherFieldsKeep, KeepsIsTransitive
<1> HIDE DEF q
<1>5. Keeps(m, DoStop(p)) /\ Keeps(m, PeriodicIdleServerPurge(q, head))
  BY <1>1, <1>3, <1>4, DoStopKeeps, PeriodicIdleServerPurgeKeeps, KeepsIsTransitive
<1>6. Keeps(m, m)
  BY DEF Keeps
<1> QED
  BY <1>1, <1>2, <1>5, <1>6

\* The loop over the servers: the overdue are killed, the others are left.
LEMMA CheckServersEffect ==
  ASSUME NEW m \in Memory, NEW n, n = CheckServers(m)
  PROVE  /\ \A t \in Servers : t \notin Overdue(m) => Same(m, n, t)
         /\ \A t \in Overdue(m) :
              /\ n.phase[t] = "dying" /\ m.phase[t] = "live"
              /\ \A p, i, o : Session(m, t, p, i, o) => Session(n, t, "dead", <<>>, o)
<1> DEFINE K == Overdue(m)
           k == KillServers(m, K)
<1>1. K \in SUBSET Servers /\ \A t \in K : m.phase[t] = "live"
  BY DEF Overdue, TooLongDying, TooLongBusy, Live
<1>2. k \in Memory
  BY <1>1, KillServersType
<1>3. \A t \in Servers : Same(k, n, t)
  BY <1>2 DEF CheckServers, Memory, Same
<1>4. /\ \A t \in Servers : t \notin K => Same(m, k, t)
      /\ \A t \in K : k.phase[t] = "dying"
  BY <1>1, KillServersEffect
<1>5. ASSUME NEW t \in K, NEW p, NEW i, NEW o, Session(m, t, p, i, o)
      PROVE  Session(k, t, "dead", <<>>, o)
  BY <1>1, <1>5, KilledSession
<1> HIDE DEF k, K
<1>6. \A t \in Servers : t \notin K => Same(m, n, t)
  BY <1>3, <1>4, SameIsTransitive
<1>7. \A t \in K : n.phase[t] = "dying" /\ m.phase[t] = "live"
  BY <1>1, <1>3, <1>4 DEF Same
<1>8. \A t \in K : \A p, i, o : Session(m, t, p, i, o) => Session(n, t, "dead", <<>>, o)
  BY <1>1, <1>3, <1>5, SameSession
<1> QED
  BY <1>6, <1>7, <1>8 DEF K

LEMMA CountDelaySame ==
  ASSUME NEW m \in Memory, NEW n, n = CountDelay(m)
  PROVE  /\ \A t \in Servers : Same(m, n, t)
         /\ Overdue(n) = Overdue(m)
<1>1. /\ n.phase = m.phase /\ n.started = m.started /\ n.armed = m.armed
      /\ n.onSend = m.onSend /\ n.bound = m.bound /\ n.exiting = m.exiting
      /\ n.lastSent = m.lastSent /\ n.queue = m.queue /\ n.idle = m.idle
      /\ n.ttl = m.ttl /\ n.age = m.age /\ n.extra = m.extra
  BY DEF CountDelay, Memory
<1> QED
  BY <1>1 DEF Same, Overdue, TooLongDying, TooLongBusy, Live

\* Where the sessions are when DoPeriodic is done.
LEMMA CheckedSession ==
  ASSUME TypeOK, Sessions, NEW head \in Servers, NEW t \in Servers
  PROVE  /\ t \in Overdue(mgr) =>
              /\ Checked(head).phase[t] = "dying"
              /\ Session(Checked(head), t, "dead", <<>>, outbox[t])
         /\ t \notin Overdue(mgr) =>
              /\ Checked(head).phase[t] = mgr.phase[t]
              /\ Session(Checked(head), t, proc[t], inbox[t], outbox[t])
<1> DEFINE a == CountDelay(mgr)
           b == CheckServers(a)
<1>0. mgr \in Memory /\ Session(mgr, t, proc[t], inbox[t], outbox[t])
  BY DEF TypeOK, Sessions
<1>1. a \in Memory /\ Same(mgr, a, t) /\ Overdue(a) = Overdue(mgr)
  BY <1>0, CountDelayType, CountDelaySame
<1>2. Session(a, t, proc[t], inbox[t], outbox[t])
  BY <1>0, <1>1, SameSession
<1> HIDE DEF a
<1>3. /\ b \in Memory
      /\ t \notin Overdue(mgr) => Same(a, b, t)
      /\ t \in Overdue(mgr) => b.phase[t] = "dying" /\ Session(b, t, "dead", <<>>, outbox[t])
  BY <1>1, <1>2, CheckServersType, CheckServersEffect
<1>4. Checked(head) = CheckPool(b, head)
  BY DEF Checked, a
<1> HIDE DEF b
<1>5. Keeps(b, Checked(head))
  BY <1>3, <1>4, CheckPoolKeeps
<1>6. CASE t \in Overdue(mgr)
  BY <1>3, <1>5, <1>6 DEF Keeps
<1>7. CASE t \notin Overdue(mgr)
  <2>1. Session(b, t, proc[t], inbox[t], outbox[t]) /\ b.phase[t] = mgr.phase[t]
    BY <1>1, <1>2, <1>3, <1>7, SameSession DEF Same
  <2> QED
    BY <1>5, <1>7, <2>1 DEF Keeps
<1> QED
  BY <1>6, <1>7

LEMMA TickSession ==
  ASSUME TypeOK, Sessions, Tick
  PROVE  Sessions'
<1> DEFINE K == Overdue(mgr)
<1>0. mgr \in Memory /\ WorldAfter(K)
  BY DEF TypeOK, Tick
<1>1. PICK head \in Servers : TickWith(head) /\ mgr' = Ticked(head)
  BY DEF Tick
<1> DEFINE c == Checked(head)
           d == DeleteServers(c)
<1>2. c \in Memory
  BY <1>0, CountDelayType, CheckServersType, CheckPoolType DEF Checked
<1>3. \A t \in K : mgr.phase[t] = "live"
  BY DEF Overdue, TooLongDying, TooLongBusy, Live
<1>4. \A t \in Servers :
        /\ t \in K => c.phase[t] = "dying" /\ Session(c, t, "dead", <<>>, outbox[t])
        /\ t \notin K => /\ c.phase[t] = mgr.phase[t]
                         /\ Session(c, t, proc[t], inbox[t], outbox[t])
  BY CheckedSession
<1>5. /\ c.process # "up" => mgr' = c
      /\ c.process = "up" => mgr' \in {d, CreateNewProcess(d)}
  BY <1>1 DEF Ticked, CleanUp
<1>6. RoomToFork(d)
  BY <1>1 DEF TickWith
<1> HIDE DEF K, c
<1>7. d \in Memory
  BY <1>2, DeleteServersType
<1>8. /\ \A t \in Servers : c.phase[t] # "dying" => Same(c, d, t)
      /\ \A t \in Servers : c.phase[t] = "dying" /\ t \notin c.idle => Unused(d, t)
  BY <1>2, DeleteServersEffect
<1> HIDE DEF d
<1>9. CASE mgr' = c
  <2>1. ASSUME NEW t \in Servers
        PROVE  Session(mgr', t, proc'[t], inbox'[t], outbox'[t])
    <3>1. CASE t \in K
      BY <1>0, <1>4, <1>9, <3>1, SlotSession
    <3>2. CASE t \notin K
      BY <1>0, <1>4, <1>9, <3>2, SlotSession
    <3> QED
      BY <3>1, <3>2
  <2> QED
    BY <2>1 DEF Sessions
<1>10. CASE mgr' \in {d, CreateNewProcess(d)}
  <2>1. /\ \A t \in Servers : d.phase[t] # "free" => Same(d, mgr', t)
        /\ \A t \in Servers :
             Unused(d, t) => Unused(mgr', t) \/ (Starting(mgr', t) /\ mgr'.phase[t] = "live")
    <3>1. CASE mgr' = d
      BY <3>1 DEF Same
    <3>2. CASE mgr' = CreateNewProcess(d)
      BY <1>6, <1>7, <3>2, CreateNewProcessEffect
    <3> QED
      BY <1>10, <3>1, <3>2
  <2>2. ASSUME NEW t \in Servers, c.phase[t] = "live"
        PROVE  Session(mgr', t, proc'[t], inbox'[t], outbox'[t])
    <3>1. /\ t \notin K /\ mgr.phase[t] = "live"
          /\ Session(c, t, proc[t], inbox[t], outbox[t])
      BY <1>4, <2>2
    <3>2. Same(c, d, t)
      BY <1>8, <2>2
    <3>3. Same(d, mgr', t)
      BY <2>1, <2>2, <3>2 DEF Same
    <3>4. Session(mgr', t, proc[t], inbox[t], outbox[t])
      BY <3>1, <3>2, <3>3, SameIsTransitive, SameSession
    <3> QED
      BY <1>0, <3>1, <3>4, SlotSession
  <2>3. ASSUME NEW t \in Servers, c.phase[t] # "live"
        PROVE  Session(mgr', t, proc'[t], inbox'[t], outbox'[t])
    <3>1. \E p, i, o : Session(c, t, p, i, o)
      BY <1>4
    <3>2. t \notin c.idle
      BY <2>3, <3>1, IdleSession DEF Idling
    <3>3. Unused(d, t)
      <4>1. CASE c.phase[t] = "dying"
        BY <1>8, <3>2, <4>1
      <4>2. CASE c.phase[t] = "free"
        <5>1. Unused(c, t) /\ Same(c, d, t)
          BY <1>8, <3>1, <4>2, FreeSession
        <5> QED
          BY <5>1 DEF Unused, Same
      <4> QED
        BY <1>2, <2>3, <4>1, <4>2 DEF Memory
    <3>4. t \in K \/ mgr.phase[t] # "live"
      BY <1>4, <2>3
    <3>5. Unused(mgr', t) \/ (Starting(mgr', t) /\ mgr'.phase[t] = "live")
      BY <2>1, <3>3
    <3> QED
      BY <1>0, <3>4, <3>5, SlotSession
  <2> QED
    BY <2>2, <2>3 DEF Sessions
<1> QED
  BY <1>5, <1>9, <1>10

-----------------------------------------------------------------------------
(* The administrator.                                                      *)

\* A command that only changes the manager's memory.
LEMMA KeepsSessions ==
  ASSUME Sessions, Keeps(mgr, mgr'), UNCHANGED world
  PROVE  Sessions'
BY WorldUnchanged DEF Keeps, Sessions

\* SlaughterAllServers.
LEMMA SlaughterSession ==
  ASSUME TypeOK, Sessions, Keeps(KillServers(mgr, Live(mgr)), mgr'), WorldAfter(Live(mgr))
  PROVE  Sessions'
<1> DEFINE K == Live(mgr)
           k == KillServers(mgr, K)
<1>0. mgr \in Memory /\ K \in SUBSET Servers
  BY DEF TypeOK, Live
<1>1. \A t \in Servers : t \in K <=> mgr.phase[t] = "live"
  BY DEF Live
<1>2. /\ \A t \in Servers : t \notin K => Same(mgr, k, t)
      /\ \A t \in K : k.phase[t] = "dying"
  BY <1>0, KillServersEffect
<1>3. ASSUME NEW t \in K
      PROVE  Session(k, t, "dead", <<>>, outbox[t])
  BY <1>0, <1>1, KilledSession DEF Sessions
<1>4. Keeps(k, mgr')
  OBVIOUS
<1> HIDE DEF K, k
<1>5. ASSUME NEW t \in Servers
      PROVE  Session(mgr', t, proc'[t], inbox'[t], outbox'[t])
  <2>1. CASE t \in K
    <3>1. mgr'.phase[t] = "dying" /\ Session(mgr', t, "dead", <<>>, outbox[t])
      BY <1>2, <1>3, <1>4, <2>1 DEF Keeps
    <3> QED
      BY <2>1, <3>1, SlotSession DEF K
  <2>2. CASE t \notin K
    <3>1. Session(k, t, proc[t], inbox[t], outbox[t])
      BY <1>2, <2>2, SameSession DEF Sessions
    <3>2. Session(mgr', t, proc[t], inbox[t], outbox[t])
      BY <1>4, <3>1 DEF Keeps
    <3>3. mgr'.phase[t] = mgr.phase[t]
      BY <1>2, <1>4, <2>2 DEF Same, Keeps
    <3> QED
      BY <2>2, <3>2, <3>3, SlotSession DEF K
  <2> QED
    BY <2>1, <2>2
<1> QED
  BY <1>5 DEF Sessions

LEMMA DoResumeSession ==
  ASSUME TypeOK, Sessions, DoResume
  PROVE  Sessions'
<1> DEFINE n == Lesser(Len(mgr.waiting), Cardinality(mgr.idle))
<1>0. mgr \in Memory
  BY DEF TypeOK
<1>1. n \in Nat /\ n <= Len(mgr.waiting)
  <2>1. Len(mgr.waiting) \in Nat /\ Cardinality(mgr.idle) \in Nat
    BY <1>0, CardinalityOfServers DEF Memory
  <2> QED
    BY <2>1 DEF Lesser
<1>2. PICK S \in SUBSET mgr.idle : \E rank \in [S -> 1..n] :
        mgr' = AssignServers([GetIdleServers(mgr, S) EXCEPT
                                !.mode = "running",
                                !.waiting = SubSeq(@, n + 1, Len(@))],
                             S, [s \in S |-> mgr.waiting[rank[s]]])
  BY Zenon DEF DoResume
<1> HIDE DEF n
<1>3. PICK rank \in [S -> 1..n] :
        mgr' = AssignServers([GetIdleServers(mgr, S) EXCEPT
                                !.mode = "running",
                                !.waiting = SubSeq(@, n + 1, Len(@))],
                             S, [s \in S |-> mgr.waiting[rank[s]]])
  BY <1>2
<1> DEFINE rest == SubSeq(mgr.waiting, n + 1, Len(mgr.waiting))
           g == GetIdleServers(mgr, S)
           r == [g EXCEPT !.mode = "running", !.waiting = rest]
           to == [s \in S |-> mgr.waiting[rank[s]]]
<1>4. rest \in Seq(Connections)
  BY <1>0, <1>1 DEF Memory
<1>5. S \in SUBSET Servers
  BY <1>0 DEF Memory
<1>6. g \in Memory /\ g.waiting = mgr.waiting
  BY <1>0, <1>5, GetIdleServersType DEF GetIdleServers, Memory
<1>7. \A t \in S : Idling(mgr, t) /\ Rests(proc[t], inbox[t], outbox[t])
  BY <1>5, IdleSession DEF Sessions
<1>8. /\ \A t \in Servers : t \notin S => Same(mgr, g, t)
      /\ \A t \in S : Ready(g, t)
  BY <1>0, <1>5, <1>7, GetIdleServersEffect
<1>9. [GetIdleServers(mgr, S) EXCEPT
        !.mode = "running", !.waiting = SubSeq(@, n + 1, Len(@))] = r
  BY <1>6 DEF Memory
<1> HIDE DEF rest, g
<1>10. r \in Memory /\ \A t \in Servers : Same(g, r, t)
  BY <1>4, <1>6 DEF Memory, Modes, Same
<1>11. \A t \in S : Ready(r, t)
  BY <1>5, <1>8, <1>10 DEF Ready, Same, Reporting, Heard
<1> HIDE DEF r
<1>12. to \in [S -> Connections]
  <2>1. mgr.waiting \in Seq(Connections) /\ n <= Len(mgr.waiting)
    BY <1>0, <1>1 DEF Memory
  <2>2. \A t \in S : rank[t] \in 1..Len(mgr.waiting)
    BY <1>1, <1>3, <2>1
  <2>3. \A t \in S : mgr.waiting[rank[t]] \in Connections
    BY <2>1, <2>2
  <2> QED
    BY <2>3
<1>13. mgr' = AssignServers(r, S, to)
  BY <1>3, <1>9
<1> HIDE DEF to
<1>14. /\ \A t \in S : Waking(mgr', t)
       /\ \A t \in Servers : t \notin S => Same(r, mgr', t)
  BY <1>5, <1>10, <1>11, <1>12, <1>13, AssignServersEffect
<1>15. ASSUME NEW t \in Servers
       PROVE  Session(mgr', t, proc[t], inbox[t], outbox[t])
  <2>1. CASE t \in S
    BY <1>7, <1>14, <2>1 DEF Session
  <2>2. CASE t \notin S
    <3>1. Session(mgr, t, proc[t], inbox[t], outbox[t])
      BY DEF Sessions
    <3>2. Same(mgr, mgr', t)
      BY <1>8, <1>10, <1>14, <2>2, SameIsTransitive
    <3> QED
      BY <3>1, <3>2, SameSession
  <2> QED
    BY <2>1, <2>2
<1>16. UNCHANGED world
  BY DEF DoResume
<1> QED
  BY <1>15, <1>16, WorldUnchanged

LEMMA AdministratorSession ==
  ASSUME TypeOK, Sessions, Administrator
  PROVE  Sessions'
<1>0. mgr \in Memory /\ Live(mgr) \in SUBSET Servers
  BY DEF TypeOK, Live
<1>1. CASE DoReload
  <2>1. Keeps(mgr, [StopAllServers(mgr) EXCEPT !.mode = "reloading"])
    BY <1>0, StopAllServersType, StopAllServersKeeps, OtherFieldsKeep, KeepsIsTransitive
  <2> QED
    BY <1>1, <2>1, KeepsSessions DEF DoReload
<1>2. CASE DoRestart
  BY <1>0, <1>2, KillServersType, OtherFieldsKeep, SlaughterSession DEF DoRestart
<1>3. CASE DoStopCommand
  BY <1>0, <1>3, DoStopKeeps, KeepsSessions DEF DoStopCommand
<1>4. CASE DoExit
  BY <1>0, <1>4, KillServersType, OtherFieldsKeep, SlaughterSession DEF DoExit
<1>5. CASE DoPause
  BY <1>0, <1>5, OtherFieldsKeep, KeepsSessions DEF DoPause
<1>6. CASE DoResume
  BY <1>6, DoResumeSession
<1>7. CASE SetPref
  <2> DEFINE a == AppendMessage(mgr, "pref", Servers)
  <2>1. PICK n : mgr' = [a EXCEPT !.prefs = n]
    BY <1>7 DEF SetPref
  <2>2. a \in Memory /\ Keeps(mgr, a)
    BY <1>0, AppendMessageType, AppendMessageKeeps DEF Kinds
  <2> HIDE DEF a
  <2>3. Keeps(mgr, mgr')
    BY <2>1, <2>2, OtherFieldsKeep, KeepsIsTransitive
  <2>4. UNCHANGED world
    BY <1>7 DEF SetPref
  <2> QED
    BY <2>3, <2>4, KeepsSessions
<1>8. CASE DoPing
  BY <1>0, <1>8, OtherFieldsKeep, KeepsSessions DEF DoPing
<1> QED
  BY <1>1, <1>2, <1>3, <1>4, <1>5, <1>6, <1>7, <1>8 DEF Administrator

-----------------------------------------------------------------------------
(* Workers: the manager's side of a session does not move.                 *)

\* What the death of a worker leaves.
LEMMA DeadSession ==
  ASSUME NEW m, NEW s, NEW p, NEW i, NEW o, Session(m, s, p, i, o), p # "none"
  PROVE  Session(m, s, "dead", <<>>, o)
<1>1. Boots(p, i, o) => Boots("dead", <<>>, o)
  BY DEF Boots
<1>2. Rests(p, i, o) => Rests("dead", <<>>, o)
  BY DEF Rests
<1>3. Works(p, i, o) => Works("dead", <<>>, o)
  <2>1. \A l \in {"NEED_RESP_CMD", "END_REQUEST"} :
          EndsIn(o, {"NO_RESP_CMD"}, {l}) =>
            EndsIn(o, {"NO_RESP_CMD"}, {"NEED_RESP_CMD", "END_REQUEST"})
    BY DEF EndsIn
  <2>2. Only(<<>>, {"NO_RESP_CMD"})
    BY ShortSequences
  <2> QED
    BY <2>1, <2>2 DEF Works
<1>4. Waits(p, i, o) => Waits("dead", <<>>, o)
  BY DEF Waits
<1>5. Leaves(p, i, o) => Leaves("dead", <<>>, o)
  BY DEF Leaves
<1>6. ~Absent(p, i, o)
  BY DEF Absent
<1> QED
  BY <1>1, <1>2, <1>3, <1>4, <1>5, <1>6 DEF Session

\* A worker that reads head, becomes to and has rest left to read.
LEMMA ReadSession ==
  ASSUME NEW m, NEW s, NEW p \in Processes, NEW i \in Seq(Received), NEW o,
         Session(m, s, p, i, o), i # <<>>, p # "dead",
         NEW to, to = CASE Head(i) = "request"  -> "busy"
                        [] Head(i) = "response" -> "busy"
                        [] Head(i) = "exit"     -> "dead"
                        [] OTHER                -> p
  PROVE  Session(m, s, to, IF to = "dead" THEN <<>> ELSE Tail(i), o)
<1>1. ~Absent(p, i, o) /\ ~Boots(p, i, o) /\ ~Waits(p, i, o)
  BY DEF Absent, Boots, Waits
<1>2. ASSUME Rests(p, i, o) PROVE Rests(to, Tail(i), o) /\ to # "dead"
  <2>1. Head(i) \in {"pref"} /\ Only(Tail(i), {"pref"}) /\ p = "idle"
    BY <1>2, OnlyTail DEF Rests
  <2> QED
    BY <1>2, <2>1 DEF Rests
<1>3. ASSUME Works(p, i, o) PROVE Works(to, Tail(i), o) /\ to # "dead"
  <2>1. CASE p = "idle" /\ EndsIn(i, {"pref"}, {"request"}) /\ o = <<>>
    <3>1. \/ Tail(i) = <<>> /\ Head(i) \in {"request"}
          \/ Head(i) \in {"pref"} /\ EndsIn(Tail(i), {"pref"}, {"request"})
      BY <2>1, EndsInTail
    <3>2. Only(o, {"NO_RESP_CMD"})
      BY <2>1, ShortSequences
    <3> QED
      BY <2>1, <3>1, <3>2 DEF Works
  <2>2. CASE p = "asking" /\ i = <<"response">> /\ o = <<>>
    <3>1. Head(i) = "response" /\ Tail(i) = <<>>
      BY <2>2
    <3>2. Only(o, {"NO_RESP_CMD"})
      BY <2>2, ShortSequences
    <3> QED
      BY <3>1, <3>2 DEF Works
  <2> QED
    BY <1>3, <2>1, <2>2 DEF Works
<1>4. ASSUME Leaves(p, i, o)
      PROVE  Leaves(to, IF to = "dead" THEN <<>> ELSE Tail(i), o)
  <2>1. Head(i) \in {"pref", "exit"} /\ Only(Tail(i), {"pref", "exit"}) /\ p = "idle"
    BY <1>4, OnlyTail DEF Leaves
  <2> QED
    BY <1>4, <2>1 DEF Leaves
<1>5. ASSUME Failed(m, s)
      PROVE  Session(m, s, to, IF to = "dead" THEN <<>> ELSE Tail(i), o)
  BY <1>5 DEF Session
<1> QED
  BY <1>1, <1>2, <1>3, <1>4, <1>5 DEF Session

\* A worker in its request that says msg and becomes to.
LEMMA SaySession ==
  ASSUME NEW m, NEW s, NEW i, NEW o \in Seq(Messages), Session(m, s, "busy", i, o),
         NEW to, NEW msg,
         \/ to = "idle" /\ msg = "END_REQUEST"
         \/ to = "busy" /\ msg = "NO_RESP_CMD"
         \/ to = "asking" /\ msg = "NEED_RESP_CMD"
  PROVE  Session(m, s, to, i, o \o <<msg>>)
<1>1. msg \in Messages
  BY DEF Messages
<1>2. o \o <<msg>> = Append(o, msg)
  BY <1>1
<1>3. ASSUME Works("busy", i, o) PROVE Works(to, i, Append(o, msg))
  <2>1. i = <<>> /\ Only(o, {"NO_RESP_CMD"})
    BY <1>3 DEF Works
  <2>2. /\ msg = "NO_RESP_CMD" => Only(Append(o, msg), {"NO_RESP_CMD"})
        /\ EndsIn(Append(o, msg), {"NO_RESP_CMD"}, {msg})
    BY <1>1, <2>1, OnlyAppend
  <2> QED
    BY <2>1, <2>2 DEF Works
<1>4. /\ ~Absent("busy", i, o) /\ ~Boots("busy", i, o) /\ ~Rests("busy", i, o)
      /\ ~Waits("busy", i, o) /\ ~Leaves("busy", i, o)
  BY DEF Absent, Boots, Rests, Waits, Leaves
<1>5. to # "dead"
  OBVIOUS
<1> QED
  BY <1>2, <1>3, <1>4, <1>5 DEF Session

LEMMA WorkerSession ==
  ASSUME TypeOK, Sessions, NEW s \in Servers, Worker(s)
  PROVE  Sessions'
<1>0. /\ proc \in [Servers -> Processes]
      /\ inbox \in [Servers -> Seq(Received)]
      /\ outbox \in [Servers -> Seq(Messages)]
      /\ Session(mgr, s, proc[s], inbox[s], outbox[s])
  BY DEF TypeOK, Sessions
<1>1. ASSUME NEW from, NEW to, NEW sent, WorkerStep(s, from, to, sent),
             NEW i, inbox' = [inbox EXCEPT ![s] = i],
             Session(mgr, s, to, i, outbox[s] \o sent)
      PROVE  Sessions'
  <2>1. /\ mgr' = mgr
        /\ proc' = [proc EXCEPT ![s] = to]
        /\ outbox' = [outbox EXCEPT ![s] = outbox[s] \o sent]
    BY <1>1 DEF WorkerStep
  <2>2. /\ proc'[s] = to /\ inbox'[s] = i /\ outbox'[s] = outbox[s] \o sent
        /\ \A t \in Servers : t # s => /\ proc'[t] = proc[t] /\ inbox'[t] = inbox[t]
                                       /\ outbox'[t] = outbox[t]
    BY <1>0, <1>1, <2>1
  <2>3. \A t \in Servers : Same(mgr, mgr', t)
    BY <2>1 DEF Same
  <2>4. Session(mgr', s, proc'[s], inbox'[s], outbox'[s])
    BY <1>1, <2>1, <2>2
  <2> QED
    BY <2>2, <2>3, <2>4, OneServer
<1>2. inbox = [inbox EXCEPT ![s] = inbox[s]]
  BY <1>0
<1>3. outbox[s] \o <<>> = outbox[s]
  BY <1>0
<1>4. CASE WorkerStarts(s)
  <2>1. WorkerStep(s, "booting", "idle", <<"started">>) /\ inbox' = inbox
    BY <1>4 DEF WorkerStarts
  <2>2. Session(mgr, s, "booting", inbox[s], outbox[s])
    BY <1>0, <2>1 DEF WorkerStep
  <2>3. CASE Failed(mgr, s)
    <3>1. Session(mgr, s, "idle", inbox[s], outbox[s] \o <<"started">>)
      BY <2>3 DEF Session
    <3> QED
      BY <1>1, <1>2, <2>1, <3>1
  <2>4. CASE ~Failed(mgr, s)
    <3>1. Starting(mgr, s) /\ Boots("booting", inbox[s], outbox[s])
      BY <2>2, <2>4 DEF Session, Absent, Rests, Works, Waits, Leaves
    <3>2. inbox[s] = <<>> /\ outbox[s] = <<>>
      BY <3>1 DEF Boots
    <3>3. outbox[s] \o <<"started">> = <<"started">>
      BY <3>2
    <3>4. Session(mgr, s, "idle", inbox[s], outbox[s] \o <<"started">>)
      BY <3>1, <3>2, <3>3 DEF Session, Boots
    <3> QED
      BY <1>1, <1>2, <2>1, <3>4
  <2> QED
    BY <2>3, <2>4
<1>5. CASE WorkerDies(s)
  <2>1. /\ WorkerStep(s, proc[s], "dead", <<>>) /\ proc[s] # "none"
        /\ inbox' = [inbox EXCEPT ![s] = <<>>]
    BY <1>5 DEF WorkerDies
  <2>2. Session(mgr, s, "dead", <<>>, outbox[s] \o <<>>)
    BY <1>0, <1>3, <2>1, DeadSession
  <2> QED
    BY <1>1, <2>1, <2>2
<1>6. CASE WorkerReads(s)
  <2> DEFINE to == CASE Head(inbox[s]) = "request"  -> "busy"
                     [] Head(inbox[s]) = "response" -> "busy"
                     [] Head(inbox[s]) = "exit"     -> "dead"
                     [] OTHER                       -> proc[s]
             rest == IF to = "dead" THEN <<>> ELSE Tail(inbox[s])
  <2>1. /\ inbox[s] # <<>>
        /\ WorkerStep(s, proc[s], to, <<>>)
        /\ inbox' = [inbox EXCEPT ![s] = IF to = "dead" THEN <<>> ELSE Tail(@)]
    BY <1>6, Zenon DEF WorkerReads
  <2>2. proc[s] # "dead"
    BY <1>0, <2>1, DeadReadsNothing
  <2>3. Session(mgr, s, to, rest, outbox[s])
    BY <1>0, <2>1, <2>2, ReadSession
  <2> HIDE DEF to
  <2>4. inbox' = [inbox EXCEPT ![s] = rest]
    BY <1>0, <2>1
  <2>5. Session(mgr, s, to, rest, outbox[s] \o <<>>)
    BY <1>3, <2>3
  <2>6. WorkerStep(s, proc[s], to, <<>>)
    BY <2>1
  <2> HIDE DEF rest
  <2> QED
    BY <1>1, <2>4, <2>5, <2>6
<1>7. ASSUME NEW to, NEW msg, WorkerStep(s, "busy", to, <<msg>>), inbox' = inbox,
             \/ to = "idle" /\ msg = "END_REQUEST"
             \/ to = "busy" /\ msg = "NO_RESP_CMD"
             \/ to = "asking" /\ msg = "NEED_RESP_CMD"
      PROVE  Sessions'
  <2>1. Session(mgr, s, "busy", inbox[s], outbox[s])
    BY <1>0, <1>7 DEF WorkerStep
  <2>2. Session(mgr, s, to, inbox[s], outbox[s] \o <<msg>>)
    BY <1>0, <1>7, <2>1, SaySession
  <2> QED
    BY <1>1, <1>2, <1>7, <2>2
<1>8. CASE WorkerEnds(s)
  BY <1>7, <1>8 DEF WorkerEnds
<1>9. CASE ExecNoRespCmd(s)
  BY <1>7, <1>9 DEF ExecNoRespCmd, PageCommand
<1>10. CASE ExecNeedRespCmd(s)
  BY <1>7, <1>10 DEF ExecNeedRespCmd, PageCommand
<1> QED
  BY <1>4, <1>5, <1>6, <1>8, <1>9, <1>10 DEF Worker

-----------------------------------------------------------------------------
(* The theorems.                                                           *)

LEMMA InitSession == Init => Sessions
<1> SUFFICES ASSUME Init, NEW t \in Servers
             PROVE  Session(mgr, t, proc[t], inbox[t], outbox[t])
  BY DEF Sessions
<1> DEFINE z == InitMemory
<1>1. z \in Memory
  BY InitMemoryType
<1>2. \A s \in Servers : Unused(z, s)
  BY DEF InitMemory, Each, Unused
<1>3. z.phase[t] = "free"
  BY <1>2 DEF Unused
<1>4. mgr = CreateNewProcess(z) \/ mgr = z
  BY DEF Init
<1> HIDE DEF z
<1>5. Unused(mgr, t) \/ (Starting(mgr, t) /\ mgr.phase[t] = "live")
  <2>1. CASE mgr = z
    BY <1>2, <2>1
  <2>2. CASE mgr = CreateNewProcess(z)
    <3>1. RoomToFork(z)
      BY <1>3 DEF RoomToFork, Free
    <3> QED
      BY <1>1, <1>2, <2>2, <3>1, CreateNewProcessEffect
  <2> QED
    BY <1>4, <2>1, <2>2
<1>6. /\ proc[t] = IF mgr.phase[t] = "live" THEN "booting" ELSE "none"
      /\ inbox[t] = <<>> /\ outbox[t] = <<>>
  BY DEF Init, Each
<1>7. CASE Unused(mgr, t)
  BY <1>6, <1>7 DEF Unused, Session, Absent
<1>8. CASE Starting(mgr, t) /\ mgr.phase[t] = "live"
  BY <1>6, <1>8 DEF Session, Boots
<1> QED
  BY <1>5, <1>7, <1>8

LEMMA NextSession ==
  ASSUME TypeOK, Sessions, [Next]_vars
  PROVE  Sessions'
<1>1. CASE Next
  BY <1>1, ConnectionStepSession, ServerEventSession, TickSession, AdministratorSession,
     WorkerSession DEF Next
<1>2. CASE UNCHANGED vars
  BY <1>2 DEF vars, Sessions
<1> QED
  BY <1>1, <1>2

\* Every worker and the manager agree on where their session stands: nothing
\* either of them has sent and the other has not read can be misread, whatever
\* the order of handlers, kills, crashes, restarts and reuse of slots.
THEOREM SessionsAgree == Spec => []Sessions
<1>1. Init => Sessions
  BY InitSession
<1>2. TypeOK /\ Sessions /\ [Next]_vars => Sessions'
  BY NextSession
<1> QED
  BY <1>1, <1>2, TypeCorrect, PTL DEF Spec

\* GetIdleServer never hands out a server that is starting, dying, bound,
\* sending, or behind on its messages.
THEOREM IdleServersAreReady == Spec => []IdleSound
<1>1. ASSUME TypeOK, Sessions PROVE IdleSound
  <2> SUFFICES ASSUME NEW s \in mgr.idle PROVE Idling(mgr, s)
    BY DEF IdleSound, Idling, Reporting
  <2>1. s \in Servers
    BY <1>1 DEF TypeOK, Memory
  <2> QED
    BY <1>1, <2>1, IdleSession DEF Sessions
<1> QED
  BY <1>1, TypeCorrect, SessionsAgree, PTL

\* Nothing follows ExitMessage: the worker is not idle, not bound, not written.
THEOREM NothingAfterExit == Spec => []ExitIsFinal
<1>1. ASSUME Sessions PROVE ExitIsFinal
  <2> SUFFICES ASSUME NEW s \in Servers, mgr.exiting[s]
               PROVE  /\ s \notin mgr.idle
                      /\ mgr.bound[s] = NoConnection
                      /\ mgr.armed[s] => mgr.onSend[s] = "none"
    BY DEF ExitIsFinal
  <2>1. Leaving(mgr, s) \/ Failed(mgr, s)
    BY <1>1 DEF Sessions, Session, Unused, Starting, Idling, Pushing, Waking,
                Serving, Answering
  <2> QED
    BY <2>1 DEF Leaving, Failed
<1> QED
  BY <1>1, SessionsAgree, PTL

LEMMA LastOrBefore == \A n \in Nat : \A j \in 1..n : j \in 1..n-1 \/ j = n
OBVIOUS

\* One request in an inbox, when it is the last thing there.
LEMMA RequestsOf ==
  ASSUME NEW s, inbox[s] \in Seq(Received)
  PROVE  /\ Only(inbox[s], {"pref", "exit"}) => Requests(s) = {}
         /\ inbox[s] = <<"response">> => Requests(s) = {}
         /\ EndsIn(inbox[s], {"pref"}, {"request"}) => Requests(s) = {Len(inbox[s])}
<1> DEFINE i == inbox[s]
<1>1. Requests(s) = {j \in DOMAIN i : i[j] = "request"}
  BY DEF Requests
<1>2. i \in Seq(Received) /\ Len(i) \in Nat /\ DOMAIN i = 1..Len(i)
  OBVIOUS
<1> HIDE DEF i
<1>3. Only(i, {"pref", "exit"}) => Requests(s) = {}
  BY <1>1 DEF Only
<1>4. i = <<"response">> => Requests(s) = {}
  BY <1>1
<1>5. ASSUME EndsIn(i, {"pref"}, {"request"}) PROVE Requests(s) = {Len(i)}
  <2>1. i # <<>> /\ i[Len(i)] = "request" /\ \A j \in 1..Len(i)-1 : i[j] = "pref"
    BY <1>5 DEF EndsIn
  <2>2. Len(i) # 0
    BY <1>2, <2>1, LengthZero
  <2>3. \A j \in 1..Len(i) : j \in 1..Len(i)-1 \/ j = Len(i)
    BY <1>2, LastOrBefore
  <2>4. Len(i) \in DOMAIN i
    BY <1>2, <2>2
  <2> QED
    BY <1>1, <1>2, <2>1, <2>3, <2>4
<1> QED
  BY <1>3, <1>4, <1>5 DEF i

\* A worker is believed free only when it is, and has at most one request.
THEOREM ManagerIsRight == Spec => []BeliefSound
<1>1. ASSUME TypeOK, Sessions PROVE BeliefSound
  <2> SUFFICES ASSUME NEW s \in Servers, mgr.phase[s] = "live", proc[s] # "dead"
               PROVE  /\ Unoccupied(s) =>
                           proc[s] = "idle" /\ outbox[s] = <<>> /\ Requests(s) = {}
                      /\ proc[s] \in {"busy", "asking"} =>
                           \A j \in DOMAIN inbox[s] : inbox[s][j] = "response"
                      /\ Cardinality(Requests(s)) <= 1
    BY DEF BeliefSound
  <2> DEFINE p == proc[s]  i == inbox[s]  o == outbox[s]
  <2>1. Session(mgr, s, p, i, o) /\ i \in Seq(Received)
    BY <1>1 DEF Sessions, TypeOK
  <2>2. ~Failed(mgr, s)
    BY DEF Failed
  <2>3. ASSUME Unoccupied(s) PROVE Rests(p, i, o)
    <3>1. Idling(mgr, s) \/ Pushing(mgr, s) \/ Waking(mgr, s) => Rests(p, i, o)
      BY <2>1 DEF Session, Unused, Starting, Serving, Answering, Leaving, Failed,
                  Reporting, Idling, Pushing, Waking
    <3> QED
      BY <2>1, <2>2, <2>3, <3>1
      DEF Session, Unoccupied, Unused, Starting, Serving, Answering, Leaving
  <2>4. Rests(p, i, o) => p = "idle" /\ o = <<>> /\ Requests(s) = {}
    <3>1. Only(i, {"pref"}) => Requests(s) = {}
      BY <2>1, RequestsOf DEF Only
    <3> QED
      BY <3>1 DEF Rests
  <2>5. ASSUME p \in {"busy", "asking"} PROVE \A j \in DOMAIN i : i[j] = "response"
    <3>1. i = <<>> \/ i = <<"response">>
      BY <2>1, <2>2, <2>5 DEF Session, Absent, Boots, Rests, Works, Waits, Leaves
    <3> QED
      BY <3>1
  <2>6. Requests(s) = {} \/ \E k : Requests(s) = {k}
    <3>1. i = <<>> \/ Only(i, {"pref", "exit"}) \/ i = <<"response">>
            \/ EndsIn(i, {"pref"}, {"request"})
      <4>1. Only(i, {"pref"}) => Only(i, {"pref", "exit"})
        BY DEF Only
      <4> QED
        BY <2>1, <2>2, <4>1 DEF Session, Absent, Boots, Rests, Works, Waits, Leaves
    <3>2. i = <<>> => Only(i, {"pref", "exit"})
      BY DEF Only
    <3> QED
      BY <2>1, <3>1, <3>2, RequestsOf
  <2>7. Cardinality(Requests(s)) <= 1
    <3>1. CASE Requests(s) = {}
      BY <3>1, FS_EmptySet
    <3>2. CASE \E k : Requests(s) = {k}
      BY <3>2, FS_Singleton
    <3> QED
      BY <2>6, <3>1, <3>2
  <2> QED
    BY <2>3, <2>4, <2>5, <2>7
<1> QED
  BY <1>1, TypeCorrect, SessionsAgree, PTL

=============================================================================
