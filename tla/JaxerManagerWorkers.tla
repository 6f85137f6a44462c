------------------------- MODULE JaxerManagerWorkers -------------------------
(***************************************************************************)
(* The workers the manager has, for every pool size, setting and bound: it *)
(* counts them exactly, never has more than maxprocesses, keeps            *)
(* minprocesses of them when it purges the idle ones, and a write callback *)
(* of one finds what it dereferences; and a worker hears what was said     *)
(* before it is given more work.                                           *)
(*                                                                         *)
(* Most operators are "routine": workers neither come nor go, and what the *)
(* idle list and the timers say stays right.  Those that are not start a   *)
(* worker, remove one, or are the tick; they have lemmas of their own.     *)
(***************************************************************************)
EXTENDS JaxerManagerPlacement

-----------------------------------------------------------------------------
(* What g_serverCount, g_minIdleCount and the timers say of the pool, and  *)
(* the operators that are routine.                                         *)

Reported(m) == {s \in Live(m) : m.started[s]}
StartingUp(m) == {s \in Live(m) : ~m.started[s]}

\* One worker starts at a time, and those that have reported in are counted.
Counted(m) ==
  /\ m.serverCount = Cardinality(Reported(m))
  /\ Cardinality(Live(m)) <= MaxServers
  /\ \A s, t \in StartingUp(m) : s = t
  /\ m.pending <=> StartingUp(m) # {} \/ m.delay > 0
  /\ StartingUp(m) = {} \/ m.delay = 0

Levelled(m) == m.minIdle <= Cardinality(m.idle)

\* Nobody on the idle list has been there for longer than a worker that was
\* told to exit has been on its way out: telling one resets the idle times.
Timers(m) ==
  /\ \A s \in Live(m) : m.ttl[s] = -1 \/ m.ttl[s] \in 1..SecondsToLive
  /\ \A s \in Free(m) : m.ttl[s] = -1
Timed(m) ==
  /\ Timers(m)
  /\ \A s \in Live(m), t \in m.idle :
       m.ttl[s] > 0 => m.idleTime[t] <= SecondsToLive - m.ttl[s]

SamePool(m, n) ==
  /\ n.phase = m.phase /\ n.started = m.started /\ n.armed = m.armed
  /\ n.serverCount = m.serverCount /\ n.pending = m.pending /\ n.delay = m.delay

SameTimes(m, n) ==
  /\ n.phase = m.phase /\ n.ttl = m.ttl
  /\ n.idle = m.idle /\ n.idleTime = m.idleTime /\ n.minIdle = m.minIdle

Routine(m, n) ==
  /\ SamePool(m, n)
  /\ Levelled(m) => Levelled(n)
  /\ Timed(m) => Timed(n)

LEMMA RoutineIsTransitive ==
  ASSUME NEW a, NEW b, NEW c, Routine(a, b), Routine(b, c)
  PROVE  Routine(a, c)
BY DEF Routine, SamePool

LEMMA SamePoolCounted ==
  ASSUME NEW m, NEW n, SamePool(m, n), Counted(m)
  PROVE  Counted(n)
<1>1. Live(n) = Live(m) /\ Reported(n) = Reported(m) /\ StartingUp(n) = StartingUp(m)
  BY DEF SamePool, Live, Reported, StartingUp
<1> QED
  BY <1>1 DEF SamePool, Counted

LEMMA SameTimesRoutine ==
  ASSUME NEW m, NEW n, SamePool(m, n), SameTimes(m, n)
  PROVE  Routine(m, n)
BY DEF SameTimes, Routine, Levelled, Timed, Timers, Live, Free

\* Idle servers may leave the list, at the end of which the minimum is taken.
LEMMA ShorterList ==
  ASSUME NEW m \in Memory, NEW n \in Memory, n.idle \subseteq m.idle,
         n.minIdle = Lesser(m.minIdle, Cardinality(n.idle))
  PROVE  Levelled(n)
<1>1. Cardinality(n.idle) \in Nat /\ m.minIdle \in Nat
  BY CardinalityOfServers DEF Memory
<1> QED
  BY <1>1 DEF Levelled, Lesser

LEMMA EarlierTimes ==
  ASSUME NEW m \in Memory, NEW n \in Memory, n.phase = m.phase, n.ttl = m.ttl,
         n.idle \subseteq m.idle, \A t \in n.idle : n.idleTime[t] <= m.idleTime[t],
         Timed(m)
  PROVE  Timed(n)
<1>1. Live(n) = Live(m) /\ Free(n) = Free(m)
  BY DEF Live, Free
<1>2. Timers(n)
  BY <1>1 DEF Timed, Timers
<1>3. ASSUME NEW s \in Live(n), NEW t \in n.idle, n.ttl[s] > 0
      PROVE  n.idleTime[t] <= SecondsToLive - n.ttl[s]
  <2>1. m.idleTime[t] <= SecondsToLive - m.ttl[s]
    BY <1>1, <1>3 DEF Timed
  <2>2. n.idleTime[t] \in Nat /\ m.idleTime[t] \in Nat /\ m.ttl[s] \in Int
        /\ n.idleTime[t] <= m.idleTime[t] /\ n.ttl[s] = m.ttl[s]
    BY <1>1, <1>3 DEF Memory, Live
  <2> QED
    BY <2>1, <2>2, TimerAssumption
<1> QED
  BY <1>2, <1>3 DEF Timed

\* Message::Append resets the idle times of whoever stays idle.
LEMMA AppendMessageTimes ==
  ASSUME NEW m \in Memory, NEW kind \in Kinds, NEW T \in SUBSET Servers,
         NEW n, n = AppendMessage(m, kind, T)
  PROVE  /\ SamePool(m, n) /\ n.ttl = m.ttl /\ n.idle \subseteq m.idle
         /\ \A t \in n.idle : n.idleTime[t] = 0
         /\ Levelled(n)
         /\ Timers(m) => Timed(n)
<1>0. n \in Memory
  BY AppendMessageType
<1>1. SamePool(m, n) /\ n.ttl = m.ttl
  BY DEF SamePool, AppendMessage, Memory
<1>2. n.idle \subseteq m.idle /\ \A t \in n.idle : n.idleTime[t] = 0
  BY DEF AppendMessage, Memory
<1>3. n.minIdle = Lesser(m.minIdle, Cardinality(n.idle))
  BY DEF AppendMessage, Memory
<1>4. Levelled(n)
  BY <1>0, <1>2, <1>3, ShorterList
<1>5. ASSUME Timers(m) PROVE Timed(n)
  <2>1. Live(n) = Live(m) /\ Free(n) = Free(m)
    BY <1>1 DEF SamePool, Live, Free
  <2>2. Timers(n)
    BY <1>1, <1>5, <2>1 DEF Timers
  <2> QED
    BY <1>2, <2>2, TimerAssumption DEF Timed, Timers
<1> QED
  BY <1>1, <1>2, <1>4, <1>5

LEMMA AppendMessageRoutine ==
  ASSUME NEW m \in Memory, NEW kind \in Kinds, NEW T \in SUBSET Servers
  PROVE  Routine(m, AppendMessage(m, kind, T))
BY AppendMessageTimes DEF Routine, Timed

LEMMA OtherFieldsRoutine ==
  ASSUME NEW m \in Memory, NEW v
  PROVE  /\ Routine(m, [m EXCEPT !.process = v])
         /\ Routine(m, [m EXCEPT !.mode = v])
         /\ Routine(m, [m EXCEPT !.belowMin = v])
         /\ Routine(m, [m EXCEPT !.sincePing = v])
         /\ Routine(m, [m EXCEPT !.prefs = v])
         /\ Routine(m, [m EXCEPT !.waiting = v])
         /\ Routine(m, [m EXCEPT !.conn = v])
<1> DEFINE Same2(n) == SamePool(m, n) /\ SameTimes(m, n)
<1>1. Same2([m EXCEPT !.process = v]) /\ Same2([m EXCEPT !.mode = v])
  BY DEF SamePool, SameTimes, Memory
<1>2. Same2([m EXCEPT !.belowMin = v]) /\ Same2([m EXCEPT !.sincePing = v])
  BY DEF SamePool, SameTimes, Memory
<1>3. Same2([m EXCEPT !.prefs = v]) /\ Same2([m EXCEPT !.waiting = v])
  BY DEF SamePool, SameTimes, Memory
<1>4. Same2([m EXCEPT !.conn = v])
  BY DEF SamePool, SameTimes, Memory
<1> QED
  BY <1>1, <1>2, <1>3, <1>4, SameTimesRoutine

LEMMA ServerFieldsRoutine ==
  ASSUME NEW m \in Memory, NEW s, NEW v
  PROVE  /\ Routine(m, [m EXCEPT !.onSend[s] = v])
         /\ Routine(m, [m EXCEPT !.exiting[s] = v])
         /\ Routine(m, [m EXCEPT !.extra[s] = v])
<1>1. \A n \in { [m EXCEPT !.onSend[s] = v], [m EXCEPT !.exiting[s] = v],
                 [m EXCEPT !.extra[s] = v] } :
        SamePool(m, n) /\ SameTimes(m, n)
  BY DEF SamePool, SameTimes, Memory
<1> QED
  BY <1>1, SameTimesRoutine

LEMMA MessagesRoutine ==
  ASSUME NEW m \in Memory, NEW s \in Servers
  PROVE  Routine(m, BringUpToDate(m, s)) /\ Routine(m, TakeNext(m, s))
<1> DEFINE b == BringUpToDate(m, s)
           n == TakeNext(m, s)
<1>1. SamePool(m, n) /\ SameTimes(m, n)
  BY DEF SamePool, SameTimes, TakeNext, Memory
<1>2. SamePool(m, b) /\ b.idle = m.idle /\ b.minIdle = m.minIdle /\ b.ttl = m.ttl
      /\ b.phase = m.phase
  BY DEF SamePool, BringUpToDate, Memory
<1>3. \A t \in Servers : m.idleTime[t] \in Nat /\ b.idleTime[t] \in {0, m.idleTime[t]}
  BY DEF BringUpToDate, Memory
<1>4. b \in Memory
  BY BringUpToDateType
<1> HIDE DEF b, n
<1>6. \A t \in b.idle : t \in Servers
  BY <1>4 DEF Memory
<1>7. \A t \in b.idle : b.idleTime[t] <= m.idleTime[t]
  BY <1>3, <1>6
<1>5. Routine(m, b)
  BY <1>2, <1>4, <1>7, EarlierTimes DEF Routine, Levelled
<1> QED
  BY <1>1, <1>5, SameTimesRoutine DEF b, n

LEMMA UnbindRoutine ==
  ASSUME NEW m \in Memory, NEW s \in Servers
  PROVE  Routine(m, Unbind(m, s))
<1>1. SamePool(m, Unbind(m, s)) /\ SameTimes(m, Unbind(m, s))
  BY DEF SamePool, SameTimes, Unbind, Memory
<1> QED
  BY <1>1, SameTimesRoutine

LEMMA AddIdleServerRoutine ==
  ASSUME NEW m \in Memory, NEW s \in Servers
  PROVE  Routine(m, AddIdleServer(m, s))
<1> DEFINE n == AddIdleServer(m, s)
<1>1. /\ SamePool(m, n) /\ n.ttl = m.ttl /\ n.minIdle = m.minIdle
      /\ n.idle \in {m.idle, m.idle \cup {s}}
      /\ \A t \in n.idle : t \in m.idle \/ n.idleTime[t] = 0
      /\ \A t \in n.idle : n.idleTime[t] \in {0, m.idleTime[t]}
  BY DEF SamePool, AddIdleServer, Memory
<1>2. n \in Memory
  BY AddIdleServerType
<1> HIDE DEF n
<1>3. Levelled(m) => Levelled(n)
  <2>1. m.idle \in SUBSET Servers /\ n.idle \in SUBSET Servers /\ m.idle \in SUBSET n.idle
        /\ m.minIdle \in Nat
    BY <1>1, <1>2 DEF Memory
  <2>2. IsFiniteSet(n.idle)
    BY <2>1, PoolAssumption, FS_Subset
  <2>3. Cardinality(m.idle) <= Cardinality(n.idle)
    BY <2>1, <2>2, FS_Subset
  <2>4. Cardinality(m.idle) \in Nat /\ Cardinality(n.idle) \in Nat
    BY <2>1, CardinalityOfServers
  <2> QED
    BY <1>1, <2>1, <2>3, <2>4 DEF Levelled
<1>4. ASSUME Timed(m) PROVE Timed(n)
  <2>1. Live(n) = Live(m) /\ Free(n) = Free(m)
    BY <1>1 DEF SamePool, Live, Free
  <2>2. Timers(n)
    BY <1>1, <1>4, <2>1 DEF Timed, Timers
  <2>3. ASSUME NEW x \in Live(n), NEW t \in n.idle, n.ttl[x] > 0
        PROVE  n.idleTime[t] <= SecondsToLive - n.ttl[x]
    <3>1. n.ttl[x] \in 1..SecondsToLive
      BY <2>2, <2>3 DEF Timers
    <3>2. CASE n.idleTime[t] = 0
      BY <3>1, <3>2, TimerAssumption
    <3>3. CASE t \in m.idle /\ n.idleTime[t] = m.idleTime[t]
      BY <1>1, <1>4, <2>1, <2>3, <3>3 DEF Timed
    <3> QED
      BY <1>1, <2>3, <3>2, <3>3
  <2> QED
    BY <2>2, <2>3 DEF Timed
<1> QED
  BY <1>1, <1>3, <1>4 DEF Routine, n

LEMMA GetIdleServersRoutine ==
  ASSUME NEW m \in Memory, NEW S \in SUBSET Servers
  PROVE  Routine(m, GetIdleServers(m, S))
<1> DEFINE n == GetIdleServers(m, S)
<1>1. /\ SamePool(m, n) /\ n.phase = m.phase /\ n.ttl = m.ttl /\ n.idleTime = m.idleTime
      /\ n.idle \subseteq m.idle
      /\ n.minIdle = Lesser(m.minIdle, Cardinality(n.idle))
  BY DEF SamePool, GetIdleServers, Memory
<1>2. n \in Memory
  BY GetIdleServersType
<1> HIDE DEF n
<1>3. \A t \in n.idle : n.idleTime[t] <= m.idleTime[t]
  BY <1>1, <1>2 DEF Memory
<1> QED
  BY <1>1, <1>2, <1>3, ShorterList, EarlierTimes DEF Routine, n

\* A last request starts the time to live of its server and tells it to exit.
LEMMA AssignServersRoutine ==
  ASSUME NEW m \in Memory, NEW S \in SUBSET Servers, NEW to \in [S -> Connections],
         \A s \in S : m.phase[s] # "free"
  PROVE  Routine(m, AssignServers(m, S, to))
<1> DEFINE b == BindServers(m, S, to)
           last == LastRequest(b, S)
           told == [b EXCEPT !.ttl = [s \in Servers |->
                      IF s \in last THEN SecondsToLive ELSE @[s]]]
           n == AssignServers(m, S, to)
<1>1. b \in Memory
  BY BindServersType
<1>2. n = IF last = {} THEN b ELSE AppendMessage(told, "exit", last)
  BY Zenon DEF AssignServers, CountRequests
<1>3. SamePool(m, b) /\ SameTimes(m, b)
  BY DEF BindServers, SamePool, SameTimes, Memory
<1> HIDE DEF b
<1>4. told \in Memory
  BY <1>1, LastRequestType, Zenon
<1>5. last \in SUBSET S
  BY DEF LastRequest
<1>6. SamePool(b, told)
  BY <1>1 DEF SamePool, Memory
<1>7. \A s \in Servers : told.ttl[s] = b.ttl[s] \/ (s \in last /\ told.ttl[s] = SecondsToLive)
  BY <1>1 DEF Memory
<1> HIDE DEF told, last, n
<1>8. ASSUME Timers(b) PROVE Timers(told)
  <2>1. Live(told) = Live(b) /\ Free(told) = Free(b) /\ \A s \in S : s \notin Free(b)
    BY <1>3, <1>6 DEF SamePool, Live, Free
  <2>2. SecondsToLive \in 1..SecondsToLive
    BY TimerAssumption
  <2>3. \A s \in Free(told) : told.ttl[s] = b.ttl[s]
    BY <1>5, <1>7, <2>1 DEF Free
  <2> QED
    BY <1>7, <1>8, <2>1, <2>2, <2>3 DEF Timers, Live
<1>9. "exit" \in Kinds
  BY DEF Kinds
<1> DEFINE a == AppendMessage(told, "exit", last)
<1>10. SamePool(told, a) /\ Levelled(a) /\ (Timers(told) => Timed(a))
  BY <1>4, <1>5, <1>9, AppendMessageTimes
<1>11. Routine(b, a)
  BY <1>6, <1>8, <1>10 DEF Routine, SamePool, Timed
<1> HIDE DEF a
<1>12. Routine(m, b)
  BY <1>3, SameTimesRoutine
<1>13. n \in {b, a}
  BY <1>2 DEF a
<1> QED
  BY <1>11, <1>12, <1>13, RoutineIsTransitive DEF n

LEMMA AssignServerRoutine ==
  ASSUME NEW m \in Memory, NEW s \in Servers, NEW c \in Connections, m.phase[s] # "free"
  PROVE  Routine(m, AssignServer(m, s, c))
<1>1. [x \in {s} |-> c] \in [{s} -> Connections]
  OBVIOUS
<1> QED
  BY <1>1, AssignServersRoutine DEF AssignServer

LEMMA GiveWorkRoutine ==
  ASSUME NEW m \in Memory, NEW s \in Servers, m.phase[s] # "free"
  PROVE  Routine(m, GiveWork(m, s))
<1>1. CASE m.waiting # <<>> /\ m.mode # "paused"
  <2> DEFINE t == [m EXCEPT !.waiting = Tail(@)]
  <2>1. GiveWork(m, s) = AssignServer(t, s, Head(m.waiting))
    BY <1>1 DEF GiveWork
  <2>2. /\ Tail(m.waiting) \in Seq(Connections) /\ Head(m.waiting) \in Connections
        /\ t = [m EXCEPT !.waiting = Tail(m.waiting)]
    BY <1>1 DEF Memory
  <2>3. t \in Memory /\ t.phase = m.phase
    BY <2>2 DEF Memory
  <2>4. Routine(m, t)
    BY <2>2, OtherFieldsRoutine
  <2> HIDE DEF t
  <2>5. Routine(t, AssignServer(t, s, Head(m.waiting)))
    BY <2>2, <2>3, AssignServerRoutine
  <2> QED
    BY <2>1, <2>4, <2>5, RoutineIsTransitive
<1>2. CASE ~(m.waiting # <<>> /\ m.mode # "paused")
  BY <1>2, AddIdleServerRoutine DEF GiveWork
<1> QED
  BY <1>1, <1>2

LEMMA RedeployServerRoutine ==
  ASSUME NEW m \in Memory, NEW s \in Servers, m.phase[s] # "free"
  PROVE  Routine(m, RedeployServer(m, s))
<1> DEFINE u == Unbind(m, s)
           k == TakeNext(u, s)
<1>1. u \in Memory /\ Routine(m, u)
  BY UnbindType, UnbindRoutine
<1>2. u.phase[s] # "free"
  BY <1>1 DEF Routine, SamePool
<1>3. RedeployServer(m, s) =
        IF HasNext(u, s) THEN [k EXCEPT !.onSend[s] = "DoPush"] ELSE GiveWork(u, s)
  BY DEF RedeployServer
<1> HIDE DEF u
<1>4. CASE HasNext(u, s)
  <2>1. k \in Memory /\ Routine(u, k)
    BY <1>1, <1>4, TakeNextType, MessagesRoutine
  <2> HIDE DEF k
  <2>2. Routine(k, [k EXCEPT !.onSend[s] = "DoPush"])
    BY <2>1, ServerFieldsRoutine
  <2> QED
    BY <1>1, <1>3, <1>4, <2>1, <2>2, RoutineIsTransitive
<1>5. CASE ~HasNext(u, s)
  BY <1>1, <1>2, <1>3, <1>5, GiveWorkRoutine, RoutineIsTransitive
<1> QED
  BY <1>4, <1>5

LEMMA AfterPushRoutine ==
  ASSUME NEW m \in Memory, NEW s \in Servers, m.phase[s] # "free"
  PROVE  Routine(m, AfterPush(m, s))
<1> DEFINE done == [m EXCEPT !.onSend[s] = "none"]
<1>1. done \in Memory /\ Routine(m, done) /\ done.phase = m.phase
  BY ServerFieldsRoutine DEF Memory, Callbacks
<1>2. AfterPush(m, s) \in {done, TakeNext(m, s), GiveWork(done, s)}
  BY DEF AfterPush
<1> HIDE DEF done
<1>3. Routine(m, TakeNext(m, s)) /\ Routine(done, GiveWork(done, s))
  BY <1>1, MessagesRoutine, GiveWorkRoutine
<1> QED
  BY <1>1, <1>2, <1>3, RoutineIsTransitive

-----------------------------------------------------------------------------
(* A stop and the periodic work.                                           *)

LEMMA StopAllServersRoutine ==
  ASSUME NEW m \in Memory
  PROVE  Routine(m, StopAllServers(m))
<1> DEFINE a == AppendMessage(m, "exit", Servers)
           n == StopAllServers(m)
<1>1. /\ a \in Memory /\ SamePool(m, a) /\ Levelled(a)
      /\ \A t \in a.idle : a.idleTime[t] = 0
      /\ Timers(m) => Timed(a)
  BY AppendMessageType, AppendMessageTimes DEF Kinds
<1>2. n = [a EXCEPT !.ttl = [s \in Servers |->
             IF m.phase[s] = "live" /\ @[s] = -1 THEN SecondsToLive ELSE @[s]]]
  BY DEF StopAllServers
<1> HIDE DEF a, n
<1>3. SamePool(a, n) /\ n.idle = a.idle /\ n.minIdle = a.minIdle /\ n.idleTime = a.idleTime
  BY <1>1, <1>2 DEF SamePool, Memory
<1>4. \A s \in Servers : \/ n.ttl[s] = a.ttl[s]
                         \/ m.phase[s] = "live" /\ n.ttl[s] = SecondsToLive
  BY <1>1, <1>2 DEF Memory
<1>5. ASSUME Timed(m) PROVE Timed(n)
  <2>1. /\ Live(n) = Live(a) /\ Free(n) = Free(a)
        /\ \A s \in Servers : m.phase[s] = "live" <=> s \in Live(n)
    BY <1>1, <1>3 DEF SamePool, Live, Free
  <2>2. Timers(a)
    BY <1>1, <1>5 DEF Timed
  <2>3. SecondsToLive \in 1..SecondsToLive
    BY TimerAssumption
  <2>4. \A s \in Free(n) : s \in Servers /\ n.ttl[s] = a.ttl[s]
    BY <1>4, <2>1, <1>1, <1>3 DEF Free, Live, SamePool
  <2>5. Timers(n)
    BY <1>4, <2>1, <2>2, <2>3, <2>4 DEF Timers, Live
  <2>6. \A t \in n.idle : n.idleTime[t] = 0
    BY <1>1, <1>3
  <2>7. \A s \in Live(n) : n.ttl[s] > 0 => 0 <= SecondsToLive - n.ttl[s]
    BY <2>5, TimerAssumption DEF Timers
  <2> QED
    BY <2>5, <2>6, <2>7 DEF Timed
<1> QED
  BY <1>1, <1>3, <1>5 DEF Routine, Levelled, SamePool, n

LEMMA DoStopRoutine ==
  ASSUME NEW m \in Memory
  PROVE  Routine(m, DoStop(m))
<1> DEFINE a == StopAllServers(m)
           told == [a EXCEPT !.mode = "stopping"]
<1>1. a \in Memory /\ Routine(m, a)
  BY StopAllServersType, StopAllServersRoutine
<1>2. DoStop(m) \in {told, [told EXCEPT !.process = "exited"]}
  BY DEF DoStop
<1> HIDE DEF a
<1>3. told \in Memory /\ Routine(a, told)
  BY <1>1, OtherFieldsRoutine DEF Memory, Modes
<1> HIDE DEF told
<1>4. Routine(told, [told EXCEPT !.process = "exited"])
  BY <1>3, OtherFieldsRoutine
<1> QED
  BY <1>1, <1>2, <1>3, <1>4, RoutineIsTransitive

\* Timed, with a second to spare.
Slack(m) ==
  /\ Timers(m)
  /\ \A s \in Live(m), t \in m.idle :
       m.ttl[s] > 0 => m.idleTime[t] + 1 <= SecondsToLive - m.ttl[s]

\* What the loop over the servers leaves.
Seconded(m, head) ==
  /\ Slack(m) /\ Levelled(m)
  /\ m.idle # {} => head \in m.idle
  /\ \A s \in m.idle : m.phase[s] = "live"

LEMMA SlackTimed ==
  ASSUME NEW m \in Memory, Slack(m)
  PROVE  Timed(m)
<1>1. ASSUME NEW s \in Live(m), NEW t \in m.idle, m.ttl[s] > 0
      PROVE  m.idleTime[t] <= SecondsToLive - m.ttl[s]
  <2>1. m.idleTime[t] + 1 <= SecondsToLive - m.ttl[s]
    BY <1>1 DEF Slack
  <2>2. m.idleTime[t] \in Nat /\ m.ttl[s] \in Int /\ SecondsToLive \in Nat
    BY TimerAssumption DEF Memory, Live
  <2> QED
    BY <2>1, <2>2
<1> QED
  BY <1>1 DEF Timed, Slack

LEMMA SameTimesSeconded ==
  ASSUME NEW m, NEW n, NEW head, SameTimes(m, n), Seconded(m, head)
  PROVE  Seconded(n, head)
BY DEF SameTimes, Seconded, Slack, Timers, Levelled, Live, Free

LEMMA PeriodicIdleServerPurgeTimes ==
  ASSUME NEW m \in Memory, NEW head \in Servers, Seconded(m, head),
         NEW n, n = PeriodicIdleServerPurge(m, head)
  PROVE  /\ SamePool(m, n) /\ Levelled(n) /\ Timed(n)
         /\ n.ttl = m.ttl \/
              /\ head \in m.idle /\ m.serverCount > MinServers /\ m.minIdle >= 1
              /\ m.idleTime[head] + 1 > IdleLimit(m)
              /\ n.ttl = [m.ttl EXCEPT ![head] = SecondsToLive]
<1> DEFINE times == [s \in Servers |->
                       IF s \in m.idle THEN Lesser(m.idleTime[s] + 1, IdleTimeBound)
                                       ELSE m.idleTime[s]]
           older == [m EXCEPT !.idleTime = times]
           told == [older EXCEPT !.ttl[head] = SecondsToLive]
           purge == /\ m.serverCount > MinServers /\ m.minIdle >= 1
                    /\ older.idleTime[head] > IdleLimit(m)
           a == AppendMessage(told, "exit", {head})
           purged == IF purge THEN a ELSE older
<1>1. times \in [Servers -> Nat]
  BY IdleTimesType
<1>2. older = [m EXCEPT !.idleTime = [s \in Servers |->
                 IF s \in m.idle THEN Lesser(@[s] + 1, IdleTimeBound) ELSE @[s]]]
  BY DEF Memory
<1>3. n = [purged EXCEPT !.minIdle = Cardinality(purged.idle)]
  BY <1>2, Zenon DEF PeriodicIdleServerPurge
<1>4. \A s \in Servers : times[s] <= m.idleTime[s] + 1
  <2>1. \A s \in Servers : m.idleTime[s] \in Nat
    BY DEF Memory
  <2>2. IdleTimeBound \in Nat
    BY PoolAssumption, TimerAssumption DEF IdleTimeBound
  <2> QED
    BY <2>1, <2>2 DEF Lesser
<1> HIDE DEF times
<1>5. /\ older \in Memory /\ SamePool(m, older) /\ older.ttl = m.ttl
      /\ older.idle = m.idle /\ older.idleTime = times
  BY <1>1 DEF Memory, SamePool
<1> HIDE DEF older
<1>6. told \in Memory
  BY <1>5, TtlType
<1>7. SamePool(m, told) /\ told.ttl = [m.ttl EXCEPT ![head] = SecondsToLive]
  BY <1>5 DEF Memory, SamePool
<1> HIDE DEF told
<1>8. a \in Memory /\ SamePool(m, a) /\ a.ttl = told.ttl /\ (Timers(told) => Timed(a))
  BY <1>6, <1>7, AppendMessageType, AppendMessageTimes DEF Kinds, SamePool
<1> HIDE DEF a
<1>9. ASSUME purge
      PROVE  head \in m.idle /\ m.idleTime[head] + 1 > IdleLimit(m)
  <2>1. Cardinality(m.idle) >= 1
    <3>1. m.minIdle \in Nat /\ Cardinality(m.idle) \in Nat
      BY CardinalityOfServers DEF Memory
    <3> QED
      BY <1>9, <3>1 DEF Seconded, Levelled
  <2>2. m.idle # {}
    BY <2>1, FS_EmptySet
  <2>3. times[head] <= m.idleTime[head] + 1 /\ times[head] \in Nat
    BY <1>1, <1>4
  <2>5. times[head] > IdleLimit(m)
    BY <1>5, <1>9
  <2>6. m.idleTime[head] + 1 \in Nat
    BY DEF Memory
  <2>4. IdleLimit(m) \in Int
    <3>1. m.minIdle \in Nat /\ m.serverCount - MinServers \in Int
      BY PoolAssumption, BoundAssumption DEF Memory
    <3>2. Lesser(m.minIdle, m.serverCount - MinServers) \in Int
      BY <3>1 DEF Lesser
    <3> DEFINE d == MaxServers - MinServers - Lesser(m.minIdle, m.serverCount - MinServers)
    <3>3. d \in Int
      BY <3>2, PoolAssumption
    <3>4. IdleLimit(m) = IdleBase + IdleFactor * d
      BY DEF IdleLimit
    <3> HIDE DEF d
    <3>5. IdleFactor * d \in Int
      BY <3>3, TimerAssumption
    <3> QED
      BY <3>4, <3>5, TimerAssumption
  <2> QED
    BY <2>2, <2>3, <2>4, <2>5, <2>6 DEF Seconded
<1>10. ASSUME purge PROVE Timed(a)
  <2>1. head \in m.idle /\ m.phase[head] = "live"
    BY <1>9, <1>10 DEF Seconded
  <2>2. Live(told) = Live(m) /\ Free(told) = Free(m) /\ head \notin Free(m)
    BY <1>7, <2>1 DEF SamePool, Live, Free
  <2>3. \A s \in Servers : told.ttl[s] = IF s = head THEN SecondsToLive ELSE m.ttl[s]
    BY <1>7 DEF Memory
  <2>4. SecondsToLive \in 1..SecondsToLive
    BY TimerAssumption
  <2>5. Timers(told)
    BY <2>2, <2>3, <2>4 DEF Timers, Seconded, Slack, Live, Free
  <2> QED
    BY <1>8, <2>5
<1>11. Timed(older)
  <2>1. Live(older) = Live(m) /\ Free(older) = Free(m)
    BY <1>5 DEF SamePool, Live, Free
  <2>2. Timers(older)
    BY <1>5, <2>1 DEF Timers, Seconded, Slack
  <2>3. ASSUME NEW s \in Live(older), NEW t \in older.idle, older.ttl[s] > 0
        PROVE  older.idleTime[t] <= SecondsToLive - older.ttl[s]
    <3>1. m.idleTime[t] + 1 <= SecondsToLive - m.ttl[s]
      BY <1>5, <2>1, <2>3 DEF Seconded, Slack
    <3>2. t \in Servers /\ m.idleTime[t] \in Nat /\ times[t] \in Nat /\ m.ttl[s] \in Int
      BY <1>1, <1>5, <2>1, <2>3 DEF Memory, Live
    <3>3. times[t] <= m.idleTime[t] + 1
      BY <1>4, <3>2
    <3> QED
      BY <1>5, <3>1, <3>2, <3>3, TimerAssumption
  <2> QED
    BY <2>2, <2>3 DEF Timed
<1>12. purged \in Memory /\ SamePool(m, purged) /\ Timed(purged)
  BY <1>5, <1>8, <1>10, <1>11
<1>13. purged.ttl = IF purge THEN told.ttl ELSE m.ttl
  BY <1>5, <1>8
<1> HIDE DEF purged
<1>14. n \in Memory /\ SamePool(purged, n) /\ n.ttl = purged.ttl /\ n.idle = purged.idle
       /\ n.idleTime = purged.idleTime /\ n.minIdle = Cardinality(n.idle)
       /\ n.phase = purged.phase
  <2> DEFINE k == Cardinality(purged.idle)
  <2>1. k \in Nat
    BY <1>12, CardinalityOfServers DEF Memory
  <2>2. n = [purged EXCEPT !.minIdle = k]
    BY <1>3
  <2>3. n.minIdle = k /\ n.idle = purged.idle
    BY <1>12, <2>2 DEF Memory
  <2> HIDE DEF k
  <2>4. n \in Memory
    <3>1. purged \in Memory
      BY <1>12
    <3>2. [purged EXCEPT !.minIdle = k] \in Memory
      BY <2>1, <3>1 DEF Memory
    <3> QED
      BY <2>2, <3>2
  <2>5. SamePool(purged, n) /\ n.ttl = purged.ttl
        /\ n.idleTime = purged.idleTime /\ n.phase = purged.phase
    BY <1>12, <2>2 DEF Memory, SamePool
  <2> QED
    BY <2>3, <2>4, <2>5 DEF k
<1>15. Levelled(n)
  <2>1. Cardinality(n.idle) \in Nat
    BY <1>14, CardinalityOfServers DEF Memory
  <2> QED
    BY <1>14, <2>1 DEF Levelled
<1>16. Timed(n)
  BY <1>12, <1>14 DEF Timed, Timers, Live, Free
<1>17. SamePool(m, n)
  BY <1>12, <1>14 DEF SamePool
<1>18. CASE ~purge
  BY <1>13, <1>14, <1>15, <1>16, <1>17, <1>18
<1>19. CASE purge
  BY <1>7, <1>9, <1>13, <1>14, <1>15, <1>16, <1>17, <1>19
<1> QED
  BY <1>18, <1>19

LEMMA NotBelowMin ==
  ASSUME NEW m \in Memory
  PROVE  [m EXCEPT !.belowMin = 0] \in Memory
BY DEF Memory

\* The ping timeout is checked first: a stop leaves nobody idle.
LEMMA CheckPingTimes ==
  ASSUME NEW m \in Memory, NEW head \in Servers, Seconded(m, head), Listening(m),
         NEW n, n = CheckPing(m)
  PROVE  /\ SamePool(m, n) /\ Seconded(n, head)
         /\ SameTimes(m, n) \/ n.mode = "stopping"
<1> DEFINE below == Lesser(m.belowMin + 1, StartTimeout + 1)
           since == IF PingTimeout > 0 THEN Lesser(m.sincePing + 1, PingTimeout) ELSE 0
           counted == [m EXCEPT !.belowMin = below, !.sincePing = since]
<1>1. below \in Nat /\ since \in Nat
  <2>1. /\ m.belowMin + 1 \in Nat /\ StartTimeout + 1 \in Nat
        /\ m.sincePing + 1 \in Nat /\ PingTimeout \in Nat
    <3>1. m.belowMin \in Nat /\ m.sincePing \in Nat
      BY DEF Memory
    <3> QED
      BY <3>1, TimerAssumption
  <2> QED
    BY <2>1, LesserType
<1>2. n \in {counted, DoStop(counted)}
  <2>1. counted = [m EXCEPT
          !.belowMin = Lesser(@ + 1, StartTimeout + 1),
          !.sincePing = IF PingTimeout > 0 THEN Lesser(@ + 1, PingTimeout) ELSE 0]
    BY DEF Memory
  <2> QED
    BY <2>1 DEF CheckPing
<1> HIDE DEF below, since
<1>3. /\ counted \in Memory /\ SamePool(m, counted) /\ SameTimes(m, counted)
      /\ counted.lastSent = m.lastSent
  BY <1>1 DEF Memory, SamePool, SameTimes
<1> HIDE DEF counted
<1>4. Seconded(counted, head) /\ Listening(counted)
  BY <1>3, SameTimesSeconded DEF Listening, SameTimes
<1> DEFINE d == DoStop(counted)
<1>5. d \in Memory /\ Routine(counted, d) /\ d.idle = {} /\ d.mode = "stopping"
  <2>1. StopAllServers(counted) \in Memory
    BY <1>3, StopAllServersType
  <2>2. d.mode = "stopping"
    BY <2>1 DEF DoStop, Memory
  <2> QED
    BY <1>3, <1>4, <2>2, DoStopType, DoStopRoutine, DoStopEmpties
<1> HIDE DEF d
<1>6. Seconded(d, head)
  <2>1. Levelled(d) /\ Timed(d)
    BY <1>3, <1>4, <1>5, SlackTimed DEF Routine, Seconded
  <2> QED
    BY <1>5, <2>1 DEF Timed, Seconded, Slack
<1>7. SamePool(m, d)
  BY <1>3, <1>5 DEF Routine, SamePool
<1> QED
  BY <1>2, <1>3, <1>4, <1>5, <1>6, <1>7 DEF d

\* The worker told to exit, if any, is the first on the idle list, and it has
\* been there too long.
Purged(m, n, head) ==
  /\ head \in m.idle /\ m.serverCount > MinServers /\ m.minIdle >= 1
  /\ m.idleTime[head] + 1 > IdleLimit(m)
  /\ n.ttl = [m.ttl EXCEPT ![head] = SecondsToLive]

LEMMA CheckPoolTimes ==
  ASSUME NEW m \in Memory, NEW head \in Servers, Seconded(m, head), Listening(m),
         NEW n, n = CheckPool(m, head)
  PROVE  /\ SamePool(m, n) /\ Levelled(n) /\ Timed(n)
         /\ n.ttl = m.ttl \/ n.mode = "stopping" \/ Purged(m, n, head)
<1> DEFINE p == CheckPing(m)
           q == IF p.serverCount >= MinServers THEN [p EXCEPT !.belowMin = 0] ELSE p
           z == PeriodicIdleServerPurge(q, head)
<1>0. /\ p \in Memory /\ SamePool(m, p) /\ Seconded(p, head)
      /\ SameTimes(m, p) \/ p.mode = "stopping"
  BY CheckPingType, CheckPingTimes
<1>1. n \in {m, p, DoStop(p), z}
  BY DEF CheckPool
<1> HIDE DEF p
<1>2. q \in Memory /\ SamePool(p, q) /\ SameTimes(p, q) /\ q.mode = p.mode
  <2>1. q \in Memory
    BY <1>0, NotBelowMin
  <2>2. SamePool(p, q)
    BY <1>0 DEF Memory, SamePool
  <2>3. SameTimes(p, q) /\ q.mode = p.mode
    BY <1>0 DEF Memory, SameTimes
  <2> QED
    BY <2>1, <2>2, <2>3
<1> HIDE DEF q
<1>3. Seconded(q, head) /\ SamePool(m, q)
  BY <1>0, <1>2, SameTimesSeconded DEF SamePool
<1>4. CASE n = m
  BY <1>4, SlackTimed DEF Seconded, SamePool
<1>5. CASE n = p
  BY <1>0, <1>5, SlackTimed DEF Seconded, SameTimes
<1>6. CASE n = DoStop(p)
  <2>1. StopAllServers(p) \in Memory
    BY <1>0, StopAllServersType
  <2>2. n.mode = "stopping"
    BY <1>6, <2>1 DEF DoStop, Memory
  <2>3. Routine(p, n)
    BY <1>0, <1>6, DoStopRoutine
  <2> QED
    BY <1>0, <2>2, <2>3, SlackTimed DEF Routine, Seconded, SamePool
<1>7. CASE n = z
  <2>1. /\ SamePool(q, n) /\ Levelled(n) /\ Timed(n)
        /\ n.ttl = q.ttl \/ Purged(q, n, head)
    BY <1>2, <1>3, <1>7, PeriodicIdleServerPurgeTimes DEF Purged
  <2>2. SamePool(m, n)
    BY <1>3, <2>1 DEF SamePool
  <2>3. CASE p.mode = "stopping"
    <3>1. n.mode = q.mode
      BY <1>2, <1>7, PeriodicIdleServerPurgeStill DEF Still
    <3> QED
      BY <1>2, <2>1, <2>2, <2>3, <3>1
  <2>4. CASE SameTimes(m, p)
    <3>1. SameTimes(m, q) /\ q.serverCount = m.serverCount
      BY <1>2, <1>3, <2>4 DEF SameTimes, SamePool
    <3>2. IdleLimit(q) = IdleLimit(m)
      BY <3>1 DEF IdleLimit, SameTimes
    <3>3. Purged(q, n, head) => Purged(m, n, head)
      BY <3>1, <3>2 DEF Purged, SameTimes
    <3> QED
      BY <2>1, <2>2, <3>1, <3>3 DEF SameTimes
  <2> QED
    BY <1>0, <2>3, <2>4
<1> QED
  BY <1>1, <1>4, <1>5, <1>6, <1>7

\* A second less to live, for everybody who is on the way out.
LEMMA CheckServersTimes ==
  ASSUME NEW m \in Memory, Timed(m), Levelled(m), NEW n, n = CheckServers(m)
  PROVE  /\ Slack(n) /\ Levelled(n) /\ n.idle \subseteq m.idle
         /\ n.idleTime = m.idleTime
         /\ \A s \in Live(m) : n.ttl[s] < SecondsToLive
<1> DEFINE K == Overdue(m)
           k == KillServers(m, K)
<1>1. K \in SUBSET Servers /\ \A s \in K : m.phase[s] = "live"
  BY DEF Overdue, TooLongDying, TooLongBusy, Live
<1>2. k \in Memory /\ n \in Memory
  BY <1>1, KillServersType, CheckServersType
<1>3. /\ k.ttl = m.ttl /\ k.idleTime = m.idleTime /\ k.idle = m.idle \ (K \ Dying(m))
      /\ k.minIdle = Lesser(m.minIdle, Cardinality(k.idle))
      /\ \A s \in Servers : k.phase[s] = IF s \in K THEN "dying" ELSE m.phase[s]
  BY <1>1 DEF KillServers, RemoveServers, Memory
<1>4. /\ n.phase = k.phase /\ n.idle = k.idle /\ n.idleTime = k.idleTime
      /\ n.minIdle = k.minIdle
      /\ \A s \in Servers : n.ttl[s] = IF s \in Live(m) /\ m.ttl[s] > 0
                                       THEN m.ttl[s] - 1 ELSE m.ttl[s]
  BY <1>2, <1>3 DEF CheckServers, Memory
<1> HIDE DEF k
<1>5. Levelled(n)
  BY <1>2, <1>3, <1>4, ShorterList
<1>6. \A s \in Live(n) : s \in Live(m) /\ m.ttl[s] # 1 /\ s \in Servers
  BY <1>3, <1>4 DEF Live, Overdue, TooLongDying
<1>7. \A s \in Free(n) : s \in Free(m) /\ s \notin Live(m) /\ s \in Servers
  BY <1>1, <1>3, <1>4 DEF Live, Free
<1>8. \A s \in Live(n) : \/ m.ttl[s] = -1 /\ n.ttl[s] = -1
                         \/ /\ m.ttl[s] \in 2..SecondsToLive
                            /\ n.ttl[s] = m.ttl[s] - 1
  BY <1>4, <1>6, TimerAssumption DEF Timed, Timers
<1>9. \A s \in Live(n) : n.ttl[s] = -1 \/ n.ttl[s] \in 1..SecondsToLive
  BY <1>8, TimerAssumption
<1>10. Timers(n)
  BY <1>4, <1>7, <1>9 DEF Timed, Timers
<1>11. ASSUME NEW s \in Live(n), NEW t \in n.idle, n.ttl[s] > 0
       PROVE  n.idleTime[t] + 1 <= SecondsToLive - n.ttl[s]
  <2>1. t \in m.idle /\ s \in Live(m) /\ n.idleTime[t] = m.idleTime[t]
    BY <1>3, <1>4, <1>6, <1>11
  <2>2. m.ttl[s] \in 2..SecondsToLive /\ n.ttl[s] = m.ttl[s] - 1
    BY <1>8, <1>11
  <2>3. m.idleTime[t] <= SecondsToLive - m.ttl[s]
    BY <2>1, <2>2, TimerAssumption DEF Timed
  <2>4. m.idleTime[t] \in Nat
    BY <2>1 DEF Memory
  <2> QED
    BY <2>1, <2>2, <2>3, <2>4, TimerAssumption
<1>12. \A s \in Live(m) : n.ttl[s] < SecondsToLive
  <2>1. \A s \in Live(m) : s \in Servers /\ (m.ttl[s] = -1 \/ m.ttl[s] \in 1..SecondsToLive)
    BY DEF Timed, Timers, Live
  <2> QED
    BY <1>4, <2>1, TimerAssumption
<1>13. n.idle \subseteq m.idle /\ n.idleTime = m.idleTime
  BY <1>3, <1>4
<1>14. Slack(n)
  BY <1>10, <1>11 DEF Slack
<1> QED
  BY <1>5, <1>12, <1>13, <1>14

-----------------------------------------------------------------------------
(* Workers that come and go.                                               *)

\* n is what is left of m when the servers of K are killed.
Killed(m, K, n) ==
  /\ n.started = m.started /\ n.armed = m.armed
  /\ n.pending = m.pending /\ n.delay = m.delay
  /\ n.ttl = m.ttl /\ n.idleTime = m.idleTime /\ n.idle \subseteq m.idle
  /\ n.minIdle = Lesser(m.minIdle, Cardinality(n.idle))
  /\ n.serverCount = (m.serverCount - Cardinality(K \ Dying(m))) % CountWord
  /\ \A s \in Servers : n.phase[s] = IF s \in K THEN "dying" ELSE m.phase[s]

LEMMA KillServersFields ==
  ASSUME NEW m \in Memory, NEW K \in SUBSET Servers
  PROVE  KillServers(m, K) \in Memory /\ Killed(m, K, KillServers(m, K))
<1> DEFINE n == KillServers(m, K)
<1>1. n \in Memory
  BY KillServersType
<1>2. /\ n.started = m.started /\ n.armed = m.armed
      /\ n.pending = m.pending /\ n.delay = m.delay
      /\ n.ttl = m.ttl /\ n.idleTime = m.idleTime
      /\ \A s \in Servers : n.phase[s] = IF s \in K THEN "dying" ELSE m.phase[s]
  BY DEF KillServers, RemoveServers, Memory
<1>3. /\ n.idle = m.idle \ (K \ Dying(m))
      /\ n.minIdle = Lesser(m.minIdle, Cardinality(n.idle))
      /\ n.serverCount = (m.serverCount - Cardinality(K \ Dying(m))) % CountWord
  BY DEF KillServers, RemoveServers, Memory
<1> HIDE DEF n
<1> QED
  BY <1>1, <1>2, <1>3 DEF Killed, n

LEMMA KillServersTimes ==
  ASSUME NEW m \in Memory, NEW K \in SUBSET Servers, \A s \in K : m.phase[s] # "free",
         NEW n, n = KillServers(m, K)
  PROVE  Levelled(n) /\ (Timed(m) => Timed(n))
<1>0. n \in Memory /\ Killed(m, K, n)
  BY KillServersFields
<1>1. Levelled(n)
  BY <1>0, ShorterList DEF Killed
<1>2. ASSUME Timed(m) PROVE Timed(n)
  <2>1. \A s \in Live(n) : s \in Live(m)
    BY <1>0 DEF Live, Killed
  <2>2. \A s \in Free(n) : s \in Free(m)
    BY <1>0 DEF Free, Killed
  <2>3. Timers(n)
    BY <1>0, <1>2, <2>1, <2>2 DEF Timed, Timers, Killed
  <2> QED
    BY <1>0, <1>2, <2>1, <2>3 DEF Timed, Killed
<1> QED
  BY <1>1, <1>2

LEMMA PoolSets ==
  ASSUME NEW m \in Memory
  PROVE  /\ Live(m) \in SUBSET Servers /\ Reported(m) \in SUBSET Servers
         /\ Reported(m) \in SUBSET Live(m) /\ StartingUp(m) \in SUBSET Live(m)
         /\ IsFiniteSet(Live(m)) /\ IsFiniteSet(Reported(m))
         /\ Cardinality(Live(m)) \in Nat /\ Cardinality(Reported(m)) \in Nat
         /\ Cardinality(Reported(m)) <= Cardinality(Live(m))
<1>1. /\ Live(m) \in SUBSET Servers /\ Reported(m) \in SUBSET Live(m)
      /\ StartingUp(m) \in SUBSET Live(m)
  BY DEF Live, Reported, StartingUp
<1>2. IsFiniteSet(Live(m)) /\ IsFiniteSet(Reported(m))
  BY <1>1, PoolAssumption, FS_Subset
<1> QED
  BY <1>1, <1>2, FS_CardinalityType, FS_Subset

\* A word that need not wrap does not.
LEMMA SmallWord ==
  ASSUME NEW i \in Nat, i < CountWord
  PROVE  i % CountWord = i
BY BoundAssumption

\* Only servers that have reported in are killed: the count goes down with them.
LEMMA KillServersCounted ==
  ASSUME NEW m \in Memory, Counted(m), NEW K \in SUBSET Servers,
         \A s \in K : s \in Reported(m) \/ s \in Dying(m),
         NEW n, n = KillServers(m, K)
  PROVE  Counted(n)
<1>0. n \in Memory /\ Killed(m, K, n)
  BY KillServersFields
<1>1. /\ Reported(n) = Reported(m) \ K /\ StartingUp(n) = StartingUp(m)
      /\ Live(n) \in SUBSET Live(m)
  BY <1>0 DEF Live, Dying, Reported, StartingUp, Killed
<1>2. K \ Dying(m) = Reported(m) \cap K
  BY DEF Reported, Dying, Live
<1>3. /\ Cardinality(Reported(n)) = Cardinality(Reported(m)) - Cardinality(Reported(m) \cap K)
      /\ Cardinality(Reported(n)) \in Nat
      /\ Cardinality(Reported(m)) \in Nat /\ Cardinality(Reported(m) \cap K) \in Nat
      /\ Cardinality(Reported(n)) <= Cardinality(Reported(m))
  <2>1. IsFiniteSet(Reported(m)) /\ Cardinality(Reported(m)) \in Nat
    BY PoolSets
  <2>2. IsFiniteSet(Reported(m) \cap K) /\ IsFiniteSet(Reported(n))
    BY <1>1, <2>1, FS_Intersection, FS_Difference
  <2>3. Cardinality(Reported(n)) = Cardinality(Reported(m)) - Cardinality(Reported(m) \cap K)
    BY <1>1, <2>1, FS_Difference
  <2>4. Cardinality(Reported(n)) <= Cardinality(Reported(m))
    BY <1>1, <2>1, FS_Subset
  <2> QED
    BY <2>1, <2>2, <2>3, <2>4, FS_CardinalityType
<1>4. n.serverCount = Cardinality(Reported(n))
  <2>1. m.serverCount < CountWord /\ m.serverCount = Cardinality(Reported(m))
    BY BoundAssumption DEF Counted, Memory
  <2>2. Cardinality(Reported(n)) < CountWord
    BY <1>3, <2>1, BoundAssumption
  <2>3. n.serverCount = Cardinality(Reported(n)) % CountWord
    BY <1>0, <1>2, <1>3, <2>1 DEF Killed
  <2> QED
    BY <1>3, <2>2, <2>3, SmallWord
<1>5. Cardinality(Live(n)) <= MaxServers
  <2>1. Cardinality(Live(n)) <= Cardinality(Live(m)) /\ Cardinality(Live(m)) \in Nat
        /\ Cardinality(Live(n)) \in Nat
    BY <1>0, <1>1, PoolSets, FS_Subset
  <2> QED
    BY <2>1, PoolAssumption DEF Counted
<1>6. n.pending = m.pending /\ n.delay = m.delay
  BY <1>0 DEF Killed
<1> QED
  BY <1>1, <1>4, <1>5, <1>6 DEF Counted

\* A worker that is killed by a handler is not heard of again.
Disarmed(m) == \A s \in Dying(m) : ~m.armed[s]

LEMMA FailServerTimes ==
  ASSUME NEW m \in Memory, NEW s \in Servers, m.phase[s] # "free",
         NEW n, n = FailServer(m, s)
  PROVE  /\ n \in Memory /\ Levelled(n) /\ (Timed(m) => Timed(n))
         /\ Counted(m) /\ (s \in Reported(m) \/ s \in Dying(m)) => Counted(n)
         /\ Disarmed(m) => Disarmed(n)
<1> DEFINE a == [m EXCEPT !.armed[s] = FALSE]
<1>1. /\ a \in Memory /\ SameTimes(m, a) /\ a.started = m.started
      /\ a.serverCount = m.serverCount /\ a.pending = m.pending /\ a.delay = m.delay
      /\ a.phase = m.phase /\ a.armed = [m.armed EXCEPT ![s] = FALSE]
  BY DEF Memory, SameTimes
<1>2. n = KillServers(a, {s})
  BY DEF FailServer
<1> HIDE DEF a
<1>3. /\ Live(a) = Live(m) /\ Dying(a) = Dying(m) /\ Reported(a) = Reported(m)
      /\ StartingUp(a) = StartingUp(m)
  BY <1>1 DEF Live, Dying, Reported, StartingUp
<1>4. Counted(m) => Counted(a)
  BY <1>1, <1>3 DEF Counted
<1>5. Timed(m) => Timed(a)
  BY <1>1 DEF SameTimes, Timed, Timers, Live, Free
<1>6. \A t \in {s} : a.phase[t] # "free"
  BY <1>1
<1>7. n \in Memory /\ Killed(a, {s}, n) /\ Levelled(n) /\ (Timed(a) => Timed(n))
  BY <1>1, <1>2, <1>6, KillServersFields, KillServersTimes
<1>8. Counted(a) /\ (s \in Reported(a) \/ s \in Dying(a)) => Counted(n)
  <2>1. SUFFICES ASSUME Counted(a), s \in Reported(a) \/ s \in Dying(a) PROVE Counted(n)
    OBVIOUS
  <2>2. \A t \in {s} : t \in Reported(a) \/ t \in Dying(a)
    BY <2>1
  <2> QED
    BY <1>1, <1>2, <2>1, <2>2, KillServersCounted
<1>9. /\ n.armed = a.armed
      /\ \A t \in Servers : n.phase[t] = IF t = s THEN "dying" ELSE a.phase[t]
  BY <1>7 DEF Killed
<1>10. \A t \in Servers : n.armed[t] = IF t = s THEN FALSE ELSE m.armed[t]
  <2>1. m.armed \in [Servers -> BOOLEAN]
    BY DEF Memory
  <2>2. n.armed = [m.armed EXCEPT ![s] = FALSE]
    BY <1>1, <1>9
  <2> QED
    BY <2>1, <2>2, Zenon
<1>11. Disarmed(m) => Disarmed(n)
  <2>1. SUFFICES ASSUME Disarmed(m), NEW t \in Servers, n.phase[t] = "dying"
                 PROVE  ~n.armed[t]
    BY DEF Disarmed, Dying
  <2>2. CASE t # s
    BY <1>1, <1>9, <1>10, <2>1, <2>2 DEF Disarmed, Dying
  <2>3. CASE t = s
    BY <1>10, <2>3
  <2> QED
    BY <2>2, <2>3
<1> QED
  BY <1>1, <1>3, <1>4, <1>5, <1>7, <1>8, <1>11

\* Slots that may be used for a new server.
Fresh(m) == \A s \in Free(m) : ~m.started[s]

\* CreateNewProcess: nobody is starting, and there is room for one more.
LEMMA CreateNewProcessCounted ==
  ASSUME NEW m \in Memory, Fresh(m), RoomToFork(m),
         NEW n, n = CreateNewProcess(m)
  PROVE  /\ Counted(m) => Counted(n)
         /\ \A s \in Servers : n.phase[s] # m.phase[s] => m.phase[s] = "free"
         /\ \A s \in Servers : n.phase[s] = m.phase[s] \/ n.phase[s] = "live"
         /\ n.started = m.started /\ n.armed = m.armed
         /\ (Timed(m) => Timed(n)) /\ (Levelled(m) => Levelled(n))
         /\ n.ttl = m.ttl
<1>1. CASE ~ProcessCreationAllowed(m)
  BY <1>1 DEF CreateNewProcess
<1>2. CASE ProcessCreationAllowed(m)
  <2> DEFINE s == CHOOSE x \in Servers : m.phase[x] = "free"
  <2>1. s \in Servers /\ m.phase[s] = "free"
    BY <1>2 DEF RoomToFork, Free
  <2>2. n = [m EXCEPT !.pending = TRUE, !.phase[s] = "live"]
    BY <1>2 DEF CreateNewProcess
  <2> HIDE DEF s
  <2>3. /\ n.pending = TRUE /\ n.delay = m.delay /\ n.serverCount = m.serverCount
        /\ n.started = m.started /\ n.armed = m.armed /\ n.ttl = m.ttl
        /\ n.idle = m.idle /\ n.idleTime = m.idleTime /\ n.minIdle = m.minIdle
        /\ n.phase = [m.phase EXCEPT ![s] = "live"]
    BY <2>2 DEF Memory
  <2>5. /\ Live(n) = Live(m) \cup {s} /\ s \notin Live(m)
        /\ Free(n) \in SUBSET Free(m) /\ ~m.started[s]
    <3>1. m.phase \in [Servers -> {"free", "live", "dying"}]
      BY DEF Memory
    <3>2. s \in Servers /\ m.phase[s] = "free" /\ ~m.started[s]
      BY <2>1 DEF Free, Fresh
    <3> QED
      BY <2>3, <3>1, <3>2 DEF Live, Free
  <2>8. ASSUME Counted(m) PROVE Counted(n)
    <3>1. StartingUp(m) = {} /\ m.delay = 0 /\ m.serverCount < MaxServers
      BY <1>2, <2>8 DEF ProcessCreationAllowed, Counted, Memory
    <3>2. Reported(n) = Reported(m) /\ StartingUp(n) = {s} /\ Reported(m) = Live(m)
      BY <2>3, <2>5, <3>1 DEF Reported, StartingUp
    <3>3. Cardinality(Live(n)) <= MaxServers
      <4>1. Cardinality(Live(n)) = Cardinality(Live(m)) + 1
        BY <2>5, PoolSets, FS_AddElement
      <4>2. Cardinality(Live(m)) < MaxServers /\ Cardinality(Live(m)) \in Nat
        BY <2>8, <3>1, <3>2, PoolSets DEF Counted
      <4> QED
        BY <4>1, <4>2, PoolAssumption
    <3> QED
      BY <2>3, <2>8, <3>1, <3>2, <3>3 DEF Counted
  <2>9. ASSUME Timed(m) PROVE Timed(n)
    <3>1. m.ttl[s] = -1
      BY <2>1, <2>9 DEF Timed, Timers, Free
    <3>2. Timers(n)
      BY <2>3, <2>5, <2>9, <3>1 DEF Timed, Timers
    <3>3. \A x \in Live(n) : n.ttl[x] > 0 => x \in Live(m)
      BY <2>3, <2>5, <3>1
    <3> QED
      BY <2>3, <2>9, <3>2, <3>3 DEF Timed
  <2>10. \A x \in Servers : n.phase[x] = IF x = s THEN "live" ELSE m.phase[x]
    BY <2>1, <2>3 DEF Memory
  <2> QED
    BY <2>1, <2>3, <2>8, <2>9, <2>10 DEF Levelled
<1> QED
  BY <1>1, <1>2

\* Everything on g_toDelete is deleted; the slots are as new.
LEMMA DeleteServersTimes ==
  ASSUME NEW m \in Memory, NEW d, d = DeleteServers(m),
         \A s \in m.idle : m.phase[s] = "live", Fresh(m)
  PROVE  /\ d \in Memory
         /\ Live(d) = Live(m) /\ Dying(d) = {} /\ Fresh(d)
         /\ \A s \in Live(m) : d.started[s] = m.started[s] /\ d.ttl[s] = m.ttl[s]
         /\ \A s \in Servers : d.ttl[s] \in {m.ttl[s], -1}
         /\ m.mode = "stopping" => d.mode = "stopping"
         /\ Levelled(m) => Levelled(d)
         /\ Timed(m) => Timed(d)
         /\ Counted(m) => Counted(d)
<1>0. d \in Memory
  BY DeleteServersType
<1>1. /\ \A s \in Servers :
           /\ d.phase[s] = IF s \in Dying(m) THEN "free" ELSE m.phase[s]
           /\ d.ttl[s] = IF s \in Dying(m) THEN -1 ELSE m.ttl[s]
           /\ d.idleTime[s] = IF s \in Dying(m) THEN 0 ELSE m.idleTime[s]
      /\ d.idle = m.idle /\ d.minIdle = m.minIdle
  BY DEF DeleteServers, LastServerStopped, Memory
<1>2. /\ \A s \in Servers : d.started[s] = (s \notin Dying(m) /\ m.started[s])
      /\ d.serverCount = m.serverCount /\ d.pending = m.pending /\ d.delay = m.delay
      /\ m.mode = "stopping" => d.mode = "stopping"
  <2>1. \A s \in Servers : d.started[s] = (s \notin Dying(m) /\ m.started[s])
    <3>1. d.started = [s \in Servers |-> IF s \in Dying(m) THEN FALSE ELSE m.started[s]]
      BY DEF DeleteServers, LastServerStopped, Memory
    <3>2. \A s \in Servers : m.started[s] \in BOOLEAN
      BY DEF Memory
    <3> QED
      BY <3>1, <3>2
  <2>2. d.serverCount = m.serverCount /\ d.pending = m.pending /\ d.delay = m.delay
    BY DEF DeleteServers, LastServerStopped, Memory
  <2>3. m.mode = "stopping" => d.mode = "stopping"
    BY DEF DeleteServers, LastServerStopped, Memory
  <2> QED
    BY <2>1, <2>2, <2>3
<1>3. /\ Live(d) = Live(m) /\ Dying(d) = {} /\ Free(d) = Free(m) \cup Dying(m)
      /\ \A s \in Live(m) : s \notin Dying(m) /\ s \in Servers
      /\ \A s \in Free(m) : s \notin Dying(m) /\ s \in Servers
      /\ \A s \in Dying(m) : s \in Servers
  BY <1>1 DEF Live, Dying, Free
<1>4. Fresh(d)
  BY <1>2, <1>3 DEF Fresh
<1>5. Reported(d) = Reported(m) /\ StartingUp(d) = StartingUp(m)
  BY <1>2, <1>3 DEF Reported, StartingUp
<1>6. Counted(m) => Counted(d)
  BY <1>2, <1>3, <1>5 DEF Counted
<1>7. ASSUME Timed(m) PROVE Timed(d)
  <2>1. Timers(d)
    BY <1>1, <1>3, <1>7 DEF Timed, Timers
  <2>2. \A t \in d.idle : t \in m.idle /\ t \in Servers /\ t \notin Dying(m)
    BY <1>1 DEF Memory, Dying
  <2> QED
    BY <1>1, <1>3, <1>7, <2>1, <2>2 DEF Timed
<1>8. \A s \in Live(m) : d.started[s] = m.started[s] /\ d.ttl[s] = m.ttl[s]
  <2>1. \A s \in Servers : m.started[s] \in BOOLEAN
    BY DEF Memory
  <2>2. \A s \in Live(m) : d.started[s] = m.started[s]
    BY <1>2, <1>3, <2>1
  <2> QED
    BY <1>1, <1>3, <2>2
<1> QED
  BY <1>0, <1>1, <1>2, <1>3, <1>4, <1>6, <1>7, <1>8 DEF Levelled

\* No worker that is starting has been given a time to live: nobody reloaded
\* or stopped the manager while a worker was starting.
Unhurried == \A s \in StartingUp(mgr) : mgr.ttl[s] = -1

LEMMA CountDelayTimes ==
  ASSUME NEW m \in Memory, NEW a, a = CountDelay(m)
  PROVE  /\ a \in Memory /\ SameTimes(m, a) /\ a.started = m.started /\ a.armed = m.armed
         /\ a.bound = m.bound /\ a.age = m.age /\ a.extra = m.extra
         /\ a.lastSent = m.lastSent
         /\ Counted(m) => Counted(a)
<1>1. a \in Memory
  BY CountDelayType
<1>2. /\ SameTimes(m, a) /\ a.started = m.started /\ a.armed = m.armed
      /\ a.bound = m.bound /\ a.age = m.age /\ a.extra = m.extra
      /\ a.serverCount = m.serverCount /\ a.lastSent = m.lastSent
  BY DEF CountDelay, SameTimes, Memory
<1>3. /\ a.delay = IF m.delay > 0 THEN m.delay - 1 ELSE 0
      /\ a.pending = IF m.delay = 1 THEN FALSE ELSE m.pending
      /\ m.delay \in Nat
  BY TimerAssumption DEF CountDelay, Memory
<1>4. Live(a) = Live(m) /\ Reported(a) = Reported(m) /\ StartingUp(a) = StartingUp(m)
  BY <1>2 DEF SameTimes, Live, Reported, StartingUp
<1>5. ASSUME Counted(m) PROVE Counted(a)
  BY <1>2, <1>3, <1>4, <1>5 DEF Counted
<1> QED
  BY <1>1, <1>2, <1>5

\* The servers the loop finds out of time have reported in.
LEMMA OverdueReported ==
  ASSUME TypeOK, Sessions, Unhurried, NEW s \in Overdue(mgr)
  PROVE  s \in Reported(mgr)
<1>1. s \in Live(mgr) /\ s \in Servers /\ mgr.phase[s] = "live"
  BY DEF Overdue, TooLongDying, TooLongBusy, Live
<1>2. CASE s \in TooLongDying(mgr)
  BY <1>1, <1>2 DEF TooLongDying, Unhurried, Reported, StartingUp
<1>3. CASE s \in TooLongBusy(mgr)
  <2>1. mgr.bound[s] # NoConnection
    BY <1>3 DEF TooLongBusy
  <2>2. Session(mgr, s, proc[s], inbox[s], outbox[s])
    BY <1>1 DEF Sessions
  <2>3. mgr.started[s]
    BY <1>1, <2>1, <2>2 DEF Session, Unused, Starting, Failed, Idling, Pushing, Waking,
                            Serving, Answering, Leaving, Reporting
  <2> QED
    BY <1>1, <2>3 DEF Reported
<1> QED
  BY <1>2, <1>3 DEF Overdue

\* What the periodic work has made of the memory when the clean-up begins: b
\* is the memory after the loop over the servers.
LEMMA CheckedTimes ==
  ASSUME TypeOK, Sessions, IdleSound, Timed(mgr), Levelled(mgr), NEW head \in Servers,
         HeadOfIdle(CheckServers(mgr), head), NEW b, b = CheckServers(CountDelay(mgr))
  PROVE  /\ b \in Memory /\ Checked(head) \in Memory
         /\ SamePool(b, Checked(head)) /\ Levelled(Checked(head)) /\ Timed(Checked(head))
         /\ Seconded(b, head)
         /\ \/ Checked(head).ttl = b.ttl
            \/ Checked(head).mode = "stopping"
            \/ Purged(b, Checked(head), head)
         /\ \A s \in Live(mgr) : b.ttl[s] < SecondsToLive
         /\ Fresh(b) /\ \A s \in Checked(head).idle : b.phase[s] = "live"
         /\ Counted(mgr) /\ Unhurried => Counted(b)
<1> DEFINE a == CountDelay(mgr)
           K == Overdue(a)
           k == KillServers(a, K)
           c == Checked(head)
<1>0. mgr \in Memory
  BY DEF TypeOK
<1>1. /\ a \in Memory /\ SameTimes(mgr, a) /\ a.started = mgr.started /\ a.armed = mgr.armed
      /\ a.lastSent = mgr.lastSent /\ K = Overdue(mgr)
      /\ Counted(mgr) => Counted(a)
  BY <1>0, CountDelayTimes, CountDelaySame
<1> HIDE DEF a
<1>2. Timed(a) /\ Levelled(a) /\ Live(a) = Live(mgr) /\ Free(a) = Free(mgr)
      /\ Dying(a) = Dying(mgr)
  BY <1>1 DEF SameTimes, Timed, Timers, Levelled, Live, Free, Dying
<1>3. b = CheckServers(a)
  BY DEF a
<1>4. /\ b \in Memory /\ Slack(b) /\ Levelled(b) /\ b.idle \subseteq a.idle
      /\ b.idleTime = a.idleTime
      /\ \A s \in Live(mgr) : b.ttl[s] < SecondsToLive
  BY <1>1, <1>2, <1>3, CheckServersTimes, CheckServersType
<1>5. K \in SUBSET Servers /\ \A s \in K : s \in Live(mgr)
  BY <1>2 DEF Overdue, TooLongDying, TooLongBusy, Live
<1>6. /\ k \in Memory /\ Killed(a, K, k)
      /\ k.idle = a.idle \ (K \ Dying(a)) /\ \A s \in k.idle : k.lastSent[s] = a.lastSent[s]
  <2>1. k.idle = a.idle \ (K \ Dying(a)) /\ \A s \in k.idle : k.lastSent[s] = a.lastSent[s]
    BY <1>1, <1>5 DEF KillServers, RemoveServers, Memory
  <2> QED
    BY <1>1, <1>5, <2>1, KillServersFields
<1>7. /\ SamePool(k, b) /\ b.idle = k.idle /\ b.lastSent = k.lastSent
  BY <1>3, <1>6 DEF CheckServers, SamePool, Memory
<1> HIDE DEF k
<1>8. Listening(b)
  BY <1>1, <1>6, <1>7 DEF Listening, IdleSound, SameTimes
<1>9. \A s \in b.idle : b.phase[s] = "live"
  <2>1. \A s \in b.idle : s \in mgr.idle /\ s \in Servers /\ mgr.phase[s] = "live"
    BY <1>0, <1>1, <1>4 DEF IdleSound, SameTimes, Memory
  <2>2. \A s \in b.idle : s \notin K
    BY <1>1, <1>6, <1>7, <2>1 DEF Dying, SameTimes
  <2> QED
    BY <1>1, <1>6, <1>7, <2>1, <2>2 DEF Killed, SamePool, SameTimes
<1>10. b.idle # {} => head \in b.idle
  <2>1. CheckServers(mgr).idle = mgr.idle \ (K \ Dying(mgr))
    <3>1. KillServers(mgr, K) \in Memory
      BY <1>0, <1>5, KillServersType
    <3>2. KillServers(mgr, K).idle = mgr.idle \ (K \ Dying(mgr))
      BY <1>0, <1>5 DEF KillServers, RemoveServers, Memory
    <3>3. CheckServers(mgr).idle = KillServers(mgr, Overdue(mgr)).idle
      <4>1. KillServers(mgr, Overdue(mgr)) \in Memory
        BY <1>1, <3>1
      <4> QED
        BY <4>1 DEF CheckServers, Memory
    <3> QED
      BY <1>1, <3>2, <3>3
  <2>2. CheckServers(mgr).idle = b.idle
    BY <1>1, <1>2, <1>6, <1>7, <2>1 DEF SameTimes
  <2> QED
    BY <2>2 DEF HeadOfIdle
<1>11. Seconded(b, head)
  BY <1>4, <1>9, <1>10 DEF Seconded
<1>12. c = CheckPool(b, head)
  BY <1>3 DEF Checked, a
<1> HIDE DEF c
<1>13. /\ c \in Memory /\ SamePool(b, c) /\ Levelled(c) /\ Timed(c)
       /\ c.ttl = b.ttl \/ c.mode = "stopping" \/ Purged(b, c, head)
  BY <1>4, <1>8, <1>11, <1>12, CheckPoolTimes, CheckPoolType
<1>14. \A s \in c.idle : b.phase[s] = "live"
  <2>1. c.idle \subseteq b.idle
    BY <1>4, <1>8, <1>12, CheckPoolCalms DEF Calmer
  <2> QED
    BY <1>9, <2>1
<1>15. Fresh(b)
  <2>1. \A s \in Free(b) : s \in Servers /\ s \in Free(mgr)
    BY <1>1, <1>6, <1>7 DEF Killed, SamePool, SameTimes, Free
  <2>2. \A s \in Free(mgr) : s \in Servers /\ ~mgr.started[s]
    <3>1. SUFFICES ASSUME NEW s \in Free(mgr) PROVE s \in Servers /\ ~mgr.started[s]
      OBVIOUS
    <3>2. s \in Servers /\ mgr.phase[s] = "free"
      BY DEF Free
    <3>3. Session(mgr, s, proc[s], inbox[s], outbox[s])
      BY <3>2 DEF Sessions
    <3> QED
      BY <3>2, <3>3, FreeSession DEF Unused
  <2> QED
    BY <1>1, <1>6, <1>7, <2>1, <2>2 DEF Killed, SamePool, Fresh
<1>16. ASSUME Counted(mgr), Unhurried PROVE Counted(b)
  <2>1. \A s \in K : s \in Reported(a)
    <3>1. \A s \in K : s \in Reported(mgr)
      BY <1>1, <1>16, OverdueReported
    <3> QED
      BY <1>1, <1>2, <3>1 DEF Reported
  <2>2. Counted(k)
    BY <1>1, <1>5, <1>16, <2>1, KillServersCounted DEF k
  <2> QED
    BY <1>7, <2>2, SamePoolCounted
<1> QED
  BY <1>4, <1>11, <1>13, <1>14, <1>15, <1>16 DEF c

LEMMA TickTimes ==
  ASSUME TypeOK, Sessions, IdleSound, Timed(mgr), Levelled(mgr), Tick
  PROVE  /\ Levelled(mgr') /\ Timed(mgr')
         /\ mgr'.process = "up" => Dying(mgr') = {}
         /\ Counted(mgr) /\ Unhurried => Counted(mgr')
<1>1. PICK head \in Servers : TickWith(head) /\ mgr' = Ticked(head)
  BY DEF Tick
<1> DEFINE b == CheckServers(CountDelay(mgr))
           c == Checked(head)
           d == DeleteServers(c)
           n == CreateNewProcess(d)
<1>2. HeadOfIdle(CheckServers(mgr), head) /\ RoomToFork(d)
  BY <1>1 DEF TickWith
<1>3. /\ c \in Memory /\ SamePool(b, c) /\ Levelled(c) /\ Timed(c) /\ Fresh(b)
      /\ \A s \in c.idle : b.phase[s] = "live"
      /\ Counted(mgr) /\ Unhurried => Counted(b)
  BY <1>2, CheckedTimes
<1>4. /\ c.process # "up" => mgr' = c
      /\ c.process = "up" => mgr' \in {d, n}
  BY <1>1 DEF Ticked, CleanUp
<1> HIDE DEF b, c
<1>5. Fresh(c) /\ \A s \in c.idle : c.phase[s] = "live"
  BY <1>3 DEF SamePool, Fresh, Free
<1>6. Counted(b) => Counted(c)
  BY <1>3, SamePoolCounted
<1>7. /\ d \in Memory /\ Dying(d) = {} /\ Fresh(d) /\ Levelled(d) /\ Timed(d)
      /\ Counted(c) => Counted(d)
  BY <1>3, <1>5, DeleteServersTimes
<1> HIDE DEF d
<1>8. /\ Counted(d) => Counted(n)
      /\ \A s \in Servers : n.phase[s] = d.phase[s] \/ n.phase[s] = "live"
      /\ Timed(n) /\ Levelled(n)
  BY <1>2, <1>7, CreateNewProcessCounted
<1>9. Dying(n) = {}
  BY <1>7, <1>8 DEF Dying
<1> HIDE DEF n
<1> QED
  BY <1>3, <1>4, <1>6, <1>7, <1>8, <1>9

-----------------------------------------------------------------------------
(* The handlers.                                                           *)

Orderly(m, n) ==
  /\ Timed(m) /\ Levelled(m) => Timed(n) /\ Levelled(n)
  /\ Disarmed(m) => Disarmed(n)
  /\ Disarmed(m) /\ Counted(m) => Counted(n)

LEMMA RoutineIsOrderly ==
  ASSUME NEW m, NEW n, Routine(m, n)
  PROVE  Orderly(m, n)
<1>1. Disarmed(m) => Disarmed(n)
  BY DEF Routine, SamePool, Disarmed, Dying
<1> QED
  BY <1>1, SamePoolCounted DEF Routine, Orderly

LEMMA OrderlyIsTransitive ==
  ASSUME NEW a, NEW b, NEW c, Orderly(a, b), Orderly(b, c)
  PROVE  Orderly(a, c)
BY DEF Orderly

\* A server that is listened to and was not deleted.
LEMMA FailServerOrderly ==
  ASSUME NEW m \in Memory, NEW s \in Servers, m.phase[s] # "free", m.started[s]
  PROVE  Orderly(m, FailServer(m, s))
<1> SUFFICES ASSUME NEW n, n = FailServer(m, s)
             PROVE  Orderly(m, n)
  OBVIOUS
<1>1. s \in Reported(m) \/ s \in Dying(m)
  BY DEF Memory, Reported, Live, Dying
<1>2. Levelled(n) /\ (Timed(m) => Timed(n)) /\ (Disarmed(m) => Disarmed(n))
  BY FailServerTimes
<1>3. Counted(m) => Counted(n)
  BY <1>1, FailServerTimes
<1> QED
  BY <1>2, <1>3 DEF Orderly

\* The slots that are free are as new.
LEMMA FreeSlots ==
  ASSUME Sessions
  PROVE  Fresh(mgr)
<1>1. SUFFICES ASSUME NEW s \in Free(mgr) PROVE ~mgr.started[s]
  BY DEF Fresh
<1>2. s \in Servers /\ mgr.phase[s] = "free"
  BY DEF Free
<1>3. Session(mgr, s, proc[s], inbox[s], outbox[s])
  BY <1>2 DEF Sessions
<1> QED
  BY <1>2, <1>3, FreeSession DEF Unused

LEMMA RequestArrivedOrderly ==
  ASSUME TypeOK, Sessions, IdleSound, NEW c \in Connections, RequestArrived(c)
  PROVE  Orderly(mgr, mgr')
<1>0. mgr \in Memory
  BY DEF TypeOK
<1>1. CASE Refused(c)
  <2>1. mgr' = [mgr EXCEPT !.conn = [mgr.conn EXCEPT ![c] = "none"]]
    BY <1>0, <1>1 DEF RequestArrived, Memory
  <2> QED
    BY <1>0, <2>1, OtherFieldsRoutine, RoutineIsOrderly
<1>2. CASE ~Refused(c)
  <2>1. PICK s \in Servers : /\ mgr.idle # {} => HeadOfIdle(mgr, s)
                             /\ mgr' = StartNewRequest(mgr, c, s)
    BY <1>2 DEF RequestArrived
  <2>2. CASE mgr.waiting = <<>> /\ mgr.idle # {} /\ mgr.mode # "paused"
    <3> DEFINE g == GetIdleServers(mgr, {s})
    <3>1. g \in Memory /\ Routine(mgr, g) /\ {s} \in SUBSET Servers
      BY <1>0, GetIdleServersType, GetIdleServersRoutine
    <3>2. mgr.phase[s] = "live"
      BY <2>1, <2>2 DEF HeadOfIdle, IdleSound
    <3>3. g.phase[s] # "free"
      BY <3>1, <3>2 DEF Routine, SamePool
    <3>4. mgr' = AssignServer(g, s, c)
      BY <2>1, <2>2 DEF StartNewRequest
    <3> HIDE DEF g
    <3> QED
      BY <3>1, <3>3, <3>4, AssignServerRoutine, RoutineIsTransitive, RoutineIsOrderly
  <2>3. CASE ~(mgr.waiting = <<>> /\ mgr.idle # {} /\ mgr.mode # "paused")
    <3> DEFINE w == [mgr EXCEPT !.waiting = Append(@, c), !.conn[c] = "waiting"]
    <3>1. mgr' = CreateNewProcess(w)
      BY <2>1, <2>3 DEF StartNewRequest
    <3>7. /\ Append(mgr.waiting, c) \in Seq(Connections)
          /\ [mgr.conn EXCEPT ![c] = "waiting"] \in
                [Connections -> {"none", "looking", "waiting", "bound"}]
      BY <1>0 DEF Memory
    <3>8. w = [mgr EXCEPT !.waiting = Append(mgr.waiting, c),
                          !.conn = [mgr.conn EXCEPT ![c] = "waiting"]]
      BY <1>0 DEF Memory
    <3>9. w \in Memory
      <4> HIDE DEF w
      <4> QED
        BY <1>0, <3>7, <3>8 DEF Memory
    <3>2. /\ w \in Memory /\ SamePool(mgr, w) /\ SameTimes(mgr, w)
          /\ w.mode = mgr.mode
      BY <1>0, <3>9 DEF SamePool, SameTimes, Memory
    <3> HIDE DEF w
    <3>3. RoomToFork(w) /\ Fresh(w)
      <4>1. RoomToFork(mgr) /\ Fresh(mgr)
        BY <1>2, FreeSlots DEF RequestArrived, RequestReady
      <4> QED
        BY <3>2, <4>1 DEF RoomToFork, ProcessCreationAllowed, Fresh, Free, SamePool
    <3>4. /\ Counted(w) => Counted(mgr')
          /\ \A s2 \in Servers : mgr'.phase[s2] = w.phase[s2] \/ mgr'.phase[s2] = "live"
          /\ mgr'.armed = w.armed
          /\ (Timed(w) => Timed(mgr')) /\ (Levelled(w) => Levelled(mgr'))
      BY <3>1, <3>2, <3>3, CreateNewProcessCounted
    <3>5. Disarmed(w) => Disarmed(mgr')
      BY <3>4 DEF Disarmed, Dying
    <3>6. Orderly(w, mgr')
      BY <3>4, <3>5 DEF Orderly
    <3> QED
      BY <3>2, <3>6, SameTimesRoutine, RoutineIsOrderly, OrderlyIsTransitive
  <2> QED
    BY <2>2, <2>3
<1> QED
  BY <1>1, <1>2

\* A server whose socket is ready to be written to has reported in.
LEMMA WritableReported ==
  ASSUME Sessions, NEW s \in Servers, mgr.onSend[s] # "none", mgr.phase[s] # "free",
         mgr.armed[s]
  PROVE  mgr.started[s]
<1>1. Session(mgr, s, proc[s], inbox[s], outbox[s])
  BY DEF Sessions
<1> QED
  BY <1>1 DEF Session, Unused, Starting, Failed, Idling, Pushing, Waking, Serving,
              Answering, Leaving, Reporting

LEMMA SendOrOrderly ==
  ASSUME NEW s \in Servers, NEW msg, NEW n, NEW m \in Memory, mgr \in Memory,
         Routine(mgr, m), Routine(mgr, n), SendOr(s, msg, n, FailServer(m, s)),
         mgr.phase[s] # "free", mgr.started[s]
  PROVE  Orderly(mgr, mgr')
<1>1. m.phase[s] # "free" /\ m.started[s]
  BY DEF Routine, SamePool
<1>2. Orderly(m, FailServer(m, s))
  BY <1>1, FailServerOrderly
<1>3. mgr' \in {n, FailServer(m, s)}
  BY DEF SendOr
<1> QED
  BY <1>2, <1>3, RoutineIsOrderly, OrderlyIsTransitive

LEMMA WakeupServerOrderly ==
  ASSUME TypeOK, Sessions, NEW s \in Servers, WakeupServer(s)
  PROVE  Orderly(mgr, mgr')
<1> DEFINE m == [mgr EXCEPT !.onSend[s] = "none"]
<1>0. /\ mgr \in Memory /\ mgr.phase[s] # "free" /\ mgr.started[s]
  BY WritableReported DEF TypeOK, WakeupServer, CanWrite
<1>1. m \in Memory /\ Routine(mgr, m)
  BY <1>0, ServerFieldsRoutine DEF Memory, Callbacks
<1>2. \/ mgr' = [mgr EXCEPT !.process = "crashed"]
      \/ SendOr(s, "request", m, FailServer(m, s))
  BY DEF WakeupServer
<1> HIDE DEF m
<1>3. Orderly(mgr, [mgr EXCEPT !.process = "crashed"])
  BY <1>0, OtherFieldsRoutine, RoutineIsOrderly
<1>4. CASE SendOr(s, "request", m, FailServer(m, s))
  BY <1>0, <1>1, <1>4, SendOrOrderly
<1> QED
  BY <1>2, <1>3, <1>4

LEMMA DoPushOrderly ==
  ASSUME TypeOK, Sessions, NEW s \in Servers, DoPush(s)
  PROVE  Orderly(mgr, mgr')
<1> DEFINE m == [mgr EXCEPT !.exiting[s] = @ \/ mgr.lastSent[s] = "exit"]
           e == mgr.exiting[s] \/ mgr.lastSent[s] = "exit"
<1>0. /\ mgr \in Memory /\ mgr.phase[s] # "free" /\ mgr.started[s]
  BY WritableReported DEF TypeOK, DoPush, CanWrite
<1>1. m = [mgr EXCEPT !.exiting[s] = e] /\ e \in BOOLEAN
  BY <1>0 DEF Memory
<1>2. \/ mgr' = [mgr EXCEPT !.process = "crashed"]
      \/ SendOr(s, mgr.lastSent[s], AfterPush(m, s), FailServer(m, s))
  BY DEF DoPush
<1> HIDE DEF m, e
<1>3. m \in Memory /\ Routine(mgr, m)
  BY <1>0, <1>1, ServerFieldsRoutine DEF Memory
<1>4. m.phase[s] # "free"
  BY <1>0, <1>3 DEF Routine, SamePool
<1>5. Routine(mgr, AfterPush(m, s))
  BY <1>3, <1>4, AfterPushRoutine, RoutineIsTransitive
<1>6. Orderly(mgr, [mgr EXCEPT !.process = "crashed"])
  BY <1>0, OtherFieldsRoutine, RoutineIsOrderly
<1>7. CASE SendOr(s, mgr.lastSent[s], AfterPush(m, s), FailServer(m, s))
  <2> DEFINE a == AfterPush(m, s)
             x == mgr.lastSent[s]
  <2>1. SendOr(s, x, a, FailServer(m, s)) /\ Routine(mgr, a)
    BY <1>5, <1>7
  <2> HIDE DEF a, x
  <2> QED
    BY <1>0, <1>3, <2>1, SendOrOrderly
<1> QED
  BY <1>2, <1>6, <1>7

LEMMA ProcessNeedRespCmdOrderly ==
  ASSUME TypeOK, Sessions, NEW s \in Servers, ProcessNeedRespCmd(s)
  PROVE  Orderly(mgr, mgr')
<1> DEFINE n == [mgr EXCEPT !.onSend[s] = "none"]
<1>0. /\ mgr \in Memory /\ mgr.phase[s] # "free" /\ mgr.started[s]
  BY WritableReported DEF TypeOK, ProcessNeedRespCmd, CanWrite
<1>1. Routine(mgr, n)
  BY <1>0, ServerFieldsRoutine
<1>3. Routine(mgr, mgr)
  BY DEF Routine, SamePool
<1>2. SendOr(s, "response", n, FailServer(mgr, s))
  BY DEF ProcessNeedRespCmd
<1> HIDE DEF n
<1> QED
  BY <1>0, <1>1, <1>2, <1>3, SendOrOrderly

LEMMA RecvServerMsgOrderly ==
  ASSUME TypeOK, Sessions, NEW s \in Servers, RecvServerMsg(s)
  PROVE  Orderly(mgr, mgr')
<1>0. mgr \in Memory /\ mgr.phase[s] # "free" /\ mgr.started[s]
  BY DEF TypeOK, RecvServerMsg, CanRead
<1>1. mgr' \in {RedeployServer(mgr, s), [mgr EXCEPT !.extra[s] = ExtraTimeout],
                [mgr EXCEPT !.onSend[s] = "ProcessNeedRespCmd"], FailServer(mgr, s)}
  BY Zenon DEF RecvServerMsg
<1>2. /\ Routine(mgr, RedeployServer(mgr, s))
      /\ Routine(mgr, [mgr EXCEPT !.extra[s] = ExtraTimeout])
      /\ Routine(mgr, [mgr EXCEPT !.onSend[s] = "ProcessNeedRespCmd"])
  BY <1>0, RedeployServerRoutine, ServerFieldsRoutine
<1> QED
  BY <1>0, <1>1, <1>2, FailServerOrderly, RoutineIsOrderly

\* The worker that reports in is the one that was starting.
LEMMA StartSucceededCounted ==
  ASSUME NEW m \in Memory, Counted(m), MaxServers < CountWord, NEW s \in StartingUp(m),
         NEW n, n = [m EXCEPT !.serverCount = (@ + 1) % CountWord,
                              !.started[s] = TRUE, !.pending = FALSE]
  PROVE  Counted(n)
<1> DEFINE R == Reported(m)
<1>1. /\ R \in SUBSET Servers /\ IsFiniteSet(R) /\ Cardinality(R) \in Nat
      /\ IsFiniteSet(Live(m)) /\ R \in SUBSET Live(m) /\ s \in Live(m) \ R /\ s \in Servers
      /\ Cardinality(Live(m)) \in Nat
  BY PoolSets DEF StartingUp, Reported, Live
<1>2. Cardinality(R \cup {s}) = Cardinality(R) + 1
  BY <1>1, FS_AddElement
<1>3. Cardinality(R \cup {s}) <= Cardinality(Live(m))
  <2>1. R \cup {s} \in SUBSET Live(m)
    BY <1>1
  <2> QED
    BY <1>1, <2>1, FS_Subset
<1>4. Cardinality(R) + 1 < CountWord
  BY <1>1, <1>2, <1>3, PoolAssumption, BoundAssumption DEF Counted
<1>5. n.serverCount = Cardinality(R) + 1
  <2>1. m.serverCount = Cardinality(R)
    BY DEF Counted
  <2>2. n.serverCount = (m.serverCount + 1) % CountWord
    BY DEF Memory
  <2> QED
    BY <1>1, <1>4, <2>1, <2>2, SmallWord
<1>6. /\ n.phase = m.phase /\ n.started = [m.started EXCEPT ![s] = TRUE]
      /\ n.pending = FALSE /\ n.delay = m.delay
  BY DEF Memory
<1>7. Live(n) = Live(m)
  BY <1>6 DEF Live
<1>8. m.started \in [Servers -> BOOLEAN]
  BY DEF Memory
<1>9. n.started[s] /\ \A t \in Servers : t # s => n.started[t] = m.started[t]
  BY <1>1, <1>6, <1>8
<1>10. Reported(n) = R \cup {s}
  BY <1>1, <1>7, <1>9 DEF Reported, Live
<1>11. StartingUp(n) = {}
  BY <1>1, <1>7, <1>9 DEF StartingUp, Reported, Live, Counted
<1>12. m.delay = 0
  BY DEF Counted
<1>13. n.serverCount = Cardinality(Reported(n)) /\ Cardinality(Live(n)) <= MaxServers
  BY <1>2, <1>5, <1>7, <1>10 DEF Counted
<1>14. n.delay = 0 /\ ~(n.delay > 0) /\ ~n.pending
  BY <1>6, <1>12
<1> HIDE DEF R
<1> QED
  BY <1>11, <1>13, <1>14, Zenon DEF Counted

\* A start that fails: the count is corrected, and the next try is delayed.
LEMMA StartFailedCounted ==
  ASSUME NEW m \in Memory, Counted(m), MaxServers < CountWord, NEW s \in StartingUp(m),
         NEW n, n = StartFailed(m, s)
  PROVE  Counted(n)
<1> DEFINE R == Reported(m)
           count == (m.serverCount + 1) % CountWord
           f == [m EXCEPT !.serverCount = count, !.delay = StartDelay, !.armed[s] = FALSE]
<1>1. /\ R \in SUBSET Servers /\ IsFiniteSet(R) /\ Cardinality(R) \in Nat
      /\ IsFiniteSet(Live(m)) /\ R \in SUBSET Live(m) /\ s \in Live(m) \ R /\ s \in Servers
      /\ Cardinality(Live(m)) \in Nat
  BY PoolSets DEF StartingUp, Reported, Live
<1>2. Cardinality(R \cup {s}) = Cardinality(R) + 1
  BY <1>1, FS_AddElement
<1>3. Cardinality(R \cup {s}) <= Cardinality(Live(m))
  <2>1. R \cup {s} \in SUBSET Live(m)
    BY <1>1
  <2> QED
    BY <1>1, <2>1, FS_Subset
<1>4. Cardinality(R) + 1 < CountWord
  BY <1>1, <1>2, <1>3, PoolAssumption, BoundAssumption DEF Counted
<1>5. count = Cardinality(R) + 1
  <2>1. m.serverCount = Cardinality(R)
    BY DEF Counted
  <2> QED
    BY <1>1, <1>4, <2>1, SmallWord
<1>6. n = KillServers(f, {s})
  BY DEF StartFailed, FailServer, Memory
<1> HIDE DEF count
<1>7. f \in Memory
  <2>1. count \in 0..CountWord-1 /\ StartDelay \in 0..StartDelay
    BY <1>1, <1>4, <1>5, BoundAssumption, TimerAssumption
  <2>2. [m.armed EXCEPT ![s] = FALSE] \in [Servers -> BOOLEAN]
    BY DEF Memory
  <2> QED
    BY <2>1, <2>2 DEF Memory
<1>8. /\ f.phase = m.phase /\ f.started = m.started /\ f.pending = m.pending
      /\ f.delay = StartDelay /\ f.serverCount = count
  BY DEF Memory
<1> HIDE DEF f
<1>9. s \notin Dying(f) /\ Dying(f) = Dying(m) /\ Live(f) = Live(m)
  BY <1>1, <1>8 DEF Live, Dying
<1>10. n \in Memory /\ Killed(f, {s}, n)
  <2>1. {s} \in SUBSET Servers
    BY <1>1
  <2> QED
    BY <1>6, <1>7, <2>1, KillServersFields
<1>11. /\ n.serverCount = (count - Cardinality({s} \ Dying(f))) % CountWord
       /\ n.started = m.started /\ n.pending = m.pending /\ n.delay = StartDelay
  BY <1>8, <1>10 DEF Killed
<1>12. n.serverCount = Cardinality(R)
  <2>1. {s} \ Dying(f) = {s} /\ Cardinality({s}) = 1
    BY <1>9, FS_Singleton
  <2>2. n.serverCount = (count - 1) % CountWord
    BY <1>11, <2>1
  <2>3. count - 1 = Cardinality(R) /\ Cardinality(R) < CountWord
    BY <1>1, <1>4, <1>5, BoundAssumption
  <2> QED
    BY <1>1, <2>2, <2>3, SmallWord
<1>13. Live(n) = Live(m) \ {s}
  BY <1>8, <1>10 DEF Killed, Live
<1>14. Reported(n) = R
  BY <1>1, <1>11, <1>13 DEF Reported
<1>15. StartingUp(n) = {}
  BY <1>1, <1>11, <1>13 DEF StartingUp, Counted
<1>16. Cardinality(Live(n)) <= MaxServers
  <2>1. Live(n) \in SUBSET Live(m) /\ IsFiniteSet(Live(n))
    BY <1>1, <1>13, FS_Subset
  <2>2. Cardinality(Live(n)) <= Cardinality(Live(m)) /\ Cardinality(Live(n)) \in Nat
    BY <1>1, <2>1, FS_Subset, FS_CardinalityType
  <2> QED
    BY <1>1, <2>2, PoolAssumption DEF Counted
<1>17. n.pending = TRUE /\ n.delay > 0
  <2>1. StartingUp(m) # {} /\ m.pending \in BOOLEAN
    BY DEF Memory
  <2> QED
    BY <1>11, <2>1, TimerAssumption DEF Counted
<1> QED
  BY <1>12, <1>14, <1>15, <1>16, <1>17 DEF Counted

LEMMA ServerStartedOrderly ==
  ASSUME TypeOK, NEW s \in Servers, ServerStarted(s)
  PROVE  /\ Timed(mgr) /\ Levelled(mgr) => Timed(mgr') /\ Levelled(mgr')
         /\ Disarmed(mgr) => Disarmed(mgr')
         /\ MaxServers < CountWord /\ Disarmed(mgr) /\ Counted(mgr) => Counted(mgr')
<1>0. mgr \in Memory /\ mgr.phase[s] # "free" /\ mgr.armed[s] /\ ~mgr.started[s]
  BY DEF TypeOK, ServerStarted, CanRead
<1> DEFINE count == (mgr.serverCount + 1) % CountWord
<1>1. count \in 0..CountWord-1
  <2>1. mgr.serverCount + 1 \in Int
    BY <1>0, BoundAssumption DEF Memory
  <2> QED
    BY <2>1, WordType
<1>2. Disarmed(mgr) => s \in StartingUp(mgr)
  BY <1>0 DEF Memory, Disarmed, Dying, StartingUp, Live
<1>3. CASE outbox[s] # <<>>
  <2> DEFINE up == [mgr EXCEPT !.serverCount = count, !.started[s] = TRUE,
                               !.pending = FALSE]
             b == BringUpToDate(up, s)
  <2>1. mgr' = RedeployServer(b, s)
    BY <1>0, <1>3 DEF ServerStarted, StartSucceeded, Memory
  <2>2. MaxServers < CountWord /\ Disarmed(mgr) /\ Counted(mgr) => Counted(up)
    BY <1>0, <1>2, StartSucceededCounted DEF Memory
  <2> HIDE DEF count
  <2>3. /\ up \in Memory /\ SameTimes(mgr, up) /\ up.phase = mgr.phase
        /\ up.armed = mgr.armed
    BY <1>0, <1>1 DEF Memory, SameTimes
  <2> HIDE DEF up
  <2>4. /\ Timed(mgr) => Timed(up)
        /\ Levelled(mgr) => Levelled(up)
        /\ Disarmed(mgr) => Disarmed(up)
    BY <2>3 DEF SameTimes, Timed, Timers, Live, Free, Levelled, Disarmed, Dying
  <2>5. b \in Memory /\ Routine(up, b)
    BY <2>3, BringUpToDateType, MessagesRoutine
  <2>6. b.phase[s] # "free"
    BY <1>0, <2>3, <2>5 DEF Routine, SamePool
  <2> HIDE DEF b
  <2>7. Routine(up, mgr')
    BY <2>1, <2>5, <2>6, RedeployServerRoutine, RoutineIsTransitive
  <2> QED
    BY <2>2, <2>4, <2>7, RoutineIsOrderly DEF Orderly
<1>4. CASE outbox[s] = <<>>
  <2> DEFINE f == [mgr EXCEPT !.serverCount = count, !.delay = StartDelay]
  <2>1. mgr' = FailServer(f, s)
    BY <1>0, <1>4 DEF ServerStarted, StartFailed, Memory
  <2>2. MaxServers < CountWord /\ Disarmed(mgr) /\ Counted(mgr) => Counted(mgr')
    BY <1>0, <1>2, <1>4, StartFailedCounted DEF ServerStarted
  <2> HIDE DEF count
  <2>3. f \in Memory /\ SameTimes(mgr, f) /\ f.phase = mgr.phase /\ f.armed = mgr.armed
    <3>1. StartDelay \in 0..StartDelay
      BY TimerAssumption
    <3> QED
      BY <1>0, <1>1, <3>1 DEF Memory, SameTimes
  <2> HIDE DEF f
  <2>4. /\ Timed(mgr) => Timed(f)
        /\ Disarmed(mgr) => Disarmed(f)
        /\ f.phase[s] # "free"
    BY <1>0, <2>3 DEF SameTimes, Timed, Timers, Live, Free, Disarmed, Dying
  <2>5. Levelled(mgr') /\ (Timed(f) => Timed(mgr')) /\ (Disarmed(f) => Disarmed(mgr'))
    BY <2>1, <2>3, <2>4, FailServerTimes
  <2> QED
    BY <2>2, <2>4, <2>5
<1> QED
  BY <1>3, <1>4

-----------------------------------------------------------------------------
(* The purge.                                                              *)

\* A worker is told to exit only when nobody else is on the way out: the idle
\* time of the first on the list is longer than any time to live.
LEMMA PurgedStays ==
  ASSUME SecondsToLive <= IdleBase + 1, NEW m \in Memory, Counted(m), Slack(m),
         NEW head \in Servers, NEW n, SamePool(m, n), Purged(m, n, head)
  PROVE  /\ IsFiniteSet(Staying(n))
         /\ Cardinality(Staying(n)) \in Nat /\ Cardinality(Staying(n)) >= MinServers
<1> DEFINE R == Reported(m)
           surplus == Lesser(m.minIdle, m.serverCount - MinServers)
           rest == MaxServers - MinServers - surplus
<1>1. /\ R \in SUBSET Servers /\ R \in SUBSET Live(m) /\ IsFiniteSet(R)
      /\ Cardinality(R) \in Nat /\ Cardinality(Live(m)) \in Nat
      /\ Cardinality(R) <= Cardinality(Live(m))
  BY PoolSets
<1>2. m.serverCount = Cardinality(R) /\ Cardinality(Live(m)) <= MaxServers
  BY DEF Counted
<1>3. m.minIdle \in Nat /\ m.serverCount > MinServers /\ MinServers \in Nat /\ MaxServers \in Nat
  BY PoolAssumption DEF Memory, Purged
<1>4. surplus \in Int /\ surplus <= m.serverCount - MinServers
  BY <1>1, <1>2, <1>3 DEF Lesser
<1>5. rest \in Nat
  BY <1>1, <1>2, <1>3, <1>4
<1>6. IdleLimit(m) = IdleBase + IdleFactor * rest
  BY DEF IdleLimit
<1> HIDE DEF rest, surplus
<1>7. IdleFactor * rest \in Nat
  <2>1. \A x, y \in Nat : x * y \in Nat
    OBVIOUS
  <2> QED
    BY <1>5, <2>1, TimerAssumption
<1>8. head \in m.idle /\ m.idleTime[head] \in Nat /\ m.idleTime[head] + 1 > IdleBase
  <2> DEFINE x == IdleFactor * rest
  <2>1. m.idleTime[head] \in Nat
    BY DEF Memory
  <2>2. m.idleTime[head] + 1 > IdleBase + x /\ head \in m.idle
    BY <1>6 DEF Purged
  <2>3. x \in Nat
    BY <1>7
  <2> HIDE DEF x
  <2> QED
    BY <2>1, <2>2, <2>3, TimerAssumption
<1>9. \A s \in Live(m) : m.ttl[s] = -1
  <2>1. SUFFICES ASSUME NEW s \in Live(m), m.ttl[s] # -1 PROVE FALSE
    OBVIOUS
  <2>2. m.ttl[s] \in 1..SecondsToLive
    BY <2>1 DEF Slack, Timers
  <2>3. m.idleTime[head] + 1 <= SecondsToLive - m.ttl[s]
    BY <1>8, <2>2, TimerAssumption DEF Slack
  <2> QED
    BY <1>8, <2>2, <2>3, TimerAssumption
<1>10. /\ n.phase = m.phase /\ n.started = m.started
       /\ \A s \in Servers : s # head => n.ttl[s] = m.ttl[s]
       /\ n.ttl[head] = SecondsToLive
  BY DEF SamePool, Purged, Memory
<1>11. Staying(n) = R \ {head}
  <2>1. SecondsToLive # -1
    BY TimerAssumption
  <2> QED
    BY <1>9, <1>10, <2>1 DEF Staying, Reported, Live
<1> HIDE DEF R
<1>12. IsFiniteSet(R \ {head}) /\ Cardinality(R \ {head}) \in {Cardinality(R), Cardinality(R) - 1}
  BY <1>1, FS_RemoveElement
<1> QED
  BY <1>1, <1>2, <1>3, <1>11, <1>12

LEMMA TickKeepsMinimum ==
  ASSUME TypeOK, Sessions, IdleSound, Timed(mgr), Levelled(mgr), Counted(mgr), Unhurried,
         SecondsToLive <= IdleBase + 1, Tick, NEW s \in mgr.idle,
         mgr'.ttl[s] = SecondsToLive, mgr'.mode # "stopping"
  PROVE  Cardinality(Staying(mgr')) >= MinServers
<1>1. PICK head \in Servers : TickWith(head) /\ mgr' = Ticked(head)
  BY DEF Tick
<1> DEFINE b == CheckServers(CountDelay(mgr))
           c == Checked(head)
           d == DeleteServers(c)
           n == CreateNewProcess(d)
<1>0. mgr \in Memory /\ s \in Servers /\ s \in Live(mgr)
  BY DEF TypeOK, Memory, IdleSound, Live
<1>2. HeadOfIdle(CheckServers(mgr), head) /\ RoomToFork(d)
  BY <1>1 DEF TickWith
<1>3. /\ b \in Memory /\ c \in Memory /\ SamePool(b, c) /\ Seconded(b, head)
      /\ c.ttl = b.ttl \/ c.mode = "stopping" \/ Purged(b, c, head)
      /\ b.ttl[s] < SecondsToLive
      /\ Fresh(b) /\ \A x \in c.idle : b.phase[x] = "live"
      /\ Counted(b)
  BY <1>0, <1>2, CheckedTimes
<1>4. mgr' \in {c, d, n}
  BY <1>1 DEF Ticked, CleanUp
<1> HIDE DEF b, c
<1>5. Fresh(c) /\ \A x \in c.idle : c.phase[x] = "live"
  BY <1>3 DEF SamePool, Fresh, Free
<1>6. /\ d \in Memory /\ Live(d) = Live(c) /\ Fresh(d)
      /\ \A x \in Live(c) : d.started[x] = c.started[x] /\ d.ttl[x] = c.ttl[x]
      /\ d.ttl[s] \in {c.ttl[s], -1}
      /\ c.mode = "stopping" => d.mode = "stopping"
  BY <1>0, <1>3, <1>5, DeleteServersTimes
<1> HIDE DEF d
<1>7. /\ \A x \in Servers : n.phase[x] # d.phase[x] => d.phase[x] = "free"
      /\ n.started = d.started /\ n.ttl = d.ttl
  BY <1>2, <1>6, CreateNewProcessCounted
<1>8. n \in Memory /\ n.mode = d.mode
  BY <1>6, CreateNewProcessType, CreateNewProcessStill DEF Still
<1> HIDE DEF n
<1>9. Purged(b, c, head)
  <2>1. SecondsToLive # -1
    BY TimerAssumption
  <2>2. c.ttl[s] = SecondsToLive
    BY <1>4, <1>6, <1>7, <2>1
  <2>3. b.ttl[s] # SecondsToLive
    BY <1>0, <1>3, TimerAssumption DEF Memory
  <2>4. c.mode # "stopping"
    BY <1>4, <1>6, <1>8
  <2> QED
    BY <1>3, <2>2, <2>3, <2>4
<1>10. /\ IsFiniteSet(Staying(c)) /\ Cardinality(Staying(c)) \in Nat
       /\ Cardinality(Staying(c)) >= MinServers
  BY <1>3, <1>9, PurgedStays DEF Seconded
<1>11. Staying(c) \in SUBSET Staying(mgr')
  <2>1. Staying(c) \in SUBSET Staying(d)
    BY <1>6 DEF Staying
  <2>2. Staying(d) \in SUBSET Staying(n)
    BY <1>7 DEF Staying, Live
  <2> QED
    BY <1>4, <2>1, <2>2
<1>12. Staying(mgr') \in SUBSET Servers
  BY DEF Staying, Live
<1>13. IsFiniteSet(Staying(mgr')) /\ Cardinality(Staying(mgr')) \in Nat
  BY <1>12, PoolAssumption, FS_Subset, FS_CardinalityType
<1>14. Cardinality(Staying(c)) <= Cardinality(Staying(mgr'))
  BY <1>11, <1>13, FS_Subset
<1> QED
  BY <1>10, <1>13, <1>14, PoolAssumption

-----------------------------------------------------------------------------
(* No operator crashes the manager, or makes a server that is sent nothing *)
(* (Message::CancelTarget) keep a message.                                 *)

Silent(m) == \A s \in Servers : m.lastSent[s] = "null" => m.queue[s] = <<>>
Sane(m, n) ==
  /\ n.process \in {m.process, "exited"}
  /\ Silent(m) => Silent(n)

SameTalk(m, n) ==
  n.process = m.process /\ n.lastSent = m.lastSent /\ n.queue = m.queue

LEMMA SameTalkSane ==
  ASSUME NEW m, NEW n, SameTalk(m, n)
  PROVE  Sane(m, n)
BY DEF SameTalk, Sane, Silent

LEMMA SaneIsTransitive ==
  ASSUME NEW a, NEW b, NEW c, Sane(a, b), Sane(b, c)
  PROVE  Sane(a, c)
BY DEF Sane

LEMMA AppendMessageSane ==
  ASSUME NEW m \in Memory, NEW kind \in Kinds, NEW T
  PROVE  Sane(m, AppendMessage(m, kind, T))
<1> DEFINE n == AppendMessage(m, kind, T)
<1>1. n.process = m.process
  BY DEF AppendMessage, Memory
<1>2. \A s \in Servers :
        n.lastSent[s] = m.lastSent[s] \/ (m.lastSent[s] # "null" /\ n.lastSent[s] = kind)
  BY DEF AppendMessage, Memory
<1>3. \A s \in Servers : n.queue[s] = m.queue[s] \/ m.lastSent[s] # "null"
  BY DEF AppendMessage, Memory
<1> HIDE DEF n
<1>4. kind # "null"
  BY DEF Kinds
<1>5. Silent(m) => Silent(n)
  BY <1>2, <1>3, <1>4 DEF Silent
<1> QED
  BY <1>1, <1>5 DEF Sane, n

LEMMA TakeNextSane ==
  ASSUME NEW m \in Memory, NEW s \in Servers, HasNext(m, s), NEW n, n = TakeNext(m, s)
  PROVE  Sane(m, n)
<1>1. Head(m.queue[s]) # "null"
  <2>1. m.queue[s] \in Seq(Kinds) /\ m.queue[s] # <<>>
    BY DEF Memory, HasNext
  <2>2. Head(m.queue[s]) \in Kinds
    BY <2>1
  <2> QED
    BY <2>2 DEF Kinds
<1>2. /\ n.process = m.process
      /\ n.lastSent = [m.lastSent EXCEPT ![s] = Head(m.queue[s])]
  BY DEF TakeNext, Memory
<1>3. \A t \in Servers : t # s => n.queue[t] = m.queue[t]
  BY DEF TakeNext, Memory
<1>4. \A t \in Servers : t # s => n.lastSent[t] = m.lastSent[t]
  BY <1>2 DEF Memory
<1>5. n.lastSent[s] # "null"
  BY <1>1, <1>2 DEF Memory
<1> QED
  BY <1>2, <1>3, <1>4, <1>5 DEF Sane, Silent

LEMMA BringUpToDateSane ==
  ASSUME NEW m \in Memory, NEW s \in Servers, NEW n, n = BringUpToDate(m, s)
  PROVE  Sane(m, n)
<1>1. n.process = m.process /\ n.lastSent = [m.lastSent EXCEPT ![s] = "none"]
  BY DEF BringUpToDate, Memory
<1>2. \A t \in Servers : t # s => n.queue[t] = m.queue[t]
  BY DEF BringUpToDate, Memory
<1>3. n.lastSent[s] = "none" /\ \A t \in Servers : t # s => n.lastSent[t] = m.lastSent[t]
  BY <1>1 DEF Memory
<1> QED
  BY <1>1, <1>2, <1>3 DEF Sane, Silent

LEMMA KillServersSane ==
  ASSUME NEW m \in Memory, NEW K
  PROVE  Sane(m, KillServers(m, K))
<1> DEFINE n == KillServers(m, K)
           R == K \ Dying(m)
<1>1. n.process = m.process
  BY DEF KillServers, RemoveServers, Memory
<1>2. \A s \in Servers : n.lastSent[s] = IF s \in R THEN "null" ELSE m.lastSent[s]
  BY DEF KillServers, RemoveServers, Memory
<1>3. \A s \in Servers : n.queue[s] = IF s \in R THEN <<>> ELSE m.queue[s]
  BY DEF KillServers, RemoveServers, Memory
<1> HIDE DEF n, R
<1>4. Silent(m) => Silent(n)
  BY <1>2, <1>3 DEF Silent
<1> QED
  BY <1>1, <1>4 DEF Sane, n

LEMMA FailServerSane ==
  ASSUME NEW m \in Memory, NEW s \in Servers
  PROVE  Sane(m, FailServer(m, s))
<1> DEFINE a == [m EXCEPT !.armed[s] = FALSE]
<1>1. a \in Memory /\ SameTalk(m, a)
  BY DEF Memory, SameTalk
<1>2. FailServer(m, s) = KillServers(a, {s})
  BY DEF FailServer
<1> HIDE DEF a
<1> QED
  BY <1>1, <1>2, SameTalkSane, KillServersSane, SaneIsTransitive

LEMMA QuietOperatorsSane ==
  ASSUME NEW m \in Memory, NEW s, NEW T
  PROVE  /\ Sane(m, Unbind(m, s)) /\ Sane(m, AddIdleServer(m, s))
         /\ Sane(m, GetIdleServers(m, T))
         /\ Sane(m, CreateNewProcess(m)) /\ Sane(m, CountDelay(m))
<1>1. SameTalk(m, Unbind(m, s)) /\ SameTalk(m, AddIdleServer(m, s))
  BY DEF SameTalk, Unbind, AddIdleServer, Memory
<1>2. SameTalk(m, GetIdleServers(m, T)) /\ SameTalk(m, CountDelay(m))
  BY DEF SameTalk, GetIdleServers, CountDelay, Memory
<1>3. SameTalk(m, CreateNewProcess(m))
  BY DEF SameTalk, CreateNewProcess, Memory
<1> QED
  BY <1>1, <1>2, <1>3, SameTalkSane

LEMMA AssignServersSane ==
  ASSUME NEW m \in Memory, NEW S \in SUBSET Servers, NEW to \in [S -> Connections]
  PROVE  Sane(m, AssignServers(m, S, to))
<1> DEFINE b == BindServers(m, S, to)
           last == LastRequest(b, S)
           told == [b EXCEPT !.ttl = [s \in Servers |->
                      IF s \in last THEN SecondsToLive ELSE @[s]]]
<1>1. b \in Memory
  BY BindServersType
<1>2. AssignServers(m, S, to) =
        IF last = {} THEN b ELSE AppendMessage(told, "exit", last)
  BY Zenon DEF AssignServers, CountRequests
<1>3. SameTalk(m, b)
  BY DEF BindServers, SameTalk, Memory
<1> HIDE DEF b
<1>4. told \in Memory
  BY <1>1, LastRequestType, Zenon
<1>5. SameTalk(b, told)
  BY <1>1 DEF SameTalk, Memory
<1> HIDE DEF told, last
<1>6. Sane(told, AppendMessage(told, "exit", last))
  BY <1>4, AppendMessageSane DEF Kinds
<1> QED
  BY <1>2, <1>3, <1>5, <1>6, SameTalkSane, SaneIsTransitive

LEMMA AssignServerSane ==
  ASSUME NEW m \in Memory, NEW s \in Servers, NEW c \in Connections
  PROVE  Sane(m, AssignServer(m, s, c))
<1>1. [x \in {s} |-> c] \in [{s} -> Connections]
  OBVIOUS
<1> QED
  BY <1>1, AssignServersSane DEF AssignServer

LEMMA GiveWorkSane ==
  ASSUME NEW m \in Memory, NEW s \in Servers
  PROVE  Sane(m, GiveWork(m, s))
<1>1. CASE m.waiting # <<>> /\ m.mode # "paused"
  <2> DEFINE t == [m EXCEPT !.waiting = Tail(@)]
  <2>1. GiveWork(m, s) = AssignServer(t, s, Head(m.waiting))
    BY <1>1 DEF GiveWork
  <2>2. Tail(m.waiting) \in Seq(Connections) /\ Head(m.waiting) \in Connections
    BY <1>1 DEF Memory
  <2>3. t \in Memory /\ SameTalk(m, t)
    BY <2>2 DEF Memory, SameTalk
  <2> HIDE DEF t
  <2>4. Sane(t, AssignServer(t, s, Head(m.waiting)))
    BY <2>2, <2>3, AssignServerSane
  <2> QED
    BY <2>1, <2>3, <2>4, SameTalkSane, SaneIsTransitive
<1>2. CASE ~(m.waiting # <<>> /\ m.mode # "paused")
  BY <1>2, QuietOperatorsSane DEF GiveWork
<1> QED
  BY <1>1, <1>2

LEMMA RedeployServerSane ==
  ASSUME NEW m \in Memory, NEW s \in Servers
  PROVE  Sane(m, RedeployServer(m, s))
<1> DEFINE u == Unbind(m, s)
           k == TakeNext(u, s)
<1>1. u \in Memory /\ Sane(m, u)
  BY UnbindType, QuietOperatorsSane
<1>2. RedeployServer(m, s) =
        IF HasNext(u, s) THEN [k EXCEPT !.onSend[s] = "DoPush"] ELSE GiveWork(u, s)
  BY DEF RedeployServer
<1> HIDE DEF u
<1>3. CASE HasNext(u, s)
  <2>1. k \in Memory /\ Sane(u, k)
    BY <1>1, <1>3, TakeNextType, TakeNextSane
  <2> HIDE DEF k
  <2>2. SameTalk(k, [k EXCEPT !.onSend[s] = "DoPush"])
    BY <2>1 DEF SameTalk, Memory
  <2> QED
    BY <1>1, <1>2, <1>3, <2>1, <2>2, SameTalkSane, SaneIsTransitive
<1>4. CASE ~HasNext(u, s)
  BY <1>1, <1>2, <1>4, GiveWorkSane, SaneIsTransitive
<1> QED
  BY <1>3, <1>4

LEMMA AfterPushSane ==
  ASSUME NEW m \in Memory, NEW s \in Servers
  PROVE  Sane(m, AfterPush(m, s))
<1> DEFINE done == [m EXCEPT !.onSend[s] = "none"]
<1>1. done \in Memory /\ SameTalk(m, done)
  BY DEF Memory, Callbacks, SameTalk
<1>2. \/ HasNext(m, s) /\ AfterPush(m, s) = TakeNext(m, s)
      \/ AfterPush(m, s) \in {done, GiveWork(done, s)}
  BY DEF AfterPush
<1> HIDE DEF done
<1>3. Sane(m, done) /\ Sane(done, GiveWork(done, s))
  BY <1>1, SameTalkSane, GiveWorkSane
<1> QED
  BY <1>2, <1>3, TakeNextSane, SaneIsTransitive

LEMMA StopAllServersSane ==
  ASSUME NEW m \in Memory
  PROVE  Sane(m, StopAllServers(m)) /\ Sane(m, DoStop(m))
<1> DEFINE a == AppendMessage(m, "exit", Servers)
           n == StopAllServers(m)
           told == [n EXCEPT !.mode = "stopping"]
           exited == [told EXCEPT !.process = "exited"]
<1>1. a \in Memory /\ Sane(m, a)
  BY AppendMessageType, AppendMessageSane DEF Kinds
<1>2. SameTalk(a, n)
  BY <1>1 DEF StopAllServers, SameTalk, Memory
<1>3. n \in Memory /\ Sane(m, n)
  BY <1>1, <1>2, StopAllServersType, SameTalkSane, SaneIsTransitive
<1>4. DoStop(m) \in {told, exited}
  BY DEF DoStop
<1> HIDE DEF n, a
<1>5. told \in Memory /\ SameTalk(n, told)
  BY <1>3 DEF SameTalk, Memory, Modes
<1> HIDE DEF told
<1>6. Sane(told, exited)
  BY <1>5 DEF Sane, Silent, Memory
<1> QED
  BY <1>3, <1>4, <1>5, <1>6, SameTalkSane, SaneIsTransitive DEF n

LEMMA PeriodicIdleServerPurgeSane ==
  ASSUME NEW m \in Memory, NEW head \in Servers
  PROVE  Sane(m, PeriodicIdleServerPurge(m, head))
<1> DEFINE times == [s \in Servers |->
                       IF s \in m.idle THEN Lesser(m.idleTime[s] + 1, IdleTimeBound)
                                       ELSE m.idleTime[s]]
           older == [m EXCEPT !.idleTime = times]
           told == [older EXCEPT !.ttl[head] = SecondsToLive]
           spare == m.serverCount > MinServers /\ m.minIdle >= 1
           purged == IF spare /\ older.idleTime[head] > IdleLimit(m)
                     THEN AppendMessage(told, "exit", {head}) ELSE older
<1>1. times \in [Servers -> Nat]
  BY IdleTimesType
<1>2. older = [m EXCEPT !.idleTime = [s \in Servers |->
                 IF s \in m.idle THEN Lesser(@[s] + 1, IdleTimeBound) ELSE @[s]]]
  BY DEF Memory
<1>3. PeriodicIdleServerPurge(m, head) = [purged EXCEPT !.minIdle = Cardinality(purged.idle)]
  BY <1>2, Zenon DEF PeriodicIdleServerPurge
<1> HIDE DEF times
<1>4. older \in Memory /\ SameTalk(m, older)
  BY <1>1 DEF Memory, SameTalk
<1> HIDE DEF older
<1>5. told \in Memory /\ SameTalk(older, told)
  <2>1. SameTalk(older, told)
    BY <1>4 DEF Memory, SameTalk
  <2> QED
    BY <1>4, <2>1, TtlType
<1> HIDE DEF told, spare
<1>6. /\ AppendMessage(told, "exit", {head}) \in Memory
      /\ Sane(told, AppendMessage(told, "exit", {head}))
  BY <1>5, AppendMessageType, AppendMessageSane DEF Kinds
<1>7. purged \in Memory /\ Sane(m, purged)
  BY <1>4, <1>5, <1>6, SameTalkSane, SaneIsTransitive
<1> HIDE DEF purged
<1>8. SameTalk(purged, [purged EXCEPT !.minIdle = Cardinality(purged.idle)])
  BY <1>7 DEF Memory, SameTalk
<1> QED
  BY <1>3, <1>7, <1>8, SameTalkSane, SaneIsTransitive

LEMMA CheckPoolSane ==
  ASSUME NEW m \in Memory, NEW head \in Servers
  PROVE  Sane(m, CheckPool(m, head))
<1> DEFINE p == CheckPing(m)
           q == IF p.serverCount >= MinServers THEN [p EXCEPT !.belowMin = 0] ELSE p
           below == Lesser(m.belowMin + 1, StartTimeout + 1)
           since == IF PingTimeout > 0 THEN Lesser(m.sincePing + 1, PingTimeout) ELSE 0
           counted == [m EXCEPT !.belowMin = below, !.sincePing = since]
<1>0. below \in Nat /\ since \in Nat
  <2>1. /\ m.belowMin + 1 \in Nat /\ StartTimeout + 1 \in Nat
        /\ m.sincePing + 1 \in Nat /\ PingTimeout \in Nat
    <3>1. m.belowMin \in Nat /\ m.sincePing \in Nat
      BY DEF Memory
    <3> QED
      BY <3>1, TimerAssumption
  <2> QED
    BY <2>1, LesserType
<1>2. p \in {counted, DoStop(counted)} /\ p \in Memory
  <2>1. p \in {counted, DoStop(counted)}
    BY DEF CheckPing, Memory
  <2> QED
    BY <2>1, CheckPingType
<1> HIDE DEF below, since
<1>1. counted \in Memory /\ SameTalk(m, counted)
  BY <1>0 DEF Memory, SameTalk
<1> HIDE DEF counted
<1>3. Sane(m, p)
  BY <1>1, <1>2, StopAllServersSane, SameTalkSane, SaneIsTransitive
<1>4. CheckPool(m, head) \in {m, p, DoStop(p), PeriodicIdleServerPurge(q, head)}
  BY DEF CheckPool
<1> HIDE DEF p
<1>5. q \in Memory /\ SameTalk(p, q)
  <2>1. q \in Memory
    BY <1>2, NotBelowMin
  <2>2. SameTalk(p, q)
    BY <1>2 DEF Memory, SameTalk
  <2> QED
    BY <2>1, <2>2
<1> HIDE DEF q
<1>6. Sane(p, PeriodicIdleServerPurge(q, head)) /\ Sane(p, DoStop(p)) /\ Sane(m, m)
  <2>1. Sane(p, PeriodicIdleServerPurge(q, head))
    BY <1>5, PeriodicIdleServerPurgeSane, SameTalkSane, SaneIsTransitive
  <2> QED
    BY <1>2, <2>1, StopAllServersSane DEF Sane
<1> QED
  BY <1>3, <1>4, <1>6, SaneIsTransitive

LEMMA DeleteServersSane ==
  ASSUME NEW m \in Memory
  PROVE  Sane(m, DeleteServers(m))
<1> DEFINE d == DeleteServers(m)
<1>1. d.process \in {m.process, "exited"}
  BY DEF DeleteServers, LastServerStopped, Memory
<1>2. d.lastSent = [s \in Servers |-> IF s \in Dying(m) THEN "null" ELSE m.lastSent[s]]
  BY DEF DeleteServers, LastServerStopped, Memory
<1>3. d.queue = [s \in Servers |-> IF s \in Dying(m) THEN <<>> ELSE m.queue[s]]
  BY DEF DeleteServers, LastServerStopped, Memory
<1> HIDE DEF d
<1>4. Silent(m) => Silent(d)
  BY <1>2, <1>3 DEF Silent
<1> QED
  BY <1>1, <1>4 DEF Sane, d

LEMMA TickedSane ==
  ASSUME mgr \in Memory, NEW head \in Servers
  PROVE  Sane(mgr, Ticked(head))
<1> DEFINE a == CountDelay(mgr)
           k == KillServers(a, Overdue(a))
           b == CheckServers(a)
           c == Checked(head)
           d == DeleteServers(c)
<1>1. a \in Memory /\ Sane(mgr, a)
  BY CountDelayType, QuietOperatorsSane
<1> HIDE DEF a
<1>2. Overdue(a) \in SUBSET Servers
  BY DEF Overdue, TooLongDying, TooLongBusy, Live
<1>3. k \in Memory /\ Sane(a, k)
  BY <1>1, <1>2, KillServersType, KillServersSane
<1>4. b \in Memory /\ SameTalk(k, b)
  <2>1. b \in Memory
    BY <1>1, CheckServersType
  <2>2. SameTalk(k, b)
    BY <1>3 DEF CheckServers, Memory, SameTalk
  <2> QED
    BY <2>1, <2>2
<1>5. c = CheckPool(b, head)
  BY DEF Checked, a
<1> HIDE DEF k, b
<1>6. c \in Memory /\ Sane(b, c)
  BY <1>4, <1>5, CheckPoolType, CheckPoolSane
<1>7. Sane(mgr, c)
  BY <1>1, <1>3, <1>4, <1>6, SameTalkSane, SaneIsTransitive
<1>8. Ticked(head) \in {c, d, CreateNewProcess(d)}
  BY DEF Ticked, CleanUp
<1> HIDE DEF c
<1>9. d \in Memory /\ Sane(c, d)
  BY <1>6, DeleteServersType, DeleteServersSane
<1> HIDE DEF d
<1>10. Sane(d, CreateNewProcess(d))
  BY <1>9, QuietOperatorsSane
<1> QED
  BY <1>7, <1>8, <1>9, <1>10, SaneIsTransitive

\* CallbacksArmed, but for the crash that a callback without its argument is.
ArmedCallback(s) ==
  mgr.armed[s] =>
    /\ mgr.onSend[s] = "WakeupServer" => mgr.bound[s] # NoConnection
    /\ mgr.onSend[s] = "DoPush" => mgr.lastSent[s] \in Kinds

LEMMA StartNewRequestSane ==
  ASSUME NEW m \in Memory, NEW c \in Connections, NEW s \in Servers
  PROVE  Sane(m, StartNewRequest(m, c, s))
<1> DEFINE g == GetIdleServers(m, {s})
           w == [m EXCEPT !.waiting = Append(m.waiting, c),
                          !.conn = [m.conn EXCEPT ![c] = "waiting"]]
<1>1. g \in Memory /\ Sane(m, g)
  BY GetIdleServersType, QuietOperatorsSane
<1>2. StartNewRequest(m, c, s) \in {AssignServer(g, s, c), CreateNewProcess(w)}
  BY DEF StartNewRequest, Memory
<1>3. /\ Append(m.waiting, c) \in Seq(Connections)
      /\ [m.conn EXCEPT ![c] = "waiting"] \in
            [Connections -> {"none", "looking", "waiting", "bound"}]
  BY DEF Memory
<1>4. w \in Memory /\ SameTalk(m, w)
  <2>1. w \in Memory
    BY <1>3 DEF Memory
  <2> QED
    BY <2>1 DEF SameTalk, Memory
<1> HIDE DEF g, w
<1>5. Sane(g, AssignServer(g, s, c)) /\ Sane(w, CreateNewProcess(w))
  BY <1>1, <1>4, AssignServerSane, QuietOperatorsSane
<1> QED
  BY <1>1, <1>2, <1>4, <1>5, SameTalkSane, SaneIsTransitive

LEMMA ReadSane ==
  ASSUME mgr \in Memory, NEW s \in Servers, ServerStarted(s) \/ RecvServerMsg(s)
  PROVE  Sane(mgr, mgr')
<1>1. CASE ServerStarted(s)
  <2> DEFINE count == (mgr.serverCount + 1) % CountWord
             up == [mgr EXCEPT !.serverCount = count, !.started[s] = TRUE,
                               !.pending = FALSE]
             b == BringUpToDate(up, s)
             f == [mgr EXCEPT !.serverCount = count, !.delay = StartDelay]
  <2>1. mgr' \in {RedeployServer(b, s), FailServer(f, s)}
    BY <1>1 DEF ServerStarted, StartSucceeded, StartFailed, Memory
  <2>2. count \in 0..CountWord-1 /\ StartDelay \in 0..StartDelay
    <3>1. mgr.serverCount + 1 \in Int
      BY BoundAssumption DEF Memory
    <3> QED
      BY <3>1, WordType, TimerAssumption
  <2> HIDE DEF count
  <2>3. /\ up \in Memory /\ SameTalk(mgr, up)
        /\ f \in Memory /\ SameTalk(mgr, f)
    <3>1. up \in Memory /\ f \in Memory
      BY <2>2 DEF Memory
    <3> QED
      BY <3>1 DEF SameTalk, Memory
  <2> HIDE DEF up, f
  <2>4. b \in Memory /\ Sane(up, b) /\ Sane(f, FailServer(f, s))
    BY <2>3, BringUpToDateType, BringUpToDateSane, FailServerSane
  <2> HIDE DEF b
  <2>5. Sane(b, RedeployServer(b, s))
    BY <2>4, RedeployServerSane
  <2> QED
    BY <2>1, <2>3, <2>4, <2>5, SameTalkSane, SaneIsTransitive
<1>2. CASE RecvServerMsg(s)
  <2>1. mgr' \in {RedeployServer(mgr, s), [mgr EXCEPT !.extra[s] = ExtraTimeout],
                  [mgr EXCEPT !.onSend[s] = "ProcessNeedRespCmd"], FailServer(mgr, s)}
    BY <1>2, Zenon DEF RecvServerMsg
  <2>2. /\ SameTalk(mgr, [mgr EXCEPT !.extra[s] = ExtraTimeout])
        /\ SameTalk(mgr, [mgr EXCEPT !.onSend[s] = "ProcessNeedRespCmd"])
    BY DEF SameTalk, Memory
  <2> QED
    BY <2>1, <2>2, RedeployServerSane, FailServerSane, SameTalkSane
<1> QED
  BY <1>1, <1>2

\* What a write callback leaves when it has its argument, and when it has not.
LEMMA WriteSane ==
  ASSUME mgr \in Memory, NEW s \in Servers, mgr.armed[s],
         WakeupServer(s) \/ DoPush(s) \/ ProcessNeedRespCmd(s)
  PROVE  \/ Sane(mgr, mgr')
         \/ ~ArmedCallback(s) /\ (Silent(mgr) => Silent(mgr'))
<1> DEFINE crash == mgr' = [mgr EXCEPT !.process = "crashed"]
<1>0. crash => (Silent(mgr) => Silent(mgr'))
  BY DEF Silent, Memory
<1>1. CASE WakeupServer(s)
  <2> DEFINE m == [mgr EXCEPT !.onSend[s] = "none"]
  <2>1. mgr.bound[s] = NoConnection => crash /\ ~ArmedCallback(s)
    BY <1>1 DEF WakeupServer, CanWrite, ArmedCallback
  <2>2. mgr.bound[s] # NoConnection => mgr' \in {m, FailServer(m, s)}
    BY <1>1 DEF WakeupServer, SendOr
  <2>3. m \in Memory /\ SameTalk(mgr, m)
    BY DEF Memory, Callbacks, SameTalk
  <2> HIDE DEF m, crash
  <2> QED
    BY <1>0, <2>1, <2>2, <2>3, FailServerSane, SameTalkSane, SaneIsTransitive
<1>2. CASE DoPush(s)
  <2> DEFINE e == mgr.exiting[s] \/ mgr.lastSent[s] = "exit"
             m == [mgr EXCEPT !.exiting[s] = e]
  <2>1. mgr.lastSent[s] = "null" => crash /\ ~ArmedCallback(s)
    BY <1>2 DEF DoPush, CanWrite, ArmedCallback, Kinds
  <2>2. mgr.lastSent[s] # "null" => mgr' \in {AfterPush(m, s), FailServer(m, s)}
    BY <1>2 DEF DoPush, SendOr, Memory
  <2>3. e \in BOOLEAN
    OBVIOUS
  <2> HIDE DEF e
  <2>4. m \in Memory /\ SameTalk(mgr, m)
    BY <2>3 DEF Memory, SameTalk
  <2> HIDE DEF m, crash
  <2> QED
    BY <1>0, <2>1, <2>2, <2>4, AfterPushSane, FailServerSane, SameTalkSane, SaneIsTransitive
<1>3. CASE ProcessNeedRespCmd(s)
  <2>1. mgr' \in {[mgr EXCEPT !.onSend[s] = "none"], FailServer(mgr, s)}
    BY <1>3 DEF ProcessNeedRespCmd, SendOr
  <2>2. SameTalk(mgr, [mgr EXCEPT !.onSend[s] = "none"])
    BY DEF SameTalk, Memory
  <2> QED
    BY <2>1, <2>2, FailServerSane, SameTalkSane
<1> QED
  BY <1>1, <1>2, <1>3

-----------------------------------------------------------------------------
(* A server is given a connection when it has no message left to send.     *)

\* The servers that have a new connection in n are in S; they had no message
\* waiting, and have at most the exit of their last request.
Employs(m, n, S) ==
  \A t \in Servers :
    n.bound[t] # m.bound[t] /\ n.bound[t] # NoConnection =>
      /\ t \in S
      /\ m.queue[t] = <<>>
      /\ n.queue[t] \in {<<>>, <<"exit">>}
      /\ n.queue[t] = <<"exit">> => n.nreq[t] = MaxRequests

\* n has the messages of m, and no connection that m does not have.
Relieves(m, n) ==
  n.queue = m.queue /\ \A t \in Servers : n.bound[t] \in {m.bound[t], NoConnection}

LEMMA UnmovedEmploysNobody ==
  ASSUME NEW m, NEW n, NEW S, Unmoved(m, n) \/ Relieves(m, n)
  PROVE  Employs(m, n, S)
BY DEF Unmoved, Relieves, Employs

LEMMA RelievesThenEmploys ==
  ASSUME NEW m, NEW u, NEW n, NEW S, Relieves(m, u), Employs(u, n, S)
  PROVE  Employs(m, n, S)
BY DEF Relieves, Employs

LEMMA AppendMessageQueues ==
  ASSUME NEW m \in Memory, NEW kind \in Kinds, NEW T,
         NEW n, n = AppendMessage(m, kind, T), NEW t \in Servers
  PROVE  /\ n.bound = m.bound /\ n.nreq = m.nreq
         /\ n.queue[t] \in {m.queue[t], Append(m.queue[t], kind)}
         /\ t \notin T => n.queue[t] = m.queue[t]
BY DEF AppendMessage, Memory

LEMMA AssignServersEmploys ==
  ASSUME NEW m \in Memory, NEW S \in SUBSET Servers, NEW to \in [S -> Connections],
         \A s \in S : m.queue[s] = <<>>
  PROVE  Employs(m, AssignServers(m, S, to), S)
<1> DEFINE n == AssignServers(m, S, to)
           b == BindServers(m, S, to)
           last == LastRequest(b, S)
           told == [b EXCEPT !.ttl = [s \in Servers |->
                      IF s \in last THEN SecondsToLive ELSE @[s]]]
<1>1. \A t \in Servers : t \notin S => n.bound[t] = m.bound[t]
  <2>1. n = AssignServers(m, S, to)
    OBVIOUS
  <2> HIDE DEF n
  <2>2. /\ n.waiting = m.waiting
        /\ n.bound = [s \in Servers |-> IF s \in S THEN to[s] ELSE m.bound[s]]
        /\ n.conn = [c \in Connections |->
                        IF \E s \in S : to[s] = c THEN "bound" ELSE m.conn[c]]
    BY <2>1, AssignServersMoves
  <2> QED
    BY <2>2
<1>2. b \in Memory
  BY BindServersType
<1>3. n = IF last = {} THEN b ELSE AppendMessage(told, "exit", last)
  BY Zenon DEF AssignServers, CountRequests
<1>4. b.queue = m.queue
  BY DEF BindServers, Memory
<1>5. \A s \in S : b.nreq[s] = Lesser(m.nreq[s] + 1, MaxRequests)
  BY DEF BindServers, Memory
<1>6. \A s \in S : b.nreq[s] <= MaxRequests
  <2>1. \A s \in S : m.nreq[s] \in Int
    BY DEF Memory
  <2> QED
    BY <1>5, <2>1, PoolAssumption DEF Lesser
<1>7. \A s \in S : b.nreq[s] \in Int
  BY <1>2 DEF Memory
<1> HIDE DEF n, b
<1>8. \A s \in last : b.nreq[s] = MaxRequests
  BY <1>6, <1>7, PoolAssumption DEF LastRequest
<1>9. told \in Memory
  BY <1>2, LastRequestType, Zenon
<1>10. told.queue = b.queue /\ told.nreq = b.nreq
  BY <1>2 DEF Memory
<1> HIDE DEF told, last
<1>11. ASSUME NEW t \in S
       PROVE  /\ n.queue[t] \in {<<>>, <<"exit">>}
              /\ n.queue[t] = <<"exit">> => n.nreq[t] = MaxRequests
  <2>1. b.queue[t] = <<>>
    BY <1>4, <1>11
  <2>2. CASE last = {}
    BY <1>3, <2>1, <2>2
  <2>3. CASE last # {}
    <3>0. n = AppendMessage(told, "exit", last) /\ t \in Servers /\ "exit" \in Kinds
      BY <1>3, <1>11, <2>3 DEF Kinds
    <3>1. /\ n.nreq = told.nreq
          /\ n.queue[t] \in {told.queue[t], Append(told.queue[t], "exit")}
          /\ t \notin last => n.queue[t] = told.queue[t]
      BY <1>9, <3>0, AppendMessageQueues
    <3>2. Append(<<>>, "exit") = <<"exit">>
      OBVIOUS
    <3> QED
      BY <1>8, <1>10, <2>1, <3>1, <3>2
  <2> QED
    BY <2>2, <2>3
<1> QED
  BY <1>1, <1>11 DEF Employs, n

LEMMA AssignServerEmploys ==
  ASSUME NEW m \in Memory, NEW s \in Servers, NEW c \in Connections,
         m.queue[s] = <<>>
  PROVE  Employs(m, AssignServer(m, s, c), {s})
<1>1. [x \in {s} |-> c] \in [{s} -> Connections]
  OBVIOUS
<1> QED
  BY <1>1, AssignServersEmploys DEF AssignServer

LEMMA GiveWorkEmploys ==
  ASSUME NEW m \in Memory, NEW s \in Servers, m.queue[s] = <<>>
  PROVE  Employs(m, GiveWork(m, s), {s})
<1>1. CASE m.waiting # <<>> /\ m.mode # "paused"
  <2> DEFINE t == [m EXCEPT !.waiting = Tail(@)]
  <2>1. GiveWork(m, s) = AssignServer(t, s, Head(m.waiting))
    BY <1>1 DEF GiveWork
  <2>2. Tail(m.waiting) \in Seq(Connections) /\ Head(m.waiting) \in Connections
    BY <1>1 DEF Memory
  <2>3. t \in Memory /\ Relieves(m, t)
    BY <2>2 DEF Memory, Relieves
  <2>4. t.queue[s] = <<>>
    BY DEF Memory
  <2> HIDE DEF t
  <2> QED
    BY <2>1, <2>2, <2>3, <2>4, AssignServerEmploys, RelievesThenEmploys
<1>2. CASE ~(m.waiting # <<>> /\ m.mode # "paused")
  BY <1>2, AddIdleServerUnmoved, UnmovedEmploysNobody DEF GiveWork
<1> QED
  BY <1>1, <1>2

LEMMA RedeployServerEmploys ==
  ASSUME NEW m \in Memory, NEW s \in Servers, Silent(m)
  PROVE  Employs(m, RedeployServer(m, s), {s})
<1> DEFINE u == Unbind(m, s)
           k == TakeNext(u, s)
<1>1. u \in Memory /\ Relieves(m, u) /\ u.lastSent = m.lastSent
  <2>1. u.queue = m.queue /\ u.lastSent = m.lastSent
    BY DEF Unbind, Memory
  <2>2. \A t \in Servers : u.bound[t] \in {m.bound[t], NoConnection}
    BY DEF Unbind, Memory
  <2> QED
    BY <2>1, <2>2, UnbindType DEF Relieves
<1>2. RedeployServer(m, s) =
        IF HasNext(u, s) THEN [k EXCEPT !.onSend[s] = "DoPush"] ELSE GiveWork(u, s)
  BY DEF RedeployServer
<1> HIDE DEF u
<1>3. CASE HasNext(u, s)
  <2>1. k \in Memory /\ Unmoved(u, k)
    BY <1>1, <1>3, TakeNextType, TakeNextUnmoved
  <2> HIDE DEF k
  <2>2. Unmoved(k, [k EXCEPT !.onSend[s] = "DoPush"])
    BY <2>1, ServerFieldsUnmoved
  <2> QED
    BY <1>1, <1>2, <1>3, <2>1, <2>2, UnmovedIsTransitive, UnmovedEmploysNobody,
       RelievesThenEmploys
<1>4. CASE ~HasNext(u, s)
  <2>1. u.queue[s] = <<>>
    BY <1>1, <1>4 DEF HasNext, Silent, Relieves
  <2> QED
    BY <1>1, <1>2, <1>4, <2>1, GiveWorkEmploys, RelievesThenEmploys
<1> QED
  BY <1>3, <1>4

LEMMA StartNewRequestEmploys ==
  ASSUME NEW m \in Memory, NEW c \in Connections, NEW s \in Servers,
         s \in m.idle => m.queue[s] = <<>>, m.idle # {} => s \in m.idle
  PROVE  Employs(m, StartNewRequest(m, c, s), m.idle)
<1> DEFINE g == GetIdleServers(m, {s})
           w == [m EXCEPT !.waiting = Append(m.waiting, c),
                          !.conn = [m.conn EXCEPT ![c] = "waiting"]]
<1>1. g \in Memory /\ Unmoved(m, g) /\ Relieves(m, g) /\ g.queue = m.queue
  <2>1. g \in Memory
    BY GetIdleServersType
  <2>2. g.queue = m.queue /\ g.bound = m.bound
    BY DEF GetIdleServers, Memory
  <2>3. Unmoved(m, g)
    BY GetIdleServersUnmoved
  <2> QED
    BY <2>1, <2>2, <2>3 DEF Relieves
<1>2. \/ s \in m.idle /\ StartNewRequest(m, c, s) = AssignServer(g, s, c)
      \/ StartNewRequest(m, c, s) = CreateNewProcess(w)
  BY DEF StartNewRequest, Memory
<1>3. /\ Append(m.waiting, c) \in Seq(Connections)
      /\ [m.conn EXCEPT ![c] = "waiting"] \in
            [Connections -> {"none", "looking", "waiting", "bound"}]
  BY DEF Memory
<1>4. w \in Memory /\ Relieves(m, w)
  <2>1. w \in Memory
    BY <1>3 DEF Memory
  <2> QED
    BY <2>1 DEF Relieves, Memory
<1> HIDE DEF g, w
<1>5. CASE s \in m.idle /\ StartNewRequest(m, c, s) = AssignServer(g, s, c)
  <2>1. Employs(g, AssignServer(g, s, c), {s})
    BY <1>1, <1>5, AssignServerEmploys
  <2>2. Employs(m, AssignServer(g, s, c), {s})
    BY <1>1, <2>1, RelievesThenEmploys
  <2> QED
    BY <1>5, <2>2 DEF Employs
<1>6. CASE StartNewRequest(m, c, s) = CreateNewProcess(w)
  BY <1>4, <1>6, CreateNewProcessUnmoved, UnmovedEmploysNobody, RelievesThenEmploys
<1> QED
  BY <1>2, <1>5, <1>6

-----------------------------------------------------------------------------
(* Every step, and the theorems.                                           *)

\* DoResume hands out the connections that waited: nobody's place in the pool
\* changes.
LEMMA DoResumeRoutine ==
  ASSUME TypeOK, IdleSound, DoResume
  PROVE  Routine(mgr, mgr') /\ Sane(mgr, mgr') /\ Employs(mgr, mgr', mgr.idle)
<1> DEFINE l == Len(mgr.waiting)
           i == Cardinality(mgr.idle)
           k == Lesser(l, i)
<1>0. mgr \in Memory /\ mgr.idle \in SUBSET Servers /\ mgr.waiting \in Seq(Connections)
  BY DEF TypeOK, Memory
<1>1. l \in Nat /\ i \in Nat /\ k <= l /\ k \in Nat
  <2>1. l \in Nat /\ i \in Nat
    BY <1>0, CardinalityOfServers
  <2> QED
    BY <2>1 DEF Lesser
<1>2. PICK S \in SUBSET mgr.idle : \E rank \in [S -> 1..k] :
        mgr' = AssignServers([GetIdleServers(mgr, S) EXCEPT
                                   !.mode = "running",
                                   !.waiting = SubSeq(@, k + 1, Len(@))],
                                S, [s \in S |-> mgr.waiting[rank[s]]])
  BY Zenon DEF DoResume
<1> HIDE DEF k
<1>3. PICK rank \in [S -> 1..k] :
        mgr' = AssignServers([GetIdleServers(mgr, S) EXCEPT
                                   !.mode = "running",
                                   !.waiting = SubSeq(@, k + 1, Len(@))],
                                S, [s \in S |-> mgr.waiting[rank[s]]])
  BY <1>2
<1> DEFINE rest == SubSeq(mgr.waiting, k + 1, l)
           g == GetIdleServers(mgr, S)
           h == [g EXCEPT !.mode = "running"]
           r == [h EXCEPT !.waiting = rest]
           to == [s \in S |-> mgr.waiting[rank[s]]]
<1>4. rest \in Seq(Connections)
  BY <1>0, <1>1
<1>5. S \in SUBSET Servers /\ \A s \in S : mgr.phase[s] = "live"
  BY <1>0 DEF IdleSound
<1>6. g \in Memory /\ g.waiting = mgr.waiting /\ Routine(mgr, g) /\ Sane(mgr, g)
  <2>1. g.waiting = mgr.waiting
    BY <1>0 DEF GetIdleServers, Memory
  <2> QED
    BY <1>0, <1>5, <2>1, GetIdleServersType, GetIdleServersRoutine, QuietOperatorsSane
<1>7. [GetIdleServers(mgr, S) EXCEPT
        !.mode = "running", !.waiting = SubSeq(@, k + 1, Len(@))] = r
  BY <1>6 DEF Memory
<1> HIDE DEF rest, g
<1>8. h \in Memory /\ Routine(g, h) /\ SameTalk(g, h)
  <2>1. h \in Memory
    BY <1>6 DEF Memory, Modes
  <2> QED
    BY <1>6, <2>1, OtherFieldsRoutine DEF Memory, SameTalk
<1> HIDE DEF h
<1>9. r \in Memory /\ Routine(h, r) /\ SameTalk(h, r)
  <2>1. r \in Memory
    BY <1>4, <1>8 DEF Memory
  <2> QED
    BY <1>8, <2>1, OtherFieldsRoutine DEF Memory, SameTalk
<1> HIDE DEF r
<1>10. Routine(mgr, r)
  BY <1>6, <1>8, <1>9, RoutineIsTransitive
<1>11. to \in [S -> Connections]
  <2>1. \A t \in S : rank[t] \in 1..Len(mgr.waiting)
    BY <1>1, <1>3
  <2>2. \A t \in S : mgr.waiting[rank[t]] \in Connections
    BY <1>0, <2>1
  <2> QED
    BY <2>2
<1>12. mgr' = AssignServers(r, S, to)
  BY <1>3, <1>7
<1> HIDE DEF to
<1>13. \A s \in S : r.phase[s] # "free"
  BY <1>5, <1>10 DEF Routine, SamePool
<1>14. Sane(r, mgr')
  BY <1>5, <1>9, <1>11, <1>12, AssignServersSane
<1>15. Sane(mgr, mgr')
  BY <1>6, <1>8, <1>9, <1>14, SameTalkSane, SaneIsTransitive
<1>16. Employs(mgr, mgr', mgr.idle)
  <2>1. r.queue = mgr.queue /\ r.bound = mgr.bound
    BY <1>0, <1>6, <1>8 DEF g, h, r, GetIdleServers, Memory
  <2>2. Relieves(mgr, r) /\ \A s \in S : r.queue[s] = <<>>
    BY <2>1 DEF Relieves, IdleSound
  <2>3. Employs(mgr, mgr', S)
    BY <1>5, <1>9, <1>11, <1>12, <2>2, AssignServersEmploys, RelievesThenEmploys
  <2> QED
    BY <2>3 DEF Employs
<1> QED
  BY <1>5, <1>9, <1>10, <1>11, <1>12, <1>13, <1>15, <1>16, AssignServersRoutine,
     RoutineIsTransitive

\* DoExit and DoRestart kill everybody.
LEMMA AllKilled ==
  ASSUME NEW m \in Memory, NEW n, n = KillServers(m, Live(m))
  PROVE  n \in Memory /\ Live(n) = {}
<1>1. Live(m) \in SUBSET Servers
  BY DEF Live
<1>2. n \in Memory /\ Killed(m, Live(m), n)
  BY <1>1, KillServersFields
<1> QED
  BY <1>2 DEF Killed, Live

LEMMA AdministratorOrderly ==
  ASSUME TypeOK, IdleSound, "restart" \notin Commands, Administrator
  PROVE  \/ Orderly(mgr, mgr')
         \/ mgr'.process = "exited" /\ Live(mgr') = {}
<1>0. mgr \in Memory
  BY DEF TypeOK
<1>1. CASE DoReload
  <2> DEFINE a == StopAllServers(mgr)
  <2>1. a \in Memory /\ Routine(mgr, a)
    BY <1>0, StopAllServersType, StopAllServersRoutine
  <2>2. mgr' = [a EXCEPT !.mode = "reloading"]
    BY <1>1 DEF DoReload
  <2> HIDE DEF a
  <2> QED
    BY <2>1, <2>2, OtherFieldsRoutine, RoutineIsTransitive, RoutineIsOrderly
<1>2. ~DoRestart
  BY DEF DoRestart, Command
<1>3. CASE DoExit
  <2> DEFINE a == KillServers(mgr, Live(mgr))
  <2>1. a \in Memory /\ Live(a) = {}
    BY <1>0, AllKilled
  <2>2. mgr' = [a EXCEPT !.process = "exited"]
    BY <1>3 DEF DoExit
  <2> HIDE DEF a
  <2> QED
    BY <2>1, <2>2 DEF Memory, Live
<1>4. CASE DoStopCommand
  BY <1>0, <1>4, DoStopRoutine, RoutineIsOrderly DEF DoStopCommand
<1>5. CASE DoPause
  BY <1>0, <1>5, OtherFieldsRoutine, RoutineIsOrderly DEF DoPause
<1>6. CASE DoResume
  BY <1>6, DoResumeRoutine, RoutineIsOrderly
<1>7. CASE SetPref
  <2> DEFINE a == AppendMessage(mgr, "pref", Servers)
  <2>1. PICK n : mgr' = [a EXCEPT !.prefs = n]
    BY <1>7 DEF SetPref
  <2>2. a \in Memory /\ Routine(mgr, a)
    BY <1>0, AppendMessageType, AppendMessageRoutine DEF Kinds
  <2> HIDE DEF a
  <2> QED
    BY <2>1, <2>2, OtherFieldsRoutine, RoutineIsTransitive, RoutineIsOrderly
<1>8. CASE DoPing
  BY <1>0, <1>8, OtherFieldsRoutine, RoutineIsOrderly DEF DoPing
<1> QED
  BY <1>1, <1>2, <1>3, <1>4, <1>5, <1>6, <1>7, <1>8 DEF Administrator

\* The environment leaves the manager alone, and a connection is not a worker.
LEMMA OutsideOrderly ==
  ASSUME TypeOK,
         \/ UNCHANGED vars
         \/ \E c \in Connections : NewConnection(c) \/ ClientRequest(c) \/ ClientClose(c)
         \/ \E s \in Servers : Worker(s)
  PROVE  Orderly(mgr, mgr')
<1>0. mgr \in Memory
  BY DEF TypeOK
<1>1. Routine(mgr, mgr)
  BY DEF Routine, SamePool
<1>2. ASSUME NEW c \in Connections, NewConnection(c) PROVE Orderly(mgr, mgr')
  <2>1. mgr' = [mgr EXCEPT !.conn = [mgr.conn EXCEPT ![c] = "looking"]]
    BY <1>0, <1>2 DEF NewConnection, Memory
  <2> QED
    BY <1>0, <2>1, OtherFieldsRoutine, RoutineIsOrderly
<1>3. ASSUME NEW c \in Connections, ClientRequest(c) \/ ClientClose(c)
      PROVE  UNCHANGED mgr
  BY <1>3 DEF ClientRequest, ClientClose
<1>4. ASSUME NEW s \in Servers, Worker(s) PROVE UNCHANGED mgr
  BY <1>4 DEF Worker, WorkerStarts, WorkerDies, WorkerReads, WorkerEnds, ExecNoRespCmd,
              ExecNeedRespCmd, PageCommand, WorkerStep
<1>5. UNCHANGED vars => UNCHANGED mgr
  BY DEF vars
<1>6. UNCHANGED mgr => Orderly(mgr, mgr')
  BY <1>1, RoutineIsOrderly
<1> QED
  BY <1>2, <1>3, <1>4, <1>5, <1>6

\* A manager that has ended does nothing.
LEMMA EndedIsFinal ==
  ASSUME ~Up, [Next]_vars
  PROVE  UNCHANGED mgr
BY DEF Up, vars, Next, NewConnection, RequestArrived, RequestReady, ServerEvent,
       ServerStarted, RecvServerMsg, CanRead, WakeupServer, DoPush, ProcessNeedRespCmd,
       CanWrite, Tick, Administrator, DoReload, DoRestart, DoStopCommand, DoExit, DoPause,
       DoResume, SetPref, DoPing, Command, ClientRequest, ClientClose, Worker, WorkerStarts,
       WorkerDies, WorkerReads, WorkerEnds, ExecNoRespCmd, ExecNeedRespCmd, PageCommand,
       WorkerStep

\* The idle list and the timers are in order, and who is killed is not heard of.
Ordered == Up => Timed(mgr) /\ Levelled(mgr) /\ Disarmed(mgr)

\* The pool is counted; when the manager has exited it is still bounded.
PoolCounted ==
  /\ Up => Counted(mgr)
  /\ Cardinality(Live(mgr)) <= MaxServers
  /\ \A s, t \in StartingUp(mgr) : s = t

LEMMA NextIsOrderly ==
  ASSUME TypeOK, Sessions, IdleSound, Ordered, Up, "restart" \notin Commands,
         [Next]_vars
  PROVE  \/ /\ Timed(mgr') /\ Levelled(mgr')
            /\ mgr'.process = "up" => Disarmed(mgr')
            /\ MaxServers < CountWord /\ Counted(mgr) /\ Unhurried => Counted(mgr')
         \/ mgr'.process = "exited" /\ Live(mgr') = {}
<1>0. Timed(mgr) /\ Levelled(mgr) /\ Disarmed(mgr)
  BY DEF Ordered
<1>1. SUFFICES ASSUME ~(mgr'.process = "exited" /\ Live(mgr') = {})
               PROVE  \/ Orderly(mgr, mgr')
                      \/ Tick
                      \/ \E s \in Servers : ServerStarted(s)
  <2>1. CASE Tick
    BY <1>0, <2>1, TickTimes DEF Disarmed
  <2>2. ASSUME NEW s \in Servers, ServerStarted(s)
        PROVE  /\ Timed(mgr') /\ Levelled(mgr') /\ Disarmed(mgr')
               /\ MaxServers < CountWord /\ Counted(mgr) => Counted(mgr')
    BY <1>0, <2>2, ServerStartedOrderly
  <2>3. CASE Orderly(mgr, mgr')
    BY <1>0, <2>3 DEF Orderly
  <2> QED
    BY <2>1, <2>2, <2>3
<1>2. ASSUME NEW s \in Servers, ServerEvent(s), ~ServerStarted(s)
      PROVE  Orderly(mgr, mgr')
  BY <1>2, RecvServerMsgOrderly, WakeupServerOrderly, DoPushOrderly,
     ProcessNeedRespCmdOrderly DEF ServerEvent
<1>3. ASSUME NEW c \in Connections, RequestArrived(c) PROVE Orderly(mgr, mgr')
  BY <1>3, RequestArrivedOrderly
<1>4. CASE Administrator
  BY <1>1, <1>4, AdministratorOrderly
<1> QED
  BY <1>2, <1>3, <1>4, OutsideOrderly DEF Next

LEMMA AdministratorSane ==
  ASSUME TypeOK, IdleSound, Administrator
  PROVE  Sane(mgr, mgr')
<1>0. mgr \in Memory
  BY DEF TypeOK
<1>1. CASE DoReload
  <2> DEFINE a == StopAllServers(mgr)
  <2>1. a \in Memory /\ Sane(mgr, a)
    BY <1>0, StopAllServersType, StopAllServersSane
  <2>2. mgr' = [a EXCEPT !.mode = "reloading"]
    BY <1>1 DEF DoReload
  <2> HIDE DEF a
  <2>3. SameTalk(a, mgr')
    BY <2>1, <2>2 DEF SameTalk, Memory
  <2> QED
    BY <2>1, <2>3, SameTalkSane, SaneIsTransitive
<1>2. CASE DoRestart \/ DoExit
  <2> DEFINE a == KillServers(mgr, Live(mgr))
  <2>1. a \in Memory /\ Sane(mgr, a)
    BY <1>0, AllKilled, KillServersSane
  <2>2. mgr' \in {[a EXCEPT !.mode = "reloading"], [a EXCEPT !.process = "exited"]}
    BY <1>2 DEF DoRestart, DoExit
  <2> HIDE DEF a
  <2>3. Sane(a, mgr')
    BY <2>1, <2>2 DEF Sane, Silent, Memory
  <2> QED
    BY <2>1, <2>3, SaneIsTransitive
<1>3. CASE DoPause \/ DoPing
  <2>1. SameTalk(mgr, mgr')
    BY <1>0, <1>3 DEF DoPause, DoPing, SameTalk, Memory
  <2> QED
    BY <2>1, SameTalkSane
<1>4. CASE SetPref
  <2> DEFINE a == AppendMessage(mgr, "pref", Servers)
  <2>1. PICK n : mgr' = [a EXCEPT !.prefs = n]
    BY <1>4 DEF SetPref
  <2>2. a \in Memory /\ Sane(mgr, a)
    BY <1>0, AppendMessageType, AppendMessageSane DEF Kinds
  <2> HIDE DEF a
  <2>3. SameTalk(a, mgr')
    BY <2>1, <2>2 DEF SameTalk, Memory
  <2> QED
    BY <2>2, <2>3, SameTalkSane, SaneIsTransitive
<1>5. CASE DoResume
  BY <1>5, DoResumeRoutine
<1>6. CASE DoStopCommand
  BY <1>0, <1>6, StopAllServersSane DEF DoStopCommand
<1> QED
  BY <1>1, <1>2, <1>3, <1>4, <1>5, <1>6 DEF Administrator

LEMMA InitIsOrderly ==
  ASSUME Init, MinServers > 0 => Servers # {}
  PROVE  Ordered /\ PoolCounted
<1> DEFINE m == InitMemory
           n == CreateNewProcess(m)
<1>1. m \in Memory
  BY InitMemoryType
<1>2. /\ Live(m) = {} /\ Dying(m) = {} /\ Free(m) = Servers
      /\ Reported(m) = {} /\ StartingUp(m) = {}
  BY DEF InitMemory, Each, Live, Dying, Free, Reported, StartingUp
<1>3. /\ m.serverCount = 0 /\ ~m.pending /\ m.delay = 0 /\ m.idle = {} /\ m.minIdle = 0
      /\ \A s \in Servers : ~m.started[s] /\ m.ttl[s] = -1
  BY DEF InitMemory, Each
<1> HIDE DEF m
<1>4. Cardinality({}) = 0
  BY FS_EmptySet
<1>5. Counted(m) /\ Timed(m) /\ Levelled(m) /\ Fresh(m) /\ Disarmed(m)
  <2>1. Counted(m)
    BY <1>2, <1>3, <1>4, PoolAssumption DEF Counted
  <2>2. Timed(m) /\ Levelled(m) /\ Fresh(m) /\ Disarmed(m)
    BY <1>2, <1>3, <1>4 DEF Timed, Timers, Levelled, Fresh, Disarmed
  <2> QED
    BY <2>1, <2>2
<1>6. /\ Counted(mgr) /\ Timed(mgr) /\ Levelled(mgr) /\ Disarmed(mgr)
  <2>1. CASE MinServers > 0
    <3>1. RoomToFork(m) /\ mgr = n
      BY <1>2, <2>1 DEF RoomToFork, Init, m
    <3>2. /\ Counted(n) /\ Timed(n) /\ Levelled(n)
          /\ \A s \in Servers : n.phase[s] = m.phase[s] \/ n.phase[s] = "live"
      BY <1>1, <1>5, <3>1, CreateNewProcessCounted
    <3> HIDE DEF n
    <3>3. Disarmed(n)
      BY <1>2, <3>2 DEF Disarmed, Dying
    <3> QED
      BY <3>1, <3>2, <3>3
  <2>2. CASE ~(MinServers > 0)
    BY <1>5, <2>2 DEF Init, m
  <2> QED
    BY <2>1, <2>2
<1> QED
  BY <1>6 DEF Ordered, PoolCounted, Counted

LEMMA InitOrdered ==
  ASSUME Init
  PROVE  Ordered
<1>1. CASE Servers # {}
  BY <1>1, InitIsOrderly
<1>2. CASE Servers = {}
  <2>1. mgr \in Memory
    BY InitType DEF TypeOK
  <2>2. mgr.idle = {} /\ mgr.minIdle = 0
    BY InitMemoryType DEF Init, InitMemory, CreateNewProcess, Memory
  <2>3. mgr.minIdle <= Cardinality(mgr.idle)
    BY <2>2, FS_EmptySet
  <2> QED
    BY <1>2, <2>3
       DEF Ordered, Timed, Timers, Levelled, Disarmed, Live, Free, Dying
<1> QED
  BY <1>1, <1>2

LEMMA NextOrdered ==
  ASSUME TypeOK, Sessions, IdleSound, Ordered, "restart" \notin Commands, [Next]_vars
  PROVE  Ordered'
<1>1. CASE Up
  BY <1>1, NextIsOrderly DEF Ordered, Up
<1>2. CASE ~Up
  BY <1>2, EndedIsFinal DEF Ordered, Up
<1> QED
  BY <1>1, <1>2

LEMMA CountedBounds ==
  ASSUME NEW m, Counted(m) \/ Live(m) = {}
  PROVE  Cardinality(Live(m)) <= MaxServers /\ \A s, t \in StartingUp(m) : s = t
<1>1. CASE Counted(m)
  BY <1>1 DEF Counted
<1>2. CASE Live(m) = {}
  BY <1>2, FS_EmptySet, PoolAssumption DEF StartingUp
<1> QED
  BY <1>1, <1>2

LEMMA NextCounted ==
  ASSUME TypeOK, Sessions, IdleSound, Ordered, PoolCounted, Unhurried,
         "restart" \notin Commands, MaxServers < CountWord, [Next]_vars
  PROVE  PoolCounted'
<1>1. CASE Up
  <2>4. Counted(mgr)
    BY <1>1 DEF PoolCounted
  <2>1. \/ Counted(mgr')
        \/ mgr'.process = "exited" /\ Live(mgr') = {}
    <3>1. \/ MaxServers < CountWord /\ Counted(mgr) /\ Unhurried => Counted(mgr')
          \/ mgr'.process = "exited" /\ Live(mgr') = {}
      BY <1>1, NextIsOrderly
    <3> QED
      BY <2>4, <3>1
  <2>2. /\ Cardinality(Live(mgr')) <= MaxServers
        /\ \A s, t \in StartingUp(mgr') : s = t
    BY <2>1, CountedBounds
  <2>3. mgr'.process = "up" => Counted(mgr')
    BY <2>1
  <2> QED
    BY <2>2, <2>3 DEF PoolCounted, Up
<1>2. CASE ~Up
  BY <1>2, EndedIsFinal DEF PoolCounted, Up
<1> QED
  BY <1>1, <1>2

LEMMA PoolIsCounted ==
  ASSUME "restart" \notin Commands, MaxServers < CountWord,
         MinServers > 0 => Servers # {}
  PROVE  Spec /\ []Unhurried => [](Ordered /\ PoolCounted)
<1>1. Init => Ordered /\ PoolCounted
  BY InitIsOrderly
<1>2. ASSUME TypeOK, Sessions, IdleSound, Ordered /\ PoolCounted, Unhurried, [Next]_vars
      PROVE  (Ordered /\ PoolCounted)'
  BY <1>2, NextOrdered, NextCounted
<1> QED
  BY <1>1, <1>2, TypeCorrect, SessionsAgree, IdleServersAreReady, PTL DEF Spec

LEMMA PoolIsOrdered ==
  ASSUME "restart" \notin Commands
  PROVE  Spec => []Ordered
<1>1. Init => Ordered
  BY InitOrdered
<1>2. ASSUME TypeOK, Sessions, IdleSound, Ordered, [Next]_vars
      PROVE  Ordered'
  BY <1>2, NextOrdered
<1> QED
  BY <1>1, <1>2, TypeCorrect, SessionsAgree, IdleServersAreReady, PTL DEF Spec

\* g_serverCount is the number of workers that have reported in, and
\* g_minIdleCount never exceeds the idle list, for every pool size and setting:
\* no failed start, kill or deferred deletion loses or repeats one.  The two
\* ways out of it that the runs show are excluded: SlaughterAllServers (restart),
\* and a time to live for a worker that has not reported in.  Counts fit a word,
\* and a manager that wants workers has a slot for one.
THEOREM CountIsExact ==
  ASSUME "restart" \notin Commands, MaxServers < CountWord,
         MinServers > 0 => Servers # {}
  PROVE  Spec /\ []Unhurried => []CountExact
<1>1. Ordered /\ PoolCounted => CountExact
  BY DEF Ordered, PoolCounted, Counted, Reported, Levelled, CountExact
<1> QED
  BY <1>1, PoolIsCounted, PTL

\* g_processCreationPending admits one worker at a time and is lifted when that
\* one reports in or its delay is over, so that the manager never has more
\* workers than maxprocesses, under the same assumptions.
THEOREM PoolStaysBounded ==
  ASSUME "restart" \notin Commands, MaxServers < CountWord,
         MinServers > 0 => Servers # {}
  PROVE  Spec /\ []Unhurried => []PoolBounded
<1>1. ASSUME TypeOK, PoolCounted PROVE PoolBounded
  <2> DEFINE starting == {s \in Live(mgr) : ~mgr.started[s]}
  <2>1. Cardinality(starting) <= 1
    <3>1. \A s, t \in starting : s = t
      BY <1>1 DEF PoolCounted, StartingUp
    <3>2. CASE starting = {}
      BY <3>2, FS_EmptySet
    <3>3. ASSUME NEW s \in starting PROVE Cardinality(starting) <= 1
      <4>1. starting = {s}
        BY <3>1, <3>3
      <4> QED
        BY <4>1, FS_Singleton
    <3> QED
      BY <3>2, <3>3
  <2>2. Up => (mgr.pending <=> starting # {} \/ mgr.delay > 0)
    BY <1>1, Zenon DEF PoolCounted, Counted, StartingUp
  <2>3. Cardinality(Live(mgr)) <= MaxServers
    BY <1>1 DEF PoolCounted
  <2> QED
    BY <2>1, <2>2, <2>3, Zenon DEF PoolBounded
<1> QED
  BY <1>1, PoolIsCounted, TypeCorrect, PTL DEF Spec

LEMMA CallbackOfSession ==
  ASSUME TypeOK, Sessions, Ordered, Up, NEW s \in Servers
  PROVE  ArmedCallback(s)
<1>0. mgr.lastSent[s] \in Kinds \cup {"null", "none"}
  BY DEF TypeOK, Memory
<1>1. Session(mgr, s, proc[s], inbox[s], outbox[s])
  BY DEF Sessions
<1>2. mgr.phase[s] = "dying" => ~mgr.armed[s]
  BY DEF Ordered, Disarmed, Dying
<1> QED
  BY <1>0, <1>1, <1>2
     DEF ArmedCallback, Session, Unused, Starting, Failed, Reporting, Idling, Heard,
         Pushing, Waking, Serving, Answering, Leaving

\* A callback with its argument does not crash the manager, and nothing else does.
LEMMA NextIsSane ==
  ASSUME TypeOK, IdleSound, [Next]_vars
  PROVE  \/ Sane(mgr, mgr')
         \/ /\ Up /\ \E s \in Servers : ~ArmedCallback(s)
            /\ Silent(mgr) => Silent(mgr')
<1>0. mgr \in Memory
  BY DEF TypeOK
<1>1. ASSUME SameTalk(mgr, mgr') PROVE Sane(mgr, mgr')
  BY <1>1, SameTalkSane
<1>2. ASSUME NEW c \in Connections, RequestArrived(c) PROVE Sane(mgr, mgr')
  <2>1. \/ mgr' = [mgr EXCEPT !.conn[c] = "none"]
        \/ \E s \in Servers : mgr' = StartNewRequest(mgr, c, s)
    BY <1>2 DEF RequestArrived
  <2>2. CASE mgr' = [mgr EXCEPT !.conn[c] = "none"]
    BY <1>0, <1>1, <2>2 DEF Memory, SameTalk
  <2>3. ASSUME NEW s \in Servers, mgr' = StartNewRequest(mgr, c, s)
        PROVE  Sane(mgr, mgr')
    BY <1>0, <2>3, StartNewRequestSane
  <2> QED
    BY <2>1, <2>2, <2>3
<1>3. ASSUME NEW s \in Servers, ServerEvent(s)
      PROVE  \/ Sane(mgr, mgr')
             \/ /\ Up /\ ~ArmedCallback(s)
                /\ Silent(mgr) => Silent(mgr')
  <2>1. CASE ServerStarted(s) \/ RecvServerMsg(s)
    BY <1>0, <2>1, ReadSane
  <2>2. CASE WakeupServer(s) \/ DoPush(s) \/ ProcessNeedRespCmd(s)
    <3>1. Up /\ mgr.armed[s]
      BY <2>2 DEF WakeupServer, DoPush, ProcessNeedRespCmd, CanWrite, Up
    <3> QED
      BY <1>0, <2>2, <3>1, WriteSane
  <2> QED
    BY <1>3, <2>1, <2>2 DEF ServerEvent
<1>4. Tick => Sane(mgr, mgr')
  BY <1>0, TickedSane DEF Tick
<1>5. Administrator => Sane(mgr, mgr')
  BY AdministratorSane
<1>6. ASSUME NEW c \in Connections, NewConnection(c) PROVE Sane(mgr, mgr')
  BY <1>0, <1>1, <1>6 DEF NewConnection, Memory, SameTalk
<1>7. ASSUME NEW c \in Connections, ClientRequest(c) \/ ClientClose(c)
      PROVE  UNCHANGED mgr
  BY <1>7 DEF ClientRequest, ClientClose
<1>8. ASSUME NEW s \in Servers, Worker(s) PROVE UNCHANGED mgr
  BY <1>8 DEF Worker, WorkerStarts, WorkerDies, WorkerReads, WorkerEnds, ExecNoRespCmd,
              ExecNeedRespCmd, PageCommand, WorkerStep
<1>9. UNCHANGED vars => UNCHANGED mgr
  BY DEF vars
<1>10. UNCHANGED mgr => Sane(mgr, mgr')
  BY <1>1 DEF SameTalk
<1> QED
  BY <1>2, <1>3, <1>4, <1>5, <1>6, <1>7, <1>8, <1>9, <1>10 DEF Next

\* A callback with its argument does not crash the manager, and nothing else does.
LEMMA NextDoesNotCrash ==
  ASSUME TypeOK, Sessions, IdleSound, Ordered, mgr.process # "crashed", [Next]_vars
  PROVE  mgr'.process # "crashed"
<1>1. Up => \A s \in Servers : ArmedCallback(s)
  BY CallbackOfSession
<1>2. Sane(mgr, mgr')
  BY <1>1, NextIsSane
<1> QED
  BY <1>2 DEF Sane

\* Every registered write callback finds what it dereferences, and the manager
\* never crashes: unless restart is used, which kills workers with their events
\* still registered (run JaxerManagerRestart).
THEOREM CallbacksStayArmed ==
  ASSUME "restart" \notin Commands
  PROVE  Spec => []CallbacksArmed
<1>1. Init => mgr.process # "crashed"
  BY InitType, PoolAssumption DEF Init, InitMemory, CreateNewProcess
<1>2. ASSUME TypeOK, Sessions, IdleSound, Ordered, mgr.process # "crashed", [Next]_vars
      PROVE  (mgr.process # "crashed")'
  BY <1>2, NextDoesNotCrash
<1>3. ASSUME TypeOK, Sessions, Ordered, mgr.process # "crashed" PROVE CallbacksArmed
  BY <1>3, CallbackOfSession DEF CallbacksArmed, ArmedCallback
<1> QED
  BY <1>1, <1>2, <1>3, TypeCorrect, SessionsAgree, IdleServersAreReady, PoolIsOrdered,
     PTL DEF Spec

\* The purge of idle workers leaves minprocesses of them, under the assumptions
\* of CountIsExact and when no worker idles out before one that was told to exit
\* is gone (the code has both at 10 seconds, decl.h:383 and decl.h:437).
THEOREM PurgeKeepsPool ==
  ASSUME "restart" \notin Commands, MaxServers < CountWord,
         MinServers > 0 => Servers # {}, SecondsToLive <= IdleBase + 1
  PROVE  Spec /\ []Unhurried => PurgeKeepsMinimum
<1>1. ASSUME TypeOK, Sessions, IdleSound, Ordered /\ PoolCounted, Unhurried
      PROVE  (\E s \in mgr.idle : mgr'.ttl[s] = SecondsToLive)
                /\ mgr'.mode # "stopping" /\ Tick
             => Cardinality(Staying(mgr')) >= MinServers
  <2>1. SUFFICES ASSUME NEW s \in mgr.idle, mgr'.ttl[s] = SecondsToLive,
                        mgr'.mode # "stopping", Tick
                 PROVE  Cardinality(Staying(mgr')) >= MinServers
    OBVIOUS
  <2>2. Up
    BY <2>1 DEF Tick, Up
  <2>3. Timed(mgr) /\ Levelled(mgr) /\ Counted(mgr)
    BY <1>1, <2>2 DEF Ordered, PoolCounted
  <2> QED
    BY <1>1, <2>1, <2>3, TickKeepsMinimum
<1> QED
  BY <1>1, PoolIsCounted, TypeCorrect, SessionsAgree, IdleServersAreReady, PTL
     DEF Spec, PurgeKeepsMinimum

\* ToldBeforeWork, of one server.
Told(s) ==
  mgr.bound[s] # mgr'.bound[s] /\ mgr'.bound[s] # NoConnection =>
    /\ mgr'.queue[s] \in {<<>>, <<"exit">>}
    /\ mgr'.queue[s] = <<"exit">> => mgr'.nreq[s] = MaxRequests
    /\ mgr.onSend[s] = "DoPush" => Len(inbox'[s]) = Len(inbox[s]) + 1
    /\ Len(mgr.queue[s]) = 0

LEMMA EmploysTold ==
  ASSUME NEW S, Employs(mgr, mgr', S),
         \A s \in S : mgr.onSend[s] = "DoPush" => Len(inbox'[s]) = Len(inbox[s]) + 1
  PROVE  \A s \in Servers : Told(s)
<1>1. Len(<<>>) = 0
  OBVIOUS
<1> QED
  BY <1>1 DEF Employs, Told

LEMMA UnmovedTold ==
  ASSUME Unmoved(mgr, mgr') \/ Relieves(mgr, mgr')
  PROVE  \A s \in Servers : Told(s)
BY DEF Unmoved, Relieves, Told

LEMMA RequestArrivedTold ==
  ASSUME TypeOK, IdleSound, NEW c \in Connections, RequestArrived(c)
  PROVE  \A s \in Servers : Told(s)
<1>0. mgr \in Memory
  BY DEF TypeOK
<1>1. \/ mgr' = [mgr EXCEPT !.conn[c] = "none"]
      \/ \E s \in Servers : (mgr.idle # {} => HeadOfIdle(mgr, s))
                            /\ mgr' = StartNewRequest(mgr, c, s)
  BY DEF RequestArrived
<1>2. CASE mgr' = [mgr EXCEPT !.conn[c] = "none"]
  BY <1>0, <1>2, UnmovedTold DEF Relieves, Memory
<1>3. ASSUME NEW s \in Servers, mgr.idle # {} => HeadOfIdle(mgr, s),
             mgr' = StartNewRequest(mgr, c, s)
      PROVE  \A t \in Servers : Told(t)
  <2>1. mgr.idle # {} => s \in mgr.idle
    BY <1>3 DEF HeadOfIdle
  <2>2. \A t \in mgr.idle : mgr.queue[t] = <<>> /\ mgr.onSend[t] = "none"
    BY DEF IdleSound
  <2>3. Employs(mgr, mgr', mgr.idle)
    BY <1>0, <1>3, <2>1, <2>2, StartNewRequestEmploys
  <2> QED
    BY <2>2, <2>3, EmploysTold
<1> QED
  BY <1>1, <1>2, <1>3

LEMMA ServerStartedTold ==
  ASSUME TypeOK, Sessions, Silent(mgr), NEW s \in Servers, ServerStarted(s)
  PROVE  \A t \in Servers : Told(t)
<1> DEFINE count == (mgr.serverCount + 1) % CountWord
           up == [mgr EXCEPT !.serverCount = count, !.started[s] = TRUE,
                             !.pending = FALSE]
           b == BringUpToDate(up, s)
           f == [mgr EXCEPT !.serverCount = count, !.delay = StartDelay]
<1>0. mgr \in Memory
  BY DEF TypeOK
<1>1. mgr' \in {RedeployServer(b, s), FailServer(f, s)}
  BY <1>0 DEF ServerStarted, StartSucceeded, StartFailed, Memory
<1>2. count \in 0..CountWord-1 /\ StartDelay \in 0..StartDelay
  <2>1. mgr.serverCount + 1 \in Int
    BY <1>0, BoundAssumption DEF Memory
  <2> QED
    BY <2>1, WordType, TimerAssumption
<1> HIDE DEF count
<1>3. /\ up \in Memory /\ Unmoved(mgr, up) /\ SameTalk(mgr, up)
      /\ f \in Memory /\ Unmoved(mgr, f)
  <2>1. up \in Memory /\ f \in Memory
    BY <1>0, <1>2 DEF Memory
  <2> QED
    BY <1>0, <2>1 DEF Unmoved, SameTalk, Memory
<1>4. Starting(mgr, s)
  BY SessionAtRead DEF ServerStarted, Sessions
<1>5. mgr.queue[s] = <<>> /\ mgr.onSend[s] = "none"
  BY <1>4 DEF Starting, Silent
<1> HIDE DEF up, f
<1>6. CASE mgr' = FailServer(f, s)
  BY <1>3, <1>6, FailServerUnmoved, UnmovedIsTransitive, UnmovedTold
<1>7. CASE mgr' = RedeployServer(b, s)
  <2>1. b \in Memory /\ Unmoved(mgr, b)
    BY <1>3, BringUpToDateType, BringUpToDateUnmoved, UnmovedIsTransitive
  <2>2. Silent(b)
    BY <1>3, BringUpToDateSane, SameTalkSane DEF Sane
  <2> HIDE DEF b
  <2>3. Employs(b, mgr', {s})
    BY <1>7, <2>1, <2>2, RedeployServerEmploys
  <2>4. Employs(mgr, mgr', {s})
    BY <1>5, <2>1, <2>3 DEF Employs, Unmoved
  <2> QED
    BY <1>5, <2>4, EmploysTold
<1> QED
  BY <1>1, <1>6, <1>7

LEMMA RecvServerMsgTold ==
  ASSUME TypeOK, Sessions, Silent(mgr), NEW s \in Servers, RecvServerMsg(s)
  PROVE  \A t \in Servers : Told(t)
<1>0. mgr \in Memory
  BY DEF TypeOK
<1>1. \/ outbox[s] # <<>> /\ mgr' = RedeployServer(mgr, s)
      \/ mgr' \in {[mgr EXCEPT !.extra[s] = ExtraTimeout],
                   [mgr EXCEPT !.onSend[s] = "ProcessNeedRespCmd"], FailServer(mgr, s)}
  BY Zenon DEF RecvServerMsg
<1>2. CASE outbox[s] # <<>> /\ mgr' = RedeployServer(mgr, s)
  <2>1. Serving(mgr, s)
    BY <1>2, SessionAtRead DEF RecvServerMsg, Sessions
  <2>2. Employs(mgr, mgr', {s})
    BY <1>0, <1>2, RedeployServerEmploys
  <2> QED
    BY <2>1, <2>2, EmploysTold DEF Serving
<1>3. CASE mgr' \in {[mgr EXCEPT !.extra[s] = ExtraTimeout],
                     [mgr EXCEPT !.onSend[s] = "ProcessNeedRespCmd"], FailServer(mgr, s)}
  <2>1. /\ Unmoved(mgr, [mgr EXCEPT !.extra[s] = ExtraTimeout])
        /\ Unmoved(mgr, [mgr EXCEPT !.onSend[s] = "ProcessNeedRespCmd"])
        /\ Unmoved(mgr, FailServer(mgr, s))
    BY <1>0, ServerFieldsUnmoved, FailServerUnmoved
  <2>2. Unmoved(mgr, mgr')
    BY <1>3, <2>1
  <2> QED
    BY <2>2, UnmovedTold
<1> QED
  BY <1>1, <1>2, <1>3

LEMMA DoPushTold ==
  ASSUME TypeOK, Silent(mgr), NEW s \in Servers, DoPush(s)
  PROVE  \A t \in Servers : Told(t)
<1> DEFINE e == mgr.exiting[s] \/ mgr.lastSent[s] = "exit"
           m == [mgr EXCEPT !.exiting[s] = e]
           done == [m EXCEPT !.onSend[s] = "none"]
<1>0. mgr \in Memory /\ inbox \in [Servers -> Seq(Received)]
  BY DEF TypeOK
<1>1. m = [mgr EXCEPT !.exiting[s] = @ \/ mgr.lastSent[s] = "exit"]
  BY <1>0 DEF Memory
<1>2. \/ mgr' = [mgr EXCEPT !.process = "crashed"]
      \/ mgr' = FailServer(m, s)
      \/ /\ mgr' = AfterPush(m, s)
         /\ inbox' = [inbox EXCEPT ![s] = Append(@, mgr.lastSent[s])]
  BY <1>1 DEF DoPush, SendOr
<1>3. e \in BOOLEAN
  OBVIOUS
<1> HIDE DEF e
<1>4. m \in Memory /\ Unmoved(mgr, m) /\ Relieves(mgr, m) /\ SameTalk(mgr, m)
  <2>1. m \in Memory
    BY <1>0, <1>3 DEF Memory
  <2> QED
    BY <1>0, <2>1 DEF Unmoved, Relieves, SameTalk, Memory
<1> HIDE DEF m
<1>5. /\ done \in Memory /\ Unmoved(m, done) /\ Relieves(m, done)
      /\ done.queue = m.queue
  <2>1. done \in Memory
    BY <1>4 DEF Memory, Callbacks
  <2> QED
    BY <1>4, <2>1 DEF Unmoved, Relieves, Memory
<1>6. \/ mgr' \in {done, TakeNext(m, s)}
      \/ ~HasNext(m, s) /\ mgr' = GiveWork(done, s)
      \/ mgr' # AfterPush(m, s)
  BY DEF AfterPush
<1> HIDE DEF done
<1>7. CASE mgr' = [mgr EXCEPT !.process = "crashed"] \/ mgr' = FailServer(m, s)
  <2>1. Unmoved(mgr, [mgr EXCEPT !.process = "crashed"]) /\ Unmoved(mgr, FailServer(m, s))
    BY <1>0, <1>4, OtherFieldsUnmoved, FailServerUnmoved, UnmovedIsTransitive
  <2>2. Unmoved(mgr, mgr')
    BY <1>7, <2>1
  <2> QED
    BY <2>2, UnmovedTold
<1>8. CASE mgr' \in {done, TakeNext(m, s)}
  BY <1>4, <1>5, <1>8, TakeNextUnmoved, UnmovedIsTransitive, UnmovedTold
<1>9. CASE /\ ~HasNext(m, s) /\ mgr' = GiveWork(done, s)
           /\ inbox' = [inbox EXCEPT ![s] = Append(@, mgr.lastSent[s])]
  <2>1. done.queue[s] = <<>>
    BY <1>4, <1>5, <1>9 DEF HasNext, Silent, SameTalk
  <2>2. Employs(mgr, mgr', {s})
    BY <1>4, <1>5, <1>9, <2>1, GiveWorkEmploys, RelievesThenEmploys
  <2>3. inbox'[s] = Append(inbox[s], mgr.lastSent[s])
    BY <1>0, <1>9
  <2>4. inbox[s] \in Seq(Received)
    BY <1>0
  <2>5. Len(inbox'[s]) = Len(inbox[s]) + 1
    BY <2>3, <2>4
  <2> QED
    BY <2>2, <2>5, EmploysTold
<1> QED
  BY <1>2, <1>6, <1>7, <1>8, <1>9

LEMMA WritesTold ==
  ASSUME TypeOK, NEW s \in Servers, WakeupServer(s) \/ ProcessNeedRespCmd(s)
  PROVE  \A t \in Servers : Told(t)
<1> DEFINE m == [mgr EXCEPT !.onSend[s] = "none"]
<1>0. mgr \in Memory
  BY DEF TypeOK
<1>1. mgr' \in {[mgr EXCEPT !.process = "crashed"], m, FailServer(m, s),
                FailServer(mgr, s)}
  BY DEF WakeupServer, ProcessNeedRespCmd, SendOr
<1>2. m \in Memory /\ Unmoved(mgr, m)
  BY <1>0, ServerFieldsUnmoved DEF Memory, Callbacks
<1> HIDE DEF m
<1>3. /\ Unmoved(mgr, [mgr EXCEPT !.process = "crashed"])
      /\ Unmoved(mgr, FailServer(m, s)) /\ Unmoved(mgr, FailServer(mgr, s))
  BY <1>0, <1>2, OtherFieldsUnmoved, FailServerUnmoved, UnmovedIsTransitive
<1>4. Unmoved(mgr, mgr')
  BY <1>1, <1>2, <1>3
<1> QED
  BY <1>4, UnmovedTold

LEMMA TickTold ==
  ASSUME TypeOK, Tick
  PROVE  \A t \in Servers : Told(t)
<1>0. mgr \in Memory
  BY DEF TypeOK
<1>1. PICK head \in Servers : mgr' = Ticked(head)
  BY DEF Tick
<1> DEFINE c == Checked(head)
           d == DeleteServers(c)
<1>2. c \in Memory /\ Unmoved(mgr, c)
  BY <1>0, CheckedUnmoved
<1>3. mgr' \in {c, d, CreateNewProcess(d)}
  BY <1>1 DEF Ticked, CleanUp
<1> HIDE DEF c
<1>4. d.bound = [t \in Servers |-> IF t \in Dying(c) THEN NoConnection ELSE c.bound[t]]
  BY <1>2 DEF DeleteServers, LastServerStopped, Memory
<1>5. d \in Memory
  BY <1>2, DeleteServersType
<1> HIDE DEF d
<1>6. CreateNewProcess(d).bound = d.bound
  BY <1>5, CreateNewProcessUnmoved DEF Unmoved
<1>7. \A t \in Servers : mgr'.bound[t] \in {mgr.bound[t], NoConnection}
  BY <1>2, <1>3, <1>4, <1>6 DEF Unmoved
<1> QED
  BY <1>7 DEF Told

LEMMA AdministratorTold ==
  ASSUME TypeOK, IdleSound, Administrator
  PROVE  \A t \in Servers : Told(t)
<1>0. mgr \in Memory /\ Live(mgr) \in SUBSET Servers
  BY DEF TypeOK, Live
<1>1. CASE DoReload
  <2>1. Unmoved(mgr, [StopAllServers(mgr) EXCEPT !.mode = "reloading"])
    BY <1>0, StopAllServersType, StopAllServersUnmoved, OtherFieldsUnmoved,
       UnmovedIsTransitive
  <2> QED
    BY <1>1, <2>1, UnmovedTold DEF DoReload
<1>2. CASE DoRestart \/ DoExit
  <2> DEFINE k == KillServers(mgr, Live(mgr))
  <2>1. k \in Memory /\ Unmoved(mgr, k)
    BY <1>0, KillServersType, KillServersUnmoved
  <2>2. mgr' \in {[k EXCEPT !.mode = "reloading"], [k EXCEPT !.process = "exited"]}
    BY <1>2 DEF DoRestart, DoExit
  <2> HIDE DEF k
  <2> QED
    <3>1. /\ Unmoved(mgr, [k EXCEPT !.mode = "reloading"])
          /\ Unmoved(mgr, [k EXCEPT !.process = "exited"])
      BY <2>1, OtherFieldsUnmoved, UnmovedIsTransitive
    <3>2. Unmoved(mgr, mgr')
      BY <2>2, <3>1
    <3> QED
      BY <3>2, UnmovedTold
<1>3. CASE DoStopCommand \/ DoPause \/ DoPing
  BY <1>0, <1>3, DoStopUnmoved, OtherFieldsUnmoved, UnmovedTold
     DEF DoStopCommand, DoPause, DoPing
<1>4. CASE DoResume
  <2>1. \A t \in mgr.idle : mgr.onSend[t] = "none"
    BY DEF IdleSound
  <2> QED
    BY <1>4, <2>1, DoResumeRoutine, EmploysTold
<1>5. CASE SetPref
  <2> DEFINE a == AppendMessage(mgr, "pref", Servers)
  <2>1. PICK n : mgr' = [a EXCEPT !.prefs = n]
    BY <1>5 DEF SetPref
  <2>2. a \in Memory /\ Unmoved(mgr, a)
    BY <1>0, AppendMessageType, AppendMessageUnmoved DEF Kinds
  <2> HIDE DEF a
  <2> QED
    BY <2>1, <2>2, OtherFieldsUnmoved, UnmovedIsTransitive, UnmovedTold
<1> QED
  BY <1>1, <1>2, <1>3, <1>4, <1>5 DEF Administrator

LEMMA NextTold ==
  ASSUME TypeOK, Sessions, IdleSound, Silent(mgr), [Next]_vars
  PROVE  \A t \in Servers : Told(t)
<1>0. mgr \in Memory
  BY DEF TypeOK
<1>1. ASSUME NEW s \in Servers, ServerEvent(s) PROVE \A t \in Servers : Told(t)
  BY <1>1, ServerStartedTold, RecvServerMsgTold, DoPushTold, WritesTold DEF ServerEvent
<1>2. ASSUME NEW c \in Connections, NewConnection(c) PROVE Relieves(mgr, mgr')
  BY <1>0, <1>2 DEF NewConnection, Relieves, Memory
<1>3. ASSUME NEW c \in Connections, ClientRequest(c) \/ ClientClose(c)
      PROVE  UNCHANGED mgr
  BY <1>3 DEF ClientRequest, ClientClose
<1>4. ASSUME NEW s \in Servers, Worker(s) PROVE UNCHANGED mgr
  BY <1>4 DEF Worker, WorkerStarts, WorkerDies, WorkerReads, WorkerEnds, ExecNoRespCmd,
              ExecNeedRespCmd, PageCommand, WorkerStep
<1>5. UNCHANGED vars => UNCHANGED mgr
  BY DEF vars
<1>6. ASSUME UNCHANGED mgr PROVE Unmoved(mgr, mgr')
  BY <1>6 DEF Unmoved
<1> QED
  BY <1>1, <1>2, <1>3, <1>4, <1>5, <1>6, UnmovedTold, RequestArrivedTold, TickTold,
     AdministratorTold DEF Next

\* A server that is sent no messages (Message::CancelTarget) has none waiting.
LEMMA CancelledIsSilent == Spec => []Silent(mgr)
<1>1. Init => Silent(mgr)
  BY InitMemoryType DEF Init, InitMemory, CreateNewProcess, Each, Memory, Silent
<1>2. ASSUME TypeOK, IdleSound, Silent(mgr), [Next]_vars PROVE Silent(mgr)'
  BY <1>2, NextIsSane DEF Sane, Silent
<1> QED
  BY <1>1, <1>2, TypeCorrect, IdleServersAreReady, PTL DEF Spec

\* A worker is given a connection only when every message for it has been sent,
\* whichever of RequestArrived, ServerStarted, RecvServerMsg, DoPush and DoResume
\* gives it: the only message that may wait is the exit of its last request.
THEOREM MessagesBeforeWork == Spec => ToldBeforeWork
<1>1. ASSUME TypeOK, Sessions, IdleSound, Silent(mgr), [Next]_vars
      PROVE  \A s \in Servers : Told(s)
  BY <1>1, NextTold
<1>2. (\A s \in Servers : Told(s)) =>
        \A s \in Servers :
          mgr.bound[s] # mgr'.bound[s] /\ mgr'.bound[s] # NoConnection =>
            /\ mgr'.queue[s] \in {<<>>, <<"exit">>}
            /\ mgr'.queue[s] = <<"exit">> => mgr'.nreq[s] = MaxRequests
            /\ mgr.onSend[s] = "DoPush" => Len(inbox'[s]) = Len(inbox[s]) + 1
            /\ Len(mgr.queue[s]) = 0
  BY DEF Told
<1> QED
  BY <1>1, <1>2, TypeCorrect, SessionsAgree, IdleServersAreReady, CancelledIsSilent, PTL
     DEF Spec, ToldBeforeWork

=============================================================================
