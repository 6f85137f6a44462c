------------------------ MODULE JaxerManagerPlacement ------------------------
(***************************************************************************)
(* Where the connections are, for every pool size, setting and bound:      *)
(* ConnectionPlacement is an invariant, the manager implements             *)
(* RequestBroker, and unless paused no request waits beside an idle worker.*)
(*                                                                         *)
(* The first two follow from one case analysis.  A move is what a step may *)
(* do to the three places a connection can be in; each operator's lemma    *)
(* says which moves it makes, every move keeps connections in one place,   *)
(* and every move is a step of the broker.                                 *)
(*                                                                         *)
(* For the third, most operators make nobody idle and nobody wait: they    *)
(* are "still".  The others add to one of the two lists when the other is  *)
(* empty.  A stop of a paused manager, with both lists full, empties the   *)
(* idle list.                                                              *)
(***************************************************************************)
EXTENDS JaxerManagerSessions

-----------------------------------------------------------------------------
(* The moves.                                                              *)

\* ConnectionPlacement of a memory, but for servers that do not exist.
Listed(m, c) == \E i \in DOMAIN m.waiting : m.waiting[i] = c
Taken(m, c) == \E s \in Servers : m.bound[s] = c
Placed(m) ==
  /\ \A c \in Connections :
       /\ m.conn[c] = "waiting" <=> Listed(m, c)
       /\ m.conn[c] = "bound" <=> Taken(m, c)
  /\ \A i, j \in DOMAIN m.waiting : m.waiting[i] = m.waiting[j] => i = j
  /\ \A s, t \in Servers :
       m.bound[s] = m.bound[t] /\ m.bound[s] # NoConnection => s = t

Unmoved(m, n) == n.conn = m.conn /\ n.bound = m.bound /\ n.waiting = m.waiting

Moved(m, n, c, place) == n.conn = [m.conn EXCEPT ![c] = place]

Accepted(m, n, c) ==
  /\ m.conn[c] = "none" /\ Moved(m, n, c, "looking")
  /\ n.bound = m.bound /\ n.waiting = m.waiting

Dismissed(m, n, c) ==
  /\ m.conn[c] = "looking" /\ Moved(m, n, c, "none")
  /\ n.bound = m.bound /\ n.waiting = m.waiting

Enqueued(m, n, c) ==
  /\ m.conn[c] = "looking" /\ Moved(m, n, c, "waiting")
  /\ n.bound = m.bound /\ n.waiting = Append(m.waiting, c)

Served(m, n, c, s) ==
  /\ m.conn[c] = "looking" /\ Moved(m, n, c, "bound")
  /\ m.waiting = <<>> /\ n.waiting = m.waiting
  /\ m.bound[s] = NoConnection /\ n.bound = [m.bound EXCEPT ![s] = c]

Freed(m, n, s) ==
  /\ m.bound[s] # NoConnection /\ n.bound = [m.bound EXCEPT ![s] = NoConnection]
  /\ Moved(m, n, m.bound[s], "looking")
  /\ n.waiting = m.waiting

\* The servers of S take the first k connections, each the one of its rank.
Assigned(m, n, k, S, rank) ==
  /\ k <= Len(m.waiting)
  /\ \A s \in S : m.bound[s] = NoConnection
  /\ \A s, t \in S : rank[s] = rank[t] => s = t
  /\ \A i \in 1..k : \E s \in S : rank[s] = i
  /\ n.waiting = SubSeq(m.waiting, k + 1, Len(m.waiting))
  /\ n.bound = [s \in Servers |-> IF s \in S THEN m.waiting[rank[s]] ELSE m.bound[s]]
  /\ n.conn = [c \in Connections |->
                 IF \E s \in S : m.waiting[rank[s]] = c THEN "bound" ELSE m.conn[c]]

TakesFirst(m, n, s) == Assigned(m, n, 1, {s}, [x \in {s} |-> 1])

Lost(m, n, D) ==
  /\ n.waiting = m.waiting
  /\ n.bound = [s \in Servers |-> IF s \in D THEN NoConnection ELSE m.bound[s]]
  /\ n.conn = [c \in Connections |-> IF c \in BoundTo(m, D) THEN "none" ELSE m.conn[c]]

\* The shapes of the three places.
LEMMA PlacesType ==
  ASSUME NEW m \in Memory
  PROVE  /\ m.conn \in [Connections -> {"none", "looking", "waiting", "bound"}]
         /\ m.bound \in [Servers -> Connections \cup {NoConnection}]
         /\ m.waiting \in Seq(Connections)
BY DEF Memory

LEMMA AcceptedPlaced ==
  ASSUME NEW m \in Memory, NEW n \in Memory, NEW c \in Connections,
         Placed(m), Accepted(m, n, c) \/ Dismissed(m, n, c)
  PROVE  Placed(n)
<1>1. /\ n.bound = m.bound /\ n.waiting = m.waiting
      /\ m.conn[c] \in {"none", "looking"}
  BY DEF Accepted, Dismissed
<1>2. \A d \in Connections :
        \/ n.conn[d] = m.conn[d]
        \/ m.conn[d] \in {"none", "looking"} /\ n.conn[d] \in {"none", "looking"}
  <2> SUFFICES ASSUME NEW d \in Connections, n.conn[d] # m.conn[d]
               PROVE  d = c /\ n.conn[d] \in {"none", "looking"}
    BY <1>1
  <2> QED
    BY PlacesType DEF Accepted, Dismissed, Moved
<1> QED
  BY <1>1, <1>2 DEF Placed, Listed, Taken

LEMMA EnqueuedPlaced ==
  ASSUME NEW m \in Memory, NEW n \in Memory, NEW c \in Connections,
         Placed(m), Enqueued(m, n, c)
  PROVE  Placed(n)
<1>1. m.waiting \in Seq(Connections) /\ n.waiting = Append(m.waiting, c)
  BY PlacesType DEF Enqueued
<1>2. ~Listed(m, c) /\ ~Taken(m, c)
  BY DEF Placed, Enqueued
<1>3. \A d : Listed(n, d) <=> Listed(m, d) \/ d = c
  <2> DEFINE k == Len(m.waiting)
  <2>1. /\ k \in Nat /\ DOMAIN m.waiting = 1..k /\ DOMAIN n.waiting = 1..k+1
        /\ n.waiting[k + 1] = c /\ \A i \in 1..k : n.waiting[i] = m.waiting[i]
    BY <1>1
  <2> QED
    BY <2>1, SMTT(30) DEF Listed
<1>4. \A i, j \in DOMAIN n.waiting : n.waiting[i] = n.waiting[j] => i = j
  BY <1>1, <1>2 DEF Placed, Listed
<1>5. \A d \in Connections : n.conn[d] = IF d = c THEN "waiting" ELSE m.conn[d]
  BY PlacesType DEF Enqueued, Moved
<1>6. n.bound = m.bound
  BY DEF Enqueued
<1> QED
  BY <1>2, <1>3, <1>4, <1>5, <1>6 DEF Placed, Taken

LEMMA ServedPlaced ==
  ASSUME NEW m \in Memory, NEW n \in Memory, NEW c \in Connections, NEW s \in Servers,
         Placed(m), Served(m, n, c, s)
  PROVE  Placed(n)
<1>1. ~Listed(m, c) /\ ~Taken(m, c)
  BY DEF Placed, Served
<1>2. \A d \in Connections : n.conn[d] = IF d = c THEN "bound" ELSE m.conn[d]
  BY PlacesType DEF Served, Moved
<1>3. \A t \in Servers : n.bound[t] = IF t = s THEN c ELSE m.bound[t]
  BY PlacesType DEF Served
<1>4. n.waiting = m.waiting /\ m.bound[s] = NoConnection
  BY DEF Served
<1>5. \A d \in Connections : Taken(n, d) <=> Taken(m, d) \/ d = c
  BY <1>3, <1>4, PoolAssumption DEF Taken
<1> QED
  BY <1>1, <1>2, <1>3, <1>4, <1>5 DEF Placed, Listed, Taken

LEMMA FreedPlaced ==
  ASSUME NEW m \in Memory, NEW n \in Memory, NEW s \in Servers,
         Placed(m), Freed(m, n, s)
  PROVE  Placed(n)
<1> DEFINE c == m.bound[s]
<1>1. c \in Connections
  BY PlacesType DEF Freed
<1>2. Taken(m, c) /\ ~Listed(m, c)
  BY <1>1 DEF Placed, Taken
<1>3. \A d \in Connections : n.conn[d] = IF d = c THEN "looking" ELSE m.conn[d]
  BY <1>1, PlacesType DEF Freed, Moved
<1>4. \A t \in Servers : n.bound[t] = IF t = s THEN NoConnection ELSE m.bound[t]
  BY PlacesType DEF Freed
<1>5. n.waiting = m.waiting
  BY DEF Freed
<1>6. \A d \in Connections : Taken(n, d) <=> Taken(m, d) /\ d # c
  BY <1>1, <1>4, PoolAssumption DEF Taken, Placed
<1> QED
  BY <1>1, <1>2, <1>3, <1>4, <1>5, <1>6 DEF Placed, Listed

LEMMA LostPlaced ==
  ASSUME NEW m \in Memory, NEW n \in Memory, NEW D \in SUBSET Servers,
         Placed(m), Lost(m, n, D)
  PROVE  Placed(n)
<1>1. \A d \in Connections :
        n.conn[d] = IF \E s \in D : m.bound[s] = d THEN "none" ELSE m.conn[d]
  BY DEF Lost, BoundTo
<1>2. \A t \in Servers : n.bound[t] = IF t \in D THEN NoConnection ELSE m.bound[t]
  BY DEF Lost
<1>3. n.waiting = m.waiting
  BY DEF Lost
<1>4. \A d \in Connections : Taken(n, d) <=> \E t \in Servers \ D : m.bound[t] = d
  BY <1>2, PoolAssumption DEF Taken
<1>5. \A d \in Connections :
        (\E s \in D : m.bound[s] = d) => Taken(m, d) /\ ~Listed(m, d) /\ ~Taken(n, d)
  <2> SUFFICES ASSUME NEW d \in Connections, NEW s \in D, m.bound[s] = d
               PROVE  Taken(m, d) /\ ~Listed(m, d) /\ ~Taken(n, d)
    OBVIOUS
  <2>1. Taken(m, d) /\ ~Listed(m, d)
    BY DEF Taken, Placed
  <2>2. \A t \in Servers \ D : m.bound[t] # d
    BY PoolAssumption DEF Placed
  <2> QED
    BY <2>1, <2>2, <1>4
<1>6. \A d \in Connections :
        ~(\E s \in D : m.bound[s] = d) => (Taken(n, d) <=> Taken(m, d))
  BY <1>4 DEF Taken
<1>7. \A s, t \in Servers : n.bound[s] = n.bound[t] /\ n.bound[s] # NoConnection => s = t
  BY <1>2 DEF Placed
<1> QED
  BY <1>1, <1>3, <1>5, <1>6, <1>7 DEF Placed, Listed

LEMMA AssignedPlaced ==
  ASSUME NEW m \in Memory, NEW n \in Memory, NEW k \in Nat, NEW S \in SUBSET Servers,
         NEW rank \in [S -> 1..k], Placed(m), Assigned(m, n, k, S, rank)
  PROVE  Placed(n)
<1> DEFINE l == Len(m.waiting)
<1>1. m.waiting \in Seq(Connections) /\ l \in Nat /\ k <= l
  BY PlacesType DEF Assigned
<1>2. \A t \in Servers : n.bound[t] = IF t \in S THEN m.waiting[rank[t]] ELSE m.bound[t]
  BY DEF Assigned
<1>3. \A d \in Connections :
        n.conn[d] = IF \E s \in S : m.waiting[rank[s]] = d THEN "bound" ELSE m.conn[d]
  BY DEF Assigned
<1>4. /\ DOMAIN n.waiting = 1..l-k
      /\ \A i \in 1..l-k : n.waiting[i] = m.waiting[i + k] /\ i + k \in 1..l
  <2>1. n.waiting = SubSeq(m.waiting, k + 1, l)
    BY DEF Assigned
  <2> QED
    BY <1>1, <2>1
<1>5. \A s \in S : rank[s] \in 1..k /\ rank[s] \in DOMAIN m.waiting
  BY <1>1
<1>6. \A d : Listed(m, d) <=> Listed(n, d) \/ \E s \in S : m.waiting[rank[s]] = d
  <2>1. ASSUME NEW i \in 1..l
        PROVE  (\E j \in 1..l-k : n.waiting[j] = m.waiting[i])
                 \/ \E s \in S : m.waiting[rank[s]] = m.waiting[i]
    <3>1. CASE i > k
      <4>1. i - k \in 1..l-k /\ (i - k) + k = i
        BY <1>1, <3>1
      <4> QED
        BY <1>4, <4>1
    <3>2. CASE i <= k
      <4>1. PICK s \in S : rank[s] = i
        BY <3>2 DEF Assigned
      <4> QED
        BY <4>1
    <3> QED
      BY <3>1, <3>2, <1>1
  <2>2. DOMAIN m.waiting = 1..l
    BY <1>1
  <2> QED
    BY <1>4, <1>5, <2>1, <2>2 DEF Listed
<1>7. \A i, j \in DOMAIN n.waiting : n.waiting[i] = n.waiting[j] => i = j
  <2> SUFFICES ASSUME NEW i \in 1..l-k, NEW j \in 1..l-k, n.waiting[i] = n.waiting[j]
               PROVE  i = j
    BY <1>4
  <2>1. /\ i + k \in DOMAIN m.waiting /\ j + k \in DOMAIN m.waiting
        /\ m.waiting[i + k] = m.waiting[j + k]
    BY <1>1, <1>4
  <2>2. i + k = j + k
    BY <2>1 DEF Placed
  <2> QED
    BY <2>2, <1>1
<1>8. \A d : Listed(n, d) => ~ \E s \in S : m.waiting[rank[s]] = d
  <2> SUFFICES ASSUME NEW i \in 1..l-k, NEW s \in S, n.waiting[i] = m.waiting[rank[s]]
               PROVE  FALSE
    BY <1>4 DEF Listed
  <2>1. i + k = rank[s]
    BY <1>1, <1>4, <1>5 DEF Placed
  <2> QED
    BY <1>1, <1>5, <2>1
<1>9. \A d \in Connections :
        Taken(n, d) <=> Taken(m, d) \/ \E s \in S : m.waiting[rank[s]] = d
  BY <1>2, PoolAssumption DEF Taken, Assigned
<1>10. \A s, t \in Servers : n.bound[s] = n.bound[t] /\ n.bound[s] # NoConnection => s = t
  <2> SUFFICES ASSUME NEW s \in Servers, NEW t \in Servers,
                      n.bound[s] = n.bound[t], n.bound[s] # NoConnection
               PROVE  s = t
    OBVIOUS
  <2>1. CASE s \in S /\ t \in S
    <3>1. rank[s] = rank[t]
      BY <1>2, <1>5, <2>1 DEF Placed
    <3> QED
      BY <2>1, <3>1 DEF Assigned
  <2>2. CASE s \notin S /\ t \notin S
    BY <1>2, <2>2 DEF Placed
  <2>3. ASSUME NEW x \in S, NEW y \in Servers, y \notin S, m.waiting[rank[x]] = m.bound[y],
               m.bound[y] # NoConnection
        PROVE  FALSE
    <3>1. m.bound[y] \in Connections
      BY <2>3, PlacesType
    <3>2. Taken(m, m.bound[y]) /\ Listed(m, m.bound[y])
      BY <1>5, <2>3 DEF Taken, Listed
    <3> QED
      BY <3>1, <3>2 DEF Placed
  <2> QED
    BY <1>2, <2>1, <2>2, <2>3
<1> QED
  BY <1>3, <1>6, <1>7, <1>8, <1>9, <1>10 DEF Placed

-----------------------------------------------------------------------------
(* What moves nothing.                                                     *)

LEMMA UnmovedIsTransitive ==
  ASSUME NEW a, NEW b, NEW c, Unmoved(a, b), Unmoved(b, c)
  PROVE  Unmoved(a, c)
BY DEF Unmoved

LEMMA OtherFieldsUnmoved ==
  ASSUME NEW m \in Memory, NEW v
  PROVE  /\ Unmoved(m, [m EXCEPT !.mode = v])
         /\ Unmoved(m, [m EXCEPT !.process = v])
         /\ Unmoved(m, [m EXCEPT !.belowMin = v])
         /\ Unmoved(m, [m EXCEPT !.sincePing = v])
         /\ Unmoved(m, [m EXCEPT !.minIdle = v])
         /\ Unmoved(m, [m EXCEPT !.prefs = v])
         /\ Unmoved(m, [m EXCEPT !.idleTime = v])
         /\ Unmoved(m, [m EXCEPT !.ttl = v])
BY DEF Unmoved, Memory

LEMMA ServerFieldsUnmoved ==
  ASSUME NEW m \in Memory, NEW s, NEW v
  PROVE  /\ Unmoved(m, [m EXCEPT !.armed[s] = v])
         /\ Unmoved(m, [m EXCEPT !.onSend[s] = v])
         /\ Unmoved(m, [m EXCEPT !.exiting[s] = v])
         /\ Unmoved(m, [m EXCEPT !.extra[s] = v])
         /\ Unmoved(m, [m EXCEPT !.ttl[s] = v])
BY DEF Unmoved, Memory

LEMMA AppendMessageUnmoved ==
  ASSUME NEW m \in Memory, NEW kind, NEW T
  PROVE  Unmoved(m, AppendMessage(m, kind, T))
BY DEF Unmoved, AppendMessage, Memory

LEMMA KillServersUnmoved ==
  ASSUME NEW m \in Memory, NEW K \in SUBSET Servers
  PROVE  Unmoved(m, KillServers(m, K))
<1> DEFINE r == RemoveServers(m, K \ Dying(m))
<1>1. r \in Memory
  BY RemoveServersType
<1>2. Unmoved(m, r)
  BY DEF Unmoved, RemoveServers, Memory
<1>3. KillServers(m, K) =
        [r EXCEPT !.phase = [s \in Servers |-> IF s \in K THEN "dying" ELSE @[s]]]
  BY DEF KillServers
<1> HIDE DEF r
<1>4. Unmoved(r, KillServers(m, K))
  BY <1>1, <1>3 DEF Unmoved, Memory
<1> QED
  BY <1>2, <1>4, UnmovedIsTransitive

LEMMA FailServerUnmoved ==
  ASSUME NEW m \in Memory, NEW s \in Servers
  PROVE  Unmoved(m, FailServer(m, s))
<1> DEFINE u == [m EXCEPT !.armed[s] = FALSE]
<1>1. u \in Memory /\ Unmoved(m, u)
  BY DEF Memory, Unmoved
<1> HIDE DEF u
<1>2. Unmoved(u, KillServers(u, {s}))
  BY <1>1, KillServersUnmoved
<1> QED
  BY <1>1, <1>2, UnmovedIsTransitive DEF FailServer, u

LEMMA BringUpToDateUnmoved ==
  ASSUME NEW m \in Memory, NEW s \in Servers
  PROVE  Unmoved(m, BringUpToDate(m, s))
BY DEF Unmoved, BringUpToDate, Memory

LEMMA TakeNextUnmoved ==
  ASSUME NEW m \in Memory, NEW s \in Servers
  PROVE  Unmoved(m, TakeNext(m, s))
BY DEF Unmoved, TakeNext, Memory

LEMMA AddIdleServerUnmoved ==
  ASSUME NEW m \in Memory, NEW s \in Servers
  PROVE  Unmoved(m, AddIdleServer(m, s))
BY DEF Unmoved, AddIdleServer, Memory

LEMMA GetIdleServersUnmoved ==
  ASSUME NEW m \in Memory, NEW S
  PROVE  Unmoved(m, GetIdleServers(m, S))
BY DEF Unmoved, GetIdleServers, Memory

LEMMA CreateNewProcessUnmoved ==
  ASSUME NEW m \in Memory
  PROVE  Unmoved(m, CreateNewProcess(m))
BY DEF Unmoved, CreateNewProcess, Memory

LEMMA StopAllServersUnmoved ==
  ASSUME NEW m \in Memory
  PROVE  Unmoved(m, StopAllServers(m))
<1> DEFINE a == AppendMessage(m, "exit", Servers)
<1>1. a \in Memory /\ Unmoved(m, a)
  BY AppendMessageType, AppendMessageUnmoved DEF Kinds
<1>2. StopAllServers(m) =
        [a EXCEPT !.ttl = [s \in Servers |->
           IF m.phase[s] = "live" /\ @[s] = -1 THEN SecondsToLive ELSE @[s]]]
  BY DEF StopAllServers
<1> HIDE DEF a
<1>3. Unmoved(a, StopAllServers(m))
  BY <1>1, <1>2 DEF Unmoved, Memory
<1> QED
  BY <1>1, <1>3, UnmovedIsTransitive

LEMMA DoStopUnmoved ==
  ASSUME NEW m \in Memory
  PROVE  Unmoved(m, DoStop(m))
<1> DEFINE a == StopAllServers(m)
           told == [a EXCEPT !.mode = "stopping"]
<1>1. a \in Memory /\ Unmoved(m, a)
  BY StopAllServersType, StopAllServersUnmoved
<1>2. DoStop(m) \in {told, [told EXCEPT !.process = "exited"]}
  BY DEF DoStop
<1> HIDE DEF a
<1>3. told \in Memory /\ Unmoved(a, told)
  BY <1>1, OtherFieldsUnmoved DEF Memory, Modes
<1> HIDE DEF told
<1>4. Unmoved(told, [told EXCEPT !.process = "exited"])
  BY <1>3, OtherFieldsUnmoved
<1> QED
  BY <1>1, <1>2, <1>3, <1>4, UnmovedIsTransitive

LEMMA CheckPingUnmoved ==
  ASSUME NEW m \in Memory
  PROVE  Unmoved(m, CheckPing(m))
<1> DEFINE below == Lesser(m.belowMin + 1, StartTimeout + 1)
           since == IF PingTimeout > 0 THEN Lesser(m.sincePing + 1, PingTimeout) ELSE 0
           counted == [m EXCEPT !.belowMin = below, !.sincePing = since]
<1>1. below \in Nat /\ since \in Nat
  <2>1. /\ m.belowMin + 1 \in Nat /\ StartTimeout + 1 \in Nat
        /\ m.sincePing + 1 \in Nat /\ PingTimeout \in Nat
    BY TimerAssumption DEF Memory
  <2> QED
    BY <2>1, LesserType
<1>2. CheckPing(m) \in {counted, DoStop(counted)}
  <2>1. counted = [m EXCEPT
          !.belowMin = Lesser(@ + 1, StartTimeout + 1),
          !.sincePing = IF PingTimeout > 0 THEN Lesser(@ + 1, PingTimeout) ELSE 0]
    BY DEF Memory
  <2> QED
    BY <2>1 DEF CheckPing
<1> HIDE DEF below, since
<1>3. counted \in Memory
  BY <1>1 DEF Memory
<1>4. Unmoved(m, counted)
  BY DEF Memory, Unmoved
<1> HIDE DEF counted
<1>5. Unmoved(m, DoStop(counted))
  BY <1>3, <1>4, DoStopUnmoved, UnmovedIsTransitive
<1> QED
  BY <1>2, <1>4, <1>5

LEMMA PeriodicIdleServerPurgeUnmoved ==
  ASSUME NEW m \in Memory, NEW head \in Servers
  PROVE  Unmoved(m, PeriodicIdleServerPurge(m, head))
<1> DEFINE times == [s \in Servers |->
                       IF s \in m.idle THEN Lesser(m.idleTime[s] + 1, IdleTimeBound)
                                       ELSE m.idleTime[s]]
           older == [m EXCEPT !.idleTime = times]
           told == [older EXCEPT !.ttl[head] = SecondsToLive]
           spare == m.serverCount > MinServers /\ m.minIdle >= 1
           purged == IF spare /\ older.idleTime[head] > IdleLimit(m)
                     THEN AppendMessage(told, "exit", {head}) ELSE older
<1>1. times \in [Servers -> Nat]
  BY IdleTimesType
<1>2. older = [m EXCEPT !.idleTime = [s \in Servers |->
                 IF s \in m.idle THEN Lesser(@[s] + 1, IdleTimeBound) ELSE @[s]]]
  BY DEF Memory
<1>3. PeriodicIdleServerPurge(m, head) = [purged EXCEPT !.minIdle = Cardinality(purged.idle)]
  BY <1>2, Zenon DEF PeriodicIdleServerPurge
<1> HIDE DEF times
<1>4. older \in Memory /\ Unmoved(m, older)
  BY <1>1, OtherFieldsUnmoved DEF Memory
<1> HIDE DEF older
<1>5. told \in Memory /\ Unmoved(m, told)
  BY <1>4, TtlType, ServerFieldsUnmoved, UnmovedIsTransitive
<1> HIDE DEF told, spare
<1>6. /\ AppendMessage(told, "exit", {head}) \in Memory
      /\ Unmoved(m, AppendMessage(told, "exit", {head}))
  BY <1>5, AppendMessageType, AppendMessageUnmoved, UnmovedIsTransitive DEF Kinds
<1>7. purged \in Memory /\ Unmoved(m, purged)
  BY <1>4, <1>6
<1> HIDE DEF purged
<1> QED
  BY <1>3, <1>7, OtherFieldsUnmoved, UnmovedIsTransitive

LEMMA CheckPoolUnmoved ==
  ASSUME NEW m \in Memory, NEW head \in Servers
  PROVE  Unmoved(m, CheckPool(m, head))
<1> DEFINE p == CheckPing(m)
           q == IF p.serverCount >= MinServers THEN [p EXCEPT !.belowMin = 0] ELSE p
<1>1. p \in Memory /\ Unmoved(m, p)
  BY CheckPingType, CheckPingUnmoved
<1>2. CheckPool(m, head) \in {m, p, DoStop(p), PeriodicIdleServerPurge(q, head)}
  BY DEF CheckPool
<1> HIDE DEF p
<1>3. q \in Memory
  <2>1. [p EXCEPT !.belowMin = 0] \in Memory
    BY <1>1 DEF Memory
  <2> QED
    BY <1>1, <2>1
<1>4. Unmoved(m, q)
  BY <1>1, OtherFieldsUnmoved, UnmovedIsTransitive
<1> HIDE DEF q
<1>5. Unmoved(m, DoStop(p)) /\ Unmoved(m, PeriodicIdleServerPurge(q, head))
  BY <1>1, <1>3, <1>4, DoStopUnmoved, PeriodicIdleServerPurgeUnmoved, UnmovedIsTransitive
<1>6. Unmoved(m, m)
  BY DEF Unmoved
<1> QED
  BY <1>1, <1>2, <1>5, <1>6

\* DoPeriodic tells and kills; connections stay where they are.
LEMMA CheckedUnmoved ==
  ASSUME mgr \in Memory, NEW head \in Servers
  PROVE  Checked(head) \in Memory /\ Unmoved(mgr, Checked(head))
<1> DEFINE a == CountDelay(mgr)
           k == KillServers(a, Overdue(a))
           b == CheckServers(a)
<1>1. a \in Memory /\ Unmoved(mgr, a)
  <2>1. Unmoved(mgr, a)
    BY DEF CountDelay, Unmoved, Memory
  <2> QED
    BY <2>1, CountDelayType
<1> HIDE DEF a
<1>2. k \in Memory /\ Unmoved(a, k)
  <2>1. Overdue(a) \in SUBSET Servers
    BY DEF Overdue, TooLongDying, TooLongBusy, Live
  <2> QED
    BY <1>1, <2>1, KillServersType, KillServersUnmoved
<1>3. Unmoved(k, b)
  BY <1>2 DEF CheckServers, Unmoved, Memory
<1>4. b \in Memory
  BY <1>1, CheckServersType
<1>5. Checked(head) = CheckPool(b, head)
  BY DEF Checked, a
<1> HIDE DEF k, b
<1> QED
  BY <1>1, <1>2, <1>3, <1>4, <1>5, CheckPoolType, CheckPoolUnmoved, UnmovedIsTransitive

-----------------------------------------------------------------------------
(* What moves connections.                                                 *)

\* BindToConnection of each server of S.
LEMMA AssignServersMoves ==
  ASSUME NEW m \in Memory, NEW S \in SUBSET Servers, NEW to \in [S -> Connections],
         NEW n, n = AssignServers(m, S, to)
  PROVE  /\ n.waiting = m.waiting
         /\ n.bound = [s \in Servers |-> IF s \in S THEN to[s] ELSE m.bound[s]]
         /\ n.conn = [c \in Connections |->
                        IF \E s \in S : to[s] = c THEN "bound" ELSE m.conn[c]]
<1> DEFINE b == BindServers(m, S, to)
           last == LastRequest(b, S)
           told == [b EXCEPT !.ttl = [s \in Servers |->
                      IF s \in last THEN SecondsToLive ELSE @[s]]]
<1>1. b \in Memory
  BY BindServersType
<1>2. n = IF last = {} THEN b ELSE AppendMessage(told, "exit", last)
  BY Zenon DEF AssignServers, CountRequests
<1>3. /\ b.waiting = m.waiting
      /\ b.bound = [s \in Servers |-> IF s \in S THEN to[s] ELSE m.bound[s]]
      /\ b.conn = [c \in Connections |->
                     IF \E s \in S : to[s] = c THEN "bound" ELSE m.conn[c]]
  BY DEF BindServers, Memory
<1> HIDE DEF b
<1>4. told \in Memory
  BY <1>1, LastRequestType, Zenon
<1>5. Unmoved(b, told)
  BY <1>1, OtherFieldsUnmoved DEF Memory
<1> HIDE DEF told, last
<1>6. Unmoved(b, n)
  BY <1>2, <1>4, <1>5, AppendMessageUnmoved DEF Unmoved
<1> QED
  BY <1>3, <1>6 DEF Unmoved

\* The end of DoPush and of RedeployServer.
LEMMA GiveWorkMoves ==
  ASSUME NEW m \in Memory, NEW s \in Servers, m.bound[s] = NoConnection
  PROVE  Unmoved(m, GiveWork(m, s)) \/ TakesFirst(m, GiveWork(m, s), s)
<1>1. CASE m.waiting # <<>> /\ m.mode # "paused"
  <2> DEFINE rest == Tail(m.waiting)
             c == Head(m.waiting)
             w == [m EXCEPT !.waiting = rest]
             to == [x \in {s} |-> c]
             n == GiveWork(m, s)
             rank == [x \in {s} |-> 1]
  <2>1. m.waiting \in Seq(Connections)
    BY DEF Memory
  <2>2. /\ c \in Connections /\ rest \in Seq(Connections) /\ c = m.waiting[1]
        /\ 1 <= Len(m.waiting) /\ rest = SubSeq(m.waiting, 1 + 1, Len(m.waiting))
    BY <1>1, <2>1
  <2>3. n = AssignServers(w, {s}, to)
    BY <1>1 DEF GiveWork, AssignServer
  <2>4. w \in Memory /\ w.bound = m.bound /\ w.conn = m.conn /\ w.waiting = rest
    BY <2>2, ZenonT(40) DEF Memory
  <2>5. {s} \in SUBSET Servers /\ to \in [{s} -> Connections]
    BY <2>2
  <2>7. \A t \in {s} : to[t] = m.waiting[rank[t]] /\ rank[t] = 1
    BY <2>2
  <2> HIDE DEF n, w, c, to, rank, rest
  <2>6. /\ n.waiting = rest
        /\ n.bound = [t \in Servers |-> IF t \in {s} THEN to[t] ELSE m.bound[t]]
        /\ n.conn = [d \in Connections |->
                       IF \E t \in {s} : to[t] = d THEN "bound" ELSE m.conn[d]]
    BY <2>3, <2>4, <2>5, AssignServersMoves
  <2>8. /\ n.bound = [t \in Servers |->
                        IF t \in {s} THEN m.waiting[rank[t]] ELSE m.bound[t]]
        /\ n.conn = [d \in Connections |->
                       IF \E t \in {s} : m.waiting[rank[t]] = d THEN "bound" ELSE m.conn[d]]
    BY <2>6, <2>7
  <2>9. Assigned(m, n, 1, {s}, rank)
    BY <2>2, <2>6, <2>7, <2>8 DEF Assigned
  <2> QED
    BY <2>9 DEF TakesFirst, n, rank
<1>2. CASE ~(m.waiting # <<>> /\ m.mode # "paused")
  BY <1>2, AddIdleServerUnmoved DEF GiveWork
<1> QED
  BY <1>1, <1>2

LEMMA UnbindMoves ==
  ASSUME NEW m \in Memory, NEW s \in Servers
  PROVE  /\ m.bound[s] = NoConnection => Unbind(m, s) = m
         /\ m.bound[s] # NoConnection => Freed(m, Unbind(m, s), s)
         /\ Unbind(m, s).bound[s] = NoConnection
BY DEF Unbind, Freed, Moved, Memory

LEMMA RedeployServerMoves ==
  ASSUME NEW m \in Memory, NEW s \in Servers, NEW n, n = RedeployServer(m, s)
  PROVE  /\ m.bound[s] = NoConnection => Unmoved(m, n) \/ TakesFirst(m, n, s)
         /\ m.bound[s] # NoConnection =>
              \/ Freed(m, n, s)
              \/ \E u \in Memory : Freed(m, u, s) /\ TakesFirst(u, n, s)
<1> DEFINE u == Unbind(m, s)
           p == [TakeNext(u, s) EXCEPT !.onSend[s] = "DoPush"]
<1>1. u \in Memory /\ u.bound[s] = NoConnection
  BY UnbindType, UnbindMoves
<1>2. n = IF HasNext(u, s) THEN p ELSE GiveWork(u, s)
  BY DEF RedeployServer
<1>3. /\ m.bound[s] = NoConnection => u = m
      /\ m.bound[s] # NoConnection => Freed(m, u, s)
  BY UnbindMoves
<1> HIDE DEF u
<1>4. CASE HasNext(u, s)
  <2>1. TakeNext(u, s) \in Memory
    BY <1>1, <1>4, TakeNextType
  <2>2. Unmoved(u, p)
    BY <1>1, <2>1, TakeNextUnmoved, ServerFieldsUnmoved, UnmovedIsTransitive
  <2>3. n = p
    BY <1>2, <1>4
  <2> HIDE DEF p
  <2> QED
    BY <1>3, <2>2, <2>3 DEF Unmoved, Freed, Moved
<1>5. CASE ~HasNext(u, s)
  <2>1. Unmoved(u, n) \/ TakesFirst(u, n, s)
    BY <1>1, <1>2, <1>5, GiveWorkMoves
  <2>2. Freed(m, u, s) /\ Unmoved(u, n) => Freed(m, n, s)
    BY DEF Unmoved, Freed, Moved
  <2> QED
    BY <1>1, <1>3, <2>1, <2>2
<1> QED
  BY <1>4, <1>5

\* Deferred deletion, with the connections of the deleted.
LEMMA DeleteServersMoves ==
  ASSUME NEW m \in Memory
  PROVE  Lost(m, DeleteServers(m), Dying(m))
BY DEF Lost, DeleteServers, LastServerStopped, Memory

LEMMA StartNewRequestMoves ==
  ASSUME NEW m \in Memory, NEW c \in Connections, NEW s \in Servers,
         m.conn[c] = "looking", m.idle # {} => m.bound[s] = NoConnection,
         NEW n, n = StartNewRequest(m, c, s)
  PROVE  Served(m, n, c, s) \/ Enqueued(m, n, c)
<1>0. /\ m.conn \in [Connections -> {"none", "looking", "waiting", "bound"}]
      /\ m.bound \in [Servers -> Connections \cup {NoConnection}]
      /\ m.waiting \in Seq(Connections)
  BY PlacesType
<1>1. CASE m.waiting = <<>> /\ m.idle # {} /\ m.mode # "paused"
  <2> DEFINE g == GetIdleServers(m, {s})
             to == [x \in {s} |-> c]
  <2>1. g \in Memory /\ Unmoved(m, g)
    BY GetIdleServersType, GetIdleServersUnmoved
  <2>2. n = AssignServers(g, {s}, to)
    BY <1>1 DEF StartNewRequest, AssignServer
  <2>3. {s} \in SUBSET Servers /\ to \in [{s} -> Connections]
    OBVIOUS
  <2>4. \A x \in {s} : to[x] = c
    OBVIOUS
  <2> HIDE DEF g, to
  <2>5. /\ n.waiting = m.waiting
        /\ n.bound = [t \in Servers |-> IF t \in {s} THEN to[t] ELSE m.bound[t]]
        /\ n.conn = [d \in Connections |->
                       IF \E t \in {s} : to[t] = d THEN "bound" ELSE m.conn[d]]
    BY <2>1, <2>2, <2>3, AssignServersMoves DEF Unmoved
  <2>6. n.bound = [m.bound EXCEPT ![s] = c] /\ n.conn = [m.conn EXCEPT ![c] = "bound"]
    BY <1>0, <2>4, <2>5
  <2> QED
    BY <1>1, <2>5, <2>6 DEF Served, Moved
<1>2. CASE ~(m.waiting = <<>> /\ m.idle # {} /\ m.mode # "paused")
  <2> DEFINE rest == Append(m.waiting, c)
             w == [m EXCEPT !.waiting = rest, !.conn[c] = "waiting"]
  <2>1. n = CreateNewProcess(w)
    BY <1>2 DEF StartNewRequest, Memory
  <2>2. rest \in Seq(Connections)
    BY <1>0
  <2> HIDE DEF rest
  <2>3. w \in Memory
    BY <2>2 DEF Memory
  <2>4. /\ w.waiting = rest /\ w.bound = m.bound
        /\ w.conn = [m.conn EXCEPT ![c] = "waiting"]
    BY DEF Memory
  <2> HIDE DEF w
  <2>5. Unmoved(w, n)
    BY <2>1, <2>3, CreateNewProcessUnmoved
  <2> QED
    BY <2>4, <2>5 DEF Enqueued, Moved, Unmoved, rest
<1> QED
  BY <1>1, <1>2

\* Ranks without a gap: as many servers as places, and no place twice.
LEMMA RanksAreOnto ==
  ASSUME NEW S \in SUBSET Servers, NEW k \in Nat, Cardinality(S) = k,
         NEW rank \in [S -> 1..k], \A s, t \in S : rank[s] = rank[t] => s = t
  PROVE  \A i \in 1..k : \E s \in S : rank[s] = i
<1>1. IsFiniteSet(1..k) /\ Cardinality(1..k) = k
  BY FS_Interval
<1>2. rank \in Injection(S, 1..k)
  BY DEF Injection, IsInjective
<1>3. rank \in Surjection(S, 1..k)
  BY <1>1, <1>2, FS_Injection
<1> QED
  BY <1>3 DEF Surjection

-----------------------------------------------------------------------------
(* Every step is a move.                                                   *)

Move(m, n) ==
  \/ Unmoved(m, n)
  \/ \E c \in Connections : Accepted(m, n, c) \/ Dismissed(m, n, c) \/ Enqueued(m, n, c)
  \/ \E c \in Connections, s \in Servers : Served(m, n, c, s)
  \/ \E s \in Servers : Freed(m, n, s)
  \/ \E s \in Servers, u \in Memory : Freed(m, u, s) /\ TakesFirst(u, n, s)
  \/ \E k \in Nat, S \in SUBSET Servers :
        \E rank \in [S -> 1..k] : Assigned(m, n, k, S, rank)
  \/ \E D \in SUBSET Servers : Lost(m, n, D)

LEMMA UnmovedMoves == ASSUME NEW m, NEW n, Unmoved(m, n) PROVE Move(m, n)
BY DEF Move

LEMMA TakesFirstMoves ==
  ASSUME NEW m, NEW n, NEW s \in Servers, TakesFirst(m, n, s)
  PROVE  Move(m, n)
<1>1. [x \in {s} |-> 1] \in [{s} -> 1..1] /\ {s} \in SUBSET Servers
  OBVIOUS
<1> QED
  BY <1>1 DEF TakesFirst, Move

LEMMA RequestArrivedMoves ==
  ASSUME TypeOK, Sessions, NEW c \in Connections, RequestArrived(c)
  PROVE  Move(mgr, mgr')
<1>0. mgr \in Memory /\ mgr.conn[c] = "looking"
  BY DEF TypeOK, RequestArrived, RequestReady
<1>1. CASE Refused(c)
  <2>1. mgr' = [mgr EXCEPT !.conn[c] = "none"]
    BY <1>1 DEF RequestArrived
  <2>2. Dismissed(mgr, mgr', c)
    BY <1>0, <2>1 DEF Dismissed, Moved, Memory
  <2> QED
    BY <2>2 DEF Move
<1>2. CASE ~Refused(c)
  <2>1. PICK s \in Servers : /\ mgr.idle # {} => HeadOfIdle(mgr, s)
                             /\ mgr' = StartNewRequest(mgr, c, s)
    BY <1>2 DEF RequestArrived
  <2>2. mgr.idle # {} => mgr.bound[s] = NoConnection
    BY <2>1, IdleSession DEF HeadOfIdle, Sessions, Idling
  <2>3. Served(mgr, mgr', c, s) \/ Enqueued(mgr, mgr', c)
    BY <1>0, <2>1, <2>2, StartNewRequestMoves
  <2> QED
    BY <2>3 DEF Move
<1> QED
  BY <1>1, <1>2

LEMMA ServerStartedMoves ==
  ASSUME TypeOK, Sessions, NEW s \in Servers, ServerStarted(s)
  PROVE  Move(mgr, mgr')
<1>0. mgr \in Memory /\ mgr.bound[s] = NoConnection
  BY SessionAtRead DEF TypeOK, Sessions, ServerStarted, Starting
<1> DEFINE count == (mgr.serverCount + 1) % CountWord
<1>1. count \in 0..CountWord-1
  <2>1. mgr.serverCount + 1 \in Int
    BY <1>0, BoundAssumption DEF Memory
  <2> QED
    BY <2>1, WordType
<1>2. CASE outbox[s] # <<>>
  <2> DEFINE up == [mgr EXCEPT !.serverCount = count, !.started[s] = TRUE,
                               !.pending = FALSE]
             b == BringUpToDate(up, s)
  <2>1. mgr' = RedeployServer(b, s)
    BY <1>0, <1>2 DEF ServerStarted, StartSucceeded, Memory
  <2> HIDE DEF count
  <2>2. up \in Memory /\ Unmoved(mgr, up)
    BY <1>0, <1>1, ZenonT(40) DEF Memory, Unmoved
  <2> HIDE DEF up
  <2>3. b \in Memory /\ Unmoved(mgr, b)
    BY <2>2, BringUpToDateType, BringUpToDateUnmoved, UnmovedIsTransitive
  <2> HIDE DEF b
  <2>4. b.bound[s] = NoConnection
    BY <1>0, <2>3 DEF Unmoved
  <2>5. Unmoved(b, mgr') \/ TakesFirst(b, mgr', s)
    BY <2>1, <2>3, <2>4, RedeployServerMoves
  <2>6. Unmoved(mgr, mgr') \/ TakesFirst(mgr, mgr', s)
    BY <2>3, <2>5 DEF Unmoved, TakesFirst, Assigned
  <2> QED
    BY <2>6, UnmovedMoves, TakesFirstMoves
<1>3. CASE outbox[s] = <<>>
  <2> DEFINE f == [mgr EXCEPT !.serverCount = count, !.delay = StartDelay]
  <2>1. mgr' = FailServer(f, s)
    BY <1>0, <1>3 DEF ServerStarted, StartFailed, Memory
  <2> HIDE DEF count
  <2>2. f \in Memory
    <3>1. StartDelay \in 0..StartDelay
      BY TimerAssumption
    <3> QED
      BY <1>0, <1>1, <3>1, ZenonT(40) DEF Memory
  <2>3. Unmoved(mgr, f)
    BY <1>0 DEF Memory, Unmoved
  <2> HIDE DEF f
  <2> QED
    BY <2>1, <2>2, <2>3, FailServerUnmoved, UnmovedIsTransitive, UnmovedMoves
<1> QED
  BY <1>2, <1>3

LEMMA RecvServerMsgMoves ==
  ASSUME TypeOK, Sessions, NEW s \in Servers, RecvServerMsg(s)
  PROVE  Move(mgr, mgr')
<1>0. mgr \in Memory
  BY DEF TypeOK
<1>1. CASE outbox[s] = <<>>
  BY <1>0, <1>1, FailServerUnmoved, UnmovedMoves DEF RecvServerMsg
<1>2. CASE outbox[s] # <<>>
  <2>1. mgr.bound[s] # NoConnection
    BY <1>2, SessionAtRead DEF Sessions, RecvServerMsg, Serving
  <2>2. mgr' \in {RedeployServer(mgr, s), [mgr EXCEPT !.extra[s] = ExtraTimeout],
                  [mgr EXCEPT !.onSend[s] = "ProcessNeedRespCmd"], FailServer(mgr, s)}
    BY <1>2, Zenon DEF RecvServerMsg
  <2>3. CASE mgr' = RedeployServer(mgr, s)
    <3>1. \/ Freed(mgr, mgr', s)
          \/ \E u \in Memory : Freed(mgr, u, s) /\ TakesFirst(u, mgr', s)
      BY <1>0, <2>1, <2>3, RedeployServerMoves
    <3> QED
      BY <3>1 DEF Move
  <2>4. CASE mgr' # RedeployServer(mgr, s)
    <3>1. /\ Unmoved(mgr, [mgr EXCEPT !.extra[s] = ExtraTimeout])
          /\ Unmoved(mgr, [mgr EXCEPT !.onSend[s] = "ProcessNeedRespCmd"])
          /\ Unmoved(mgr, FailServer(mgr, s))
      BY <1>0, ServerFieldsUnmoved, FailServerUnmoved
    <3> QED
      BY <2>2, <2>4, <3>1, UnmovedMoves
  <2> QED
    BY <2>3, <2>4
<1> QED
  BY <1>1, <1>2

\* A handler that sends: what it does when that fails moves nothing.
LEMMA SendOrMoves ==
  ASSUME NEW s \in Servers, NEW msg, NEW n, NEW m \in Memory, Unmoved(mgr, m),
         Move(mgr, n), SendOr(s, msg, n, FailServer(m, s))
  PROVE  Move(mgr, mgr')
<1>1. Unmoved(mgr, FailServer(m, s))
  BY FailServerUnmoved, UnmovedIsTransitive
<1> QED
  BY <1>1, UnmovedMoves DEF SendOr

LEMMA WakeupServerMoves ==
  ASSUME TypeOK, Sessions, NEW s \in Servers, WakeupServer(s)
  PROVE  Move(mgr, mgr')
<1> DEFINE m == [mgr EXCEPT !.onSend[s] = "none"]
<1>0. mgr \in Memory
  BY DEF TypeOK
<1>1. m \in Memory /\ Unmoved(mgr, m)
  BY <1>0, ServerFieldsUnmoved DEF Memory, Callbacks
<1>2. \/ mgr' = [mgr EXCEPT !.process = "crashed"]
      \/ SendOr(s, "request", m, FailServer(m, s))
  BY DEF WakeupServer
<1> HIDE DEF m
<1>3. Move(mgr, m) /\ Move(mgr, [mgr EXCEPT !.process = "crashed"])
  BY <1>0, <1>1, OtherFieldsUnmoved, UnmovedMoves
<1>4. CASE SendOr(s, "request", m, FailServer(m, s))
  BY <1>1, <1>3, <1>4, SendOrMoves
<1> QED
  BY <1>2, <1>3, <1>4

LEMMA AfterPushMoves ==
  ASSUME NEW m \in Memory, NEW s \in Servers, m.bound[s] = NoConnection,
         NEW n, n = AfterPush(m, s)
  PROVE  Unmoved(m, n) \/ TakesFirst(m, n, s)
<1> DEFINE done == [m EXCEPT !.onSend[s] = "none"]
<1>1. done \in Memory /\ Unmoved(m, done)
  <2>1. done \in Memory
    BY ZenonT(40) DEF Memory, Callbacks
  <2> QED
    BY <2>1, ServerFieldsUnmoved
<1>2. n \in {done, TakeNext(m, s), GiveWork(done, s)}
  BY DEF AfterPush
<1> HIDE DEF done
<1>3. CASE n = GiveWork(done, s)
  <2>1. done.bound[s] = NoConnection
    BY <1>1 DEF Unmoved
  <2>2. Unmoved(done, n) \/ TakesFirst(done, n, s)
    BY <1>1, <1>3, <2>1, GiveWorkMoves
  <2> QED
    BY <1>1, <2>2 DEF Unmoved, TakesFirst, Assigned
<1> QED
  BY <1>1, <1>2, <1>3, TakeNextUnmoved

LEMMA DoPushMoves ==
  ASSUME TypeOK, Sessions, NEW s \in Servers, DoPush(s)
  PROVE  Move(mgr, mgr')
<1> DEFINE e == mgr.exiting[s] \/ mgr.lastSent[s] = "exit"
           m == [mgr EXCEPT !.exiting[s] = e]
<1>0. mgr \in Memory /\ mgr.bound[s] = NoConnection
  BY SessionAtWrite DEF TypeOK, Sessions, DoPush, Pushing
<1>1. m = [mgr EXCEPT !.exiting[s] = @ \/ mgr.lastSent[s] = "exit"]
  BY <1>0 DEF Memory
<1>2. \/ mgr' = [mgr EXCEPT !.process = "crashed"]
      \/ SendOr(s, mgr.lastSent[s], AfterPush(m, s), FailServer(m, s))
  BY <1>1 DEF DoPush
<1>3. e \in BOOLEAN
  OBVIOUS
<1> HIDE DEF e
<1>4. m \in Memory /\ Unmoved(mgr, m)
  BY <1>0, <1>3, ServerFieldsUnmoved, ZenonT(40) DEF Memory
<1> HIDE DEF m
<1>5. Move(mgr, AfterPush(m, s))
  <2> DEFINE n == AfterPush(m, s)
  <2>1. m.bound[s] = NoConnection
    BY <1>0, <1>4 DEF Unmoved
  <2>2. Unmoved(m, n) \/ TakesFirst(m, n, s)
    BY <1>4, <2>1, AfterPushMoves
  <2> HIDE DEF n
  <2>3. Unmoved(mgr, n) \/ TakesFirst(mgr, n, s)
    BY <1>4, <2>2 DEF Unmoved, TakesFirst, Assigned
  <2> QED
    BY <2>3, UnmovedMoves, TakesFirstMoves DEF n
<1>6. Move(mgr, [mgr EXCEPT !.process = "crashed"])
  BY <1>0, OtherFieldsUnmoved, UnmovedMoves
<1>7. CASE SendOr(s, mgr.lastSent[s], AfterPush(m, s), FailServer(m, s))
  BY <1>4, <1>5, <1>7, SendOrMoves
<1> QED
  BY <1>2, <1>6, <1>7

LEMMA ProcessNeedRespCmdMoves ==
  ASSUME TypeOK, NEW s \in Servers, ProcessNeedRespCmd(s)
  PROVE  Move(mgr, mgr')
<1>0. mgr \in Memory /\ Unmoved(mgr, mgr)
  BY DEF TypeOK, Unmoved
<1>1. Move(mgr, [mgr EXCEPT !.onSend[s] = "none"])
  BY <1>0, ServerFieldsUnmoved, UnmovedMoves
<1> QED
  BY <1>0, <1>1, SendOrMoves DEF ProcessNeedRespCmd

LEMMA TickMoves ==
  ASSUME TypeOK, Tick
  PROVE  Move(mgr, mgr')
<1>0. mgr \in Memory
  BY DEF TypeOK
<1>1. PICK head \in Servers : mgr' = Ticked(head)
  BY DEF Tick
<1> DEFINE c == Checked(head)
           d == DeleteServers(c)
<1>2. c \in Memory /\ Unmoved(mgr, c)
  BY <1>0, CheckedUnmoved
<1>3. mgr' \in {c, d, CreateNewProcess(d)}
  BY <1>1 DEF Ticked, CleanUp
<1> HIDE DEF c
<1>4. /\ d \in Memory /\ Lost(c, d, Dying(c)) /\ Dying(c) \in SUBSET Servers
      /\ Unmoved(d, CreateNewProcess(d))
  BY <1>2, DeleteServersType, DeleteServersMoves, CreateNewProcessUnmoved DEF Dying
<1> HIDE DEF d
<1>5. Lost(mgr, d, Dying(c)) /\ Lost(mgr, CreateNewProcess(d), Dying(c))
  BY <1>2, <1>4 DEF Unmoved, Lost, BoundTo
<1> QED
  BY <1>2, <1>3, <1>4, <1>5 DEF Move

LEMMA DoResumeMoves ==
  ASSUME TypeOK, Sessions, DoResume
  PROVE  Move(mgr, mgr')
<1> DEFINE k == Lesser(Len(mgr.waiting), Cardinality(mgr.idle))
<1>0. mgr \in Memory
  BY DEF TypeOK
<1>1. k \in Nat /\ k <= Len(mgr.waiting)
  <2>1. Len(mgr.waiting) \in Nat /\ Cardinality(mgr.idle) \in Nat
    BY <1>0, CardinalityOfServers DEF Memory
  <2> QED
    BY <2>1 DEF Lesser
<1>2. PICK S \in SUBSET mgr.idle : \E rank \in [S -> 1..k] :
        /\ Cardinality(S) = k
        /\ \A s, t \in S : rank[s] = rank[t] => s = t
        /\ mgr' = AssignServers([GetIdleServers(mgr, S) EXCEPT
                                   !.mode = "running",
                                   !.waiting = SubSeq(@, k + 1, Len(@))],
                                S, [s \in S |-> mgr.waiting[rank[s]]])
  BY Zenon DEF DoResume
<1> HIDE DEF k
<1>3. PICK rank \in [S -> 1..k] :
        /\ Cardinality(S) = k
        /\ \A s, t \in S : rank[s] = rank[t] => s = t
        /\ mgr' = AssignServers([GetIdleServers(mgr, S) EXCEPT
                                   !.mode = "running",
                                   !.waiting = SubSeq(@, k + 1, Len(@))],
                                S, [s \in S |-> mgr.waiting[rank[s]]])
  BY <1>2
<1> DEFINE rest == SubSeq(mgr.waiting, k + 1, Len(mgr.waiting))
           g == GetIdleServers(mgr, S)
           r == [g EXCEPT !.mode = "running", !.waiting = rest]
           to == [s \in S |-> mgr.waiting[rank[s]]]
<1>4. rest \in Seq(Connections)
  BY <1>0, <1>1 DEF Memory
<1>5. S \in SUBSET Servers
  BY <1>0 DEF Memory
<1>6. g \in Memory /\ Unmoved(mgr, g)
  BY <1>0, <1>5, GetIdleServersType, GetIdleServersUnmoved
<1>7. [GetIdleServers(mgr, S) EXCEPT
        !.mode = "running", !.waiting = SubSeq(@, k + 1, Len(@))] = r
  BY <1>6 DEF Memory, Unmoved
<1> HIDE DEF rest, g
<1>8. /\ r \in Memory
      /\ r.waiting = rest /\ r.bound = mgr.bound /\ r.conn = mgr.conn
  BY <1>4, <1>6 DEF Memory, Modes, Unmoved
<1> HIDE DEF r
<1>9. to \in [S -> Connections]
  <2>1. mgr.waiting \in Seq(Connections) /\ k <= Len(mgr.waiting)
    BY <1>0, <1>1 DEF Memory
  <2>2. \A t \in S : rank[t] \in 1..Len(mgr.waiting)
    BY <1>1, <1>3, <2>1
  <2>3. \A t \in S : mgr.waiting[rank[t]] \in Connections
    BY <2>1, <2>2
  <2> QED
    BY <2>3
<1>10. \A t \in S : to[t] = mgr.waiting[rank[t]]
  OBVIOUS
<1>11. mgr' = AssignServers(r, S, to)
  BY <1>3, <1>7
<1> HIDE DEF to
<1>12. /\ mgr'.waiting = rest
       /\ mgr'.bound = [s \in Servers |-> IF s \in S THEN to[s] ELSE mgr.bound[s]]
       /\ mgr'.conn = [c \in Connections |->
                         IF \E s \in S : to[s] = c THEN "bound" ELSE mgr.conn[c]]
  BY <1>5, <1>8, <1>9, <1>11, AssignServersMoves
<1>13. \A t \in S : mgr.bound[t] = NoConnection
  BY <1>5, IdleSession DEF Sessions, Idling
<1>14. \A i \in 1..k : \E s \in S : rank[s] = i
  BY <1>1, <1>3, <1>5, RanksAreOnto
<1>15. /\ mgr'.bound = [s \in Servers |-> IF s \in S THEN mgr.waiting[rank[s]]
                                                   ELSE mgr.bound[s]]
       /\ mgr'.conn = [c \in Connections |->
                         IF \E s \in S : mgr.waiting[rank[s]] = c THEN "bound"
                                                               ELSE mgr.conn[c]]
  BY <1>10, <1>12
<1>16. \A s, t \in S : rank[s] = rank[t] => s = t
  BY <1>3
<1>17. Assigned(mgr, mgr', k, S, rank)
  BY <1>1, <1>12, <1>13, <1>14, <1>15, <1>16 DEF Assigned, rest
<1> QED
  BY <1>1, <1>5, <1>17 DEF Move

LEMMA AdministratorMoves ==
  ASSUME TypeOK, Sessions, Administrator
  PROVE  Move(mgr, mgr')
<1>0. mgr \in Memory /\ Live(mgr) \in SUBSET Servers
  BY DEF TypeOK, Live
<1>1. CASE DoReload
  <2>1. Unmoved(mgr, [StopAllServers(mgr) EXCEPT !.mode = "reloading"])
    BY <1>0, StopAllServersType, StopAllServersUnmoved, OtherFieldsUnmoved,
       UnmovedIsTransitive
  <2> QED
    BY <1>1, <2>1, UnmovedMoves DEF DoReload
<1>2. CASE DoRestart \/ DoExit
  <2> DEFINE k == KillServers(mgr, Live(mgr))
  <2>1. k \in Memory /\ Unmoved(mgr, k)
    BY <1>0, KillServersType, KillServersUnmoved
  <2>2. mgr' \in {[k EXCEPT !.mode = "reloading"], [k EXCEPT !.process = "exited"]}
    BY <1>2 DEF DoRestart, DoExit
  <2> HIDE DEF k
  <2>3. /\ Unmoved(mgr, [k EXCEPT !.mode = "reloading"])
        /\ Unmoved(mgr, [k EXCEPT !.process = "exited"])
    BY <2>1, OtherFieldsUnmoved, UnmovedIsTransitive
  <2> QED
    BY <2>2, <2>3, UnmovedMoves
<1>3. CASE DoStopCommand
  BY <1>0, <1>3, DoStopUnmoved, UnmovedMoves DEF DoStopCommand
<1>4. CASE DoPause \/ DoPing
  <2>1. mgr' \in {[mgr EXCEPT !.mode = "paused"], [mgr EXCEPT !.sincePing = 0]}
    BY <1>4 DEF DoPause, DoPing
  <2>2. /\ Unmoved(mgr, [mgr EXCEPT !.mode = "paused"])
        /\ Unmoved(mgr, [mgr EXCEPT !.sincePing = 0])
    BY <1>0, OtherFieldsUnmoved
  <2> QED
    BY <2>1, <2>2, UnmovedMoves
<1>5. CASE DoResume
  BY <1>5, DoResumeMoves
<1>6. CASE SetPref
  <2> DEFINE a == AppendMessage(mgr, "pref", Servers)
  <2>1. PICK n : mgr' = [a EXCEPT !.prefs = n]
    BY <1>6 DEF SetPref
  <2>2. a \in Memory /\ Unmoved(mgr, a)
    BY <1>0, AppendMessageType, AppendMessageUnmoved DEF Kinds
  <2> HIDE DEF a
  <2> QED
    BY <2>1, <2>2, OtherFieldsUnmoved, UnmovedIsTransitive, UnmovedMoves
<1> QED
  BY <1>1, <1>2, <1>3, <1>4, <1>5, <1>6 DEF Administrator

LEMMA NextMoves ==
  ASSUME TypeOK, Sessions, [Next]_vars
  PROVE  Move(mgr, mgr')
<1>0. mgr \in Memory
  BY DEF TypeOK
<1>1. CASE UNCHANGED mgr
  BY <1>1, UnmovedMoves DEF Unmoved
<1>2. ASSUME NEW c \in Connections, NewConnection(c) PROVE Move(mgr, mgr')
  <2>1. Accepted(mgr, mgr', c)
    BY <1>0, <1>2 DEF NewConnection, Accepted, Moved, Memory
  <2> QED
    BY <2>1 DEF Move
<1>3. ASSUME NEW s \in Servers, ServerEvent(s) PROVE Move(mgr, mgr')
  BY <1>3, ServerStartedMoves, RecvServerMsgMoves, WakeupServerMoves, DoPushMoves,
     ProcessNeedRespCmdMoves DEF ServerEvent
<1>4. ASSUME NEW c \in Connections, ClientRequest(c) \/ ClientClose(c)
      PROVE  UNCHANGED mgr
  BY <1>4 DEF ClientRequest, ClientClose
<1>5. ASSUME NEW s \in Servers, Worker(s) PROVE UNCHANGED mgr
  BY <1>5 DEF Worker, WorkerStarts, WorkerDies, WorkerReads, WorkerEnds, ExecNoRespCmd,
              ExecNeedRespCmd, PageCommand, WorkerStep
<1>6. UNCHANGED vars => UNCHANGED mgr
  BY DEF vars
<1> QED
  BY <1>1, <1>2, <1>3, <1>4, <1>5, <1>6, RequestArrivedMoves, TickMoves,
     AdministratorMoves DEF Next

LEMMA MovePlaced ==
  ASSUME NEW m \in Memory, NEW n \in Memory, Placed(m), Move(m, n)
  PROVE  Placed(n)
<1>1. CASE Unmoved(m, n)
  BY <1>1 DEF Unmoved, Placed, Listed, Taken
<1>2. ASSUME NEW a \in Memory, NEW b \in Memory, NEW s \in Servers,
             Placed(a), TakesFirst(a, b, s)
      PROVE  Placed(b)
  <2>1. [x \in {s} |-> 1] \in [{s} -> 1..1] /\ {s} \in SUBSET Servers
    OBVIOUS
  <2> QED
    BY <1>2, <2>1, AssignedPlaced DEF TakesFirst
<1> QED
  BY <1>1, <1>2, AcceptedPlaced, EnqueuedPlaced, ServedPlaced, FreedPlaced, AssignedPlaced,
     LostPlaced DEF Move

\* The invariant behind both theorems.
LEMMA AlwaysPlaced == Spec => []Placed(mgr)
<1>1. Init => Placed(mgr)
  BY InitType, PoolAssumption
     DEF Init, InitMemory, Each, CreateNewProcess, Placed, Listed, Taken
<1>2. ASSUME TypeOK, TypeOK', Sessions, Placed(mgr), [Next]_vars
      PROVE  Placed(mgr)'
  BY <1>2, NextMoves, MovePlaced DEF TypeOK
<1> QED
  BY <1>1, <1>2, TypeCorrect, SessionsAgree, PTL DEF Spec

\* Every web server connection is in exactly one place: watched, once in the
\* waiting list, or bound to one server that exists, for every instance.
THEOREM ConnectionsInOnePlace == Spec => []ConnectionPlacement
<1>1. ASSUME TypeOK, Sessions, Placed(mgr)
      PROVE  ConnectionPlacement
  <2>1. \A s \in Free(mgr) : mgr.bound[s] = NoConnection
    BY <1>1, FreeSession DEF Sessions, Free, Unused
  <2> QED
    BY <1>1, <2>1 DEF ConnectionPlacement, WatchedNowhereElse, WaitingOnce, BoundOnce,
                      InQueue, Placed, Listed, Taken
<1> QED
  BY <1>1, AlwaysPlaced, TypeCorrect, SessionsAgree, PTL

-----------------------------------------------------------------------------
(* Every move is a step of the broker.                                     *)

Watched(m) == {c \in Connections : m.conn[c] = "looking"}

\* What the moves do to the connections that are watched.
LEMMA WatchedAfter ==
  ASSUME NEW m \in Memory, NEW n \in Memory, NEW c \in Connections, NEW place,
         Moved(m, n, c, place)
  PROVE  /\ place = "looking" => Watched(n) = Watched(m) \cup {c}
         /\ place # "looking" => Watched(n) = Watched(m) \ {c}
<1>1. \A d \in Connections : n.conn[d] = IF d = c THEN place ELSE m.conn[d]
  BY PlacesType DEF Moved
<1> QED
  BY <1>1 DEF Watched

LEMMA BrokerOpens ==
  ASSUME mgr \in Memory, mgr' \in Memory, Placed(mgr), NEW c \in Connections,
         Accepted(mgr, mgr', c)
  PROVE  Broker!Next
<1>1. mgr.conn[c] = "none" /\ mgr'.bound = mgr.bound /\ mgr'.waiting = mgr.waiting
  BY DEF Accepted
<1>2. Watched(mgr') = Watched(mgr) \cup {c}
  BY WatchedAfter DEF Accepted
<1>3. c \notin Broker!Known
  BY <1>1 DEF Broker!Known, Broker!Queued, Broker!Handed, Placed, Listed, Taken
<1>4. Broker!Accept(c)
  BY <1>1, <1>2, <1>3 DEF Broker!Accept, Watched
<1> QED
  BY <1>4 DEF Broker!Next

LEMMA BrokerHandles ==
  ASSUME mgr \in Memory, mgr' \in Memory, NEW c \in Connections,
         \/ Dismissed(mgr, mgr', c) \/ Enqueued(mgr, mgr', c)
         \/ \E s \in Servers : Served(mgr, mgr', c, s)
  PROVE  Broker!Next
<1>1. c \in Watched(mgr) /\ Watched(mgr') = Watched(mgr) \ {c}
  <2>1. \E place \in {"none", "waiting", "bound"} : Moved(mgr, mgr', c, place)
    BY DEF Dismissed, Enqueued, Served
  <2>2. mgr.conn[c] = "looking"
    BY DEF Dismissed, Enqueued, Served
  <2> QED
    BY <2>1, <2>2, WatchedAfter DEF Watched
<1>2. CASE Dismissed(mgr, mgr', c)
  <2>1. Broker!Refuse(c)
    BY <1>1, <1>2 DEF Dismissed, Broker!Refuse, Watched
  <2> QED
    BY <2>1 DEF Broker!Next
<1>3. CASE Enqueued(mgr, mgr', c)
  <2>1. Broker!Queue(c)
    BY <1>1, <1>3 DEF Enqueued, Broker!Queue, Watched
  <2> QED
    BY <2>1 DEF Broker!Next
<1>4. ASSUME NEW s \in Servers, Served(mgr, mgr', c, s)
      PROVE  Broker!Next
  <2>1. Broker!Serve(c, s)
    BY <1>1, <1>4 DEF Served, Broker!Serve, Watched
  <2> QED
    BY <2>1 DEF Broker!Next
<1> QED
  BY <1>2, <1>3, <1>4

LEMMA BrokerReleases ==
  ASSUME mgr \in Memory, mgr' \in Memory, Placed(mgr), NEW s \in Servers,
         \/ Freed(mgr, mgr', s)
         \/ \E u \in Memory : Freed(mgr, u, s) /\ TakesFirst(u, mgr', s)
  PROVE  Broker!Next
<1> DEFINE c == mgr.bound[s]
<1>0. /\ mgr.bound \in [Servers -> Connections \cup {NoConnection}]
      /\ mgr.waiting \in Seq(Connections)
      /\ c # NoConnection
  BY PlacesType DEF Freed
<1>1. CASE Freed(mgr, mgr', s)
  <2>1. Watched(mgr') = Watched(mgr) \cup {c}
    BY <1>0, <1>1, WatchedAfter DEF Freed
  <2>2. Broker!Release(s)
    BY <1>1, <2>1 DEF Freed, Broker!Release, Watched
  <2> QED
    BY <2>2 DEF Broker!Next
<1>2. ASSUME NEW u \in Memory, Freed(mgr, u, s), TakesFirst(u, mgr', s)
      PROVE  Broker!Next
  <2> DEFINE w == mgr.waiting[1]
             rank == [x \in {s} |-> 1]
  <2>1. /\ Watched(u) = Watched(mgr) \cup {c}
        /\ u.waiting = mgr.waiting
        /\ u.bound = [mgr.bound EXCEPT ![s] = NoConnection]
    BY <1>0, <1>2, WatchedAfter DEF Freed
  <2>2. /\ 1 <= Len(mgr.waiting)
        /\ mgr'.waiting = SubSeq(mgr.waiting, 1 + 1, Len(mgr.waiting))
        /\ mgr'.bound = [t \in Servers |-> IF t \in {s} THEN mgr.waiting[rank[t]]
                                                     ELSE u.bound[t]]
        /\ mgr'.conn = [d \in Connections |->
                          IF \E t \in {s} : mgr.waiting[rank[t]] = d THEN "bound"
                                                                  ELSE u.conn[d]]
    BY <1>2, <2>1 DEF TakesFirst, Assigned
  <2>3. rank[s] = 1
    OBVIOUS
  <2> HIDE DEF rank
  <2>4. /\ mgr.waiting # <<>> /\ Head(mgr.waiting) = w /\ w \in Connections
        /\ mgr'.waiting = Tail(mgr.waiting) /\ 1 \in DOMAIN mgr.waiting
    BY <1>0, <2>2
  <2>5. mgr'.bound = [mgr.bound EXCEPT ![s] = w]
    BY <1>0, <2>1, <2>2, <2>3
  <2>6. \A d \in Connections : mgr'.conn[d] = IF d = w THEN "bound" ELSE u.conn[d]
    BY <2>2, <2>3
  <2>7. mgr.conn[w] = "waiting" /\ mgr.conn[c] = "bound" /\ c \in Connections
    BY <1>0, <2>4 DEF Placed, Listed, Taken
  <2>8. Watched(mgr') = Watched(u) \ {w}
    BY <2>6 DEF Watched
  <2>9. w \notin Watched(mgr) /\ w # c
    BY <2>7 DEF Watched
  <2>10. Watched(mgr') = Watched(mgr) \cup {c}
    BY <2>1, <2>8, <2>9
  <2>11. Broker!Release(s)
    BY <1>0, <2>4, <2>5, <2>10 DEF Broker!Release, Watched
  <2> QED
    BY <2>11 DEF Broker!Next
<1> QED
  BY <1>1, <1>2

LEMMA BrokerTakes ==
  ASSUME mgr \in Memory, mgr' \in Memory, Placed(mgr), NEW k \in Nat,
         NEW S \in SUBSET Servers, NEW rank \in [S -> 1..k],
         Assigned(mgr, mgr', k, S, rank)
  PROVE  Broker!Next \/ UNCHANGED Broker!vars
<1> DEFINE l == Len(mgr.waiting)
           who == [i \in 1..k |-> CHOOSE s \in S : rank[s] = i]
           taken == [w \in Servers |->
                       IF \E i \in 1..k : who[i] = w
                       THEN mgr.waiting[CHOOSE i \in 1..k : who[i] = w] ELSE mgr.bound[w]]
<1>0. /\ mgr.waiting \in Seq(Connections) /\ l \in Nat /\ k <= l
      /\ mgr.bound \in [Servers -> Connections \cup {NoConnection}]
  BY PlacesType DEF Assigned
<1>1. \A i \in 1..k : who[i] \in S /\ rank[who[i]] = i
  BY DEF Assigned
<1>2. \A s \in S : rank[s] \in 1..k /\ who[rank[s]] = s
  BY <1>1 DEF Assigned
<1>3. who \in [1..k -> Servers]
  BY <1>1
<1> HIDE DEF who
<1>4. \A i, j \in 1..k : who[i] = who[j] => i = j
  BY <1>1
<1>5. mgr'.bound = taken
  <2>1. mgr'.bound = [s \in Servers |-> IF s \in S THEN mgr.waiting[rank[s]]
                                                ELSE mgr.bound[s]]
    BY DEF Assigned
  <2>2. ASSUME NEW w \in S PROVE taken[w] = mgr.waiting[rank[w]]
    <3>1. \A i \in 1..k : who[i] = w <=> i = rank[w]
      BY <1>1, <1>2
    <3>2. (CHOOSE i \in 1..k : who[i] = w) = rank[w]
      BY <1>2, <3>1
    <3> QED
      BY <1>2, <3>2
  <2>3. ASSUME NEW w \in Servers, w \notin S PROVE taken[w] = mgr.bound[w]
    BY <1>1, <2>3
  <2>4. taken = [w \in Servers |-> taken[w]]
    OBVIOUS
  <2> HIDE DEF taken
  <2>5. \A w \in Servers : taken[w] = IF w \in S THEN mgr.waiting[rank[w]]
                                              ELSE mgr.bound[w]
    BY <2>2, <2>3
  <2> QED
    BY <2>1, <2>4, <2>5
<1>6. Watched(mgr') = Watched(mgr)
  <2>1. \A d \in Connections : mgr'.conn[d] = IF \E s \in S : mgr.waiting[rank[s]] = d
                                              THEN "bound" ELSE mgr.conn[d]
    BY DEF Assigned
  <2>2. \A s \in S : rank[s] \in DOMAIN mgr.waiting
    BY <1>0, <1>2
  <2>3. \A d \in Connections :
          (\E s \in S : mgr.waiting[rank[s]] = d) => mgr.conn[d] = "waiting"
    BY <2>2 DEF Placed, Listed
  <2> QED
    BY <2>1, <2>3 DEF Watched
<1>7. mgr'.waiting = SubSeq(mgr.waiting, k + 1, Len(mgr.waiting))
  BY DEF Assigned
<1>8. CASE k = 0
  <2>1. mgr'.waiting = mgr.waiting
    BY <1>0, <1>7, <1>8
  <2>2. mgr'.bound = mgr.bound
    BY <1>0, <1>5, <1>8
  <2> QED
    BY <1>6, <2>1, <2>2 DEF Broker!vars, Watched
<1>9. CASE k # 0
  <2>1. k \in 1..Len(mgr.waiting)
    BY <1>0, <1>9
  <2>2. \A i \in 1..k : mgr.bound[who[i]] = NoConnection
    BY <1>1 DEF Assigned
  <2>3. Broker!Take
    BY <1>3, <1>4, <1>5, <1>6, <1>7, <2>1, <2>2 DEF Broker!Take, Watched
  <2> QED
    BY <2>3 DEF Broker!Next
<1> QED
  BY <1>8, <1>9

LEMMA BrokerLoses ==
  ASSUME mgr \in Memory, mgr' \in Memory, Placed(mgr), NEW D \in SUBSET Servers,
         Lost(mgr, mgr', D)
  PROVE  Broker!Next
<1>1. \A d \in Connections : d \in BoundTo(mgr, D) => mgr.conn[d] = "bound"
  BY DEF BoundTo, Placed, Taken
<1>2. \A d \in Connections :
        mgr'.conn[d] = IF d \in BoundTo(mgr, D) THEN "none" ELSE mgr.conn[d]
  BY DEF Lost
<1>3. Watched(mgr') = Watched(mgr)
  BY <1>1, <1>2 DEF Watched
<1>4. Broker!Lose(D)
  BY <1>3 DEF Lost, Broker!Lose, Watched
<1> QED
  BY <1>4 DEF Broker!Next

LEMMA MoveIsBrokerStep ==
  ASSUME mgr \in Memory, mgr' \in Memory, Placed(mgr), Move(mgr, mgr')
  PROVE  Broker!Next \/ UNCHANGED Broker!vars
<1>1. CASE Unmoved(mgr, mgr')
  BY <1>1 DEF Unmoved, Broker!vars
<1> QED
  BY <1>1, BrokerOpens, BrokerHandles, BrokerReleases, BrokerTakes, BrokerLoses DEF Move

\* The manager implements RequestBroker: every request waits its turn, goes to
\* one worker and is given up only with a reason the broker may have, for every
\* pool size, setting and bound.
THEOREM ManagerImplementsBroker == Spec => ImplementsBroker
<1>1. Init => Broker!Init
  BY DEF Init, InitMemory, Each, CreateNewProcess, Broker!Init
<1>2. ASSUME TypeOK, TypeOK', Sessions, Placed(mgr), [Next]_vars
      PROVE  [Broker!Next]_Broker!vars
  BY <1>2, NextMoves, MoveIsBrokerStep DEF TypeOK
<1> QED
  BY <1>1, <1>2, AlwaysPlaced, TypeCorrect, SessionsAgree, PTL
     DEF Spec, ImplementsBroker, Broker!Spec

\* The broker, as the manager plays it, never has a connection in two places.
THEOREM BrokerKeepsPlaces == Spec => [](Broker!TypeOK /\ Broker!OnePlace)
<1>1. ASSUME TypeOK PROVE Broker!TypeOK
  BY <1>1, PlacesType DEF TypeOK, Broker!TypeOK
<1>2. ASSUME TypeOK, Placed(mgr) PROVE Broker!OnePlace
  <2>1. /\ mgr.bound \in [Servers -> Connections \cup {NoConnection}]
        /\ mgr.waiting \in Seq(Connections)
    BY <1>2, PlacesType DEF TypeOK
  <2>2. Broker!Queued \subseteq Connections /\ Broker!Handed \subseteq Connections
    BY <2>1 DEF Broker!Queued, Broker!Handed
  <2>3. \A c \in Broker!Queued : mgr.conn[c] = "waiting"
    BY <1>2, <2>2 DEF Placed, Listed, Broker!Queued
  <2>4. \A c \in Broker!Handed : mgr.conn[c] = "bound"
    BY <1>2, <2>2 DEF Placed, Taken, Broker!Handed
  <2> QED
    BY <1>2, <2>3, <2>4 DEF Placed, Broker!OnePlace
<1> QED
  BY <1>1, <1>2, AlwaysPlaced, TypeCorrect, PTL

-----------------------------------------------------------------------------
(* Requests do not wait beside idle workers.                               *)

\* WorkConserving of a memory, also of a manager that has ended.
Conserving(m) == m.mode # "paused" => m.waiting = <<>> \/ m.idle = {}

\* Nobody becomes idle, nobody waits or ceases to, and the mode is the same.
Still(m, n) == n.idle \subseteq m.idle /\ n.waiting = m.waiting /\ n.mode = m.mode

\* Still but for the mode, which may change from paused when nobody is idle.
Calmer(m, n) ==
  /\ n.idle \subseteq m.idle /\ n.waiting = m.waiting
  /\ n.mode = m.mode \/ m.mode # "paused" \/ n.idle = {}

LEMMA StillIsTransitive ==
  ASSUME NEW a, NEW b, NEW c, Still(a, b), Still(b, c)
  PROVE  Still(a, c)
BY DEF Still

LEMMA CalmerConserves ==
  ASSUME NEW m, NEW n, Calmer(m, n) \/ Still(m, n), Conserving(m)
  PROVE  Conserving(n)
BY DEF Calmer, Still, Conserving

\* Every idle server takes messages: part of IdleSound.
Listening(m) == \A s \in m.idle : m.lastSent[s] # "null"

-----------------------------------------------------------------------------
(* Operators that are still.                                               *)

LEMMA OtherFieldsStill ==
  ASSUME NEW m \in Memory, NEW v
  PROVE  /\ Still(m, [m EXCEPT !.process = v])
         /\ Still(m, [m EXCEPT !.belowMin = v])
         /\ Still(m, [m EXCEPT !.sincePing = v])
         /\ Still(m, [m EXCEPT !.minIdle = v])
         /\ Still(m, [m EXCEPT !.prefs = v])
         /\ Still(m, [m EXCEPT !.idleTime = v])
         /\ Still(m, [m EXCEPT !.ttl = v])
         /\ Still(m, [m EXCEPT !.phase = v])
BY DEF Still, Memory

LEMMA ServerFieldsStill ==
  ASSUME NEW m \in Memory, NEW s, NEW v
  PROVE  /\ Still(m, [m EXCEPT !.armed[s] = v])
         /\ Still(m, [m EXCEPT !.onSend[s] = v])
         /\ Still(m, [m EXCEPT !.exiting[s] = v])
         /\ Still(m, [m EXCEPT !.extra[s] = v])
         /\ Still(m, [m EXCEPT !.ttl[s] = v])
BY DEF Still, Memory

LEMMA AppendMessageStill ==
  ASSUME NEW m \in Memory, NEW kind, NEW T
  PROVE  Still(m, AppendMessage(m, kind, T))
BY DEF Still, AppendMessage, Memory

LEMMA KillServersStill ==
  ASSUME NEW m \in Memory, NEW K \in SUBSET Servers
  PROVE  Still(m, KillServers(m, K))
<1> DEFINE r == RemoveServers(m, K \ Dying(m))
<1>1. r \in Memory
  BY RemoveServersType
<1>2. Still(m, r)
  BY DEF Still, RemoveServers, Memory
<1>3. KillServers(m, K) =
        [r EXCEPT !.phase = [s \in Servers |-> IF s \in K THEN "dying" ELSE @[s]]]
  BY DEF KillServers
<1> HIDE DEF r
<1>4. Still(r, KillServers(m, K))
  BY <1>1, <1>3 DEF Still, Memory
<1> QED
  BY <1>2, <1>4, StillIsTransitive

LEMMA FailServerStill ==
  ASSUME NEW m \in Memory, NEW s \in Servers
  PROVE  Still(m, FailServer(m, s))
<1> DEFINE u == [m EXCEPT !.armed[s] = FALSE]
<1>1. u \in Memory /\ Still(m, u)
  BY DEF Memory, Still
<1> HIDE DEF u
<1>2. Still(u, KillServers(u, {s}))
  BY <1>1, KillServersStill
<1> QED
  BY <1>1, <1>2, StillIsTransitive DEF FailServer, u

LEMMA MessagesStill ==
  ASSUME NEW m \in Memory, NEW s \in Servers
  PROVE  Still(m, BringUpToDate(m, s)) /\ Still(m, TakeNext(m, s))
BY DEF Still, BringUpToDate, TakeNext, Memory

LEMMA UnbindStill ==
  ASSUME NEW m \in Memory, NEW s \in Servers
  PROVE  Still(m, Unbind(m, s))
BY DEF Still, Unbind, Memory

LEMMA CreateNewProcessStill ==
  ASSUME NEW m \in Memory
  PROVE  Still(m, CreateNewProcess(m))
BY DEF Still, CreateNewProcess, Memory

\* Servers that are given connections were taken off the idle list before.
LEMMA AssignServersStill ==
  ASSUME NEW m \in Memory, NEW S \in SUBSET Servers, NEW to \in [S -> Connections]
  PROVE  Still(m, AssignServers(m, S, to))
<1> DEFINE b == BindServers(m, S, to)
           last == LastRequest(b, S)
           told == [b EXCEPT !.ttl = [s \in Servers |->
                      IF s \in last THEN SecondsToLive ELSE @[s]]]
           n == AssignServers(m, S, to)
<1>1. b \in Memory
  BY BindServersType
<1>2. n = IF last = {} THEN b ELSE AppendMessage(told, "exit", last)
  BY Zenon DEF AssignServers, CountRequests
<1>3. Still(m, b)
  BY DEF BindServers, Still, Memory
<1> HIDE DEF b
<1>4. told \in Memory
  BY <1>1, LastRequestType, Zenon
<1>5. Still(b, told)
  BY <1>1, OtherFieldsStill DEF Memory
<1> HIDE DEF told, last, n
<1>6. Still(b, n)
  BY <1>2, <1>4, <1>5, AppendMessageStill DEF Still
<1> QED
  BY <1>3, <1>6, StillIsTransitive DEF n

-----------------------------------------------------------------------------
(* Handing out work.                                                       *)

\* The end of DoPush and of RedeployServer: somebody becomes idle only when
\* nobody waits, or while paused.
LEMMA GiveWorkConserves ==
  ASSUME NEW m \in Memory, NEW s \in Servers, Conserving(m)
  PROVE  Conserving(GiveWork(m, s))
<1>1. CASE m.waiting # <<>> /\ m.mode # "paused"
  <2> DEFINE rest == Tail(m.waiting)
             w == [m EXCEPT !.waiting = rest]
             to == [x \in {s} |-> Head(m.waiting)]
  <2>1. m.waiting \in Seq(Connections)
    BY DEF Memory
  <2>2. Head(m.waiting) \in Connections /\ rest \in Seq(Connections)
    BY <1>1, <2>1
  <2>3. GiveWork(m, s) = AssignServers(w, {s}, to)
    BY <1>1 DEF GiveWork, AssignServer
  <2>4. w \in Memory /\ w.idle = m.idle
    BY <2>2 DEF Memory
  <2>5. {s} \in SUBSET Servers /\ to \in [{s} -> Connections]
    BY <2>2
  <2>6. m.idle = {}
    BY <1>1 DEF Conserving
  <2> HIDE DEF w, to, rest
  <2>7. GiveWork(m, s).idle = {}
    BY <2>3, <2>4, <2>5, <2>6, AssignServersStill DEF Still
  <2> QED
    BY <2>7 DEF Conserving
<1>2. CASE ~(m.waiting # <<>> /\ m.mode # "paused")
  <2>1. GiveWork(m, s) = AddIdleServer(m, s)
    BY <1>2 DEF GiveWork
  <2>2. AddIdleServer(m, s).waiting = m.waiting /\ AddIdleServer(m, s).mode = m.mode
    BY DEF AddIdleServer, Memory
  <2> QED
    BY <1>2, <2>1, <2>2 DEF Conserving
<1> QED
  BY <1>1, <1>2

LEMMA RedeployServerConserves ==
  ASSUME NEW m \in Memory, NEW s \in Servers, Conserving(m)
  PROVE  Conserving(RedeployServer(m, s))
<1> DEFINE u == Unbind(m, s)
           t == TakeNext(u, s)
<1>1. u \in Memory /\ Conserving(u)
  BY UnbindType, UnbindStill, CalmerConserves
<1>2. RedeployServer(m, s) = IF HasNext(u, s) THEN [t EXCEPT !.onSend[s] = "DoPush"]
                                              ELSE GiveWork(u, s)
  BY DEF RedeployServer
<1> HIDE DEF u
<1>3. CASE HasNext(u, s)
  <2>1. t \in Memory /\ Still(u, t)
    BY <1>1, <1>3, TakeNextType, MessagesStill
  <2> HIDE DEF t
  <2>2. Still(u, [t EXCEPT !.onSend[s] = "DoPush"])
    BY <2>1, ServerFieldsStill, StillIsTransitive
  <2> QED
    BY <1>1, <1>2, <1>3, <2>2, CalmerConserves
<1>4. CASE ~HasNext(u, s)
  BY <1>1, <1>2, <1>4, GiveWorkConserves
<1> QED
  BY <1>3, <1>4

\* A request waits only when others do, or nobody is idle, or while paused.
LEMMA StartNewRequestConserves ==
  ASSUME NEW m \in Memory, NEW c \in Connections, NEW s \in Servers, Conserving(m)
  PROVE  Conserving(StartNewRequest(m, c, s))
<1> DEFINE n == StartNewRequest(m, c, s)
<1>1. CASE m.waiting = <<>> /\ m.idle # {} /\ m.mode # "paused"
  <2> DEFINE g == GetIdleServers(m, {s})
             to == [x \in {s} |-> c]
  <2>1. g \in Memory /\ g.waiting = m.waiting
    BY GetIdleServersType, GetIdleServersUnmoved DEF Unmoved
  <2>2. n = AssignServers(g, {s}, to)
    BY <1>1 DEF StartNewRequest, AssignServer
  <2>3. {s} \in SUBSET Servers /\ to \in [{s} -> Connections]
    OBVIOUS
  <2> HIDE DEF g, to, n
  <2>4. n.waiting = <<>>
    BY <1>1, <2>1, <2>2, <2>3, AssignServersStill DEF Still
  <2> QED
    BY <2>4 DEF Conserving, n
<1>2. CASE ~(m.waiting = <<>> /\ m.idle # {} /\ m.mode # "paused")
  <2> DEFINE rest == Append(m.waiting, c)
             w == [m EXCEPT !.waiting = rest, !.conn[c] = "waiting"]
  <2>1. n = CreateNewProcess(w)
    BY <1>2 DEF StartNewRequest, Memory
  <2>2. rest \in Seq(Connections)
    BY DEF Memory
  <2> HIDE DEF rest
  <2>3. w \in Memory /\ w.idle = m.idle /\ w.mode = m.mode
    BY <2>2 DEF Memory
  <2> HIDE DEF w, n
  <2>4. Still(w, n)
    BY <2>1, <2>3, CreateNewProcessStill
  <2> QED
    BY <1>2, <2>3, <2>4 DEF Still, Conserving, n
<1> QED
  BY <1>1, <1>2

-----------------------------------------------------------------------------
(* Stops and ticks.                                                        *)

LEMMA CalmerIsTransitive ==
  ASSUME NEW a, NEW b, NEW c, Calmer(a, b) \/ Still(a, b), Calmer(b, c) \/ Still(b, c)
  PROVE  Calmer(a, c)
BY DEF Calmer, Still

\* Every idle server reads the exit message.
LEMMA StopAllServersEmpties ==
  ASSUME NEW m \in Memory, Listening(m)
  PROVE  StopAllServers(m).idle = {} /\ StopAllServers(m).waiting = m.waiting
<1> DEFINE a == AppendMessage(m, "exit", Servers)
<1>1. a \in Memory /\ a.waiting = m.waiting
  BY AppendMessageType, AppendMessageUnmoved DEF Kinds, Unmoved
<1>2. a.idle = {}
  BY DEF AppendMessage, Listening, Memory
<1>3. StopAllServers(m) =
        [a EXCEPT !.ttl = [s \in Servers |->
           IF m.phase[s] = "live" /\ @[s] = -1 THEN SecondsToLive ELSE @[s]]]
  BY DEF StopAllServers
<1> HIDE DEF a
<1> QED
  BY <1>1, <1>2, <1>3 DEF Memory

LEMMA DoStopEmpties ==
  ASSUME NEW m \in Memory, Listening(m)
  PROVE  DoStop(m).idle = {} /\ DoStop(m).waiting = m.waiting
<1> DEFINE a == StopAllServers(m)
           told == [a EXCEPT !.mode = "stopping"]
<1>1. a \in Memory /\ a.idle = {} /\ a.waiting = m.waiting
  BY StopAllServersType, StopAllServersEmpties
<1>2. DoStop(m) \in {told, [told EXCEPT !.process = "exited"]}
  BY DEF DoStop
<1> HIDE DEF a
<1>3. told \in Memory /\ told.idle = {} /\ told.waiting = m.waiting
  BY <1>1 DEF Memory, Modes
<1> HIDE DEF told
<1>4. Still(told, [told EXCEPT !.process = "exited"])
  BY <1>3, OtherFieldsStill
<1> QED
  BY <1>2, <1>3, <1>4 DEF Still

LEMMA CheckPingCalms ==
  ASSUME NEW m \in Memory, Listening(m)
  PROVE  Calmer(m, CheckPing(m)) /\ Listening(CheckPing(m))
<1> DEFINE below == Lesser(m.belowMin + 1, StartTimeout + 1)
           since == IF PingTimeout > 0 THEN Lesser(m.sincePing + 1, PingTimeout) ELSE 0
           counted == [m EXCEPT !.belowMin = below, !.sincePing = since]
<1>1. below \in Nat /\ since \in Nat
  <2>1. /\ m.belowMin + 1 \in Nat /\ StartTimeout + 1 \in Nat
        /\ m.sincePing + 1 \in Nat /\ PingTimeout \in Nat
    BY TimerAssumption DEF Memory
  <2> QED
    BY <2>1, LesserType
<1>2. CheckPing(m) \in {counted, DoStop(counted)}
  <2>1. counted = [m EXCEPT
          !.belowMin = Lesser(@ + 1, StartTimeout + 1),
          !.sincePing = IF PingTimeout > 0 THEN Lesser(@ + 1, PingTimeout) ELSE 0]
    BY DEF Memory
  <2> QED
    BY <2>1 DEF CheckPing
<1> HIDE DEF below, since
<1>3. counted \in Memory
  BY <1>1 DEF Memory
<1>4. Still(m, counted) /\ Listening(counted)
  BY DEF Memory, Still, Listening
<1> HIDE DEF counted
<1>5. DoStop(counted).idle = {} /\ DoStop(counted).waiting = counted.waiting
  BY <1>3, <1>4, DoStopEmpties
<1> QED
  BY <1>2, <1>4, <1>5 DEF Calmer, Still, Listening

LEMMA PeriodicIdleServerPurgeStill ==
  ASSUME NEW m \in Memory, NEW head \in Servers
  PROVE  Still(m, PeriodicIdleServerPurge(m, head))
<1> DEFINE times == [s \in Servers |->
                       IF s \in m.idle THEN Lesser(m.idleTime[s] + 1, IdleTimeBound)
                                       ELSE m.idleTime[s]]
           older == [m EXCEPT !.idleTime = times]
           told == [older EXCEPT !.ttl[head] = SecondsToLive]
           spare == m.serverCount > MinServers /\ m.minIdle >= 1
           purged == IF spare /\ older.idleTime[head] > IdleLimit(m)
                     THEN AppendMessage(told, "exit", {head}) ELSE older
<1>1. times \in [Servers -> Nat]
  BY IdleTimesType
<1>2. older = [m EXCEPT !.idleTime = [s \in Servers |->
                 IF s \in m.idle THEN Lesser(@[s] + 1, IdleTimeBound) ELSE @[s]]]
  BY DEF Memory
<1>3. PeriodicIdleServerPurge(m, head) = [purged EXCEPT !.minIdle = Cardinality(purged.idle)]
  BY <1>2, Zenon DEF PeriodicIdleServerPurge
<1> HIDE DEF times
<1>4. older \in Memory /\ Still(m, older)
  BY <1>1, OtherFieldsStill DEF Memory
<1> HIDE DEF older
<1>5. told \in Memory /\ Still(m, told)
  BY <1>4, TtlType, ServerFieldsStill, StillIsTransitive
<1> HIDE DEF told, spare
<1>6. /\ AppendMessage(told, "exit", {head}) \in Memory
      /\ Still(m, AppendMessage(told, "exit", {head}))
  BY <1>5, AppendMessageType, AppendMessageStill, StillIsTransitive DEF Kinds
<1>7. purged \in Memory /\ Still(m, purged)
  BY <1>4, <1>6
<1> HIDE DEF purged
<1> QED
  BY <1>3, <1>7, OtherFieldsStill, StillIsTransitive

LEMMA CheckPoolCalms ==
  ASSUME NEW m \in Memory, NEW head \in Servers, Listening(m)
  PROVE  Calmer(m, CheckPool(m, head))
<1> DEFINE p == CheckPing(m)
           q == IF p.serverCount >= MinServers THEN [p EXCEPT !.belowMin = 0] ELSE p
<1>1. p \in Memory /\ Calmer(m, p) /\ Listening(p)
  BY CheckPingType, CheckPingCalms
<1>2. CheckPool(m, head) \in {m, p, DoStop(p), PeriodicIdleServerPurge(q, head)}
  BY DEF CheckPool
<1> HIDE DEF p
<1>3. q \in Memory /\ Still(p, q)
  <2>1. [p EXCEPT !.belowMin = 0] \in Memory
    BY <1>1 DEF Memory
  <2> QED
    BY <1>1, <2>1, OtherFieldsStill DEF Still
<1> HIDE DEF q
<1>4. Calmer(p, DoStop(p))
  BY <1>1, DoStopEmpties DEF Calmer
<1>5. Calmer(p, PeriodicIdleServerPurge(q, head))
  BY <1>3, PeriodicIdleServerPurgeStill, CalmerIsTransitive
<1>6. Calmer(m, m)
  BY DEF Calmer
<1> QED
  BY <1>1, <1>2, <1>4, <1>5, <1>6, CalmerIsTransitive

LEMMA CheckedCalms ==
  ASSUME mgr \in Memory, Listening(mgr), NEW head \in Servers
  PROVE  Calmer(mgr, Checked(head))
<1> DEFINE a == CountDelay(mgr)
           K == Overdue(a)
           k == KillServers(a, K)
           b == CheckServers(a)
<1>1. a \in Memory /\ Still(mgr, a) /\ Listening(a)
  <2>1. Still(mgr, a) /\ a.lastSent = mgr.lastSent
    BY DEF CountDelay, Still, Memory
  <2> QED
    BY <2>1, CountDelayType DEF Still, Listening
<1> HIDE DEF a
<1>2. K \in SUBSET Servers
  BY DEF Overdue, TooLongDying, TooLongBusy, Live
<1>3. b.idle = k.idle /\ b.lastSent = k.lastSent /\ Still(k, b) /\ k \in Memory
  <2>1. k \in Memory
    BY <1>1, <1>2, KillServersType
  <2> QED
    BY <2>1 DEF CheckServers, Still, Memory
<1> HIDE DEF K
<1>4. k.idle = a.idle \ (K \ Dying(a)) /\ \A s \in k.idle : k.lastSent[s] = a.lastSent[s]
  BY <1>1, <1>2 DEF KillServers, RemoveServers, Memory
<1>5. Still(a, k)
  BY <1>1, <1>2, KillServersStill
<1>6. Listening(b)
  BY <1>1, <1>3, <1>4 DEF Listening
<1>7. b \in Memory
  BY <1>1, CheckServersType
<1>8. Checked(head) = CheckPool(b, head)
  BY DEF Checked, a
<1> HIDE DEF k, b
<1>9. Calmer(b, Checked(head))
  BY <1>6, <1>7, <1>8, CheckPoolCalms
<1> QED
  BY <1>1, <1>3, <1>5, <1>9, StillIsTransitive, CalmerIsTransitive

\* A reload that ends leaves a mode that was not paused either.
LEMMA DeleteServersCalms ==
  ASSUME NEW m \in Memory
  PROVE  Calmer(m, DeleteServers(m))
BY DEF Calmer, DeleteServers, LastServerStopped, Memory

LEMMA TickConserves ==
  ASSUME TypeOK, Listening(mgr), Conserving(mgr), Tick
  PROVE  Conserving(mgr')
<1>0. mgr \in Memory
  BY DEF TypeOK
<1>1. PICK head \in Servers : mgr' = Ticked(head)
  BY DEF Tick
<1> DEFINE c == Checked(head)
           d == DeleteServers(c)
<1>2. c \in Memory /\ Calmer(mgr, c)
  BY <1>0, CheckedUnmoved, CheckedCalms
<1>3. mgr' \in {c, d, CreateNewProcess(d)}
  BY <1>1 DEF Ticked, CleanUp
<1> HIDE DEF c
<1>4. /\ d \in Memory /\ Calmer(c, d) /\ Still(d, CreateNewProcess(d))
  BY <1>2, DeleteServersType, DeleteServersCalms, CreateNewProcessStill
<1> HIDE DEF d
<1> QED
  BY <1>2, <1>3, <1>4, CalmerConserves

-----------------------------------------------------------------------------
(* The handlers.                                                           *)

LEMMA RequestArrivedConserves ==
  ASSUME TypeOK, Conserving(mgr), NEW c \in Connections, RequestArrived(c)
  PROVE  Conserving(mgr')
<1>0. mgr \in Memory
  BY DEF TypeOK
<1>1. CASE Refused(c)
  <2>1. Still(mgr, [mgr EXCEPT !.conn[c] = "none"])
    BY <1>0 DEF Still, Memory
  <2> QED
    BY <1>1, <2>1, CalmerConserves DEF RequestArrived
<1>2. CASE ~Refused(c)
  BY <1>0, <1>2, StartNewRequestConserves DEF RequestArrived
<1> QED
  BY <1>1, <1>2

LEMMA ServerStartedConserves ==
  ASSUME TypeOK, Conserving(mgr), NEW s \in Servers, ServerStarted(s)
  PROVE  Conserving(mgr')
<1>0. mgr \in Memory
  BY DEF TypeOK
<1> DEFINE count == (mgr.serverCount + 1) % CountWord
<1>1. count \in 0..CountWord-1
  <2>1. mgr.serverCount + 1 \in Int
    BY <1>0, BoundAssumption DEF Memory
  <2> QED
    BY <2>1, WordType
<1>2. CASE outbox[s] # <<>>
  <2> DEFINE up == [mgr EXCEPT !.serverCount = count, !.started[s] = TRUE,
                               !.pending = FALSE]
             b == BringUpToDate(up, s)
  <2>1. mgr' = RedeployServer(b, s)
    BY <1>0, <1>2 DEF ServerStarted, StartSucceeded, Memory
  <2> HIDE DEF count
  <2>2. up \in Memory /\ Still(mgr, up)
    BY <1>0, <1>1 DEF Memory, Still
  <2> HIDE DEF up
  <2>3. b \in Memory /\ Still(mgr, b)
    BY <2>2, BringUpToDateType, MessagesStill, StillIsTransitive
  <2> HIDE DEF b
  <2> QED
    BY <2>1, <2>3, CalmerConserves, RedeployServerConserves
<1>3. CASE outbox[s] = <<>>
  <2> DEFINE f == [mgr EXCEPT !.serverCount = count, !.delay = StartDelay]
  <2>1. mgr' = FailServer(f, s)
    BY <1>0, <1>3 DEF ServerStarted, StartFailed, Memory
  <2> HIDE DEF count
  <2>2. f \in Memory
    <3>1. StartDelay \in 0..StartDelay
      BY TimerAssumption
    <3> QED
      BY <1>0, <1>1, <3>1 DEF Memory
  <2>3. Still(mgr, f)
    BY <1>0 DEF Memory, Still
  <2> HIDE DEF f
  <2> QED
    BY <2>1, <2>2, <2>3, FailServerStill, StillIsTransitive, CalmerConserves
<1> QED
  BY <1>2, <1>3

LEMMA RecvServerMsgConserves ==
  ASSUME TypeOK, Conserving(mgr), NEW s \in Servers, RecvServerMsg(s)
  PROVE  Conserving(mgr')
<1>0. mgr \in Memory
  BY DEF TypeOK
<1>1. mgr' \in {RedeployServer(mgr, s), [mgr EXCEPT !.extra[s] = ExtraTimeout],
                [mgr EXCEPT !.onSend[s] = "ProcessNeedRespCmd"], FailServer(mgr, s)}
  BY Zenon DEF RecvServerMsg
<1>2. Conserving(RedeployServer(mgr, s))
  BY <1>0, RedeployServerConserves
<1>3. /\ Still(mgr, [mgr EXCEPT !.extra[s] = ExtraTimeout])
      /\ Still(mgr, [mgr EXCEPT !.onSend[s] = "ProcessNeedRespCmd"])
      /\ Still(mgr, FailServer(mgr, s))
  BY <1>0, ServerFieldsStill, FailServerStill
<1> QED
  BY <1>1, <1>2, <1>3, CalmerConserves

\* A handler that sends: when that fails, the server goes and nobody comes.
LEMMA SendOrConserves ==
  ASSUME Conserving(mgr), NEW s \in Servers, NEW msg, NEW n, NEW m \in Memory,
         Still(mgr, m), Conserving(n), SendOr(s, msg, n, FailServer(m, s))
  PROVE  Conserving(mgr')
<1>1. Still(mgr, FailServer(m, s))
  BY FailServerStill, StillIsTransitive
<1> QED
  BY <1>1, CalmerConserves DEF SendOr

LEMMA WakeupServerConserves ==
  ASSUME TypeOK, Conserving(mgr), NEW s \in Servers, WakeupServer(s)
  PROVE  Conserving(mgr')
<1> DEFINE m == [mgr EXCEPT !.onSend[s] = "none"]
<1>0. mgr \in Memory
  BY DEF TypeOK
<1>1. m \in Memory /\ Still(mgr, m)
  BY <1>0, ServerFieldsStill DEF Memory, Callbacks
<1>2. \/ mgr' = [mgr EXCEPT !.process = "crashed"]
      \/ SendOr(s, "request", m, FailServer(m, s))
  BY DEF WakeupServer
<1> HIDE DEF m
<1>3. Conserving(m) /\ Conserving([mgr EXCEPT !.process = "crashed"])
  BY <1>0, <1>1, OtherFieldsStill, CalmerConserves
<1>4. CASE SendOr(s, "request", m, FailServer(m, s))
  BY <1>1, <1>3, <1>4, SendOrConserves
<1> QED
  BY <1>2, <1>3, <1>4

LEMMA DoPushConserves ==
  ASSUME TypeOK, Conserving(mgr), NEW s \in Servers, DoPush(s)
  PROVE  Conserving(mgr')
<1> DEFINE e == mgr.exiting[s] \/ mgr.lastSent[s] = "exit"
           m == [mgr EXCEPT !.exiting[s] = e]
           done == [m EXCEPT !.onSend[s] = "none"]
           n == AfterPush(m, s)
<1>0. mgr \in Memory
  BY DEF TypeOK
<1>1. m = [mgr EXCEPT !.exiting[s] = @ \/ mgr.lastSent[s] = "exit"]
  BY <1>0 DEF Memory
<1>2. \/ mgr' = [mgr EXCEPT !.process = "crashed"]
      \/ SendOr(s, mgr.lastSent[s], n, FailServer(m, s))
  BY <1>1 DEF DoPush
<1>3. e \in BOOLEAN
  OBVIOUS
<1> HIDE DEF e
<1>4. m \in Memory /\ Still(mgr, m)
  BY <1>0, <1>3, ServerFieldsStill DEF Memory
<1> HIDE DEF m
<1>5. done \in Memory /\ Still(m, done)
  BY <1>4, ServerFieldsStill DEF Memory, Callbacks
<1>6. n \in {done, TakeNext(m, s), GiveWork(done, s)}
  BY DEF AfterPush
<1> HIDE DEF done
<1>7. Conserving(m) /\ Conserving(done) /\ Conserving(GiveWork(done, s))
  BY <1>4, <1>5, CalmerConserves, GiveWorkConserves
<1>8. Conserving(n)
  BY <1>4, <1>6, <1>7, MessagesStill, CalmerConserves
<1> HIDE DEF n
<1>9. Conserving([mgr EXCEPT !.process = "crashed"])
  BY <1>0, OtherFieldsStill, CalmerConserves
<1>10. CASE SendOr(s, mgr.lastSent[s], n, FailServer(m, s))
  BY <1>4, <1>8, <1>10, SendOrConserves
<1> QED
  BY <1>2, <1>9, <1>10

LEMMA ProcessNeedRespCmdConserves ==
  ASSUME TypeOK, Conserving(mgr), NEW s \in Servers, ProcessNeedRespCmd(s)
  PROVE  Conserving(mgr')
<1>0. mgr \in Memory /\ Still(mgr, mgr)
  BY DEF TypeOK, Still
<1>1. Conserving([mgr EXCEPT !.onSend[s] = "none"])
  BY <1>0, ServerFieldsStill, CalmerConserves
<1> QED
  BY <1>0, <1>1, SendOrConserves DEF ProcessNeedRespCmd

\* A resume unites as many as there are on the shorter list, which is then empty.
LEMMA DoResumeConserves ==
  ASSUME TypeOK, DoResume
  PROVE  Conserving(mgr')
<1> DEFINE l == Len(mgr.waiting)
           i == Cardinality(mgr.idle)
           k == Lesser(l, i)
<1>0. mgr \in Memory /\ mgr.idle \in SUBSET Servers /\ mgr.waiting \in Seq(Connections)
  BY DEF TypeOK, Memory
<1>1. l \in Nat /\ i \in Nat /\ k \in {l, i} /\ k <= l /\ k \in Nat
  <2>1. l \in Nat /\ i \in Nat
    BY <1>0, CardinalityOfServers
  <2> QED
    BY <2>1 DEF Lesser
<1>2. PICK S \in SUBSET mgr.idle : \E rank \in [S -> 1..k] :
        /\ Cardinality(S) = k
        /\ mgr' = AssignServers([GetIdleServers(mgr, S) EXCEPT
                                   !.mode = "running",
                                   !.waiting = SubSeq(@, k + 1, Len(@))],
                                S, [s \in S |-> mgr.waiting[rank[s]]])
  BY Zenon DEF DoResume
<1> HIDE DEF k
<1>3. PICK rank \in [S -> 1..k] :
        /\ Cardinality(S) = k
        /\ mgr' = AssignServers([GetIdleServers(mgr, S) EXCEPT
                                   !.mode = "running",
                                   !.waiting = SubSeq(@, k + 1, Len(@))],
                                S, [s \in S |-> mgr.waiting[rank[s]]])
  BY <1>2
<1> DEFINE rest == SubSeq(mgr.waiting, k + 1, l)
           g == GetIdleServers(mgr, S)
           r == [g EXCEPT !.mode = "running", !.waiting = rest]
           to == [s \in S |-> mgr.waiting[rank[s]]]
<1>4. rest \in Seq(Connections)
  BY <1>0, <1>1
<1>5. S \in SUBSET Servers
  BY <1>0
<1>6. g \in Memory /\ g.waiting = mgr.waiting /\ g.idle = mgr.idle \ S
  BY <1>0, <1>5, GetIdleServersType DEF GetIdleServers, Memory
<1>7. [GetIdleServers(mgr, S) EXCEPT
        !.mode = "running", !.waiting = SubSeq(@, k + 1, Len(@))] = r
  BY <1>6 DEF Memory
<1> HIDE DEF rest, g
<1>8. r \in Memory /\ r.waiting = rest /\ r.idle = mgr.idle \ S
  BY <1>4, <1>6 DEF Memory, Modes
<1> HIDE DEF r
<1>9. to \in [S -> Connections]
  <2>1. \A t \in S : rank[t] \in 1..Len(mgr.waiting)
    BY <1>1, <1>3
  <2>2. \A t \in S : mgr.waiting[rank[t]] \in Connections
    BY <1>0, <2>1
  <2> QED
    BY <2>2
<1>10. mgr' = AssignServers(r, S, to)
  BY <1>3, <1>7
<1> HIDE DEF to
<1>11. Still(r, mgr')
  BY <1>5, <1>8, <1>9, <1>10, AssignServersStill
<1>12. CASE k = l
  <2>1. rest = <<>>
    BY <1>0, <1>1, <1>12 DEF rest
  <2> QED
    BY <1>8, <1>11, <2>1 DEF Still, Conserving
<1>13. CASE k = i
  <2>1. IsFiniteSet(mgr.idle)
    BY <1>0, PoolAssumption, FS_Subset
  <2>2. S = mgr.idle
    BY <1>2, <1>13, <2>1, FS_Subset
  <2> QED
    BY <1>8, <1>11, <2>2 DEF Still, Conserving
<1> QED
  BY <1>1, <1>12, <1>13

LEMMA AdministratorConserves ==
  ASSUME TypeOK, Listening(mgr), Conserving(mgr), Administrator
  PROVE  Conserving(mgr')
<1>0. mgr \in Memory /\ Live(mgr) \in SUBSET Servers
  BY DEF TypeOK, Live
<1>1. CASE DoReload
  <2> DEFINE a == StopAllServers(mgr)
  <2>1. a \in Memory /\ a.idle = {}
    BY <1>0, StopAllServersType, StopAllServersEmpties
  <2>2. mgr' = [a EXCEPT !.mode = "reloading"]
    BY <1>1 DEF DoReload
  <2> HIDE DEF a
  <2> QED
    BY <2>1, <2>2 DEF Memory, Conserving
<1>2. CASE DoRestart
  <2> DEFINE a == KillServers(mgr, Live(mgr))
  <2>1. a \in Memory /\ Still(mgr, a) /\ mgr.mode = "running"
    BY <1>0, <1>2, KillServersType, KillServersStill DEF DoRestart
  <2>2. mgr' = [a EXCEPT !.mode = "reloading"]
    BY <1>2 DEF DoRestart
  <2> HIDE DEF a
  <2> QED
    BY <2>1, <2>2 DEF Memory, Still, Conserving
<1>3. CASE DoExit
  <2> DEFINE a == KillServers(mgr, Live(mgr))
  <2>1. a \in Memory /\ Still(mgr, a)
    BY <1>0, KillServersType, KillServersStill
  <2>2. mgr' = [a EXCEPT !.process = "exited"]
    BY <1>3 DEF DoExit
  <2> HIDE DEF a
  <2> QED
    BY <2>1, <2>2, OtherFieldsStill, StillIsTransitive, CalmerConserves
<1>4. CASE DoStopCommand
  BY <1>0, <1>4, DoStopEmpties DEF DoStopCommand, Conserving
<1>5. CASE DoPause
  BY <1>0, <1>5 DEF DoPause, Memory, Conserving
<1>6. CASE DoResume
  BY <1>6, DoResumeConserves
<1>7. CASE SetPref
  <2> DEFINE a == AppendMessage(mgr, "pref", Servers)
  <2>1. PICK n : mgr' = [a EXCEPT !.prefs = n]
    BY <1>7 DEF SetPref
  <2>2. a \in Memory /\ Still(mgr, a)
    BY <1>0, AppendMessageType, AppendMessageStill DEF Kinds
  <2> HIDE DEF a
  <2> QED
    BY <2>1, <2>2, OtherFieldsStill, StillIsTransitive, CalmerConserves
<1>8. CASE DoPing
  BY <1>0, <1>8, OtherFieldsStill, CalmerConserves DEF DoPing
<1> QED
  BY <1>1, <1>2, <1>3, <1>4, <1>5, <1>6, <1>7, <1>8 DEF Administrator

LEMMA NextConserves ==
  ASSUME TypeOK, Listening(mgr), Conserving(mgr), [Next]_vars
  PROVE  Conserving(mgr')
<1>0. mgr \in Memory
  BY DEF TypeOK
<1>1. CASE UNCHANGED mgr
  BY <1>1 DEF Conserving
<1>2. ASSUME NEW c \in Connections, NewConnection(c) PROVE Conserving(mgr')
  BY <1>0, <1>2 DEF NewConnection, Memory, Conserving
<1>3. ASSUME NEW s \in Servers, ServerEvent(s) PROVE Conserving(mgr')
  BY <1>3, ServerStartedConserves, RecvServerMsgConserves, WakeupServerConserves,
     DoPushConserves, ProcessNeedRespCmdConserves DEF ServerEvent
<1>4. ASSUME NEW c \in Connections, ClientRequest(c) \/ ClientClose(c)
      PROVE  UNCHANGED mgr
  BY <1>4 DEF ClientRequest, ClientClose
<1>5. ASSUME NEW s \in Servers, Worker(s) PROVE UNCHANGED mgr
  BY <1>5 DEF Worker, WorkerStarts, WorkerDies, WorkerReads, WorkerEnds, ExecNoRespCmd,
              ExecNeedRespCmd, PageCommand, WorkerStep
<1>6. UNCHANGED vars => UNCHANGED mgr
  BY DEF vars
<1> QED
  BY <1>1, <1>2, <1>3, <1>4, <1>5, <1>6, RequestArrivedConserves, TickConserves,
     AdministratorConserves DEF Next

\* Unless paused, no request waits while a worker is idle, for every pool size,
\* setting and bound: every handler that makes a worker idle or lets a request
\* wait hands over first, and a stop of a paused manager leaves nobody idle.
THEOREM WorkIsConserved == Spec => []WorkConserving
<1>1. Init => Conserving(mgr)
  BY InitType, PoolAssumption
     DEF Init, InitMemory, Each, CreateNewProcess, Conserving
<1>2. ASSUME TypeOK, IdleSound, Conserving(mgr), [Next]_vars
      PROVE  Conserving(mgr)'
  BY <1>2, NextConserves DEF IdleSound, Listening
<1>3. Conserving(mgr) => WorkConserving
  BY DEF Conserving, WorkConserving
<1> QED
  BY <1>1, <1>2, <1>3, TypeCorrect, IdleServersAreReady, PTL DEF Spec
=============================================================================
