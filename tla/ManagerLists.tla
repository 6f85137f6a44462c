----------------------------- MODULE ManagerLists -----------------------------
(***************************************************************************)
(* The lists of the Jaxer Manager: idle servers, linked by m_nextIdle, and *)
(* one list of messages for all servers, in which each server remembers    *)
(* the one it was sent last (m_lastSent).  Messages are counted by those   *)
(* who remember them and deleted from the front; a Server or a Message may *)
(* get the address of one that was deleted.                                *)
(*                                                                         *)
(* JaxerManager has a set of idle servers and a queue for each server      *)
(* instead; Mailboxes says what that means, and this module implements it. *)
(* An operator takes the manager's memory from before a function to after  *)
(* it.                                                                     *)
(*                                                                         *)
(* A definition whose comment starts with "Faulty" is a plausible error in *)
(* the one after it; the specification does not use it.                    *)
(***************************************************************************)
EXTENDS Integers, Sequences, FiniteSets, SequencesExt

CONSTANTS
  Servers,     \* addresses of Server objects
  NoServer,    \* the null pointer to one
  RoundRobin,  \* setting roundrobinjaxers
  MaxSlots,    \* bound: addresses of Message objects
  MaxMessages, \* bound: messages appended in all
  MaxPrefs     \* bound: preferences set

ASSUME ListAssumption ==
  /\ IsFiniteSet(Servers)
  /\ NoServer \notin Servers
  /\ RoundRobin \in BOOLEAN
  /\ MaxSlots \in Nat \ {0}
  /\ MaxMessages \in Nat
  /\ MaxPrefs \in Nat

VARIABLES
  mem,    \* the lists and the objects on them
  prefs   \* g_PrefSettings.size()

vars == <<mem, prefs>>

Slots == 1..MaxSlots
NoMessage == 0
Kinds == {"pref", "exit"}

\* What a message says, and to whom; the number tells messages apart.
Texts == [kind : Kinds, number : 1..MaxMessages,
          for : {Servers} \cup {{s} : s \in Servers}]
NoText == [kind |-> "null", number |-> 0, for |-> {}]

Memory ==
  [ idleServers : Servers \cup {NoServer},             \* g_idleServers
    nextIdle    : [Servers -> Servers \cup {NoServer}],
    idleCount   : Nat,                                 \* g_idleCount
    lastSent    : [Servers -> Slots \cup {NoMessage}],
    used        : SUBSET Slots,
    first       : Slots,                               \* s_first
    last        : Slots,                               \* s_last
    next        : [Slots -> Slots \cup {NoMessage}],
    refcount    : [Slots -> Nat],
    target      : [Slots -> Servers \cup {NoServer}],
    cancelled   : [Slots -> BOOLEAN],
    text        : [Slots -> Texts \cup {NoText}],
    appended    : 0..MaxMessages,
    doing       : [Servers -> {"none", "starting", "idle", "busy", "pushing",
                               "exiting", "removed"}] ]

\* The list of messages starts with a NullMessage.
InitMemory ==
  [ idleServers |-> NoServer,
    nextIdle    |-> [s \in Servers |-> NoServer],
    idleCount   |-> 0,
    lastSent    |-> [s \in Servers |-> NoMessage],
    used        |-> {1},
    first       |-> 1,
    last        |-> 1,
    next        |-> [i \in Slots |-> NoMessage],
    refcount    |-> [i \in Slots |-> 0],
    target      |-> [i \in Slots |-> NoServer],
    cancelled   |-> [i \in Slots |-> i = 1],
    text        |-> [i \in Slots |-> NoText],
    appended    |-> 0,
    doing       |-> [s \in Servers |-> "none"] ]

\* What is met from x on, along next, before null.
Chain(next, x, null) ==
  LET from[n \in 0..Cardinality(DOMAIN next)] ==
        [y \in DOMAIN next \cup {null} |->
           IF n = 0 \/ y = null THEN <<>> ELSE <<y>> \o from[n-1][next[y]]]
  IN  from[Cardinality(DOMAIN next)][x]

IdleList(m) == Chain(m.nextIdle, m.idleServers, NoServer)
MessageList(m) == Chain(m.next, m.first, NoMessage)

-----------------------------------------------------------------------------
(* The idle list.                                                          *)

\* Faulty: a server brings the link it had when it was last idle.
AddIdleServerStale(m, s) ==
  LET added == [m EXCEPT !.idleCount = @ + 1]
  IN  IF m.idleServers = NoServer
      THEN [added EXCEPT !.idleServers = s]
      ELSE [added EXCEPT !.nextIdle[Last(IdleList(m))] = s]

AddIdleServer(m, s) ==
  LET added == [m EXCEPT !.nextIdle[s] = NoServer, !.idleCount = @ + 1]
  IN  IF m.idleServers = NoServer
      THEN [added EXCEPT !.idleServers = s]
      ELSE [added EXCEPT !.nextIdle[Last(IdleList(m))] = s]

\* The first on the list, or with round robin off the last.
IdleServer(m) == IF RoundRobin THEN m.idleServers ELSE Last(IdleList(m))

GetIdleServer(m) ==
  LET s      == IdleServer(m)
      before == {t \in ToSet(IdleList(m)) : m.nextIdle[t] = s}
  IN  [m EXCEPT
        !.idleServers = IF @ = s THEN m.nextIdle[s] ELSE @,
        !.nextIdle = [t \in Servers |-> IF t \in before \cup {s} THEN NoServer ELSE @[t]],
        !.idleCount = @ - 1]

\* Removing the first is left to GetIdleServer.
RemoveIdleServer(m, s) ==
  LET before == {t \in ToSet(IdleList(m)) : m.nextIdle[t] = s}
  IN  IF m.idleServers = s THEN GetIdleServer(m)
      ELSE IF before = {} THEN m
      ELSE [m EXCEPT
             !.nextIdle = [t \in Servers |-> IF t \in before THEN @[s] ELSE @[t]],
             !.idleCount = @ - 1]

-----------------------------------------------------------------------------
(* class Message.                                                          *)

After(m, i) == Chain(m.next, m.next[i], NoMessage)

\* Faulty: a message for one server is for all.
IsForAnyone(m, i, s) == ~m.cancelled[i]

IsFor(m, i, s) == ~m.cancelled[i] /\ m.target[i] \in {NoServer, s}
HasNext(m, s) ==
  /\ m.lastSent[s] # NoMessage
  /\ \E i \in ToSet(After(m, m.lastSent[s])) : IsFor(m, i, s)

NextFor(m, s) ==
  LET after == After(m, m.lastSent[s])
  IN  after[CHOOSE n \in DOMAIN after :
              IsFor(m, after[n], s) /\ \A k \in 1..n-1 : ~IsFor(m, after[k], s)]

\* Faulty: the new message is not held.
RememberOnly(m, s, i) ==
  [m EXCEPT !.refcount[m.lastSent[s]] = @ - 1, !.lastSent[s] = i]

\* s goes on from the message it was sent last to i.
Remember(m, s, i) ==
  [m EXCEPT
    !.refcount = [j \in Slots |->
                    CASE j = m.lastSent[s] -> @[j] - 1
                      [] j = i             -> @[j] + 1
                      [] OTHER             -> @[j]],
    !.lastSent[s] = i]

\* Next: to the first message for s, or past all of them.
MessageNext(m, s) ==
  IF HasNext(m, s) THEN Remember(m, s, NextFor(m, s))
  ELSE IF m.lastSent[s] = NoMessage \/ m.next[m.lastSent[s]] = NoMessage THEN m
  ELSE Remember(m, s, Last(After(m, m.lastSent[s])))

\* An idle server with something to read leaves the list, any other is put back.
WakeIdleServer(m, s) ==
  IF HasNext(m, s)
  THEN [MessageNext(m, s) EXCEPT !.doing[s] = "pushing"]
  ELSE AddIdleServer(MessageNext(m, s), s)

WakeIdleServers(m) ==
  LET list == IdleList(m)
      woken[n \in 0..Len(list)] ==
        IF n = 0 THEN [m EXCEPT !.idleServers = NoServer, !.idleCount = 0]
        ELSE WakeIdleServer(woken[n-1], list[n])
  IN  woken[Len(list)]

Room(m, n) ==
  /\ m.appended + n <= MaxMessages
  /\ Cardinality(Slots \ m.used) >= n

\* Append of a new message, for one server or with target null for all.
AppendMessage(m, kind, target) ==
  LET i == CHOOSE j \in Slots \ m.used : \A k \in Slots \ m.used : j <= k
  IN  WakeIdleServers(
        [m EXCEPT
          !.used = @ \cup {i}, !.next[m.last] = i, !.last = i,
          !.target[i] = target,
          !.text[i] = [kind |-> kind, number |-> m.appended + 1,
                        for |-> IF target = NoServer THEN Servers ELSE {target}],
          !.appended = @ + 1])

\* BringUpToDate: s has heard what was said so far, but for the preferences.
BringUpToDate(m, s, n) ==
  LET sent[k \in 0..n] ==
        IF k = 0
        THEN [m EXCEPT !.lastSent[s] = m.last, !.refcount[m.last] = @ + 1]
        ELSE AppendMessage(sent[k - 1], "pref", s)
  IN  sent[n]

\* CancelTarget; the last message of the list is left alone.
CancelTarget(m, s) ==
  LET i == m.lastSent[s]
  IN  [m EXCEPT
        !.refcount = [j \in Slots |-> IF j = i THEN @[j] - 1 ELSE @[j]],
        !.lastSent[s] = NoMessage,
        !.cancelled = [j \in Slots |->
          @[j] \/ (j \in ToSet(MessageList(m)) \ {m.last} /\ m.target[j] = s)]]

\* Faulty: nobody is asked whether a message was sent.
AllButLast(m) == Len(MessageList(m))

\* The first message that somebody remembers, or the last of all.
FirstHeld(m) ==
  LET list == MessageList(m)
  IN  CHOOSE n \in DOMAIN list :
        /\ m.refcount[list[n]] # 0 \/ list[n] = m.last
        /\ \A k \in 1..n-1 : m.refcount[list[k]] = 0 /\ list[k] # m.last

\* DropSentMessages deletes those before it.
DropMessages(m) ==
  LET n    == FirstHeld(m)
      gone == {MessageList(m)[k] : k \in 1..n-1}
  IN  [m EXCEPT
        !.first = MessageList(m)[n],
        !.used = @ \ gone,
        !.next = [i \in Slots |-> IF i \in gone THEN NoMessage ELSE @[i]],
        !.target = [i \in Slots |-> IF i \in gone THEN NoServer ELSE @[i]],
        !.cancelled = [i \in Slots |-> @[i] /\ i \notin gone],
        !.text = [i \in Slots |-> IF i \in gone THEN NoText ELSE @[i]]]

-----------------------------------------------------------------------------
(* What the handlers of the manager do with the lists.                     *)

Now(m, s, what) == [m EXCEPT !.doing[s] = what]

\* RedeployServer, and DoPush after a message: the next message, or a waiting
\* request, or the idle list.  The exit message that the last request of a server
\* adds is AssignServer's.
Redeployed(m, s) ==
  LET n == MessageNext(m, s)
  IN  IF HasNext(m, s) THEN {Now(n, s, "pushing")}
      ELSE {Now(n, s, "busy"), Now(AddIdleServer(n, s), s, "idle")}

\* Preferences may come from the configuration file.
Init == mem = InitMemory /\ prefs \in 0..MaxPrefs

CreateNewProcess(s) ==
  /\ mem.doing[s] = "none"
  /\ mem' = Now(mem, s, "starting")
  /\ UNCHANGED prefs

ServerStarted(s) ==
  /\ mem.doing[s] = "starting"
  /\ Room(mem, prefs)
  /\ mem' \in Redeployed(BringUpToDate(mem, s, prefs), s)
  /\ UNCHANGED prefs

EndRequest(s) ==
  /\ mem.doing[s] = "busy"
  /\ mem' \in Redeployed(mem, s)
  /\ UNCHANGED prefs

\* Nothing follows an exit message.
DoPush(s) ==
  /\ mem.doing[s] = "pushing"
  /\ IF mem.text[mem.lastSent[s]].kind = "exit"
     THEN mem' = Now(mem, s, "exiting")
     ELSE mem' \in Redeployed(mem, s)
  /\ UNCHANGED prefs

\* An idle server gets a request, maybe the last that maxrequests allows.
AssignServer ==
  LET s     == IdleServer(mem)
      given == Now(GetIdleServer(mem), s, "busy")
  IN  /\ mem.idleServers # NoServer
      /\ \/ mem' = given
         \/ Room(mem, 1) /\ mem' = AppendMessage(given, "exit", s)
      /\ UNCHANGED prefs

SetPref ==
  /\ \E n \in {prefs, prefs + 1} : n \in 1..MaxPrefs /\ prefs' = n
  /\ Room(mem, 1)
  /\ mem' = AppendMessage(mem, "pref", NoServer)

StopAllServers ==
  /\ Room(mem, 1)
  /\ mem' = AppendMessage(mem, "exit", NoServer)
  /\ UNCHANGED prefs

PeriodicIdleServerPurge ==
  /\ mem.idleServers # NoServer
  /\ Room(mem, 1)
  /\ mem' = AppendMessage(mem, "exit", mem.idleServers)
  /\ UNCHANGED prefs

\* KillServer with RemoveServer: from here on only the tick knows of s.
KillServer(s) ==
  /\ mem.doing[s] \notin {"none", "removed"}
  /\ mem' = [Now(CancelTarget(RemoveIdleServer(mem, s), s), s, "removed")
              EXCEPT !.nextIdle[s] = NoServer]
  /\ UNCHANGED prefs

\* The end of the tick: the address may be used again.
DeleteServer(s) ==
  /\ mem.doing[s] = "removed"
  /\ mem' = Now(mem, s, "none")
  /\ UNCHANGED prefs

DropSentMessages ==
  /\ mem.refcount[mem.first] = 0 /\ mem.first # mem.last
  /\ mem' = DropMessages(mem)
  /\ UNCHANGED prefs

Next ==
  \/ \E s \in Servers :
       \/ CreateNewProcess(s)
       \/ ServerStarted(s)
       \/ EndRequest(s)
       \/ DoPush(s)
       \/ KillServer(s)
       \/ DeleteServer(s)
  \/ AssignServer
  \/ SetPref
  \/ StopAllServers
  \/ PeriodicIdleServerPurge
  \/ DropSentMessages

Spec == Init /\ [][Next]_vars

-----------------------------------------------------------------------------
TypeOK == mem \in Memory /\ prefs \in 0..MaxPrefs

\* The idle list and its count are those of the servers with nothing to do:
\* links that are left behind when servers leave it lead nowhere.
IdleListSound ==
  LET list == IdleList(mem)
  IN  /\ ToSet(list) = {s \in Servers : mem.doing[s] = "idle"}
      /\ IsInjective(list)
      /\ mem.idleCount = Len(list)

\* No server remembers a message that was deleted, and the reference counts
\* are right, so that in the end each is.
MessagesHeld ==
  /\ mem.last = Last(MessageList(mem)) /\ ToSet(MessageList(mem)) = mem.used
  /\ \A i \in Slots :
       mem.refcount[i] = Cardinality({s \in Servers : mem.lastSent[s] = i})
  /\ \A s \in Servers : mem.lastSent[s] \in mem.used \cup {NoMessage}

\* "Remove from idle list, if on it." (impl.h:230): a removed server, which is
\* about to be deleted, is not on the idle list.
RemovedFromIdleList ==
  \A s \in Servers : mem.doing[s] \in {"removed", "none"} => s \notin ToSet(IdleList(mem))

\* The lists are the mailboxes and the order that JaxerManager assumes:
\* every message reaches those it is for, once and in order, and nobody
\* else, though addresses are used again and CancelTarget leaves one out.
Unread(m, s) ==
  IF m.lastSent[s] = NoMessage THEN <<>>
  ELSE SelectSeq(After(m, m.lastSent[s]), LAMBDA i : IsFor(m, i, s))
Box(s) == LET list == Unread(mem, s) IN [n \in DOMAIN list |-> mem.text[list[n]]]
Mailbox == INSTANCE Mailboxes WITH
  Letters <- Texts,
  Nothing <- NoText,
  Most    <- MaxPrefs,
  idle    <- IdleList(mem),
  box     <- [s \in Servers |-> Box(s)],
  reading <- [s \in Servers |->
                IF mem.doing[s] \in {"pushing", "exiting"}
                THEN mem.text[mem.lastSent[s]] ELSE NoText],
  working <- {s \in Servers : mem.doing[s] = "busy"},
  members <- {s \in Servers : mem.lastSent[s] # NoMessage}
ImplementsMailboxes == Mailbox!Spec
=============================================================================
