------------------------------ MODULE JaxerLog ------------------------------
(***************************************************************************)
(* Log messages on their way to the log file: the processes that log (the  *)
(* manager and its workers) with the thread of each LogClient, the FIFO    *)
(* they share, the log server that reads it and rotates the file, and the  *)
(* manager's tick, which restarts the log server.                          *)
(*                                                                         *)
(* A chunk is what one read of the log server takes; a message is Length   *)
(* chunks.  A chunk names its process, its message and its part of it,     *)
(* which the code does not; part 0 is the text Write adds after a failure. *)
(*                                                                         *)
(* A definition whose comment starts with "Faulty" is a plausible error in *)
(* the one after it; the specification does not use it.                    *)
(***************************************************************************)
EXTENDS Integers, Sequences, FiniteSets, Functions

CONSTANTS
  Clients,      \* processes that log
  Nobody,       \* the lock is free
  Length,       \* chunks in a message
  MaxMessages,  \* bound: messages
  Tries,        \* nTry when a write starts
  PipeSize,     \* chunks the FIFO holds
  MaxFileSize,  \* --filesize, in chunks
  MaxErrors,    \* bound: error texts
  MaxFaults     \* bound: crashes, failures of the log file, processes killed

ASSUME LogAssumption ==
  /\ IsFiniteSet(Clients)
  /\ Nobody \notin Clients
  /\ {Length, MaxMessages, Tries, PipeSize, MaxFileSize} \subseteq Nat \ {0}
  /\ MaxErrors \in Nat
  /\ MaxFaults \in Nat

VARIABLES
  client,  \* each LogClient and its thread
  queue,   \* its list of messages
  lock,    \* the process that holds the flock on the FIFO
  fifo,    \* the FIFO is in the file system
  pipe,    \* what is in it
  server,  \* the log server process
  file,    \* chunks in the log file
  closed,  \* the files that were rotated away, oldest first
  log,     \* everything that was written to the log, in order
  lost,    \* chunks that went with a process or with the FIFO
  faults   \* how much of the bounds is used up

vars == <<client, queue, lock, fifo, pipe, server, file, closed, log, lost, faults>>
disk == <<file, closed, log>>

Message == 1..MaxMessages
Chunk == [of : Clients, msg : Message, part : 0..Length]

\* What LogClient::Init leaves, with the first attempt to open the FIFO failed
\* because the log server is only starting.
Init ==
  /\ client = [c \in Clients |->
                [pc |-> "loop", ok |-> FALSE, open |-> FALSE, appended |-> 0,
                 msg |-> 0, nw |-> 0, nTry |-> 0, exit |-> FALSE]]
  /\ queue = [c \in Clients |-> <<>>]
  /\ lock = Nobody
  /\ fifo = TRUE
  /\ pipe = <<>>
  /\ server = [pc |-> "starting", buf |-> <<>>, size |-> -1]
  /\ file = 0
  /\ closed = <<>>
  /\ log = <<>>
  /\ lost = {}
  /\ faults = [errors |-> 0, count |-> 0]

-----------------------------------------------------------------------------
(* The FIFO.                                                               *)

\* A reader is there as soon as the log server waits in open.
Reader == server.pc \in {"opening", "reading", "writing"}
Room == PipeSize - Len(pipe)

\* The kernel keeps what is in the FIFO while somebody has it open.
LeavePipe(chunks, gone) ==
  IF Reader' \/ \E c \in Clients : client'[c].open
  THEN pipe' = chunks /\ lost' = lost \cup gone
  ELSE pipe' = <<>> /\ lost' = lost \cup gone \cup Range(chunks)

At(c, pc) == client[c].pc = pc
Goes(c, m) == client' = [client EXCEPT ![c] = m]

\* Bound: faults.
Fault == faults.count < MaxFaults /\ faults' = [faults EXCEPT !.count = @ + 1]

-----------------------------------------------------------------------------
(* A process that logs.                                                    *)

\* Bound: messages.
Appended == {m \in [of : Clients, msg : Message] : m.msg <= client[m.of].appended}

\* AppendMessage, by any thread of the process, under m_mLock.
AppendMessage(c) ==
  /\ client[c].pc # "gone"
  /\ Cardinality(Appended) < MaxMessages
  /\ queue' = [queue EXCEPT ![c] = Append(@, client[c].appended + 1)]
  /\ Goes(c, [client[c] EXCEPT !.appended = @ + 1])
  /\ UNCHANGED <<lock, fifo, pipe, server, disk, lost, faults>>

\* Faulty: forgets that the FIFO did not open.
OpenPipeOnce(c) ==
  /\ At(c, "loop")
  /\ ~client[c].ok
  /\ Goes(c, [client[c] EXCEPT !.ok = TRUE, !.open = Reader /\ fifo])
  /\ UNCHANGED <<queue, lock, fifo, server, disk, faults>>
  /\ LeavePipe(pipe, {})

\* The top of DoLogWrite: OpenPipeForWrite closes the descriptor there may be
\* and opens the FIFO again, which fails without a reader.
OpenPipeForWrite(c) ==
  LET opened == Reader /\ fifo
  IN  /\ At(c, "loop")
      /\ ~client[c].ok
      /\ Goes(c, [client[c] EXCEPT !.ok = opened, !.open = opened,
                    !.pc = IF ~opened /\ client[c].exit THEN "done" ELSE "loop"])
      /\ UNCHANGED <<queue, lock, fifo, server, disk, faults>>
      /\ LeavePipe(pipe, {})

\* DoLogWrite takes a message and calls Write.
Dequeue(c) ==
  /\ At(c, "loop")
  /\ client[c].ok
  /\ queue[c] # <<>>
  /\ queue' = [queue EXCEPT ![c] = Tail(@)]
  /\ Goes(c, [client[c] EXCEPT !.pc = "lock", !.msg = Head(queue[c]),
                               !.nw = 0, !.nTry = Tries])
  /\ UNCHANGED <<lock, fifo, pipe, server, disk, lost, faults>>

\* Faulty: the lock is on a file nobody else locks.
FileLockOfItsOwn(c) ==
  /\ At(c, "lock")
  /\ lock' = c
  /\ Goes(c, [client[c] EXCEPT !.pc = "write"])
  /\ UNCHANGED <<queue, fifo, pipe, server, disk, lost, faults>>

FileLock(c) ==
  /\ At(c, "lock")
  /\ lock = Nobody
  /\ lock' = c
  /\ Goes(c, [client[c] EXCEPT !.pc = "write"])
  /\ UNCHANGED <<queue, fifo, pipe, server, disk, lost, faults>>

Part(c, i) == [of |-> c, msg |-> client[c].msg, part |-> i]
Parts(c, n) == [i \in 1..n |-> Part(c, client[c].nw + i)]

\* Faulty: offers the kernel as much as the whole message each time.
WriteTooMuch(c) ==
  /\ At(c, "write")
  /\ Reader
  /\ \E n \in 1..Room :
       /\ pipe' = pipe \o [i \in 1..n |-> Part(c, i)]
       /\ Goes(c, [client[c] EXCEPT !.nw = @ + n,
                     !.pc = IF client[c].nw + n >= Length THEN "loop" ELSE "write"])
       /\ lock' = IF client[c].nw + n >= Length THEN Nobody ELSE lock
  /\ UNCHANGED <<queue, fifo, server, disk, lost, faults>>

\* The kernel takes as much as there is room for, or less.  After the last
\* chunk Write returns and gives back the lock.
Write(c) ==
  /\ At(c, "write")
  /\ Reader
  /\ \E n \in 1..Room :
       /\ client[c].nw + n <= Length
       /\ pipe' = pipe \o Parts(c, n)
       /\ Goes(c, [client[c] EXCEPT !.nw = @ + n,
                     !.pc = IF client[c].nw + n = Length THEN "loop" ELSE "write"])
       /\ lock' = IF client[c].nw + n = Length THEN Nobody ELSE lock
  /\ UNCHANGED <<queue, fifo, server, disk, lost, faults>>

Blocked == ~Reader \/ Room = 0

\* Faulty: a retry starts the message again.
WriteFailsAndRestarts(c) ==
  /\ At(c, "write")
  /\ Blocked
  /\ IF client[c].nTry > 0
     THEN Goes(c, [client[c] EXCEPT !.nTry = @ - 1, !.nw = 0])
     ELSE Goes(c, [client[c] EXCEPT !.ok = FALSE, !.pc = "complain"])
  /\ UNCHANGED <<queue, lock, fifo, pipe, server, disk, lost, faults>>

\* Faulty: gives up, as Write does on Windows.
WriteGivesUp(c) ==
  /\ At(c, "write")
  /\ Blocked
  /\ IF client[c].nTry > 0
     THEN Goes(c, [client[c] EXCEPT !.nTry = @ - 1]) /\ UNCHANGED lock
     ELSE Goes(c, [client[c] EXCEPT !.ok = FALSE, !.pc = "loop"]) /\ lock' = Nobody
  /\ UNCHANGED <<queue, fifo, pipe, server, disk, lost, faults>>

\* Nobody reads, or there is no room.  When the tries are used up m_bOK is
\* cleared, but Write does not return: it goes on with the same descriptor.
WriteFails(c) ==
  /\ At(c, "write")
  /\ Blocked
  /\ IF client[c].nTry > 0
     THEN Goes(c, [client[c] EXCEPT !.nTry = @ - 1])
     ELSE Goes(c, [client[c] EXCEPT !.ok = FALSE, !.pc = "complain"])
  /\ UNCHANGED <<queue, lock, fifo, pipe, server, disk, lost, faults>>

\* "Failed to write a message", if that can be written by now.
\* Bound: error texts.
Complain(c) ==
  /\ At(c, "complain")
  /\ IF Reader /\ Room > 0 /\ faults.errors < MaxErrors
     THEN /\ pipe' = Append(pipe, Part(c, 0))
          /\ faults' = [faults EXCEPT !.errors = @ + 1]
     ELSE UNCHANGED <<pipe, faults>>
  /\ Goes(c, [client[c] EXCEPT !.pc = "write"])
  /\ UNCHANGED <<queue, lock, fifo, server, disk, lost>>

\* The main thread calls Terminate before the process ends.
Terminate(c) ==
  /\ client[c].pc # "gone"
  /\ ~client[c].exit
  /\ Goes(c, [client[c] EXCEPT !.exit = TRUE])
  /\ UNCHANGED <<queue, lock, fifo, pipe, server, disk, lost, faults>>

\* m_bDone.
LogThreadEnds(c) ==
  /\ At(c, "loop")
  /\ client[c].exit
  /\ client[c].ok
  /\ queue[c] = <<>>
  /\ Goes(c, [client[c] EXCEPT !.pc = "done"])
  /\ UNCHANGED <<queue, lock, fifo, pipe, server, disk, lost, faults>>

\* The process ends: the kernel closes its descriptor and gives back the lock.
Gone(c) ==
  /\ client[c].pc # "gone"
  /\ Goes(c, [client[c] EXCEPT !.pc = "gone", !.open = FALSE])
  /\ queue' = [queue EXCEPT ![c] = <<>>]
  /\ lock' = IF lock = c THEN Nobody ELSE lock
  /\ UNCHANGED <<fifo, server, disk>>
  /\ LeavePipe(pipe, {})

\* Terminate waits for m_bDone, but no longer than ten seconds.
ProcessEnds(c) == client[c].exit /\ Gone(c) /\ UNCHANGED faults
ProcessKilled(c) == Fault /\ Gone(c)

-----------------------------------------------------------------------------
(* The log server, and the manager's part.                                 *)

Up(m) == server' = [server EXCEPT !.pc = m]

\* TimedEventCallback reaps the log server, sets its pid to -1 and calls
\* CreateLogServer.  When socketpair or fork fails nobody looks at the result,
\* and as waitpid never returns -1 for a child, there is no second attempt.
CreateLogServer ==
  /\ server.pc = "dead"
  /\ \E created \in BOOLEAN :
       server' = [pc |-> IF created THEN "starting" ELSE "forgotten",
                  buf |-> <<>>, size |-> -1]
  /\ UNCHANGED <<client, queue, lock, fifo, pipe, disk, lost, faults>>

\* LogServer::Init waits in open for somebody who writes; without a FIFO it
\* fails and the process exits.
OpenFifo ==
  /\ server.pc = "starting"
  /\ Up(IF fifo THEN "opening" ELSE "dead")
  /\ UNCHANGED <<client, queue, lock, fifo, pipe, disk, lost, faults>>

Writer == \E c \in Clients : client[c].open

\* DoLogFileRotation of a file of n chunks, which goes on when it cannot be
\* renamed.
Rotate(when, n, renamed) ==
  IF renamed
  THEN file' = 0 /\ closed' = Append(closed, [length |-> n, when |-> when])
  ELSE file' = n /\ UNCHANGED closed
Renamed(renamed) == IF renamed THEN UNCHANGED faults ELSE Fault

\* The rest of Init.  It does not reset m_nCurrentFileSize after the rotation.
InitServer ==
  /\ server.pc = "opening"
  /\ Writer
  /\ server' = [server EXCEPT !.pc = "reading", !.size = file]
  /\ IF file >= MaxFileSize
     THEN \E renamed \in BOOLEAN : Renamed(renamed) /\ Rotate("start", file, renamed)
     ELSE UNCHANGED <<file, closed, faults>>
  /\ UNCHANGED <<client, queue, lock, fifo, pipe, log, lost>>

\* The log file cannot be opened: exit, and ~LogServer removes the FIFO.
InitFails ==
  /\ server.pc = "opening"
  /\ Writer
  /\ Fault
  /\ Up("dead")
  /\ fifo' = FALSE
  /\ UNCHANGED <<client, queue, lock, disk>>
  /\ LeavePipe(pipe, {})

\* ProcessInputData.
ReadPipe ==
  /\ server.pc = "reading"
  /\ pipe # <<>>
  /\ server' = [server EXCEPT !.pc = "writing", !.buf = <<Head(pipe)>>]
  /\ pipe' = Tail(pipe)
  /\ UNCHANGED <<client, queue, lock, fifo, disk, lost, faults>>

\* m_nCurrentFileSize after a write of n chunks: unknown after a rotation that
\* failed, until an hour has passed.
Sizes(n) == IF server.size < 0 THEN {-1, file + n} ELSE {server.size + n}

Written(size) == server' = [server EXCEPT !.pc = "reading", !.buf = <<>>, !.size = size]

\* Faulty: the size is counted on after a rotation.
CountOn(n, renamed) ==
  \E size \in Sizes(n) :
    /\ Written(size)
    /\ IF size > MaxFileSize
       THEN Rotate("write", file + n, renamed)
       ELSE file' = file + n /\ UNCHANGED closed

CountAndRotate(n, renamed) ==
  \E size \in Sizes(n) :
    IF size > MaxFileSize
    THEN Written(IF renamed THEN 0 ELSE -1) /\ Rotate("write", file + n, renamed)
    ELSE Written(size) /\ file' = file + n /\ UNCHANGED closed

WriteAll ==
  /\ server.pc = "writing"
  /\ log' = log \o server.buf
  /\ \E renamed \in BOOLEAN : Renamed(renamed) /\ CountAndRotate(1, renamed)
  /\ UNCHANGED <<client, queue, lock, fifo, pipe, lost>>

\* The disk is full: nobody looks at what WriteAll returns.
WriteAllFails ==
  /\ server.pc = "writing"
  /\ Fault
  /\ CountAndRotate(0, TRUE)
  /\ lost' = lost \cup Range(server.buf)
  /\ UNCHANGED <<client, queue, lock, fifo, pipe, log>>

\* The log server dies with what it has read.
LogServerDies ==
  /\ server.pc \notin {"dead", "forgotten"}
  /\ Fault
  /\ server' = [server EXCEPT !.pc = "dead", !.buf = <<>>]
  /\ UNCHANGED <<client, queue, lock, fifo, disk>>
  /\ LeavePipe(pipe, Range(server.buf))

-----------------------------------------------------------------------------
LogThread(c) ==
  \/ OpenPipeForWrite(c)
  \/ Dequeue(c)
  \/ FileLock(c)
  \/ Write(c)
  \/ WriteFails(c)
  \/ Complain(c)
  \/ LogThreadEnds(c)

LogServer ==
  \/ OpenFifo
  \/ InitServer
  \/ ReadPipe
  \/ WriteAll

Next ==
  \/ \E c \in Clients : AppendMessage(c) \/ Terminate(c)
  \/ \E c \in Clients : LogThread(c)
  \/ \E c \in Clients : ProcessEnds(c) \/ ProcessKilled(c)
  \/ CreateLogServer
  \/ LogServer
  \/ InitFails \/ WriteAllFails \/ LogServerDies

Spec == Init /\ [][Next]_vars

\* The kernel runs every thread, the manager ticks every second, and a process
\* that waits in Terminate ends.  Nobody has to log, to end or to fail.
Fairness ==
  /\ \A c \in Clients : WF_vars(LogThread(c)) /\ WF_vars(ProcessEnds(c))
  /\ WF_vars(CreateLogServer)
  /\ WF_vars(LogServer)

FairSpec == Spec /\ Fairness

-----------------------------------------------------------------------------
(* Safety.                                                                 *)

TypeOK ==
  /\ client \in [Clients ->
       [pc : {"loop", "lock", "write", "complain", "done", "gone"}, ok : BOOLEAN,
        open : BOOLEAN, appended : 0..MaxMessages, msg : 0..MaxMessages,
        nw : 0..Length, nTry : 0..Tries, exit : BOOLEAN]]
  /\ queue \in [Clients -> Seq(Message)]
  /\ lock \in Clients \cup {Nobody}
  /\ fifo \in BOOLEAN
  /\ pipe \in Seq(Chunk) /\ Len(pipe) <= PipeSize
  /\ server \in [pc : {"starting", "opening", "reading", "writing", "dead",
                       "forgotten"},
                 buf : Seq(Chunk), size : {-1} \cup Nat]
  /\ file \in Nat
  /\ closed \in Seq([length : Nat, when : {"start", "write"}])
  /\ log \in Seq(Chunk)
  /\ lost \in SUBSET Chunk
  /\ faults \in [errors : 0..MaxErrors, count : 0..MaxFaults]

\* All that has come through the FIFO and is not lost, oldest first.
Trail == log \o server.buf \o pipe
SameMessage(x, y) == x.of = y.of /\ x.msg = y.msg

\* A message of a process is written in many steps, the processes share one
\* FIFO, and the log server comes and goes: still no message has a piece of
\* another one in it.  (The text that the log server itself writes after a
\* failed rename, LogServer.h:464, is left out.)
MessagesWhole ==
  \A i, j, k \in DOMAIN Trail :
    i < j /\ j < k /\ SameMessage(Trail[i], Trail[k]) => SameMessage(Trail[j], Trail[i])

\* The messages of a process are in the order it appended them, and no part is
\* there twice, whatever was retried.
Before(x, y) == x.msg < y.msg \/ (x.msg = y.msg /\ x.part < y.part)
InOrder ==
  \A i, j \in DOMAIN Trail :
    i < j /\ Trail[i].of = Trail[j].of /\ Trail[i].part > 0 /\ Trail[j].part > 0
      => Before(Trail[i], Trail[j])

\* Nothing that Write took from its caller vanishes between client and server:
\* it is in the FIFO, in the log or was lost with a process.
Held == Range(Trail) \cup lost
WrittenParts(c) ==
  [of : {c}, msg : Message, part : 1..Length] \cap
    {x \in Chunk : \/ x.msg < client[c].msg
                   \/ x.msg = client[c].msg /\ x.part <= client[c].nw}
NothingVanishes == \A c \in Clients : WrittenParts(c) \subseteq Held

\* A file is rotated away only when it has reached --filesize, except by the
\* first write of a log server that rotated the file when it started.
\* (JaxerManager.cfg:33 has the file rotated only when the manager starts.)
RotatedWhenLarge ==
  \A i \in DOMAIN closed :
    \/ closed[i].length >= MaxFileSize
    \/ i > 1 /\ closed[i - 1].when = "start" /\ closed[i].length <= 1

-----------------------------------------------------------------------------
(* Liveness.                                                               *)

\* Every message that is appended reaches the log though the log server dies and
\* is restarted, unless it is lost with a process or its own process ends.  Two
\* failures end the recovery: a log server that cannot open the log file takes
\* the FIFO with it, which only a process that starts later makes again, and a
\* log server that the manager's tick failed to create is never created again
\* (JaxerManagerUnix.cpp:1966).
Logged(c, n) == {[of |-> c, msg |-> n, part |-> i] : i \in 1..Length} \subseteq Range(log) \cup lost
EveryMessageLogged ==
  \A c \in Clients, n \in Message :
    client[c].appended >= n ~> \/ Logged(c, n)
                               \/ At(c, "gone")
                               \/ ~fifo
                               \/ server.pc = "forgotten"
=============================================================================
