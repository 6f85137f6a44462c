---------------------------- MODULE JaxerLogProofs ----------------------------
(***************************************************************************)
(* Proofs about JaxerLog for every number of processes and every size of   *)
(* messages, FIFO and log file.                                            *)
(***************************************************************************)
EXTENDS JaxerLog, FiniteSetTheorems, SequenceTheorems, TLAPS

-----------------------------------------------------------------------------
(* Sequences and sets.                                                     *)

LEMMA SizeTypes ==
  /\ Length \in Nat \ {0} /\ MaxMessages \in Nat \ {0} /\ Tries \in Nat \ {0}
  /\ PipeSize \in Nat \ {0} /\ MaxFileSize \in Nat \ {0}
  /\ MaxErrors \in Nat /\ MaxFaults \in Nat
BY LogAssumption

LEMMA RangeOfOne == \A x : Range(<<x>>) = {x} /\ Range(<<>>) = {}
BY DEF Range

\* A sequence and what is left of it after its first element.
LEMMA HeadAndTail ==
  ASSUME NEW S, NEW q \in Seq(S), q # <<>>
  PROVE  /\ Head(q) \in S /\ Tail(q) \in Seq(S)
         /\ Len(Tail(q)) = Len(q) - 1 /\ Len(q) \in Nat \ {0}
         /\ <<Head(q)>> \in Seq(S)
         /\ q = <<Head(q)>> \o Tail(q)
<1>1. /\ Head(q) \in S /\ Tail(q) \in Seq(S) /\ <<Head(q)>> \in Seq(S)
      /\ Len(Tail(q)) = Len(q) - 1 /\ Len(q) \in Nat \ {0}
      /\ Len(<<Head(q)>>) = 1 /\ <<Head(q)>>[1] = Head(q) /\ Head(q) = q[1]
      /\ \A i \in 1..Len(Tail(q)) : Tail(q)[i] = q[i + 1]
  BY HeadTailProperties, LenProperties
<1> DEFINE c == <<Head(q)>> \o Tail(q)
<1>2. /\ c \in Seq(S) /\ Len(c) = Len(q)
      /\ \A i \in 1..Len(q) : c[i] = IF i <= 1 THEN Head(q) ELSE Tail(q)[i - 1]
  BY <1>1, ConcatProperties
<1>3. \A i \in 1..Len(q) : c[i] = q[i]
  BY <1>1, <1>2
<1> HIDE DEF c
<1>4. c = q
  BY <1>2, <1>3, SeqEqual
<1> QED
  BY <1>1, <1>4 DEF c

-----------------------------------------------------------------------------
(* Type correctness.                                                       *)

ClientPlaces == {"loop", "lock", "write", "complain", "done", "gone"}
LogClient ==
  [pc : ClientPlaces, ok : BOOLEAN,
   open : BOOLEAN, appended : 0..MaxMessages, msg : 0..MaxMessages,
   nw : 0..Length, nTry : 0..Tries, exit : BOOLEAN]
ServerState ==
  [pc : {"starting", "opening", "reading", "writing", "dead", "forgotten"},
   buf : Seq(Chunk), size : {-1} \cup Nat]
Spent == [errors : 0..MaxErrors, count : 0..MaxFaults]
Rotated == [length : Nat, when : {"start", "write"}]
ServerFields == server.buf \in Seq(Chunk) /\ server.size \in {-1} \cup Nat

LEMMA ClientTypes ==
  ASSUME TypeOK
  PROVE  /\ client \in [Clients -> LogClient]
         /\ server \in ServerState /\ faults \in Spent /\ closed \in Seq(Rotated)
BY DEF TypeOK, LogClient, ServerState, Spent, Rotated, ClientPlaces

LEMMA GoesType ==
  ASSUME TypeOK, NEW c \in Clients, NEW m \in LogClient, Goes(c, m)
  PROVE  client' \in [Clients -> LogClient]
BY ClientTypes DEF Goes

LEMMA ClientFields ==
  ASSUME NEW m \in LogClient
  PROVE  /\ m.pc \in ClientPlaces /\ m.appended \in 0..MaxMessages
         /\ m.msg \in 0..MaxMessages /\ m.nw \in 0..Length /\ m.nTry \in 0..Tries
         /\ m.ok \in BOOLEAN /\ m.open \in BOOLEAN /\ m.exit \in BOOLEAN
         /\ m.nTry > 0 => m.nTry - 1 \in 0..Tries
BY SizeTypes DEF LogClient

LEMMA ClientUpdates ==
  ASSUME NEW m \in LogClient
  PROVE  /\ \A pc \in ClientPlaces : [m EXCEPT !.pc = pc] \in LogClient
         /\ \A b \in BOOLEAN : [m EXCEPT !.ok = b] \in LogClient
         /\ \A b \in BOOLEAN : [m EXCEPT !.exit = b] \in LogClient
         /\ \A n \in 0..MaxMessages : [m EXCEPT !.appended = n] \in LogClient
         /\ \A n \in 0..Tries : [m EXCEPT !.nTry = n] \in LogClient
         /\ \A b \in BOOLEAN, pc \in ClientPlaces :
              /\ [m EXCEPT !.ok = b, !.open = b, !.pc = pc] \in LogClient
              /\ [m EXCEPT !.pc = pc, !.open = b] \in LogClient
              /\ [m EXCEPT !.ok = b, !.pc = pc] \in LogClient
         /\ \A n \in 0..Length, pc \in ClientPlaces :
              [m EXCEPT !.nw = n, !.pc = pc] \in LogClient
         /\ \A n \in 0..MaxMessages :
              [m EXCEPT !.pc = "lock", !.msg = n, !.nw = 0, !.nTry = Tries] \in LogClient
<1>1. 0 \in 0..Length /\ Tries \in 0..Tries /\ "lock" \in ClientPlaces
  BY SizeTypes DEF ClientPlaces
<1> QED
  BY <1>1 DEF LogClient

FirstMessages(c, k) == {[of |-> c, msg |-> n] : n \in 1..k}

LEMMA NumberOfMessages ==
  ASSUME NEW c, NEW k \in Nat
  PROVE  Cardinality(FirstMessages(c, k)) = k
<1> DEFINE own == [n \in 1..k |-> [of |-> c, msg |-> n]]
<1>1. own \in Bijection(1..k, FirstMessages(c, k))
  BY DEF FirstMessages, Bijection, Injection, Surjection, IsInjective
<1>2. IsFiniteSet(1..k) /\ Cardinality(1..k) = k
  BY FS_Interval
<1> HIDE DEF own
<1> QED
  BY <1>1, <1>2, FS_Bijection DEF ExistsBijection

\* Another message can be appended as long as the bound allows.
LEMMA RoomForMessage ==
  ASSUME TypeOK, NEW c \in Clients, Cardinality(Appended) < MaxMessages
  PROVE  client[c].appended + 1 \in Message
<1> DEFINE mine == FirstMessages(c, client[c].appended)
           all == [of : Clients, msg : Message]
<1>1. client[c].appended \in 0..MaxMessages /\ MaxMessages \in Nat
  BY ClientTypes, ClientFields, SizeTypes
<1>2. IsFiniteSet(all)
  <2> DEFINE pair == [x \in Clients \X Message |-> [of |-> x[1], msg |-> x[2]]]
  <2>1. IsFiniteSet(Clients \X Message)
    <3>1. IsFiniteSet(Message)
      BY <1>1, FS_Interval DEF Message
    <3> QED
      BY <3>1, LogAssumption, FS_Product
  <2>2. \A m \in all : \E x \in Clients \X Message : pair[x] = m
    <3>1. ASSUME NEW m \in all PROVE pair[<<m.of, m.msg>>] = m /\ <<m.of, m.msg>> \in Clients \X Message
      OBVIOUS
    <3> QED
      BY <3>1
  <2>3. pair \in [Clients \X Message -> all]
    OBVIOUS
  <2>4. pair \in Surjection(Clients \X Message, all)
    BY <2>2, <2>3 DEF Surjection
  <2> QED
    BY <2>1, <2>4, FS_Surjection
<1>3. mine \subseteq Appended
  BY <1>1 DEF Appended, Message, FirstMessages
<1>4. IsFiniteSet(Appended)
  BY <1>2, FS_Subset DEF Appended
<1>5. Cardinality(mine) = client[c].appended
  BY <1>1, NumberOfMessages
<1>6. Cardinality(mine) <= Cardinality(Appended) /\ Cardinality(Appended) \in Nat
  BY <1>3, <1>4, FS_Subset, FS_CardinalityType
<1> QED
  BY <1>1, <1>5, <1>6 DEF Message

LEMMA FaultType ==
  ASSUME faults \in Spent, Fault \/ UNCHANGED faults
  PROVE  faults' \in Spent
<1>1. CASE Fault
  <2>1. faults.count \in 0..MaxFaults /\ MaxFaults \in Nat
    BY SizeTypes DEF Spent
  <2>2. faults.count + 1 \in 0..MaxFaults /\ faults' = [faults EXCEPT !.count = faults.count + 1]
    BY <1>1, <2>1 DEF Fault, Spent
  <2> QED
    BY <2>2 DEF Spent
<1> QED
  BY <1>1

LEMMA LeavePipeType ==
  ASSUME TypeOK, NEW chunks \in Seq(Chunk), Len(chunks) <= PipeSize,
         NEW gone \in SUBSET Chunk, LeavePipe(chunks, gone)
  PROVE  /\ pipe' \in Seq(Chunk) /\ Len(pipe') <= PipeSize
         /\ lost' \in SUBSET Chunk
<1>1. Range(chunks) \in SUBSET Chunk /\ lost \in SUBSET Chunk
  BY RangeOfSeq DEF TypeOK
<1>2. pipe' \in {chunks, <<>>} /\ lost' \in {lost \cup gone, lost \cup gone \cup Range(chunks)}
  BY DEF LeavePipe
<1>3. lost' \in SUBSET Chunk
  BY <1>1, <1>2
<1>4. <<>> \in Seq(Chunk) /\ Len(<<>>) = 0 /\ 0 <= PipeSize
  BY SizeTypes, EmptySeq
<1>5. pipe' \in Seq(Chunk) /\ Len(pipe') <= PipeSize
  BY <1>2, <1>4
<1> QED
  BY <1>3, <1>5

LEMMA TypesTogether ==
  ASSUME client' \in [Clients -> LogClient], queue' \in [Clients -> Seq(Message)],
         lock' \in Clients \cup {Nobody}, fifo' \in BOOLEAN,
         pipe' \in Seq(Chunk), Len(pipe') <= PipeSize, server' \in ServerState,
         file' \in Nat, closed' \in Seq(Rotated), log' \in Seq(Chunk),
         lost' \in SUBSET Chunk, faults' \in Spent
  PROVE  TypeOK'
BY DEF TypeOK, LogClient, ServerState, Spent, Rotated, ClientPlaces

\* What each variable is before a step.
LEMMA Types ==
  ASSUME TypeOK
  PROVE  /\ client \in [Clients -> LogClient] /\ queue \in [Clients -> Seq(Message)]
         /\ lock \in Clients \cup {Nobody} /\ fifo \in BOOLEAN
         /\ pipe \in Seq(Chunk) /\ Len(pipe) <= PipeSize /\ Len(pipe) \in Nat
         /\ server \in ServerState /\ file \in Nat /\ closed \in Seq(Rotated)
         /\ log \in Seq(Chunk) /\ lost \in SUBSET Chunk /\ faults \in Spent
BY ClientTypes, LenProperties DEF TypeOK

\* A process that goes on with its message, waits for it, or ends.
LEMMA ClientStepType ==
  ASSUME TypeOK, NEW c \in Clients,
         \/ AppendMessage(c) \/ Dequeue(c) \/ FileLock(c)
         \/ WriteFails(c) \/ Terminate(c) \/ LogThreadEnds(c)
  PROVE  TypeOK'
<1> DEFINE m == client[c]
<1>0. m \in LogClient /\ queue[c] \in Seq(Message)
  BY Types
<1>1. UNCHANGED <<fifo, pipe, server, disk, lost, faults>>
  BY DEF AppendMessage, Dequeue, FileLock, WriteFails, Terminate, LogThreadEnds
<1>2. client' \in [Clients -> LogClient]
  <2>1. CASE AppendMessage(c)
    <3>1. m.appended + 1 \in 0..MaxMessages
      BY <2>1, RoomForMessage, SizeTypes DEF AppendMessage, Message
    <3>2. [m EXCEPT !.appended = m.appended + 1] \in LogClient
      BY <1>0, <3>1, ClientUpdates
    <3> QED
      BY <1>0, <2>1, <3>2, GoesType DEF AppendMessage, LogClient
  <2>2. CASE Dequeue(c)
    <3>1. Head(queue[c]) \in 0..MaxMessages
      BY <1>0, <2>2, HeadAndTail, SizeTypes DEF Dequeue, Message
    <3> QED
      BY <1>0, <2>2, <3>1, ClientUpdates, GoesType DEF Dequeue
  <2>3. CASE FileLock(c) \/ Terminate(c) \/ LogThreadEnds(c)
    <3>1. \/ Goes(c, [m EXCEPT !.pc = "write"])
          \/ Goes(c, [m EXCEPT !.exit = TRUE])
          \/ Goes(c, [m EXCEPT !.pc = "done"])
      BY <2>3 DEF FileLock, Terminate, LogThreadEnds
    <3> QED
      <4>1. /\ [m EXCEPT !.pc = "write"] \in LogClient
            /\ [m EXCEPT !.exit = TRUE] \in LogClient
            /\ [m EXCEPT !.pc = "done"] \in LogClient
        BY <1>0, ClientUpdates DEF ClientPlaces
      <4> HIDE DEF m
      <4> QED
        BY <3>1, <4>1, GoesType
  <2>4. CASE WriteFails(c)
    <3>1. m.nTry > 0 => m.nTry - 1 \in 0..Tries
      BY <1>0, ClientFields
    <3>2. \/ m.nTry > 0 /\ Goes(c, [m EXCEPT !.nTry = m.nTry - 1])
          \/ Goes(c, [m EXCEPT !.ok = FALSE, !.pc = "complain"])
      BY <1>0, <2>4 DEF WriteFails, LogClient
    <3> QED
      <4>1. /\ m.nTry > 0 => [m EXCEPT !.nTry = m.nTry - 1] \in LogClient
            /\ [m EXCEPT !.ok = FALSE, !.pc = "complain"] \in LogClient
        BY <1>0, <3>1, ClientUpdates DEF ClientPlaces
      <4> HIDE DEF m
      <4> QED
        BY <3>2, <4>1, GoesType
  <2> QED
    BY <2>1, <2>2, <2>3, <2>4
<1>3. queue' \in [Clients -> Seq(Message)]
  <2>1. CASE AppendMessage(c)
    <3>1. Append(queue[c], m.appended + 1) \in Seq(Message)
      BY <1>0, <2>1, RoomForMessage DEF AppendMessage
    <3> QED
      BY <2>1, <3>1, Types DEF AppendMessage
  <2>2. CASE Dequeue(c)
    BY <1>0, <2>2, Types, HeadAndTail DEF Dequeue
  <2>3. CASE queue' = queue
    BY <2>3, Types
  <2> QED
    BY <2>1, <2>2, <2>3 DEF FileLock, WriteFails, Terminate, LogThreadEnds
<1>4. lock' \in Clients \cup {Nobody}
  <2>1. lock' \in {lock, c}
    BY DEF AppendMessage, Dequeue, FileLock, WriteFails, Terminate, LogThreadEnds
  <2> QED
    BY <2>1, Types
<1> QED
  BY <1>1, <1>2, <1>3, <1>4, Types, TypesTogether DEF disk

\* Chunks of the message c is at.
LEMMA PartsType ==
  ASSUME TypeOK, NEW c \in Clients, client[c].msg \in Message
  PROVE  /\ \A i \in 0..Length : Part(c, i) \in Chunk
         /\ \A n \in Nat : client[c].nw + n <= Length =>
              /\ Parts(c, n) \in Seq(Chunk) /\ Len(Parts(c, n)) = n
              /\ \A i \in 1..n : Parts(c, n)[i] = Part(c, client[c].nw + i)
<1>1. client[c].nw \in 0..Length /\ Length \in Nat
  BY Types, ClientFields, SizeTypes
<1>2. \A i \in 0..Length : Part(c, i) \in Chunk
  BY DEF Part, Chunk
<1>3. ASSUME NEW n \in Nat, client[c].nw + n <= Length
      PROVE  /\ Parts(c, n) \in Seq(Chunk) /\ Len(Parts(c, n)) = n
             /\ \A i \in 1..n : Parts(c, n)[i] = Part(c, client[c].nw + i)
  <2>1. \A i \in 1..n : client[c].nw + i \in 0..Length
    BY <1>1, <1>3
  <2>2. Parts(c, n) \in [1..n -> Chunk]
    BY <1>2, <2>1 DEF Parts
  <2> QED
    BY <2>2 DEF Parts
<1> QED
  BY <1>2, <1>3

\* A process that opens the FIFO or ends.
LEMMA PipeStepType ==
  ASSUME TypeOK, NEW c \in Clients,
         OpenPipeForWrite(c) \/ ProcessEnds(c) \/ ProcessKilled(c)
  PROVE  TypeOK'
<1> DEFINE m == client[c]
<1>0. m \in LogClient /\ <<>> \in Seq(Message)
  BY Types
<1>1. UNCHANGED <<fifo, server, disk>> /\ LeavePipe(pipe, {})
  BY DEF OpenPipeForWrite, ProcessEnds, ProcessKilled, Gone
<1>2. client' \in [Clients -> LogClient]
  <2>1. PICK b \in BOOLEAN, pc \in ClientPlaces :
          \/ Goes(c, [m EXCEPT !.ok = b, !.open = b, !.pc = pc])
          \/ Goes(c, [m EXCEPT !.pc = pc, !.open = b])
    <3>1. CASE OpenPipeForWrite(c)
      BY <3>1, Types DEF OpenPipeForWrite, ClientPlaces, Reader
    <3>2. CASE Gone(c)
      BY <3>2 DEF Gone, ClientPlaces
    <3> QED
      BY <3>1, <3>2 DEF ProcessEnds, ProcessKilled
  <2>2. /\ [m EXCEPT !.ok = b, !.open = b, !.pc = pc] \in LogClient
        /\ [m EXCEPT !.pc = pc, !.open = b] \in LogClient
    BY <1>0, ClientUpdates
  <2> HIDE DEF m
  <2> QED
    BY <2>1, <2>2, GoesType
<1>3. queue' \in [Clients -> Seq(Message)] /\ lock' \in Clients \cup {Nobody}
  BY <1>0, Types DEF OpenPipeForWrite, ProcessEnds, ProcessKilled, Gone
<1>4. faults' \in Spent
  BY Types, FaultType DEF OpenPipeForWrite, ProcessEnds, ProcessKilled, Gone
<1>5. pipe' \in Seq(Chunk) /\ Len(pipe') <= PipeSize /\ lost' \in SUBSET Chunk
  BY <1>1, Types, LeavePipeType
<1> QED
  BY <1>1, <1>2, <1>3, <1>4, <1>5, Types, TypesTogether DEF disk

LEMMA WriteStepType ==
  ASSUME TypeOK, NEW c \in Clients, client[c].msg \in Message, Write(c) \/ Complain(c)
  PROVE  TypeOK'
<1> DEFINE m == client[c]
<1>0. m \in LogClient /\ m.msg \in Message /\ 0 \in 0..Length /\ Len(pipe) \in Nat
  <2>1. 0 \in 0..Length
    BY SizeTypes
  <2> QED
    BY <2>1, Types
<1>1. UNCHANGED <<queue, fifo, server, disk>>
  BY DEF Write, Complain
<1>2. CASE Write(c)
  <2>1. PICK n \in 1..Room :
          /\ m.nw + n <= Length
          /\ pipe' = pipe \o Parts(c, n)
          /\ Goes(c, [m EXCEPT !.nw = m.nw + n,
                        !.pc = IF m.nw + n = Length THEN "loop" ELSE "write"])
          /\ lock' = IF m.nw + n = Length THEN Nobody ELSE lock
    BY <1>0, <1>2 DEF Write, LogClient
  <2>2. n \in Nat /\ n <= Room /\ Room = PipeSize - Len(pipe) /\ m.nw + n \in 0..Length
    <3>1. m.nw \in 0..Length /\ Length \in Nat /\ PipeSize \in Nat /\ Len(pipe) \in Nat
      BY <1>0, ClientFields, SizeTypes
    <3>2. n \in 1..(PipeSize - Len(pipe)) /\ m.nw + n <= Length
      BY <2>1 DEF Room
    <3> HIDE DEF m
    <3> QED
      BY <3>1, <3>2 DEF Room
  <2>3. Parts(c, n) \in Seq(Chunk) /\ Len(Parts(c, n)) = n
    BY <1>0, <2>1, <2>2, PartsType
  <2>4. pipe' \in Seq(Chunk) /\ Len(pipe') <= PipeSize
    BY <1>0, <2>1, <2>2, <2>3, Types, ConcatProperties, SizeTypes, SMTT(30)
  <2>5. client' \in [Clients -> LogClient]
    <3> DEFINE pc == IF m.nw + n = Length THEN "loop" ELSE "write"
    <3>1. [m EXCEPT !.nw = m.nw + n, !.pc = pc] \in LogClient
      BY <1>0, <2>2, ClientUpdates DEF ClientPlaces
    <3> QED
      BY <2>1, <3>1, GoesType
  <2>6. lock' \in Clients \cup {Nobody}
    BY <2>1, Types
  <2> QED
    BY <1>1, <1>2, <2>4, <2>5, <2>6, Types, TypesTogether DEF Write, disk
<1>3. CASE Complain(c)
  <2>1. Part(c, 0) \in Chunk
    BY <1>0, PartsType
  <2>2. client' \in [Clients -> LogClient]
    <3>1. [m EXCEPT !.pc = "write"] \in LogClient
      BY <1>0, ClientUpdates DEF ClientPlaces
    <3> QED
      BY <1>3, <3>1, GoesType DEF Complain
  <2>3. pipe' \in Seq(Chunk) /\ Len(pipe') <= PipeSize
    <3>1. CASE pipe' = pipe
      BY <3>1, Types
    <3>2. CASE pipe' = Append(pipe, Part(c, 0)) /\ Room > 0
      BY <1>0, <2>1, <3>2, Types, SizeTypes DEF Room
    <3> QED
      BY <1>3, <3>1, <3>2 DEF Complain
  <2>4. faults' \in Spent
    <3>1. faults.errors \in 0..MaxErrors /\ MaxErrors \in Nat /\ faults \in Spent
      BY Types, SizeTypes DEF Spent
    <3>2. \/ faults' = faults
          \/ faults.errors < MaxErrors /\ faults' = [faults EXCEPT !.errors = faults.errors + 1]
      BY <1>3, <3>1 DEF Complain, Spent
    <3>3. faults.errors < MaxErrors => faults.errors + 1 \in 0..MaxErrors
      BY <3>1
    <3> QED
      BY <3>1, <3>2, <3>3 DEF Spent
  <2> QED
    BY <1>1, <1>3, <2>2, <2>3, <2>4, Types, TypesTogether DEF Complain, disk
<1> QED
  BY <1>2, <1>3

\* A rotation of a file of n chunks.
LEMMA RotateType ==
  ASSUME NEW when \in {"start", "write"}, NEW n \in Nat, NEW renamed \in BOOLEAN,
         closed \in Seq(Rotated), Rotate(when, n, renamed)
  PROVE  file' \in Nat /\ closed' \in Seq(Rotated)
<1>1. [length |-> n, when |-> when] \in Rotated
  BY DEF Rotated
<1> QED
  BY <1>1, SMTT(30) DEF Rotate

LEMMA CountAndRotateType ==
  ASSUME TypeOK, NEW n \in {0, 1}, NEW renamed \in BOOLEAN, CountAndRotate(n, renamed)
  PROVE  /\ server' \in ServerState /\ file' \in Nat /\ closed' \in Seq(Rotated)
         /\ server'.pc = "reading" /\ server'.buf = <<>>
<1>1. /\ server \in ServerState /\ file + n \in Nat /\ closed \in Seq(Rotated)
      /\ <<>> \in Seq(Chunk)
  BY Types
<1>2. PICK size \in Sizes(n) :
        IF size > MaxFileSize
        THEN Written(IF renamed THEN 0 ELSE -1) /\ Rotate("write", file + n, renamed)
        ELSE Written(size) /\ file' = file + n /\ UNCHANGED closed
  BY DEF CountAndRotate
<1>3. size \in {-1} \cup Nat
  BY <1>1, <1>2 DEF Sizes, ServerState
<1>4. PICK z \in {-1} \cup Nat : Written(z)
  BY <1>2, <1>3
<1>5. server' \in ServerState /\ server'.pc = "reading" /\ server'.buf = <<>>
  BY <1>1, <1>4 DEF Written, ServerState
<1>6. file' \in Nat /\ closed' \in Seq(Rotated)
  BY <1>1, <1>2, RotateType
<1> QED
  BY <1>5, <1>6

LEMMA ServerStepType ==
  ASSUME TypeOK,
         \/ CreateLogServer \/ OpenFifo \/ InitServer \/ ReadPipe
         \/ WriteAll \/ WriteAllFails \/ InitFails \/ LogServerDies
  PROVE  TypeOK'
<1>1. /\ UNCHANGED <<client, queue, lock>>
      /\ server \in ServerState /\ <<>> \in Seq(Chunk)
  <2>1. UNCHANGED <<client, queue, lock>>
    BY DEF CreateLogServer, OpenFifo, InitServer, ReadPipe, WriteAll, WriteAllFails,
           InitFails, LogServerDies
  <2> QED
    BY <2>1, Types
<1>2. CASE CreateLogServer \/ OpenFifo
  <2>1. server' \in ServerState
    <3>1. CASE CreateLogServer
      BY <1>1, <3>1 DEF CreateLogServer, ServerState
    <3>2. CASE OpenFifo
      BY <1>1, <3>2 DEF OpenFifo, Up, ServerState
    <3> QED
      BY <1>2, <3>1, <3>2
  <2> QED
    BY <1>1, <1>2, <2>1, Types, TypesTogether DEF CreateLogServer, OpenFifo, disk
<1>3. CASE InitServer
  <2>1. server' \in ServerState
    BY <1>1, <1>3, Types DEF InitServer, ServerState
  <2>2. file' \in Nat /\ closed' \in Seq(Rotated)
    BY <1>3, Types, RotateType DEF InitServer
  <2>3. faults' \in Spent
    BY <1>3, Types, FaultType DEF InitServer, Renamed
  <2> QED
    BY <1>1, <1>3, <2>1, <2>2, <2>3, Types, TypesTogether DEF InitServer
<1>4. CASE InitFails \/ LogServerDies
  <2>1. server' \in ServerState
    BY <1>1, <1>4 DEF InitFails, LogServerDies, Up, ServerState
  <2>2. Range(server.buf) \in SUBSET Chunk
    BY <1>1, RangeOfSeq DEF ServerState
  <2>3. LeavePipe(pipe, {}) \/ LeavePipe(pipe, Range(server.buf))
    BY <1>4 DEF InitFails, LogServerDies
  <2>4. pipe' \in Seq(Chunk) /\ Len(pipe') <= PipeSize /\ lost' \in SUBSET Chunk
    BY <2>2, <2>3, Types, LeavePipeType
  <2>5. faults' \in Spent
    BY <1>4, Types, FaultType DEF InitFails, LogServerDies
  <2> QED
    BY <1>1, <1>4, <2>1, <2>4, <2>5, Types, TypesTogether DEF InitFails, LogServerDies, disk
<1>5. CASE ReadPipe
  <2>1. /\ Tail(pipe) \in Seq(Chunk) /\ Len(Tail(pipe)) = Len(pipe) - 1
        /\ <<Head(pipe)>> \in Seq(Chunk)
    BY <1>5, Types, HeadAndTail DEF ReadPipe
  <2>2. server' \in ServerState
    BY <1>1, <1>5, <2>1 DEF ReadPipe, ServerState
  <2>3. pipe' \in Seq(Chunk) /\ Len(pipe') <= PipeSize
    BY <1>5, <2>1, Types, SizeTypes DEF ReadPipe
  <2> QED
    BY <1>1, <1>5, <2>2, <2>3, Types, TypesTogether DEF ReadPipe, disk
<1>6. CASE WriteAll \/ WriteAllFails
  <2>1. PICK n \in {0, 1}, renamed \in BOOLEAN : CountAndRotate(n, renamed)
    BY <1>6 DEF WriteAll, WriteAllFails
  <2>2. server' \in ServerState /\ file' \in Nat /\ closed' \in Seq(Rotated)
    BY <2>1, CountAndRotateType
  <2>3. server.buf \in Seq(Chunk) /\ Range(server.buf) \in SUBSET Chunk
    BY <1>1, RangeOfSeq DEF ServerState
  <2>4. log' \in Seq(Chunk) /\ lost' \in SUBSET Chunk
    BY <1>6, <2>3, Types, ConcatProperties, ZenonT(40) DEF WriteAll, WriteAllFails
  <2>5. faults' \in Spent
    BY <1>6, Types, FaultType DEF WriteAll, WriteAllFails, Renamed
  <2> QED
    BY <1>1, <1>6, <2>2, <2>4, <2>5, Types, TypesTogether DEF WriteAll, WriteAllFails
<1> QED
  BY <1>2, <1>3, <1>4, <1>5, <1>6

-----------------------------------------------------------------------------
(* Threads.                                                                *)

\* What the thread of c has in hand, what it holds and what is left to do: the
\* messages of its list are the ones after the one in hand, that one is complete
\* when it looks for another, and it holds the lock exactly while it writes.
Thread(c) ==
  LET m == client[c]
  IN  /\ m.pc \in {"lock", "write", "complain"} => m.msg \in Message
      /\ m.pc \in {"write", "complain"} <=> lock = c
      /\ m.pc # "gone" => Len(queue[c]) = m.appended - m.msg
      /\ \A i \in 1..Len(queue[c]) : queue[c][i] = m.msg + i
      /\ m.pc = "loop" => m.msg = 0 \/ m.nw = Length
      /\ m.pc = "lock" => m.nw = 0
Threads == \A c \in Clients : Thread(c)

\* A step of one process leaves the threads of the others as they are.
LEMMA OtherThreads ==
  ASSUME TypeOK, Threads, NEW c \in Clients, NEW m, Goes(c, m),
         \A d \in Clients : d # c => queue'[d] = queue[d],
         \A d \in Clients : d # c => (lock' = d <=> lock = d),
         Thread(c)'
  PROVE  Threads'
<1>1. \A d \in Clients : d # c => client'[d] = client[d]
  BY DEF Goes
<1>2. ASSUME NEW d \in Clients, d # c PROVE Thread(d)'
  BY <1>1, <1>2 DEF Threads, Thread
<1> QED
  BY <1>2 DEF Threads

LEMMA GoesTo ==
  ASSUME TypeOK, NEW c \in Clients, NEW m, Goes(c, m)
  PROVE  client'[c] = m /\ \A d \in Clients : d # c => client'[d] = client[d]
BY Types DEF Goes

LEMMA AppendThread ==
  ASSUME TypeOK, Threads, NEW c \in Clients, AppendMessage(c)
  PROVE  Threads'
<1> DEFINE m == client[c]
           n == [m EXCEPT !.appended = m.appended + 1]
           q == Append(queue[c], m.appended + 1)
<1>0. m \in LogClient /\ queue[c] \in Seq(Message) /\ Thread(c)
  BY Types DEF Threads
<1>1. /\ Goes(c, n) /\ queue' = [queue EXCEPT ![c] = q] /\ lock' = lock
      /\ m.pc # "gone"
  BY <1>0 DEF AppendMessage, LogClient
<1>2. client'[c] = n /\ queue'[c] = q
  BY <1>1, GoesTo, Types
<1>3. /\ n.pc = m.pc /\ n.msg = m.msg /\ n.nw = m.nw /\ n.appended = m.appended + 1
      /\ m.appended \in Nat /\ m.msg \in Nat
  BY <1>0 DEF LogClient
<1>4. /\ Len(q) = Len(queue[c]) + 1 /\ Len(queue[c]) \in Nat
      /\ q[Len(queue[c]) + 1] = m.appended + 1
      /\ \A i \in 1..Len(queue[c]) : q[i] = queue[c][i]
  BY <1>0, RoomForMessage DEF AppendMessage
<1>9. /\ Len(queue[c]) = m.appended - m.msg
      /\ \A i \in 1..Len(queue[c]) : queue[c][i] = m.msg + i
  BY <1>0, <1>1 DEF Thread
<1> HIDE DEF m, n, q
<1>5. ASSUME NEW i \in 1..Len(q) PROVE q[i] = m.msg + i
  <2>1. CASE i \in 1..Len(queue[c])
    BY <1>4, <1>9, <2>1
  <2>2. CASE i = Len(queue[c]) + 1
    BY <1>3, <1>4, <1>9, <2>2
  <2> QED
    BY <1>4, <2>1, <2>2
<1>6. Thread(c)'
  BY <1>0, <1>1, <1>2, <1>3, <1>4, <1>5 DEF Thread, m
<1>7. \A d \in Clients : d # c => queue'[d] = queue[d]
  BY <1>1, Types
<1> QED
  BY <1>1, <1>6, <1>7, OtherThreads

LEMMA DequeueThread ==
  ASSUME TypeOK, Threads, NEW c \in Clients, Dequeue(c)
  PROVE  Threads' /\ client'[c].msg = client[c].msg + 1
<1> DEFINE m == client[c]
           h == Head(queue[c])
           n == [m EXCEPT !.pc = "lock", !.msg = h, !.nw = 0, !.nTry = Tries]
           q == Tail(queue[c])
<1>0. m \in LogClient /\ queue[c] \in Seq(Message) /\ Thread(c)
  BY Types DEF Threads
<1>1. /\ Goes(c, n) /\ queue' = [queue EXCEPT ![c] = q] /\ lock' = lock
      /\ m.pc = "loop" /\ queue[c] # <<>>
  BY DEF Dequeue, At
<1>2. client'[c] = n /\ queue'[c] = q
  BY <1>1, GoesTo, Types
<1>3. /\ n.pc = "lock" /\ n.msg = h /\ n.nw = 0 /\ n.appended = m.appended
      /\ m.appended \in Nat /\ m.msg \in Nat
  BY <1>0 DEF LogClient
<1>4. /\ Len(q) = Len(queue[c]) - 1 /\ Len(queue[c]) \in Nat \ {0}
      /\ h = queue[c][1] /\ h \in Message
      /\ \A i \in 1..Len(q) : q[i] = queue[c][i + 1]
  BY <1>0, <1>1, HeadAndTail, HeadTailProperties
<1>9. /\ Len(queue[c]) = m.appended - m.msg
      /\ \A i \in 1..Len(queue[c]) : queue[c][i] = m.msg + i
  BY <1>0, <1>1 DEF Thread
<1> HIDE DEF m, n, q, h
<1>5. h = m.msg + 1
  BY <1>4, <1>9
<1>6. ASSUME NEW i \in 1..Len(q) PROVE q[i] = h + i
  <2>1. i + 1 \in 1..Len(queue[c]) /\ i \in Nat
    BY <1>4
  <2>2. q[i] = queue[c][i + 1]
    BY <1>4
  <2>3. queue[c][i + 1] = m.msg + (i + 1)
    BY <1>9, <2>1
  <2>4. q[i] = m.msg + (i + 1)
    BY <2>2, <2>3
  <2>5. ASSUME NEW a \in Nat, NEW b \in Nat PROVE a + (b + 1) = (a + 1) + b
    OBVIOUS
  <2>6. m.msg \in Nat
    BY <1>3
  <2> QED
    BY <1>5, <2>1, <2>4, <2>5, <2>6
<1>10. Len(q) = m.appended - h
  BY <1>3, <1>4, <1>5, <1>9
<1>11. lock # c
  BY <1>0, <1>1 DEF Thread, m
<1>7. Thread(c)'
  BY <1>1, <1>2, <1>3, <1>4, <1>6, <1>10, <1>11 DEF Thread
<1>8. \A d \in Clients : d # c => queue'[d] = queue[d]
  BY <1>1, Types
<1> QED
  BY <1>1, <1>2, <1>3, <1>5, <1>7, <1>8, OtherThreads DEF m

\* A step that leaves the list and the message in hand alone, or forgets them.
LEMMA KeptThread ==
  ASSUME TypeOK, Threads, NEW c \in Clients, NEW n, Goes(c, n),
         n.msg = client[c].msg, n.appended = client[c].appended, client[c].pc # "gone",
         \/ queue' = queue
         \/ n.pc = "gone" /\ queue' = [queue EXCEPT ![c] = <<>>],
         n.pc \in {"lock", "write", "complain"} => client[c].pc \in {"lock", "write", "complain"},
         n.pc \in {"write", "complain"} <=> lock' = c,
         \A d \in Clients : d # c => (lock' = d <=> lock = d),
         n.pc = "loop" => n.msg = 0 \/ n.nw = Length,
         n.pc = "lock" => n.nw = 0
  PROVE  Threads'
<1>0. client'[c] = n /\ Thread(c) /\ queue[c] \in Seq(Message)
  BY GoesTo, Types DEF Threads
<1>1. \A d \in Clients : d # c => queue'[d] = queue[d]
  BY Types
<1>2. CASE queue' = queue
  BY <1>0, <1>1, <1>2, OtherThreads DEF Thread
<1>3. CASE n.pc = "gone" /\ queue' = [queue EXCEPT ![c] = <<>>]
  <2>1. queue'[c] = <<>> /\ Len(queue'[c]) = 0
    BY <1>3, Types
  <2>2. \A i \in 1..Len(queue'[c]) : FALSE
    BY <2>1
  <2>3. Thread(c)'
    BY <1>0, <1>3, <2>2 DEF Thread
  <2> QED
    BY <1>1, <2>3, OtherThreads
<1> QED
  BY <1>2, <1>3

\* A thread that tries, waits, writes, complains or looks for the FIFO.
LEMMA WorkingThread ==
  ASSUME TypeOK, Threads, NEW c \in Clients,
         \/ FileLock(c) \/ Write(c) \/ WriteFails(c) \/ Complain(c)
         \/ Terminate(c) \/ LogThreadEnds(c) \/ OpenPipeForWrite(c)
  PROVE  Threads'
<1> DEFINE m == client[c]
<1>0. m \in LogClient /\ Thread(c) /\ queue' = queue /\ lock \in Clients \cup {Nobody}
  BY Types DEF Threads, FileLock, Write, WriteFails, Complain, Terminate,
               LogThreadEnds, OpenPipeForWrite
<1>1. /\ m.pc \in {"write", "complain"} <=> lock = c
      /\ m.pc = "loop" => m.msg = 0 \/ m.nw = Length
      /\ m.pc = "lock" => m.nw = 0
      /\ Nobody \notin Clients
  BY <1>0, LogAssumption DEF Thread
<1>2. CASE FileLock(c)
  <2> DEFINE n == [m EXCEPT !.pc = "write"]
  <2>1. /\ n.pc = "write" /\ n.msg = m.msg /\ n.appended = m.appended
        /\ Goes(c, n) /\ m.pc = "lock" /\ lock = Nobody /\ lock' = c
    BY <1>0, <1>2 DEF FileLock, At, LogClient
  <2> HIDE DEF n
  <2> QED
    BY <1>0, <1>1, <2>1, KeptThread
<1>3. CASE Write(c)
  <2>1. PICK k \in 1..Room :
          /\ m.nw + k <= Length
          /\ Goes(c, [m EXCEPT !.nw = m.nw + k,
                        !.pc = IF m.nw + k = Length THEN "loop" ELSE "write"])
          /\ lock' = IF m.nw + k = Length THEN Nobody ELSE lock
    BY <1>0, <1>3 DEF Write, LogClient
  <2> DEFINE n == [m EXCEPT !.nw = m.nw + k,
                            !.pc = IF m.nw + k = Length THEN "loop" ELSE "write"]
  <2>2. /\ n.msg = m.msg /\ n.appended = m.appended /\ n.nw = m.nw + k
        /\ n.pc = IF m.nw + k = Length THEN "loop" ELSE "write"
        /\ Goes(c, n) /\ m.pc = "write"
    BY <1>0, <1>3, <2>1 DEF Write, At, LogClient
  <2> HIDE DEF n
  <2>3. lock = c
    BY <1>1, <2>2
  <2>4. CASE m.nw + k = Length
    BY <1>0, <1>1, <2>1, <2>2, <2>3, <2>4, KeptThread
  <2>5. CASE m.nw + k # Length
    BY <1>0, <1>1, <2>1, <2>2, <2>3, <2>5, KeptThread
  <2> QED
    BY <2>4, <2>5
<1>4. CASE WriteFails(c) \/ Complain(c)
  <2>1. PICK n : /\ Goes(c, n) /\ n.pc \in {"write", "complain"}
                 /\ n.msg = m.msg /\ n.appended = m.appended
                 /\ m.pc \in {"write", "complain"} /\ lock' = lock
    BY <1>0, <1>4 DEF WriteFails, Complain, At, LogClient
  <2> QED
    BY <1>0, <1>1, <2>1, KeptThread
<1>5. CASE Terminate(c) \/ LogThreadEnds(c) \/ OpenPipeForWrite(c)
  <2>1. PICK n : /\ Goes(c, n) /\ n.pc \in {m.pc, "done"}
                 /\ n.pc = "done" => m.pc = "loop" \/ m.pc = "done"
                 /\ n.msg = m.msg /\ n.appended = m.appended /\ n.nw = m.nw
                 /\ m.pc # "gone" /\ lock' = lock
    BY <1>0, <1>5 DEF Terminate, LogThreadEnds, OpenPipeForWrite, At, LogClient
  <2> QED
    BY <1>0, <1>1, <2>1, KeptThread
<1> QED
  BY <1>2, <1>3, <1>4, <1>5

LEMMA GoneThread ==
  ASSUME TypeOK, Threads, NEW c \in Clients, Gone(c)
  PROVE  Threads'
<1> DEFINE m == client[c]
           n == [m EXCEPT !.pc = "gone", !.open = FALSE]
<1>1. m \in LogClient /\ lock \in Clients \cup {Nobody} /\ Nobody \notin Clients
  BY Types, LogAssumption
<1>2. /\ Goes(c, n) /\ n.pc = "gone" /\ n.msg = m.msg /\ n.appended = m.appended
      /\ m.pc # "gone" /\ queue' = [queue EXCEPT ![c] = <<>>]
      /\ lock' = IF lock = c THEN Nobody ELSE lock
  BY <1>1 DEF Gone, LogClient
<1> HIDE DEF n
<1> QED
  BY <1>1, <1>2, KeptThread

ClientStep(c) == AppendMessage(c) \/ Terminate(c) \/ LogThread(c) \/ ProcessEnds(c) \/ ProcessKilled(c)
ServerStep == CreateLogServer \/ LogServer \/ InitFails \/ WriteAllFails \/ LogServerDies

LEMMA StepsOfNext ==
  ASSUME Next
  PROVE  ServerStep \/ \E c \in Clients : ClientStep(c)
BY DEF Next, ServerStep, ClientStep

LEMMA ServerLeavesClients ==
  ASSUME ServerStep
  PROVE  UNCHANGED <<client, queue, lock>>
BY DEF ServerStep, LogServer, CreateLogServer, OpenFifo, InitServer, ReadPipe, WriteAll,
       InitFails, WriteAllFails, LogServerDies

LEMMA ThreadStep ==
  ASSUME TypeOK, Threads, [Next]_vars
  PROVE  Threads'
<1>1. CASE UNCHANGED <<client, queue, lock>>
  BY <1>1 DEF Threads, Thread
<1>2. ASSUME NEW c \in Clients, ClientStep(c) PROVE Threads'
  BY <1>2, AppendThread, DequeueThread, WorkingThread, GoneThread
     DEF ClientStep, LogThread, ProcessEnds, ProcessKilled
<1>3. CASE UNCHANGED vars
  BY <1>1, <1>3 DEF vars
<1> QED
  BY <1>1, <1>2, <1>3, StepsOfNext, ServerLeavesClients

-----------------------------------------------------------------------------
(* The invariant.                                                          *)

\* The log server holds something between a read and a write only.
BufferEmpty == server.pc # "writing" => server.buf = <<>>

BaseInv == TypeOK /\ Threads /\ BufferEmpty

LEMMA BaseInit ==
  ASSUME Init
  PROVE  BaseInv
<1>1. /\ <<>> \in Seq(Chunk) /\ <<>> \in Seq(Message) /\ <<>> \in Seq(Rotated)
      /\ Len(<<>>) = 0
  BY EmptySeq
<1>2. /\ 0 \in 0..MaxMessages /\ 0 \in 0..Length /\ 0 \in 0..Tries /\ 0 <= PipeSize
      /\ 0 \in 0..MaxErrors /\ 0 \in 0..MaxFaults
  BY SizeTypes
<1>3. client \in [Clients -> LogClient]
  BY <1>2 DEF Init, LogClient, ClientPlaces
<1>4. server \in ServerState /\ faults \in Spent
  BY <1>1, <1>2 DEF Init, ServerState, Spent
<1>5. TypeOK
  BY <1>1, <1>2, <1>3, <1>4 DEF Init, TypeOK, LogClient, ServerState, Spent, Rotated, ClientPlaces
<1>6. \A c \in Clients : Thread(c)
  BY <1>1, LogAssumption DEF Init, Thread
<1> QED
  BY <1>5, <1>6 DEF BaseInv, Threads, BufferEmpty, Init

LEMMA BaseStep ==
  ASSUME BaseInv, [Next]_vars
  PROVE  BaseInv'
<1>1. TypeOK /\ Threads /\ BufferEmpty
  BY DEF BaseInv
<1>2. TypeOK'
  <2>1. ASSUME NEW c \in Clients, ClientStep(c) PROVE TypeOK'
    <3>1. CASE Write(c) \/ Complain(c)
      <4>1. client[c].msg \in Message
        BY <1>1, <3>1 DEF Threads, Thread, Write, Complain, At
      <4> QED
        BY <1>1, <3>1, <4>1, WriteStepType
    <3> QED
      BY <1>1, <2>1, <3>1, ClientStepType, PipeStepType DEF ClientStep, LogThread
  <2>2. CASE ServerStep
    BY <1>1, <2>2, ServerStepType DEF ServerStep, LogServer
  <2>3. CASE UNCHANGED vars
    BY <1>1, <2>3 DEF TypeOK, vars
  <2> QED
    BY <2>1, <2>2, <2>3, StepsOfNext
<1>3. Threads'
  BY <1>1, ThreadStep
<1>4. BufferEmpty'
  <2>0. server \in ServerState
    BY <1>1, Types
  <2>1. ASSUME NEW c \in Clients, ClientStep(c) PROVE server' = server
    BY <2>1 DEF ClientStep, LogThread, AppendMessage, Terminate, OpenPipeForWrite, Dequeue,
         FileLock, Write, WriteFails, Complain, LogThreadEnds, ProcessEnds, ProcessKilled, Gone
  <2>2. CASE ServerStep
    <3>1. CASE WriteAll \/ WriteAllFails
      <4>1. \E n, renamed : CountAndRotate(n, renamed)
        BY <3>1 DEF WriteAll, WriteAllFails
      <4>2. PICK size : Written(size)
        BY <4>1 DEF CountAndRotate
      <4>3. server'.buf = <<>>
        BY <2>0, <4>2 DEF Written, ServerState
      <4> QED
        BY <4>3 DEF BufferEmpty
    <3>2. CASE CreateLogServer \/ OpenFifo \/ InitServer \/ ReadPipe \/ InitFails \/ LogServerDies
      <4>1. CASE CreateLogServer \/ LogServerDies
        <5>1. CASE CreateLogServer
          BY <5>1 DEF CreateLogServer, BufferEmpty
        <5>2. CASE LogServerDies
          <6>1. server'.buf = <<>>
            BY <2>0, <5>2 DEF LogServerDies, ServerState
          <6> QED
            BY <6>1 DEF BufferEmpty
        <5> QED
          BY <4>1, <5>1, <5>2
      <4>2. CASE OpenFifo \/ InitServer \/ InitFails
        <5>1. server'.buf = server.buf
          BY <2>0, <4>2 DEF OpenFifo, InitServer, InitFails, Up, ServerState
        <5>2. server.pc # "writing"
          BY <4>2 DEF OpenFifo, InitServer, InitFails
        <5> QED
          BY <1>1, <5>1, <5>2 DEF BufferEmpty
      <4>3. CASE ReadPipe
        <5>1. server'.pc = "writing"
          BY <2>0, <4>3 DEF ReadPipe, ServerState
        <5> QED
          BY <5>1 DEF BufferEmpty
      <4> QED
        BY <3>2, <4>1, <4>2, <4>3
    <3> QED
      BY <2>2, <3>1, <3>2 DEF ServerStep, LogServer
  <2>3. CASE server' = server
    BY <1>1, <2>3 DEF BufferEmpty
  <2> QED
    BY <2>1, <2>2, <2>3, StepsOfNext DEF vars
<1> QED
  BY <1>2, <1>3, <1>4 DEF BaseInv

LEMMA BaseInvariant == Spec => []BaseInv
<1>1. Init => BaseInv
  BY BaseInit
<1>2. BaseInv /\ [Next]_vars => BaseInv'
  BY BaseStep
<1> QED
  BY <1>1, <1>2, PTL DEF Spec

\* The types hold in every reachable state: in particular the FIFO never holds
\* more than PipeSize and no thread counts past the end of its message.
THEOREM LogTypesCorrect == Spec => []TypeOK
<1>1. BaseInv => TypeOK
  BY DEF BaseInv
<1> QED
  BY <1>1, BaseInvariant, PTL

-----------------------------------------------------------------------------
(* The trail of chunks.                                                    *)

\* What is left of the sequence t when elements are taken out.
Thinner(u, t) ==
  \E f \in [1..Len(u) -> 1..Len(t)] :
    /\ \A i, j \in 1..Len(u) : i < j => f[i] < f[j]
    /\ \A i \in 1..Len(u) : u[i] = t[f[i]]

LEMMA SameIsThinner == ASSUME NEW t \in Seq(Chunk) PROVE Thinner(t, t)
<1> DEFINE f == [i \in 1..Len(t) |-> i]
<1>1. f \in [1..Len(t) -> 1..Len(t)]
  OBVIOUS
<1>2. Len(t) \in Nat
  BY LenProperties
<1> QED
  BY <1>1, <1>2 DEF Thinner

\* The three places a chunk of the trail can be in.
LEMMA ThreePlaces ==
  ASSUME NEW a \in Seq(Chunk), NEW b \in Seq(Chunk), NEW p \in Seq(Chunk)
  PROVE  /\ a \o b \o p \in Seq(Chunk)
         /\ Len(a) \in Nat /\ Len(b) \in Nat /\ Len(p) \in Nat
         /\ Len(a \o b \o p) = Len(a) + Len(b) + Len(p)
         /\ \A i \in 1..Len(a) : (a \o b \o p)[i] = a[i]
         /\ \A i \in 1..Len(b) : (a \o b \o p)[Len(a) + i] = b[i]
         /\ \A i \in 1..Len(p) : (a \o b \o p)[Len(a) + Len(b) + i] = p[i]
<1>1. Len(a) \in Nat /\ Len(b) \in Nat /\ Len(p) \in Nat
  BY LenProperties
<1> DEFINE ab == a \o b
<1>2. /\ ab \in Seq(Chunk) /\ Len(ab) = Len(a) + Len(b)
      /\ \A i \in 1..Len(a) + Len(b) : ab[i] = IF i <= Len(a) THEN a[i] ELSE b[i - Len(a)]
  BY ConcatProperties
<1> HIDE DEF ab
<1>3. /\ ab \o p \in Seq(Chunk) /\ Len(ab \o p) = Len(ab) + Len(p)
      /\ \A i \in 1..Len(ab) + Len(p) : (ab \o p)[i] = IF i <= Len(ab) THEN ab[i] ELSE p[i - Len(ab)]
  <2>1. ab \in Seq(Chunk)
    BY <1>2
  <2> QED
    BY <2>1, ConcatProperties
<1>4. ASSUME NEW i \in 1..Len(a) PROVE (ab \o p)[i] = a[i]
  <2>1. /\ i \in 1..Len(a) + Len(b) /\ i <= Len(a)
        /\ i \in 1..Len(ab) + Len(p) /\ i <= Len(ab)
    BY <1>1, <1>2
  <2> QED
    BY <1>2, <1>3, <2>1
<1>5. ASSUME NEW i \in 1..Len(b) PROVE (ab \o p)[Len(a) + i] = b[i]
  <2>1. Len(a) + i \in 1..Len(a) + Len(b) /\ ~(Len(a) + i <= Len(a)) /\ (Len(a) + i) - Len(a) = i
    BY <1>1
  <2>2. Len(a) + i \in 1..Len(ab) + Len(p) /\ Len(a) + i <= Len(ab)
    BY <1>1, <1>2, <2>1
  <2> QED
    BY <1>2, <1>3, <2>1, <2>2
<1>6. ASSUME NEW i \in 1..Len(p) PROVE (ab \o p)[Len(a) + Len(b) + i] = p[i]
  <2>1. /\ Len(a) + Len(b) + i \in 1..Len(ab) + Len(p) /\ ~(Len(a) + Len(b) + i <= Len(ab))
        /\ (Len(a) + Len(b) + i) - Len(ab) = i
    BY <1>1, <1>2
  <2> QED
    BY <1>3, <2>1
<1> QED
  BY <1>1, <1>2, <1>3, <1>4, <1>5, <1>6 DEF ab

\* The log server or the FIFO loses what it holds.
LEMMA LosingThins ==
  ASSUME NEW a \in Seq(Chunk), NEW b \in Seq(Chunk), NEW p \in Seq(Chunk),
         NEW d \in {b, <<>>}, NEW e \in {p, <<>>}
  PROVE  Thinner(a \o d \o e, a \o b \o p)
<1> DEFINE u == a \o d \o e
           t == a \o b \o p
           f == [i \in 1..Len(u) |-> IF i <= Len(a) + Len(d) THEN i ELSE (i - Len(d)) + Len(b)]
<1>0. d \in Seq(Chunk) /\ e \in Seq(Chunk) /\ Len(<<>>) = 0
  BY EmptySeq
<1>1. /\ Len(a) \in Nat /\ Len(b) \in Nat /\ Len(p) \in Nat /\ Len(d) \in Nat /\ Len(e) \in Nat
      /\ Len(t) = Len(a) + Len(b) + Len(p)
      /\ \A i \in 1..Len(a) : t[i] = a[i]
      /\ \A i \in 1..Len(b) : t[Len(a) + i] = b[i]
      /\ \A i \in 1..Len(p) : t[Len(a) + Len(b) + i] = p[i]
  <2>1. Len(d) \in Nat /\ Len(e) \in Nat
    BY <1>0, LenProperties
  <2>2. /\ Len(a) \in Nat /\ Len(b) \in Nat /\ Len(p) \in Nat
        /\ Len(a \o b \o p) = Len(a) + Len(b) + Len(p)
        /\ \A i \in 1..Len(a) : (a \o b \o p)[i] = a[i]
        /\ \A i \in 1..Len(b) : (a \o b \o p)[Len(a) + i] = b[i]
        /\ \A i \in 1..Len(p) : (a \o b \o p)[Len(a) + Len(b) + i] = p[i]
    BY ThreePlaces
  <2> QED
    BY <2>1, <2>2, Zenon
<1>2. /\ Len(u) = Len(a) + Len(d) + Len(e)
      /\ \A i \in 1..Len(a) : u[i] = a[i]
      /\ \A i \in 1..Len(d) : u[Len(a) + i] = d[i]
      /\ \A i \in 1..Len(e) : u[Len(a) + Len(d) + i] = e[i]
  <2>1. d \in Seq(Chunk) /\ e \in Seq(Chunk)
    BY <1>0
  <2>2. /\ Len(a \o d \o e) = Len(a) + Len(d) + Len(e)
        /\ \A i \in 1..Len(a) : (a \o d \o e)[i] = a[i]
        /\ \A i \in 1..Len(d) : (a \o d \o e)[Len(a) + i] = d[i]
        /\ \A i \in 1..Len(e) : (a \o d \o e)[Len(a) + Len(d) + i] = e[i]
    BY <2>1, ThreePlaces
  <2> QED
    BY <2>2, Zenon
<1>3. Len(d) <= Len(b) /\ Len(e) <= Len(p) /\ (d = b \/ Len(d) = 0) /\ (e = p \/ Len(e) = 0)
  BY <1>0, <1>1
<1> HIDE DEF u, t
<1>4. f \in [1..Len(u) -> 1..Len(t)]
  BY <1>1, <1>2, <1>3
<1>5. \A i, j \in 1..Len(u) : i < j => f[i] < f[j]
  BY <1>1, <1>2, <1>3
<1>6. ASSUME NEW i \in 1..Len(u) PROVE u[i] = t[f[i]]
  <2>1. CASE i <= Len(a)
    BY <1>1, <1>2, <2>1
  <2>2. CASE i > Len(a) /\ i <= Len(a) + Len(d)
    <3> DEFINE k == i - Len(a)
    <3>1. k \in 1..Len(d) /\ k \in 1..Len(b) /\ Len(a) + k = i /\ d = b /\ f[i] = i
      BY <1>1, <1>2, <1>3, <2>2
    <3> HIDE DEF k
    <3> QED
      BY <1>1, <1>2, <3>1
  <2>3. CASE i > Len(a) + Len(d)
    <3> DEFINE k == i - (Len(a) + Len(d))
    <3>1. /\ k \in 1..Len(e) /\ k \in 1..Len(p) /\ Len(a) + Len(d) + k = i /\ e = p
          /\ f[i] = Len(a) + Len(b) + k
      BY <1>1, <1>2, <1>3, <2>3
    <3> HIDE DEF k
    <3> QED
      BY <1>1, <1>2, <3>1
  <2> QED
    BY <1>1, <2>1, <2>2, <2>3
<1> HIDE DEF f
<1> QED
  BY <1>4, <1>5, <1>6 DEF Thinner, u, t

LEMMA TrailType ==
  ASSUME TypeOK
  PROVE  /\ Trail \in Seq(Chunk) /\ Len(Trail) \in Nat /\ DOMAIN Trail = 1..Len(Trail)
         /\ \A i \in 1..Len(Trail) : Trail[i] \in Chunk
         /\ log \in Seq(Chunk) /\ server.buf \in Seq(Chunk) /\ pipe \in Seq(Chunk)
<1>1. log \in Seq(Chunk) /\ server.buf \in Seq(Chunk) /\ pipe \in Seq(Chunk)
  BY Types DEF ServerState
<1>2. Trail \in Seq(Chunk)
  BY <1>1, ThreePlaces DEF Trail
<1> HIDE DEF Trail
<1> QED
  BY <1>1, <1>2, LenProperties

\* The properties of the trail, of any sequence of chunks t.
WholeIn(t) ==
  \A i, j, k \in 1..Len(t) :
    i < j /\ j < k /\ SameMessage(t[i], t[k]) => SameMessage(t[j], t[i])
OrderedIn(t) ==
  \A i, j \in 1..Len(t) :
    i < j /\ t[i].of = t[j].of /\ t[i].part > 0 /\ t[j].part > 0 => Before(t[i], t[j])

\* A thread in state m can have written x.
Reached(m, x) == x.msg < m.msg \/ (x.msg = m.msg /\ m.pc # "lock" /\ x.part <= m.nw)

\* Nothing in t is newer than what its process has written.
BoundedIn(t, clients) == \A i \in 1..Len(t) : Reached(clients[t[i].of], t[i])

\* Nothing comes after the message of the process that holds the lock.
LatestIn(t, clients, holder) ==
  \A i, j \in 1..Len(t) :
    i < j /\ t[i].of = holder /\ t[i].msg = clients[holder].msg => SameMessage(t[j], t[i])

TrailInv ==
  /\ WholeIn(Trail) /\ OrderedIn(Trail)
  /\ BoundedIn(Trail, client) /\ LatestIn(Trail, client, lock)

LEMMA ThinnerKeeps ==
  ASSUME NEW t, NEW u, Thinner(u, t), NEW clients, NEW holder,
         WholeIn(t), OrderedIn(t), BoundedIn(t, clients), LatestIn(t, clients, holder)
  PROVE  /\ WholeIn(u) /\ OrderedIn(u)
         /\ BoundedIn(u, clients) /\ LatestIn(u, clients, holder)
<1>1. PICK f \in [1..Len(u) -> 1..Len(t)] :
        /\ \A i, j \in 1..Len(u) : i < j => f[i] < f[j]
        /\ \A i \in 1..Len(u) : u[i] = t[f[i]]
  BY DEF Thinner
<1>2. WholeIn(u)
  <2> SUFFICES ASSUME NEW i \in 1..Len(u), NEW j \in 1..Len(u), NEW k \in 1..Len(u),
                      i < j, j < k, SameMessage(u[i], u[k])
               PROVE  SameMessage(u[j], u[i])
    BY DEF WholeIn
  <2>1. /\ f[i] \in 1..Len(t) /\ f[j] \in 1..Len(t) /\ f[k] \in 1..Len(t)
        /\ f[i] < f[j] /\ f[j] < f[k]
        /\ u[i] = t[f[i]] /\ u[j] = t[f[j]] /\ u[k] = t[f[k]]
    BY <1>1
  <2> QED
    BY <2>1 DEF WholeIn
<1>3. OrderedIn(u)
  <2> SUFFICES ASSUME NEW i \in 1..Len(u), NEW j \in 1..Len(u), i < j,
                      u[i].of = u[j].of, u[i].part > 0, u[j].part > 0
               PROVE  Before(u[i], u[j])
    BY DEF OrderedIn
  <2>1. /\ f[i] \in 1..Len(t) /\ f[j] \in 1..Len(t) /\ f[i] < f[j]
        /\ u[i] = t[f[i]] /\ u[j] = t[f[j]]
    BY <1>1
  <2> QED
    BY <2>1 DEF OrderedIn
<1>4. BoundedIn(u, clients)
  BY <1>1 DEF BoundedIn
<1>5. LatestIn(u, clients, holder)
  BY <1>1, ZenonT(40) DEF LatestIn
<1> QED
  BY <1>2, <1>3, <1>4, <1>5

\* What a step makes of the threads and the lock: a thread goes on with its
\* message or, without the lock, begins one; who gets the lock was waiting for it.
GoesOn(c) ==
  \/ client'[c].msg > client[c].msg /\ lock' # c
  \/ /\ client'[c].msg = client[c].msg
     /\ client'[c].nw >= client[c].nw
     /\ client'[c].pc = "lock" => client[c].pc = "lock"
     /\ lock' = c => lock = c \/ client[c].pc = "lock"
ClientsGoOn == \A c \in Clients : GoesOn(c)

LEMMA GoingOnKeeps ==
  ASSUME TypeOK, TypeOK', ClientsGoOn, NEW t \in Seq(Chunk),
         BoundedIn(t, client), LatestIn(t, client, lock)
  PROVE  BoundedIn(t, client') /\ LatestIn(t, client', lock')
<1>0. ASSUME NEW i \in 1..Len(t)
      PROVE  /\ t[i] \in Chunk /\ t[i].of \in Clients /\ t[i].msg \in Nat /\ t[i].part \in Nat
             /\ GoesOn(t[i].of)
  <2>1. t[i] \in Chunk
    OBVIOUS
  <2>2. t[i].of \in Clients /\ t[i].msg \in Nat /\ t[i].part \in Nat
    BY <2>1 DEF Chunk, Message
  <2> QED
    BY <2>1, <2>2 DEF ClientsGoOn
<1>1. ASSUME NEW c \in Clients
      PROVE  /\ client[c].msg \in Nat /\ client'[c].msg \in Nat
             /\ client[c].nw \in Nat /\ client'[c].nw \in Nat
  <2>1. client[c] \in LogClient /\ client'[c] \in LogClient
    BY Types DEF TypeOK, LogClient, ClientPlaces
  <2> QED
    BY <2>1, ClientFields, SizeTypes
<1>2. ASSUME NEW i \in 1..Len(t) PROVE Reached(client'[t[i].of], t[i])
  <2> DEFINE c == t[i].of
  <2>1. Reached(client[c], t[i])
    BY DEF BoundedIn
  <2>2. c \in Clients /\ GoesOn(c) /\ t[i].msg \in Nat /\ t[i].part \in Nat
    BY <1>0
  <2> DEFINE m == client[c]
             n == client'[c]
  <2>3. /\ m.msg \in Nat /\ n.msg \in Nat /\ m.nw \in Nat /\ n.nw \in Nat
        /\ n.msg > m.msg \/ (n.msg = m.msg /\ n.nw >= m.nw /\ (n.pc = "lock" => m.pc = "lock"))
    BY <1>1, <2>2 DEF GoesOn
  <2>4. Reached(n, t[i])
    <3> HIDE DEF c, m, n
    <3> QED
      BY <2>1, <2>2, <2>3 DEF Reached, m
  <2> QED
    BY <2>4
<1>3. ASSUME NEW i \in 1..Len(t), NEW j \in 1..Len(t),
             i < j, t[i].of = lock', t[i].msg = client'[lock'].msg
      PROVE  SameMessage(t[j], t[i])
  <2> DEFINE c == t[i].of
  <2>1. c \in Clients /\ GoesOn(c)
    BY <1>0
  <2>2. client[c].msg = t[i].msg /\ (lock = c \/ client[c].pc = "lock")
    BY <1>3, <2>1 DEF GoesOn
  <2>3. client[c].pc # "lock"
    BY <1>0, <1>1, <2>1, <2>2 DEF BoundedIn, Reached
  <2> QED
    BY <1>3, <2>2, <2>3 DEF LatestIn
<1> QED
  BY <1>2, <1>3 DEF BoundedIn, LatestIn

\* What the thread of c adds in a step: more of its message.
Tailing(c, q) ==
  \A i \in 1..Len(q) :
    /\ q[i].of = c /\ q[i].msg = client[c].msg /\ q[i].part <= client'[c].nw
    /\ q[i].part > 0 => q[i].part > client[c].nw
    /\ \A j \in 1..Len(q) :
         i < j /\ q[i].part > 0 /\ q[j].part > 0 => q[i].part < q[j].part

LEMMA TailingKeeps ==
  ASSUME TypeOK, TypeOK', TrailInv, ClientsGoOn, NEW c \in Clients, NEW q \in Seq(Chunk),
         lock = c, client'[c].msg = client[c].msg, client'[c].pc # "lock",
         lock' \in {c, Nobody}, Tailing(c, q), Trail' = Trail \o q
  PROVE  TrailInv'
<1> DEFINE t == Trail
           u == Trail'
           l == Len(Trail)
<1>1. /\ t \in Seq(Chunk) /\ l \in Nat /\ Len(q) \in Nat
      /\ Len(u) = l + Len(q)
      /\ \A i \in 1..l + Len(q) : u[i] = IF i <= l THEN t[i] ELSE q[i - l]
  BY TrailType, LenProperties, ConcatProperties
<1>2. /\ WholeIn(t) /\ OrderedIn(t) /\ BoundedIn(t, client) /\ LatestIn(t, client, c)
      /\ BoundedIn(t, client') /\ LatestIn(t, client', lock')
  BY <1>1, GoingOnKeeps DEF TrailInv
<1>3. Nobody \notin Clients /\ client[c].nw \in Nat /\ client[c].msg \in Nat
  BY LogAssumption, Types, ClientFields, SizeTypes
<1> HIDE DEF t, u, l
<1>4. ASSUME NEW i \in 1..Len(u)
      PROVE  /\ i \in 1..l => u[i] = t[i]
             /\ i \notin 1..l => i - l \in 1..Len(q) /\ u[i] = q[i - l]
             /\ i \in Nat
  BY <1>1
<1>5. ASSUME NEW k \in 1..Len(q)
      PROVE  /\ q[k].of = c /\ q[k].msg = client[c].msg /\ q[k].part <= client'[c].nw
             /\ q[k].part > 0 => q[k].part > client[c].nw
             /\ q[k].part \in Nat
  <2>1. q[k] \in Chunk
    OBVIOUS
  <2> QED
    BY <2>1 DEF Tailing, Chunk
<1>6. ASSUME NEW i \in 1..l
      PROVE  t[i].of \in Clients /\ t[i].msg \in Nat /\ t[i].part \in Nat
  <2>1. t[i] \in Chunk
    BY <1>1 DEF l, t
  <2> QED
    BY <2>1 DEF Chunk, Message
<1>7. WholeIn(u)
  <2> SUFFICES ASSUME NEW i \in 1..Len(u), NEW j \in 1..Len(u), NEW k \in 1..Len(u),
                      i < j, j < k, SameMessage(u[i], u[k])
               PROVE  SameMessage(u[j], u[i])
    BY DEF WholeIn
  <2>1. CASE k \in 1..l
    <3>1. i \in 1..l /\ j \in 1..l
      BY <1>1, <2>1
    <3> QED
      BY <1>2, <1>4, <2>1, <3>1 DEF WholeIn, t, l
  <2>2. CASE k \notin 1..l
    <3>1. u[i].of = c /\ u[i].msg = client[c].msg
      BY <1>4, <1>5, <2>2 DEF SameMessage
    <3>2. CASE j \in 1..l
      <4>1. i \in 1..l
        BY <1>1, <3>2
      <4> QED
        BY <1>2, <1>4, <3>1, <3>2, <4>1 DEF LatestIn, t, l
    <3>3. CASE j \notin 1..l
      BY <1>4, <1>5, <3>1, <3>3, SMTT(30) DEF SameMessage
    <3> QED
      BY <3>2, <3>3
  <2> QED
    BY <2>1, <2>2
<1>8. OrderedIn(u)
  <2> SUFFICES ASSUME NEW i \in 1..Len(u), NEW j \in 1..Len(u), i < j,
                      u[i].of = u[j].of, u[i].part > 0, u[j].part > 0
               PROVE  Before(u[i], u[j])
    BY DEF OrderedIn
  <2>1. CASE j \in 1..l
    <3>1. i \in 1..l
      BY <1>1, <2>1
    <3> QED
      BY <1>2, <1>4, <2>1, <3>1 DEF OrderedIn, t, l
  <2>2. CASE j \notin 1..l /\ i \in 1..l
    <3>1. u[j].of = c /\ u[j].msg = client[c].msg /\ u[j].part > client[c].nw /\ u[j].part \in Nat
      BY <1>4, <1>5, <2>2
    <3>2. u[i] = t[i] /\ Reached(client[c], u[i])
      BY <1>2, <1>4, <2>2, <3>1 DEF BoundedIn, l, t
    <3>3. u[i].msg \in Nat /\ u[i].part \in Nat
      BY <1>6, <2>2, <3>2
    <3> QED
      BY <1>3, <3>1, <3>2, <3>3 DEF Reached, Before
  <2>3. CASE j \notin 1..l /\ i \notin 1..l
    <3> DEFINE a == i - l
               b == j - l
    <3>1. a \in 1..Len(q) /\ b \in 1..Len(q) /\ a < b /\ u[i] = q[a] /\ u[j] = q[b]
      BY <1>1, <1>4, <2>3
    <3> HIDE DEF a, b
    <3>2. u[i].part < u[j].part
      BY <3>1 DEF Tailing
    <3> QED
      BY <1>5, <3>1, <3>2 DEF Before
  <2>4. i \notin 1..l => j \notin 1..l
    BY <1>1
  <2> QED
    BY <2>1, <2>2, <2>3, <2>4
<1>9. BoundedIn(u, client')
  <2> SUFFICES ASSUME NEW i \in 1..Len(u) PROVE Reached(client'[u[i].of], u[i])
    BY DEF BoundedIn
  <2>1. CASE i \in 1..l
    BY <1>2, <1>4, <2>1 DEF BoundedIn, t, l
  <2>2. CASE i \notin 1..l
    BY <1>4, <1>5, <2>2 DEF Reached
  <2> QED
    BY <2>1, <2>2
<1>10. LatestIn(u, client', lock')
  <2> SUFFICES ASSUME NEW i \in 1..Len(u), NEW j \in 1..Len(u), i < j,
                      u[i].of = lock', u[i].msg = client'[lock'].msg
               PROVE  SameMessage(u[j], u[i])
    BY DEF LatestIn
  <2>1. lock' = c
    <3>1. u[i].of \in Clients
      BY <1>4, <1>5, <1>6, ZenonT(40)
    <3> QED
      BY <1>3, <3>1
  <2>2. CASE j \in 1..l
    <3>1. i \in 1..l
      BY <1>1, <2>2
    <3> QED
      BY <1>2, <1>4, <2>2, <3>1 DEF LatestIn, t, l
  <2>3. CASE j \notin 1..l
    BY <1>4, <1>5, <2>1, <2>3 DEF SameMessage
  <2> QED
    BY <2>2, <2>3
<1> QED
  BY <1>7, <1>8, <1>9, <1>10 DEF TrailInv, u

\* A thread that neither takes another message nor writes keeps its place in the
\* one it has in hand.
LEMMA SameMessageInHand ==
  ASSUME TypeOK, NEW c \in Clients,
         \/ AppendMessage(c) \/ Terminate(c) \/ OpenPipeForWrite(c) \/ FileLock(c)
         \/ WriteFails(c) \/ Complain(c) \/ LogThreadEnds(c) \/ Gone(c)
  PROVE  /\ client'[c].msg = client[c].msg /\ client'[c].nw = client[c].nw
         /\ client'[c].pc = "lock" => client[c].pc = "lock"
<1> DEFINE m == client[c]
           n == client'[c]
<1>0. m \in LogClient
  BY Types
<1>1. PICK r : /\ Goes(c, r) /\ r.msg = m.msg /\ r.nw = m.nw
               /\ r.pc = "lock" => m.pc = "lock"
  <2>1. CASE AppendMessage(c) \/ Terminate(c) \/ LogThreadEnds(c)
    BY <1>0, <2>1 DEF AppendMessage, Terminate, LogThreadEnds, LogClient
  <2>2. CASE OpenPipeForWrite(c) \/ Gone(c)
    <3>1. PICK b, pc : /\ pc # "lock"
                       /\ \/ Goes(c, [m EXCEPT !.ok = b, !.open = b, !.pc = pc])
                          \/ Goes(c, [m EXCEPT !.pc = pc, !.open = b])
      BY <2>2 DEF OpenPipeForWrite, Gone
    <3> DEFINE r1 == [m EXCEPT !.ok = b, !.open = b, !.pc = pc]
               r2 == [m EXCEPT !.pc = pc, !.open = b]
    <3>2. /\ r1.msg = m.msg /\ r1.nw = m.nw /\ r1.pc = pc
          /\ r2.msg = m.msg /\ r2.nw = m.nw /\ r2.pc = pc
      BY <1>0 DEF LogClient
    <3>3. Goes(c, r1) \/ Goes(c, r2)
      BY <3>1
    <3> HIDE DEF r1, r2
    <3> QED
      BY <3>1, <3>2, <3>3
  <2>3. CASE FileLock(c) \/ WriteFails(c) \/ Complain(c)
    <3> DEFINE r1 == [m EXCEPT !.pc = "write"]
               r2 == [m EXCEPT !.nTry = m.nTry - 1]
               r3 == [m EXCEPT !.ok = FALSE, !.pc = "complain"]
    <3>1. Goes(c, r1) \/ Goes(c, r2) \/ Goes(c, r3)
      BY <1>0, <2>3 DEF FileLock, WriteFails, Complain, LogClient
    <3>2. /\ r1.msg = m.msg /\ r1.nw = m.nw /\ r1.pc = "write"
          /\ r2.msg = m.msg /\ r2.nw = m.nw /\ r2.pc = m.pc
          /\ r3.msg = m.msg /\ r3.nw = m.nw /\ r3.pc = "complain"
      BY <1>0 DEF LogClient
    <3> HIDE DEF r1, r2, r3
    <3> QED
      BY <3>1, <3>2
  <2> QED
    BY <2>1, <2>2, <2>3
<1>2. n.msg = m.msg /\ n.nw = m.nw /\ (n.pc = "lock" => m.pc = "lock")
  BY <1>1, GoesTo
<1> QED
  BY <1>2

LEMMA GoingOn ==
  ASSUME BaseInv, [Next]_vars
  PROVE  ClientsGoOn
<1>1. TypeOK /\ Threads
  BY DEF BaseInv
<1>2. ASSUME NEW c \in Clients PROVE client[c] \in LogClient /\ client[c].nw \in Nat /\ Thread(c)
  BY <1>1, Types, ClientFields, SizeTypes DEF Threads
<1>3. ASSUME NEW d \in Clients, client'[d] = client[d], lock' = d => lock = d PROVE GoesOn(d)
  BY <1>2, <1>3 DEF GoesOn
<1>4. ASSUME NEW c \in Clients, ClientStep(c) PROVE ClientsGoOn
  <2> DEFINE m == client[c]
             n == client'[c]
  <2>1. \A d \in Clients : d # c => client'[d] = client[d] /\ (lock' = d => lock = d)
    <3>1. PICK r : Goes(c, r)
      BY <1>4 DEF ClientStep, LogThread, AppendMessage, Terminate, OpenPipeForWrite, Dequeue,
           FileLock, Write, WriteFails, Complain, LogThreadEnds, ProcessEnds, ProcessKilled, Gone
    <3>2. lock' \in {lock, c, Nobody}
      BY <1>4 DEF ClientStep, LogThread, AppendMessage, Terminate, OpenPipeForWrite, Dequeue,
           FileLock, Write, WriteFails, Complain, LogThreadEnds, ProcessEnds, ProcessKilled, Gone
    <3> QED
      BY <1>1, <3>1, <3>2, GoesTo, LogAssumption
  <2>2. GoesOn(c)
    <3>1. CASE Dequeue(c)
      <4>1. client'[c].msg = client[c].msg + 1 /\ client[c].msg \in Nat
        BY <1>1, <1>2, <3>1, DequeueThread, ClientFields, SizeTypes
      <4>2. lock' # c
        BY <1>2, <3>1 DEF Dequeue, At, Thread
      <4> QED
        BY <4>1, <4>2 DEF GoesOn
    <3>2. CASE Write(c)
      <4>1. PICK k \in 1..Room :
              /\ Goes(c, [m EXCEPT !.nw = m.nw + k,
                            !.pc = IF m.nw + k = Length THEN "loop" ELSE "write"])
              /\ lock' = IF m.nw + k = Length THEN Nobody ELSE lock
        BY <1>2, <3>2 DEF Write, LogClient
      <4>2. /\ n.msg = m.msg /\ n.nw = m.nw + k
            /\ n.pc = IF m.nw + k = Length THEN "loop" ELSE "write"
        <5> DEFINE r == [m EXCEPT !.nw = m.nw + k,
                                  !.pc = IF m.nw + k = Length THEN "loop" ELSE "write"]
        <5>1. /\ r.msg = m.msg /\ r.nw = m.nw + k
              /\ r.pc = IF m.nw + k = Length THEN "loop" ELSE "write"
          BY <1>2 DEF LogClient
        <5> HIDE DEF r
        <5>2. n = r
          BY <1>1, <4>1, GoesTo DEF r
        <5> QED
          BY <5>1, <5>2
      <4>3. k \in Nat /\ m.nw \in Nat /\ lock = c
        BY <1>1, <1>2, <3>2, Types, SizeTypes, SMTT(30) DEF Room, Write, At, Thread
      <4> HIDE DEF m, n
      <4> QED
        BY <4>1, <4>2, <4>3, LogAssumption DEF GoesOn, m, n
    <3>3. CASE \/ AppendMessage(c) \/ Terminate(c) \/ OpenPipeForWrite(c) \/ FileLock(c)
               \/ WriteFails(c) \/ Complain(c) \/ LogThreadEnds(c) \/ Gone(c)
      <4>2. n.msg = m.msg /\ n.nw = m.nw /\ (n.pc = "lock" => m.pc = "lock")
        BY <1>1, <3>3, SameMessageInHand
      <4>3. lock' = c => lock = c \/ m.pc = "lock"
        BY <3>3, LogAssumption DEF AppendMessage, Terminate, OpenPipeForWrite, FileLock,
             WriteFails, Complain, LogThreadEnds, Gone, At
      <4> QED
        BY <1>2, <4>2, <4>3 DEF GoesOn
    <3> QED
      BY <1>4, <3>1, <3>2, <3>3 DEF ClientStep, LogThread, ProcessEnds, ProcessKilled
  <2>3. ASSUME NEW d \in Clients, d # c PROVE GoesOn(d)
    BY <1>3, <2>1, <2>3
  <2> QED
    BY <2>2, <2>3 DEF ClientsGoOn
<1>5. CASE UNCHANGED <<client, lock>>
  BY <1>3, <1>5 DEF ClientsGoOn
<1> QED
  BY <1>4, <1>5, StepsOfNext, ServerLeavesClients DEF vars

\* A step that loses chunks, or hands them on.
LEMMA LosesOrHandsOn ==
  ASSUME BaseInv, log' = log, server'.buf \in {server.buf, <<>>}, pipe' \in {pipe, <<>>}
  PROVE  Thinner(Trail', Trail)
BY TrailType, LosingThins DEF BaseInv, Trail

LEMMA PipeLeft ==
  ASSUME NEW gone, LeavePipe(pipe, gone)
  PROVE  pipe' \in {pipe, <<>>}
BY DEF LeavePipe

LEMMA TrailThins ==
  ASSUME BaseInv,
         ServerStep \/ \E c \in Clients : ClientStep(c) /\ ~Write(c) /\ ~Complain(c)
  PROVE  Thinner(Trail', Trail)
<1>1. TypeOK /\ BufferEmpty /\ server \in ServerState
  BY Types DEF BaseInv
<1>2. CASE ReadPipe
  <2> DEFINE h == <<Head(pipe)>>
  <2>1. /\ log' = log /\ pipe' = Tail(pipe) /\ pipe # <<>> /\ server.buf = <<>>
        /\ server'.buf = h
    BY <1>1, <1>2 DEF ReadPipe, BufferEmpty, ServerState, disk
  <2>2. /\ log \in Seq(Chunk) /\ pipe \in Seq(Chunk) /\ h \in Seq(Chunk)
        /\ Tail(pipe) \in Seq(Chunk) /\ pipe = h \o Tail(pipe) /\ Trail \in Seq(Chunk)
    BY <1>1, <2>1, TrailType, HeadAndTail
  <2>3. (log \o h) \o Tail(pipe) = log \o pipe
    BY <2>2, ConcatAssociative
  <2>4. log \o <<>> = log
    BY <2>2, ConcatEmptySeq
  <2>5. Trail' = Trail
    BY <2>1, <2>3, <2>4 DEF Trail
  <2> QED
    BY <2>2, <2>5, SameIsThinner
<1>3. CASE WriteAll
  <2>1. log' = log \o server.buf /\ pipe' = pipe
    BY <1>3 DEF WriteAll
  <2>2. server'.buf = <<>>
    BY <1>1, <1>3, CountAndRotateType DEF WriteAll
  <2>3. log \o server.buf \in Seq(Chunk) /\ Trail \in Seq(Chunk)
    BY <1>1, TrailType, ConcatProperties
  <2>4. (log \o server.buf) \o <<>> = log \o server.buf
    BY <2>3, ConcatEmptySeq
  <2>5. Trail' = Trail
    BY <2>1, <2>2, <2>4 DEF Trail
  <2> QED
    BY <2>3, <2>5, SameIsThinner
<1>4. CASE WriteAllFails
  <2>1. server'.buf = <<>>
    BY <1>1, <1>4, CountAndRotateType DEF WriteAllFails
  <2> QED
    BY <1>4, <2>1, LosesOrHandsOn DEF WriteAllFails
<1>5. CASE CreateLogServer \/ OpenFifo \/ InitServer
  <2>1. server'.buf \in {server.buf, <<>>}
    <3>1. CASE CreateLogServer
      BY <3>1 DEF CreateLogServer
    <3>2. CASE OpenFifo \/ InitServer
      BY <1>1, <3>2 DEF OpenFifo, InitServer, Up, ServerState
    <3> QED
      BY <1>5, <3>1, <3>2
  <2> QED
    BY <1>5, <2>1, LosesOrHandsOn DEF CreateLogServer, OpenFifo, InitServer, disk
<1>6. CASE InitFails \/ LogServerDies
  <2>1. server'.buf \in {server.buf, <<>>}
    BY <1>1, <1>6 DEF InitFails, LogServerDies, Up, ServerState
  <2>2. pipe' \in {pipe, <<>>} /\ log' = log
    BY <1>6, PipeLeft DEF InitFails, LogServerDies, disk
  <2> QED
    BY <2>1, <2>2, LosesOrHandsOn
<1>7. ASSUME NEW c \in Clients, ClientStep(c), ~Write(c), ~Complain(c)
      PROVE  Thinner(Trail', Trail)
  <2>1. log' = log /\ server' = server
    BY <1>7 DEF ClientStep, LogThread, AppendMessage, Terminate, OpenPipeForWrite, Dequeue,
         FileLock, WriteFails, LogThreadEnds, ProcessEnds, ProcessKilled, Gone, disk
  <2>2. pipe' \in {pipe, <<>>}
    BY <1>7, PipeLeft DEF ClientStep, LogThread, AppendMessage, Terminate, OpenPipeForWrite,
         Dequeue, FileLock, WriteFails, LogThreadEnds, ProcessEnds, ProcessKilled, Gone
  <2> QED
    BY <2>1, <2>2, LosesOrHandsOn
<1> QED
  BY <1>2, <1>3, <1>4, <1>5, <1>6, <1>7 DEF ServerStep, LogServer

\* More of a message at the end of the FIFO is more at the end of the trail.
LEMMA TrailGrows ==
  ASSUME TypeOK, NEW q \in Seq(Chunk), pipe' = pipe \o q, UNCHANGED <<log, server>>
  PROVE  Trail' = Trail \o q
<1>1. log \in Seq(Chunk) /\ server.buf \in Seq(Chunk) /\ pipe \in Seq(Chunk)
  BY TrailType
<1> DEFINE front == log \o server.buf
<1>2. front \in Seq(Chunk)
  BY <1>1, ConcatProperties
<1>3. Trail' = front \o (pipe \o q) /\ Trail = front \o pipe
  BY DEF Trail
<1> HIDE DEF front
<1>4. (front \o pipe) \o q = front \o (pipe \o q)
  BY <1>1, <1>2, ConcatAssociative, SMTT(30)
<1> QED
  BY <1>3, <1>4

LEMMA WritingKeeps ==
  ASSUME BaseInv, BaseInv', TrailInv, ClientsGoOn, NEW c \in Clients, Write(c) \/ Complain(c)
  PROVE  TrailInv'
<1> DEFINE m == client[c]
           n == client'[c]
<1>1. TypeOK /\ TypeOK' /\ Thread(c) /\ m \in LogClient
  BY Types DEF BaseInv, Threads
<1>2. UNCHANGED <<log, server>> /\ lock = c /\ m.msg \in Message /\ m.nw \in Nat
  <2>1. m.pc \in {"write", "complain"} /\ UNCHANGED <<log, server>>
    BY DEF Write, Complain, At, disk
  <2>2. lock = c /\ m.msg \in Message
    BY <1>1, <2>1 DEF Thread
  <2>3. m.nw \in Nat
    BY <1>1, ClientFields, SizeTypes
  <2> QED
    BY <2>1, <2>2, <2>3
<1>3. CASE Write(c)
  <2>1. PICK k \in 1..Room :
          /\ m.nw + k <= Length
          /\ pipe' = pipe \o Parts(c, k)
          /\ Goes(c, [m EXCEPT !.nw = m.nw + k,
                        !.pc = IF m.nw + k = Length THEN "loop" ELSE "write"])
          /\ lock' = IF m.nw + k = Length THEN Nobody ELSE lock
    BY <1>1, <1>3 DEF Write, LogClient
  <2>2. n.msg = m.msg /\ n.nw = m.nw + k /\ n.pc # "lock"
    <3> DEFINE r == [m EXCEPT !.nw = m.nw + k,
                              !.pc = IF m.nw + k = Length THEN "loop" ELSE "write"]
    <3>1. r.msg = m.msg /\ r.nw = m.nw + k /\ r.pc # "lock"
      BY <1>1 DEF LogClient
    <3> HIDE DEF r
    <3>2. n = r
      BY <1>1, <2>1, GoesTo DEF r
    <3> QED
      BY <3>1, <3>2
  <2>3. k \in Nat
    BY <1>1, Types, SizeTypes DEF Room
  <2> DEFINE q == Parts(c, k)
  <2>4. q \in Seq(Chunk) /\ Len(q) = k /\ \A i \in 1..k : q[i] = Part(c, m.nw + i)
    BY <1>1, <1>2, <2>1, <2>3, PartsType
  <2>5. \A i \in 1..k : q[i].of = c /\ q[i].msg = m.msg /\ q[i].part = m.nw + i
    BY <2>4 DEF Part
  <2>6. pipe' = pipe \o q /\ lock' \in {c, Nobody}
    BY <1>2, <2>1
  <2> HIDE DEF q, m, n
  <2>7. Tailing(c, q)
    BY <1>2, <2>2, <2>3, <2>4, <2>5 DEF Tailing, m, n
  <2>8. Trail' = Trail \o q
    BY <1>1, <1>2, <2>4, <2>6, TrailGrows
  <2> QED
    BY <1>1, <1>2, <2>2, <2>4, <2>6, <2>7, <2>8, TailingKeeps DEF m, n
<1>4. CASE Complain(c)
  <2>1. n.msg = m.msg /\ n.nw = m.nw /\ n.pc # "lock" /\ lock' = c
    <3> DEFINE r == [m EXCEPT !.pc = "write"]
    <3>1. r.msg = m.msg /\ r.nw = m.nw /\ r.pc # "lock"
      BY <1>1 DEF LogClient
    <3> HIDE DEF r
    <3>2. n = r
      BY <1>1, <1>4, GoesTo DEF r, Complain
    <3> QED
      BY <1>2, <1>4, <3>1, <3>2 DEF Complain
  <2>2. Part(c, 0) \in Chunk /\ Part(c, 0).of = c /\ Part(c, 0).msg = m.msg /\ Part(c, 0).part = 0
    BY <1>1, <1>2, SizeTypes, PartsType DEF Part
  <2>3. PICK q \in {<<Part(c, 0)>>, <<>>} : pipe' = pipe \o q
    BY <1>1, <1>4, <2>2, Types, AppendIsConcat, ConcatEmptySeq DEF Complain
  <2>4. /\ q \in Seq(Chunk)
        /\ \A i \in 1..Len(q) : q[i].of = c /\ q[i].msg = m.msg /\ q[i].part = 0
    <3>1. CASE q = <<>>
      BY <3>1, EmptySeq
    <3>2. CASE q = <<Part(c, 0)>>
      BY <2>2, <3>2
    <3> QED
      BY <2>3, <3>1, <3>2
  <2>5. Tailing(c, q)
    BY <1>2, <2>1, <2>4 DEF Tailing
  <2>6. Trail' = Trail \o q
    BY <1>1, <1>2, <2>3, <2>4, TrailGrows
  <2> QED
    BY <1>1, <1>2, <2>1, <2>4, <2>5, <2>6, TailingKeeps
<1> QED
  BY <1>3, <1>4

LEMMA TrailInit ==
  ASSUME Init
  PROVE  TrailInv
<1>1. BaseInv
  BY BaseInit
<1>2. log = <<>> /\ server.buf = <<>> /\ pipe = <<>>
  BY DEF Init
<1>3. Trail = <<>>
  BY <1>1, <1>2, EmptySeq, ConcatEmptySeq DEF Trail
<1>4. \A i \in 1..Len(Trail) : FALSE
  BY <1>3, EmptySeq
<1> QED
  BY <1>4 DEF TrailInv, WholeIn, OrderedIn, BoundedIn, LatestIn

LEMMA TrailStep ==
  ASSUME BaseInv, BaseInv', TrailInv, [Next]_vars
  PROVE  TrailInv'
<1>1. ClientsGoOn /\ TypeOK /\ TypeOK'
  BY GoingOn DEF BaseInv
<1>2. ASSUME Thinner(Trail', Trail) PROVE TrailInv'
  <2>1. BoundedIn(Trail, client') /\ LatestIn(Trail, client', lock')
    BY <1>1, TrailType, GoingOnKeeps DEF TrailInv
  <2> QED
    BY <1>2, <2>1, ThinnerKeeps DEF TrailInv
<1>3. CASE UNCHANGED vars
  <2>1. Trail' = Trail
    BY <1>3 DEF vars, disk, Trail
  <2> QED
    BY <1>1, <1>2, <2>1, TrailType, SameIsThinner
<1>4. CASE \E c \in Clients : Write(c) \/ Complain(c)
  BY <1>1, <1>4, WritingKeeps
<1> QED
  BY <1>2, <1>3, <1>4, TrailThins, StepsOfNext

LEMMA TrailInvariant == Spec => [](BaseInv /\ TrailInv)
<1>1. Init => BaseInv /\ TrailInv
  BY BaseInit, TrailInit
<1>2. BaseInv /\ TrailInv /\ [Next]_vars => (BaseInv /\ TrailInv)'
  BY BaseStep, TrailStep
<1> QED
  BY <1>1, <1>2, PTL DEF Spec

\* However many processes log, whatever the sizes, and whenever the log server or
\* a process dies, no message has a piece of another in it: the lock on the FIFO
\* is held to the end of a message, through retries and failures.
THEOREM MessagesStayWhole == Spec => []MessagesWhole
<1>1. BaseInv /\ TrailInv => MessagesWhole
  <2> SUFFICES ASSUME BaseInv, TrailInv PROVE MessagesWhole
    OBVIOUS
  <2>1. DOMAIN Trail = 1..Len(Trail)
    BY TrailType DEF BaseInv
  <2> QED
    BY <2>1 DEF TrailInv, WholeIn, MessagesWhole
<1> QED
  BY <1>1, TrailInvariant, PTL

\* The messages of a process stay in the order it appended them and no part of
\* one is there twice.
THEOREM MessagesStayInOrder == Spec => []InOrder
<1>1. BaseInv /\ TrailInv => InOrder
  <2> SUFFICES ASSUME BaseInv, TrailInv PROVE InOrder
    OBVIOUS
  <2>1. DOMAIN Trail = 1..Len(Trail)
    BY TrailType DEF BaseInv
  <2> QED
    BY <2>1 DEF TrailInv, OrderedIn, InOrder
<1> QED
  BY <1>1, TrailInvariant, PTL

-----------------------------------------------------------------------------
(* Nothing vanishes.                                                       *)

LEMMA RangeOfThree ==
  ASSUME NEW a \in Seq(Chunk), NEW b \in Seq(Chunk), NEW p \in Seq(Chunk)
  PROVE  Range(a \o b \o p) = Range(a) \cup Range(b) \cup Range(p)
<1> DEFINE ab == a \o b
<1>1. ab \in Seq(Chunk)
  BY ConcatProperties
<1>2. Range(ab) = Range(a) \cup Range(b)
  BY RangeConcatenation
<1> HIDE DEF ab
<1>3. Range(ab \o p) = Range(ab) \cup Range(p)
  BY <1>1, RangeConcatenation
<1> QED
  BY <1>2, <1>3 DEF ab

LEMMA HeldWhere ==
  ASSUME TypeOK
  PROVE  Held = Range(log) \cup Range(server.buf) \cup Range(pipe) \cup lost
BY TrailType, RangeOfThree DEF Held, Trail

LEMMA HeldWhereNext ==
  ASSUME TypeOK'
  PROVE  Held' = Range(log') \cup Range(server'.buf) \cup Range(pipe') \cup lost'
<1>1. log' \in Seq(Chunk) /\ server'.buf \in Seq(Chunk) /\ pipe' \in Seq(Chunk)
  BY DEF TypeOK
<1> QED
  BY <1>1, RangeOfThree DEF Held, Trail

\* What leaves the FIFO or the log server is lost, not forgotten.
LEMMA LeavePipeHolds ==
  ASSUME NEW gone, LeavePipe(pipe, gone)
  PROVE  Range(pipe) \cup lost \cup gone \subseteq Range(pipe') \cup lost'
BY DEF LeavePipe

LEMMA HeldGrows ==
  ASSUME BaseInv, BaseInv', [Next]_vars
  PROVE  Held \subseteq Held'
<1>1. /\ TypeOK /\ TypeOK' /\ BufferEmpty /\ server \in ServerState
      /\ log \in Seq(Chunk) /\ server.buf \in Seq(Chunk) /\ pipe \in Seq(Chunk)
  BY Types, TrailType DEF BaseInv
<1>2. SUFFICES Range(log) \cup Range(server.buf) \cup Range(pipe) \cup lost
                 \subseteq Range(log') \cup Range(server'.buf) \cup Range(pipe') \cup lost'
  BY <1>1, HeldWhere, HeldWhereNext
<1>3. ASSUME NEW c \in Clients, ClientStep(c)
      PROVE  /\ UNCHANGED <<log, server>>
             /\ Range(pipe) \cup lost \subseteq Range(pipe') \cup lost'
  <2>1. UNCHANGED <<log, server>>
    BY <1>3 DEF ClientStep, LogThread, AppendMessage, Terminate, OpenPipeForWrite, Dequeue,
         FileLock, Write, WriteFails, Complain, LogThreadEnds, ProcessEnds, ProcessKilled, Gone, disk
  <2>2. CASE OpenPipeForWrite(c) \/ Gone(c)
    BY <2>1, <2>2, LeavePipeHolds DEF OpenPipeForWrite, Gone
  <2>3. CASE Write(c) \/ Complain(c)
    <3>1. client[c].msg \in Message /\ lost' = lost
      BY <1>1, <2>3 DEF BaseInv, Threads, Thread, Write, Complain, At
    <3>2. \E q \in Seq(Chunk) : pipe' = pipe \o q
      <4>1. CASE Write(c)
        <5>1. PICK k \in 1..Room : client[c].nw + k <= Length /\ pipe' = pipe \o Parts(c, k)
          BY <4>1 DEF Write
        <5>2. k \in Nat
          BY <1>1, Types, SizeTypes DEF Room
        <5> QED
          BY <1>1, <3>1, <5>1, <5>2, PartsType
      <4>2. CASE Complain(c)
        <5>1. Part(c, 0) \in Chunk
          BY <1>1, <3>1, PartsType, SizeTypes
        <5>2. <<Part(c, 0)>> \in Seq(Chunk) /\ <<>> \in Seq(Chunk)
          BY <5>1
        <5> QED
          BY <1>1, <4>2, <5>1, <5>2, AppendIsConcat, ConcatEmptySeq DEF Complain
      <4> QED
        BY <2>3, <4>1, <4>2
    <3> QED
      BY <1>1, <2>1, <3>1, <3>2, RangeConcatenation
  <2>4. CASE UNCHANGED <<pipe, lost>>
    BY <2>1, <2>4
  <2> QED
    BY <1>3, <2>1, <2>2, <2>3, <2>4
       DEF ClientStep, LogThread, AppendMessage, Terminate, Dequeue, FileLock, WriteFails,
           LogThreadEnds, ProcessEnds, ProcessKilled
<1>4. CASE ReadPipe
  <2>1. /\ UNCHANGED <<log, lost>> /\ pipe' = Tail(pipe) /\ pipe # <<>>
        /\ server'.buf = <<Head(pipe)>> /\ server.buf = <<>>
    BY <1>1, <1>4 DEF ReadPipe, BufferEmpty, ServerState, disk
  <2>2. Range(pipe) = Range(<<Head(pipe)>>) \cup Range(Tail(pipe))
    <3>1. /\ <<Head(pipe)>> \in Seq(Chunk) /\ Tail(pipe) \in Seq(Chunk)
          /\ pipe = <<Head(pipe)>> \o Tail(pipe)
      BY <1>1, <2>1, HeadAndTail
    <3>2. Range(<<Head(pipe)>> \o Tail(pipe)) = Range(<<Head(pipe)>>) \cup Range(Tail(pipe))
      BY <3>1, RangeConcatenation, ZenonT(40)
    <3> QED
      BY <3>1, <3>2
  <2> QED
    BY <2>1, <2>2, RangeOfOne
<1>5. CASE WriteAll
  <2>1. log' = log \o server.buf /\ UNCHANGED <<pipe, lost>>
    BY <1>5 DEF WriteAll
  <2> QED
    BY <1>1, <2>1, RangeConcatenation
<1>6. CASE WriteAllFails
  BY <1>6 DEF WriteAllFails
<1>7. CASE CreateLogServer \/ OpenFifo \/ InitServer
  <2>1. UNCHANGED <<log, pipe, lost>>
    BY <1>7 DEF CreateLogServer, OpenFifo, InitServer, disk
  <2>2. server.buf = <<>>
    BY <1>1, <1>7 DEF CreateLogServer, OpenFifo, InitServer, BufferEmpty
  <2> QED
    BY <2>1, <2>2, RangeOfOne
<1>8. CASE InitFails
  <2>1. server.buf = <<>> /\ log' = log /\ LeavePipe(pipe, {})
    BY <1>1, <1>8 DEF InitFails, BufferEmpty, disk
  <2> QED
    BY <2>1, LeavePipeHolds, RangeOfOne
<1>9. CASE LogServerDies
  <2>1. log' = log /\ LeavePipe(pipe, Range(server.buf))
    BY <1>9 DEF LogServerDies, disk
  <2> QED
    BY <2>1, LeavePipeHolds
<1>10. CASE UNCHANGED vars
  BY <1>10 DEF vars, disk
<1> QED
  BY <1>3, <1>4, <1>5, <1>6, <1>7, <1>8, <1>9, <1>10, StepsOfNext DEF ServerStep, LogServer

\* The parts that have been written grow only by what is put into the FIFO.
LEMMA WrittenGrows ==
  ASSUME BaseInv, BaseInv', [Next]_vars, NEW c \in Clients
  PROVE  WrittenParts(c)' \subseteq WrittenParts(c) \cup Range(pipe')
<1> DEFINE m == client[c]
           n == client'[c]
<1>1. TypeOK /\ Threads /\ m \in LogClient /\ Thread(c)
  BY Types DEF BaseInv, Threads
<1>2. CASE n.msg = m.msg /\ n.nw = m.nw
  BY <1>2 DEF WrittenParts
<1>3. CASE Dequeue(c)
  <2>1. n.msg = m.msg + 1 /\ n.nw = 0
    <3>1. n.nw = 0
      <4>1. m.nw \in Nat /\ client' = [client EXCEPT ![c] =
              [m EXCEPT !.pc = "lock", !.msg = Head(queue[c]), !.nw = 0, !.nTry = Tries]]
        BY <1>1, <1>3, ClientFields, SizeTypes DEF Dequeue, Goes
      <4> QED
        BY <1>1, <4>1, Types DEF LogClient
    <3> QED
      BY <1>1, <1>3, <3>1, DequeueThread
  <2>2. (m.msg = 0 \/ m.nw = Length) /\ m.msg \in Nat /\ Length \in Nat
    BY <1>1, <1>3, ClientFields, SizeTypes DEF Dequeue, At, Thread
  <2>3. ASSUME NEW x \in WrittenParts(c)' PROVE x \in WrittenParts(c)
    <3>1. /\ x \in [of : {c}, msg : Message, part : 1..Length] /\ x \in Chunk
          /\ x.msg < n.msg \/ (x.msg = n.msg /\ x.part <= n.nw)
      BY DEF WrittenParts
    <3>2. x.msg \in Nat \ {0} /\ x.part \in 1..Length
      BY <3>1 DEF Message
    <3> HIDE DEF m, n
    <3>3. x.msg < m.msg \/ (x.msg = m.msg /\ x.part <= m.nw)
      BY <2>1, <2>2, <3>1, <3>2
    <3> QED
      BY <3>1, <3>3 DEF WrittenParts, m
  <2> QED
    BY <2>3
<1>4. CASE Write(c)
  <2>1. PICK k \in 1..Room :
          /\ m.nw + k <= Length
          /\ pipe' = pipe \o Parts(c, k)
          /\ Goes(c, [m EXCEPT !.nw = m.nw + k,
                        !.pc = IF m.nw + k = Length THEN "loop" ELSE "write"])
    BY <1>1, <1>4 DEF Write, LogClient
  <2>2. n.msg = m.msg /\ n.nw = m.nw + k
    <3> DEFINE r == [m EXCEPT !.nw = m.nw + k,
                              !.pc = IF m.nw + k = Length THEN "loop" ELSE "write"]
    <3>1. r.msg = m.msg /\ r.nw = m.nw + k
      BY <1>1 DEF LogClient
    <3> HIDE DEF r
    <3>2. n = r
      BY <1>1, <2>1, GoesTo DEF r
    <3> QED
      BY <3>1, <3>2
  <2>3. k \in Nat /\ m.nw \in Nat /\ m.msg \in Message /\ pipe \in Seq(Chunk)
    <3>1. m.pc = "write"
      BY <1>4 DEF Write, At
    <3> QED
      BY <1>1, <3>1, Types, ClientFields, SizeTypes DEF Room, Thread
  <2> DEFINE q == Parts(c, k)
  <2>4. q \in Seq(Chunk) /\ Len(q) = k /\ \A i \in 1..k : q[i] = Part(c, m.nw + i)
    BY <1>1, <2>1, <2>3, PartsType
  <2>5. Range(pipe') = Range(pipe) \cup Range(q)
    BY <2>1, <2>3, <2>4, RangeConcatenation
  <2> HIDE DEF q
  <2>6. ASSUME NEW x \in WrittenParts(c)' PROVE x \in WrittenParts(c) \/ x \in Range(q)
    <3>1. /\ x \in [of : {c}, msg : Message, part : 1..Length] /\ x \in Chunk
          /\ x.msg < n.msg \/ (x.msg = n.msg /\ x.part <= n.nw)
      BY DEF WrittenParts
    <3>2. CASE x.msg < m.msg \/ (x.msg = m.msg /\ x.part <= m.nw)
      BY <3>1, <3>2 DEF WrittenParts
    <3>3. CASE x.msg = m.msg /\ ~(x.part <= m.nw)
      <4> DEFINE i == x.part - m.nw
      <4>1. x.part \in Nat /\ x.part <= m.nw + k
        BY <2>2, <2>3, <3>1, <3>3, SizeTypes DEF Message
      <4>2. i \in 1..k /\ m.nw + i = x.part
        <5> HIDE DEF m
        <5> QED
          BY <2>3, <3>3, <4>1
      <4>3. x = Part(c, x.part)
        BY <3>1, <3>3 DEF Part
      <4>4. q[i] = x
        BY <2>4, <4>2, <4>3
      <4> QED
        BY <2>4, <4>2, <4>4 DEF Range
    <3> QED
      BY <2>2, <3>1, <3>2, <3>3
  <2> QED
    BY <2>5, <2>6
<1>5. Dequeue(c) \/ Write(c) \/ (n.msg = m.msg /\ n.nw = m.nw)
  <2>1. ASSUME NEW d \in Clients, ClientStep(d), d # c PROVE n = m
    <3>1. PICK r : Goes(d, r)
      BY <2>1 DEF ClientStep, LogThread, AppendMessage, Terminate, OpenPipeForWrite, Dequeue,
           FileLock, Write, WriteFails, Complain, LogThreadEnds, ProcessEnds, ProcessKilled, Gone
    <3> QED
      BY <1>1, <2>1, <3>1, GoesTo
  <2>2. ASSUME ClientStep(c), ~Dequeue(c), ~Write(c) PROVE n.msg = m.msg /\ n.nw = m.nw
    BY <1>1, <2>2, SameMessageInHand DEF ClientStep, LogThread, ProcessEnds, ProcessKilled
  <2>3. CASE UNCHANGED client
    BY <2>3
  <2> QED
    BY <2>1, <2>2, <2>3, StepsOfNext, ServerLeavesClients DEF vars
<1> QED
  BY <1>2, <1>3, <1>4, <1>5

LEMMA NothingVanishesStep ==
  ASSUME BaseInv, BaseInv', NothingVanishes, [Next]_vars
  PROVE  NothingVanishes'
<1>1. Range(pipe') \subseteq Held'
  BY HeldWhereNext DEF BaseInv
<1>2. Held \subseteq Held'
  BY HeldGrows
<1>3. ASSUME NEW c \in Clients PROVE WrittenParts(c)' \subseteq Held'
  BY <1>1, <1>2, WrittenGrows DEF NothingVanishes
<1> QED
  BY <1>3 DEF NothingVanishes

\* Nothing that Write took from its caller vanishes: it is in the FIFO, in the log
\* server's buffer, in the log, or was lost with the process that had it.
THEOREM NothingWrittenVanishes == Spec => []NothingVanishes
<1>1. Init => NothingVanishes
  <2> SUFFICES ASSUME Init, NEW c \in Clients PROVE WrittenParts(c) \subseteq Held
    BY DEF NothingVanishes
  <2>1. client[c].msg = 0
    BY DEF Init
  <2>2. WrittenParts(c) = {}
    BY <2>1 DEF WrittenParts, Message
  <2> QED
    BY <2>2
<1>2. BaseInv /\ BaseInv' /\ NothingVanishes /\ [Next]_vars => NothingVanishes'
  BY NothingVanishesStep
<1> QED
  BY <1>1, <1>2, BaseInvariant, PTL DEF Spec

-----------------------------------------------------------------------------
(* Rotation.                                                               *)

\* The log server knows how large the file is, knows that it does not, or has just
\* rotated the file that it found too large when it started and still counts that.
SizeKnown ==
  server.pc \in {"reading", "writing"} =>
    \/ server.size = -1
    \/ server.size = file
    \/ /\ server.size >= MaxFileSize /\ file = 0
       /\ closed # <<>> /\ closed[Len(closed)].when = "start"

RotationInv == RotatedWhenLarge /\ SizeKnown

\* A file that is rotated away for a good reason.
LEMMA AnotherRotated ==
  ASSUME RotatedWhenLarge, closed \in Seq(Rotated), NEW r \in Rotated,
         closed' = Append(closed, r),
         \/ r.length >= MaxFileSize
         \/ closed # <<>> /\ closed[Len(closed)].when = "start" /\ r.length <= 1
  PROVE  RotatedWhenLarge' /\ closed'[Len(closed')] = r /\ closed' # <<>>
<1> DEFINE l == Len(closed)
<1>1. /\ l \in Nat /\ Len(closed') = l + 1 /\ DOMAIN closed' = 1..(l + 1)
      /\ DOMAIN closed = 1..l /\ closed' # <<>>
      /\ closed'[l + 1] = r /\ \A i \in 1..l : closed'[i] = closed[i]
      /\ closed # <<>> => l > 0
  <2>1. closed' \in Seq(Rotated)
    BY AppendProperties
  <2> QED
    BY <2>1, AppendProperties, LenProperties, EmptySeq
<1>2. ASSUME NEW i \in DOMAIN closed'
      PROVE  \/ closed'[i].length >= MaxFileSize
             \/ i > 1 /\ closed'[i - 1].when = "start" /\ closed'[i].length <= 1
  <2>1. CASE i \in 1..l
    <3>1. \/ closed[i].length >= MaxFileSize
          \/ i > 1 /\ closed[i - 1].when = "start" /\ closed[i].length <= 1
      BY <1>1, <2>1 DEF RotatedWhenLarge
    <3>2. closed'[i] = closed[i] /\ (i > 1 => closed'[i - 1] = closed[i - 1])
      BY <1>1, <2>1
    <3> QED
      BY <3>1, <3>2
  <2>2. CASE i = l + 1
    <3>1. ASSUME closed # <<>> PROVE l + 1 > 1 /\ closed'[i - 1] = closed[l]
      <4>1. l \in 1..l /\ i - 1 = l /\ l + 1 > 1
        BY <1>1, <2>2, <3>1
      <4>2. closed'[l] = closed[l]
        BY <1>1, <4>1
      <4> QED
        BY <4>1, <4>2
    <3> QED
      BY <1>1, <2>2, <3>1
  <2> QED
    BY <1>1, <2>1, <2>2
<1> QED
  BY <1>1, <1>2 DEF RotatedWhenLarge

LEMMA RotatingStep ==
  ASSUME TypeOK, RotationInv, NEW n \in {0, 1}, NEW renamed \in BOOLEAN,
         server.pc = "writing", CountAndRotate(n, renamed)
  PROVE  RotationInv'
<1>1. /\ server \in ServerState /\ file \in Nat /\ closed \in Seq(Rotated) /\ MaxFileSize \in Nat \ {0}
      /\ server.size \in {-1} \cup Nat
  BY Types, SizeTypes DEF ServerState
<1>2. PICK size \in Sizes(n) :
        IF size > MaxFileSize
        THEN Written(IF renamed THEN 0 ELSE -1) /\ Rotate("write", file + n, renamed)
        ELSE Written(size) /\ file' = file + n /\ UNCHANGED closed
  BY DEF CountAndRotate
<1>3. \A z : Written(z) => server'.size = z /\ server'.pc = "reading"
  BY <1>1 DEF Written, ServerState
<1> DEFINE begun == closed # <<>> /\ closed[Len(closed)].when = "start"
<1>4. \/ size = -1 \/ size = file + n
      \/ size = server.size + n /\ server.size >= MaxFileSize /\ file = 0 /\ begun
  BY <1>1, <1>2 DEF Sizes, RotationInv, SizeKnown
<1>5. RotatedWhenLarge
  BY DEF RotationInv
<1> HIDE DEF begun
<1>6. CASE ~(size > MaxFileSize)
  <2>1. /\ server'.size = size /\ file' = file + n /\ closed' = closed
    BY <1>2, <1>3, <1>6
  <2>2. \/ size = -1 \/ size = file'
        \/ size >= MaxFileSize /\ file' = 0 /\ begun
    BY <1>1, <1>4, <1>6, <2>1
  <2> QED
    BY <1>5, <2>1, <2>2 DEF RotationInv, SizeKnown, RotatedWhenLarge, begun
<1>7. CASE size > MaxFileSize /\ renamed
  <2> DEFINE r == [length |-> file + n, when |-> "write"]
  <2>1. /\ server'.size = 0 /\ file' = 0 /\ closed' = Append(closed, r)
    BY <1>2, <1>3, <1>7 DEF Rotate
  <2>2. r \in Rotated /\ r.length = file + n
    BY <1>1 DEF Rotated
  <2> HIDE DEF r
  <2>3. r.length >= MaxFileSize \/ (begun /\ r.length <= 1)
    BY <1>1, <1>4, <1>7, <2>2
  <2>4. RotatedWhenLarge'
    BY <1>1, <1>5, <2>1, <2>2, <2>3, AnotherRotated DEF begun
  <2> QED
    BY <2>1, <2>4 DEF RotationInv, SizeKnown
<1>8. CASE size > MaxFileSize /\ ~renamed
  <2>1. server'.size = -1 /\ closed' = closed
    BY <1>2, <1>3, <1>8 DEF Rotate
  <2> QED
    BY <1>5, <2>1 DEF RotationInv, SizeKnown, RotatedWhenLarge
<1> QED
  BY <1>6, <1>7, <1>8

LEMMA StartingStep ==
  ASSUME TypeOK, RotationInv, InitServer
  PROVE  RotationInv'
<1>1. server \in ServerState /\ file \in Nat /\ closed \in Seq(Rotated) /\ RotatedWhenLarge
  BY Types DEF RotationInv
<1>2. server'.size = file
  BY <1>1 DEF InitServer, ServerState
<1>3. CASE UNCHANGED <<file, closed>>
  BY <1>1, <1>2, <1>3 DEF RotationInv, SizeKnown, RotatedWhenLarge
<1>4. CASE file >= MaxFileSize /\ file' = 0
           /\ closed' = Append(closed, [length |-> file, when |-> "start"])
  <2> DEFINE r == [length |-> file, when |-> "start"]
  <2>1. r \in Rotated /\ r.length = file /\ r.when = "start"
    BY <1>1 DEF Rotated
  <2>2. closed' = Append(closed, r)
    BY <1>4
  <2> HIDE DEF r
  <2>3. RotatedWhenLarge' /\ closed'[Len(closed')] = r /\ closed' # <<>>
    BY <1>1, <1>4, <2>1, <2>2, AnotherRotated
  <2> QED
    BY <1>2, <1>4, <2>1, <2>3 DEF RotationInv, SizeKnown
<1> QED
  BY <1>3, <1>4 DEF InitServer, Rotate

LEMMA RotationStep ==
  ASSUME BaseInv, RotationInv, [Next]_vars
  PROVE  RotationInv'
<1>1. TypeOK /\ server \in ServerState
  BY Types DEF BaseInv
<1>2. CASE InitServer
  BY <1>1, <1>2, StartingStep
<1>3. CASE WriteAll \/ WriteAllFails
  BY <1>1, <1>3, RotatingStep DEF WriteAll, WriteAllFails
<1>4. CASE CreateLogServer \/ OpenFifo \/ InitFails \/ LogServerDies
  <2>1. UNCHANGED closed
    BY <1>4 DEF CreateLogServer, OpenFifo, InitFails, LogServerDies, disk
  <2>2. server'.pc \notin {"reading", "writing"}
    <3>1. CASE CreateLogServer
      BY <3>1 DEF CreateLogServer
    <3>2. CASE OpenFifo \/ InitFails \/ LogServerDies
      BY <1>1, <3>2 DEF OpenFifo, InitFails, LogServerDies, Up, ServerState
    <3> QED
      BY <1>4, <3>1, <3>2
  <2> QED
    BY <2>1, <2>2 DEF RotationInv, SizeKnown, RotatedWhenLarge
<1>5. CASE ReadPipe
  <2>1. server'.size = server.size /\ server.pc = "reading" /\ UNCHANGED <<file, closed>>
    BY <1>1, <1>5 DEF ReadPipe, ServerState, disk
  <2> QED
    BY <2>1 DEF RotationInv, SizeKnown, RotatedWhenLarge
<1>6. CASE UNCHANGED <<server, file, closed>>
  BY <1>6 DEF RotationInv, SizeKnown, RotatedWhenLarge
<1>7. ASSUME NEW c \in Clients, ClientStep(c) PROVE UNCHANGED <<server, file, closed>>
  BY <1>7 DEF ClientStep, LogThread, AppendMessage, Terminate, OpenPipeForWrite, Dequeue,
       FileLock, Write, WriteFails, Complain, LogThreadEnds, ProcessEnds, ProcessKilled, Gone, disk
<1> QED
  BY <1>2, <1>3, <1>4, <1>5, <1>6, <1>7, StepsOfNext DEF ServerStep, LogServer, vars, disk

\* A file is rotated away only when it is large, with the one exception of a log
\* server that rotated a file when it started.
THEOREM OnlyLargeFilesRotated == Spec => []RotatedWhenLarge
<1>1. Init => RotationInv
  <2> SUFFICES ASSUME Init PROVE RotationInv
    OBVIOUS
  <2>1. closed = <<>> /\ server.pc = "starting"
    BY DEF Init
  <2> QED
    BY <2>1 DEF RotationInv, RotatedWhenLarge, SizeKnown
<1>2. BaseInv /\ RotationInv /\ [Next]_vars => RotationInv'
  BY RotationStep
<1>3. RotationInv => RotatedWhenLarge
  BY DEF RotationInv
<1> QED
  BY <1>1, <1>2, <1>3, BaseInvariant, PTL DEF Spec
=============================================================================
