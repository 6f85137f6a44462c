------------------------ MODULE ConnectorSessionProofs ------------------------
(***************************************************************************)
(* Proofs about ConnectorSession for every number of sockets, workers and  *)
(* requests: types, which request a block in a stream is of, and that a    *)
(* page runs once.                                                         *)
(***************************************************************************)
EXTENDS ConnectorSession, SequenceTheorems, TLAPS

-----------------------------------------------------------------------------
(* Streams.                                                                *)

\* What is left of a stream after its first block.
LEMMA Tails ==
  ASSUME NEW S, NEW q \in Seq(S), q # <<>>
  PROVE  /\ Len(q) \in Nat \ {0} /\ q[1] \in S /\ Head(q) = q[1]
         /\ Tail(q) \in Seq(S) /\ Len(Tail(q)) = Len(q) - 1
         /\ \A i \in 1..Len(Tail(q)) : Tail(q)[i] = q[i + 1]
         /\ Len(q) = 1 => Tail(q) = <<>>
<1>1. Len(q) \in Nat \ {0}
  BY EmptySeq
<1>2. Tail(q) \in Seq(S) /\ Len(Tail(q)) = Len(q) - 1
      /\ \A i \in 1..Len(Tail(q)) : Tail(q)[i] = q[i + 1]
  BY HeadTailProperties
<1>3. Len(Tail(q)) = 0 => Tail(q) = <<>>
  BY <1>2, EmptySeq
<1> QED
  BY <1>1, <1>2, <1>3, ElementOfSeq

\* A stream and more blocks.
LEMMA Sends ==
  ASSUME NEW S, NEW q \in Seq(S), NEW r \in Seq(S)
  PROVE  /\ q \o r \in Seq(S) /\ Len(q) \in Nat /\ Len(r) \in Nat
         /\ Len(q \o r) = Len(q) + Len(r)
         /\ \A i \in 1..Len(q) : (q \o r)[i] = q[i]
         /\ \A i \in 1..Len(r) : (q \o r)[Len(q) + i] = r[i]
         /\ \A i \in 1..Len(q \o r) : i \notin 1..Len(q) => i - Len(q) \in 1..Len(r)
<1>1. Len(q) \in Nat /\ Len(r) \in Nat
  BY LenProperties
<1>2. q \o r \in Seq(S) /\ Len(q \o r) = Len(q) + Len(r)
      /\ \A i \in 1..Len(q) + Len(r) : (q \o r)[i] = IF i <= Len(q) THEN q[i] ELSE r[i - Len(q)]
  BY ConcatProperties
<1>3. ASSUME NEW i \in 1..Len(r) PROVE (q \o r)[Len(q) + i] = r[i]
  <2>1. Len(q) + i \in 1..Len(q) + Len(r) /\ ~(Len(q) + i <= Len(q)) /\ (Len(q) + i) - Len(q) = i
    BY <1>1
  <2> QED
    BY <1>2, <2>1
<1>4. ASSUME NEW i \in 1..Len(q) PROVE (q \o r)[i] = q[i]
  BY <1>1, <1>2
<1>5. \A i \in 1..Len(q \o r) : i \notin 1..Len(q) => i - Len(q) \in 1..Len(r)
  BY <1>1, <1>2
<1> QED
  BY <1>1, <1>2, <1>3, <1>4, <1>5

-----------------------------------------------------------------------------
(* Type correctness.                                                       *)

Connection ==
  [pc : Steps, sock : Sockets \cup {NoSocket}, req : AnyRequest,
   kind : AnyKind, again : BOOLEAN, reopened : BOOLEAN, blocks : 0..MaxBlocks,
   postdata_sent : BOOLEAN, use_proto : {3, 4}, retry : BOOLEAN]
WorkerPlaces ==
  Reading \cup {"free", "ask", "respond", "finish", "ended", "exited", "confused"}
WorkerState ==
  [pc : WorkerPlaces, sock : Sockets \cup {NoSocket}, req : AnyRequest, kind : AnyKind,
   after : BOOLEAN]

LEMMA TypeParts ==
  TypeOK <=> /\ ac \in Connection
             /\ up \in [Sockets -> Seq(AnyBlock)]
             /\ down \in [Sockets -> Seq(AnyBlock)]
             /\ place \in [Sockets -> {"watched", "waiting", "handed", "closed"}]
             /\ shut \in SUBSET Sockets
             /\ wk \in [Workers -> WorkerState]
             /\ ran \in [Request -> Nat]
             /\ answer \in [Request -> Ways]
             /\ spoilt \in SUBSET Sockets
             /\ crashes \in 0..MaxCrashes
BY DEF TypeOK, Connection, WorkerPlaces, WorkerState

LEMMA Bounds ==
  /\ NoSocket \notin Sockets /\ OldWorkers \subseteq Workers
  /\ Kinds \subseteq AnyKind \ {"none"}
  /\ MaxRequests \in Nat \ {0} /\ MaxBlocks \in Nat \ {0} /\ MaxCrashes \in Nat
BY SessionAssumption DEF AnyKind

\* The fields of the connector.
LEMMA Fields ==
  ASSUME TypeOK
  PROVE  /\ ac.pc \in Steps /\ ac.sock \in Sockets \cup {NoSocket} /\ ac.req \in AnyRequest
         /\ ac.kind \in AnyKind /\ ac.again \in BOOLEAN /\ ac.reopened \in BOOLEAN
         /\ ac.blocks \in 0..MaxBlocks /\ ac.postdata_sent \in BOOLEAN
         /\ ac.use_proto \in {3, 4} /\ ac.retry \in BOOLEAN
BY TypeParts DEF Connection

LEMMA BlockType ==
  ASSUME NEW type \in Types, NEW r \in AnyRequest, NEW kind \in AnyKind
  PROVE  /\ Block(type, r, kind) \in AnyBlock
         /\ Block(type, r, kind).is = type /\ Block(type, r, kind).of = r
         /\ Block(type, r, kind).kind = kind
BY DEF Block, AnyBlock

LEMMA BlocksType ==
  ASSUME TypeOK, NEW types \in Seq(Types)
  PROVE  /\ Blocks(types) \in Seq(AnyBlock) /\ Len(Blocks(types)) = Len(types)
         /\ \A i \in 1..Len(types) :
              /\ Blocks(types)[i].is = types[i] /\ Blocks(types)[i].of = ac.req
              /\ Blocks(types)[i].kind = ac.kind
<1>1. Len(types) \in Nat /\ DOMAIN types = 1..Len(types)
      /\ \A i \in 1..Len(types) : types[i] \in Types
  BY LenProperties
<1>2. \A i \in 1..Len(types) :
        LET b == Block(types[i], ac.req, ac.kind)
        IN  b \in AnyBlock /\ b.is = types[i] /\ b.of = ac.req /\ b.kind = ac.kind
  BY <1>1, Fields, BlockType
<1> QED
  BY <1>1, <1>2 DEF Blocks

\* Streams with more blocks, or fewer.
LEMMA Sent ==
  ASSUME NEW f \in [Sockets -> Seq(AnyBlock)], NEW s, NEW q \in Seq(AnyBlock)
  PROVE  [f EXCEPT ![s] = @ \o q] \in [Sockets -> Seq(AnyBlock)]
<1>1. CASE s \in Sockets
  <2>1. f[s] \o q \in Seq(AnyBlock)
    BY <1>1, ConcatProperties
  <2> QED
    BY <2>1
<1>2. CASE s \notin Sockets
  BY <1>2
<1> QED
  BY <1>1, <1>2

LEMMA Taken ==
  ASSUME NEW f \in [Sockets -> Seq(AnyBlock)], NEW s, s \in Sockets => f[s] # <<>>
  PROVE  [f EXCEPT ![s] = Tail(@)] \in [Sockets -> Seq(AnyBlock)]
<1>1. CASE s \in Sockets
  <2>1. Tail(f[s]) \in Seq(AnyBlock)
    BY <1>1, Tails
  <2> QED
    BY <2>1
<1>2. CASE s \notin Sockets
  BY <1>2
<1> QED
  BY <1>1, <1>2

Streams == up \in [Sockets -> Seq(AnyBlock)] /\ down \in [Sockets -> Seq(AnyBlock)]
Histories ==
  /\ ran \in [Request -> Nat] /\ answer \in [Request -> Ways]
  /\ spoilt \in SUBSET Sockets /\ crashes \in 0..MaxCrashes
Places ==
  /\ place \in [Sockets -> {"watched", "waiting", "handed", "closed"}]
  /\ shut \in SUBSET Sockets

LEMMA TypesTogether ==
  TypeOK <=> ac \in Connection /\ Streams /\ Places /\ Histories /\ wk \in [Workers -> WorkerState]
BY TypeParts DEF Streams, Places, Histories

LEMMA FreshType == RoomToConnect => Fresh \in Sockets /\ Unused(Fresh)
BY DEF RoomToConnect, Fresh

LEMMA ConnectType ==
  ASSUME TypeOK, NEW s \in Sockets, Connect(s)
  PROVE  Streams' /\ Places' /\ spoilt' \in SUBSET Sockets
<1>1. <<>> \in Seq(AnyBlock)
  BY EmptySeq
<1>2. Streams'
  BY <1>1, TypesTogether DEF Streams, Connect
<1>3. Places' /\ spoilt' \in SUBSET Sockets
  BY TypesTogether, Fields DEF Places, Histories, Connect
<1> QED
  BY <1>2, <1>3

\* Connections as the actions leave them.
LEMMA PooledType ==
  ASSUME NEW sock \in Sockets \cup {NoSocket}, NEW r \in AnyRequest, NEW proto \in {3, 4}
  PROVE  Pooled(sock, r, proto) \in Connection
BY Bounds DEF Pooled, Connection, Steps, AnyKind

LEMMA ConcludeType ==
  ASSUME TypeOK, NEW sock \in Sockets \cup {NoSocket}, NEW proto \in {3, 4}, NEW how \in Ways,
         Conclude(sock, proto, how)
  PROVE  ac' \in Connection /\ answer' \in [Request -> Ways]
<1>1. ac' \in Connection
  BY Fields, PooledType DEF Conclude
<1>2. answer' \in [Request -> Ways]
  BY TypesTogether DEF Conclude, Histories
<1> QED
  BY <1>1, <1>2

LEMMA InvalidateType ==
  ASSUME TypeOK, NEW proto \in {3, 4}, NEW how \in Ways, Invalidate(proto, how)
  PROVE  ac' \in Connection /\ answer' \in [Request -> Ways] /\ shut' \in SUBSET Sockets
<1>1. ac' \in Connection /\ answer' \in [Request -> Ways]
  BY ConcludeType DEF Invalidate
<1>2. shut' \in SUBSET Sockets
  BY Fields, TypesTogether DEF Invalidate, Places
<1> QED
  BY <1>1, <1>2

LEMMA GiveUpOpeningType ==
  ASSUME TypeOK, NEW m \in Connection, GiveUpOpening(m)
  PROVE  ac' \in Connection /\ answer' \in [Request -> Ways] /\ shut' \in SUBSET Sockets
<1>1. m.use_proto \in {3, 4}
  BY DEF Connection
<1>2. CASE m.retry /\ ~m.reopened
  <2>1. ac' \in Connection
    <3>1. ac' = [m EXCEPT !.pc = "acquire", !.sock = NoSocket,
                          !.again = FALSE, !.reopened = TRUE]
      BY <1>2 DEF GiveUpOpening
    <3>2. "acquire" \in Steps /\ NoSocket \in Sockets \cup {NoSocket}
      BY DEF Steps
    <3> QED
      BY <3>1, <3>2 DEF Connection
  <2>2. shut' \in SUBSET Sockets /\ answer' \in [Request -> Ways]
    BY <1>2, Fields, TypesTogether DEF GiveUpOpening, Places, Histories
  <2> QED
    BY <2>1, <2>2
<1>3. CASE ~(m.retry /\ ~m.reopened)
  <2>1. \/ Invalidate(MOD_JAXER_PROTOCOL_VERSION, "crashed")
        \/ Invalidate(m.use_proto, "unavailable")
    BY <1>3 DEF GiveUpOpening
  <2> QED
    BY <1>1, <2>1, InvalidateType DEF MOD_JAXER_PROTOCOL_VERSION, Ways
<1> QED
  BY <1>2, <1>3

-----------------------------------------------------------------------------
(* What the actions of the connector do to its fields.                     *)

Talking == ac.pc \in {"headers", "document", "final", "body"}

\* More than one call of the filter for OPTIONS.
Doubled == ac.kind = "options" /\ ac.blocks > 1

\* The connector's fields fit together.
Composed ==
  /\ ac.pc \notin {"free", "acquire"} => ac.sock # NoSocket
  /\ ac.pc # "free" => ac.req \in Request /\ ac.kind # "none"
  /\ ac.pc \notin {"document", "final", "body"} => ac.blocks = 0 /\ ~ac.postdata_sent
  /\ ac.pc = "document" => ~Handler(ac.kind)
  /\ ac.pc = "document" /\ ac.kind = "options" => ac.blocks < MaxBlocks
  /\ Talking /\ Doubled => ac.sock \in spoilt

\* On with the same request and the same socket.
GoesOn(pc) ==
  /\ ac' \in Connection
  /\ ac'.pc = pc /\ ac'.sock = ac.sock /\ ac'.req = ac.req /\ ac'.kind = ac.kind
SameProgress == ac'.blocks = ac.blocks /\ ac'.postdata_sent = ac.postdata_sent

\* The request is over.
IsFree(sock) ==
  /\ ac' \in Connection
  /\ ac'.pc = "free" /\ ac'.sock = sock /\ ac'.req = ac.req
  /\ ac'.blocks = 0 /\ ~ac'.postdata_sent
Answered(ways) ==
  /\ answer' \in [Request -> Ways]
  /\ \A r \in Request : answer'[r] = answer[r] \/ (r = ac.req /\ answer'[r] \in ways)

\* The connector is without a socket.
ClosesSocket ==
  /\ ac' \in Connection
  /\ ac'.sock = NoSocket /\ ac'.req = ac.req
  /\ ac'.pc \in {"free", "acquire"}
  /\ ac'.pc = "acquire" => ac'.kind = ac.kind /\ ac.pc # "free"
  /\ ac'.blocks = 0 /\ ~ac'.postdata_sent
  /\ shut' = shut \cup ({ac.sock} \ {NoSocket})

ConnectsTo(s) ==
  /\ s \in Sockets /\ Unused(s) /\ Connect(s)
  /\ ac' \in Connection
  /\ ac'.pc = "begin" /\ ac'.sock = s /\ ac'.req = ac.req /\ ac'.kind = ac.kind

LEMMA ConcludeEffect ==
  ASSUME TypeOK, NEW sock \in Sockets \cup {NoSocket}, NEW proto \in {3, 4}, NEW how \in Ways,
         Conclude(sock, proto, how)
  PROVE  IsFree(sock) /\ Answered({how})
<1>1. ac' \in Connection /\ answer' \in [Request -> Ways]
  BY ConcludeType
<1>2. IsFree(sock)
  BY <1>1 DEF Conclude, Pooled, IsFree
<1>3. Answered({how})
  BY <1>1, TypeParts DEF Conclude, Answered
<1> QED
  BY <1>2, <1>3

LEMMA GiveUpOpeningEffect ==
  ASSUME TypeOK, NEW m \in Connection, GiveUpOpening(m), ac.pc # "free",
         m.req = ac.req, m.kind = ac.kind, m.blocks = 0, ~m.postdata_sent
  PROVE  ClosesSocket /\ Answered({"crashed", "unavailable"})
<1>0. ac' \in Connection /\ answer' \in [Request -> Ways]
  BY GiveUpOpeningType
<1>1. m.use_proto \in {3, 4}
  BY DEF Connection
<1>2. CASE m.retry /\ ~m.reopened
  <2>1. /\ ac' = [m EXCEPT !.pc = "acquire", !.sock = NoSocket,
                          !.again = FALSE, !.reopened = TRUE]
        /\ shut' = shut \cup ({ac.sock} \ {NoSocket}) /\ answer' = answer
    BY <1>2 DEF GiveUpOpening
  <2>2. /\ ac'.pc = "acquire" /\ ac'.sock = NoSocket /\ ac'.req = ac.req
        /\ ac'.kind = ac.kind /\ ac'.blocks = 0 /\ ~ac'.postdata_sent
    BY <2>1 DEF Connection
  <2> QED
    BY <1>0, <2>1, <2>2 DEF ClosesSocket, Answered
<1>3. CASE ~(m.retry /\ ~m.reopened)
  <2>1. \/ Invalidate(MOD_JAXER_PROTOCOL_VERSION, "crashed")
        \/ Invalidate(m.use_proto, "unavailable")
    BY <1>3 DEF GiveUpOpening
  <2>2. PICK proto \in {3, 4}, how \in {"crashed", "unavailable"} : Invalidate(proto, how)
    BY <1>1, <2>1 DEF MOD_JAXER_PROTOCOL_VERSION
  <2>3. IsFree(NoSocket) /\ Answered({how})
    BY <2>2, ConcludeEffect DEF Invalidate, Ways
  <2>4. shut' = shut \cup ({ac.sock} \ {NoSocket})
    BY <2>2 DEF Invalidate
  <2> QED
    BY <2>3, <2>4 DEF IsFree, Answered, ClosesSocket
<1> QED
  BY <1>2, <1>3

LEMMA NewRequestEffect ==
  ASSUME TypeOK, Composed, NEW kind \in Kinds, NewRequest(kind)
  PROVE  /\ ac.pc = "free" /\ ac' \in Connection
         /\ ac'.pc = "acquire" /\ ac'.sock = ac.sock /\ ac'.req = ac.req + 1
         /\ ac'.req \in Request /\ ac'.kind # "none" /\ SameProgress
         /\ UNCHANGED <<up, down, place, shut, wk, ran, answer, spoilt, crashes>>
<1>1. /\ ac.pc = "free" /\ ac.req < MaxRequests
      /\ ac' = [ac EXCEPT !.pc = "acquire", !.req = ac.req + 1, !.kind = kind]
      /\ UNCHANGED <<up, down, place, shut, wk, ran, answer, spoilt, crashes>>
  BY DEF NewRequest, streams, history
<1>2. ac.req + 1 \in Request /\ ac.req + 1 \in AnyRequest
  BY <1>1, Fields, Bounds DEF Request, AnyRequest
<1>3. kind \in AnyKind /\ kind # "none" /\ "acquire" \in Steps
  BY Bounds DEF Steps
<1>4. ac \in Connection
  BY TypeParts
<1>5. ac' \in Connection
  BY <1>1, <1>2, <1>3, <1>4 DEF Connection
<1> QED
  BY <1>1, <1>2, <1>3, <1>4, <1>5 DEF SameProgress, Connection

\* A connection from the pool, a new one, or none.
LEMMA AcquireEffect ==
  ASSUME TypeOK, Composed, Acquire
  PROVE  /\ ac.pc = "acquire" /\ UNCHANGED <<wk, ran>>
         /\ \/ /\ GoesOn("begin") /\ SameProgress /\ ac.sock # NoSocket
               /\ UNCHANGED <<up, down, place, shut, answer, spoilt, crashes>>
            \/ /\ ConnectsTo(Fresh) /\ SameProgress /\ UNCHANGED <<answer, crashes>>
            \/ /\ ClosesSocket /\ Answered({"crashed", "unavailable"})
               /\ crashes < MaxCrashes /\ crashes' = crashes + 1
               /\ UNCHANGED <<up, down, place, spoilt>>
<1>1. /\ ac \in Connection /\ ac.pc = "acquire" /\ ac.blocks = 0 /\ ~ac.postdata_sent
      /\ "begin" \in Steps
  BY TypeParts DEF Acquire, Composed, Steps
<1>2. UNCHANGED <<wk, ran>>
  BY DEF Acquire, history
<1>3. CASE ac.sock # NoSocket
  <2>1. /\ ac' = [ac EXCEPT !.pc = "begin"]
        /\ UNCHANGED <<up, down, place, shut, answer, spoilt, crashes>>
    BY <1>3 DEF Acquire, streams, history
  <2>2. ac' \in Connection /\ GoesOn("begin") /\ SameProgress
    BY <1>1, <2>1 DEF Connection, GoesOn, SameProgress
  <2> QED
    BY <1>1, <1>2, <1>3, <2>1, <2>2
<1>4. CASE /\ ac.sock = NoSocket /\ RoomToConnect /\ Connect(Fresh)
           /\ ac' = [ac EXCEPT !.pc = "begin", !.sock = Fresh]
           /\ UNCHANGED <<ran, answer, crashes>>
  <2>1. Fresh \in Sockets /\ Unused(Fresh)
    BY <1>4, FreshType
  <2>2. ac' \in Connection /\ ConnectsTo(Fresh) /\ SameProgress
    BY <1>1, <1>4, <2>1 DEF Connection, ConnectsTo, SameProgress
  <2> QED
    BY <1>1, <1>2, <1>4, <2>2
<1>5. CASE ac.sock = NoSocket /\ ConnectFails /\ GiveUpOpening(ac)
            /\ UNCHANGED <<streams, place, ran, spoilt>>
  <2>1. ClosesSocket /\ Answered({"crashed", "unavailable"})
    BY <1>1, <1>5, GiveUpOpeningEffect
  <2> QED
    BY <1>1, <1>2, <1>5, <2>1 DEF ConnectFails, streams
<1> QED
  BY <1>3, <1>4, <1>5 DEF Acquire

\* What a stream holds when these blocks of the request are sent on it.
Tells(types) ==
  /\ types \in Seq(Types)
  /\ up' = [up EXCEPT ![ac.sock] = @ \o Blocks(types)]
  /\ up' \in [Sockets -> Seq(AnyBlock)]

LEMMA SendBlocks ==
  ASSUME TypeOK, NEW types \in Seq(Types), Send(ac.sock, Blocks(types))
  PROVE  Tells(types)
<1>1. Blocks(types) \in Seq(AnyBlock)
  BY BlocksType
<1>2. up \in [Sockets -> Seq(AnyBlock)] /\ up' = [up EXCEPT ![ac.sock] = up[ac.sock] \o Blocks(types)]
  BY TypeParts DEF Send
<1>3. up' \in [Sockets -> Seq(AnyBlock)]
  BY <1>1, <1>2, Sent
<1> QED
  BY <1>2, <1>3 DEF Tells

BeginBlock == [Block("BeginRequest", ac.req, ac.kind) EXCEPT !.version = ac.use_proto]
LEMMA BeginBlockType ==
  ASSUME TypeOK
  PROVE  BeginBlock \in AnyBlock /\ BeginBlock.is = "BeginRequest" /\ BeginBlock.of = ac.req
<1>1. Block("BeginRequest", ac.req, ac.kind) \in AnyBlock
      /\ Block("BeginRequest", ac.req, ac.kind).is = "BeginRequest"
      /\ Block("BeginRequest", ac.req, ac.kind).of = ac.req
  BY Fields, BlockType DEF Types
<1> QED
  BY <1>1, Fields DEF BeginBlock, AnyBlock

LEMMA SendBeginEffect ==
  ASSUME TypeOK, Composed, SendBegin
  PROVE  /\ ac.pc = "begin" /\ GoesOn("reply") /\ SameProgress
         /\ up' = [up EXCEPT ![ac.sock] = @ \o <<BeginBlock>>]
         /\ up' \in [Sockets -> Seq(AnyBlock)]
         /\ UNCHANGED <<down, place, shut, wk, ran, answer, spoilt, crashes>>
<1>1. /\ ac.pc = "begin" /\ ac' = [ac EXCEPT !.pc = "reply", !.retry = FALSE]
      /\ up' = [up EXCEPT ![ac.sock] = @ \o <<BeginBlock>>]
      /\ UNCHANGED <<down, place, shut, wk, ran, answer, spoilt, crashes>>
  BY DEF SendBegin, Send, BeginBlock, history
<1>2. <<BeginBlock>> \in Seq(AnyBlock)
  BY BeginBlockType
<1>3. up' \in [Sockets -> Seq(AnyBlock)]
  BY <1>1, <1>2, TypeParts, Sent
<1>4. ac \in Connection /\ "reply" \in Steps
  BY TypeParts DEF Steps
<1>5. ac' \in Connection /\ GoesOn("reply") /\ SameProgress
  BY <1>1, <1>4 DEF Connection, GoesOn, SameProgress
<1> QED
  BY <1>1, <1>3, <1>5

\* The connector takes a block off its stream.
Hears(types) ==
  /\ ac.sock \in Sockets => down[ac.sock] # <<>> /\ down[ac.sock][1].is \in types
  /\ down' = [down EXCEPT ![ac.sock] = Tail(@)]
  /\ down' \in [Sockets -> Seq(AnyBlock)]

LEMMA ReceiveBlock ==
  ASSUME TypeOK, NEW types, Readable, Received.is \in types, Receive
  PROVE  Hears(types)
<1>1. down \in [Sockets -> Seq(AnyBlock)] /\ down' = [down EXCEPT ![ac.sock] = Tail(down[ac.sock])]
      /\ down[ac.sock] # <<>> /\ Head(down[ac.sock]).is \in types
  BY TypeParts DEF Receive, Readable, Received
<1>2. ac.sock \in Sockets => Head(down[ac.sock]) = down[ac.sock][1]
  BY <1>1, Tails
<1>3. down' \in [Sockets -> Seq(AnyBlock)]
  BY <1>1, Taken
<1> QED
  BY <1>1, <1>2, <1>3 DEF Hears

LEMMA BegunEffect ==
  ASSUME TypeOK, Composed, Begun
  PROVE  /\ ac.pc = "reply" /\ GoesOn("headers") /\ SameProgress
         /\ Hears({"BeginRequest"}) /\ Received.reply = 1
         /\ UNCHANGED <<up, place, shut, wk, ran, answer, spoilt, crashes>>
<1>1. /\ ac.pc = "reply" /\ ac' = [ac EXCEPT !.pc = "headers"] /\ Received.reply = 1
      /\ UNCHANGED <<up, place, shut, wk, ran, answer, spoilt, crashes>>
  BY DEF Begun, GoodReply, history
<1>2. Hears({"BeginRequest"})
  BY ReceiveBlock DEF Begun, GoodReply
<1>3. ac \in Connection /\ "headers" \in Steps
  BY TypeParts DEF Steps
<1>4. ac' \in Connection /\ GoesOn("headers") /\ SameProgress
  BY <1>1, <1>3 DEF Connection, GoesOn, SameProgress
<1> QED
  BY <1>1, <1>2, <1>4

LEMMA RefusedFields ==
  ASSUME TypeOK, ac.pc \in {"begin", "reply"}, Composed
  PROVE  /\ Refused \in Connection /\ Refused.req = ac.req /\ Refused.kind = ac.kind
         /\ Refused.blocks = 0 /\ ~Refused.postdata_sent
         /\ Refused.blocks = ac.blocks /\ Refused.postdata_sent = ac.postdata_sent
BY TypeParts DEF Refused, Connection, Composed

LEMMA BeginAgainEffect ==
  ASSUME TypeOK, Composed, BeginAgain
  PROVE  /\ ac.pc \in {"begin", "reply"} /\ ConnectsTo(Fresh) /\ SameProgress
         /\ UNCHANGED <<wk, ran, answer, crashes>>
<1>1. /\ ac.pc \in {"begin", "reply"} /\ RoomToConnect /\ Connect(Fresh)
      /\ ac' = [Refused EXCEPT !.pc = "begin", !.sock = Fresh, !.again = TRUE]
      /\ UNCHANGED <<wk, ran, answer, crashes>>
  BY DEF BeginAgain, BeginFailed
<1>2. Fresh \in Sockets /\ Unused(Fresh)
  BY <1>1, FreshType
<1>3. /\ Refused \in Connection /\ Refused.req = ac.req /\ Refused.kind = ac.kind
      /\ Refused.blocks = ac.blocks /\ Refused.postdata_sent = ac.postdata_sent
      /\ "begin" \in Steps
  BY <1>1, RefusedFields DEF Steps
<1>4. ac' \in Connection /\ ac'.pc = "begin" /\ ac'.sock = Fresh /\ ac'.req = ac.req
      /\ ac'.kind = ac.kind /\ SameProgress
  BY <1>1, <1>2, <1>3 DEF Connection, SameProgress
<1> QED
  BY <1>1, <1>2, <1>4 DEF ConnectsTo

LEMMA BeginFailsEffect ==
  ASSUME TypeOK, Composed, BeginFails
  PROVE  /\ ac.pc \in {"begin", "reply"} /\ ClosesSocket /\ Answered({"crashed", "unavailable"})
         /\ crashes' = crashes \/ (crashes < MaxCrashes /\ crashes' = crashes + 1)
         /\ UNCHANGED <<up, down, place, wk, ran, spoilt>>
<1>1. /\ ac.pc \in {"begin", "reply"} /\ GiveUpOpening(Refused)
      /\ crashes' = crashes \/ (crashes < MaxCrashes /\ crashes' = crashes + 1)
      /\ UNCHANGED <<up, down, place, wk, ran, spoilt>>
  BY DEF BeginFails, BeginFailed, streams, ConnectFails
<1>2. ClosesSocket /\ Answered({"crashed", "unavailable"})
  BY <1>1, RefusedFields, GiveUpOpeningEffect
<1> QED
  BY <1>1, <1>2

LEMMA TypesSeq ==
  /\ <<"Headers">> \in Seq(Types) /\ <<"Headers", "Document", "EndRequest">> \in Seq(Types)
  /\ <<"Document">> \in Seq(Types) /\ <<"EndRequest">> \in Seq(Types)
  /\ <<"PostData">> \in Seq(Types) /\ <<"PostData", "EndRequest">> \in Seq(Types)
  /\ <<"PostData", "Document">> \in Seq(Types) /\ <<"Document", "EndRequest">> \in Seq(Types)
BY DEF Types

LEMMA SendHeadersEffect ==
  ASSUME TypeOK, Composed, SendHeaders
  PROVE  /\ ac.pc = "headers" /\ SameProgress
         /\ IF Handler(ac.kind)
            THEN GoesOn("final") /\ Tells(<<"Headers", "Document", "EndRequest">>)
            ELSE GoesOn("document") /\ Tells(<<"Headers">>)
         /\ UNCHANGED <<down, place, shut, wk, ran, answer, spoilt, crashes>>
<1>1. /\ ac.pc = "headers"
      /\ ac' = [ac EXCEPT !.pc = IF Handler(ac.kind) THEN "final" ELSE "document"]
      /\ UNCHANGED <<down, place, shut, wk, ran, answer, spoilt, crashes>>
  BY DEF SendHeaders, Continue, history
<1>2. /\ Handler(ac.kind) => Tells(<<"Headers", "Document", "EndRequest">>)
      /\ ~Handler(ac.kind) => Tells(<<"Headers">>)
  BY TypesSeq, SendBlocks DEF SendHeaders, Continue
<1>3. ac \in Connection /\ {"final", "document"} \subseteq Steps
  BY TypeParts DEF Steps
<1>4. SameProgress /\ GoesOn(IF Handler(ac.kind) THEN "final" ELSE "document")
  BY <1>1, <1>3 DEF Connection, GoesOn, SameProgress
<1> QED
  BY <1>1, <1>2, <1>4

\* A block of the document, after the post data when the worker asked.
Attends(block) ==
  /\ place[ac.sock] # "closed"
  /\ \/ /\ Asked /\ Hears({"RequirePostData"}) /\ Tells(<<"PostData", block>>)
        /\ ac'.postdata_sent
     \/ /\ down[ac.sock] = <<>> /\ Tells(<<block>>) /\ UNCHANGED down
        /\ ac'.postdata_sent = ac.postdata_sent

LEMMA AttendsEffect ==
  ASSUME TypeOK, Composed, NEW block \in {"Document", "EndRequest"}, SendAndAttend(block),
         ac'.postdata_sent = (ac.postdata_sent \/ Asked)
  PROVE  Attends(block)
<1>1. place[ac.sock] # "closed" /\ (down[ac.sock] = <<>> \/ Asked)
  BY DEF SendAndAttend, MaySend, Ended, Readable
<1>2. ASSUME Asked
      PROVE  Hears({"RequirePostData"}) /\ Tells(<<"PostData", block>>) /\ ac'.postdata_sent
  <2>1. Hears({"RequirePostData"})
    BY <1>2, ReceiveBlock DEF SendAndAttend, Asked
  <2>2. Blocks(<<"PostData">>) \o Blocks(<<block>>) = Blocks(<<"PostData", block>>)
    <3> DEFINE one == Blocks(<<"PostData">>)
               two == Blocks(<<block>>)
               both == Blocks(<<"PostData", block>>)
    <3>1. one \in Seq(AnyBlock) /\ Len(one) = 1 /\ two \in Seq(AnyBlock) /\ Len(two) = 1
          /\ both \in Seq(AnyBlock) /\ Len(both) = 2
      BY TypesSeq, BlocksType
    <3>2. one[1] = both[1] /\ two[1] = both[2]
      BY DEF Blocks
    <3>3. one \o two \in Seq(AnyBlock) /\ Len(one \o two) = 2
          /\ (one \o two)[1] = one[1] /\ (one \o two)[2] = two[1]
      <4> HIDE DEF one, two
      <4> QED
        BY <3>1, Sends, SMTT(30)
    <3> HIDE DEF one, two, both
    <3>4. \A i \in 1..Len(one \o two) : (one \o two)[i] = both[i]
      BY <3>1, <3>2, <3>3
    <3>5. one \o two = both
      BY <3>1, <3>3, <3>4, SeqEqual
    <3> QED
      BY <3>5 DEF one, two, both
  <2>3. Send(ac.sock, Blocks(<<"PostData", block>>))
    BY <1>2, <2>2 DEF SendAndAttend
  <2>4. Tells(<<"PostData", block>>)
    BY <2>3, TypesSeq, SendBlocks
  <2> QED
    BY <1>2, <2>1, <2>4
<1>3. ASSUME ~Asked
      PROVE  /\ down[ac.sock] = <<>> /\ Tells(<<block>>) /\ UNCHANGED down
             /\ ac'.postdata_sent = ac.postdata_sent
  <2>1. Blocks(<<block>>) \in Seq(AnyBlock)
    BY TypesSeq, BlocksType
  <2>2. <<>> \o Blocks(<<block>>) = Blocks(<<block>>)
    BY <2>1, ConcatEmptySeq
  <2>3. Send(ac.sock, Blocks(<<block>>)) /\ UNCHANGED down
    BY <1>3, <2>2 DEF SendAndAttend
  <2>4. Tells(<<block>>)
    BY <2>3, TypesSeq, SendBlocks
  <2> QED
    BY <1>1, <1>3, <2>3, <2>4, Fields
<1> QED
  BY <1>1, <1>2, <1>3 DEF Attends

LEMMA SendDocumentEffect ==
  ASSUME TypeOK, Composed, SendDocument
  PROVE  /\ ac.pc = "document" /\ ac.kind # "options" /\ GoesOn("document")
         /\ ac'.blocks = ac.blocks + 1 /\ Attends("Document")
         /\ UNCHANGED <<place, shut, wk, ran, answer, spoilt, crashes>>
<1>1. /\ ac.pc = "document" /\ ac.kind # "options" /\ ac.blocks < MaxBlocks
      /\ ac' = [ac EXCEPT !.blocks = ac.blocks + 1, !.postdata_sent = ac.postdata_sent \/ Asked]
      /\ UNCHANGED <<place, shut, wk, ran, answer, spoilt, crashes>>
  BY DEF SendDocument, history
<1>2. ac \in Connection /\ ac.blocks + 1 \in 0..MaxBlocks /\ Asked \in BOOLEAN
  BY <1>1, Fields, Bounds, TypeParts DEF Asked, Readable
<1>3. /\ ac' \in Connection /\ GoesOn("document") /\ ac'.blocks = ac.blocks + 1
      /\ ac'.postdata_sent = (ac.postdata_sent \/ Asked)
  BY <1>1, <1>2 DEF Connection, GoesOn
<1>4. Attends("Document")
  BY <1>3, AttendsEffect DEF SendDocument
<1> QED
  BY <1>1, <1>3, <1>4

LEMMA SendEndRequestEffect ==
  ASSUME TypeOK, Composed, SendEndRequest
  PROVE  /\ ac.pc = "document" /\ ac.kind # "options" /\ GoesOn("final")
         /\ ac.blocks > 0 /\ ac'.blocks = ac.blocks /\ Attends("EndRequest")
         /\ UNCHANGED <<place, shut, wk, ran, answer, spoilt, crashes>>
<1>1. /\ ac.pc = "document" /\ ac.kind # "options" /\ ac.blocks > 0
      /\ ac' = [ac EXCEPT !.pc = "final", !.postdata_sent = ac.postdata_sent \/ Asked]
      /\ UNCHANGED <<place, shut, wk, ran, answer, spoilt, crashes>>
  BY DEF SendEndRequest, history
<1>2. ac \in Connection /\ "final" \in Steps /\ Asked \in BOOLEAN
  BY Fields, TypeParts DEF Asked, Readable, Steps
<1>3. /\ ac' \in Connection /\ GoesOn("final") /\ ac'.blocks = ac.blocks
      /\ ac'.postdata_sent = (ac.postdata_sent \/ Asked)
  BY <1>1, <1>2 DEF Connection, GoesOn
<1>4. Attends("EndRequest")
  BY <1>3, AttendsEffect DEF SendEndRequest
<1> QED
  BY <1>1, <1>3, <1>4

LEMMA SendOptionsEffect ==
  ASSUME TypeOK, Composed, NEW eos_seen \in BOOLEAN, SendOptions(eos_seen)
  PROVE  /\ ac.pc = "document" /\ ac.kind = "options"
         /\ GoesOn(IF eos_seen THEN "final" ELSE "document")
         /\ ac'.blocks = ac.blocks + 1 /\ ac'.postdata_sent = ac.postdata_sent
         /\ ~eos_seen => ac'.blocks < MaxBlocks
         /\ Tells(<<"Document", "EndRequest">>)
         /\ spoilt' = IF ac.blocks > 0 THEN spoilt \cup {ac.sock} ELSE spoilt
         /\ UNCHANGED <<down, place, shut, wk, ran, answer, crashes>>
<1>1. /\ ac.pc = "document" /\ ac.kind = "options"
      /\ eos_seen \/ ac.blocks + 1 < MaxBlocks
      /\ ac' = [ac EXCEPT !.blocks = ac.blocks + 1,
                          !.pc = IF eos_seen THEN "final" ELSE "document"]
      /\ spoilt' = IF ac.blocks > 0 THEN spoilt \cup {ac.sock} ELSE spoilt
      /\ UNCHANGED <<down, place, shut, wk, ran, answer, crashes>>
  BY DEF SendOptions
<1>2. ac \in Connection /\ {"final", "document"} \subseteq Steps /\ ac.blocks + 1 \in 0..MaxBlocks
  BY <1>1, Fields, TypeParts, Bounds DEF Composed, Steps
<1>3. /\ ac' \in Connection /\ GoesOn(IF eos_seen THEN "final" ELSE "document")
      /\ ac'.blocks = ac.blocks + 1 /\ ac'.postdata_sent = ac.postdata_sent
  BY <1>1, <1>2 DEF Connection, GoesOn
<1>4. Tells(<<"Document", "EndRequest">>)
  BY TypesSeq, SendBlocks DEF SendOptions
<1> QED
  BY <1>1, <1>3, <1>4

LEMMA AbandonEffect ==
  ASSUME TypeOK, Composed, Abandon
  PROVE  /\ ac.pc = "document" /\ IsFree(ac.sock) /\ Answered({"abandoned"})
         /\ spoilt' = spoilt \cup {ac.sock}
         /\ UNCHANGED <<up, down, place, shut, wk, ran, crashes>>
<1>1. /\ ac.pc = "document" /\ Conclude(ac.sock, ac.use_proto, "abandoned")
      /\ spoilt' = spoilt \cup {ac.sock}
      /\ UNCHANGED <<up, down, place, shut, wk, ran, crashes>>
  BY DEF Abandon, streams
<1>2. IsFree(ac.sock) /\ Answered({"abandoned"})
  BY <1>1, Fields, ConcludeEffect DEF Ways
<1> QED
  BY <1>1, <1>2

LEMMA SendLatePostDataEffect ==
  ASSUME TypeOK, Composed, SendLatePostData
  PROVE  /\ ac.pc = "final" /\ GoesOn("final") /\ Asked
         /\ ac'.blocks = ac.blocks /\ ac'.postdata_sent
         /\ Hears({"RequirePostData"}) /\ Tells(<<"PostData", "EndRequest">>)
         /\ UNCHANGED <<place, shut, wk, ran, answer, spoilt, crashes>>
<1>1. /\ ac.pc = "final" /\ Asked /\ ac' = [ac EXCEPT !.postdata_sent = TRUE]
      /\ UNCHANGED <<place, shut, wk, ran, answer, spoilt, crashes>>
  BY DEF SendLatePostData, history
<1>2. Hears({"RequirePostData"})
  BY ReceiveBlock DEF SendLatePostData, Asked
<1>3. Tells(<<"PostData", "EndRequest">>)
  BY TypesSeq, SendBlocks DEF SendLatePostData
<1>4. ac \in Connection
  BY TypeParts
<1>5. GoesOn("final") /\ ac'.blocks = ac.blocks /\ ac'.postdata_sent
  BY <1>1, <1>4 DEF Connection, GoesOn
<1> QED
  BY <1>1, <1>2, <1>3, <1>5

LEMMA ReceiveHeadersEffect ==
  ASSUME TypeOK, Composed, ReceiveHeaders
  PROVE  /\ ac.pc = "final" /\ GoesOn("body") /\ SameProgress /\ Hears({"ResponseHeader"})
         /\ UNCHANGED <<up, place, shut, wk, ran, answer, spoilt, crashes>>
<1>1. /\ ac.pc = "final" /\ ac' = [ac EXCEPT !.pc = "body"]
      /\ UNCHANGED <<up, place, shut, wk, ran, answer, spoilt, crashes>>
  BY DEF ReceiveHeaders, history
<1>2. Hears({"ResponseHeader"})
  BY ReceiveBlock DEF ReceiveHeaders
<1>3. ac \in Connection /\ "body" \in Steps
  BY TypeParts DEF Steps
<1>4. GoesOn("body") /\ SameProgress
  BY <1>1, <1>3 DEF Connection, GoesOn, SameProgress
<1> QED
  BY <1>1, <1>2, <1>4

LEMMA ReceiveBodyEffect ==
  ASSUME TypeOK, Composed, ReceiveBody
  PROVE  /\ ac.pc = "body" /\ Hears({"Document"})
         /\ UNCHANGED <<ac, up, place, shut, wk, ran, answer, spoilt, crashes>>
<1>1. ac.pc = "body" /\ UNCHANGED <<ac, up, place, shut, wk, ran, answer, spoilt, crashes>>
  BY DEF ReceiveBody, history
<1>2. Hears({"Document"})
  BY ReceiveBlock DEF ReceiveBody
<1> QED
  BY <1>1, <1>2

LEMMA ReceiveEndEffect ==
  ASSUME TypeOK, Composed, ReceiveEnd
  PROVE  /\ ac.pc = "body" /\ IsFree(ac.sock) /\ Answered({"served"}) /\ Hears({"EndRequest"})
         /\ UNCHANGED <<up, place, shut, wk, ran, spoilt, crashes>>
<1>1. /\ ac.pc = "body" /\ Conclude(ac.sock, ac.use_proto, "served")
      /\ UNCHANGED <<up, place, shut, wk, ran, spoilt, crashes>>
  BY DEF ReceiveEnd
<1>2. Hears({"EndRequest"})
  BY ReceiveBlock DEF ReceiveEnd
<1>3. IsFree(ac.sock) /\ Answered({"served"})
  BY <1>1, Fields, ConcludeEffect DEF Ways
<1> QED
  BY <1>1, <1>2, <1>3

LEMMA FailEffect ==
  ASSUME TypeOK, Composed, Fail
  PROVE  /\ Failing /\ Talking /\ ClosesSocket /\ ac'.pc = "free" /\ Answered({"failed"})
         /\ UNCHANGED <<up, down, place, wk, ran, spoilt, crashes>>
<1>1. /\ Failing /\ Invalidate(ac.use_proto, "failed")
      /\ UNCHANGED <<up, down, place, wk, ran, spoilt, crashes>>
  BY DEF Fail, streams
<1>2. IsFree(NoSocket) /\ Answered({"failed"})
  BY <1>1, Fields, ConcludeEffect DEF Invalidate, Ways
<1>3. shut' = shut \cup ({ac.sock} \ {NoSocket})
  BY <1>1 DEF Invalidate
<1>4. Talking
  BY <1>1 DEF Failing, Talking
<1> QED
  BY <1>1, <1>2, <1>3, <1>4 DEF IsFree, ClosesSocket

-----------------------------------------------------------------------------
(* Who has which socket, and what the actions of the workers and of the    *)
(* manager do.                                                             *)

\* A socket that is open is the connector's; one that is handed over has one
\* worker, and every worker at work has a socket that is handed over.
Held ==
  /\ ac.sock # NoSocket => ac.sock \notin shut
  /\ \A s \in Sockets : s \notin shut => s = ac.sock
  /\ \A w \in Workers : wk[w].sock = NoSocket <=> wk[w].pc = "free"
  /\ \A w \in Workers : wk[w].sock # NoSocket => place[wk[w].sock] = "handed"
  /\ \A s \in Sockets : place[s] = "handed" => \E w \in Workers : wk[w].sock = s
  /\ \A w, v \in Workers : wk[w].sock # NoSocket /\ wk[w].sock = wk[v].sock => w = v

Base == TypeOK /\ Composed /\ Held

LEMMA WorkerFields ==
  ASSUME Base, NEW w \in Workers
  PROVE  /\ wk[w] \in WorkerState
         /\ wk[w].pc \in WorkerPlaces /\ wk[w].sock \in Sockets \cup {NoSocket}
         /\ wk[w].req \in AnyRequest /\ wk[w].kind \in AnyKind /\ wk[w].after \in BOOLEAN
         /\ wk[w].pc # "free" => wk[w].sock \in Sockets /\ place[wk[w].sock] = "handed"
         /\ w \in Busy <=> wk[w].pc # "free"
BY TypeParts DEF Base, Held, WorkerState, Busy

MovesTo(w, pc) ==
  /\ wk' \in [Workers -> WorkerState]
  /\ wk'[w].pc = pc /\ wk'[w].sock = wk[w].sock
  /\ \A v \in Workers : v # w => wk'[v] = wk[v]
SameRequest(w) == wk'[w].req = wk[w].req /\ wk'[w].kind = wk[w].kind

\* The worker reads the first block of its stream, or leaves it there.
Takes(w, type) ==
  LET s == wk[w].sock
  IN  /\ s \in Sockets /\ up[s] # <<>> /\ up[s][1].is = type
      /\ up' = [up EXCEPT ![s] = Tail(@)]
      /\ up' \in [Sockets -> Seq(AnyBlock)]
Leaves(w, types) ==
  LET s == wk[w].sock
  IN  s \in Sockets /\ up[s] # <<>> /\ up[s][1].is \notin types /\ UNCHANGED up

\* The worker answers.
Answer(w, types) == [i \in DOMAIN types |-> Block(types[i], wk[w].req, wk[w].kind)]
Says(w, types) ==
  /\ types \in Seq(Types) /\ wk[w].sock \in Sockets
  /\ down' = [down EXCEPT ![wk[w].sock] = @ \o Answer(w, types)]
  /\ down' \in [Sockets -> Seq(AnyBlock)]

Page == {"document", "ask", "aside", "postdata", "posting", "parse", "end",
         "respond", "finish", "ended"}

\* Where a worker is after a block of the request that it reads, and after one
\* that it leaves.
AfterReading(m, type, n) ==
  \/ /\ m.pc = "document" /\ type = "Document" /\ n.after = m.after
     /\ n.pc = IF Posts(m.kind) THEN "ask"
               ELSE IF Handler(m.kind) \/ m.kind = "options" THEN "end" ELSE "parse"
  \/ m.pc = "aside" /\ type = "Document" /\ n.pc = "aside" /\ n.after = m.after
  \/ m.pc = "aside" /\ type = "EndRequest" /\ n.pc = "postdata" /\ n.after
  \/ m.pc = "postdata" /\ type = "PostData" /\ n.pc = "posting" /\ n.after = m.after
  \/ m.pc = "posting" /\ type = "PostData" /\ n.pc = "posting" /\ n.after = m.after
  \/ m.pc = "parse" /\ type = "Document" /\ n.pc = "parse" /\ n.after = m.after
  \/ m.pc = "end" /\ type = "EndRequest" /\ n.pc = "respond" /\ n.after = m.after
AfterLeaving(m, type, n) ==
  \/ m.pc = "aside" /\ type \notin {"Document", "EndRequest"} /\ n.pc = "postdata"
  \/ /\ m.pc = "posting" /\ type # "PostData"
     /\ n.pc = IF Handler(m.kind) \/ m.after THEN "end" ELSE "parse"
  \/ m.pc = "parse" /\ type # "Document" /\ n.pc = "end"

\* The steps of a worker.
Reads(w) ==
  /\ wk[w].pc \in Page /\ wk[w].pc # "ended" /\ wk'[w].pc \in Page /\ wk'[w].pc # "ended"
  /\ MovesTo(w, wk'[w].pc) /\ SameRequest(w)
  /\ \E type \in {"Document", "EndRequest", "PostData"} :
       Takes(w, type) /\ AfterReading(wk[w], type, wk'[w])
  /\ UNCHANGED <<ac, down, place, shut, ran, answer, spoilt, crashes>>
PassesOn(w) ==
  /\ wk[w].pc \in Page /\ wk[w].pc # "ended" /\ wk'[w].pc \in Page /\ wk'[w].pc # "ended"
  /\ MovesTo(w, wk'[w].pc) /\ SameRequest(w) /\ wk'[w].after = wk[w].after
  /\ up[wk[w].sock] # <<>> /\ AfterLeaving(wk[w], up[wk[w].sock][1].is, wk'[w])
  /\ UNCHANGED <<ac, up, down, place, shut, ran, answer, spoilt, crashes>>
GetsConfused(w) ==
  /\ MovesTo(w, "confused") /\ SameRequest(w) /\ wk'[w].after = wk[w].after
  /\ \/ wk[w].pc = "next" /\ Leaves(w, {"BeginRequest"})
     \/ wk[w].pc = "headers" /\ Leaves(w, {"Headers"})
     \/ wk[w].pc = "document" /\ Leaves(w, {"Document"})
     \/ wk[w].pc = "postdata" /\ Leaves(w, {"PostData"})
     \/ wk[w].pc = "end" /\ Leaves(w, {"EndRequest"})
  /\ UNCHANGED <<ac, up, down, place, shut, ran, answer, spoilt, crashes>>
Exits(w) ==
  /\ wk[w].pc \notin {"free", "exited", "confused"}
  /\ MovesTo(w, "exited") /\ SameRequest(w) /\ wk'[w].after = wk[w].after
  /\ \/ wk[w].sock \in shut /\ crashes' = crashes
     \/ crashes < MaxCrashes /\ crashes' = crashes + 1
  /\ UNCHANGED <<ac, up, down, place, shut, ran, answer, spoilt>>

LEMMA StepEffect ==
  ASSUME Base, NEW w \in Workers, NEW m \in WorkerState, Step(w, m), m.sock = wk[w].sock
  PROVE  MovesTo(w, m.pc) /\ wk'[w] = m
<1>1. wk \in [Workers -> WorkerState] /\ wk' = [wk EXCEPT ![w] = m]
  BY TypeParts DEF Base, Step
<1> QED
  BY <1>1 DEF MovesTo

LEMMA PcEffect ==
  ASSUME Base, NEW w \in Workers, NEW pc \in WorkerPlaces, Step(w, [wk[w] EXCEPT !.pc = pc])
  PROVE  MovesTo(w, pc) /\ SameRequest(w) /\ wk'[w].after = wk[w].after /\ wk'[w].pc = pc
<1>1. [wk[w] EXCEPT !.pc = pc] \in WorkerState /\ [wk[w] EXCEPT !.pc = pc].sock = wk[w].sock
      /\ [wk[w] EXCEPT !.pc = pc].pc = pc
  BY WorkerFields DEF WorkerState
<1>2. MovesTo(w, pc) /\ wk'[w] = [wk[w] EXCEPT !.pc = pc]
  BY <1>1, StepEffect
<1> QED
  BY <1>1, <1>2, WorkerFields DEF SameRequest, WorkerState

LEMMA ConsumeEffect ==
  ASSUME Base, NEW w \in Workers, wk[w].pc # "free",
         NEW type, Comes(w, {type}), Consume(w)
  PROVE  Takes(w, type) /\ Head(Stream(w)) = up[wk[w].sock][1]
<1>1. wk[w].sock \in Sockets /\ up \in [Sockets -> Seq(AnyBlock)]
  BY WorkerFields, TypeParts DEF Base
<1>2. /\ up[wk[w].sock] # <<>> /\ Head(up[wk[w].sock]).is = type
      /\ up' = [up EXCEPT ![wk[w].sock] = Tail(up[wk[w].sock])]
  BY <1>1 DEF Comes, Type, Stream, Consume
<1>3. Head(up[wk[w].sock]) = up[wk[w].sock][1]
  BY <1>1, <1>2, Tails
<1>4. up' \in [Sockets -> Seq(AnyBlock)]
  BY <1>1, <1>2, Taken
<1> QED
  BY <1>1, <1>2, <1>3, <1>4 DEF Takes, Stream

LEMMA JunkEffect ==
  ASSUME Base, NEW w \in Workers, wk[w].pc # "free", NEW types, Junk(w, types), UNCHANGED up
  PROVE  Leaves(w, types)
<1>1. wk[w].sock \in Sockets /\ up[wk[w].sock] \in Seq(AnyBlock) /\ up[wk[w].sock] # <<>>
  BY WorkerFields, TypeParts DEF Base, Junk, Stream
<1>2. Head(up[wk[w].sock]) = up[wk[w].sock][1]
  BY <1>1, Tails
<1> QED
  BY <1>1, <1>2 DEF Junk, Leaves, Type, Stream

LEMMA AnswerType ==
  ASSUME Base, NEW w \in Workers, NEW types \in Seq(Types)
  PROVE  /\ Answer(w, types) \in Seq(AnyBlock) /\ Len(Answer(w, types)) = Len(types)
         /\ \A i \in 1..Len(types) :
              /\ Answer(w, types)[i].is = types[i] /\ Answer(w, types)[i].of = wk[w].req
              /\ Answer(w, types)[i].kind = wk[w].kind
<1>1. Len(types) \in Nat /\ DOMAIN types = 1..Len(types)
      /\ \A i \in 1..Len(types) : types[i] \in Types
  BY LenProperties
<1>2. \A i \in 1..Len(types) :
        LET b == Block(types[i], wk[w].req, wk[w].kind)
        IN  b \in AnyBlock /\ b.is = types[i] /\ b.of = wk[w].req /\ b.kind = wk[w].kind
  BY <1>1, WorkerFields, BlockType
<1> QED
  BY <1>1, <1>2 DEF Answer

LEMMA TellEffect ==
  ASSUME Base, NEW w \in Workers, wk[w].pc # "free", NEW types \in Seq(Types), Tell(w, types)
  PROVE  Says(w, types)
<1>1. wk[w].sock \in Sockets /\ down \in [Sockets -> Seq(AnyBlock)]
  BY WorkerFields, TypeParts DEF Base
<1>2. down' = [down EXCEPT ![wk[w].sock] = down[wk[w].sock] \o Answer(w, types)]
  BY DEF Tell, Reply, Answer
<1>3. Answer(w, types) \in Seq(AnyBlock)
  BY AnswerType
<1>4. down' \in [Sockets -> Seq(AnyBlock)]
  BY <1>1, <1>2, <1>3, Sent
<1> QED
  BY <1>1, <1>2, <1>4 DEF Says

LEMMA TakeEffect ==
  ASSUME Base, NEW w \in Workers, NEW from \in Page \ {"ended"}, NEW type,
         NEW to \in Page \ {"ended"}, Take(w, from, {type}, to)
  PROVE  /\ wk[w].pc = from /\ Takes(w, type) /\ MovesTo(w, to) /\ SameRequest(w)
         /\ wk'[w].pc = to /\ wk'[w].after = wk[w].after
         /\ UNCHANGED <<ac, down, place, shut, ran, answer, spoilt, crashes>>
<1>1. /\ wk[w].pc = from /\ Comes(w, {type}) /\ Consume(w)
      /\ Step(w, [wk[w] EXCEPT !.pc = to])
      /\ UNCHANGED <<ac, down, place, shut, ran, answer, spoilt, crashes>>
  BY DEF Take, At, history
<1>2. wk[w].pc # "free" /\ to \in WorkerPlaces
  BY <1>1 DEF Page, WorkerPlaces, Reading
<1> QED
  BY <1>1, <1>2, ConsumeEffect, PcEffect

LEMMA LeaveEffect ==
  ASSUME Base, NEW w \in Workers, NEW from \in Page \ {"ended"}, NEW types,
         NEW to \in Page \ {"ended"}, Leave(w, from, types, to)
  PROVE  /\ wk[w].pc = from /\ Leaves(w, types) /\ MovesTo(w, to) /\ SameRequest(w)
         /\ wk'[w].pc = to /\ wk'[w].after = wk[w].after
         /\ UNCHANGED <<ac, up, down, place, shut, ran, answer, spoilt, crashes>>
<1>1. /\ wk[w].pc = from /\ Junk(w, types) /\ Step(w, [wk[w] EXCEPT !.pc = to])
      /\ UNCHANGED <<ac, up, down, place, shut, ran, answer, spoilt, crashes>>
  BY DEF Leave, At, history, streams
<1>2. wk[w].pc # "free" /\ to \in WorkerPlaces
  BY <1>1 DEF Page, WorkerPlaces, Reading
<1> QED
  BY <1>1, <1>2, JunkEffect, PcEffect

\* All steps in which a worker reads a block of its request.
LEMMA ReadsEffect ==
  ASSUME Base, NEW w \in Workers,
         \/ BeginDocumentReceive(w) \/ SetAside(w) \/ SeeEndRequest(w) \/ BeginPostData(w)
         \/ ReadPostData(w) \/ Read(w) \/ GetEndRequest(w)
  PROVE  Reads(w)
<1>0. {"document", "ask", "end", "parse", "aside", "postdata", "posting", "respond"}
         \subseteq Page \ {"ended"}
  BY DEF Page
<1>a. ASSUME NEW from \in Page \ {"ended"}, NEW to \in Page \ {"ended"},
             NEW type \in {"Document", "EndRequest", "PostData"}, Take(w, from, {type}, to),
             wk[w].pc = from /\ wk'[w].pc = to /\ wk'[w].after = wk[w].after
               => AfterReading(wk[w], type, wk'[w])
      PROVE  Reads(w)
  <2>1. /\ wk[w].pc = from /\ Takes(w, type) /\ MovesTo(w, to) /\ SameRequest(w)
        /\ wk'[w].pc = to /\ wk'[w].after = wk[w].after
        /\ UNCHANGED <<ac, down, place, shut, ran, answer, spoilt, crashes>>
    BY <1>a, TakeEffect
  <2>2. Takes(w, type) /\ AfterReading(wk[w], type, wk'[w])
    BY <1>a, <2>1
  <2> QED
    BY <2>1, <2>2 DEF Reads
<1>1. CASE BeginDocumentReceive(w)
  <2> DEFINE to == IF Posts(wk[w].kind) THEN "ask"
                   ELSE IF Handler(wk[w].kind) \/ wk[w].kind = "options" THEN "end" ELSE "parse"
  <2>1. to \in Page \ {"ended"} /\ "document" \in Page \ {"ended"}
    BY <1>0
  <2>2. Take(w, "document", {"Document"}, to)
    BY <1>1 DEF BeginDocumentReceive
  <2>3. wk[w].pc = "document" /\ wk'[w].pc = to /\ wk'[w].after = wk[w].after
          => AfterReading(wk[w], "Document", wk'[w])
    BY DEF AfterReading
  <2> QED
    BY <1>a, <2>1, <2>2, <2>3
<1>2. CASE SetAside(w)
  BY <1>0, <1>a, <1>2 DEF SetAside, AfterReading
<1>3. CASE BeginPostData(w)
  BY <1>0, <1>a, <1>3 DEF BeginPostData, AfterReading
<1>4. CASE ReadPostData(w)
  BY <1>0, <1>a, <1>4 DEF ReadPostData, AfterReading
<1>5. CASE Read(w)
  BY <1>0, <1>a, <1>5 DEF Read, AfterReading
<1>6. CASE GetEndRequest(w)
  BY <1>0, <1>a, <1>6 DEF GetEndRequest, AfterReading
<1>7. CASE SeeEndRequest(w)
  <2>1. /\ wk[w].pc = "aside" /\ Comes(w, {"EndRequest"}) /\ Consume(w)
        /\ Step(w, [wk[w] EXCEPT !.pc = "postdata", !.after = TRUE])
        /\ UNCHANGED <<ac, down, place, shut, ran, answer, spoilt, crashes>>
    BY <1>7 DEF SeeEndRequest, At, history
  <2>2. Takes(w, "EndRequest")
    BY <2>1, ConsumeEffect
  <2> DEFINE m == [wk[w] EXCEPT !.pc = "postdata", !.after = TRUE]
  <2>3. m \in WorkerState /\ m.sock = wk[w].sock /\ m.pc = "postdata" /\ m.after
        /\ m.req = wk[w].req /\ m.kind = wk[w].kind
    BY WorkerFields DEF WorkerState, WorkerPlaces, Reading
  <2>4. MovesTo(w, "postdata") /\ wk'[w] = m
    BY <2>1, <2>3, StepEffect
  <2> QED
    BY <1>0, <2>1, <2>2, <2>3, <2>4 DEF Reads, AfterReading, SameRequest
<1> QED
  BY <1>1, <1>2, <1>3, <1>4, <1>5, <1>6, <1>7

\* All steps in which it leaves one.
LEMMA PassesOnEffect ==
  ASSUME Base, NEW w \in Workers, NoEndYet(w) \/ ResumeDocumentReceive(w) \/ EndOfDocument(w)
  PROVE  PassesOn(w)
<1>0. {"end", "parse", "aside", "postdata", "posting"} \subseteq Page \ {"ended"}
  BY DEF Page
<1>1. CASE NoEndYet(w)
  BY <1>0, <1>1, LeaveEffect DEF NoEndYet, PassesOn, AfterLeaving, Leaves
<1>2. CASE ResumeDocumentReceive(w)
  BY <1>0, <1>2, LeaveEffect DEF ResumeDocumentReceive, PassesOn, AfterLeaving, Leaves
<1>3. CASE EndOfDocument(w)
  BY <1>0, <1>3, LeaveEffect DEF EndOfDocument, PassesOn, AfterLeaving, Leaves
<1> QED
  BY <1>1, <1>2, <1>3

LEMMA ConfusedEffect ==
  ASSUME Base, NEW w \in Workers, Confused(w)
  PROVE  GetsConfused(w)
<1>1. /\ Step(w, [wk[w] EXCEPT !.pc = "confused"]) /\ wk[w].pc # "free"
      /\ UNCHANGED <<ac, up, down, place, shut, ran, answer, spoilt, crashes>>
  BY DEF Confused, At, streams, history
<1>2. MovesTo(w, "confused") /\ SameRequest(w) /\ wk'[w].after = wk[w].after
  BY <1>1, PcEffect DEF WorkerPlaces
<1>3. \/ wk[w].pc = "next" /\ Leaves(w, {"BeginRequest"})
      \/ wk[w].pc = "headers" /\ Leaves(w, {"Headers"})
      \/ wk[w].pc = "document" /\ Leaves(w, {"Document"})
      \/ wk[w].pc = "postdata" /\ Leaves(w, {"PostData"})
      \/ wk[w].pc = "end" /\ Leaves(w, {"EndRequest"})
  BY <1>1, JunkEffect DEF Confused, At
<1> QED
  BY <1>1, <1>2, <1>3 DEF GetsConfused

LEMMA ExitsEffect ==
  ASSUME Base, NEW w \in Workers, Cut(w) \/ WorkerDies(w)
  PROVE  Exits(w)
<1>1. /\ Step(w, [wk[w] EXCEPT !.pc = "exited"])
      /\ wk[w].pc \notin {"free", "exited", "confused"}
      /\ \/ wk[w].sock \in shut /\ crashes' = crashes
         \/ crashes < MaxCrashes /\ crashes' = crashes + 1
      /\ UNCHANGED <<ac, up, down, place, shut, ran, answer, spoilt>>
  BY WorkerFields DEF Cut, WorkerDies, streams, history, Reading, Dead
<1>2. MovesTo(w, "exited") /\ SameRequest(w) /\ wk'[w].after = wk[w].after
  BY <1>1, PcEffect DEF WorkerPlaces
<1> QED
  BY <1>1, <1>2 DEF Exits

\* The worker takes a request, or refuses it and exits.
Replies(w) ==
  LET s == wk[w].sock
  IN  /\ wk[w].pc = "next" /\ Takes(w, "BeginRequest")
      /\ \E b \in AnyBlock :
           /\ b.is = "BeginRequest" /\ b.of = up[s][1].of
           /\ down' = [down EXCEPT ![s] = @ \o <<b>>]
           /\ MovesTo(w, IF b.reply = 1 THEN "headers" ELSE "exited")
      /\ down' \in [Sockets -> Seq(AnyBlock)]
      /\ wk'[w].req = up[s][1].of /\ wk'[w].kind = wk[w].kind /\ wk'[w].after = wk[w].after
      /\ UNCHANGED <<ac, place, shut, ran, answer, spoilt, crashes>>

LEMMA NextRequestEffect ==
  ASSUME Base, NEW w \in Workers, NextRequest(w)
  PROVE  Replies(w)
<1> DEFINE s == wk[w].sock
           c == Head(Stream(w))
           ok == Accepts(w, c.version)
           b == [Block("BeginRequest", c.of, c.kind) EXCEPT
                   !.version = IF ok THEN c.version
                               ELSE IF w \in OldWorkers THEN 3
                               ELSE JAXER_PROTOCOL_VERSION,
                   !.reply = IF ok THEN 1 ELSE 0]
           pc == IF ok THEN "headers" ELSE "exited"
           m == [wk[w] EXCEPT !.pc = pc, !.req = c.of]
<1>1. /\ wk[w].pc = "next" /\ Comes(w, {"BeginRequest"}) /\ Consume(w)
      /\ Reply(w, <<b>>) /\ Step(w, m)
      /\ UNCHANGED <<ac, place, shut, ran, answer, spoilt, crashes>>
  BY DEF NextRequest, At, history
<1>2. s \in Sockets /\ up[s] \in Seq(AnyBlock) /\ up[s] # <<>> /\ down \in [Sockets -> Seq(AnyBlock)]
  BY <1>1, WorkerFields, TypeParts DEF Base, Comes, Stream
<1>3. Takes(w, "BeginRequest") /\ c = up[s][1] /\ c \in AnyBlock
  BY <1>1, <1>2, ConsumeEffect, Tails, ZenonT(40)
<1>4. c.of \in AnyRequest /\ c.kind \in AnyKind /\ c.version \in {0, 3, 4}
  BY <1>3 DEF AnyBlock
<1>5. ok \in BOOLEAN
  BY DEF Accepts
<1>6. b \in AnyBlock /\ b.is = "BeginRequest" /\ b.of = c.of /\ (b.reply = 1 <=> ok)
  <2> DEFINE version == IF ok THEN c.version
                        ELSE IF w \in OldWorkers THEN 3 ELSE JAXER_PROTOCOL_VERSION
             reply == IF ok THEN 1 ELSE 0
             sent == Block("BeginRequest", c.of, c.kind)
  <2>1. "BeginRequest" \in Types
    BY DEF Types
  <2>2. version \in {0, 3, 4} /\ reply \in {0, 1} /\ (reply = 1 <=> ok)
    <3> HIDE DEF ok, c
    <3> QED
      BY <1>4, <1>5 DEF JAXER_PROTOCOL_VERSION
  <2>3. sent \in AnyBlock /\ sent.is = "BeginRequest" /\ sent.of = c.of
    BY <1>4, <2>1, BlockType
  <2>4. b = [sent EXCEPT !.version = version, !.reply = reply]
    OBVIOUS
  <2> HIDE DEF ok, c, b, sent, version, reply
  <2> QED
    BY <2>2, <2>3, <2>4 DEF AnyBlock
<1>7. m \in WorkerState /\ m.sock = s /\ m.pc = pc /\ m.req = c.of /\ m.kind = wk[w].kind
      /\ m.after = wk[w].after
  <2>1. pc \in WorkerPlaces
    BY DEF WorkerPlaces, Reading
  <2> HIDE DEF pc, c
  <2> QED
    BY <1>4, <2>1, WorkerFields DEF WorkerState
<1>8. MovesTo(w, pc) /\ wk'[w] = m
  <2> HIDE DEF m
  <2> QED
    BY <1>1, <1>7, StepEffect
<1>9. down' = [down EXCEPT ![s] = down[s] \o <<b>>]
  BY <1>1 DEF Reply
<1>10. <<b>> \in Seq(AnyBlock)
  <2> HIDE DEF b
  <2> QED
    BY <1>6
<1>11. down' \in [Sockets -> Seq(AnyBlock)]
  <2> HIDE DEF b
  <2> QED
    BY <1>2, <1>9, <1>10, Sent
<1>12. MovesTo(w, IF b.reply = 1 THEN "headers" ELSE "exited")
  <2> HIDE DEF b
  <2> QED
    BY <1>6, <1>8
<1>13. \E a \in AnyBlock :
           /\ a.is = "BeginRequest" /\ a.of = up[s][1].of
           /\ down' = [down EXCEPT ![s] = @ \o <<a>>]
           /\ MovesTo(w, IF a.reply = 1 THEN "headers" ELSE "exited")
  <2> HIDE DEF b, ok, c
  <2> QED
    BY <1>3, <1>6, <1>9, <1>12
<1>14. wk'[w].req = up[s][1].of /\ wk'[w].kind = wk[w].kind /\ wk'[w].after = wk[w].after
  BY <1>3, <1>7, <1>8
<1> HIDE DEF b, ok, c, m
<1> QED
  BY <1>1, <1>3, <1>11, <1>13, <1>14 DEF Replies

\* The page of a request starts.
Starts(w) ==
  LET b == up[wk[w].sock][1]
  IN  /\ wk[w].pc = "headers" /\ Takes(w, "Headers") /\ MovesTo(w, "document")
      /\ wk'[w].req = wk[w].req /\ wk'[w].kind = b.kind /\ wk'[w].after = wk[w].after
      /\ ran' = [ran EXCEPT ![b.of] = @ + 1] /\ ran' \in [Request -> Nat]
      /\ UNCHANGED <<ac, down, place, shut, answer, spoilt, crashes>>

LEMMA StartPageEffect ==
  ASSUME Base, NEW w \in Workers, StartPage(w)
  PROVE  Starts(w)
<1> DEFINE b == up[wk[w].sock][1]
           m == [wk[w] EXCEPT !.pc = "document", !.kind = b.kind]
<1>1. /\ wk[w].pc = "headers" /\ Comes(w, {"Headers"}) /\ Consume(w)
      /\ UNCHANGED <<ac, down, place, shut, answer, spoilt, crashes>>
  BY DEF StartPage, At
<1>2. Takes(w, "Headers") /\ Head(Stream(w)) = b
  BY <1>1, ConsumeEffect
<1>3. Step(w, m) /\ ran' = [ran EXCEPT ![b.of] = ran[b.of] + 1]
  BY <1>2 DEF StartPage
<1>4. b \in AnyBlock
  BY <1>2, Tails, TypeParts DEF Takes, Base
<1>5. m \in WorkerState /\ m.sock = wk[w].sock /\ m.pc = "document" /\ m.req = wk[w].req
      /\ m.kind = b.kind /\ m.after = wk[w].after
  <2>1. b.kind \in AnyKind /\ "document" \in WorkerPlaces
    BY <1>4 DEF AnyBlock, WorkerPlaces, Reading
  <2> HIDE DEF b
  <2> QED
    BY <2>1, WorkerFields DEF WorkerState
<1>6. MovesTo(w, "document") /\ wk'[w] = m
  <2> HIDE DEF m
  <2> QED
    BY <1>3, <1>5, StepEffect
<1>7. ran \in [Request -> Nat]
  BY TypeParts DEF Base
<1>8. ran' \in [Request -> Nat]
  <2> HIDE DEF b
  <2>1. CASE b.of \in Request
    BY <1>3, <1>7, <2>1
  <2>2. CASE b.of \notin Request
    BY <1>3, <1>7, <2>2
  <2> QED
    BY <2>1, <2>2
<1> HIDE DEF m
<1> QED
  BY <1>1, <1>2, <1>3, <1>5, <1>6, <1>8 DEF Starts

\* The worker says something and goes on.
Speaks(w, from, types, to) ==
  /\ wk[w].pc = from /\ Says(w, types) /\ MovesTo(w, to) /\ SameRequest(w)
  /\ wk'[w].after = wk[w].after
  /\ UNCHANGED <<ac, up, place, shut, ran, answer, spoilt, crashes>>

LEMMA AnswersSeq ==
  /\ <<"RequirePostData">> \in Seq(Types) /\ <<"ResponseHeader", "Document">> \in Seq(Types)
  /\ <<"EndRequest">> \in Seq(Types)
BY DEF Types

LEMMA RequestPostDataEffect ==
  ASSUME Base, NEW w \in Workers, RequestPostData(w)
  PROVE  Speaks(w, "ask", <<"RequirePostData">>, "aside")
<1>1. /\ wk[w].pc = "ask" /\ Tell(w, <<"RequirePostData">>)
      /\ Step(w, [wk[w] EXCEPT !.pc = "aside"])
      /\ UNCHANGED <<ac, up, place, shut, ran, answer, spoilt, crashes>>
  BY DEF RequestPostData, At, history
<1>2. Says(w, <<"RequirePostData">>)
  BY <1>1, AnswersSeq, TellEffect
<1>3. MovesTo(w, "aside") /\ SameRequest(w) /\ wk'[w].after = wk[w].after
  BY <1>1, PcEffect DEF WorkerPlaces, Reading
<1> QED
  BY <1>1, <1>2, <1>3 DEF Speaks

LEMMA RespondEffect ==
  ASSUME Base, NEW w \in Workers, Respond(w)
  PROVE  Speaks(w, "respond", <<"ResponseHeader", "Document">>, "finish")
<1>1. /\ wk[w].pc = "respond" /\ Tell(w, <<"ResponseHeader", "Document">>)
      /\ Step(w, [wk[w] EXCEPT !.pc = "finish"])
      /\ UNCHANGED <<ac, up, place, shut, ran, answer, spoilt, crashes>>
  BY DEF Respond, At, history
<1>2. Says(w, <<"ResponseHeader", "Document">>)
  BY <1>1, AnswersSeq, TellEffect
<1>3. MovesTo(w, "finish") /\ SameRequest(w) /\ wk'[w].after = wk[w].after
  BY <1>1, PcEffect DEF WorkerPlaces
<1> QED
  BY <1>1, <1>2, <1>3 DEF Speaks

\* What is left of a stream when some blocks are dropped.
LEMMA Drops ==
  ASSUME NEW S, NEW q \in Seq(S), NEW n \in 0..Len(q)
  PROVE  LET r == SubSeq(q, n + 1, Len(q))
         IN  /\ r \in Seq(S) /\ Len(r) = Len(q) - n
             /\ \A i \in 1..Len(r) : i + n \in 1..Len(q) /\ r[i] = q[i + n]
<1> DEFINE r == SubSeq(q, n + 1, Len(q))
<1>1. Len(q) \in Nat
  BY LenProperties
<1>2. n + 1 \in 1..Len(q) + 1 /\ Len(q) \in n..Len(q)
  BY <1>1
<1>3. CASE n + 1 <= Len(q)
  <2>1. r \in Seq(S) /\ Len(r) = Len(q) - (n + 1) + 1
        /\ \A i \in 1..Len(q) - (n + 1) + 1 : r[i] = q[(n + 1) + i - 1]
    BY <1>1, <1>2, <1>3, SubSeqProperties
  <2>2. Len(r) = Len(q) - n /\ \A i \in 1..Len(r) : i + n \in 1..Len(q) /\ (n + 1) + i - 1 = i + n
    BY <1>1, <2>1
  <2> QED
    BY <1>1, <2>1, <2>2
<1>4. CASE n = Len(q)
  <2>1. r = <<>>
    BY <1>1, <1>4, SubSeqProperties
  <2> QED
    BY <1>1, <1>4, <2>1, EmptySeq
<1> QED
  BY <1>1, <1>3, <1>4

\* The answer is complete, and some of the blocks that are left are dropped.
Finishes(w) ==
  LET s == wk[w].sock
  IN  /\ wk[w].pc = "finish" /\ Says(w, <<"EndRequest">>) /\ MovesTo(w, "ended")
      /\ SameRequest(w) /\ wk'[w].after = wk[w].after
      /\ up' \in [Sockets -> Seq(AnyBlock)]
      /\ \A t \in Sockets : t # s => up'[t] = up[t]
      /\ \E n \in 0..Len(up[s]) :
           /\ Len(up'[s]) = Len(up[s]) - n
           /\ \A i \in 1..Len(up'[s]) : i + n \in 1..Len(up[s]) /\ up'[s][i] = up[s][i + n]
      /\ UNCHANGED <<ac, place, shut, ran, answer, spoilt, crashes>>

LEMMA EndResponseEffect ==
  ASSUME Base, NEW w \in Workers, EndResponse(w)
  PROVE  Finishes(w)
<1> DEFINE s == wk[w].sock
<1>1. /\ wk[w].pc = "finish" /\ Tell(w, <<"EndRequest">>)
      /\ Step(w, [wk[w] EXCEPT !.pc = "ended"])
      /\ UNCHANGED <<ac, place, shut, ran, answer, spoilt, crashes>>
  BY DEF EndResponse, At, history
<1>2. Says(w, <<"EndRequest">>)
  BY <1>1, AnswersSeq, TellEffect
<1>3. MovesTo(w, "ended") /\ SameRequest(w) /\ wk'[w].after = wk[w].after
  BY <1>1, PcEffect DEF WorkerPlaces
<1>4. s \in Sockets /\ up \in [Sockets -> Seq(AnyBlock)]
  BY <1>1, WorkerFields, TypeParts DEF Base
<1>5. PICK n \in 0..Len(up[s]) : up' = [up EXCEPT ![s] = SubSeq(up[s], n + 1, Len(up[s]))]
  BY DEF EndResponse, Stream
<1> DEFINE r == SubSeq(up[s], n + 1, Len(up[s]))
<1>6. /\ r \in Seq(AnyBlock) /\ Len(r) = Len(up[s]) - n
      /\ \A i \in 1..Len(r) : i + n \in 1..Len(up[s]) /\ r[i] = up[s][i + n]
  BY <1>4, Drops
<1> HIDE DEF r
<1>7. up' = [up EXCEPT ![s] = r]
  BY <1>5 DEF r
<1>8. up' \in [Sockets -> Seq(AnyBlock)] /\ up'[s] = r
      /\ \A t \in Sockets : t # s => up'[t] = up[t]
  BY <1>4, <1>6, <1>7
<1> QED
  BY <1>1, <1>2, <1>3, <1>6, <1>8 DEF Finishes

\* A worker is bound to a socket, or is free again.
Frees(w) ==
  /\ wk' \in [Workers -> WorkerState]
  /\ wk'[w].pc = "free" /\ wk'[w].sock = NoSocket /\ ~wk'[w].after
  /\ \A v \in Workers : v # w => wk'[v] = wk[v]

LEMMA WaitingType ==
  /\ Waiting \in WorkerState
  /\ \A s \in Sockets : [Waiting EXCEPT !.pc = "next", !.sock = s] \in WorkerState
<1>1. {"free", "next"} \subseteq WorkerPlaces /\ 0 \in AnyRequest /\ "none" \in AnyKind
  BY Bounds DEF WorkerPlaces, Reading, AnyRequest, AnyKind
<1>2. Waiting \in WorkerState
  BY <1>1 DEF Waiting, WorkerState
<1> QED
  BY <1>1, <1>2 DEF WorkerState

\* The manager hands socket s to worker w.
Hands(s, w) ==
  /\ (place[s] = "watched" /\ up[s] # <<>>) \/ place[s] = "waiting"
  /\ wk[w].pc = "free"
  /\ place' = [place EXCEPT ![s] = "handed"]
  /\ wk' \in [Workers -> WorkerState]
  /\ wk'[w].pc = "next" /\ wk'[w].sock = s /\ ~wk'[w].after
  /\ \A v \in Workers : v # w => wk'[v] = wk[v]
  /\ UNCHANGED <<ac, up, down, shut, ran, answer, spoilt, crashes>>

LEMMA HandEffect ==
  ASSUME Base, NEW s \in Sockets, NEW w \in Workers, Hand(s, w)
  PROVE  Hands(s, w)
<1>1. /\ w \notin Busy /\ place' = [place EXCEPT ![s] = "handed"]
      /\ (place[s] = "watched" /\ up[s] # <<>>) \/ place[s] = "waiting"
      /\ wk' = [wk EXCEPT ![w] = [Waiting EXCEPT !.pc = "next", !.sock = s]]
      /\ UNCHANGED <<ac, up, down, shut, ran, answer, spoilt, crashes>>
  BY DEF Hand, Arrived, streams, history
<1>2. wk[w].pc = "free"
  BY <1>1, WorkerFields
<1> DEFINE m == [Waiting EXCEPT !.pc = "next", !.sock = s]
<1>3. m \in WorkerState /\ m.pc = "next" /\ m.sock = s /\ ~m.after
  BY WaitingType DEF Waiting
<1>4. wk \in [Workers -> WorkerState] /\ wk' = [wk EXCEPT ![w] = m]
  BY <1>1, TypeParts DEF Base
<1> HIDE DEF m
<1> QED
  BY <1>1, <1>2, <1>3, <1>4 DEF Hands

LEMMA FreesEffect ==
  ASSUME Base, NEW w \in Workers, wk' = [wk EXCEPT ![w] = Waiting]
  PROVE  Frees(w)
<1>1. Waiting \in WorkerState /\ Waiting.pc = "free" /\ Waiting.sock = NoSocket /\ ~Waiting.after
  BY WaitingType DEF Waiting
<1>2. wk \in [Workers -> WorkerState]
  BY TypeParts DEF Base
<1> QED
  BY <1>1, <1>2 DEF Frees

\* The manager takes a socket back from a worker, or closes it.
Releases(w) ==
  /\ wk[w].pc \in {"ended", "exited", "confused"} /\ wk[w].sock \in Sockets /\ Frees(w)
  /\ place' = [place EXCEPT ![wk[w].sock] = IF wk[w].pc = "ended" THEN "watched" ELSE "closed"]
  /\ UNCHANGED <<ac, up, down, shut, ran, answer, spoilt, crashes>>

LEMMA ReleasesEffect ==
  ASSUME Base, NEW w \in Workers, TakeBack(w) \/ DeleteServer(w)
  PROVE  Releases(w)
<1>1. /\ wk[w].pc \in {"ended", "exited", "confused"}
      /\ place' = [place EXCEPT ![wk[w].sock] = IF wk[w].pc = "ended" THEN "watched" ELSE "closed"]
      /\ wk' = [wk EXCEPT ![w] = Waiting]
      /\ UNCHANGED <<ac, up, down, shut, ran, answer, spoilt, crashes>>
  BY DEF TakeBack, DeleteServer, Dead, streams, history
<1>2. wk[w].sock \in Sockets
  BY <1>1, WorkerFields
<1> QED
  BY <1>1, <1>2, FreesEffect DEF Releases

\* The manager closes a watched socket, or lets its request wait.
SetsPlace(s) ==
  /\ place[s] = "watched"
  /\ \/ up[s] = <<>> /\ s \in shut /\ place' = [place EXCEPT ![s] = "closed"]
     \/ up[s] # <<>> /\ place' = [place EXCEPT ![s] = "waiting"]
  /\ UNCHANGED <<ac, up, down, shut, wk, ran, answer, spoilt, crashes>>

LEMMA SetsPlaceEffect ==
  ASSUME NEW s \in Sockets, CloseWatched(s) \/ Enqueue(s)
  PROVE  SetsPlace(s)
BY DEF CloseWatched, Enqueue, Arrived, SetsPlace, streams, history

-----------------------------------------------------------------------------
(* Types, and who has which socket, in every step.                         *)

WorkerActs(w) ==
  \/ Replies(w)
  \/ Starts(w)
  \/ Reads(w)
  \/ PassesOn(w)
  \/ Speaks(w, "ask", <<"RequirePostData">>, "aside")
  \/ Speaks(w, "respond", <<"ResponseHeader", "Document">>, "finish")
  \/ Finishes(w)
  \/ GetsConfused(w)
  \/ Exits(w)
  \/ Releases(w)

\* Every step is one of these.
LEMMA Cases ==
  ASSUME Base, Next
  PROVE  \/ \E kind \in Kinds : NewRequest(kind)
         \/ Connector
         \/ Abandon
         \/ \E s \in Sockets : SetsPlace(s)
         \/ \E s \in Sockets, w \in Workers : Hands(s, w)
         \/ \E w \in Workers : WorkerActs(w)
<1>1. CASE Manager
  <2>1. CASE \E s \in Sockets : CloseWatched(s) \/ Enqueue(s)
    BY <2>1, SetsPlaceEffect
  <2>2. CASE \E s \in Sockets, w \in Workers : Hand(s, w)
    BY <2>2, HandEffect
  <2>3. CASE \E w \in Workers : TakeBack(w) \/ DeleteServer(w)
    BY <2>3, ReleasesEffect DEF WorkerActs
  <2> QED
    BY <1>1, <2>1, <2>2, <2>3 DEF Manager
<1>2. ASSUME NEW w \in Workers, Worker(w) \/ WorkerDies(w) PROVE WorkerActs(w)
  BY <1>2, NextRequestEffect, StartPageEffect, ReadsEffect, PassesOnEffect,
     RequestPostDataEffect, RespondEffect, EndResponseEffect, ConfusedEffect, ExitsEffect
  DEF Worker, WorkerActs
<1> QED
  BY <1>1, <1>2 DEF Next

LEMMA ConnectorTypes ==
  ASSUME Base, Connector
  PROVE  TypeOK'
<1> USE DEF Base
<1>0. TypeOK <=> ac \in Connection /\ Streams /\ Places /\ Histories /\ wk \in [Workers -> WorkerState]
  BY TypesTogether
<1>a. TypeOK' <=> ac' \in Connection /\ Streams' /\ Places' /\ Histories'
                  /\ wk' \in [Workers -> WorkerState]
  BY DEF TypeOK, Connection, WorkerPlaces, WorkerState, Streams, Places, Histories
<1> USE DEF Streams, Places, Histories
<1>b. ASSUME ClosesSocket PROVE ac' \in Connection /\ shut' \in SUBSET Sockets
  BY <1>b, <1>0, Fields DEF ClosesSocket
<1>c. ASSUME NEW s, ConnectsTo(s), UNCHANGED <<wk, ran, answer, crashes>> PROVE TypeOK'
  BY <1>c, <1>0, <1>a, ConnectType DEF ConnectsTo
<1>d. crashes < MaxCrashes => crashes + 1 \in 0..MaxCrashes
  BY <1>0, Bounds
<1>1. CASE Acquire
  BY <1>1, <1>0, <1>a, <1>b, <1>c, <1>d, AcquireEffect DEF GoesOn, Answered
<1>2. CASE SendBegin
  BY <1>2, <1>0, <1>a, SendBeginEffect DEF GoesOn
<1>3. CASE Begun
  BY <1>3, <1>0, <1>a, BegunEffect DEF GoesOn, Hears
<1>4. CASE BeginAgain
  BY <1>4, <1>c, BeginAgainEffect
<1>5. CASE BeginFails
  BY <1>5, <1>0, <1>a, <1>b, <1>d, BeginFailsEffect DEF Answered
<1>6. CASE SendHeaders
  BY <1>6, <1>0, <1>a, SendHeadersEffect DEF GoesOn, Tells
<1>7. CASE SendDocument
  BY <1>7, <1>0, <1>a, SendDocumentEffect DEF GoesOn, Attends, Hears, Tells
<1>8. CASE SendEndRequest
  BY <1>8, <1>0, <1>a, SendEndRequestEffect DEF GoesOn, Attends, Hears, Tells
<1>9. CASE \E eos_seen \in BOOLEAN : SendOptions(eos_seen)
  <2>1. /\ ac' \in Connection /\ up' \in [Sockets -> Seq(AnyBlock)]
        /\ spoilt' = spoilt \/ spoilt' = spoilt \cup {ac.sock}
        /\ UNCHANGED <<down, place, shut, wk, ran, answer, crashes>>
        /\ ac.pc = "document"
    BY <1>9, SendOptionsEffect DEF GoesOn, Tells
  <2>2. ac.sock \in Sockets
    BY <2>1, Fields DEF Composed
  <2> QED
    BY <2>1, <2>2, <1>0, <1>a
<1>10. CASE SendLatePostData
  BY <1>10, <1>0, <1>a, SendLatePostDataEffect DEF GoesOn, Hears, Tells
<1>11. CASE ReceiveHeaders
  BY <1>11, <1>0, <1>a, ReceiveHeadersEffect DEF GoesOn, Hears
<1>12. CASE ReceiveBody
  BY <1>12, <1>0, <1>a, ReceiveBodyEffect DEF Hears
<1>13. CASE ReceiveEnd
  BY <1>13, <1>0, <1>a, ReceiveEndEffect DEF IsFree, Answered, Hears
<1>14. CASE Fail
  BY <1>14, <1>0, <1>a, <1>b, FailEffect DEF Answered
<1> QED
  BY <1>1, <1>2, <1>3, <1>4, <1>5, <1>6, <1>7, <1>8, <1>9, <1>10, <1>11, <1>12, <1>13,
     <1>14 DEF Connector

LEMMA TypeStep ==
  ASSUME Base, [Next]_vars
  PROVE  TypeOK'
<1> USE DEF Base
<1>0. TypeOK <=> ac \in Connection /\ Streams /\ Places /\ Histories /\ wk \in [Workers -> WorkerState]
  BY TypesTogether
<1>a. TypeOK' <=> ac' \in Connection /\ Streams' /\ Places' /\ Histories'
                  /\ wk' \in [Workers -> WorkerState]
  BY DEF TypeOK, Connection, WorkerPlaces, WorkerState, Streams, Places, Histories
<1> USE DEF Streams, Places, Histories
<1>1. CASE UNCHANGED vars
  BY <1>1, <1>0, <1>a DEF vars
<1>2. CASE \E kind \in Kinds : NewRequest(kind)
  BY <1>2, <1>0, <1>a, NewRequestEffect
<1>3. CASE Connector
  BY <1>3, ConnectorTypes
<1>4. CASE Abandon
  <2>1. ac.sock \in Sockets
    BY <1>4, Fields, AbandonEffect DEF Composed
  <2> QED
    BY <1>4, <2>1, <1>0, <1>a, AbandonEffect DEF IsFree, Answered
<1>5. CASE \E s \in Sockets : SetsPlace(s)
  BY <1>5, <1>0, <1>a DEF SetsPlace
<1>6. CASE \E s \in Sockets, w \in Workers : Hands(s, w)
  BY <1>6, <1>0, <1>a DEF Hands
<1>7. ASSUME NEW w \in Workers, WorkerActs(w) PROVE TypeOK'
  <2>1. CASE Replies(w)
    BY <2>1, <1>0, <1>a DEF Replies, MovesTo, Takes
  <2>2. CASE Starts(w)
    BY <2>2, <1>0, <1>a DEF Starts, MovesTo, Takes
  <2>3. CASE Reads(w) \/ PassesOn(w) \/ GetsConfused(w)
    BY <2>3, <1>0, <1>a DEF Reads, PassesOn, GetsConfused, MovesTo, Takes
  <2>4. CASE \E from, types, to : Speaks(w, from, types, to)
    BY <2>4, <1>0, <1>a DEF Speaks, Says, MovesTo
  <2>5. CASE Finishes(w)
    BY <2>5, <1>0, <1>a DEF Finishes, Says, MovesTo
  <2>6. CASE Exits(w)
    BY <2>6, <1>0, <1>a, Bounds DEF Exits, MovesTo
  <2>7. CASE Releases(w)
    BY <2>7, <1>0, <1>a DEF Releases, Frees
  <2> QED
    BY <1>7, <2>1, <2>2, <2>3, <2>4, <2>5, <2>6, <2>7 DEF WorkerActs
<1> QED
  BY <1>1, <1>2, <1>3, <1>4, <1>5, <1>6, <1>7, Cases

LEMMA ComposedStep ==
  ASSUME Base, [Next]_vars
  PROVE  Composed'
<1> USE DEF Base
<1>0. Composed /\ ac.blocks \in 0..MaxBlocks /\ MaxBlocks \in Nat \ {0}
  BY Fields, Bounds
<1>a. ASSUME UNCHANGED <<ac, spoilt>> PROVE Composed'
  BY <1>a, <1>0 DEF Composed, Talking, Doubled
<1>b. ASSUME ClosesSocket PROVE Composed'
  BY <1>b, <1>0, Fields DEF ClosesSocket, Composed, Talking
<1>c. ASSUME NEW s, ConnectsTo(s), SameProgress, ac.pc \notin {"free", "document", "final", "body"}
      PROVE Composed'
  BY <1>c, <1>0, Bounds DEF ConnectsTo, Composed, SameProgress, Talking
<1>1. CASE UNCHANGED vars
  BY <1>1, <1>a DEF vars
<1>2. CASE \E kind \in Kinds : NewRequest(kind)
  BY <1>2, <1>0, NewRequestEffect DEF Composed, SameProgress, Talking
<1>3. CASE Acquire
  BY <1>3, <1>0, <1>b, <1>c, AcquireEffect DEF GoesOn, SameProgress, Composed, Talking
<1>4. CASE SendBegin
  BY <1>4, <1>0, SendBeginEffect DEF GoesOn, SameProgress, Composed, Talking
<1>5. CASE Begun
  BY <1>5, <1>0, BegunEffect DEF GoesOn, SameProgress, Composed, Talking, Doubled
<1>6. CASE BeginAgain
  BY <1>6, <1>c, BeginAgainEffect
<1>7. CASE BeginFails
  BY <1>7, <1>b, BeginFailsEffect
<1>8. CASE SendHeaders
  BY <1>8, <1>0, SendHeadersEffect DEF GoesOn, SameProgress, Composed, Talking, Doubled
<1>9. CASE SendDocument
  BY <1>9, <1>0, SendDocumentEffect DEF GoesOn, Composed, Talking, Doubled
<1>10. CASE SendEndRequest
  BY <1>10, <1>0, SendEndRequestEffect DEF GoesOn, Composed, Talking, Doubled
<1>11. ASSUME NEW eos_seen \in BOOLEAN, SendOptions(eos_seen) PROVE Composed'
  <2>1. /\ ac.pc = "document" /\ ac.kind = "options" /\ ac'.pc \in {"document", "final"}
        /\ ac'.sock = ac.sock /\ ac'.req = ac.req /\ ac'.kind = ac.kind
        /\ ac'.blocks = ac.blocks + 1 /\ (ac'.pc = "document" => ac'.blocks < MaxBlocks)
        /\ spoilt' = IF ac.blocks > 0 THEN spoilt \cup {ac.sock} ELSE spoilt
    BY <1>11, SendOptionsEffect DEF GoesOn
  <2> QED
    BY <2>1, <1>0 DEF Composed, Talking, Doubled
<1>12. CASE Abandon
  BY <1>12, <1>0, AbandonEffect DEF IsFree, Composed, Talking
<1>13. CASE SendLatePostData
  BY <1>13, <1>0, SendLatePostDataEffect DEF GoesOn, Composed, Talking, Doubled
<1>14. CASE ReceiveHeaders
  BY <1>14, <1>0, ReceiveHeadersEffect DEF GoesOn, SameProgress, Composed, Talking, Doubled
<1>15. CASE ReceiveBody
  BY <1>15, <1>a, ReceiveBodyEffect
<1>16. CASE ReceiveEnd
  BY <1>16, <1>0, ReceiveEndEffect DEF IsFree, Composed, Talking
<1>17. CASE Fail
  BY <1>17, <1>b, FailEffect
<1>18. CASE \E s \in Sockets : SetsPlace(s)
  BY <1>18, <1>a DEF SetsPlace
<1>19. CASE \E s \in Sockets, w \in Workers : Hands(s, w)
  BY <1>19, <1>a DEF Hands
<1>20. CASE \E w \in Workers : WorkerActs(w)
  BY <1>20, <1>a DEF WorkerActs, Replies, Starts, Reads, PassesOn, Speaks, Finishes,
     GetsConfused, Exits, Releases
<1> QED
  BY <1>1, <1>2, <1>3, <1>4, <1>5, <1>6, <1>7, <1>8, <1>9, <1>10, <1>11, <1>12, <1>13, <1>14,
     <1>15, <1>16, <1>17, <1>18, <1>19, <1>20, Cases DEF Connector

\* Nothing changes hands.
SameHolders ==
  /\ ac'.sock = ac.sock /\ UNCHANGED <<place, shut>>
  /\ \A v \in Workers : wk'[v].sock = wk[v].sock /\ (wk'[v].pc = "free" <=> wk[v].pc = "free")

LEMMA HeldStep ==
  ASSUME Base, [Next]_vars
  PROVE  Held'
<1> USE DEF Base
<1>0. /\ Held /\ NoSocket \notin Sockets /\ ac.sock \in Sockets \cup {NoSocket}
      /\ place \in [Sockets -> {"watched", "waiting", "handed", "closed"}]
      /\ shut \in SUBSET Sockets
      /\ \A v \in Workers : wk[v].sock \in Sockets \cup {NoSocket}
  BY Fields, Bounds, TypeParts, WorkerFields
<1>a. ASSUME SameHolders PROVE Held'
  BY <1>a, <1>0 DEF SameHolders, Held
<1>b. ASSUME ClosesSocket, UNCHANGED <<place, wk>> PROVE Held'
  BY <1>b, <1>0 DEF ClosesSocket, Held
<1>c. ASSUME NEW s, ConnectsTo(s), UNCHANGED wk PROVE Held'
  <2>1. /\ s \in Sockets /\ s \in shut /\ \A v \in Workers : wk[v].sock # s
        /\ place' = [place EXCEPT ![s] = "watched"] /\ ac'.sock = s
        /\ shut' = (shut \ {s}) \cup ({ac.sock} \ {NoSocket})
    BY <1>c DEF ConnectsTo, Connect, Unused
  <2> QED
    BY <1>c, <2>1, <1>0 DEF Held
<1>d. ASSUME NEW w \in Workers, MovesTo(w, wk'[w].pc), wk[w].pc # "free", wk'[w].pc # "free",
             UNCHANGED <<ac, place, shut>>
      PROVE  Held'
  BY <1>d, <1>a DEF MovesTo, SameHolders
<1>1. CASE UNCHANGED vars
  BY <1>1, <1>a DEF vars, SameHolders
<1>2. CASE \E kind \in Kinds : NewRequest(kind)
  BY <1>2, <1>a, NewRequestEffect DEF SameHolders
<1>3. CASE Acquire
  BY <1>3, <1>a, <1>b, <1>c, AcquireEffect DEF GoesOn, SameHolders
<1>4. CASE SendBegin
  BY <1>4, <1>a, SendBeginEffect DEF GoesOn, SameHolders
<1>5. CASE Begun
  BY <1>5, <1>a, BegunEffect DEF GoesOn, SameHolders
<1>6. CASE BeginAgain
  BY <1>6, <1>c, BeginAgainEffect
<1>7. CASE BeginFails
  BY <1>7, <1>b, BeginFailsEffect
<1>8. CASE SendHeaders
  BY <1>8, <1>a, SendHeadersEffect DEF GoesOn, SameHolders
<1>9. CASE SendDocument
  BY <1>9, <1>a, SendDocumentEffect DEF GoesOn, SameHolders
<1>10. CASE SendEndRequest
  BY <1>10, <1>a, SendEndRequestEffect DEF GoesOn, SameHolders
<1>11. CASE \E eos_seen \in BOOLEAN : SendOptions(eos_seen)
  BY <1>11, <1>a, SendOptionsEffect DEF GoesOn, SameHolders
<1>12. CASE Abandon
  BY <1>12, <1>a, AbandonEffect DEF IsFree, SameHolders
<1>13. CASE SendLatePostData
  BY <1>13, <1>a, SendLatePostDataEffect DEF GoesOn, SameHolders
<1>14. CASE ReceiveHeaders
  BY <1>14, <1>a, ReceiveHeadersEffect DEF GoesOn, SameHolders
<1>15. CASE ReceiveBody
  BY <1>15, <1>a, ReceiveBodyEffect DEF SameHolders
<1>16. CASE ReceiveEnd
  BY <1>16, <1>a, ReceiveEndEffect DEF IsFree, SameHolders
<1>17. CASE Fail
  BY <1>17, <1>b, FailEffect
<1>18. CASE \E s \in Sockets : SetsPlace(s)
  BY <1>18, <1>0 DEF SetsPlace, Held
<1>19. ASSUME NEW s \in Sockets, NEW w \in Workers, Hands(s, w) PROVE Held'
  <2>1. /\ place[s] \in {"watched", "waiting"} /\ wk[w].pc = "free" /\ wk[w].sock = NoSocket
        /\ place' = [place EXCEPT ![s] = "handed"]
        /\ wk'[w].pc = "next" /\ wk'[w].sock = s
        /\ \A v \in Workers : v # w => wk'[v] = wk[v]
        /\ UNCHANGED <<ac, shut>>
    BY <1>19, <1>0 DEF Hands, Held
  <2>2. \A v \in Workers : wk[v].sock # s
    BY <2>1, <1>0 DEF Held
  <2> QED
    BY <2>1, <2>2, <1>0 DEF Held
<1>20. ASSUME NEW w \in Workers, WorkerActs(w) PROVE Held'
  <2>1. CASE Replies(w)
    BY <2>1, <1>d DEF Replies, MovesTo
  <2>2. CASE Starts(w)
    BY <2>2, <1>d DEF Starts, MovesTo
  <2>3. CASE Reads(w) \/ PassesOn(w)
    BY <2>3, <1>d DEF Reads, PassesOn, Page
  <2>4. CASE Speaks(w, "ask", <<"RequirePostData">>, "aside")
             \/ Speaks(w, "respond", <<"ResponseHeader", "Document">>, "finish")
    BY <2>4, <1>d DEF Speaks, MovesTo
  <2>5. CASE Finishes(w)
    BY <2>5, <1>d DEF Finishes, MovesTo
  <2>6. CASE GetsConfused(w) \/ Exits(w)
    BY <2>6, <1>d DEF GetsConfused, Exits, MovesTo
  <2>7. CASE Releases(w)
    <3>1. /\ wk[w].sock \in Sockets /\ wk'[w].pc = "free" /\ wk'[w].sock = NoSocket
          /\ place' = [place EXCEPT ![wk[w].sock] = IF wk[w].pc = "ended" THEN "watched" ELSE "closed"]
          /\ \A v \in Workers : v # w => wk'[v] = wk[v]
          /\ UNCHANGED <<ac, shut>>
      BY <2>7 DEF Releases, Frees
    <3>2. \A v \in Workers : v # w => wk[v].sock # wk[w].sock
      BY <3>1, <1>0 DEF Held
    <3> QED
      BY <3>1, <3>2, <1>0 DEF Held
  <2> QED
    BY <1>20, <2>1, <2>2, <2>3, <2>4, <2>5, <2>6, <2>7 DEF WorkerActs
<1> QED
  BY <1>1, <1>2, <1>3, <1>4, <1>5, <1>6, <1>7, <1>8, <1>9, <1>10, <1>11, <1>12, <1>13, <1>14,
     <1>15, <1>16, <1>17, <1>18, <1>19, <1>20, Cases DEF Connector

LEMMA BaseInit == Init => Base
<1>1. <<>> \in Seq(AnyBlock)
  BY EmptySeq
<1>2. Init => ac \in Connection
  <2>1. 0 \in AnyRequest
    BY Bounds DEF AnyRequest
  <2>2. NoSocket \in Sockets \cup {NoSocket} /\ 4 \in {3, 4}
    OBVIOUS
  <2>3. Pooled(NoSocket, 0, 4) \in Connection
    BY <2>1, <2>2, PooledType
  <2> QED
    BY <2>3 DEF Init, MOD_JAXER_PROTOCOL_VERSION
<1>3. ASSUME Init PROVE TypeOK
  <2>1. /\ up \in [Sockets -> Seq(AnyBlock)] /\ down \in [Sockets -> Seq(AnyBlock)]
        /\ place \in [Sockets -> {"watched", "waiting", "handed", "closed"}]
        /\ shut \in SUBSET Sockets /\ ran \in [Request -> Nat] /\ spoilt \in SUBSET Sockets
    BY <1>1, <1>3 DEF Init
  <2>2. wk \in [Workers -> WorkerState]
    BY <1>3, WaitingType DEF Init
  <2>3. answer \in [Request -> Ways]
    BY <1>3 DEF Init, Ways
  <2>4. crashes \in 0..MaxCrashes
    BY <1>3, Bounds DEF Init
  <2> QED
    BY <1>2, <1>3, <2>1, <2>2, <2>3, <2>4, TypeParts
<1>4. Init => Composed /\ Held
  BY Bounds DEF Init, Pooled, Waiting, Composed, Held, Talking
<1> QED
  BY <1>3, <1>4 DEF Base

LEMMA BaseStep == Base /\ [Next]_vars => Base'
BY TypeStep, ComposedStep, HeldStep DEF Base

\* The variables keep their types: the connector counts no more document
\* blocks than a request has, and no worker, block or answer is of a request
\* that does not exist (mod_jaxer's context and FCGXStream's fields).
THEOREM TypeCorrect == Spec => []TypeOK
<1>1. Base => TypeOK
  BY DEF Base
<1> QED
  BY <1>1, BaseInit, BaseStep, PTL DEF Spec

-----------------------------------------------------------------------------
(* The steps of the connector, as the first properties see them.           *)

\* A new request; a connection from the pool for it; a new connection; none.
Reuses ==
  /\ ac.pc = "acquire" /\ ac.sock # NoSocket /\ GoesOn("begin") /\ SameProgress
  /\ UNCHANGED <<up, down, place, shut, wk, ran, answer, spoilt, crashes>>
Opens ==
  /\ ac.pc \in {"acquire", "begin", "reply"}
  /\ ConnectsTo(Fresh) /\ SameProgress /\ UNCHANGED <<wk, ran, answer, crashes>>
GivesUp ==
  /\ ac.pc # "free" /\ ClosesSocket /\ Answered(Ways \ {"served"})
  /\ ac'.pc = "acquire" => ac.pc \in {"acquire", "begin", "reply"}
  /\ crashes' \in 0..MaxCrashes /\ crashes' >= crashes
  /\ UNCHANGED <<up, down, place, wk, ran, spoilt>>

\* The begin of a request and its reply.
Begins ==
  /\ ac.pc = "begin" /\ GoesOn("reply") /\ SameProgress
  /\ up' = [up EXCEPT ![ac.sock] = @ \o <<BeginBlock>>] /\ up' \in [Sockets -> Seq(AnyBlock)]
  /\ UNCHANGED <<down, place, shut, wk, ran, answer, spoilt, crashes>>
Agrees ==
  /\ ac.pc = "reply" /\ GoesOn("headers") /\ SameProgress
  /\ Hears({"BeginRequest"}) /\ Received.reply = 1
  /\ UNCHANGED <<up, place, shut, wk, ran, answer, spoilt, crashes>>

\* The headers, alone or with everything else.
Opening == {<<"Headers">>, <<"Headers", "Document", "EndRequest">>}
Leads ==
  /\ ac.pc = "headers" /\ ac'.pc \in {"document", "final"} /\ GoesOn(ac'.pc) /\ SameProgress
  /\ \E types \in Opening : Tells(types)
  /\ UNCHANGED <<down, place, shut, wk, ran, answer, spoilt, crashes>>

\* The rest of the request and of its answer.
Converses ==
  /\ ac.pc \in {"document", "final", "body"} /\ ac'.pc \in {"document", "final", "body"}
  /\ GoesOn(ac'.pc)
  /\ ac'.pc = "body" /\ ac.pc # "body" => Hears({"ResponseHeader"})
  /\ UNCHANGED up \/ \E types \in Seq({"Document", "PostData", "EndRequest"}) : Tells(types)
  /\ UNCHANGED down \/ \E types : Hears(types)
  /\ UNCHANGED <<place, shut, wk, ran, answer, crashes>>
  /\ spoilt \subseteq spoilt'

\* The request is over, and the connection goes back to the pool.
Parts ==
  /\ ac.pc \in {"document", "body"} /\ IsFree(ac.sock)
  /\ Answered(IF ac.pc = "body" THEN {"served"} ELSE {"abandoned"})
  /\ UNCHANGED down \/ \E types : Hears(types)
  /\ UNCHANGED <<up, place, shut, wk, ran, crashes>>
  /\ spoilt \subseteq spoilt'

LEMMA ConnectorCases ==
  ASSUME Base, Connector \/ Abandon
  PROVE  Reuses \/ Opens \/ GivesUp \/ Begins \/ Agrees \/ Leads \/ Converses \/ Parts
<1> USE DEF Base
<1>0. crashes \in 0..MaxCrashes /\ MaxCrashes \in Nat
  BY TypeParts, Bounds
<1> DEFINE Later == Seq({"Document", "PostData", "EndRequest"})
<1>a. /\ <<"Document">> \in Later /\ <<"EndRequest">> \in Later
      /\ <<"PostData", "EndRequest">> \in Later /\ <<"PostData", "Document">> \in Later
      /\ <<"Document", "EndRequest">> \in Later
  OBVIOUS
<1>b. ASSUME NEW ways \in SUBSET (Ways \ {"served"}), Answered(ways)
      PROVE  Answered(Ways \ {"served"})
  BY <1>b DEF Answered
<1>c. {"crashed", "unavailable"} \in SUBSET (Ways \ {"served"})
      /\ {"failed"} \in SUBSET (Ways \ {"served"})
  BY DEF Ways
<1>1. CASE Acquire
  <2>1. ac.pc = "acquire" /\ UNCHANGED <<wk, ran>>
    BY <1>1, AcquireEffect
  <2>2. CASE GoesOn("begin") /\ SameProgress /\ ac.sock # NoSocket
               /\ UNCHANGED <<up, down, place, shut, answer, spoilt, crashes>>
    BY <2>1, <2>2 DEF Reuses
  <2>3. CASE ConnectsTo(Fresh) /\ SameProgress /\ UNCHANGED <<answer, crashes>>
    BY <2>1, <2>3 DEF Opens
  <2>4. CASE /\ ClosesSocket /\ Answered({"crashed", "unavailable"})
             /\ crashes < MaxCrashes /\ crashes' = crashes + 1
             /\ UNCHANGED <<up, down, place, spoilt>>
    BY <2>1, <2>4, <1>0, <1>b, <1>c DEF GivesUp
  <2> QED
    BY <1>1, <2>2, <2>3, <2>4, AcquireEffect
<1>2. CASE SendBegin
  BY <1>2, SendBeginEffect DEF Begins
<1>3. CASE Begun
  BY <1>3, BegunEffect DEF Agrees
<1>4. CASE BeginAgain
  BY <1>4, BeginAgainEffect DEF Opens
<1>5. CASE BeginFails
  BY <1>5, <1>0, <1>b, <1>c, BeginFailsEffect DEF GivesUp
<1>6. CASE SendHeaders
  BY <1>6, SendHeadersEffect DEF Leads, Opening, GoesOn
<1>7. CASE SendDocument
  <2>1. /\ ac.pc = "document" /\ GoesOn("document") /\ Attends("Document")
        /\ UNCHANGED <<place, shut, wk, ran, answer, spoilt, crashes>>
    BY <1>7, SendDocumentEffect
  <2> QED
    BY <1>a, <2>1 DEF Converses, Attends, GoesOn
<1>8. CASE SendEndRequest
  <2>1. /\ ac.pc = "document" /\ GoesOn("final") /\ Attends("EndRequest")
        /\ UNCHANGED <<place, shut, wk, ran, answer, spoilt, crashes>>
    BY <1>8, SendEndRequestEffect
  <2> QED
    BY <1>a, <2>1 DEF Converses, Attends, GoesOn
<1>9. ASSUME NEW eos_seen \in BOOLEAN, SendOptions(eos_seen) PROVE Converses
  <2>1. /\ ac.pc = "document" /\ GoesOn(IF eos_seen THEN "final" ELSE "document")
        /\ Tells(<<"Document", "EndRequest">>)
        /\ spoilt \subseteq spoilt'
        /\ UNCHANGED <<down, place, shut, wk, ran, answer, crashes>>
    BY <1>9, SendOptionsEffect
  <2> QED
    BY <1>a, <2>1 DEF Converses, GoesOn
<1>10. CASE Abandon
  BY <1>10, AbandonEffect DEF Parts
<1>11. CASE SendLatePostData
  BY <1>11, <1>a, SendLatePostDataEffect DEF Converses, GoesOn
<1>12. CASE ReceiveHeaders
  BY <1>12, ReceiveHeadersEffect DEF Converses, GoesOn
<1>13. CASE ReceiveBody
  <2>1. GoesOn("body")
    BY <1>13, ReceiveBodyEffect, TypeParts DEF GoesOn
  <2> QED
    BY <1>13, <2>1, ReceiveBodyEffect DEF Converses, GoesOn
<1>14. CASE ReceiveEnd
  BY <1>14, ReceiveEndEffect DEF Parts
<1>15. CASE Fail
  BY <1>15, <1>0, <1>b, <1>c, FailEffect DEF GivesUp, Talking
<1> QED
  BY <1>1, <1>2, <1>3, <1>4, <1>5, <1>6, <1>7, <1>8, <1>9, <1>10, <1>11, <1>12, <1>13, <1>14,
     <1>15 DEF Connector

-----------------------------------------------------------------------------
(* The blocks of a stream after a step.                                    *)

\* q is p and more blocks, r.
IsAppended(q, p, r) ==
  /\ Len(p) \in Nat /\ Len(r) \in Nat /\ Len(q) = Len(p) + Len(r)
  /\ \A i \in 1..Len(p) : q[i] = p[i]
  /\ \A i \in 1..Len(r) : q[Len(p) + i] = r[i]
  /\ \A i \in 1..Len(q) : i \notin 1..Len(p) => i - Len(p) \in 1..Len(r)
                                             /\ q[i] = r[i - Len(p)]

\* q is p without its first block.
IsTail(q, p) ==
  /\ Len(p) \in Nat \ {0} /\ Len(q) = Len(p) - 1
  /\ \A i \in 1..Len(q) : i + 1 \in 1..Len(p) /\ q[i] = p[i + 1]
  /\ Len(p) = 1 => q = <<>>

LEMMA AppendedBlock ==
  ASSUME NEW p, NEW q, NEW r, IsAppended(q, p, r), NEW i \in 1..Len(q)
  PROVE  \/ i \in 1..Len(p) /\ q[i] = p[i]
         \/ i \notin 1..Len(p) /\ \E j \in 1..Len(r) : i = Len(p) + j /\ q[i] = r[j]
<1>1. CASE i \in 1..Len(p)
  BY <1>1 DEF IsAppended
<1>2. CASE i \notin 1..Len(p)
  <2>1. i - Len(p) \in 1..Len(r) /\ q[i] = r[i - Len(p)] /\ Len(p) \in Nat /\ Len(r) \in Nat
        /\ Len(q) = Len(p) + Len(r)
    BY <1>2 DEF IsAppended
  <2>2. i = Len(p) + (i - Len(p))
    BY <2>1
  <2> QED
    BY <1>2, <2>1, <2>2
<1> QED
  BY <1>1, <1>2

LEMMA Lengths ==
  ASSUME Base, NEW s \in Sockets
  PROVE  /\ up[s] \in Seq(AnyBlock) /\ Len(up[s]) \in Nat /\ (up[s] = <<>> <=> Len(up[s]) = 0)
         /\ down[s] \in Seq(AnyBlock) /\ Len(down[s]) \in Nat
         /\ (down[s] = <<>> <=> Len(down[s]) = 0)
<1>1. up[s] \in Seq(AnyBlock) /\ down[s] \in Seq(AnyBlock)
  BY TypeParts DEF Base
<1> QED
  BY <1>1, LenProperties, EmptySeq

LEMMA Appending ==
  ASSUME NEW S, NEW p \in Seq(S), NEW r \in Seq(S)
  PROVE  IsAppended(p \o r, p, r)
<1>1. /\ p \o r \in Seq(S) /\ Len(p) \in Nat /\ Len(r) \in Nat
      /\ Len(p \o r) = Len(p) + Len(r)
      /\ \A i \in 1..Len(p) : (p \o r)[i] = p[i]
      /\ \A i \in 1..Len(r) : (p \o r)[Len(p) + i] = r[i]
      /\ \A i \in 1..Len(p \o r) : i \notin 1..Len(p) => i - Len(p) \in 1..Len(r)
  BY Sends
<1> DEFINE q == p \o r
<1> HIDE DEF q
<1>2. ASSUME NEW i \in 1..Len(q), i \notin 1..Len(p)
      PROVE  i - Len(p) \in 1..Len(r) /\ q[i] = r[i - Len(p)]
  <2>1. i - Len(p) \in 1..Len(r)
    BY <1>1, <1>2 DEF q
  <2>2. q[Len(p) + (i - Len(p))] = r[i - Len(p)] /\ Len(p) + (i - Len(p)) = i
    BY <1>1, <2>1 DEF q
  <2> QED
    BY <2>1, <2>2
<1>3. IsAppended(q, p, r)
  BY <1>1, <1>2 DEF IsAppended, q
<1> QED
  BY <1>3 DEF q

LEMMA Telling ==
  ASSUME Base, NEW types \in Seq(Types), Tells(types), ac.sock \in Sockets
  PROVE  /\ IsAppended(up'[ac.sock], up[ac.sock], Blocks(types))
         /\ \A t \in Sockets : t # ac.sock => up'[t] = up[t]
         /\ Len(Blocks(types)) = Len(types) /\ Len(types) \in Nat
         /\ \A i \in 1..Len(types) :
              /\ Blocks(types)[i].is = types[i] /\ Blocks(types)[i].of = ac.req
              /\ Blocks(types)[i].kind = ac.kind
<1>1. /\ Blocks(types) \in Seq(AnyBlock) /\ Len(Blocks(types)) = Len(types)
      /\ \A i \in 1..Len(types) :
              /\ Blocks(types)[i].is = types[i] /\ Blocks(types)[i].of = ac.req
              /\ Blocks(types)[i].kind = ac.kind
  BY BlocksType DEF Base
<1>2. up \in [Sockets -> Seq(AnyBlock)]
  BY TypeParts DEF Base
<1>3. up'[ac.sock] = up[ac.sock] \o Blocks(types) /\ \A t \in Sockets : t # ac.sock => up'[t] = up[t]
  BY <1>2 DEF Tells
<1>4. IsAppended(up[ac.sock] \o Blocks(types), up[ac.sock], Blocks(types))
  BY <1>1, <1>2, Appending
<1> QED
  BY <1>1, <1>3, <1>4, LenProperties

LEMMA Beginning ==
  ASSUME Base, Begins, ac.sock \in Sockets
  PROVE  /\ Len(up'[ac.sock]) = Len(up[ac.sock]) + 1 /\ Len(up[ac.sock]) \in Nat
         /\ \A i \in 1..Len(up[ac.sock]) : up'[ac.sock][i] = up[ac.sock][i]
         /\ up'[ac.sock][Len(up[ac.sock]) + 1] = BeginBlock
         /\ \A t \in Sockets : t # ac.sock => up'[t] = up[t]
<1>1. up \in [Sockets -> Seq(AnyBlock)] /\ BeginBlock \in AnyBlock
  BY TypeParts, BeginBlockType DEF Base
<1>2. /\ up'[ac.sock] = up[ac.sock] \o <<BeginBlock>>
      /\ \A t \in Sockets : t # ac.sock => up'[t] = up[t]
  BY <1>1 DEF Begins
<1>3. <<BeginBlock>> \in Seq(AnyBlock) /\ Len(<<BeginBlock>>) = 1 /\ <<BeginBlock>>[1] = BeginBlock
  BY <1>1
<1>4. IsAppended(up[ac.sock] \o <<BeginBlock>>, up[ac.sock], <<BeginBlock>>)
  BY <1>1, <1>3, Appending
<1> QED
  BY <1>2, <1>3, <1>4 DEF IsAppended

LEMMA Hearing ==
  ASSUME Base, NEW types, Hears(types), ac.sock \in Sockets
  PROVE  /\ IsTail(down'[ac.sock], down[ac.sock]) /\ down[ac.sock][1].is \in types
         /\ \A t \in Sockets : t # ac.sock => down'[t] = down[t]
         /\ Received = down[ac.sock][1] /\ down[ac.sock] # <<>>
<1>1. down \in [Sockets -> Seq(AnyBlock)] /\ down[ac.sock] # <<>>
  BY TypeParts DEF Base, Hears
<1>2. /\ down'[ac.sock] = Tail(down[ac.sock])
      /\ \A t \in Sockets : t # ac.sock => down'[t] = down[t]
  BY <1>1 DEF Hears
<1>3. IsTail(Tail(down[ac.sock]), down[ac.sock]) /\ Head(down[ac.sock]) = down[ac.sock][1]
  BY <1>1, Tails DEF IsTail
<1> QED
  BY <1>1, <1>2, <1>3 DEF Hears, Received

LEMMA Taking ==
  ASSUME Base, NEW w \in Workers, NEW type, Takes(w, type)
  PROVE  LET s == wk[w].sock
         IN  /\ s \in Sockets /\ IsTail(up'[s], up[s]) /\ up[s][1].is = type
             /\ \A t \in Sockets : t # s => up'[t] = up[t]
<1> DEFINE s == wk[w].sock
<1>1. s \in Sockets /\ up \in [Sockets -> Seq(AnyBlock)] /\ up[s] # <<>>
  BY TypeParts DEF Base, Takes
<1>2. up'[s] = Tail(up[s]) /\ \A t \in Sockets : t # s => up'[t] = up[t]
  BY <1>1 DEF Takes
<1>3. IsTail(Tail(up[s]), up[s])
  BY <1>1, Tails DEF IsTail
<1> QED
  BY <1>1, <1>2, <1>3 DEF Takes

LEMMA Saying ==
  ASSUME Base, NEW w \in Workers, NEW types, Says(w, types)
  PROVE  LET s == wk[w].sock
         IN  /\ s \in Sockets /\ IsAppended(down'[s], down[s], Answer(w, types))
             /\ \A t \in Sockets : t # s => down'[t] = down[t]
             /\ Len(Answer(w, types)) = Len(types) /\ types \in Seq(Types) /\ Len(types) \in Nat
             /\ \A i \in 1..Len(types) :
                  Answer(w, types)[i].is = types[i] /\ Answer(w, types)[i].of = wk[w].req
<1> DEFINE s == wk[w].sock
<1>1. s \in Sockets /\ down \in [Sockets -> Seq(AnyBlock)] /\ types \in Seq(Types)
  BY TypeParts DEF Base, Says
<1>2. down'[s] = down[s] \o Answer(w, types) /\ \A t \in Sockets : t # s => down'[t] = down[t]
  BY <1>1 DEF Says
<1>3. /\ Answer(w, types) \in Seq(AnyBlock) /\ Len(Answer(w, types)) = Len(types)
      /\ \A i \in 1..Len(types) :
           Answer(w, types)[i].is = types[i] /\ Answer(w, types)[i].of = wk[w].req
  BY <1>1, AnswerType
<1>4. IsAppended(down[s] \o Answer(w, types), down[s], Answer(w, types))
  BY <1>1, <1>3, Appending
<1> QED
  BY <1>1, <1>2, <1>3, <1>4, LenProperties

\* The reply to the begin of a request.
LEMMA Replying ==
  ASSUME Base, NEW w \in Workers, Replies(w)
  PROVE  LET s == wk[w].sock
         IN  /\ s \in Sockets
             /\ Len(down'[s]) = Len(down[s]) + 1 /\ Len(down[s]) \in Nat
             /\ \A i \in 1..Len(down[s]) : down'[s][i] = down[s][i]
             /\ LET b == down'[s][Len(down[s]) + 1]
                IN  /\ b.is = "BeginRequest" /\ b.of = up[s][1].of
                    /\ MovesTo(w, IF b.reply = 1 THEN "headers" ELSE "exited")
             /\ \A t \in Sockets : t # s => down'[t] = down[t]
<1> DEFINE s == wk[w].sock
<1>1. s \in Sockets /\ down \in [Sockets -> Seq(AnyBlock)]
  BY TypeParts DEF Base, Replies, Takes
<1>2. PICK b \in AnyBlock :
        /\ b.is = "BeginRequest" /\ b.of = up[s][1].of
        /\ down' = [down EXCEPT ![s] = @ \o <<b>>]
        /\ MovesTo(w, IF b.reply = 1 THEN "headers" ELSE "exited")
  BY DEF Replies
<1>3. down'[s] = down[s] \o <<b>> /\ \A t \in Sockets : t # s => down'[t] = down[t]
  BY <1>1, <1>2
<1>4. <<b>> \in Seq(AnyBlock) /\ Len(<<b>>) = 1 /\ <<b>>[1] = b
  BY <1>2
<1>5. IsAppended(down[s] \o <<b>>, down[s], <<b>>)
  BY <1>1, <1>4, Appending
<1>6. Len(down'[s]) = Len(down[s]) + 1 /\ Len(down[s]) \in Nat
      /\ (\A i \in 1..Len(down[s]) : down'[s][i] = down[s][i])
      /\ down'[s][Len(down[s]) + 1] = b
  BY <1>3, <1>4, <1>5, SMTT(30) DEF IsAppended
<1> QED
  BY <1>1, <1>2, <1>3, <1>6

\* q is p without its first n blocks.
IsSuffix(q, p, n) ==
  /\ Len(q) = Len(p) - n
  /\ \A i \in 1..Len(q) : i + n \in 1..Len(p) /\ q[i] = p[i + n]

LEMMA OpeningTypes ==
  ASSUME NEW types \in Opening
  PROVE  /\ types \in Seq(Types) /\ Len(types) \in Nat \ {0} /\ types[1] = "Headers"
         /\ \A i \in 1..Len(types) : types[i] # "BeginRequest"
         /\ \A i \in 1..Len(types) : types[i] = "Headers" => i = 1
<1>1. CASE types = <<"Headers">>
  BY <1>1, TypesSeq
<1>2. CASE types = <<"Headers", "Document", "EndRequest">>
  BY <1>2, TypesSeq
<1> QED
  BY <1>1, <1>2 DEF Opening

\* A worker only ever shortens the stream it reads.
LEMMA Shrinking ==
  ASSUME Base, NEW w \in Workers, WorkerActs(w)
  PROVE  /\ UNCHANGED <<ac, shut, answer, spoilt>>
         /\ wk[w].pc # "free" /\ wk[w].sock \in Sockets
         /\ \A t \in Sockets : t # wk[w].sock => up'[t] = up[t]
         /\ \E n \in 0..Len(up[wk[w].sock]) : IsSuffix(up'[wk[w].sock], up[wk[w].sock], n)
<1> DEFINE s == wk[w].sock
<1>1. UNCHANGED <<ac, shut, answer, spoilt>> /\ wk[w].pc # "free"
  BY DEF WorkerActs, Replies, Starts, Reads, PassesOn, Speaks, Finishes, GetsConfused, Exits,
     Releases, Page
<1>2. s \in Sockets /\ Len(up[s]) \in Nat
  BY <1>1, WorkerFields, Lengths
<1>3. ASSUME UNCHANGED up
      PROVE  /\ \A t \in Sockets : t # s => up'[t] = up[t]
             /\ \E n \in 0..Len(up[s]) : IsSuffix(up'[s], up[s], n)
  <2>1. IsSuffix(up'[s], up[s], 0) /\ 0 \in 0..Len(up[s])
    BY <1>2, <1>3 DEF IsSuffix
  <2> QED
    BY <1>3, <2>1
<1>4. ASSUME NEW type, Takes(w, type)
      PROVE  /\ \A t \in Sockets : t # s => up'[t] = up[t]
             /\ \E n \in 0..Len(up[s]) : IsSuffix(up'[s], up[s], n)
  <2>1. IsTail(up'[s], up[s]) /\ \A t \in Sockets : t # s => up'[t] = up[t]
    BY <1>4, Taking
  <2>2. IsSuffix(up'[s], up[s], 1) /\ 1 \in 0..Len(up[s])
    BY <2>1 DEF IsTail, IsSuffix
  <2> QED
    BY <2>1, <2>2
<1>5. CASE Replies(w) \/ Starts(w) \/ Reads(w)
  BY <1>1, <1>2, <1>4, <1>5 DEF Replies, Starts, Reads
<1>6. CASE PassesOn(w) \/ GetsConfused(w) \/ Exits(w) \/ Releases(w)
           \/ \E from, types, to : Speaks(w, from, types, to)
  BY <1>1, <1>2, <1>3, <1>6 DEF PassesOn, GetsConfused, Exits, Releases, Speaks
<1>7. CASE Finishes(w)
  BY <1>1, <1>2, <1>7 DEF Finishes, IsSuffix
<1> QED
  BY <1>5, <1>6, <1>7 DEF WorkerActs

\* What a worker says, and where it is then.
LEMMA Speaking ==
  ASSUME Base, NEW w \in Workers, WorkerActs(w)
  PROVE  \/ UNCHANGED down
         \/ Replies(w)
         \/ \E types \in Seq(Types) :
              /\ Says(w, types) /\ wk[w].pc \in {"ask", "respond", "finish"}
              /\ \A i \in 1..Len(types) : types[i] # "BeginRequest"
              /\ \A i \in 1..Len(types) : types[i] = "ResponseHeader" => wk[w].pc = "respond"
<1>1. CASE Speaks(w, "ask", <<"RequirePostData">>, "aside")
  <2>1. \A i \in 1..Len(<<"RequirePostData">>) : <<"RequirePostData">>[i] = "RequirePostData"
    OBVIOUS
  <2> QED
    BY <1>1, <2>1, AnswersSeq DEF Speaks
<1>2. CASE Speaks(w, "respond", <<"ResponseHeader", "Document">>, "finish")
  <2>1. \A i \in 1..Len(<<"ResponseHeader", "Document">>) :
          <<"ResponseHeader", "Document">>[i] \in {"ResponseHeader", "Document"}
    OBVIOUS
  <2> QED
    BY <1>2, <2>1, AnswersSeq DEF Speaks
<1>3. CASE Finishes(w)
  <2>1. \A i \in 1..Len(<<"EndRequest">>) : <<"EndRequest">>[i] = "EndRequest"
    OBVIOUS
  <2> QED
    BY <1>3, <2>1, AnswersSeq DEF Finishes
<1>4. CASE Starts(w) \/ Reads(w) \/ PassesOn(w) \/ GetsConfused(w) \/ Exits(w) \/ Releases(w)
  BY <1>4 DEF Starts, Reads, PassesOn, GetsConfused, Exits, Releases
<1> QED
  BY <1>1, <1>2, <1>3, <1>4 DEF WorkerActs

-----------------------------------------------------------------------------
(* The begin of a request is the last block of a stream, its reply too, and *)
(* the two sides of a connection agree on the request from then on.         *)

\* The worker has begun the request and hears nothing more.
Ready ==
  /\ up[ac.sock] = <<>>
  /\ place[ac.sock] \in {"handed", "closed"}
  /\ \A w \in Workers : wk[w].sock = ac.sock =>
       (wk[w].pc = "headers" /\ wk[w].req = ac.req) \/ wk[w].pc = "exited"

BeginsLast ==
  \A s \in Sockets : \A i \in 1..Len(up[s]) : up[s][i].is = "BeginRequest" =>
    i = Len(up[s]) /\ (s = ac.sock => ac.pc = "reply" /\ up[s][i].of = ac.req)
ReplyLast ==
  /\ ac.sock # NoSocket =>
       \A i \in 1..Len(down[ac.sock]) : down[ac.sock][i].is = "BeginRequest" =>
         /\ ac.pc = "reply" /\ i = Len(down[ac.sock]) /\ down[ac.sock][i].of = ac.req
         /\ Ready
  /\ ac.pc = "headers" => Ready /\ down[ac.sock] = <<>>

\* Without a crash the worker that answered the begin is there.
GoodReplyComes ==
  ac.pc = "reply" /\ \E i \in 1..Len(down[ac.sock]) :
    down[ac.sock][i].is = "BeginRequest" /\ down[ac.sock][i].reply = 1
Alive ==
  crashes = 0 /\ (ac.pc = "headers" \/ GoodReplyComes) =>
    /\ place[ac.sock] = "handed"
    /\ \A w \in Workers : wk[w].sock = ac.sock => wk[w].pc = "headers"
Own ==
  Talking =>
    /\ \A i \in 1..Len(down[ac.sock]) : down[ac.sock][i].of = ac.req
    /\ \A w \in Workers : wk[w].sock = ac.sock =>
         wk[w].pc \in {"next", "exited", "confused"} \/ wk[w].req = ac.req

Agreement == BeginsLast /\ ReplyLast /\ Alive /\ Own

LEMMA BeginsLastStep ==
  ASSUME Base, BeginsLast, ReplyLast, [Next]_vars
  PROVE  BeginsLast'
<1>0. ac.sock \in Sockets \cup {NoSocket} /\ NoSocket \notin Sockets
      /\ (ac.pc \notin {"free", "acquire"} => ac.sock \in Sockets)
  BY Fields, Bounds DEF Base, Composed
<1>a. ASSUME UNCHANGED <<up, ac>> PROVE BeginsLast'
  BY <1>a DEF BeginsLast
<1>b. ASSUME UNCHANGED up, ac'.sock = ac.sock, ac.pc # "reply" PROVE BeginsLast'
  BY <1>b DEF BeginsLast
<1>c. ASSUME NEW r, IsAppended(up'[ac.sock], up[ac.sock], r), ac.sock \in Sockets,
             \A t \in Sockets : t # ac.sock => up'[t] = up[t],
             ac.pc # "reply", ac'.sock = ac.sock,
             \A i \in 1..Len(r) : r[i].is # "BeginRequest"
      PROVE  BeginsLast'
  <2>1. \A i \in 1..Len(up'[ac.sock]) : up'[ac.sock][i].is # "BeginRequest"
    BY <1>c, ZenonT(40) DEF BeginsLast, IsAppended
  <2>2. \A t \in Sockets : t # ac.sock => up'[t] = up[t]
    BY <1>c
  <2> QED
    BY <1>c, <2>1, <2>2 DEF BeginsLast
<1>d. ASSUME NEW w \in Workers, WorkerActs(w) PROVE BeginsLast'
  <2> DEFINE s == wk[w].sock
  <2>1. /\ s \in Sockets /\ UNCHANGED ac /\ Len(up[s]) \in Nat
        /\ \A t \in Sockets : t # s => up'[t] = up[t]
    BY <1>d, Shrinking, Lengths
  <2>2. PICK n \in 0..Len(up[s]) : IsSuffix(up'[s], up[s], n)
    BY <1>d, Shrinking
  <2>3. ASSUME NEW i \in 1..Len(up'[s]), up'[s][i].is = "BeginRequest"
        PROVE  i = Len(up'[s]) /\ (s = ac.sock => ac.pc = "reply" /\ up'[s][i].of = ac.req)
    <3>1. i + n \in 1..Len(up[s]) /\ up'[s][i] = up[s][i + n] /\ Len(up'[s]) = Len(up[s]) - n
      BY <2>2 DEF IsSuffix
    <3>2. i + n = Len(up[s]) /\ (s = ac.sock => ac.pc = "reply" /\ up[s][i + n].of = ac.req)
      BY <2>1, <2>3, <3>1 DEF BeginsLast
    <3> QED
      BY <2>1, <3>1, <3>2
  <2> QED
    BY <2>1, <2>3 DEF BeginsLast
<1>1. CASE UNCHANGED vars
  BY <1>1, <1>a DEF vars
<1>2. CASE \E kind \in Kinds : NewRequest(kind)
  BY <1>2, <1>b, NewRequestEffect DEF Base
<1>3. CASE Reuses
  BY <1>3, <1>b DEF Reuses, GoesOn
<1>4. CASE Opens
  <2>1. /\ Fresh \in Sockets /\ up' = [up EXCEPT ![Fresh] = <<>>] /\ ac'.sock = Fresh
        /\ up \in [Sockets -> Seq(AnyBlock)] /\ Fresh # ac.sock
    BY <1>0, <1>4, TypeParts DEF Opens, ConnectsTo, Connect, Base, Held, Unused
  <2>2. up'[Fresh] = <<>> /\ \A t \in Sockets : t # Fresh => up'[t] = up[t]
    BY <2>1
  <2>3. Len(up'[Fresh]) = 0
    BY <2>2
  <2> QED
    BY <2>1, <2>2, <2>3 DEF BeginsLast
<1>5. CASE GivesUp
  BY <1>0, <1>5 DEF GivesUp, ClosesSocket, BeginsLast
<1>6. CASE Begins
  <2>1. /\ Len(up'[ac.sock]) = Len(up[ac.sock]) + 1 /\ Len(up[ac.sock]) \in Nat
        /\ \A i \in 1..Len(up[ac.sock]) : up'[ac.sock][i] = up[ac.sock][i]
        /\ up'[ac.sock][Len(up[ac.sock]) + 1] = BeginBlock
        /\ \A t \in Sockets : t # ac.sock => up'[t] = up[t]
    BY <1>0, <1>6, Beginning DEF Begins
  <2>2. /\ ac.pc = "begin" /\ ac'.pc = "reply" /\ ac'.sock = ac.sock /\ ac'.req = ac.req
        /\ BeginBlock.of = ac.req /\ ac.sock \in Sockets
    BY <1>0, <1>6, BeginBlockType DEF Begins, GoesOn, Base
  <2>3. \A i \in 1..Len(up[ac.sock]) : up[ac.sock][i].is # "BeginRequest"
    BY <2>2 DEF BeginsLast
  <2> QED
    BY <2>1, <2>2, <2>3, SMTT(30) DEF BeginsLast
<1>7. CASE Agrees
  <2>1. /\ ac.pc = "reply" /\ ac'.sock = ac.sock /\ UNCHANGED up /\ ac.sock \in Sockets
        /\ down[ac.sock][1].is = "BeginRequest" /\ 1 \in 1..Len(down[ac.sock])
    BY <1>0, <1>7, Hearing DEF Agrees, GoesOn, IsTail
  <2>2. up[ac.sock] = <<>>
    BY <1>0, <2>1 DEF ReplyLast, Ready
  <2> QED
    BY <2>1, <2>2, Lengths DEF BeginsLast
<1>8. CASE Leads
  <2>1. PICK types \in Opening : Tells(types)
    BY <1>8 DEF Leads
  <2>2. ac.sock \in Sockets /\ ac.pc # "reply" /\ ac'.sock = ac.sock
    BY <1>0, <1>8 DEF Leads, GoesOn
  <2>3. types \in Seq(Types) /\ \A i \in 1..Len(types) : types[i] # "BeginRequest"
    BY <2>1, OpeningTypes
  <2>4. /\ IsAppended(up'[ac.sock], up[ac.sock], Blocks(types))
        /\ \A t \in Sockets : t # ac.sock => up'[t] = up[t]
        /\ \A i \in 1..Len(Blocks(types)) : Blocks(types)[i].is # "BeginRequest"
    BY <2>1, <2>2, <2>3, Telling
  <2> QED
    BY <1>c, <2>2, <2>4
<1>9. CASE Converses
  <2>1. ac.sock \in Sockets /\ ac.pc # "reply" /\ ac'.sock = ac.sock
    BY <1>0, <1>9 DEF Converses, GoesOn
  <2>2. CASE UNCHANGED up
    BY <1>b, <2>1, <2>2
  <2>3. ASSUME NEW types \in Seq({"Document", "PostData", "EndRequest"}), Tells(types)
        PROVE  BeginsLast'
    <3>1. types \in Seq(Types) /\ \A i \in 1..Len(types) : types[i] # "BeginRequest"
      <4>1. \A i \in 1..Len(types) : types[i] \in {"Document", "PostData", "EndRequest"}
        BY <2>3, ElementOfSeq
      <4> QED
        BY <2>3, <4>1 DEF Tells
    <3>2. /\ IsAppended(up'[ac.sock], up[ac.sock], Blocks(types))
          /\ \A t \in Sockets : t # ac.sock => up'[t] = up[t]
          /\ \A i \in 1..Len(Blocks(types)) : Blocks(types)[i].is # "BeginRequest"
      BY <2>1, <2>3, <3>1, Telling
    <3> QED
      BY <1>c, <2>1, <3>2
  <2> QED
    BY <1>9, <2>2, <2>3 DEF Converses
<1>10. CASE Parts
  BY <1>10, <1>b DEF Parts, IsFree
<1>11. CASE \E s \in Sockets : SetsPlace(s)
  BY <1>11, <1>a DEF SetsPlace
<1>12. CASE \E s \in Sockets, w \in Workers : Hands(s, w)
  BY <1>12, <1>a DEF Hands
<1> QED
  BY <1>1, <1>2, <1>3, <1>4, <1>5, <1>6, <1>7, <1>8, <1>9, <1>10, <1>11, <1>12, <1>d,
     Cases, ConnectorCases

\* The blocks a worker changes are those of its own socket, and it is the only
\* worker there.
LEMMA Apart ==
  ASSUME Base, NEW w \in Workers, WorkerActs(w), NEW t \in Sockets, t # wk[w].sock
  PROVE  /\ up'[t] = up[t] /\ down'[t] = down[t] /\ place'[t] = place[t]
         /\ \A v \in Workers : (wk'[v].sock = t <=> wk[v].sock = t)
                               /\ (wk[v].sock = t => wk'[v] = wk[v])
<1>1. up'[t] = up[t]
  BY Shrinking
<1>2. down'[t] = down[t]
  <2>1. CASE Replies(w)
    BY <2>1, Replying
  <2>2. CASE \E types \in Seq(Types) : Says(w, types)
    BY <2>2, Saying
  <2> QED
    BY <2>1, <2>2, Speaking
<1>3. place'[t] = place[t]
  <2>1. place \in [Sockets -> {"watched", "waiting", "handed", "closed"}]
    BY TypeParts DEF Base
  <2> QED
    BY <2>1 DEF WorkerActs, Replies, Starts, Reads, PassesOn, Speaks, Finishes, GetsConfused,
       Exits, Releases
<1>4. /\ wk'[w].sock = wk[w].sock \/ wk'[w].sock = NoSocket
      /\ \A v \in Workers : v # w => wk'[v] = wk[v]
  BY DEF WorkerActs, Replies, Starts, Reads, PassesOn, Speaks, Finishes, GetsConfused, Exits,
     Releases, MovesTo, Frees
<1> QED
  BY <1>1, <1>2, <1>3, <1>4, Bounds

\* Nothing happens on a socket that is ready but the end of its worker.
LEMMA ReadyKept ==
  ASSUME Base, Ready, ac.sock \in Sockets, NEW w \in Workers, WorkerActs(w)
  PROVE  /\ Ready' /\ down'[ac.sock] = down[ac.sock]
         /\ wk[w].sock = ac.sock => Exits(w) \/ wk[w].pc = "exited"
<1>0. UNCHANGED ac
  BY Shrinking
<1>1. CASE wk[w].sock # ac.sock
  BY <1>0, <1>1, Apart DEF Ready
<1>2. CASE wk[w].sock = ac.sock
  <2>1. up[ac.sock] = <<>> /\ ((wk[w].pc = "headers" /\ wk[w].req = ac.req) \/ wk[w].pc = "exited")
    BY <1>2 DEF Ready
  <2>2. Exits(w) \/ (Releases(w) /\ wk[w].pc = "exited")
    <3>1. ~Starts(w) /\ ~Reads(w) /\ ~PassesOn(w) /\ ~Replies(w)
      BY <1>2, <2>1 DEF Starts, Reads, PassesOn, Replies, Takes
    <3>2. ~GetsConfused(w) /\ ~Finishes(w)
      BY <1>2, <2>1 DEF GetsConfused, Leaves, Finishes
    <3>3. \A from, types, to : from \in {"ask", "respond"} => ~Speaks(w, from, types, to)
      BY <2>1 DEF Speaks
    <3>4. Releases(w) => wk[w].pc = "exited"
      BY <2>1 DEF Releases
    <3> QED
      BY <3>1, <3>2, <3>3, <3>4 DEF WorkerActs
  <2>3. CASE Exits(w)
    <3>1. /\ UNCHANGED <<up, down, place>> /\ wk'[w].pc = "exited"
          /\ \A v \in Workers : v # w => wk'[v] = wk[v]
      BY <2>3 DEF Exits, MovesTo
    <3> QED
      BY <1>0, <2>3, <3>1 DEF Ready
  <2>4. CASE Releases(w) /\ wk[w].pc = "exited"
    <3>1. /\ UNCHANGED <<up, down>> /\ wk'[w].sock = NoSocket
          /\ \A v \in Workers : v # w => wk'[v] = wk[v]
          /\ place'[ac.sock] = "closed"
      BY <1>2, <2>4, TypeParts DEF Releases, Frees, Base
    <3> QED
      BY <1>0, <2>4, <3>1, Bounds DEF Ready
  <2> QED
    BY <2>2, <2>3, <2>4
<1> QED
  BY <1>1, <1>2

LEMMA ReplyLastWorker ==
  ASSUME Base, Base', BeginsLast, ReplyLast, NEW w \in Workers, WorkerActs(w)
  PROVE  ReplyLast'
<1> DEFINE s == wk[w].sock
<1>0. UNCHANGED ac
  BY Shrinking
<1>1. CASE ac.sock = NoSocket
  BY <1>0, <1>1 DEF ReplyLast, Composed, Base
<1>2. CASE ac.sock \in Sockets /\ Ready
  BY <1>0, <1>2, ReadyKept DEF ReplyLast
<1>3. CASE ac.sock \in Sockets /\ ~Ready
  <2>1. ac.pc # "headers" /\ \A i \in 1..Len(down[ac.sock]) : down[ac.sock][i].is # "BeginRequest"
    BY <1>3, Bounds DEF ReplyLast
  <2>2. CASE s # ac.sock
    <3>1. down'[ac.sock] = down[ac.sock]
      BY <1>3, <2>2, Apart
    <3> QED
      BY <1>0, <2>1, <3>1 DEF ReplyLast
  <2>3. CASE s = ac.sock /\ Replies(w)
    <3>1. /\ wk[w].pc = "next" /\ IsTail(up'[s], up[s]) /\ up[s][1].is = "BeginRequest"
          /\ wk'[w].req = up[s][1].of /\ UNCHANGED place
          /\ wk'[w].pc \in {"headers", "exited"}
      <4>1. Takes(w, "BeginRequest") /\ wk[w].pc = "next" /\ UNCHANGED place
            /\ wk'[w].req = up[s][1].of
        BY <2>3 DEF Replies
      <4>2. IsTail(up'[s], up[s]) /\ up[s][1].is = "BeginRequest"
        BY <4>1, Taking
      <4>3. wk'[w].pc \in {"headers", "exited"}
        BY <2>3 DEF Replies, MovesTo
      <4> QED
        BY <4>1, <4>2, <4>3
    <3>2. Len(up[s]) = 1 /\ ac.pc = "reply" /\ up[s][1].of = ac.req
      <4>1. 1 \in 1..Len(up[s]) /\ s \in Sockets
        BY <1>3, <2>3, <3>1 DEF IsTail
      <4> QED
        BY <2>3, <3>1, <4>1 DEF BeginsLast
    <3>3. up'[s] = <<>>
      BY <3>1, <3>2 DEF IsTail
    <3>4. place[s] = "handed" /\ \A v \in Workers : wk'[v].sock = s => v = w
      BY <1>3, <2>3, <3>1, Shrinking DEF Base, Held, Replies, MovesTo
    <3>5. Ready'
      BY <1>0, <2>3, <3>1, <3>2, <3>3, <3>4 DEF Ready
    <3>6. /\ Len(down'[s]) = Len(down[s]) + 1 /\ Len(down[s]) \in Nat
          /\ \A i \in 1..Len(down[s]) : down'[s][i] = down[s][i]
          /\ down'[s][Len(down[s]) + 1].of = ac.req
      BY <2>3, <3>2, Replying
    <3>7. \A i \in 1..Len(down'[s]) : down'[s][i].is = "BeginRequest" =>
            i = Len(down'[s]) /\ down'[s][i].of = ac.req
      BY <2>1, <2>3, <3>6, SMTT(30)
    <3> QED
      BY <1>0, <2>1, <2>3, <3>2, <3>5, <3>7 DEF ReplyLast
  <2>4. CASE UNCHANGED down
    BY <1>0, <2>1, <2>4 DEF ReplyLast
  <2>5. ASSUME s = ac.sock, NEW types \in Seq(Types), Says(w, types),
               \A i \in 1..Len(types) : types[i] # "BeginRequest"
        PROVE  ReplyLast'
    <3>1. /\ IsAppended(down'[s], down[s], Answer(w, types))
          /\ \A i \in 1..Len(Answer(w, types)) : Answer(w, types)[i].is # "BeginRequest"
      BY <2>5, Saying
    <3>2. \A i \in 1..Len(down'[s]) : down'[s][i].is # "BeginRequest"
      BY <2>1, <2>5, <3>1, ZenonT(40) DEF IsAppended
    <3> QED
      BY <1>0, <2>1, <2>5, <3>2 DEF ReplyLast
  <2> QED
    BY <2>2, <2>3, <2>4, <2>5, Speaking
<1> QED
  BY <1>1, <1>2, <1>3, Fields DEF Base

LEMMA ReplyLastStep ==
  ASSUME Base, Base', BeginsLast, ReplyLast, [Next]_vars
  PROVE  ReplyLast'
<1>0. ac.sock \in Sockets \cup {NoSocket} /\ NoSocket \notin Sockets
      /\ (ac.pc \notin {"free", "acquire"} => ac.sock \in Sockets)
  BY Fields, Bounds DEF Base, Composed
<1>a. ASSUME ac.pc # "reply", ac'.sock = ac.sock, ac'.pc # "headers",
             ac.sock \in Sockets => \/ down'[ac.sock] = down[ac.sock]
                                    \/ IsTail(down'[ac.sock], down[ac.sock])
      PROVE  ReplyLast'
  <2>1. ac.sock # NoSocket => \A i \in 1..Len(down[ac.sock]) : down[ac.sock][i].is # "BeginRequest"
    BY <1>a DEF ReplyLast
  <2>2. ac.sock # NoSocket => \A i \in 1..Len(down'[ac.sock]) : down'[ac.sock][i].is # "BeginRequest"
    BY <1>0, <1>a, <2>1 DEF IsTail
  <2> QED
    BY <1>a, <2>2 DEF ReplyLast
<1>1. CASE UNCHANGED vars
  BY <1>1 DEF vars, ReplyLast, Ready
<1>2. CASE \E kind \in Kinds : NewRequest(kind)
  BY <1>2, <1>a, NewRequestEffect DEF Base
<1>3. CASE Reuses
  BY <1>3, <1>a DEF Reuses, GoesOn
<1>4. CASE Opens
  <2>1. /\ Fresh \in Sockets /\ ac'.sock = Fresh /\ ac'.pc = "begin" /\ down'[Fresh] = <<>>
    BY <1>4, TypeParts DEF Opens, ConnectsTo, Connect, Base
  <2> QED
    BY <2>1 DEF ReplyLast
<1>5. CASE GivesUp
  BY <1>0, <1>5 DEF GivesUp, ClosesSocket, ReplyLast
<1>6. CASE Begins
  BY <1>0, <1>6, <1>a DEF Begins, GoesOn
<1>7. CASE Agrees
  <2>1. /\ ac'.pc = "headers" /\ ac'.sock = ac.sock /\ ac'.req = ac.req
        /\ UNCHANGED <<up, place, wk>> /\ ac.sock \in Sockets
        /\ IsTail(down'[ac.sock], down[ac.sock])
        /\ down[ac.sock][1].is = "BeginRequest" /\ 1 \in 1..Len(down[ac.sock])
    BY <1>0, <1>7, Hearing, SMTT(30) DEF Agrees, GoesOn, IsTail
  <2>2. Len(down[ac.sock]) = 1 /\ Ready
    BY <1>0, <2>1 DEF ReplyLast
  <2>3. down'[ac.sock] = <<>> /\ Ready'
    BY <2>1, <2>2 DEF IsTail, Ready
  <2> QED
    BY <2>1, <2>3 DEF ReplyLast
<1>8. CASE Leads
  BY <1>8, <1>a DEF Leads, GoesOn
<1>9. CASE Converses
  <2>1. ac.pc # "reply" /\ ac'.sock = ac.sock /\ ac'.pc # "headers" /\ ac.sock \in Sockets
    BY <1>0, <1>9 DEF Converses, GoesOn
  <2>2. down'[ac.sock] = down[ac.sock] \/ IsTail(down'[ac.sock], down[ac.sock])
    BY <1>9, <2>1, Hearing DEF Converses
  <2> QED
    BY <1>a, <2>1, <2>2
<1>10. CASE Parts
  <2>1. ac.pc # "reply" /\ ac'.sock = ac.sock /\ ac'.pc # "headers" /\ ac.sock \in Sockets
    BY <1>0, <1>10 DEF Parts, IsFree
  <2>2. down'[ac.sock] = down[ac.sock] \/ IsTail(down'[ac.sock], down[ac.sock])
    BY <1>10, <2>1, Hearing DEF Parts
  <2> QED
    BY <1>a, <2>1, <2>2
<1>11. ASSUME NEW s \in Sockets, SetsPlace(s) PROVE ReplyLast'
  <2>1. /\ UNCHANGED <<ac, up, down, wk>> /\ place[s] = "watched"
        /\ \A t \in Sockets : t # s => place'[t] = place[t]
    BY <1>11, TypeParts DEF SetsPlace, Base
  <2>2. ac.sock \in Sockets /\ Ready => Ready'
    BY <2>1 DEF Ready
  <2> QED
    BY <1>0, <2>1, <2>2 DEF ReplyLast
<1>12. ASSUME NEW s \in Sockets, NEW w \in Workers, Hands(s, w) PROVE ReplyLast'
  <2>1. /\ UNCHANGED <<ac, up, down>> /\ place[s] \in {"watched", "waiting"}
        /\ \A t \in Sockets : t # s => place'[t] = place[t]
        /\ wk'[w].sock = s /\ \A v \in Workers : v # w => wk'[v] = wk[v]
    BY <1>12, TypeParts DEF Hands, Base
  <2>2. ac.sock \in Sockets /\ Ready => Ready'
    BY <2>1 DEF Ready
  <2> QED
    BY <1>0, <2>1, <2>2 DEF ReplyLast
<1>13. CASE \E w \in Workers : WorkerActs(w)
  BY <1>13, ReplyLastWorker
<1> QED
  BY <1>1, <1>2, <1>3, <1>4, <1>5, <1>6, <1>7, <1>8, <1>9, <1>10, <1>11, <1>12, <1>13,
     Cases, ConnectorCases

LEMMA AliveWorker ==
  ASSUME Base, Base', BeginsLast, ReplyLast, Alive, NEW w \in Workers, WorkerActs(w)
  PROVE  Alive'
<1> DEFINE s == wk[w].sock
           Awaited == ac.pc = "headers" \/ GoodReplyComes
<1>0. UNCHANGED ac
  BY Shrinking
<1>1. crashes \in Nat /\ crashes' \in Nat /\ crashes' >= crashes
  <2>1. crashes' = crashes \/ crashes' = crashes + 1
    BY DEF WorkerActs, Replies, Starts, Reads, PassesOn, Speaks, Finishes, GetsConfused, Exits,
       Releases
  <2> QED
    BY <2>1, TypeParts, Bounds DEF Base
<1>2. SUFFICES ASSUME crashes' = 0, Awaited', ac.sock \in Sockets
               PROVE  /\ place'[ac.sock] = "handed"
                      /\ \A v \in Workers : wk'[v].sock = ac.sock => wk'[v].pc = "headers"
  <2>1. Awaited => ac.sock \in Sockets
    BY Fields DEF Base, Composed, GoodReplyComes
  <2>2. Awaited' => ac.sock \in Sockets
    BY <1>0, Fields DEF Base, Composed, GoodReplyComes
  <2> QED
    BY <1>0, <2>2 DEF Alive
<1>3. crashes = 0
  BY <1>1, <1>2
<1>4. ASSUME Ready PROVE Awaited
  BY <1>0, <1>2, <1>4, ReadyKept DEF GoodReplyComes
<1>5. CASE Awaited
  <2>1. Ready /\ place[ac.sock] = "handed"
        /\ \A v \in Workers : wk[v].sock = ac.sock => wk[v].pc = "headers"
    BY <1>2, <1>3, <1>5, Bounds DEF Alive, ReplyLast, GoodReplyComes
  <2>2. CASE s # ac.sock
    BY <1>2, <2>1, <2>2, Apart
  <2>3. CASE s = ac.sock
    <3>1. Exits(w)
      BY <1>2, <2>1, <2>3, ReadyKept
    <3> QED
      BY <1>1, <1>2, <1>3, <2>3, <3>1, Bounds DEF Exits, Base, Held
  <2> QED
    BY <2>2, <2>3
<1>6. CASE ~Awaited
  <2>1. ~Ready
    BY <1>4, <1>6
  <2>2. ac.pc = "reply" /\ \A i \in 1..Len(down[ac.sock]) : down[ac.sock][i].is # "BeginRequest"
    BY <1>0, <1>2, <1>6, <2>1, Bounds DEF ReplyLast, GoodReplyComes
  <2>3. PICK i \in 1..Len(down'[ac.sock]) :
          down'[ac.sock][i].is = "BeginRequest" /\ down'[ac.sock][i].reply = 1
    BY <1>0, <1>2, <2>2 DEF GoodReplyComes
  <2>4. s = ac.sock
    BY <1>2, <2>2, <2>3, Apart
  <2>5. ASSUME NEW types \in Seq(Types), Says(w, types),
               \A j \in 1..Len(types) : types[j] # "BeginRequest"
        PROVE  FALSE
    <3>1. /\ IsAppended(down'[s], down[s], Answer(w, types))
          /\ \A j \in 1..Len(Answer(w, types)) : Answer(w, types)[j].is # "BeginRequest"
      BY <2>5, Saying
    <3>2. i \in 1..Len(down'[s]) /\ i \notin 1..Len(down[s])
      <4>1. i \in 1..Len(down[s]) => down'[s][i] = down[s][i]
        BY <3>1 DEF IsAppended
      <4> QED
        BY <2>2, <2>3, <2>4, <4>1
    <3>3. \E j \in 1..Len(Answer(w, types)) : down'[s][i] = Answer(w, types)[j]
      BY <3>1, <3>2 DEF IsAppended
    <3> QED
      BY <2>3, <2>4, <3>1, <3>3
  <2>6. Replies(w)
    BY <2>2, <2>3, <2>5, Speaking
  <2>7. /\ Len(down'[s]) = Len(down[s]) + 1 /\ Len(down[s]) \in Nat
        /\ \A j \in 1..Len(down[s]) : down'[s][j] = down[s][j]
        /\ MovesTo(w, IF down'[s][Len(down[s]) + 1].reply = 1 THEN "headers" ELSE "exited")
    BY <2>6, Replying
  <2>8. i = Len(down[s]) + 1
    BY <2>2, <2>3, <2>4, <2>7, SMTT(30)
  <2>9. wk'[w].pc = "headers" /\ \A v \in Workers : wk'[v].sock = s => v = w
    BY <1>2, <2>3, <2>4, <2>7, <2>8, Shrinking DEF MovesTo, Base, Held
  <2>10. place'[s] = "handed"
    BY <1>2, <2>4, <2>6, Shrinking, Bounds DEF Replies, Base, Held
  <2> QED
    BY <2>4, <2>9, <2>10
<1> QED
  BY <1>5, <1>6

LEMMA AliveStep ==
  ASSUME Base, Base', BeginsLast, ReplyLast, Alive, [Next]_vars
  PROVE  Alive'
<1>0. ac.sock \in Sockets \cup {NoSocket} /\ NoSocket \notin Sockets
      /\ (ac.pc \notin {"free", "acquire"} => ac.sock \in Sockets)
      /\ place \in [Sockets -> {"watched", "waiting", "handed", "closed"}]
  BY Fields, Bounds, TypeParts DEF Base, Composed
<1>a. ASSUME ac'.pc \notin {"headers", "reply"} PROVE Alive'
  BY <1>a DEF Alive, GoodReplyComes
<1>1. CASE UNCHANGED vars
  BY <1>1 DEF vars, Alive, GoodReplyComes
<1>2. CASE \E kind \in Kinds : NewRequest(kind)
  BY <1>2, <1>a, NewRequestEffect DEF Base
<1>3. CASE Reuses \/ Opens \/ GivesUp \/ Leads \/ Converses \/ Parts
  BY <1>3, <1>a DEF Reuses, Opens, ConnectsTo, GivesUp, ClosesSocket, Leads, Converses, Parts,
     GoesOn, IsFree
<1>4. CASE Begins
  <2>1. /\ ac.pc = "begin" /\ ac'.pc = "reply" /\ ac'.sock = ac.sock /\ down' = down
        /\ ac.sock \in Sockets
    BY <1>0, <1>4 DEF Begins, GoesOn
  <2>2. \A i \in 1..Len(down[ac.sock]) : down[ac.sock][i].is # "BeginRequest"
    BY <1>0, <2>1 DEF ReplyLast
  <2> QED
    BY <2>1, <2>2 DEF Alive, GoodReplyComes
<1>5. CASE Agrees
  <2>1. /\ ac.pc = "reply" /\ ac'.pc = "headers" /\ ac'.sock = ac.sock /\ ac.sock \in Sockets
        /\ UNCHANGED <<place, wk, crashes>>
    BY <1>0, <1>5 DEF Agrees, GoesOn
  <2>2. /\ 1 \in 1..Len(down[ac.sock]) /\ down[ac.sock][1].is = "BeginRequest"
        /\ down[ac.sock][1].reply = 1
    BY <1>5, <2>1, Hearing DEF Agrees, IsTail
  <2>3. GoodReplyComes
    BY <2>1, <2>2 DEF GoodReplyComes
  <2> QED
    BY <2>1, <2>3 DEF Alive
<1>6. ASSUME NEW s \in Sockets, SetsPlace(s) PROVE Alive'
  BY <1>0, <1>6 DEF SetsPlace, Alive, GoodReplyComes, Base, Composed
<1>7. ASSUME NEW s \in Sockets, NEW w \in Workers, Hands(s, w) PROVE Alive'
  <2>1. /\ UNCHANGED <<ac, up, down, crashes>> /\ place[s] \in {"watched", "waiting"}
        /\ \A t \in Sockets : t # s => place'[t] = place[t]
        /\ wk'[w].sock = s /\ \A v \in Workers : v # w => wk'[v] = wk[v]
    BY <1>0, <1>7 DEF Hands
  <2> QED
    BY <1>0, <2>1 DEF Alive, GoodReplyComes
<1>8. CASE \E w \in Workers : WorkerActs(w)
  BY <1>8, AliveWorker
<1> QED
  BY <1>1, <1>2, <1>3, <1>4, <1>5, <1>6, <1>7, <1>8, Cases, ConnectorCases

LEMMA OwnStep ==
  ASSUME Base, Base', BeginsLast, ReplyLast, Own, [Next]_vars
  PROVE  Own'
<1>0. ac.sock \in Sockets \cup {NoSocket} /\ NoSocket \notin Sockets
      /\ (ac.pc \notin {"free", "acquire"} => ac.sock \in Sockets)
  BY Fields, Bounds DEF Base, Composed
<1>a. ASSUME ~Talking' PROVE Own'
  BY <1>a DEF Own
<1>b. ASSUME Talking, ac'.sock = ac.sock, ac'.req = ac.req, UNCHANGED wk,
             \/ down'[ac.sock] = down[ac.sock]
             \/ IsTail(down'[ac.sock], down[ac.sock])
      PROVE  Own'
  BY <1>b DEF Own, IsTail
<1>1. CASE UNCHANGED vars
  BY <1>1 DEF vars, Own, Talking
<1>2. CASE \E kind \in Kinds : NewRequest(kind)
  BY <1>2, <1>a, NewRequestEffect DEF Base, Talking
<1>3. CASE Reuses \/ Opens \/ GivesUp \/ Begins \/ Parts
  BY <1>3, <1>a DEF Reuses, Opens, ConnectsTo, GivesUp, ClosesSocket, Begins, Parts,
     GoesOn, IsFree, Talking
<1>4. CASE Agrees
  <2>1. /\ ac'.pc = "headers" /\ ac'.sock = ac.sock /\ ac'.req = ac.req
        /\ UNCHANGED wk /\ ac.sock \in Sockets
        /\ IsTail(down'[ac.sock], down[ac.sock])
        /\ down[ac.sock][1].is = "BeginRequest" /\ 1 \in 1..Len(down[ac.sock])
    BY <1>0, <1>4, Hearing, SMTT(30) DEF Agrees, GoesOn, IsTail
  <2>2. Len(down[ac.sock]) = 1 /\ Ready
    BY <1>0, <2>1 DEF ReplyLast
  <2>3. Len(down'[ac.sock]) = 0
    BY <2>1, <2>2 DEF IsTail
  <2> QED
    BY <2>1, <2>2, <2>3 DEF Own, Ready
<1>5. CASE Leads
  BY <1>5, <1>b DEF Leads, GoesOn, Talking
<1>6. CASE Converses
  <2>1. Talking /\ ac'.sock = ac.sock /\ ac'.req = ac.req /\ ac.sock \in Sockets /\ UNCHANGED wk
    BY <1>0, <1>6 DEF Converses, GoesOn, Talking
  <2>2. down'[ac.sock] = down[ac.sock] \/ IsTail(down'[ac.sock], down[ac.sock])
    BY <1>6, <2>1, Hearing DEF Converses
  <2> QED
    BY <1>b, <2>1, <2>2
<1>7. CASE \E s \in Sockets : SetsPlace(s)
  BY <1>7 DEF SetsPlace, Own, Talking
<1>8. CASE \E s \in Sockets, w \in Workers : Hands(s, w)
  <2>1. PICK w \in Workers : /\ UNCHANGED <<ac, down>> /\ wk'[w].pc = "next"
                             /\ \A v \in Workers : v # w => wk'[v] = wk[v]
    BY <1>8 DEF Hands
  <2> QED
    BY <2>1 DEF Own, Talking
<1>9. ASSUME NEW w \in Workers, WorkerActs(w) PROVE Own'
  <2> DEFINE s == wk[w].sock
  <2>0. UNCHANGED ac
    BY <1>9, Shrinking
  <2>1. SUFFICES ASSUME Talking, ac.sock \in Sockets PROVE Own'
    BY <1>0, <2>0 DEF Own, Talking
  <2>2. CASE s # ac.sock
    BY <1>9, <2>0, <2>1, <2>2, Apart DEF Own, Talking
  <2>3. CASE s = ac.sock
    <3>1. ~Replies(w)
      <4>1. ASSUME Replies(w) PROVE up[s][1].is = "BeginRequest" /\ 1 \in 1..Len(up[s])
        <5>1. Takes(w, "BeginRequest")
          BY <4>1 DEF Replies
        <5>2. IsTail(up'[s], up[s]) /\ up[s][1].is = "BeginRequest"
          BY <5>1, Taking
        <5> QED
          BY <5>2 DEF IsTail
      <4> QED
        BY <2>1, <2>3, <4>1 DEF BeginsLast, Talking
    <3>2. \A i \in 1..Len(down'[s]) : down'[s][i].of = ac.req
      <4>1. CASE UNCHANGED down
        BY <2>1, <2>3, <4>1 DEF Own
      <4>2. ASSUME NEW types \in Seq(Types), Says(w, types), wk[w].pc \in {"ask", "respond", "finish"}
            PROVE  \A i \in 1..Len(down'[s]) : down'[s][i].of = ac.req
        <5>1. /\ IsAppended(down'[s], down[s], Answer(w, types))
              /\ \A i \in 1..Len(Answer(w, types)) : Answer(w, types)[i].of = wk[w].req
          BY <4>2, Saying
        <5>2. wk[w].req = ac.req /\ \A i \in 1..Len(down[s]) : down[s][i].of = ac.req
          BY <2>1, <2>3, <4>2 DEF Own
        <5>3. ASSUME NEW i \in 1..Len(down'[s]) PROVE down'[s][i].of = ac.req
          <6>1. CASE i \in 1..Len(down[s])
            BY <5>1, <5>2, <6>1 DEF IsAppended
          <6>2. CASE i \notin 1..Len(down[s])
            BY <5>1, <5>2, <6>2, ZenonT(40) DEF IsAppended
          <6> QED
            BY <6>1, <6>2
        <5> QED
          BY <5>3
      <4> QED
        BY <1>9, <3>1, <4>1, <4>2, Speaking
    <3>3. wk[w].pc \in {"next", "exited", "confused"} \/ wk[w].req = ac.req
      BY <2>1, <2>3 DEF Own
    <3>4. wk'[w].sock = s => wk'[w].pc \in {"next", "exited", "confused"} \/ wk'[w].req = ac.req
      <4>1. CASE Starts(w) \/ Reads(w) \/ PassesOn(w) \/ Finishes(w)
        BY <3>3, <4>1 DEF Starts, Reads, PassesOn, Finishes, SameRequest, Page
      <4>2. CASE GetsConfused(w) \/ Exits(w)
        BY <4>2 DEF GetsConfused, Exits, MovesTo
      <4>3. ASSUME NEW from \in {"ask", "respond"}, NEW types, NEW to, Speaks(w, from, types, to)
            PROVE  wk'[w].req = ac.req
        BY <3>3, <4>3 DEF Speaks, SameRequest
      <4>4. CASE Releases(w)
        BY <1>0, <2>1, <2>3, <4>4 DEF Releases, Frees
      <4> QED
        BY <1>9, <3>1, <4>1, <4>2, <4>3, <4>4 DEF WorkerActs
    <3>5. \A v \in Workers : v # w => wk'[v] = wk[v]
      BY <1>9 DEF WorkerActs, Replies, Starts, Reads, PassesOn, Speaks, Finishes, GetsConfused,
         Exits, Releases, MovesTo, Frees
    <3> QED
      BY <2>0, <2>1, <2>3, <3>2, <3>4, <3>5 DEF Own, Talking
  <2> QED
    BY <2>2, <2>3
<1> QED
  BY <1>1, <1>2, <1>3, <1>4, <1>5, <1>6, <1>7, <1>8, <1>9, Cases, ConnectorCases

LEMMA AgreementInit == Init => Agreement
<1> SUFFICES ASSUME Init PROVE Agreement
  OBVIOUS
<1>1. ac.pc = "free" /\ ac.sock = NoSocket /\ \A s \in Sockets : up[s] = <<>>
  BY DEF Init, Pooled
<1> QED
  BY <1>1 DEF Agreement, BeginsLast, ReplyLast, Alive, GoodReplyComes, Own, Talking

LEMMA AgreementStep == Base /\ Base' /\ Agreement /\ [Next]_vars => Agreement'
BY BeginsLastStep, ReplyLastStep, AliveStep, OwnStep DEF Agreement

LEMMA Agreeing == Spec => [](Base /\ Agreement)
BY BaseInit, BaseStep, AgreementInit, AgreementStep, PTL DEF Spec

\* What the connector takes for an answer to its request is one: the handshake
\* finds a connection out that still carries blocks of an earlier request
\* (jxr_send_begin_request_messsage).
THEOREM AnswersAreOwn == Spec => []OwnAnswer
<1>1. ASSUME Base, Agreement PROVE OwnAnswer
  <2>1. SUFFICES ASSUME Talking
                 PROVE  \A i \in DOMAIN down[ac.sock] : down[ac.sock][i].of = ac.req
    BY DEF OwnAnswer, Talking
  <2>2. ac.sock \in Sockets
    BY <1>1, <2>1, Fields DEF Base, Composed, Talking
  <2>3. DOMAIN down[ac.sock] = 1..Len(down[ac.sock])
    BY <1>1, <2>2, Lengths, LenProperties
  <2> QED
    BY <1>1, <2>1, <2>3 DEF Agreement, Own
<1> QED
  BY <1>1, Agreeing, PTL

-----------------------------------------------------------------------------
(* A page runs once.                                                       *)

\* The headers of this request were sent already, or will not be.
Past(r) ==
  r < ac.req \/ (r = ac.req /\ ac.pc \notin {"acquire", "begin", "reply", "headers"})

\* Headers are the first block of a stream, of a request that did not run yet,
\* and there are no others of the same request.
HeadersFirst ==
  \A s \in Sockets : \A i \in 1..Len(up[s]) : up[s][i].is = "Headers" =>
    /\ i = 1 /\ up[s][i].of \in Request /\ Past(up[s][i].of) /\ ran[up[s][i].of] = 0
    /\ \A w \in Workers : wk[w].sock = s /\ wk[w].pc = "headers" => wk[w].req = up[s][i].of
HeadersOnce ==
  \A s, t \in Sockets :
    /\ up[s] # <<>> /\ up[s][1].is = "Headers" /\ up[t] # <<>> /\ up[t][1].is = "Headers"
    /\ up[s][1].of = up[t][1].of
    => s = t

\* Who is in a page, has an answer or is served had the page run.
RanOnce == \A r \in Request : ran[r] <= 1 /\ (ran[r] = 1 => Past(r))
RanForPage == \A w \in Workers : wk[w].pc \in Page => wk[w].req \in Request /\ ran[wk[w].req] = 1
RanForAnswer ==
  \A s \in Sockets : \A i \in 1..Len(down[s]) : down[s][i].is = "ResponseHeader" =>
    down[s][i].of \in Request /\ ran[down[s][i].of] = 1
RanForBody == ac.pc = "body" => ran[ac.req] = 1
RanForServed == \A r \in Request : answer[r] = "served" => ran[r] = 1

Running ==
  HeadersFirst /\ HeadersOnce /\ RanOnce /\ RanForPage /\ RanForAnswer /\ RanForBody /\ RanForServed

\* What is past stays past.
LEMMA PastStays ==
  ASSUME Base, [Next]_vars, NEW r \in Request, Past(r)
  PROVE  Past(r)'
<1>0. r \in Nat /\ ac.req \in Nat
  BY Fields, Bounds DEF Base, Request, AnyRequest
<1>1. CASE UNCHANGED vars
  BY <1>1 DEF vars, Past
<1>2. CASE \E kind \in Kinds : NewRequest(kind)
  BY <1>0, <1>2, NewRequestEffect DEF Base, Past
<1>3. CASE Reuses \/ Opens \/ Begins \/ Agrees
  BY <1>3 DEF Reuses, Opens, ConnectsTo, Begins, Agrees, GoesOn, Past
<1>4. CASE GivesUp
  BY <1>4 DEF GivesUp, ClosesSocket, Past
<1>5. CASE Leads \/ Converses \/ Parts
  BY <1>5 DEF Leads, Converses, Parts, GoesOn, IsFree, Past
<1>6. CASE \E s \in Sockets : SetsPlace(s) \/ \E w \in Workers : Hands(s, w)
  BY <1>6 DEF SetsPlace, Hands, Past
<1>7. CASE \E w \in Workers : WorkerActs(w)
  BY <1>7, Shrinking DEF Past
<1> QED
  BY <1>1, <1>2, <1>3, <1>4, <1>5, <1>6, <1>7, Cases, ConnectorCases

Headers == HeadersFirst /\ HeadersOnce

LEMMA HeadersConnector ==
  ASSUME Base, BeginsLast, ReplyLast, Headers, RanOnce, [Next]_vars,
         \/ \E kind \in Kinds : NewRequest(kind)
         \/ Connector \/ Abandon
  PROVE  Headers'
<1>0. ac.sock \in Sockets \cup {NoSocket} /\ NoSocket \notin Sockets
      /\ (ac.pc \notin {"free", "acquire"} => ac.sock \in Sockets)
  BY Fields, Bounds DEF Base, Composed
<1>a. \A r \in Request : Past(r) => Past(r)'
  BY PastStays
<1>b. ASSUME UNCHANGED <<up, wk, ran>> PROVE Headers'
  BY <1>a, <1>b DEF Headers, HeadersFirst, HeadersOnce
<1>c. ASSUME NEW r, IsAppended(up'[ac.sock], up[ac.sock], r), ac.sock \in Sockets,
             \A t \in Sockets : t # ac.sock => up'[t] = up[t], UNCHANGED <<wk, ran>>,
             \A i \in 1..Len(r) : r[i].is # "Headers"
      PROVE  Headers'
  <2>1. \A i \in 1..Len(up'[ac.sock]) : up'[ac.sock][i].is = "Headers" =>
          i \in 1..Len(up[ac.sock]) /\ up'[ac.sock][i] = up[ac.sock][i]
    <3> DEFINE p == up[ac.sock]
               q == up'[ac.sock]
    <3>1. IsAppended(q, p, r) /\ \A i \in 1..Len(r) : r[i].is # "Headers"
      BY <1>c
    <3> HIDE DEF p, q
    <3>2. \A i \in 1..Len(q) : i \notin 1..Len(p) => q[i].is # "Headers"
      BY <3>1 DEF IsAppended
    <3>3. \A i \in 1..Len(q) : i \in 1..Len(p) => q[i] = p[i]
      BY <3>1 DEF IsAppended
    <3>4. \A i \in 1..Len(q) : q[i].is = "Headers" => i \in 1..Len(p) /\ q[i] = p[i]
      BY <3>2, <3>3
    <3> QED
      BY <3>4 DEF p, q
  <2>2. HeadersFirst'
    BY <1>a, <1>c, <2>1 DEF Headers, HeadersFirst
  <2>3. \A t \in Sockets : up'[t] # <<>> /\ up'[t][1].is = "Headers" =>
          up[t] # <<>> /\ up[t][1] = up'[t][1]
    <3>1. up'[ac.sock] # <<>> => 1 \in 1..Len(up'[ac.sock])
      <4>1. up'[ac.sock] \in Seq(AnyBlock)
        BY <1>c, TypeStep, TypeParts DEF TypeOK
      <4> QED
        BY <4>1, EmptySeq, LenProperties
    <3> QED
      BY <1>c, <2>1, <3>1, Lengths
  <2>4. HeadersOnce'
    BY <2>3 DEF Headers, HeadersOnce
  <2> QED
    BY <2>2, <2>4 DEF Headers
<1>1. CASE \E kind \in Kinds : NewRequest(kind)
  BY <1>1, <1>b, NewRequestEffect DEF Base
<1>2. CASE Reuses \/ GivesUp \/ Agrees \/ Parts
  BY <1>2, <1>b DEF Reuses, GivesUp, Agrees, Parts
<1>3. CASE Opens
  <2>1. /\ Fresh \in Sockets /\ up'[Fresh] = <<>> /\ \A t \in Sockets : t # Fresh => up'[t] = up[t]
        /\ UNCHANGED <<wk, ran>>
    BY <1>3, TypeParts DEF Opens, ConnectsTo, Connect, Base
  <2>2. Len(up'[Fresh]) = 0
    BY <2>1
  <2> QED
    BY <1>a, <2>1, <2>2 DEF Headers, HeadersFirst, HeadersOnce
<1>4. CASE Begins
  <2>1. /\ Len(up'[ac.sock]) = Len(up[ac.sock]) + 1 /\ Len(up[ac.sock]) \in Nat
        /\ \A i \in 1..Len(up[ac.sock]) : up'[ac.sock][i] = up[ac.sock][i]
        /\ up'[ac.sock][Len(up[ac.sock]) + 1] = BeginBlock
        /\ \A t \in Sockets : t # ac.sock => up'[t] = up[t]
    BY <1>0, <1>4, Beginning DEF Begins
  <2>2. BeginBlock.is = "BeginRequest" /\ ac.sock \in Sockets
    BY <1>0, <1>4, BeginBlockType DEF Begins, Base
  <2>3. IsAppended(up'[ac.sock], up[ac.sock], <<BeginBlock>>)
    BY <2>1 DEF IsAppended
  <2>4. \A i \in 1..Len(<<BeginBlock>>) : <<BeginBlock>>[i].is # "Headers"
    BY <2>2
  <2> QED
    BY <1>4, <1>c, <2>1, <2>2, <2>3, <2>4 DEF Begins
<1>5. CASE Converses
  <2>1. ac.sock \in Sockets /\ UNCHANGED <<wk, ran>>
    BY <1>0, <1>5 DEF Converses
  <2>2. CASE UNCHANGED up
    BY <1>b, <2>1, <2>2
  <2>3. ASSUME NEW types \in Seq({"Document", "PostData", "EndRequest"}), Tells(types)
        PROVE  Headers'
    <3>1. types \in Seq(Types) /\ \A i \in 1..Len(types) : types[i] # "Headers"
      <4>1. \A i \in 1..Len(types) : types[i] \in {"Document", "PostData", "EndRequest"}
        BY <2>3, ElementOfSeq
      <4> QED
        BY <2>3, <4>1 DEF Tells
    <3>2. /\ IsAppended(up'[ac.sock], up[ac.sock], Blocks(types))
          /\ \A t \in Sockets : t # ac.sock => up'[t] = up[t]
          /\ \A i \in 1..Len(Blocks(types)) : Blocks(types)[i].is # "Headers"
      BY <2>1, <2>3, <3>1, Telling
    <3> QED
      BY <1>c, <2>1, <3>2
  <2> QED
    BY <1>5, <2>2, <2>3 DEF Converses
<1>6. CASE Leads
  <2>1. PICK types \in Opening : Tells(types)
    BY <1>6 DEF Leads
  <2>2. /\ ac.sock \in Sockets /\ ac.pc = "headers" /\ ac'.pc \in {"document", "final"}
        /\ ac'.req = ac.req /\ UNCHANGED <<wk, ran>> /\ ac.req \in Request
    BY <1>0, <1>6 DEF Leads, GoesOn, Base, Composed
  <2>3. Ready
    BY <2>2 DEF ReplyLast
  <2>4. /\ IsAppended(up'[ac.sock], up[ac.sock], Blocks(types))
        /\ \A t \in Sockets : t # ac.sock => up'[t] = up[t]
        /\ Len(Blocks(types)) = Len(types)
        /\ \A i \in 1..Len(types) : Blocks(types)[i].is = types[i] /\ Blocks(types)[i].of = ac.req
    BY <2>1, <2>2, OpeningTypes, Telling
  <2>5. Len(up[ac.sock]) = 0
    BY <2>3 DEF Ready
  <2>6. \A i \in 1..Len(up'[ac.sock]) :
          up'[ac.sock][i].of = ac.req /\ (up'[ac.sock][i].is = "Headers" => i = 1)
    <3>1. \A i \in 1..Len(up'[ac.sock]) : i \in 1..Len(types) /\ up'[ac.sock][i] = Blocks(types)[i]
      BY <2>4, <2>5 DEF IsAppended
    <3> QED
      BY <2>1, <2>4, <3>1, OpeningTypes
  <2>7. ~Past(ac.req) /\ Past(ac.req)' /\ ran[ac.req] = 0
    <3>1. ac.req \in Nat /\ ran[ac.req] \in Nat /\ ran[ac.req] <= 1
      BY <2>2, Bounds, TypeParts DEF Base, Request, RanOnce
    <3> QED
      BY <2>2, <3>1 DEF Past, RanOnce
  <2>8. HeadersFirst'
    <3>1. \A w \in Workers : wk[w].sock = ac.sock /\ wk[w].pc = "headers" => wk[w].req = ac.req
      BY <2>3 DEF Ready
    <3> QED
      BY <1>a, <2>2, <2>4, <2>6, <2>7, <3>1 DEF Headers, HeadersFirst
  <2>9. ASSUME NEW t \in Sockets, t # ac.sock, up'[t] # <<>>, up'[t][1].is = "Headers"
        PROVE  up'[t][1].of # ac.req /\ up[t] = up'[t]
    <3>1. up[t] = up'[t] /\ 1 \in 1..Len(up[t])
      BY <2>4, <2>9, Lengths
    <3> QED
      BY <2>7, <2>9, <3>1 DEF Headers, HeadersFirst
  <2>10. up'[ac.sock][1].of = ac.req
    BY <2>4, <2>5, OpeningTypes DEF IsAppended
  <2>11. HeadersOnce'
    BY <2>9, <2>10 DEF Headers, HeadersOnce
  <2> QED
    BY <2>8, <2>11 DEF Headers
<1> QED
  BY <1>1, <1>2, <1>3, <1>4, <1>5, <1>6, ConnectorCases

LEMMA HeadersWorker ==
  ASSUME Base, BeginsLast, Headers, [Next]_vars, NEW w \in Workers, WorkerActs(w)
  PROVE  Headers'
<1> DEFINE s == wk[w].sock
<1>0. s \in Sockets /\ UNCHANGED ac /\ (\A t \in Sockets : t # s => up'[t] = up[t])
      /\ Len(up[s]) \in Nat
  BY Shrinking, Lengths
<1>a. \A r \in Request : Past(r) => Past(r)'
  BY PastStays
<1>1. PICK n \in 0..Len(up[s]) : IsSuffix(up'[s], up[s], n)
  BY Shrinking
<1>2. \A v \in Workers : v # w => wk'[v] = wk[v]
  BY DEF WorkerActs, Replies, Starts, Reads, PassesOn, Speaks, Finishes, GetsConfused, Exits,
     Releases, MovesTo, Frees
\* Headers that are left were first before, and nothing was taken.
<1>3. ASSUME NEW i \in 1..Len(up'[s]), up'[s][i].is = "Headers"
      PROVE  n = 0 /\ i = 1 /\ 1 \in 1..Len(up[s]) /\ up'[s][1] = up[s][1]
  <2>1. i + n \in 1..Len(up[s]) /\ up'[s][i] = up[s][i + n]
    BY <1>1 DEF IsSuffix
  <2>2. i + n = 1
    BY <1>0, <1>3, <2>1 DEF Headers, HeadersFirst
  <2> QED
    BY <1>0, <2>1, <2>2
\* Then the page did not start, and no worker began a request here.
<1>4. ASSUME Takes(w, "Headers") \/ Takes(w, "BeginRequest")
      PROVE  \A i \in 1..Len(up'[s]) : up'[s][i].is # "Headers"
  <2>1. IsTail(up'[s], up[s])
    BY <1>4, Taking
  <2>2. ASSUME NEW i \in 1..Len(up'[s]) PROVE up'[s][i].is # "Headers"
    <3>1. i + 1 \in 1..Len(up[s]) /\ up'[s][i] = up[s][i + 1] /\ i + 1 # 1
      BY <2>1, <2>2 DEF IsTail
    <3> QED
      BY <1>0, <3>1 DEF Headers, HeadersFirst
  <2> QED
    BY <2>2
<1>5. \A t \in Sockets : up'[t] # <<>> /\ up'[t][1].is = "Headers" =>
        up[t] # <<>> /\ up[t][1] = up'[t][1]
  <2>1. ASSUME NEW t \in Sockets, up'[t] # <<>>, up'[t][1].is = "Headers"
        PROVE  up[t] # <<>> /\ up[t][1] = up'[t][1]
    <3>1. CASE t # s
      BY <1>0, <2>1, <3>1
    <3>2. CASE t = s
      <4>1. 1 \in 1..Len(up'[s])
        <5>1. up'[s] \in Seq(AnyBlock)
          BY <1>0, TypeStep, TypeParts DEF TypeOK
        <5> QED
          BY <2>1, <3>2, <5>1, EmptySeq, LenProperties
      <4>2. 1 \in 1..Len(up[s]) /\ up'[s][1] = up[s][1]
        BY <1>3, <2>1, <3>2, <4>1
      <4> QED
        BY <1>0, <3>2, <4>2, Lengths
    <3> QED
      BY <3>1, <3>2
  <2> QED
    BY <2>1
<1>6. HeadersOnce'
  BY <1>5 DEF Headers, HeadersOnce
<1>7. CASE Starts(w)
  <2> DEFINE r == up[s][1].of
  <2>1. /\ Takes(w, "Headers") /\ wk'[w].pc = "document"
        /\ ran' = [ran EXCEPT ![r] = @ + 1]
    BY <1>7 DEF Starts, MovesTo
  <2>2. up[s] # <<>> /\ up[s][1].is = "Headers"
    BY <2>1 DEF Takes
  <2>3. ASSUME NEW t \in Sockets, NEW i \in 1..Len(up'[t]), up'[t][i].is = "Headers"
        PROVE  t # s /\ up'[t] = up[t] /\ i = 1 /\ up[t][1].of # r /\ ran'[up[t][1].of] = ran[up[t][1].of]
    <3>1. t # s /\ up'[t] = up[t]
      BY <1>0, <1>4, <2>1, <2>3
    <3>2. i = 1 /\ up[t] # <<>> /\ up[t][1].of \in Request
      BY <2>3, <3>1, Lengths DEF Headers, HeadersFirst
    <3>3. up[t][1].of # r
      BY <1>0, <2>2, <2>3, <3>1, <3>2 DEF Headers, HeadersOnce
    <3> QED
      BY <2>1, <3>1, <3>2, <3>3, TypeParts DEF Base
  <2>4. HeadersFirst'
    BY <1>2, <1>a, <2>1, <2>3 DEF Headers, HeadersFirst
  <2> QED
    BY <1>6, <2>4 DEF Headers
<1>8. CASE ~Starts(w)
  <2>1. UNCHANGED ran
    BY <1>8 DEF WorkerActs, Replies, Reads, PassesOn, Speaks, Finishes, GetsConfused, Exits,
       Releases
  <2>2. CASE Replies(w)
    <3>1. \A i \in 1..Len(up'[s]) : up'[s][i].is # "Headers"
      BY <1>4, <2>2 DEF Replies
    <3>2. wk'[w].sock = s
      BY <2>2 DEF Replies, MovesTo
    <3>3. HeadersFirst'
      BY <1>0, <1>2, <1>a, <2>1, <3>1, <3>2 DEF Headers, HeadersFirst
    <3> QED
      BY <1>6, <3>3 DEF Headers
  <2>3. CASE ~Replies(w)
    <3>1. wk'[w].pc # "headers"
      BY <1>8, <2>3 DEF WorkerActs, Reads, PassesOn, Speaks, Finishes, GetsConfused, Exits,
         Releases, MovesTo, Frees, Page
    <3>2. HeadersFirst'
      BY <1>0, <1>2, <1>3, <1>a, <2>1, <3>1, SMTT(30) DEF Headers, HeadersFirst
    <3> QED
      BY <1>6, <3>2 DEF Headers
  <2> QED
    BY <2>2, <2>3
<1> QED
  BY <1>7, <1>8

LEMMA HeadersStep ==
  ASSUME Base, BeginsLast, ReplyLast, Headers, RanOnce, [Next]_vars
  PROVE  Headers'
<1>a. \A r \in Request : Past(r) => Past(r)'
  BY PastStays
<1>1. CASE UNCHANGED vars
  BY <1>1, <1>a DEF vars, Headers, HeadersFirst, HeadersOnce
<1>2. CASE (\E kind \in Kinds : NewRequest(kind)) \/ Connector \/ Abandon
  BY <1>2, HeadersConnector
<1>3. CASE \E s \in Sockets : SetsPlace(s)
  BY <1>3, <1>a DEF SetsPlace, Headers, HeadersFirst, HeadersOnce
<1>4. CASE \E s \in Sockets, w \in Workers : Hands(s, w)
  <2>1. PICK w \in Workers : /\ UNCHANGED <<up, ran>> /\ wk'[w].pc = "next"
                             /\ \A v \in Workers : v # w => wk'[v] = wk[v]
    BY <1>4 DEF Hands
  <2> QED
    BY <1>a, <2>1 DEF Headers, HeadersFirst, HeadersOnce
<1>5. CASE \E w \in Workers : WorkerActs(w)
  BY <1>5, HeadersWorker
<1> QED
  BY <1>1, <1>2, <1>3, <1>4, <1>5, Cases

Ran == RanOnce /\ RanForPage /\ RanForAnswer /\ RanForBody /\ RanForServed

LEMMA RanConnector ==
  ASSUME Base, Own, Ran, [Next]_vars,
         \/ \E kind \in Kinds : NewRequest(kind)
         \/ Connector \/ Abandon
  PROVE  Ran'
<1>0. ac.sock \in Sockets \cup {NoSocket} /\ NoSocket \notin Sockets
      /\ (ac.pc \notin {"free", "acquire"} => ac.sock \in Sockets)
      /\ (ac.pc # "free" => ac.req \in Request)
  BY Fields, Bounds DEF Base, Composed
<1>a. \A r \in Request : Past(r) => Past(r)'
  BY PastStays
<1>b. UNCHANGED <<ran, wk>>
  BY ConnectorCases, NewRequestEffect DEF Base, Reuses, Opens, GivesUp, Begins, Agrees, Leads,
     Converses, Parts
<1>1. RanOnce' /\ RanForPage'
  BY <1>a, <1>b DEF Ran, RanOnce, RanForPage
<1>2. RanForAnswer'
  <2>1. ASSUME UNCHANGED down \/ (ac.sock \in Sockets /\ \E types : Hears(types))
        PROVE  RanForAnswer'
    <3>1. CASE UNCHANGED down
      BY <1>b, <3>1 DEF Ran, RanForAnswer
    <3>2. CASE ac.sock \in Sockets /\ \E types : Hears(types)
      <4>1. /\ IsTail(down'[ac.sock], down[ac.sock])
            /\ \A t \in Sockets : t # ac.sock => down'[t] = down[t]
        BY <3>2, Hearing
      <4> QED
        BY <1>b, <4>1, SMTT(30) DEF Ran, RanForAnswer, IsTail
    <3> QED
      BY <2>1, <3>1, <3>2
  <2>2. CASE Opens
    <3>1. down'[Fresh] = <<>> /\ \A t \in Sockets : t # Fresh => down'[t] = down[t]
      BY <2>2, TypeParts DEF Opens, ConnectsTo, Connect, Base
    <3>2. Len(down'[Fresh]) = 0
      BY <3>1
    <3> QED
      BY <1>b, <3>1, <3>2 DEF Ran, RanForAnswer
  <2>3. CASE \/ \E kind \in Kinds : NewRequest(kind)
             \/ Reuses \/ GivesUp \/ Begins \/ Agrees \/ Leads \/ Converses \/ Parts
    BY <1>0, <2>1, <2>3, NewRequestEffect DEF Base, Reuses, GivesUp, Begins, Agrees, Leads,
       Converses, Parts
  <2> QED
    BY <2>2, <2>3, ConnectorCases
<1>3. RanForBody'
  <2>1. CASE ac'.pc # "body"
    BY <2>1 DEF RanForBody
  <2>2. CASE ac'.pc = "body"
    <3>1. Converses
      BY <2>2, ConnectorCases, NewRequestEffect DEF Base, Reuses, Opens, ConnectsTo, GivesUp,
         ClosesSocket, Begins, Agrees, Leads, Parts, GoesOn, IsFree
    <3>2. ac'.req = ac.req /\ ac.sock \in Sockets /\ Talking
      BY <1>0, <3>1 DEF Converses, GoesOn, Talking
    <3>3. CASE ac.pc = "body"
      BY <1>b, <3>2, <3>3 DEF Ran, RanForBody
    <3>4. CASE ac.pc # "body"
      <4>1. Hears({"ResponseHeader"})
        BY <2>2, <3>1, <3>4 DEF Converses
      <4>2. 1 \in 1..Len(down[ac.sock]) /\ down[ac.sock][1].is = "ResponseHeader"
        BY <3>2, <4>1, Hearing DEF IsTail
      <4>3. down[ac.sock][1].of = ac.req /\ ran[down[ac.sock][1].of] = 1
        BY <3>2, <4>2 DEF Own, Ran, RanForAnswer
      <4> QED
        BY <1>b, <3>2, <4>3 DEF RanForBody
    <3> QED
      BY <3>3, <3>4
  <2> QED
    BY <2>1, <2>2
<1>4. RanForServed'
  <2>1. CASE Parts
    <3>1. \A r \in Request : 
            \/ answer'[r] = answer[r]
            \/ r = ac.req /\ (answer'[r] = "served" => ac.pc = "body")
      <4>1. CASE ac.pc = "body"
        BY <2>1, <4>1 DEF Parts, Answered
      <4>2. CASE ac.pc # "body"
        <5>1. Answered({"abandoned"})
          BY <2>1, <4>2 DEF Parts
        <5> QED
          BY <5>1 DEF Answered
      <4> QED
        BY <4>1, <4>2
    <3> QED
      BY <1>b, <3>1 DEF Ran, RanForServed, RanForBody
  <2>2. CASE GivesUp
    BY <1>b, <2>2 DEF GivesUp, Answered, Ran, RanForServed
  <2>3. CASE (\E kind \in Kinds : NewRequest(kind)) \/ Reuses \/ Opens \/ Begins \/ Agrees
             \/ Leads \/ Converses
    BY <1>b, <2>3, NewRequestEffect DEF Base, Reuses, Opens, Begins, Agrees, Leads, Converses,
       Ran, RanForServed
  <2> QED
    BY <2>1, <2>2, <2>3, ConnectorCases
<1> QED
  BY <1>1, <1>2, <1>3, <1>4 DEF Ran

LEMMA RanWorker ==
  ASSUME Base, Headers, Ran, [Next]_vars, NEW w \in Workers, WorkerActs(w)
  PROVE  Ran'
<1> DEFINE s == wk[w].sock
           r == up[s][1].of
<1>0. s \in Sockets /\ UNCHANGED <<ac, answer>> /\ ran \in [Request -> Nat]
  BY Shrinking, TypeParts DEF Base
<1>a. \A q \in Request : Past(q) => Past(q)'
  BY PastStays
<1>2. \A v \in Workers : v # w => wk'[v] = wk[v]
  BY DEF WorkerActs, Replies, Starts, Reads, PassesOn, Speaks, Finishes, GetsConfused, Exits,
     Releases, MovesTo, Frees
<1>3. CASE Starts(w)
  <2>1. /\ Takes(w, "Headers") /\ wk[w].pc = "headers" /\ wk'[w].pc = "document"
        /\ wk'[w].req = wk[w].req /\ ran' = [ran EXCEPT ![r] = @ + 1] /\ UNCHANGED down
    BY <1>3 DEF Starts, MovesTo
  <2>2. 1 \in 1..Len(up[s]) /\ up[s][1].is = "Headers"
    BY <2>1, Taking DEF IsTail
  <2>3. r \in Request /\ Past(r) /\ ran[r] = 0 /\ wk[w].req = r
    BY <1>0, <2>1, <2>2 DEF Headers, HeadersFirst
  <2>4. ran'[r] = 1 /\ \A q \in Request : q # r => ran'[q] = ran[q]
    BY <1>0, <2>1, <2>3, SMTT(30)
  <2>5. \A q \in Request : ran[q] = 1 => ran'[q] = 1
    BY <2>3, <2>4
  <2>6. RanOnce'
    BY <1>a, <2>3, <2>4 DEF Ran, RanOnce
  <2>7. RanForPage'
    BY <1>2, <2>1, <2>3, <2>4, <2>5 DEF Ran, RanForPage
  <2>8. RanForAnswer' /\ RanForServed'
    BY <1>0, <2>1, <2>5 DEF Ran, RanForAnswer, RanForServed
  <2>9. RanForBody'
    BY <1>0, <2>5, Fields DEF Ran, RanForBody, Base, Composed
  <2> QED
    BY <2>6, <2>7, <2>8, <2>9 DEF Ran
<1>4. CASE ~Starts(w)
  <2>1. UNCHANGED ran
    BY <1>4 DEF WorkerActs, Replies, Reads, PassesOn, Speaks, Finishes, GetsConfused, Exits,
       Releases
  <2>2. wk'[w].pc \in Page => wk[w].pc \in Page /\ wk'[w].req = wk[w].req
    <3>1. CASE Replies(w) \/ GetsConfused(w) \/ Exits(w) \/ Releases(w)
      BY <3>1 DEF Replies, GetsConfused, Exits, Releases, MovesTo, Frees, Page
    <3>2. CASE Reads(w) \/ PassesOn(w) \/ Finishes(w)
      BY <3>2 DEF Reads, PassesOn, Finishes, SameRequest, Page
    <3>3. ASSUME NEW from \in {"ask", "respond"}, NEW types, NEW to, Speaks(w, from, types, to)
          PROVE  wk[w].pc \in Page /\ wk'[w].req = wk[w].req
      BY <3>3 DEF Speaks, SameRequest, Page
    <3> QED
      BY <1>4, <3>1, <3>2, <3>3 DEF WorkerActs
  <2>3. RanOnce' /\ RanForPage' /\ RanForBody' /\ RanForServed'
    BY <1>0, <1>2, <1>a, <2>1, <2>2 DEF Ran, RanOnce, RanForPage, RanForBody, RanForServed
  <2>4. RanForAnswer'
    <3>1. CASE UNCHANGED down
      BY <2>1, <3>1 DEF Ran, RanForAnswer
    <3>2. CASE Replies(w)
      <4>1. /\ Len(down'[s]) = Len(down[s]) + 1 /\ Len(down[s]) \in Nat
            /\ \A i \in 1..Len(down[s]) : down'[s][i] = down[s][i]
            /\ down'[s][Len(down[s]) + 1].is = "BeginRequest"
            /\ \A t \in Sockets : t # s => down'[t] = down[t]
        BY <3>2, Replying
      <4>2. ASSUME NEW i \in 1..Len(down'[s]), down'[s][i].is = "ResponseHeader"
            PROVE  i \in 1..Len(down[s]) /\ down'[s][i] = down[s][i]
        <5>1. i \in 1..Len(down[s]) \/ i = Len(down[s]) + 1
          BY <4>1, <4>2
        <5> QED
          BY <4>1, <4>2, <5>1
      <4> HIDE DEF s, r
      <4> QED
        BY <1>0, <2>1, <4>1, <4>2 DEF Ran, RanForAnswer
    <3>3. ASSUME NEW types \in Seq(Types), Says(w, types), wk[w].pc \in {"ask", "respond", "finish"}
          PROVE  RanForAnswer'
      <4>1. /\ IsAppended(down'[s], down[s], Answer(w, types))
            /\ \A i \in 1..Len(Answer(w, types)) : Answer(w, types)[i].of = wk[w].req
            /\ \A t \in Sockets : t # s => down'[t] = down[t]
        BY <3>3, Saying
      <4>2. wk[w].req \in Request /\ ran[wk[w].req] = 1
        BY <3>3 DEF Ran, RanForPage, Page
      <4>3. ASSUME NEW i \in 1..Len(down'[s]), down'[s][i].is = "ResponseHeader"
            PROVE  down'[s][i].of \in Request /\ ran[down'[s][i].of] = 1
        <5> HIDE DEF s, r
        <5>1. \/ i \in 1..Len(down[s]) /\ down'[s][i] = down[s][i]
              \/ \E j \in 1..Len(Answer(w, types)) : down'[s][i] = Answer(w, types)[j]
          BY <4>1, <4>3, AppendedBlock
        <5> QED
          BY <1>0, <4>1, <4>2, <4>3, <5>1 DEF Ran, RanForAnswer
      <4> QED
        BY <2>1, <4>1, <4>3 DEF Ran, RanForAnswer
    <3> QED
      BY <3>1, <3>2, <3>3, Speaking
  <2> QED
    BY <2>3, <2>4 DEF Ran
<1> QED
  BY <1>3, <1>4

LEMMA RanStep ==
  ASSUME Base, Own, Headers, Ran, [Next]_vars
  PROVE  Ran'
<1>a. \A r \in Request : Past(r) => Past(r)'
  BY PastStays
<1>b. ASSUME UNCHANGED <<ac, down, ran, answer>>, \A w \in Workers : wk'[w].pc \in Page => wk'[w] = wk[w]
      PROVE  Ran'
  BY <1>a, <1>b DEF Ran, RanOnce, RanForPage, RanForAnswer, RanForBody, RanForServed
<1>1. CASE UNCHANGED vars
  BY <1>1, <1>b DEF vars
<1>2. CASE (\E kind \in Kinds : NewRequest(kind)) \/ Connector \/ Abandon
  BY <1>2, RanConnector
<1>3. CASE \E s \in Sockets : SetsPlace(s)
  BY <1>3, <1>b DEF SetsPlace
<1>4. CASE \E s \in Sockets, w \in Workers : Hands(s, w)
  BY <1>4, <1>b DEF Hands, Page
<1>5. CASE \E w \in Workers : WorkerActs(w)
  BY <1>5, RanWorker
<1> QED
  BY <1>1, <1>2, <1>3, <1>4, <1>5, Cases

Coming == Agreement /\ Headers /\ Ran

LEMMA ComingInit == Init => Coming
<1> SUFFICES ASSUME Init PROVE Headers /\ Ran
  BY AgreementInit DEF Coming
<1>1. /\ ac.pc = "free" /\ \A s \in Sockets : up[s] = <<>> /\ down[s] = <<>>
      /\ \A w \in Workers : wk[w].pc = "free"
      /\ \A r \in Request : ran[r] = 0 /\ answer[r] = "none"
  BY DEF Init, Pooled, Waiting
<1> QED
  BY <1>1 DEF Headers, HeadersFirst, HeadersOnce, Ran, RanOnce, RanForPage, RanForAnswer,
     RanForBody, RanForServed, Page

LEMMA ComingStep == Base /\ Base' /\ Coming /\ [Next]_vars => Coming'
<1> SUFFICES ASSUME Base, Base', Coming, [Next]_vars PROVE Coming'
  OBVIOUS
<1>1. BeginsLast /\ ReplyLast /\ Own /\ RanOnce
  BY DEF Coming, Agreement, Ran
<1> QED
  BY <1>1, AgreementStep, HeadersStep, RanStep DEF Coming

LEMMA ComingAlways == Spec => [](Base /\ Coming)
BY BaseInit, BaseStep, ComingInit, ComingStep, PTL DEF Spec

\* A page runs at most once for a request, however often its connector begins
\* it and on however many connections, and only an answer of a page is served
\* (BeginRequest is retried, the headers that start the page are not).
THEOREM PagesRunOnce == Spec => []RunsOnce
<1>1. Coming => RunsOnce
  BY DEF Coming, Ran, RanOnce, RanForServed, RunsOnce
<1> QED
  BY <1>1, ComingAlways, PTL

=============================================================================
