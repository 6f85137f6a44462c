--------------------------- MODULE ConnectorSession ---------------------------
(***************************************************************************)
(* A request on its way from an Apache child, through one pooled           *)
(* connection of mod_jaxer, to a Jaxer worker and back: the connector, the *)
(* two byte streams of each socket, the workers' FCGXStream, and the       *)
(* manager's part, which hands the socket to a worker and takes it back.   *)
(*                                                                         *)
(* A stream is a sequence of blocks.  The request header, response header  *)
(* and environment blocks always go together and are one block, "Headers". *)
(* A block remembers the request it was sent for, which the code does not: *)
(* that is what the properties are about.  The kind of the request is read *)
(* from its headers.                                                       *)
(*                                                                         *)
(* A definition whose comment starts with "Faulty" is a plausible error in *)
(* the one after it; the specification does not use it.                    *)
(***************************************************************************)
EXTENDS Naturals, Sequences, FiniteSets

CONSTANTS
  Sockets,      \* slots for connections to the manager; a closed one is reused
  NoSocket,     \* ac->sock = 0
  Workers,      \* slots for worker processes; one that ended is replaced
  OldWorkers,   \* the workers that are Jaxers of protocol version 3
  Kinds,        \* kinds of requests in this instance
  MaxRequests,  \* bound: requests
  MaxBlocks,    \* bound: document blocks of a request
  MaxCrashes    \* bound: workers that die, connects that fail

ASSUME SessionAssumption ==
  /\ NoSocket \notin Sockets
  /\ OldWorkers \subseteq Workers
  /\ Kinds \subseteq {"get", "post", "options", "handler", "handlerpost"}
  /\ MaxRequests \in Nat \ {0}
  /\ MaxBlocks \in Nat \ {0}
  /\ MaxCrashes \in Nat

VARIABLES
  ac,       \* the connector: jaxer_connection, jaxer_worker, the filter's context
  up,       \* blocks on their way to the worker side of each socket
  down,     \* blocks on their way to the connector
  place,    \* where the manager has the socket
  shut,     \* sockets the connector closed
  wk,       \* the workers
  ran,      \* how often the page of each request was started
  answer,   \* how each request ended for the connector
  spoilt,   \* sockets given up, or written to, in the middle of a request
  crashes   \* how much of MaxCrashes is used up

vars == <<ac, up, down, place, shut, wk, ran, answer, spoilt, crashes>>
streams == <<up, down>>
history == <<ran, answer, spoilt, crashes>>

JAXER_PROTOCOL_VERSION == 4
MOD_JAXER_PROTOCOL_VERSION == 4

Request == 1..MaxRequests
AnyRequest == 0..MaxRequests
Block(type, r, kind) ==
  [is |-> type, of |-> r, kind |-> kind, version |-> 0, reply |-> 0]
Handler(kind) == kind \in {"handler", "handlerpost"}
Posts(kind) == kind \in {"post", "handlerpost"}

\* A connection nobody uses, in the pool or not made yet.
Pooled(sock, used, proto) ==
  [pc |-> "free", sock |-> sock, req |-> used, kind |-> "none", again |-> FALSE,
   reopened |-> FALSE, blocks |-> 0, postdata_sent |-> FALSE,
   use_proto |-> proto, retry |-> FALSE]

Waiting == [pc |-> "free", sock |-> NoSocket, req |-> 0, kind |-> "none",
            after |-> FALSE]

Init ==
  /\ ac = Pooled(NoSocket, 0, MOD_JAXER_PROTOCOL_VERSION)
  /\ up = [s \in Sockets |-> <<>>]
  /\ down = [s \in Sockets |-> <<>>]
  /\ place = [s \in Sockets |-> "closed"]
  /\ shut = Sockets
  /\ wk = [w \in Workers |-> Waiting]
  /\ ran = [r \in Request |-> 0]
  /\ answer = [r \in Request |-> "none"]
  /\ spoilt = {}
  /\ crashes = 0

-----------------------------------------------------------------------------
(* Sockets.                                                                *)

\* Nobody has the socket open any more.
Unused(s) ==
  /\ place[s] = "closed"
  /\ s \in shut
  /\ \A w \in Workers : wk[w].sock # s

\* The manager closes its handle when the worker is gone, so then nothing more
\* will come down s; what came is lost if there was something left to read.
Ended(s) == place[s] = "closed"
Reset(s) == Ended(s) /\ (down[s] = <<>> \/ up[s] # <<>>)

Send(s, blocks) == up' = [up EXCEPT ![s] = @ \o blocks]

Close(s) == shut' = shut \cup ({s} \ {NoSocket})

\* Free slots are alike: any one will do.
Fresh == CHOOSE s \in Sockets : Unused(s)
RoomToConnect == \E s \in Sockets : Unused(s)

\* Faulty: closes a socket that is not there.
ConnectAndClose(s) ==
  /\ up' = [up EXCEPT ![s] = <<>>]
  /\ down' = [down EXCEPT ![s] = <<>>]
  /\ place' = [place EXCEPT ![s] = "watched"]
  /\ shut' = (shut \ {s}) \cup {ac.sock}
  /\ spoilt' = spoilt \ {s}

\* jxr_connect_socket: close the socket there may be, connect another one,
\* which the manager accepts and watches.
Connect(s) ==
  /\ up' = [up EXCEPT ![s] = <<>>]
  /\ down' = [down EXCEPT ![s] = <<>>]
  /\ place' = [place EXCEPT ![s] = "watched"]
  /\ shut' = (shut \ {s}) \cup ({ac.sock} \ {NoSocket})
  /\ spoilt' = spoilt \ {s}

-----------------------------------------------------------------------------
(* Opening: a connection from the pool and the handshake (jxr_conn_open).  *)

\* Bound: connects that fail.
ConnectFails == crashes < MaxCrashes /\ crashes' = crashes + 1

\* The request has its outcome; the connection goes back to the pool, or
\* without a socket is not there any more.
Conclude(sock, proto, how) ==
  /\ ac' = Pooled(sock, ac.req, proto)
  /\ answer' = [answer EXCEPT ![ac.req] = how]

\* apr_reslist_invalidate and jxr_conn_destruct.
Invalidate(proto, how) ==
  /\ shut' = shut \cup ({ac.sock} \ {NoSocket})
  /\ Conclude(NoSocket, proto, how)

\* No connection: once more when another version is to be tried, otherwise the
\* filter answers 503, and the handler dereferences the connection it did not
\* get, which kills the child with what it remembered.
GiveUpOpening(m) ==
  IF m.retry /\ ~m.reopened
  THEN /\ shut' = shut \cup ({ac.sock} \ {NoSocket})
       /\ ac' = [m EXCEPT !.pc = "acquire", !.sock = NoSocket,
                          !.again = FALSE, !.reopened = TRUE]
       /\ UNCHANGED answer
  ELSE IF Handler(m.kind)
  THEN Invalidate(MOD_JAXER_PROTOCOL_VERSION, "crashed")
  ELSE Invalidate(m.use_proto, "unavailable")

\* A request comes to the child.
NewRequest(kind) ==
  /\ ac.pc = "free"
  /\ ac.req < MaxRequests
  /\ ac' = [ac EXCEPT !.pc = "acquire", !.req = @ + 1, !.kind = kind]
  /\ UNCHANGED <<streams, place, shut, wk, history>>

\* apr_reslist_acquire: the pool has a connection, or jxr_conn_construct makes
\* one.
Acquire ==
  /\ ac.pc = "acquire"
  /\ \/ /\ ac.sock # NoSocket
        /\ ac' = [ac EXCEPT !.pc = "begin"]
        /\ UNCHANGED <<streams, place, shut, history>>
     \/ /\ ac.sock = NoSocket
        /\ RoomToConnect
        /\ Connect(Fresh)
        /\ ac' = [ac EXCEPT !.pc = "begin", !.sock = Fresh]
        /\ UNCHANGED <<ran, answer, crashes>>
     \/ /\ ac.sock = NoSocket
        /\ ConnectFails
        /\ GiveUpOpening(ac)
        /\ UNCHANGED <<streams, place, ran, spoilt>>
  /\ UNCHANGED wk

\* jxr_send_begin_request_messsage, up to the reply.
SendBegin ==
  /\ ac.pc = "begin"
  /\ Send(ac.sock, <<[Block("BeginRequest", ac.req, ac.kind) EXCEPT !.version = ac.use_proto]>>)
  /\ ac' = [ac EXCEPT !.pc = "reply", !.retry = FALSE]
  /\ UNCHANGED <<down, place, shut, wk, history>>

Readable == down[ac.sock] # <<>>
Received == Head(down[ac.sock])
Receive == down' = [down EXCEPT ![ac.sock] = Tail(@)]

\* Faulty: any block is taken for the reply.
AnyReply == Readable /\ (Received.is = "BeginRequest" => Received.reply = 1)

GoodReply ==
  /\ Readable
  /\ Received.is = "BeginRequest"
  /\ Received.reply = 1
  /\ Received.version = JAXER_PROTOCOL_VERSION

Begun ==
  /\ ac.pc = "reply"
  /\ GoodReply
  /\ Receive
  /\ ac' = [ac EXCEPT !.pc = "headers"]
  /\ UNCHANGED <<up, place, shut, wk, history>>

\* The Jaxer speaks an older version, which is tried once.
Downgrade ==
  /\ Readable
  /\ Received.is = "BeginRequest"
  /\ Received.reply # 1
  /\ Received.version = 3
  /\ ac.use_proto > 3
  /\ ac.use_proto = MOD_JAXER_PROTOCOL_VERSION

\* Sending or receiving failed, or the reply is not the one wanted.
BeginFailed ==
  \/ ac.pc = "begin" /\ Ended(ac.sock)
  \/ ac.pc = "reply" /\ Reset(ac.sock)
  \/ ac.pc = "reply" /\ Readable /\ ~GoodReply

Refused ==
  IF Downgrade THEN [ac EXCEPT !.use_proto = 3, !.retry = TRUE] ELSE ac

\* The pooled connection may have been a stale one: begin on a new one.
BeginAgain ==
  /\ BeginFailed
  /\ ~ac.again
  /\ RoomToConnect
  /\ Connect(Fresh)
  /\ ac' = [Refused EXCEPT !.pc = "begin", !.sock = Fresh, !.again = TRUE]
  /\ UNCHANGED <<wk, ran, answer, crashes>>

BeginFails ==
  /\ BeginFailed
  /\ IF ac.again THEN UNCHANGED crashes ELSE ConnectFails
  /\ GiveUpOpening(Refused)
  /\ UNCHANGED <<streams, place, wk, ran, spoilt>>

-----------------------------------------------------------------------------
(* The request: jaxer_out_filter and jxr_handle_request.                   *)

Blocks(types) == [i \in DOMAIN types |-> Block(types[i], ac.req, ac.kind)]

Continue(pc, types) ==
  /\ Send(ac.sock, Blocks(types))
  /\ ac' = [ac EXCEPT !.pc = pc]
  /\ UNCHANGED <<down, place, shut, wk, history>>

\* A handler has no document of its own and sends everything at once.
SendHeaders ==
  /\ ac.pc = "headers"
  /\ IF Handler(ac.kind)
     THEN Continue("final", <<"Headers", "Document", "EndRequest">>)
     ELSE Continue("document", <<"Headers">>)

\* jxr_get_request_if_any before a block is sent: the worker asks for the post
\* data, which it may do once.
Asked == Readable /\ Received.is = "RequirePostData" /\ ~ac.postdata_sent
MaySend == ~Ended(ac.sock) /\ (Readable => Asked)

\* Faulty: ends the request once more after the post data.
SendPostDataAndEnd(block) ==
  /\ MaySend
  /\ Send(ac.sock, (IF Asked THEN Blocks(<<"PostData", "EndRequest">>) ELSE <<>>)
                   \o Blocks(<<block>>))
  /\ IF Asked THEN Receive ELSE UNCHANGED down

\* One round of jxr_send_document_brigade_to_jaxer.
SendAndAttend(block) ==
  /\ MaySend
  /\ Send(ac.sock, (IF Asked THEN Blocks(<<"PostData">>) ELSE <<>>) \o Blocks(<<block>>))
  /\ IF Asked THEN Receive ELSE UNCHANGED down

\* There is a block of the document at least: an empty one bypasses Jaxer.
SendDocument ==
  /\ ac.pc = "document"
  /\ ac.kind # "options"
  /\ ac.blocks < MaxBlocks
  /\ SendAndAttend("Document")
  /\ ac' = [ac EXCEPT !.blocks = @ + 1, !.postdata_sent = @ \/ Asked]
  /\ UNCHANGED <<place, shut, wk, history>>

SendEndRequest ==
  /\ ac.pc = "document"
  /\ ac.kind # "options"
  /\ ac.blocks > 0
  /\ SendAndAttend("EndRequest")
  /\ ac' = [ac EXCEPT !.pc = "final", !.postdata_sent = @ \/ Asked]
  /\ UNCHANGED <<place, shut, wk, history>>

\* For OPTIONS every call of the filter sends an empty document and its end;
\* there is another call when this brigade was not the last.
SendOptions(eos_seen) ==
  /\ ac.pc = "document"
  /\ ac.kind = "options"
  /\ eos_seen \/ ac.blocks + 1 < MaxBlocks
  /\ Send(ac.sock, Blocks(<<"Document", "EndRequest">>))
  /\ ac' = [ac EXCEPT !.blocks = @ + 1, !.pc = IF eos_seen THEN "final" ELSE @]
  /\ spoilt' = IF ac.blocks > 0 THEN spoilt \cup {ac.sock} ELSE spoilt
  /\ UNCHANGED <<down, place, shut, wk, ran, answer, crashes>>

\* The request is over before its last brigade: the filter is not called again,
\* and the pool's cleanup finds no error.
Abandon ==
  /\ ac.pc = "document"
  /\ Conclude(ac.sock, ac.use_proto, "abandoned")
  /\ spoilt' = spoilt \cup {ac.sock}
  /\ UNCHANGED <<streams, place, shut, wk, ran, crashes>>

\* Faulty: the stream is not ended again after the post data.
SendLatePostDataUnended ==
  /\ ac.pc = "final"
  /\ Asked
  /\ Send(ac.sock, Blocks(<<"PostData">>))
  /\ Receive
  /\ ac' = [ac EXCEPT !.postdata_sent = TRUE]
  /\ UNCHANGED <<place, shut, wk, history>>

\* The last chance for the worker to ask, after the end of the document.
SendLatePostData ==
  /\ ac.pc = "final"
  /\ Asked
  /\ Send(ac.sock, Blocks(<<"PostData", "EndRequest">>))
  /\ Receive
  /\ ac' = [ac EXCEPT !.postdata_sent = TRUE]
  /\ UNCHANGED <<place, shut, wk, history>>

\* Faulty: the body of a redirect is not read.
ReceiveRedirect ==
  /\ ac.pc = "final"
  /\ Readable
  /\ Received.is = "ResponseHeader"
  /\ Receive
  /\ Conclude(ac.sock, ac.use_proto, "served")
  /\ UNCHANGED <<up, place, shut, wk, ran, spoilt, crashes>>

ReceiveHeaders ==
  /\ ac.pc = "final"
  /\ Readable
  /\ Received.is = "ResponseHeader"
  /\ Receive
  /\ ac' = [ac EXCEPT !.pc = "body"]
  /\ UNCHANGED <<up, place, shut, wk, history>>

\* jxr_process_response_body.
ReceiveBody ==
  /\ ac.pc = "body"
  /\ Readable
  /\ Received.is = "Document"
  /\ Receive
  /\ UNCHANGED <<ac, up, place, shut, wk, history>>

\* The whole response is here, and proc_close_socket releases the connection.
ReceiveEnd ==
  /\ ac.pc = "body"
  /\ Readable
  /\ Received.is = "EndRequest"
  /\ Receive
  /\ Conclude(ac.sock, ac.use_proto, "served")
  /\ UNCHANGED <<up, place, shut, wk, ran, spoilt, crashes>>

\* What the connector may receive where it is.
Expected ==
  CASE ac.pc = "document" -> Asked \/ ac.kind = "options"
    [] ac.pc = "final"    -> Asked \/ Received.is = "ResponseHeader"
    [] ac.pc = "body"     -> Received.is \in {"Document", "EndRequest"}

Failing ==
  \/ ac.pc \in {"headers", "document"} /\ Ended(ac.sock)
  \/ ac.pc \in {"final", "body"} /\ Reset(ac.sock)
  \/ ac.pc \in {"document", "final", "body"} /\ Readable /\ ~Expected

\* Faulty: the whole request is sent again.
FailAndRetry ==
  /\ Failing
  /\ shut' = shut \cup {ac.sock}
  /\ ac' = [Pooled(NoSocket, ac.req, ac.use_proto)
              EXCEPT !.pc = "acquire", !.kind = ac.kind]
  /\ UNCHANGED <<streams, place, wk, history>>

\* A block cannot be sent or received, or is not expected: has_error, and
\* proc_close_socket invalidates the connection.
Fail ==
  /\ Failing
  /\ Invalidate(ac.use_proto, "failed")
  /\ UNCHANGED <<streams, place, wk, ran, spoilt, crashes>>

-----------------------------------------------------------------------------
(* The manager's part: RequestArrived, RedeployServer, DeleteServer.       *)

Busy == {w \in Workers : wk[w].sock # NoSocket}
Dead(w) == wk[w].pc \in {"exited", "confused"}

\* There is something to read, or the connector closed the socket.
Arrived(s) == place[s] = "watched" /\ (up[s] # <<>> \/ s \in shut)

CloseWatched(s) ==
  /\ Arrived(s)
  /\ up[s] = <<>>
  /\ place' = [place EXCEPT ![s] = "closed"]
  /\ UNCHANGED <<ac, streams, shut, wk, history>>

\* The request waits until a worker is there.
Enqueue(s) ==
  /\ Arrived(s)
  /\ up[s] # <<>>
  /\ Workers = Busy
  /\ place' = [place EXCEPT ![s] = "waiting"]
  /\ UNCHANGED <<ac, streams, shut, wk, history>>

Hand(s, w) ==
  /\ (Arrived(s) /\ up[s] # <<>>) \/ place[s] = "waiting"
  /\ w \notin Busy
  /\ place' = [place EXCEPT ![s] = "handed"]
  /\ wk' = [wk EXCEPT ![w] = [Waiting EXCEPT !.pc = "next", !.sock = s]]
  /\ UNCHANGED <<ac, streams, shut, history>>

\* The worker said END_REQUEST; the socket is watched again.
TakeBack(w) ==
  /\ wk[w].pc = "ended"
  /\ place' = [place EXCEPT ![wk[w].sock] = "watched"]
  /\ wk' = [wk EXCEPT ![w] = Waiting]
  /\ UNCHANGED <<ac, streams, shut, history>>

\* The worker is gone, and the connection bound to it goes with it.
DeleteServer(w) ==
  /\ Dead(w)
  /\ place' = [place EXCEPT ![wk[w].sock] = "closed"]
  /\ wk' = [wk EXCEPT ![w] = Waiting]
  /\ UNCHANGED <<ac, streams, shut, history>>

-----------------------------------------------------------------------------
(* The worker: FetchFCGX on an FCGXStream.                                 *)

Stream(w) == up[wk[w].sock]
At(w, pc) == wk[w].pc = pc
Type(w) == Head(Stream(w)).is
Comes(w, types) == Stream(w) # <<>> /\ Type(w) \in types
Junk(w, types) == Stream(w) # <<>> /\ Type(w) \notin types

Step(w, m) == wk' = [wk EXCEPT ![w] = m]
Consume(w) == up' = [up EXCEPT ![wk[w].sock] = Tail(@)]
Reply(w, blocks) == down' = [down EXCEPT ![wk[w].sock] = @ \o blocks]
Tell(w, types) ==
  Reply(w, [i \in DOMAIN types |-> Block(types[i], wk[w].req, wk[w].kind)])

\* mRecvCurBlockType moves to the next block.
Take(w, from, types, to) ==
  /\ At(w, from)
  /\ Comes(w, types)
  /\ Consume(w)
  /\ Step(w, [wk[w] EXCEPT !.pc = to])
  /\ UNCHANGED <<ac, down, place, shut, history>>

\* The next block is another one, which is left for later.
Leave(w, from, types, to) ==
  /\ At(w, from)
  /\ Junk(w, types)
  /\ Step(w, [wk[w] EXCEPT !.pc = to])
  /\ UNCHANGED <<ac, streams, place, shut, history>>

Accepts(w, version) ==
  version = 3 \/ (version = JAXER_PROTOCOL_VERSION /\ w \notin OldWorkers)

\* NextRequest: a version that is accepted is answered with itself; after a
\* refusal ProcessRequest fails and the worker exits.
NextRequest(w) ==
  LET b  == Head(Stream(w))
      ok == Accepts(w, b.version)
  IN  /\ At(w, "next")
      /\ Comes(w, {"BeginRequest"})
      /\ Consume(w)
      /\ Reply(w, <<[Block("BeginRequest", b.of, b.kind) EXCEPT
                       !.version = IF ok THEN b.version
                                   ELSE IF w \in OldWorkers THEN 3
                                   ELSE JAXER_PROTOCOL_VERSION,
                       !.reply = IF ok THEN 1 ELSE 0]>>)
      /\ Step(w, [wk[w] EXCEPT !.pc = IF ok THEN "headers" ELSE "exited", !.req = b.of])
      /\ UNCHANGED <<ac, place, shut, history>>

\* Request headers, response headers and environment, then the RequestStart
\* event: from here on the request has effects.
StartPage(w) ==
  /\ At(w, "headers")
  /\ Comes(w, {"Headers"})
  /\ Consume(w)
  /\ LET b == Head(Stream(w))
     IN  /\ Step(w, [wk[w] EXCEPT !.pc = "document", !.kind = b.kind])
         /\ ran' = [ran EXCEPT ![b.of] = @ + 1]
  /\ UNCHANGED <<ac, down, place, shut, answer, spoilt, crashes>>

\* BeginDocumentReceive.  The document of OPTIONS, and of a request Jaxer
\* handles itself, is not read.
BeginDocumentReceive(w) ==
  LET k == wk[w].kind
  IN  Take(w, "document", {"Document"},
           IF Posts(k) THEN "ask"
           ELSE IF Handler(k) \/ k = "options" THEN "end" ELSE "parse")

RequestPostData(w) ==
  /\ At(w, "ask")
  /\ Tell(w, <<"RequirePostData">>)
  /\ Step(w, [wk[w] EXCEPT !.pc = "aside"])
  /\ UNCHANGED <<ac, up, place, shut, history>>

\* The document that comes before the post data is set aside.
SetAside(w) == Take(w, "aside", {"Document"}, "aside")

\* The web server was faster and ended the document; it ends the post data too.
SeeEndRequest(w) ==
  /\ At(w, "aside")
  /\ Comes(w, {"EndRequest"})
  /\ Consume(w)
  /\ Step(w, [wk[w] EXCEPT !.pc = "postdata", !.after = TRUE])
  /\ UNCHANGED <<ac, down, place, shut, history>>

NoEndYet(w) == Leave(w, "aside", {"Document", "EndRequest"}, "postdata")
BeginPostData(w) == Take(w, "postdata", {"PostData"}, "posting")
ReadPostData(w) == Take(w, "posting", {"PostData"}, "posting")

\* ResumeDocumentReceive, at the first block that is no post data.
ResumeDocumentReceive(w) ==
  Leave(w, "posting", {"PostData"},
        IF Handler(wk[w].kind) \/ wk[w].after THEN "end" ELSE "parse")

\* Read, until the end of the document.
Read(w) == Take(w, "parse", {"Document"}, "parse")
EndOfDocument(w) == Leave(w, "parse", {"Document"}, "end")

GetEndRequest(w) == Take(w, "end", {"EndRequest"}, "respond")

\* The page is done: response headers and body.
Respond(w) ==
  /\ At(w, "respond")
  /\ Tell(w, <<"ResponseHeader", "Document">>)
  /\ Step(w, [wk[w] EXCEPT !.pc = "finish"])
  /\ UNCHANGED <<ac, up, place, shut, history>>

\* EndResponse closes the worker's handle; what it had read ahead is dropped.
EndResponse(w) ==
  /\ At(w, "finish")
  /\ Tell(w, <<"EndRequest">>)
  /\ \E n \in 0..Len(Stream(w)) :
       up' = [up EXCEPT ![wk[w].sock] = SubSeq(@, n + 1, Len(@))]
  /\ Step(w, [wk[w] EXCEPT !.pc = "ended"])
  /\ UNCHANGED <<ac, place, shut, history>>

\* LogFatal and exit: a block that is not the expected one.
Confused(w) ==
  /\ \/ At(w, "next") /\ Junk(w, {"BeginRequest"})
     \/ At(w, "headers") /\ Junk(w, {"Headers"})
     \/ At(w, "document") /\ Junk(w, {"Document"})
     \/ At(w, "postdata") /\ Junk(w, {"PostData"})
     \/ At(w, "end") /\ Junk(w, {"EndRequest"})
  /\ Step(w, [wk[w] EXCEPT !.pc = "confused"])
  /\ UNCHANGED <<ac, streams, place, shut, history>>

\* "Unexpected connection close."
Reading == {"next", "headers", "document", "aside", "postdata", "posting", "parse", "end"}
Cut(w) ==
  /\ wk[w].pc \in Reading
  /\ Stream(w) = <<>>
  /\ wk[w].sock \in shut
  /\ Step(w, [wk[w] EXCEPT !.pc = "exited"])
  /\ UNCHANGED <<ac, streams, place, shut, history>>

\* A page that crashes, or runs into requesttimeout and is killed.
WorkerDies(w) ==
  /\ w \in Busy
  /\ ~Dead(w)
  /\ crashes < MaxCrashes
  /\ crashes' = crashes + 1
  /\ Step(w, [wk[w] EXCEPT !.pc = "exited"])
  /\ UNCHANGED <<ac, streams, place, shut, ran, answer, spoilt>>

-----------------------------------------------------------------------------
Connector ==
  \/ Acquire
  \/ SendBegin
  \/ Begun
  \/ BeginAgain
  \/ BeginFails
  \/ SendHeaders
  \/ SendDocument
  \/ SendEndRequest
  \/ \E eos_seen \in BOOLEAN : SendOptions(eos_seen)
  \/ SendLatePostData
  \/ ReceiveHeaders
  \/ ReceiveBody
  \/ ReceiveEnd
  \/ Fail

Manager ==
  \/ \E s \in Sockets : CloseWatched(s) \/ Enqueue(s)
  \/ \E s \in Sockets, w \in Workers : Hand(s, w)
  \/ \E w \in Workers : TakeBack(w) \/ DeleteServer(w)

Worker(w) ==
  \/ NextRequest(w)
  \/ StartPage(w)
  \/ BeginDocumentReceive(w)
  \/ RequestPostData(w)
  \/ SetAside(w)
  \/ SeeEndRequest(w)
  \/ NoEndYet(w)
  \/ BeginPostData(w)
  \/ ReadPostData(w)
  \/ ResumeDocumentReceive(w)
  \/ Read(w)
  \/ EndOfDocument(w)
  \/ GetEndRequest(w)
  \/ Respond(w)
  \/ EndResponse(w)
  \/ Confused(w)
  \/ Cut(w)

Next ==
  \/ \E kind \in Kinds : NewRequest(kind)
  \/ Connector
  \/ Abandon
  \/ Manager
  \/ \E w \in Workers : Worker(w) \/ WorkerDies(w)

Spec == Init /\ [][Next]_vars

\* The child, the manager and every worker that is not waiting keep going: a
\* page that does not end is killed.  Nobody gives up, crashes or asks because
\* he must.
Fairness ==
  /\ WF_vars(Connector)
  /\ WF_vars(Manager)
  /\ \A w \in Workers : WF_vars(Worker(w))

FairSpec == Spec /\ Fairness

-----------------------------------------------------------------------------
(* Safety.                                                                 *)

Ways == {"none", "served", "failed", "abandoned", "unavailable", "crashed"}
Steps == {"free", "acquire", "begin", "reply", "headers", "document", "final", "body"}
AnyKind == {"none", "get", "post", "options", "handler", "handlerpost"}
Types == {"BeginRequest", "Headers", "Document", "PostData", "EndRequest",
          "RequirePostData", "ResponseHeader"}
AnyBlock == [is : Types, of : AnyRequest, kind : AnyKind, version : {0, 3, 4}, reply : {0, 1}]

TypeOK ==
  /\ ac \in [pc : Steps, sock : Sockets \cup {NoSocket}, req : AnyRequest,
             kind : AnyKind, again : BOOLEAN, reopened : BOOLEAN, blocks : 0..MaxBlocks,
             postdata_sent : BOOLEAN, use_proto : {3, 4}, retry : BOOLEAN]
  /\ up \in [Sockets -> Seq(AnyBlock)]
  /\ down \in [Sockets -> Seq(AnyBlock)]
  /\ place \in [Sockets -> {"watched", "waiting", "handed", "closed"}]
  /\ shut \in SUBSET Sockets
  /\ wk \in [Workers ->
              [pc : Reading \cup {"free", "ask", "respond", "finish", "ended", "exited", "confused"},
               sock : Sockets \cup {NoSocket}, req : AnyRequest, kind : AnyKind,
               after : BOOLEAN]]
  /\ ran \in [Request -> Nat]
  /\ answer \in [Request -> Ways]
  /\ spoilt \in SUBSET Sockets
  /\ crashes \in 0..MaxCrashes

\* A page runs at most once for a request, whatever connection it comes on and
\* however often the connector begins it; a request that is answered ran.
RunsOnce ==
  \A r \in Request :
    /\ ran[r] <= 1
    /\ answer[r] = "served" => ran[r] = 1

\* What the connector takes for an answer to its request is one: no block of an
\* earlier request is left in a connection that comes from the pool.
OwnAnswer ==
  ac.pc \in {"headers", "document", "final", "body"} =>
    \A i \in DOMAIN down[ac.sock] : down[ac.sock][i].of = ac.req

\* A worker is never confused by what the connector sends, in either order of
\* the end of the document and the post data, unless the request was given up
\* in the middle or OPTIONS was sent more than once.
NeverConfused ==
  \A w \in Workers : At(w, "confused") => wk[w].sock \in spoilt

\* A connection is given back to the pool with nothing left in it, and with no
\* worker reading it.
PooledClean ==
  ac.pc = "free" /\ ac.sock # NoSocket /\ ac.sock \notin spoilt =>
    /\ down[ac.sock] = <<>>
    /\ up[ac.sock] = <<>>
    /\ \A w \in Workers : wk[w].sock = ac.sock => wk[w].pc \in {"ended", "exited"}

\* A request fails in the middle only because a worker died or OPTIONS was sent
\* twice: the state a connection was left in by an earlier request, even one
\* that was given up, is noticed while the next one begins.
NoFailureWithoutCause ==
  [][ \A r \in Request : answer[r] = "none" /\ answer'[r] = "failed" =>
        crashes > 0 \/ (ac.kind = "options" /\ ac.blocks > 1) ]_vars

\* mod_jaxer_connection.h:81 has the connector "try with a lower version": a
\* worker that accepts the version it was begun with serves the request.
OlderVersionServes ==
  [][ ac.pc = "reply" /\ Readable /\ Received.reply = 1 /\ ac' # ac
        => ac'.pc = "headers" ]_vars

-----------------------------------------------------------------------------
(* Liveness.                                                               *)

\* Every request of the web server that is not given up ends: the connector and
\* the worker never wait for each other.
RequestEnds ==
  \A r \in Request : ac.req = r /\ ac.pc # "free" ~> answer[r] # "none"
=============================================================================
