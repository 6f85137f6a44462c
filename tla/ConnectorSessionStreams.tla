------------------------ MODULE ConnectorSessionStreams ------------------------
(***************************************************************************)
(* Proofs about ConnectorSession, on what a worker may find in its stream  *)
(* and how far the two sides of a request are: no worker is confused, a    *)
(* connection goes back to the pool empty, and no request fails without a  *)
(* cause.                                                                  *)
(*                                                                         *)
(* The invariant says where the worker of a request is, given what the     *)
(* connector sent last and what of it is still on its way (InStep).  It is *)
(* conditional on the connection being Clean, because a request that was   *)
(* given up leaves half of itself in the stream.                           *)
(***************************************************************************)
EXTENDS ConnectorSessionProofs

-----------------------------------------------------------------------------
(* What the connector writes, and what a worker that reads it may find.    *)

Has(q, type) == \E i \in 1..Len(q) : q[i].is = type

\* What may follow a block of a request of this kind.
Follow(kind, type) ==
  CASE type = "Headers" -> {"Document"}
    [] type = "Document" -> IF Handler(kind) \/ kind = "options" THEN {"EndRequest"}
                            ELSE {"Document", "EndRequest", "PostData"}
    [] type = "PostData" -> {"Document", "EndRequest"}
    [] type = "EndRequest" -> IF Posts(kind) THEN {"PostData"} ELSE {}
    [] OTHER -> {}

\* The blocks are of one request and in an order it may have: no document after
\* its end, and the post data once.
Ordered(q) ==
  /\ \A i \in 1..Len(q) : i < Len(q) => q[i + 1].is \in Follow(q[i].kind, q[i].is)
  /\ \A i, j \in 1..Len(q) : i < j /\ q[i].is = "EndRequest" => q[j].is # "Document"
  /\ \A i, j \in 1..Len(q) : q[i].is = "PostData" /\ q[j].is = "PostData" => i = j
  /\ \A i, j \in 1..Len(q) : q[i].kind = q[j].kind

\* What a worker may find next, for each place it is at.
FirstOf(pc) ==
  CASE pc \in {"next", "ended"} -> {"BeginRequest"}
    [] pc = "headers" -> {"Headers"}
    [] pc = "document" -> {"Document"}
    [] pc \in {"ask", "posting", "parse"} -> {"Document", "EndRequest"}
    [] pc = "aside" -> {"Document", "EndRequest", "PostData"}
    [] pc = "postdata" -> {"PostData"}
    [] pc = "end" -> {"EndRequest"}
    [] OTHER -> {}
Knows(m) == m.pc \notin {"free", "next", "headers", "ended", "exited"}

\* The worker m can read the stream q to its end.
WellTold(m, q) ==
  /\ m.pc # "confused"
  /\ m.after => m.pc \notin {"next", "headers", "document", "ask", "aside", "parse"}
  /\ m.pc \in {"ask", "aside", "postdata", "posting"} => Posts(m.kind)
  /\ m.pc # "exited" =>
       /\ Ordered(q)
       /\ Len(q) > 0 => q[1].is \in FirstOf(m.pc)
       /\ Has(q, "PostData") => m.pc \in {"aside", "postdata"}
       /\ m.after \/ (Handler(m.kind) /\ Knows(m) /\ m.pc # "document") => ~Has(q, "Document")
       /\ Knows(m) => \A i \in 1..Len(q) : q[i].kind = m.kind

\* The last block of its request that the connector c sent, and where a worker m
\* is that has read everything.
LastSent(c) ==
  IF c.pc = "document" /\ c.blocks = 0 THEN "Headers"
  ELSE IF c.pc = "document" /\ c.kind # "options" THEN "Document"
  ELSE "EndRequest"
Awaiting(c, m) ==
  CASE LastSent(c) = "Headers" -> m.pc = "document"
    [] LastSent(c) = "Document" -> m.pc \in {"ask", "aside", "posting", "parse"}
    [] OTHER -> m.pc \in {"respond", "finish", "ended"} \/ (m.pc = "postdata" /\ m.after)

\* The answer, as much of it as the connector did not receive yet.
Delivered(c, d) ==
  IF c.pc = "body"
  THEN \/ Len(d) = 2 /\ d[1].is = "Document" /\ d[2].is = "EndRequest"
       \/ Len(d) = 1 /\ d[1].is = "EndRequest"
  ELSE Len(d) = 3 /\ d[1].is = "ResponseHeader" /\ d[2].is = "Document" /\ d[3].is = "EndRequest"
Said(c, m, d) ==
  CASE m.pc \in {"aside", "postdata"} ->
         IF c.postdata_sent THEN Len(d) = 0 ELSE Len(d) = 1 /\ d[1].is = "RequirePostData"
    [] m.pc = "finish" ->
         IF c.pc = "body" THEN Len(d) = 0 \/ (Len(d) = 1 /\ d[1].is = "Document")
         ELSE Len(d) = 2 /\ d[1].is = "ResponseHeader" /\ d[2].is = "Document"
    [] m.pc = "ended" -> Delivered(c, d)
    [] OTHER -> Len(d) = 0

\* The worker m that serves the request of the connector c, with the blocks u and
\* d on their way between them.
InStep(c, m, u, d) ==
  /\ m.req = c.req
  /\ m.pc \notin {"next", "free"}
  /\ m.pc # "headers" => m.kind = c.kind
  /\ c.pc = "headers" => m.pc = "headers" /\ Len(u) = 0
  /\ c.pc # "headers" =>
       /\ IF Len(u) > 0 THEN u[Len(u)].is = LastSent(c) ELSE Awaiting(c, m)
       /\ LastSent(c) # "EndRequest" => ~Has(u, "EndRequest") /\ ~m.after
  /\ \A i \in 1..Len(u) : u[i].kind = c.kind
  /\ Has(u, "PostData") => c.postdata_sent
  /\ m.pc \in {"headers", "document", "ask"} => ~c.postdata_sent
  /\ c.pc = "body" => m.pc \in {"finish", "ended"}
  /\ Said(c, m, d)

\* A socket on which nothing was given up or sent twice, as far as the request
\* goes that is on it.
Clean(s) == s \notin spoilt \/ (s = ac.sock /\ Talking /\ ~Doubled)

Told == \A w \in Workers : wk[w].sock # NoSocket /\ Clean(wk[w].sock) => WellTold(wk[w], up[wk[w].sock])

\* What waits for a worker is the begin of a request.
Fetched ==
  \A s \in Sockets : place[s] \in {"watched", "waiting"} /\ s \notin spoilt =>
    Len(up[s]) = 0 \/ (Len(up[s]) = 1 /\ up[s][1].is = "BeginRequest")

\* The connector and the worker agree on how far the request is.
Serving == Talking /\ ~Doubled
Coupled ==
  Serving => \A w \in Workers : wk[w].sock = ac.sock =>
    IF Dead(w) THEN crashes > 0 ELSE InStep(ac, wk[w], up[ac.sock], down[ac.sock])
AtWork ==
  Serving =>
    /\ place[ac.sock] = "closed" => crashes > 0
    /\ place[ac.sock] # "waiting"
    /\ place[ac.sock] = "watched" =>
         /\ Len(up[ac.sock]) = 0 /\ ac.pc # "headers"
         /\ LastSent(ac) = "EndRequest" /\ Delivered(ac, down[ac.sock])
LastWord ==
  Serving => \A i \in 1..Len(down[ac.sock]) :
    /\ down[ac.sock][i].is = "EndRequest" =>
         /\ i = Len(down[ac.sock]) /\ Len(up[ac.sock]) = 0 /\ LastSent(ac) = "EndRequest"
         /\ \A w \in Workers : wk[w].sock = ac.sock => wk[w].pc \in {"ended", "exited"}
    /\ down[ac.sock][i].is = "RequirePostData" => Len(down[ac.sock]) = 1

\* A connection nobody uses.
Quiet ==
  ac.pc \in {"free", "acquire", "begin"} /\ ac.sock # NoSocket /\ ac.sock \notin spoilt =>
    /\ Len(up[ac.sock]) = 0 /\ Len(down[ac.sock]) = 0 /\ place[ac.sock] # "waiting"
    /\ \A w \in Workers : wk[w].sock = ac.sock => wk[w].pc \in {"ended", "exited"}

\* A worker that has not begun its request saw no end of it.
Unread == \A w \in Workers : wk[w].pc \in {"next", "headers"} => ~wk[w].after

Conversation == Told /\ Unread /\ Fetched /\ Coupled /\ AtWork /\ LastWord /\ Quiet

-----------------------------------------------------------------------------
(* Streams with a block less and with more blocks.                         *)

LEMMA Follows ==
  /\ \A kind : Follow(kind, "Headers") = {"Document"}
  /\ \A kind : Follow(kind, "Document") \subseteq {"Document", "EndRequest", "PostData"}
  /\ \A kind : Handler(kind) \/ kind = "options" => Follow(kind, "Document") = {"EndRequest"}
  /\ \A kind : ~(Handler(kind) \/ kind = "options") =>
       Follow(kind, "Document") = {"Document", "EndRequest", "PostData"}
  /\ \A kind : Follow(kind, "PostData") = {"Document", "EndRequest"}
  /\ \A kind : Follow(kind, "EndRequest") = IF Posts(kind) THEN {"PostData"} ELSE {}
  /\ \A kind : Follow(kind, "BeginRequest") = {}
  /\ \A kind, type : "Headers" \notin Follow(kind, type)
BY DEF Follow

LEMMA OrderedTail ==
  ASSUME NEW q, NEW r, IsTail(r, q), Ordered(q)
  PROVE  /\ Ordered(r) /\ Len(r) \in Nat
         /\ Len(r) > 0 => r[1].is \in Follow(q[1].kind, q[1].is) /\ r[Len(r)] = q[Len(q)]
         /\ Len(r) = 0 => Len(q) = 1
         /\ \A type : Has(r, type) => Has(q, type)
         /\ q[1].is = "EndRequest" => ~Has(r, "Document")
         /\ q[1].is = "PostData" => ~Has(r, "PostData")
         /\ \A i \in 1..Len(r) : r[i].kind = q[1].kind
<1>1. /\ Len(q) \in Nat \ {0} /\ Len(r) = Len(q) - 1
      /\ \A i \in 1..Len(r) : i + 1 \in 1..Len(q) /\ r[i] = q[i + 1]
  BY DEF IsTail
<1>2. 1 \in 1..Len(q) /\ Len(r) \in Nat
  BY <1>1
<1>3. \A i \in 1..Len(r) : i < Len(r) => r[i + 1].is \in Follow(r[i].kind, r[i].is)
  <2>1. ASSUME NEW i \in 1..Len(r), i < Len(r)
        PROVE  r[i + 1].is \in Follow(r[i].kind, r[i].is)
    <3>1. /\ i + 1 \in 1..Len(r) /\ i + 1 \in 1..Len(q) /\ i + 1 < Len(q)
          /\ r[i] = q[i + 1] /\ r[i + 1] = q[(i + 1) + 1]
      BY <1>1, <2>1
    <3> QED
      BY <3>1 DEF Ordered
  <2> QED
    BY <2>1
<1>4. \A i, j \in 1..Len(r) : i < j /\ r[i].is = "EndRequest" => r[j].is # "Document"
  BY <1>1 DEF Ordered
<1>5. \A i, j \in 1..Len(r) : r[i].is = "PostData" /\ r[j].is = "PostData" => i = j
  <2>1. ASSUME NEW i \in 1..Len(r), NEW j \in 1..Len(r), r[i].is = "PostData", r[j].is = "PostData"
        PROVE  i = j
    <3>1. i + 1 = j + 1
      BY <1>1, <2>1 DEF Ordered
    <3> QED
      BY <3>1
  <2> QED
    BY <2>1
<1>6. \A i \in 1..Len(r) : r[i].kind = q[1].kind
  BY <1>1, <1>2 DEF Ordered
<1>7. ASSUME Len(r) > 0 PROVE r[1].is \in Follow(q[1].kind, q[1].is) /\ r[Len(r)] = q[Len(q)]
  <2>1. r[1] = q[1 + 1] /\ 1 < Len(q) /\ Len(r) \in 1..Len(r) /\ Len(r) + 1 = Len(q)
    BY <1>1, <1>2, <1>7
  <2> QED
    BY <1>1, <1>2, <2>1 DEF Ordered
<1>8. ASSUME NEW i \in 1..Len(r)
      PROVE  /\ q[1].is = "EndRequest" => r[i].is # "Document"
             /\ q[1].is = "PostData" => r[i].is # "PostData"
  <2>1. i + 1 \in 1..Len(q) /\ r[i] = q[i + 1] /\ 1 < i + 1 /\ i + 1 # 1
    BY <1>1, <1>8
  <2> QED
    BY <1>2, <2>1 DEF Ordered
<1>9. \A type : Has(r, type) => Has(q, type)
  BY <1>1 DEF Has
<1> QED
  BY <1>1, <1>2, <1>3, <1>4, <1>5, <1>6, <1>7, <1>8, <1>9 DEF Ordered, Has

LEMMA OrderedJoin ==
  ASSUME NEW q, NEW r, NEW p, IsAppended(r, q, p), Ordered(q), Ordered(p), Len(p) > 0,
         NEW kind, \A i \in 1..Len(q) : q[i].kind = kind, \A i \in 1..Len(p) : p[i].kind = kind,
         Len(q) > 0 => p[1].is \in Follow(kind, q[Len(q)].is),
         Has(q, "EndRequest") => ~Has(p, "Document"),
         Has(q, "PostData") => ~Has(p, "PostData")
  PROVE  /\ Ordered(r) /\ Len(r) \in Nat \ {0} /\ r[Len(r)] = p[Len(p)]
         /\ r[1] = IF Len(q) > 0 THEN q[1] ELSE p[1]
         /\ \A type : Has(r, type) => Has(q, type) \/ Has(p, type)
         /\ \A i \in 1..Len(r) : r[i].kind = kind
<1>1. /\ Len(q) \in Nat /\ Len(p) \in Nat /\ Len(r) = Len(q) + Len(p)
      /\ \A i \in 1..Len(q) : r[i] = q[i]
      /\ \A i \in 1..Len(p) : r[Len(q) + i] = p[i]
      /\ \A i \in 1..Len(r) : i \notin 1..Len(q) => i - Len(q) \in 1..Len(p) /\ r[i] = p[i - Len(q)]
  BY DEF IsAppended
<1>2. ASSUME NEW i \in 1..Len(r)
      PROVE  \/ i \in 1..Len(q) /\ r[i] = q[i]
             \/ i > Len(q) /\ i - Len(q) \in 1..Len(p) /\ r[i] = p[i - Len(q)]
  BY <1>1
<1>3. \A i \in 1..Len(r) : r[i].kind = kind
  BY <1>2
<1>4. ASSUME NEW i \in 1..Len(r), i < Len(r)
      PROVE  r[i + 1].is \in Follow(r[i].kind, r[i].is)
  <2>1. i + 1 \in 1..Len(r)
    BY <1>1, <1>4
  <2>2. CASE i + 1 \in 1..Len(q)
    <3>1. i \in 1..Len(q) /\ i < Len(q)
      BY <1>1, <1>4, <2>2
    <3> QED
      BY <1>1, <2>2, <3>1 DEF Ordered
  <2>3. CASE i \notin 1..Len(q)
    <3>1. /\ i - Len(q) \in 1..Len(p) /\ i - Len(q) < Len(p) /\ r[i] = p[i - Len(q)]
          /\ (i - Len(q)) + 1 = (i + 1) - Len(q)
      BY <1>1, <1>4, <2>3
    <3>2. i + 1 \notin 1..Len(q) /\ r[i + 1] = p[(i + 1) - Len(q)]
      BY <1>1, <2>1, <2>3
    <3> QED
      BY <3>1, <3>2 DEF Ordered
  <2>4. CASE i \in 1..Len(q) /\ i + 1 \notin 1..Len(q)
    <3>1. i = Len(q) /\ 1 \in 1..Len(p) /\ r[i] = q[Len(q)] /\ r[i + 1] = p[1]
      BY <1>1, <2>1, <2>4
    <3> QED
      BY <1>3, <3>1
  <2> QED
    BY <2>2, <2>3, <2>4
<1>5. ASSUME NEW i \in 1..Len(r), NEW j \in 1..Len(r), i < j, r[i].is = "EndRequest"
      PROVE  r[j].is # "Document"
  <2>1. CASE j \in 1..Len(q)
    <3>1. i \in 1..Len(q)
      BY <1>1, <1>5, <2>1
    <3> QED
      BY <1>1, <1>5, <2>1, <3>1 DEF Ordered
  <2>2. CASE j \notin 1..Len(q) /\ i \in 1..Len(q)
    <3>1. i \in 1..Len(q) /\ q[i].is = "EndRequest"
      BY <1>1, <1>5, <2>2
    <3>2. j - Len(q) \in 1..Len(p) /\ r[j] = p[j - Len(q)]
      BY <1>1, <2>2
    <3> QED
      BY <3>1, <3>2 DEF Has
  <2>3. CASE i \notin 1..Len(q)
    <3>1. /\ i - Len(q) \in 1..Len(p) /\ r[i] = p[i - Len(q)]
          /\ j - Len(q) \in 1..Len(p) /\ r[j] = p[j - Len(q)] /\ i - Len(q) < j - Len(q)
      BY <1>1, <1>5, <2>3
    <3> QED
      BY <1>5, <3>1 DEF Ordered
  <2> QED
    BY <2>1, <2>2, <2>3
<1>6. ASSUME NEW i \in 1..Len(r), NEW j \in 1..Len(r), r[i].is = "PostData", r[j].is = "PostData"
      PROVE  i = j
  <2>1. CASE i \in 1..Len(q) /\ j \in 1..Len(q)
    BY <1>1, <1>6, <2>1 DEF Ordered
  <2>2. CASE i \notin 1..Len(q) /\ j \notin 1..Len(q)
    <3>1. /\ i - Len(q) \in 1..Len(p) /\ r[i] = p[i - Len(q)]
          /\ j - Len(q) \in 1..Len(p) /\ r[j] = p[j - Len(q)]
      BY <1>1, <1>6, <2>2
    <3>2. i - Len(q) = j - Len(q)
      BY <1>6, <3>1 DEF Ordered
    <3> QED
      BY <1>1, <3>2
  <2>3. CASE i \in 1..Len(q) /\ j \notin 1..Len(q)
    <3>1. q[i].is = "PostData"
      BY <1>1, <1>6, <2>3
    <3>2. j - Len(q) \in 1..Len(p) /\ p[j - Len(q)].is = "PostData"
      BY <1>1, <1>6, <2>3
    <3> QED
      BY <1>2, <2>3, <3>1, <3>2 DEF Has
  <2>4. CASE i \notin 1..Len(q) /\ j \in 1..Len(q)
    <3>1. q[j].is = "PostData"
      BY <1>1, <1>6, <2>4
    <3>2. i - Len(q) \in 1..Len(p) /\ p[i - Len(q)].is = "PostData"
      BY <1>1, <1>6, <2>4
    <3> QED
      BY <1>2, <2>4, <3>1, <3>2 DEF Has
  <2> QED
    BY <2>1, <2>2, <2>3, <2>4
<1>7. Len(r) \in Nat \ {0} /\ r[Len(r)] = p[Len(p)]
  BY <1>1
<1>8. r[1] = IF Len(q) > 0 THEN q[1] ELSE p[1]
  BY <1>1
<1>9. \A type : Has(r, type) => Has(q, type) \/ Has(p, type)
  BY <1>2 DEF Has
<1> QED
  BY <1>3, <1>4, <1>5, <1>6, <1>7, <1>8, <1>9 DEF Ordered

-----------------------------------------------------------------------------
(* A worker that can read its stream to the end still can after a step.    *)

LEMMA Firsts ==
  /\ FirstOf("next") = {"BeginRequest"} /\ FirstOf("ended") = {"BeginRequest"}
  /\ FirstOf("headers") = {"Headers"} /\ FirstOf("document") = {"Document"}
  /\ FirstOf("ask") = {"Document", "EndRequest"} /\ FirstOf("posting") = {"Document", "EndRequest"}
  /\ FirstOf("parse") = {"Document", "EndRequest"}
  /\ FirstOf("aside") = {"Document", "EndRequest", "PostData"}
  /\ FirstOf("postdata") = {"PostData"} /\ FirstOf("end") = {"EndRequest"}
  /\ FirstOf("respond") = {} /\ FirstOf("finish") = {}
BY DEF FirstOf

\* What is left for a worker after it read the first block.
LEMMA ToldReading ==
  ASSUME NEW m, NEW n, NEW q, NEW r, IsTail(r, q), WellTold(m, q), m.pc # "exited",
         n.kind = m.kind, AfterReading(m, q[1].is, n)
  PROVE  WellTold(n, r)
<1>1. /\ Ordered(q) /\ 1 \in 1..Len(q) /\ Len(q) > 0 /\ q[1].is \in FirstOf(m.pc)
      /\ Has(q, "PostData") => m.pc \in {"aside", "postdata"}
      /\ m.after \/ (Handler(m.kind) /\ Knows(m) /\ m.pc # "document") => ~Has(q, "Document")
      /\ Knows(m) => \A i \in 1..Len(q) : q[i].kind = m.kind
  BY DEF WellTold, IsTail
<1>2. /\ Ordered(r) /\ Len(r) \in Nat
      /\ Len(r) > 0 => r[1].is \in Follow(q[1].kind, q[1].is)
      /\ Has(r, "PostData") => Has(q, "PostData")
      /\ Has(r, "Document") => Has(q, "Document")
      /\ q[1].is = "EndRequest" => ~Has(r, "Document")
      /\ q[1].is = "PostData" => ~Has(r, "PostData")
      /\ \A i \in 1..Len(r) : r[i].kind = q[1].kind
  BY <1>1, OrderedTail
<1>3. Knows(m) /\ Knows(n) /\ n.pc \notin {"exited", "confused"}
  BY DEF AfterReading, Knows
<1>4. q[1].kind = m.kind /\ q[1].is \in {"Document", "EndRequest", "PostData"}
  BY <1>1, <1>3 DEF AfterReading
<1>5. Len(r) > 0 /\ r[1].is = "PostData" => Has(r, "PostData")
  BY <1>2 DEF Has
<1>a. SUFFICES /\ n.after => n.pc \notin {"next", "headers", "document", "ask", "aside", "parse"}
               /\ n.pc \in {"ask", "aside", "postdata", "posting"} => Posts(n.kind)
               /\ Len(r) > 0 => r[1].is \in FirstOf(n.pc)
               /\ Has(r, "PostData") => n.pc \in {"aside", "postdata"}
               /\ n.after \/ Handler(n.kind) => ~Has(r, "Document")
  BY <1>2, <1>3, <1>4 DEF WellTold
<1>b. /\ m.after => m.pc \notin {"next", "headers", "document", "ask", "aside", "parse"}
      /\ m.pc \in {"ask", "aside", "postdata", "posting"} => Posts(m.kind)
  BY DEF WellTold
<1>6. CASE /\ m.pc = "document" /\ q[1].is = "Document" /\ n.after = m.after
           /\ n.pc = IF Posts(m.kind) THEN "ask"
                     ELSE IF Handler(m.kind) \/ m.kind = "options" THEN "end" ELSE "parse"
  <2>1. ~n.after /\ ~Has(r, "PostData")
    BY <1>1, <1>2, <1>6, <1>b
  <2>2. Len(r) > 0 => r[1].is \in {"Document", "EndRequest"}
                      /\ (Handler(m.kind) \/ m.kind = "options" => r[1].is = "EndRequest")
    BY <1>2, <1>4, <1>5, <1>6, <2>1, Follows
  <2>3. Handler(m.kind) => ~Has(r, "Document")
    <3>1. ASSUME Handler(m.kind), NEW i \in 1..Len(r), r[i].is = "Document" PROVE FALSE
      <4>1. r[1].is = "EndRequest" /\ 1 \in 1..Len(r) /\ i # 1 /\ 1 < i
        BY <1>2, <2>2, <3>1
      <4> QED
        BY <1>2, <3>1, <4>1 DEF Ordered
    <3> QED
      BY <3>1 DEF Has
  <2>4. Len(r) > 0 => r[1].is \in FirstOf(n.pc)
    BY <1>6, <2>2, Firsts
  <2> QED
    BY <1>6, <2>1, <2>3, <2>4
<1>7. CASE m.pc = "aside" /\ q[1].is = "Document" /\ n.pc = "aside" /\ n.after = m.after
  BY <1>1, <1>2, <1>3, <1>7, <1>b, Follows, Firsts
<1>8. CASE m.pc = "aside" /\ q[1].is = "EndRequest" /\ n.pc = "postdata" /\ n.after
  BY <1>1, <1>2, <1>8, <1>b, Follows, Firsts
<1>9. CASE m.pc = "postdata" /\ q[1].is = "PostData" /\ n.pc = "posting" /\ n.after = m.after
  BY <1>1, <1>2, <1>3, <1>9, <1>b, Follows, Firsts
<1>10. CASE m.pc = "posting" /\ q[1].is = "PostData" /\ n.pc = "posting" /\ n.after = m.after
  BY <1>1, <1>10, Firsts
<1>11. CASE m.pc = "parse" /\ q[1].is = "Document" /\ n.pc = "parse" /\ n.after = m.after
  BY <1>1, <1>2, <1>3, <1>5, <1>11, <1>b, Follows, Firsts
<1>12. CASE m.pc = "end" /\ q[1].is = "EndRequest" /\ n.pc = "respond" /\ n.after = m.after
  <2>1. ~Has(r, "PostData")
    BY <1>1, <1>2, <1>12
  <2>2. ~(Len(r) > 0)
    BY <1>2, <1>5, <1>12, <2>1, Follows
  <2> QED
    BY <1>2, <1>12, <2>1, <2>2
<1> QED
  BY <1>6, <1>7, <1>8, <1>9, <1>10, <1>11, <1>12 DEF AfterReading

\* What it leaves it finds again.
LEMMA ToldLeaving ==
  ASSUME NEW m, NEW n, NEW q, Len(q) \in Nat \ {0}, WellTold(m, q),
         n.kind = m.kind, n.after = m.after, AfterLeaving(m, q[1].is, n)
  PROVE  WellTold(n, q)
<1>1. /\ m.pc # "exited" /\ Ordered(q) /\ q[1].is \in FirstOf(m.pc)
      /\ Has(q, "PostData") => m.pc \in {"aside", "postdata"}
      /\ m.after \/ (Handler(m.kind) /\ Knows(m) /\ m.pc # "document") => ~Has(q, "Document")
      /\ Knows(m) => \A i \in 1..Len(q) : q[i].kind = m.kind
      /\ m.after => m.pc \notin {"next", "headers", "document", "ask", "aside", "parse"}
      /\ m.pc \in {"ask", "aside", "postdata", "posting"} => Posts(m.kind)
  BY DEF WellTold, AfterLeaving
<1>2. Knows(m) /\ Knows(n) /\ n.pc \notin {"exited", "confused", "document"} /\ m.pc # "document"
  BY DEF AfterLeaving, Knows
<1>3. q[1].is = "Document" => Has(q, "Document")
  BY DEF Has
<1> QED
  BY <1>1, <1>2, <1>3, Firsts DEF WellTold, AfterLeaving

\* The worker begins its page.
LEMMA ToldStarting ==
  ASSUME NEW m, NEW n, NEW q, NEW r, IsTail(r, q), WellTold(m, q), q[1].is = "Headers",
         m.pc = "headers", n.pc = "document", n.after = m.after, n.kind = q[1].kind
  PROVE  WellTold(n, r)
<1>1. /\ Ordered(q) /\ ~Has(q, "PostData") /\ ~m.after
  BY DEF WellTold
<1>2. /\ Ordered(r) /\ Len(r) \in Nat
      /\ Len(r) > 0 => r[1].is \in Follow(q[1].kind, q[1].is)
      /\ ~Has(r, "PostData") /\ \A i \in 1..Len(r) : r[i].kind = q[1].kind
  BY <1>1, OrderedTail
<1> QED
  BY <1>1, <1>2, Follows, Firsts DEF WellTold

\* A worker with an empty stream.
LEMMA ToldNothing ==
  ASSUME NEW m, NEW q, Len(q) = 0, m.pc # "confused",
         m.after => m.pc \notin {"next", "headers", "document", "ask", "aside", "parse"},
         m.pc \in {"ask", "aside", "postdata", "posting"} => Posts(m.kind)
  PROVE  WellTold(m, q)
BY DEF WellTold, Ordered, Has

\* A stream that holds the begin of a request only.
LEMMA ToldBegin ==
  ASSUME NEW m, NEW q, Len(q) = 1, q[1].is = "BeginRequest", m.pc \in {"next", "ended", "exited"},
         m.after => m.pc # "next"
  PROVE  WellTold(m, q)
<1>1. \A i \in 1..Len(q) : i = 1 /\ ~(i < Len(q)) /\ q[i].is = "BeginRequest"
  OBVIOUS
<1>2. Ordered(q) /\ ~Has(q, "PostData") /\ ~Has(q, "Document")
  BY <1>1 DEF Ordered, Has
<1> QED
  BY <1>1, <1>2, Firsts DEF WellTold, Knows

LEMMA ToldWorker ==
  ASSUME Base, BeginsLast, Unread, NEW w \in Workers, WorkerActs(w),
         WellTold(wk[w], up[wk[w].sock]), wk'[w].sock # NoSocket
  PROVE  WellTold(wk'[w], up'[wk[w].sock]) /\ wk'[w].sock = wk[w].sock /\ ~GetsConfused(w)
<1> DEFINE s == wk[w].sock
           m == wk[w]
           n == wk'[w]
           q == up[s]
           r == up'[s]
<1>0. s \in Sockets /\ Len(q) \in Nat /\ q \in Seq(AnyBlock) /\ (q = <<>> <=> Len(q) = 0)
  BY Shrinking, Lengths
<1>1. /\ m.pc # "confused"
      /\ m.after => m.pc \notin {"next", "headers", "document", "ask", "aside", "parse"}
      /\ m.pc \in {"ask", "aside", "postdata", "posting"} => Posts(m.kind)
      /\ m.pc # "exited" /\ Len(q) > 0 => q[1].is \in FirstOf(m.pc)
  BY DEF WellTold
<1>2. CASE Replies(w)
  <2>1. Takes(w, "BeginRequest") /\ m.pc = "next" /\ n.after = m.after
        /\ n.pc \in {"headers", "exited"} /\ n.sock = s
    BY <1>2 DEF Replies, MovesTo
  <2>2. IsTail(r, q) /\ q[1].is = "BeginRequest"
    BY <2>1, Taking
  <2>3. Len(r) = 0
    <3>1. 1 \in 1..Len(q) /\ Len(r) = Len(q) - 1
      BY <2>2 DEF IsTail
    <3>2. 1 = Len(q)
      BY <1>0, <2>2, <3>1 DEF BeginsLast
    <3> QED
      BY <3>1, <3>2
  <2>4. ~GetsConfused(w)
    BY <2>1 DEF GetsConfused, MovesTo
  <2> QED
    BY <1>1, <2>1, <2>3, <2>4, ToldNothing
<1>3. CASE Starts(w)
  <2>1. Takes(w, "Headers") /\ m.pc = "headers" /\ n.after = m.after /\ n.pc = "document"
        /\ n.kind = q[1].kind /\ n.sock = s
    BY <1>3 DEF Starts, MovesTo
  <2>2. IsTail(r, q) /\ q[1].is = "Headers"
    BY <2>1, Taking
  <2>3. ~GetsConfused(w)
    BY <2>1 DEF GetsConfused, MovesTo
  <2> QED
    BY <2>1, <2>2, <2>3, ToldStarting
<1>4. CASE Reads(w)
  <2>1. PICK type \in {"Document", "EndRequest", "PostData"} :
          Takes(w, type) /\ AfterReading(m, type, n)
    BY <1>4 DEF Reads
  <2>2. IsTail(r, q) /\ q[1].is = type
    BY <2>1, Taking
  <2>3. n.kind = m.kind /\ n.sock = s /\ m.pc # "exited" /\ n.pc # "confused"
    BY <1>4 DEF Reads, SameRequest, MovesTo, Page
  <2>4. WellTold(n, r)
    BY <2>1, <2>2, <2>3, ToldReading
  <2>5. ~GetsConfused(w)
    BY <2>3 DEF GetsConfused, MovesTo
  <2> QED
    BY <2>3, <2>4, <2>5
<1>5. CASE PassesOn(w)
  <2>1. /\ n.kind = m.kind /\ n.sock = s /\ n.after = m.after /\ n.pc # "confused"
        /\ q # <<>> /\ AfterLeaving(m, q[1].is, n) /\ r = q
    BY <1>5 DEF PassesOn, SameRequest, MovesTo, Page
  <2>2. WellTold(n, r)
    BY <1>0, <2>1, ToldLeaving
  <2>3. ~GetsConfused(w)
    BY <2>1 DEF GetsConfused, MovesTo
  <2> QED
    BY <2>1, <2>2, <2>3
<1>6. CASE Speaks(w, "ask", <<"RequirePostData">>, "aside")
  <2>1. /\ m.pc = "ask" /\ n.pc = "aside" /\ n.kind = m.kind /\ n.sock = s /\ n.after = m.after
        /\ r = q
    BY <1>6 DEF Speaks, SameRequest, MovesTo
  <2>2. WellTold(n, r)
    BY <2>1, Firsts DEF WellTold, Knows
  <2> QED
    BY <2>1, <2>2 DEF GetsConfused, MovesTo
<1>7. CASE Speaks(w, "respond", <<"ResponseHeader", "Document">>, "finish")
  <2>1. /\ m.pc = "respond" /\ n.pc = "finish" /\ n.kind = m.kind /\ n.sock = s /\ n.after = m.after
        /\ r = q
    BY <1>7 DEF Speaks, SameRequest, MovesTo
  <2>2. WellTold(n, r)
    BY <2>1, Firsts DEF WellTold, Knows
  <2> QED
    BY <2>1, <2>2 DEF GetsConfused, MovesTo
<1>8. CASE Finishes(w)
  <2>1. /\ m.pc = "finish" /\ n.pc = "ended" /\ n.sock = s /\ n.after = m.after
        /\ \E k \in 0..Len(q) : Len(r) = Len(q) - k
    BY <1>8 DEF Finishes, SameRequest, MovesTo
  <2>2. Len(q) = 0
    BY <1>0, <1>1, <2>1, Firsts
  <2>3. Len(r) = 0
    <3>1. PICK k \in 0..Len(q) : Len(r) = Len(q) - k
      BY <2>1
    <3>2. k = 0
      BY <2>2
    <3> QED
      BY <2>2, <3>1, <3>2
  <2> QED
    BY <2>1, <2>3, ToldNothing DEF GetsConfused, MovesTo
<1>9. ~GetsConfused(w)
  <2>1. ASSUME NEW type, Leaves(w, {type}) PROVE Len(q) > 0 /\ q[1].is # type
    BY <1>0, <2>1 DEF Leaves
  <2>2. ASSUME NEW type, Leaves(w, {type}) PROVE ~(FirstOf(m.pc) = {type} /\ m.pc # "exited")
    BY <1>1, <2>1, <2>2
  <2> QED
    BY <2>2, Firsts DEF GetsConfused
<1>10. CASE Exits(w)
  <2>1. n.pc = "exited" /\ n.sock = s
    BY <1>10 DEF Exits, MovesTo
  <2>2. WellTold(n, r)
    BY <2>1 DEF WellTold
  <2> QED
    BY <1>9, <2>1, <2>2
<1>11. CASE Releases(w)
  BY <1>11 DEF Releases, Frees
<1> QED
  BY <1>2, <1>3, <1>4, <1>5, <1>6, <1>7, <1>8, <1>9, <1>10, <1>11 DEF WorkerActs

-----------------------------------------------------------------------------
(* The two sides of a request stay in step when the worker goes on.        *)

LEMMA Last ==
  ASSUME NEW c
  PROVE  /\ LastSent(c) \in {"Headers", "Document", "EndRequest"}
         /\ LastSent(c) = "Headers" <=> c.pc = "document" /\ c.blocks = 0
         /\ LastSent(c) = "Document" <=>
              c.pc = "document" /\ c.blocks # 0 /\ c.kind # "options"
BY DEF LastSent

LEMMA StepReading ==
  ASSUME NEW c, NEW m, NEW n, NEW u, NEW r, NEW d, IsTail(r, u), WellTold(m, u),
         InStep(c, m, u, d), n.kind = m.kind, n.req = m.req, AfterReading(m, u[1].is, n),
         c.pc = "document" => ~Handler(c.kind)
  PROVE  InStep(c, n, r, d)
<1>1. /\ Ordered(u) /\ 1 \in 1..Len(u) /\ Len(u) > 0 /\ u[1].is \in FirstOf(m.pc)
      /\ Has(u, "PostData") => m.pc \in {"aside", "postdata"}
      /\ m.after => m.pc \notin {"next", "headers", "document", "ask", "aside", "parse"}
  BY DEF WellTold, IsTail, AfterReading
<1>2. /\ Len(r) \in Nat
      /\ Len(r) > 0 => r[Len(r)] = u[Len(u)]
      /\ Len(r) = 0 => Len(u) = 1
      /\ Has(r, "PostData") => Has(u, "PostData")
      /\ Has(r, "EndRequest") => Has(u, "EndRequest")
      /\ \A i \in 1..Len(r) : r[i].kind = u[1].kind
  BY <1>1, OrderedTail
<1>3. /\ m.pc \in {"document", "aside", "postdata", "posting", "parse", "end"}
      /\ n.pc \in {"ask", "end", "parse", "aside", "postdata", "posting", "respond"}
  BY DEF AfterReading
<1>4. /\ m.req = c.req /\ m.kind = c.kind /\ c.pc # "headers" /\ c.pc # "body"
      /\ u[Len(u)].is = LastSent(c)
      /\ LastSent(c) # "EndRequest" => ~Has(u, "EndRequest") /\ ~m.after
      /\ \A i \in 1..Len(u) : u[i].kind = c.kind
      /\ Has(u, "PostData") => c.postdata_sent
      /\ m.pc = "document" => ~c.postdata_sent
      /\ Said(c, m, d)
  BY <1>1, <1>3 DEF InStep
<1>5. Has(u, u[1].is)
  BY <1>1 DEF Has
<1>6. Len(r) = 0 => u[1].is = LastSent(c)
  BY <1>2, <1>4
<1>7. \A i \in 1..Len(r) : r[i].kind = c.kind
  BY <1>1, <1>2, <1>4
<1>8. LastSent(c) = "Document" => ~Handler(c.kind) /\ c.kind # "options"
  BY Last
<1>9. LastSent(c) \in {"Headers", "Document", "EndRequest"}
  BY Last
<1>a. SUFFICES /\ Len(r) = 0 => Awaiting(c, n)
               /\ LastSent(c) # "EndRequest" => ~n.after
               /\ n.pc = "ask" => ~c.postdata_sent
               /\ Said(c, n, d)
  <2>1. n.pc \notin {"next", "free", "headers", "document"}
    BY <1>3
  <2> QED
    BY <1>2, <1>4, <1>7, <2>1 DEF InStep
<1>10. CASE /\ m.pc = "document" /\ u[1].is = "Document" /\ n.after = m.after
            /\ n.pc = IF Posts(m.kind) THEN "ask"
                      ELSE IF Handler(m.kind) \/ m.kind = "options" THEN "end" ELSE "parse"
  BY <1>4, <1>6, <1>8, <1>10 DEF Awaiting, Said
<1>11. CASE m.pc = "aside" /\ u[1].is = "Document" /\ n.pc = "aside" /\ n.after = m.after
  BY <1>4, <1>6, <1>11 DEF Awaiting, Said
<1>12. CASE m.pc = "aside" /\ u[1].is = "EndRequest" /\ n.pc = "postdata" /\ n.after
  BY <1>4, <1>5, <1>6, <1>12 DEF Awaiting, Said
<1>13. CASE m.pc = "postdata" /\ u[1].is = "PostData" /\ n.pc = "posting" /\ n.after = m.after
  BY <1>4, <1>5, <1>6, <1>9, <1>13 DEF Awaiting, Said
<1>14. CASE m.pc = "posting" /\ u[1].is = "PostData" /\ n.pc = "posting" /\ n.after = m.after
  BY <1>1, <1>14, Firsts
<1>15. CASE m.pc = "parse" /\ u[1].is = "Document" /\ n.pc = "parse" /\ n.after = m.after
  BY <1>4, <1>6, <1>15 DEF Awaiting, Said
<1>16. CASE m.pc = "end" /\ u[1].is = "EndRequest" /\ n.pc = "respond" /\ n.after = m.after
  BY <1>4, <1>5, <1>6, <1>16 DEF Awaiting, Said
<1> QED
  BY <1>10, <1>11, <1>12, <1>13, <1>14, <1>15, <1>16 DEF AfterReading

LEMMA StepLeaving ==
  ASSUME NEW c, NEW m, NEW n, NEW u, NEW d, Len(u) \in Nat \ {0}, WellTold(m, u),
         InStep(c, m, u, d), n.kind = m.kind, n.req = m.req, n.after = m.after,
         AfterLeaving(m, u[1].is, n)
  PROVE  InStep(c, n, u, d)
<1>1. /\ m.pc \in {"aside", "posting", "parse"} /\ n.pc \in {"postdata", "end", "parse"}
      /\ m.pc = "aside" <=> n.pc = "postdata"
  BY DEF AfterLeaving
<1>2. Said(c, n, d)
  <2>1. Said(c, m, d)
    BY DEF InStep
  <2> QED
    BY <1>1, <2>1 DEF Said
<1> QED
  BY <1>1, <1>2 DEF InStep

LEMMA StepStarting ==
  ASSUME NEW c, NEW m, NEW n, NEW u, NEW r, NEW d, IsTail(r, u), WellTold(m, u),
         InStep(c, m, u, d), u[1].is = "Headers", m.pc = "headers", n.pc = "document",
         n.after = m.after, n.req = m.req, n.kind = u[1].kind
  PROVE  InStep(c, n, r, d)
<1>1. Ordered(u) /\ Len(u) \in Nat \ {0} /\ 1 \in 1..Len(u)
  BY DEF WellTold, IsTail
<1>2. /\ Len(r) \in Nat
      /\ Len(r) > 0 => r[Len(r)] = u[Len(u)]
      /\ Len(r) = 0 => Len(u) = 1
      /\ Has(r, "PostData") => Has(u, "PostData")
      /\ Has(r, "EndRequest") => Has(u, "EndRequest")
      /\ \A i \in 1..Len(r) : r[i].kind = u[1].kind
  BY <1>1, OrderedTail
<1>3. /\ m.req = c.req /\ u[1].kind = c.kind /\ c.pc # "headers" /\ c.pc # "body"
      /\ u[Len(u)].is = LastSent(c)
      /\ LastSent(c) # "EndRequest" => ~Has(u, "EndRequest") /\ ~m.after
      /\ Has(u, "PostData") => c.postdata_sent
      /\ ~c.postdata_sent
      /\ Said(c, m, d)
  BY <1>1 DEF InStep
<1>4. Len(r) = 0 => Awaiting(c, n)
  BY <1>2, <1>3 DEF Awaiting
<1>5. Said(c, n, d)
  BY <1>3 DEF Said
<1> QED
  BY <1>2, <1>3, <1>4, <1>5 DEF InStep

LEMMA StepAsking ==
  ASSUME NEW c, NEW m, NEW n, NEW u, NEW d, NEW e, NEW p, IsAppended(e, d, p),
         Len(p) = 1, p[1].is = "RequirePostData", InStep(c, m, u, d),
         m.pc = "ask", n.pc = "aside", n.req = m.req, n.kind = m.kind, n.after = m.after
  PROVE  InStep(c, n, u, e) /\ Len(d) = 0 /\ Len(e) = 1
<1>1. Said(c, m, d) /\ ~c.postdata_sent /\ c.pc # "headers" /\ c.pc # "body"
  BY DEF InStep
<1>2. Len(d) = 0
  BY <1>1 DEF Said
<1>3. Len(e) = 1 /\ e[1].is = "RequirePostData"
  BY <1>2 DEF IsAppended
<1>4. Said(c, n, e)
  BY <1>1, <1>3 DEF Said
<1>5. Awaiting(c, m) => Awaiting(c, n)
  BY DEF Awaiting
<1> QED
  BY <1>1, <1>2, <1>3, <1>4, <1>5 DEF InStep

LEMMA StepResponding ==
  ASSUME NEW c, NEW m, NEW n, NEW u, NEW d, NEW e, NEW p, IsAppended(e, d, p),
         Len(p) = 2, p[1].is = "ResponseHeader", p[2].is = "Document", InStep(c, m, u, d),
         m.pc = "respond", n.pc = "finish", n.req = m.req, n.kind = m.kind, n.after = m.after
  PROVE  InStep(c, n, u, e) /\ Len(d) = 0 /\ Len(e) = 2
<1>1. Said(c, m, d) /\ c.pc # "headers" /\ c.pc # "body"
  BY DEF InStep
<1>2. Len(d) = 0
  BY <1>1 DEF Said
<1>3. Len(e) = 2 /\ e[1].is = "ResponseHeader" /\ e[2].is = "Document"
  BY <1>2 DEF IsAppended
<1>4. Said(c, n, e)
  BY <1>1, <1>3 DEF Said
<1>5. Awaiting(c, m) => Awaiting(c, n)
  BY DEF Awaiting
<1> QED
  BY <1>1, <1>2, <1>3, <1>4, <1>5 DEF InStep

LEMMA StepFinishing ==
  ASSUME NEW c, NEW m, NEW n, NEW u, NEW v, NEW d, NEW e, NEW p, IsAppended(e, d, p),
         Len(p) = 1, p[1].is = "EndRequest", InStep(c, m, u, d), Len(u) = 0, Len(v) = 0,
         m.pc = "finish", n.pc = "ended", n.req = m.req, n.kind = m.kind, n.after = m.after
  PROVE  /\ InStep(c, n, v, e) /\ LastSent(c) = "EndRequest" /\ Len(d) \in Nat
         /\ Len(e) = Len(d) + 1
         /\ \A i \in 1..Len(d) : d[i].is \notin {"EndRequest", "RequirePostData"} /\ e[i] = d[i]
<1>1. Said(c, m, d) /\ c.pc # "headers" /\ Awaiting(c, m)
  BY DEF InStep
<1>2. LastSent(c) = "EndRequest"
  BY <1>1, Last DEF Awaiting
<1>3. /\ Len(d) \in Nat /\ Len(e) = Len(d) + 1 /\ e[Len(d) + 1].is = "EndRequest"
      /\ \A i \in 1..Len(d) : e[i] = d[i]
  BY DEF IsAppended
<1>4. IF c.pc = "body" THEN Len(d) = 0 \/ (Len(d) = 1 /\ d[1].is = "Document")
      ELSE Len(d) = 2 /\ d[1].is = "ResponseHeader" /\ d[2].is = "Document"
  BY <1>1 DEF Said
<1>5. \A i \in 1..Len(d) : d[i].is \notin {"EndRequest", "RequirePostData"}
  <2>1. CASE c.pc = "body" /\ Len(d) = 0
    BY <2>1
  <2>2. CASE c.pc = "body" /\ Len(d) = 1 /\ d[1].is = "Document"
    <3>1. \A i \in 1..Len(d) : i = 1
      BY <2>2
    <3> QED
      BY <2>2, <3>1
  <2>3. CASE Len(d) = 2 /\ d[1].is = "ResponseHeader" /\ d[2].is = "Document"
    <3>1. \A i \in 1..Len(d) : i = 1 \/ i = 2
      BY <2>3
    <3> QED
      BY <2>3, <3>1
  <2> QED
    BY <1>4, <2>1, <2>2, <2>3
<1>6. Delivered(c, e)
  <2>1. CASE c.pc = "body" /\ Len(d) = 0
    BY <1>3, <2>1 DEF Delivered
  <2>2. CASE c.pc = "body" /\ Len(d) = 1 /\ d[1].is = "Document"
    BY <1>3, <2>2 DEF Delivered
  <2>3. CASE c.pc # "body" /\ Len(d) = 2 /\ d[1].is = "ResponseHeader" /\ d[2].is = "Document"
    BY <1>3, <2>3 DEF Delivered
  <2> QED
    BY <1>4, <2>1, <2>2, <2>3
<1>7. Said(c, n, e)
  BY <1>6 DEF Said
<1>8. Awaiting(c, n)
  BY <1>2 DEF Awaiting
<1>9. ~Has(v, "PostData") /\ ~Has(v, "EndRequest")
  BY DEF Has
<1> QED
  BY <1>1, <1>2, <1>3, <1>5, <1>7, <1>8, <1>9 DEF InStep

\* Every step of the worker that serves the connector's request.
LEMMA StepWorker ==
  ASSUME Base, BeginsLast, Unread, NEW w \in Workers, WorkerActs(w),
         wk[w].sock = ac.sock, Talking, Composed, ~Dead(w),
         WellTold(wk[w], up[ac.sock]), InStep(ac, wk[w], up[ac.sock], down[ac.sock])
  PROVE  \/ /\ ~Dead(w)' /\ wk'[w].sock = ac.sock
            /\ InStep(ac, wk'[w], up'[ac.sock], down'[ac.sock])
         \/ Exits(w)
         \/ Releases(w)
<1> DEFINE s == wk[w].sock
           m == wk[w]
           n == wk'[w]
           u == up[s]
           v == up'[s]
           d == down[s]
           e == down'[s]
<1>0. s \in Sockets /\ Len(u) \in Nat /\ (u = <<>> <=> Len(u) = 0) /\ ac.sock = s
  BY Shrinking, Lengths
<1>1. WellTold(m, u) /\ InStep(ac, m, u, d)
  OBVIOUS
<1>2. ~Replies(w)
  <2>1. ASSUME Replies(w) PROVE up[s][1].is = "BeginRequest" /\ 1 \in 1..Len(up[s])
    BY <2>1, Taking DEF Replies, IsTail
  <2> QED
    BY <1>0, <2>1 DEF BeginsLast, Talking
<1>3. CASE Starts(w)
  <2>1. Takes(w, "Headers") /\ m.pc = "headers" /\ n.after = m.after /\ n.pc = "document"
        /\ n.kind = u[1].kind /\ n.req = m.req /\ n.sock = s /\ e = d
    BY <1>3 DEF Starts, MovesTo
  <2>2. IsTail(v, u) /\ u[1].is = "Headers"
    BY <2>1, Taking
  <2>3. InStep(ac, n, v, e)
    BY <1>1, <2>1, <2>2, StepStarting
  <2> QED
    BY <1>0, <2>1, <2>3 DEF Dead
<1>4. CASE Reads(w)
  <2>1. PICK type \in {"Document", "EndRequest", "PostData"} :
          Takes(w, type) /\ AfterReading(m, type, n)
    BY <1>4 DEF Reads
  <2>2. IsTail(v, u) /\ u[1].is = type
    BY <2>1, Taking
  <2>3. n.kind = m.kind /\ n.req = m.req /\ n.sock = s /\ e = d
        /\ n.pc \notin {"exited", "confused"}
    BY <1>4 DEF Reads, SameRequest, MovesTo, Page
  <2>4. InStep(ac, n, v, e)
    BY <1>1, <2>1, <2>2, <2>3, StepReading DEF Composed
  <2> QED
    BY <1>0, <2>3, <2>4 DEF Dead
<1>5. CASE PassesOn(w)
  <2>1. /\ n.kind = m.kind /\ n.req = m.req /\ n.sock = s /\ n.after = m.after
        /\ n.pc \notin {"exited", "confused"} /\ u # <<>> /\ AfterLeaving(m, u[1].is, n)
        /\ v = u /\ e = d
    BY <1>5 DEF PassesOn, SameRequest, MovesTo, Page
  <2>2. InStep(ac, n, v, e)
    BY <1>0, <1>1, <2>1, StepLeaving
  <2> QED
    BY <1>0, <2>1, <2>2 DEF Dead
<1>6. CASE Speaks(w, "ask", <<"RequirePostData">>, "aside")
  <2>1. /\ m.pc = "ask" /\ n.pc = "aside" /\ n.kind = m.kind /\ n.req = m.req /\ n.sock = s
        /\ n.after = m.after /\ v = u /\ Says(w, <<"RequirePostData">>)
    BY <1>6 DEF Speaks, SameRequest, MovesTo
  <2>2. /\ IsAppended(e, d, Answer(w, <<"RequirePostData">>))
        /\ Len(Answer(w, <<"RequirePostData">>)) = 1
        /\ Answer(w, <<"RequirePostData">>)[1].is = "RequirePostData"
    BY <2>1, Saying
  <2>3. InStep(ac, n, u, e)
    BY <1>1, <2>1, <2>2, StepAsking
  <2> QED
    BY <1>0, <2>1, <2>3 DEF Dead
<1>7. CASE Speaks(w, "respond", <<"ResponseHeader", "Document">>, "finish")
  <2>1. /\ m.pc = "respond" /\ n.pc = "finish" /\ n.kind = m.kind /\ n.req = m.req /\ n.sock = s
        /\ n.after = m.after /\ v = u /\ Says(w, <<"ResponseHeader", "Document">>)
    BY <1>7 DEF Speaks, SameRequest, MovesTo
  <2>2. /\ IsAppended(e, d, Answer(w, <<"ResponseHeader", "Document">>))
        /\ Len(Answer(w, <<"ResponseHeader", "Document">>)) = 2
        /\ Answer(w, <<"ResponseHeader", "Document">>)[1].is = "ResponseHeader"
        /\ Answer(w, <<"ResponseHeader", "Document">>)[2].is = "Document"
    BY <2>1, Saying
  <2>3. InStep(ac, n, u, e)
    BY <1>1, <2>1, <2>2, StepResponding
  <2> QED
    BY <1>0, <2>1, <2>3 DEF Dead
<1>8. CASE Finishes(w)
  <2>1. /\ m.pc = "finish" /\ n.pc = "ended" /\ n.kind = m.kind /\ n.req = m.req /\ n.sock = s
        /\ n.after = m.after /\ Says(w, <<"EndRequest">>)
        /\ \E k \in 0..Len(u) : Len(v) = Len(u) - k
    BY <1>8 DEF Finishes, SameRequest, MovesTo
  <2>2. /\ IsAppended(e, d, Answer(w, <<"EndRequest">>))
        /\ Len(Answer(w, <<"EndRequest">>)) = 1
        /\ Answer(w, <<"EndRequest">>)[1].is = "EndRequest"
    BY <2>1, Saying
  <2>3. Len(u) = 0
    BY <1>0, <1>1, <2>1, Firsts DEF WellTold
  <2>4. Len(v) = 0
    <3>1. PICK k \in 0..Len(u) : Len(v) = Len(u) - k
      BY <2>1
    <3>2. k = 0
      BY <2>3
    <3> QED
      BY <2>3, <3>1, <3>2
  <2>5. InStep(ac, n, v, e)
    BY <1>1, <2>1, <2>2, <2>3, <2>4, StepFinishing
  <2> QED
    BY <1>0, <2>1, <2>5 DEF Dead
<1>9. CASE GetsConfused(w)
  <2>1. wk'[w].sock # NoSocket
    BY <1>0, <1>9, Bounds DEF GetsConfused, MovesTo
  <2> QED
    BY <1>1, <1>9, <2>1, ToldWorker
<1> QED
  BY <1>2, <1>3, <1>4, <1>5, <1>6, <1>7, <1>8, <1>9 DEF WorkerActs

-----------------------------------------------------------------------------
(* They stay in step when the connector sends more.                        *)

LEMMA OrderedOne ==
  ASSUME NEW p, Len(p) = 1
  PROVE  Ordered(p) /\ \A type : Has(p, type) => p[1].is = type
<1>1. \A i \in 1..Len(p) : i = 1 /\ ~(i < Len(p))
  OBVIOUS
<1> QED
  BY <1>1 DEF Ordered, Has

LEMMA OrderedTwo ==
  ASSUME NEW p, Len(p) = 2, p[2].kind = p[1].kind, p[2].is \in Follow(p[1].kind, p[1].is),
         p[1].is # "EndRequest", p[2].is # "PostData"
  PROVE  Ordered(p) /\ \A type : Has(p, type) => type \in {p[1].is, p[2].is}
<1>1. \A i \in 1..Len(p) : i \in {1, 2}
  OBVIOUS
<1>2. \A i \in 1..Len(p) : i < Len(p) => i = 1 /\ p[i + 1] = p[2]
  <2>1. ASSUME NEW i \in 1..Len(p), i < Len(p) PROVE i = 1 /\ i + 1 = 2
    BY <2>1
  <2> QED
    BY <2>1
<1>3. \A i, j \in 1..Len(p) : i < j => i = 1 /\ j = 2
  OBVIOUS
<1> QED
  BY <1>1, <1>2, <1>3 DEF Ordered, Has

LEMMA OrderedThree ==
  ASSUME NEW p, Len(p) = 3, p[1].is = "Headers", p[2].is = "Document", p[3].is = "EndRequest",
         NEW kind, p[1].kind = kind, p[2].kind = kind, p[3].kind = kind
  PROVE  Ordered(p) /\ \A type : Has(p, type) => type \in {"Headers", "Document", "EndRequest"}
<1>1. \A i \in 1..Len(p) : i \in {1, 2, 3}
  OBVIOUS
<1>2. \A i \in 1..Len(p) : i < Len(p) => (i = 1 /\ p[i + 1] = p[2]) \/ (i = 2 /\ p[i + 1] = p[3])
  <2>1. ASSUME NEW i \in 1..Len(p), i < Len(p) PROVE (i = 1 /\ i + 1 = 2) \/ (i = 2 /\ i + 1 = 3)
    BY <2>1
  <2> QED
    BY <2>1
<1>3. \A i, j \in 1..Len(p) : i < j => i # 3
  OBVIOUS
<1>4. "Document" \in Follow(kind, "Headers") /\ "EndRequest" \in Follow(kind, "Document")
  BY Follows
<1> QED
  BY <1>1, <1>2, <1>3, <1>4 DEF Ordered, Has

\* The blocks p that a connector c sends, after those that it sent before, and
\* how it is then (n); it took the request for the post data off d if it was
\* there.
Sending(c, n, p, d, e) ==
  /\ Ordered(p) /\ Len(p) > 0 /\ \A i \in 1..Len(p) : p[i].kind = c.kind
  /\ c.pc \in {"headers", "document", "final"} /\ n.pc \in {"document", "final"}
  /\ n.req = c.req /\ n.kind = c.kind
  /\ p[Len(p)].is = LastSent(n)
  /\ LastSent(n) # "EndRequest" => ~Has(p, "EndRequest")
  /\ IF c.pc = "headers"
     THEN p[1].is = "Headers" /\ ~Has(p, "PostData")
     ELSE /\ LastSent(n) # "EndRequest" \/ Has(p, "Document") => LastSent(c) # "EndRequest"
          /\ LastSent(c) = "Headers" => p[1].is \in {"Document", "PostData"}
          /\ LastSent(c) = "EndRequest" => p[1].is = "PostData"
          /\ p[1].is \in {"Document", "EndRequest", "PostData"}
  /\ \/ /\ d[1].is = "RequirePostData" /\ Len(d) > 0 /\ Len(e) = Len(d) - 1
        /\ p[1].is = "PostData" /\ ~c.postdata_sent /\ n.postdata_sent
     \/ e = d /\ ~Has(p, "PostData") /\ n.postdata_sent = c.postdata_sent

LEMMA StepSending ==
  ASSUME NEW c, NEW n, NEW m, NEW u, NEW v, NEW d, NEW e, NEW p,
         IsAppended(v, u, p), Sending(c, n, p, d, e), WellTold(m, u), InStep(c, m, u, d),
         m.pc # "exited", c.pc = "document" => ~Handler(c.kind), c.pc = "headers" => ~c.postdata_sent
  PROVE  WellTold(m, v) /\ InStep(n, m, v, e)
<1>1. /\ Ordered(u) /\ m.pc # "confused" /\ Len(u) \in Nat /\ Len(p) \in Nat \ {0}
      /\ m.after => m.pc \notin {"next", "headers", "document", "ask", "aside", "parse"}
      /\ m.pc \in {"ask", "aside", "postdata", "posting"} => Posts(m.kind)
      /\ Len(u) > 0 => u[1].is \in FirstOf(m.pc)
      /\ Has(u, "PostData") => m.pc \in {"aside", "postdata"}
      /\ m.after \/ (Handler(m.kind) /\ Knows(m) /\ m.pc # "document") => ~Has(u, "Document")
      /\ Knows(m) => \A i \in 1..Len(u) : u[i].kind = m.kind
  BY DEF WellTold, IsAppended, Sending
<1>2. /\ m.req = c.req /\ m.pc \notin {"next", "free"} /\ (m.pc # "headers" => m.kind = c.kind)
      /\ c.pc = "headers" => m.pc = "headers" /\ Len(u) = 0
      /\ c.pc # "headers" => IF Len(u) > 0 THEN u[Len(u)].is = LastSent(c) ELSE Awaiting(c, m)
      /\ c.pc # "headers" /\ LastSent(c) # "EndRequest" => ~Has(u, "EndRequest") /\ ~m.after
      /\ \A i \in 1..Len(u) : u[i].kind = c.kind
      /\ Has(u, "PostData") => c.postdata_sent
      /\ m.pc \in {"headers", "document", "ask"} => ~c.postdata_sent
      /\ Said(c, m, d)
  BY DEF InStep
<1>3. /\ Ordered(p) /\ \A i \in 1..Len(p) : p[i].kind = c.kind
      /\ c.pc \in {"headers", "document", "final"} /\ n.pc \in {"document", "final"}
      /\ n.req = c.req /\ n.kind = c.kind
      /\ p[Len(p)].is = LastSent(n)
      /\ LastSent(n) # "EndRequest" => ~Has(p, "EndRequest")
      /\ c.pc = "headers" => p[1].is = "Headers" /\ ~Has(p, "PostData")
      /\ c.pc # "headers" /\ (LastSent(n) # "EndRequest" \/ Has(p, "Document"))
           => LastSent(c) # "EndRequest"
      /\ c.pc # "headers" /\ LastSent(c) = "Headers" => p[1].is \in {"Document", "PostData"}
      /\ c.pc # "headers" /\ LastSent(c) = "EndRequest" => p[1].is = "PostData"
      /\ c.pc # "headers" => p[1].is \in {"Document", "EndRequest", "PostData"}
  BY DEF Sending
<1>4. p[1].is = "PostData" => Has(p, "PostData")
  BY <1>1 DEF Has
\* It sends post data only to a worker that asked.
<1>5. \/ /\ m.pc \in {"aside", "postdata"} /\ p[1].is = "PostData" /\ ~c.postdata_sent
         /\ n.postdata_sent /\ Len(e) = 0 /\ ~Has(u, "PostData")
      \/ e = d /\ ~Has(p, "PostData") /\ n.postdata_sent = c.postdata_sent
  <2>1. ASSUME d[1].is = "RequirePostData", Len(d) > 0
        PROVE  m.pc \in {"aside", "postdata"} /\ Len(d) = 1
    <3>1. c.pc # "body" /\ Said(c, m, d)
      BY <1>2, <1>3
    <3>2. CASE m.pc \in {"aside", "postdata"}
      BY <2>1, <3>1, <3>2 DEF Said
    <3>3. CASE m.pc = "finish"
      BY <2>1, <3>1, <3>3 DEF Said
    <3>4. CASE m.pc = "ended"
      BY <2>1, <3>1, <3>4 DEF Said, Delivered
    <3>5. CASE m.pc \notin {"aside", "postdata", "finish", "ended"}
      BY <2>1, <3>1, <3>5 DEF Said
    <3> QED
      BY <3>2, <3>3, <3>4, <3>5
  <2>2. \/ /\ d[1].is = "RequirePostData" /\ Len(d) > 0 /\ Len(e) = Len(d) - 1
           /\ p[1].is = "PostData" /\ ~c.postdata_sent /\ n.postdata_sent
        \/ e = d /\ ~Has(p, "PostData") /\ n.postdata_sent = c.postdata_sent
    BY DEF Sending
  <2>3. CASE d[1].is = "RequirePostData" /\ Len(d) > 0 /\ Len(e) = Len(d) - 1
    <3>1. Len(d) = 1 /\ m.pc \in {"aside", "postdata"}
      BY <2>1, <2>3
    <3> QED
      BY <1>2, <2>2, <2>3, <3>1
  <2> QED
    BY <2>2, <2>3
<1>6. m.pc \in {"aside", "postdata"} => Posts(c.kind) /\ c.pc # "headers"
  BY <1>1, <1>2
<1>7. LastSent(c) \in {"Headers", "Document", "EndRequest"}
  BY Last
\* The worker that asked is past the headers.
<1>8. p[1].is = "PostData" => LastSent(c) # "Headers"
  <2>1. ASSUME p[1].is = "PostData", LastSent(c) = "Headers" PROVE FALSE
    <3>1. m.pc \in {"aside", "postdata"} /\ c.pc # "headers"
      BY <1>4, <1>5, <1>6, <2>1
    <3>2. CASE Len(u) = 0
      BY <1>2, <2>1, <3>1, <3>2 DEF Awaiting
    <3>3. CASE Len(u) > 0
      <4>1. u[Len(u)].is = "Headers" /\ u[1].is # "Headers"
        BY <1>1, <1>2, <2>1, <3>1, <3>3, Firsts
      <4>2. Len(u) - 1 \in 1..Len(u) /\ Len(u) - 1 < Len(u) /\ (Len(u) - 1) + 1 = Len(u)
        BY <1>1, <3>3, <4>1
      <4>3. u[Len(u)].is \in Follow(u[Len(u) - 1].kind, u[Len(u) - 1].is)
        BY <1>1, <4>2 DEF Ordered
      <4> QED
        BY <4>1, <4>3, Follows
    <3> QED
      BY <1>1, <3>2, <3>3
  <2> QED
    BY <2>1
\* What comes next may follow, or be first.
<1>9. Len(u) > 0 => p[1].is \in Follow(c.kind, u[Len(u)].is)
  <2>1. ASSUME Len(u) > 0 PROVE p[1].is \in Follow(c.kind, LastSent(c))
    <3>1. c.pc # "headers"
      BY <1>1, <1>2, <2>1
    <3>2. CASE LastSent(c) = "Headers"
      BY <1>3, <1>8, <3>1, <3>2, Follows
    <3>3. CASE LastSent(c) = "Document"
      <4>1. ~(Handler(c.kind) \/ c.kind = "options")
        BY <3>3, Last
      <4> QED
        BY <1>3, <3>1, <3>3, <4>1, Follows
    <3>4. CASE LastSent(c) = "EndRequest"
      <4>1. p[1].is = "PostData" /\ Posts(c.kind)
        BY <1>3, <1>4, <1>5, <1>6, <3>1, <3>4
      <4> QED
        BY <3>4, <4>1, Follows
    <3> QED
      BY <1>7, <3>2, <3>3, <3>4
  <2> QED
    BY <1>1, <1>2, <2>1
<1>10. Len(u) = 0 => p[1].is \in FirstOf(m.pc)
  <2>1. ASSUME Len(u) = 0 PROVE p[1].is \in FirstOf(m.pc)
    <3>1. CASE c.pc = "headers"
      BY <1>2, <1>3, <3>1, Firsts
    <3>2. CASE c.pc # "headers" /\ p[1].is = "PostData"
      <4>1. Awaiting(c, m) /\ m.pc \in {"aside", "postdata"}
        BY <1>2, <1>4, <1>5, <2>1, <3>2
      <4> QED
        BY <3>2, <4>1, Firsts
    <3>3. CASE c.pc # "headers" /\ p[1].is # "PostData"
      <4>1. Awaiting(c, m) /\ LastSent(c) # "EndRequest"
        BY <1>2, <1>3, <2>1, <3>3
      <4>2. CASE LastSent(c) = "Headers"
        BY <1>3, <3>3, <4>1, <4>2, Firsts DEF Awaiting
      <4>3. CASE LastSent(c) = "Document"
        BY <1>3, <3>3, <4>1, <4>3, Firsts DEF Awaiting
      <4> QED
        BY <1>7, <4>1, <4>2, <4>3
    <3> QED
      BY <3>1, <3>2, <3>3
  <2> QED
    BY <2>1
<1>11. Has(u, "EndRequest") => ~Has(p, "Document")
  <2>1. CASE c.pc = "headers"
    BY <1>2, <2>1 DEF Has
  <2>2. CASE c.pc # "headers"
    BY <1>2, <1>3, <2>2
  <2> QED
    BY <2>1, <2>2
<1>12. /\ Ordered(v) /\ Len(v) \in Nat \ {0} /\ v[Len(v)] = p[Len(p)]
       /\ v[1] = IF Len(u) > 0 THEN u[1] ELSE p[1]
       /\ \A type : Has(v, type) => Has(u, type) \/ Has(p, type)
       /\ \A i \in 1..Len(v) : v[i].kind = c.kind
  BY <1>1, <1>2, <1>3, <1>5, <1>9, <1>11, OrderedJoin, SMTT(40)
<1>13. WellTold(m, v)
  <2>1. v[1].is \in FirstOf(m.pc)
    BY <1>1, <1>10, <1>12
  <2>2. Has(v, "PostData") => m.pc \in {"aside", "postdata"}
    BY <1>1, <1>5, <1>12
  <2>3. m.after \/ (Handler(m.kind) /\ Knows(m) /\ m.pc # "document") => ~Has(v, "Document")
    <3>1. ASSUME m.after \/ (Handler(m.kind) /\ Knows(m) /\ m.pc # "document")
          PROVE  ~Has(p, "Document")
      <4>1. c.pc # "headers"
        BY <1>1, <1>2, <3>1 DEF Knows
      <4>2. CASE m.after
        BY <1>2, <1>3, <4>1, <4>2
      <4>3. CASE Handler(m.kind) /\ Knows(m)
        <5>1. Handler(c.kind)
          BY <1>2, <4>3 DEF Knows
        <5>2. c.pc = "final" /\ LastSent(c) = "EndRequest"
          BY <1>3, <4>1, <5>1, <1>7, Last
        <5> QED
          BY <1>3, <5>2
      <4> QED
        BY <3>1, <4>2, <4>3
    <3> QED
      BY <1>1, <1>12, <3>1
  <2>4. Knows(m) => \A i \in 1..Len(v) : v[i].kind = m.kind
    BY <1>2, <1>12 DEF Knows
  <2> QED
    BY <1>1, <1>12, <2>1, <2>2, <2>3, <2>4 DEF WellTold
<1>14. Said(n, m, e)
  <2>1. c.pc # "body" /\ n.pc # "body"
    BY <1>3
  <2> QED
    BY <1>2, <1>5, <2>1 DEF Said, Delivered
<1>15. LastSent(n) # "EndRequest" => ~Has(v, "EndRequest") /\ ~m.after
  <2>1. CASE c.pc = "headers"
    <3>1. ~m.after /\ ~Has(u, "EndRequest")
      BY <1>1, <1>2, <2>1 DEF Has
    <3> QED
      BY <1>3, <1>12, <3>1
  <2>2. CASE c.pc # "headers"
    BY <1>2, <1>3, <1>12, <2>2
  <2> QED
    BY <2>1, <2>2
<1>16. /\ Has(v, "PostData") => n.postdata_sent
       /\ m.pc \in {"headers", "document", "ask"} => ~n.postdata_sent
  BY <1>2, <1>5, <1>12
<1> QED
  BY <1>2, <1>3, <1>12, <1>13, <1>14, <1>15, <1>16 DEF InStep

-----------------------------------------------------------------------------
(* Conversation is kept, by the workers first.                             *)

\* What a worker at its end said stays said, and a request for post data is
\* all that is in a stream.
LEMMA SaidLast ==
  ASSUME NEW c, NEW m, NEW u, NEW d, WellTold(m, u), InStep(c, m, u, d), m.pc # "exited",
         ~Has(u, "BeginRequest"), NEW i \in 1..Len(d)
  PROVE  /\ d[i].is = "EndRequest" =>
              i = Len(d) /\ Len(u) = 0 /\ LastSent(c) = "EndRequest" /\ m.pc = "ended"
         /\ d[i].is = "RequirePostData" => Len(d) = 1
<1>1. Said(c, m, d) /\ WellTold(m, u)
  BY DEF InStep
<1>2. ASSUME m.pc = "ended" PROVE Len(u) = 0 /\ LastSent(c) = "EndRequest"
  <2>1. Len(u) \in Nat /\ c.pc # "headers"
    BY <1>2 DEF InStep, WellTold, Ordered
  <2>2. Len(u) = 0
    BY <1>1, <1>2, Firsts DEF WellTold, Has
  <2>3. Awaiting(c, m)
    BY <2>1, <2>2 DEF InStep
  <2> QED
    BY <1>2, <2>2, <2>3, Last DEF Awaiting
<1>3. CASE m.pc \in {"aside", "postdata"}
  <2>1. Len(d) = 1 /\ d[1].is = "RequirePostData"
    BY <1>1, <1>3 DEF Said
  <2>2. i = 1
    BY <2>1
  <2> QED
    BY <2>1, <2>2
<1>4. CASE m.pc = "finish"
  <2>1. \/ Len(d) = 1 /\ d[1].is = "Document"
        \/ Len(d) = 2 /\ d[1].is = "ResponseHeader" /\ d[2].is = "Document"
    BY <1>1, <1>4 DEF Said
  <2>2. Len(d) = 1 \/ Len(d) = 2
    BY <2>1
  <2>3. i = 1 \/ (Len(d) = 2 /\ i = 2)
    <3>1. CASE Len(d) = 1
      BY <3>1
    <3>2. CASE Len(d) = 2
      BY <3>2
    <3> QED
      BY <2>2, <3>1, <3>2
  <2> QED
    BY <2>1, <2>3
<1>5. CASE m.pc = "ended"
  <2>1. Delivered(c, d)
    BY <1>1, <1>5 DEF Said
  <2>2. CASE Len(d) = 3
    <3>1. i \in {1, 2, 3}
      BY <2>2
    <3> QED
      BY <1>2, <1>5, <2>1, <2>2, <3>1 DEF Delivered
  <2>3. CASE Len(d) # 3
    <3>1. \/ Len(d) = 2 /\ d[1].is = "Document" /\ d[2].is = "EndRequest"
          \/ Len(d) = 1 /\ d[1].is = "EndRequest"
      BY <2>1, <2>3 DEF Delivered
    <3>2. Len(d) = 1 \/ Len(d) = 2
      BY <3>1
    <3>3. i = 1 \/ (Len(d) = 2 /\ i = 2)
      <4>1. CASE Len(d) = 1
        BY <4>1
      <4>2. CASE Len(d) = 2
        BY <4>2
      <4> QED
        BY <3>2, <4>1, <4>2
    <3> QED
      BY <1>2, <1>5, <3>1, <3>3
  <2> QED
    BY <2>2, <2>3
<1>6. CASE m.pc \notin {"aside", "postdata", "finish", "ended"}
  BY <1>1, <1>6 DEF Said
<1> QED
  BY <1>3, <1>4, <1>5, <1>6

\* A worker keeps its socket until the manager takes it back.
LEMMA Stays ==
  ASSUME NEW w \in Workers, WorkerActs(w)
  PROVE  Releases(w) \/ (wk'[w].sock = wk[w].sock /\ UNCHANGED place)
BY DEF WorkerActs, Replies, Starts, Reads, PassesOn, Speaks, Finishes, GetsConfused, Exits, MovesTo

\* What it was told that has ended does not depend on its stream.
LEMMA ToldEnded ==
  ASSUME NEW m, NEW q, NEW r, WellTold(m, q), m.pc = "exited"
  PROVE  WellTold(m, r)
BY DEF WellTold

\* The crashes only become more.
LEMMA WorkerCrashes ==
  ASSUME Base, NEW w \in Workers, WorkerActs(w)
  PROVE  crashes \in Nat /\ crashes' \in Nat /\ crashes' >= crashes
<1>1. crashes \in Nat
  BY Bounds DEF Base, TypeOK
<1>2. crashes' = crashes \/ crashes' = crashes + 1
  BY DEF WorkerActs, Replies, Starts, Reads, PassesOn, Speaks, Finishes, GetsConfused, Exits,
              Releases
<1> QED
  BY <1>1, <1>2

LEMMA ToldUnreadWorker ==
  ASSUME Base, BeginsLast, Told, Unread, NEW w \in Workers, WorkerActs(w)
  PROVE  Told' /\ Unread'
<1>1. UNCHANGED <<ac, spoilt>> /\ wk[w].sock \in Sockets
  BY Shrinking
<1>2. \A v \in Workers : Clean(wk[v].sock)' => Clean(wk'[v].sock)
  BY <1>1 DEF Clean, Talking, Doubled
<1>3. \A v \in Workers : v # w => wk'[v] = wk[v]
  BY DEF WorkerActs, Replies, Starts, Reads, PassesOn, Speaks, Finishes, GetsConfused, Exits,
         Releases, Frees, MovesTo
<1>4. ASSUME NEW v \in Workers, wk'[v].sock # NoSocket, Clean(wk[v].sock)'
      PROVE  WellTold(wk'[v], up'[wk'[v].sock])
  <2>1. CASE v = w
    <3>1. wk'[w].sock = wk[w].sock
      BY <1>4, <2>1, Stays DEF Releases, Frees
    <3>2. WellTold(wk[w], up[wk[w].sock])
      BY <1>2, <1>4, <2>1, <3>1 DEF Told
    <3> QED
      BY <1>4, <2>1, <3>1, <3>2, ToldWorker
  <2>2. CASE v # w
    <3>1. wk'[v] = wk[v] /\ wk[v].sock # NoSocket /\ wk[v].sock # wk[w].sock
      BY <1>3, <1>4, <2>2 DEF Base, Held
    <3>2. wk[v].sock \in Sockets
      BY <3>1, WorkerFields DEF Base, Held
    <3>3. up'[wk[v].sock] = up[wk[v].sock]
      BY <3>1, <3>2, Apart
    <3> QED
      BY <1>2, <1>4, <3>1, <3>3 DEF Told
  <2> QED
    BY <2>1, <2>2
<1>5. wk'[w].pc \in {"next", "headers"} =>
        /\ wk[w].pc \in {"next", "headers"} /\ wk'[w].after = wk[w].after
  BY DEF WorkerActs, Replies, Starts, Reads, PassesOn, Speaks, Finishes, GetsConfused, Exits,
         Releases, Frees, MovesTo, Page
<1>6. Unread'
  BY <1>3, <1>5 DEF Unread
<1>7. Told'
  BY <1>4 DEF Told
<1> QED
  BY <1>6, <1>7

LEMMA FetchedWorker ==
  ASSUME Base, BeginsLast, Told, Fetched, NEW w \in Workers, WorkerActs(w)
  PROVE  Fetched'
<1>1. UNCHANGED <<ac, spoilt>> /\ wk[w].sock \in Sockets /\ place[wk[w].sock] = "handed"
  BY Shrinking, Bounds DEF Base, Held
<1>2. ASSUME NEW s \in Sockets, place'[s] \in {"watched", "waiting"}, s \notin spoilt
      PROVE  Len(up'[s]) = 0 \/ (Len(up'[s]) = 1 /\ up'[s][1].is = "BeginRequest")
  <2>1. CASE s # wk[w].sock
    <3>1. up'[s] = up[s] /\ place'[s] = place[s]
      BY <2>1, Apart
    <3> QED
      BY <1>2, <3>1 DEF Fetched
  <2>2. CASE s = wk[w].sock
    <3>1. Releases(w)
      BY <1>1, <1>2, <2>2, Stays
    <3>2. wk[w].pc = "ended" /\ up' = up
      BY <1>1, <1>2, <2>2, <3>1 DEF Releases, Base, TypeOK
    <3>3. WellTold(wk[w], up[s])
      BY <1>1, <1>2, <2>2, Bounds DEF Told, Clean
    <3>4. Len(up[s]) \in Nat /\ (Len(up[s]) > 0 => up[s][1].is = "BeginRequest")
      BY <3>2, <3>3, Lengths, Firsts DEF WellTold
    <3>5. ASSUME Len(up[s]) > 0 PROVE 1 = Len(up[s])
      <4>1. 1 \in 1..Len(up[s]) /\ up[s][1].is = "BeginRequest"
        BY <3>4, <3>5
      <4> QED
        BY <4>1 DEF BeginsLast
    <3> QED
      BY <3>2, <3>4, <3>5
  <2> QED
    BY <2>1, <2>2
<1> QED
  BY <1>1, <1>2 DEF Fetched

\* What happens on the connector's socket: nothing, or a step of its worker.
LEMMA Elsewhere ==
  ASSUME Base, NEW w \in Workers, WorkerActs(w), ac.sock \in Sockets, wk[w].sock # ac.sock
  PROVE  /\ up'[ac.sock] = up[ac.sock] /\ down'[ac.sock] = down[ac.sock]
         /\ place'[ac.sock] = place[ac.sock]
         /\ \A v \in Workers : wk'[v].sock = ac.sock => wk[v].sock = ac.sock /\ wk'[v] = wk[v]
BY Apart

\* On it there is no other worker.
LEMMA Alone ==
  ASSUME Base, NEW w \in Workers, WorkerActs(w), wk[w].sock = ac.sock,
         NEW v \in Workers, wk'[v].sock = ac.sock
  PROVE  v = w
<1>1. wk[w].sock # NoSocket
  BY Shrinking, Bounds
<1>2. v # w => wk'[v] = wk[v]
  BY DEF WorkerActs, Replies, Starts, Reads, PassesOn, Speaks, Finishes, GetsConfused, Exits,
         Releases, Frees, MovesTo
<1> QED
  BY <1>1, <1>2 DEF Base, Held

\* The worker of the connector's request.
LEMMA ServingWorker ==
  ASSUME Base, Agreement, Conversation, Serving, NEW w \in Workers, WorkerActs(w),
         wk[w].sock = ac.sock
  PROVE  \/ /\ ~Dead(w)' /\ wk'[w].sock = ac.sock
            /\ InStep(ac, wk'[w], up'[ac.sock], down'[ac.sock])
            /\ WellTold(wk'[w], up'[ac.sock])
         \/ Exits(w) /\ crashes' > 0
         \/ Releases(w) /\ wk[w].pc # "ended" /\ crashes > 0
         \/ /\ Releases(w) /\ wk[w].pc = "ended" /\ ~Dead(w)
            /\ InStep(ac, wk[w], up[ac.sock], down[ac.sock]) /\ WellTold(wk[w], up[ac.sock])
<1>1. ac.sock \in Sockets /\ ac.sock # NoSocket /\ ac.sock \notin shut
  BY Shrinking, Bounds DEF Base, Held
<1>2. WellTold(wk[w], up[ac.sock])
  BY <1>1 DEF Conversation, Told, Clean, Serving
<1>3. CASE Dead(w)
  <2>1. crashes > 0
    BY <1>3 DEF Conversation, Coupled
  <2>2. Releases(w)
    BY <1>3 DEF Dead, WorkerActs, Replies, Starts, Reads, PassesOn, Speaks, Finishes, GetsConfused,
                Exits, Page
  <2> QED
    BY <1>3, <2>1, <2>2 DEF Dead
<1>4. CASE ~Dead(w)
  <2>1. InStep(ac, wk[w], up[ac.sock], down[ac.sock])
    BY <1>4 DEF Conversation, Coupled
  <2>2. \/ /\ ~Dead(w)' /\ wk'[w].sock = ac.sock
           /\ InStep(ac, wk'[w], up'[ac.sock], down'[ac.sock])
        \/ Exits(w)
        \/ Releases(w)
    BY <1>2, <1>4, <2>1, StepWorker DEF Agreement, Conversation, Serving, Base
  <2>3. CASE Exits(w)
    <3>1. crashes \in Nat
      BY WorkerCrashes
    <3>2. crashes' = crashes + 1
      BY <1>1, <2>3 DEF Exits
    <3> QED
      BY <2>3, <3>1, <3>2
  <2>4. CASE Releases(w)
    BY <1>2, <1>4, <2>1, <2>4 DEF Releases, Dead
  <2>5. CASE /\ ~Dead(w)' /\ wk'[w].sock = ac.sock
             /\ InStep(ac, wk'[w], up'[ac.sock], down'[ac.sock])
    <3>1. WellTold(wk'[w], up'[ac.sock])
      BY <1>1, <1>2, <2>5, ToldWorker DEF Agreement, Conversation
    <3> QED
      BY <2>5, <3>1
  <2> QED
    BY <2>2, <2>3, <2>4, <2>5
<1> QED
  BY <1>3, <1>4

LEMMA CoupledWorker ==
  ASSUME Base, Agreement, Conversation, NEW w \in Workers, WorkerActs(w)
  PROVE  Coupled'
<1>1. UNCHANGED ac
  BY Shrinking
<1>2. crashes \in Nat /\ crashes' \in Nat /\ crashes' >= crashes
  BY WorkerCrashes
<1>3. ASSUME Serving, NEW v \in Workers, wk'[v].sock = ac.sock
      PROVE  IF Dead(v)' THEN crashes' > 0
             ELSE InStep(ac, wk'[v], up'[ac.sock], down'[ac.sock])
  <2>1. ac.sock \in Sockets
    BY <1>3, Fields DEF Serving, Talking, Base, Composed
  <2>2. CASE wk[w].sock # ac.sock
    <3>1. /\ up'[ac.sock] = up[ac.sock] /\ down'[ac.sock] = down[ac.sock]
          /\ wk[v].sock = ac.sock /\ wk'[v] = wk[v]
      BY <1>3, <2>1, <2>2, Elsewhere
    <3>2. Dead(v)' <=> Dead(v)
      BY <3>1 DEF Dead
    <3> QED
      BY <1>2, <1>3, <3>1, <3>2 DEF Conversation, Coupled
  <2>3. CASE wk[w].sock = ac.sock
    <3>1. v = w
      BY <1>3, <2>3, Alone
    <3>2. ~Releases(w)
      BY <1>3, <2>1, <3>1, Bounds DEF Releases, Frees
    <3>3. Exits(w) => Dead(w)'
      BY DEF Exits, MovesTo, Dead
    <3> QED
      BY <1>3, <2>3, <3>1, <3>2, <3>3, ServingWorker
  <2> QED
    BY <2>2, <2>3
<1>4. Serving' <=> Serving
  BY <1>1 DEF Serving, Talking, Doubled
<1> QED
  BY <1>1, <1>3, <1>4 DEF Coupled

LEMMA AtWorkWorker ==
  ASSUME Base, Agreement, Conversation, NEW w \in Workers, WorkerActs(w)
  PROVE  AtWork'
<1>1. UNCHANGED ac /\ wk[w].sock \in Sockets /\ wk[w].pc # "free"
  BY Shrinking
<1>2. crashes \in Nat /\ crashes' \in Nat /\ crashes' >= crashes
  BY WorkerCrashes
<1>3. ASSUME Serving
      PROVE  /\ place'[ac.sock] = "closed" => crashes' > 0
             /\ place'[ac.sock] # "waiting"
             /\ place'[ac.sock] = "watched" =>
                  /\ Len(up'[ac.sock]) = 0 /\ ac.pc # "headers"
                  /\ LastSent(ac) = "EndRequest" /\ Delivered(ac, down'[ac.sock])
  <2>1. ac.sock \in Sockets
    BY <1>3, Fields DEF Serving, Talking, Base, Composed
  <2>2. CASE wk[w].sock # ac.sock
    <3>1. /\ up'[ac.sock] = up[ac.sock] /\ down'[ac.sock] = down[ac.sock]
          /\ place'[ac.sock] = place[ac.sock]
      BY <2>1, <2>2, Elsewhere
    <3> QED
      BY <1>2, <1>3, <3>1 DEF Conversation, AtWork
  <2>3. CASE wk[w].sock = ac.sock
    <3>1. place[ac.sock] = "handed"
      BY <1>1, <2>3, WorkerFields
    <3>2. CASE ~Releases(w)
      BY <3>1, <3>2, Stays
    <3>3. CASE Releases(w) /\ wk[w].pc # "ended"
      <4>1. place'[ac.sock] = "closed"
        BY <2>1, <2>3, <3>3 DEF Releases, Base, TypeOK
      <4>2. ~Exits(w)
        BY <3>3 DEF Exits, Releases
      <4>3. wk'[w].sock # ac.sock
        BY <2>1, <3>3, Bounds DEF Releases, Frees
      <4>4. crashes > 0
        BY <1>3, <2>3, <3>3, <4>2, <4>3, ServingWorker
      <4> QED
        BY <1>2, <4>1, <4>4
    <3>4. CASE Releases(w) /\ wk[w].pc = "ended"
      <4>1. place'[ac.sock] = "watched" /\ up' = up /\ down' = down
        BY <2>1, <2>3, <3>4 DEF Releases, Base, TypeOK
      <4>2. ~Exits(w) \/ wk'[w].pc = "exited"
        BY DEF Exits, MovesTo
      <4>3. wk'[w].sock # ac.sock /\ wk'[w].pc # "exited"
        BY <2>1, <3>4, Bounds DEF Releases, Frees
      <4>4. InStep(ac, wk[w], up[ac.sock], down[ac.sock]) /\ WellTold(wk[w], up[ac.sock])
        BY <1>3, <2>3, <3>4, <4>2, <4>3, ServingWorker
      <4>5. Len(up[ac.sock]) = 0
        <5>1. Len(up[ac.sock]) \in Nat
          BY <2>1, Lengths
        <5>2. Len(up[ac.sock]) > 0 => up[ac.sock][1].is = "BeginRequest"
          BY <3>4, <4>4, Firsts DEF WellTold
        <5>3. ASSUME Len(up[ac.sock]) > 0 PROVE FALSE
          <6>1. 1 \in 1..Len(up[ac.sock])
            BY <5>1, <5>3
          <6>2. ac.pc = "reply"
            BY <2>1, <5>2, <5>3, <6>1 DEF Agreement, BeginsLast
          <6> QED
            BY <1>3, <6>2 DEF Serving, Talking
        <5> QED
          BY <5>1, <5>3
      <4>6. ac.pc # "headers"
        BY <3>4, <4>4 DEF InStep
      <4>7. Awaiting(ac, wk[w]) /\ Said(ac, wk[w], down[ac.sock])
        BY <4>4, <4>5, <4>6 DEF InStep
      <4> QED
        BY <3>4, <4>1, <4>5, <4>6, <4>7, Last DEF Awaiting, Said
    <3> QED
      BY <3>2, <3>3, <3>4
  <2> QED
    BY <2>2, <2>3
<1>4. Serving' <=> Serving
  BY <1>1 DEF Serving, Talking, Doubled
<1> QED
  BY <1>1, <1>3, <1>4 DEF AtWork

LEMMA LastWordWorker ==
  ASSUME Base, Base', Agreement, Agreement', Conversation, NEW w \in Workers, WorkerActs(w)
  PROVE  LastWord'
<1>1. UNCHANGED ac
  BY Shrinking
<1>2. ASSUME Serving, NEW i \in 1..Len(down'[ac.sock])
      PROVE  /\ down'[ac.sock][i].is = "EndRequest" =>
                  /\ i = Len(down'[ac.sock]) /\ Len(up'[ac.sock]) = 0
                  /\ LastSent(ac) = "EndRequest"
                  /\ \A v \in Workers : wk'[v].sock = ac.sock => wk'[v].pc \in {"ended", "exited"}
             /\ down'[ac.sock][i].is = "RequirePostData" => Len(down'[ac.sock]) = 1
  <2>1. ac.sock \in Sockets
    BY <1>2, Fields DEF Serving, Talking, Base, Composed
  <2>2. CASE wk[w].sock # ac.sock
    <3>1. /\ up'[ac.sock] = up[ac.sock] /\ down'[ac.sock] = down[ac.sock]
          /\ \A v \in Workers : wk'[v].sock = ac.sock => wk[v].sock = ac.sock /\ wk'[v] = wk[v]
      BY <2>1, <2>2, Elsewhere
    <3> QED
      BY <1>2, <3>1 DEF Conversation, LastWord
  <2>3. CASE wk[w].sock = ac.sock /\ (Exits(w) \/ Releases(w))
    <3>1. up' = up /\ down' = down
      BY <2>3 DEF Exits, Releases
    <3>2. \A v \in Workers : wk'[v].sock = ac.sock => v = w
      BY <2>3, Alone
    <3>3. wk'[w].sock = ac.sock => wk'[w].pc = "exited"
      BY <2>1, <2>3, Bounds DEF Exits, Releases, Frees, MovesTo
    <3> QED
      BY <1>2, <3>1, <3>2, <3>3 DEF Conversation, LastWord
  <2>4. CASE wk[w].sock = ac.sock /\ ~Exits(w) /\ ~Releases(w)
    <3>1. /\ ~Dead(w)' /\ InStep(ac, wk'[w], up'[ac.sock], down'[ac.sock])
          /\ WellTold(wk'[w], up'[ac.sock])
      BY <1>2, <2>4, ServingWorker
    <3>2. ~Has(up'[ac.sock], "BeginRequest")
      BY <1>1, <1>2, <2>1 DEF Has, Agreement, BeginsLast, Serving, Talking
    <3>3. wk'[w].pc # "exited"
      BY <3>1 DEF Dead
    <3>4. /\ down'[ac.sock][i].is = "EndRequest" =>
               /\ i = Len(down'[ac.sock]) /\ Len(up'[ac.sock]) = 0
               /\ LastSent(ac) = "EndRequest" /\ wk'[w].pc = "ended"
          /\ down'[ac.sock][i].is = "RequirePostData" => Len(down'[ac.sock]) = 1
      BY <1>2, <3>1, <3>2, <3>3, SaidLast
    <3>5. \A v \in Workers : wk'[v].sock = ac.sock => v = w
      BY <2>4, Alone
    <3> QED
      BY <3>4, <3>5
  <2> QED
    BY <2>2, <2>3, <2>4
<1>3. Serving' <=> Serving
  BY <1>1 DEF Serving, Talking, Doubled
<1> QED
  BY <1>1, <1>2, <1>3 DEF LastWord

LEMMA QuietWorker ==
  ASSUME Base, Conversation, NEW w \in Workers, WorkerActs(w)
  PROVE  Quiet'
<1>1. UNCHANGED <<ac, spoilt>> /\ wk[w].sock \in Sockets
  BY Shrinking
<1>2. ASSUME ac.pc \in {"free", "acquire", "begin"}, ac.sock # NoSocket, ac.sock \notin spoilt
      PROVE  /\ Len(up'[ac.sock]) = 0 /\ Len(down'[ac.sock]) = 0 /\ place'[ac.sock] # "waiting"
             /\ \A v \in Workers : wk'[v].sock = ac.sock => wk'[v].pc \in {"ended", "exited"}
  <2>1. ac.sock \in Sockets
    BY <1>2, Fields DEF Base
  <2>2. /\ Len(up[ac.sock]) = 0 /\ Len(down[ac.sock]) = 0 /\ place[ac.sock] # "waiting"
        /\ \A v \in Workers : wk[v].sock = ac.sock => wk[v].pc \in {"ended", "exited"}
    BY <1>2 DEF Conversation, Quiet
  <2>3. CASE wk[w].sock # ac.sock
    BY <2>1, <2>2, <2>3, Elsewhere
  <2>4. CASE wk[w].sock = ac.sock
    <3>1. wk[w].pc \in {"ended", "exited"}
      BY <2>2, <2>4
    <3>2. Exits(w) \/ Releases(w)
      BY <3>1 DEF WorkerActs, Replies, Starts, Reads, PassesOn, Speaks, Finishes, GetsConfused,
                  Page
    <3>3. up' = up /\ down' = down
      BY <3>2 DEF Exits, Releases
    <3>4. \A v \in Workers : wk'[v].sock = ac.sock => v = w
      BY <2>4, Alone
    <3>5. wk'[w].sock = ac.sock => wk'[w].pc = "exited"
      BY <2>1, <3>2, Bounds DEF Exits, Releases, Frees, MovesTo
    <3>6. place'[ac.sock] # "waiting"
      BY <2>1, <2>2, <2>4, <3>2 DEF Exits, Releases, Base, TypeOK
    <3> QED
      BY <2>2, <3>3, <3>4, <3>5, <3>6
  <2> QED
    BY <2>3, <2>4
<1> QED
  BY <1>1, <1>2 DEF Quiet

LEMMA ConversationWorker ==
  ASSUME Base, Base', Agreement, Agreement', Conversation, NEW w \in Workers, WorkerActs(w)
  PROVE  Conversation'
<1>1. Told' /\ Unread' /\ Fetched'
  BY ToldUnreadWorker, FetchedWorker DEF Agreement, Conversation
<1> QED
  BY <1>1, CoupledWorker, AtWorkWorker, LastWordWorker, QuietWorker DEF Conversation

-----------------------------------------------------------------------------
(* The manager: a request is handed over, waits, or its socket is closed.  *)

LEMMA ConversationHands ==
  ASSUME Base, Agreement, Conversation, NEW s \in Sockets, NEW w \in Workers, Hands(s, w)
  PROVE  Conversation'
<1>1. /\ UNCHANGED <<ac, up, down, spoilt, crashes>> /\ wk'[w].sock = s /\ wk'[w].pc = "next"
      /\ ~wk'[w].after /\ ((place[s] = "watched" /\ up[s] # <<>>) \/ place[s] = "waiting")
      /\ \A v \in Workers : v # w => wk'[v] = wk[v]
      /\ place'[s] = "handed" /\ \A t \in Sockets : t # s => place'[t] = place[t]
  BY DEF Hands, Base, TypeOK
<1>2. up[s] # <<>> <=> Len(up[s]) # 0
  BY Lengths
\* It is no connection that is in use, and none of the pool.
<1>3. ~(Serving /\ s = ac.sock)
  BY <1>1, <1>2 DEF Conversation, AtWork
<1>4. ~(ac.pc \in {"free", "acquire", "begin"} /\ s = ac.sock /\ s \notin spoilt)
  BY <1>1, <1>2, Bounds DEF Conversation, Quiet
<1>5. Serving' <=> Serving
  BY <1>1 DEF Serving, Talking, Doubled
<1>6. \A v \in Workers : Clean(wk[v].sock)' => Clean(wk'[v].sock)
  BY <1>1 DEF Clean, Talking, Doubled
<1>7. Told'
  <2>1. ASSUME NEW v \in Workers, wk'[v].sock # NoSocket, Clean(wk[v].sock)'
        PROVE  WellTold(wk'[v], up'[wk'[v].sock])
    <3>1. CASE v # w
      BY <1>1, <1>6, <2>1, <3>1 DEF Conversation, Told
    <3>2. CASE v = w
      <4>1. s \notin spoilt
        BY <1>1, <1>3, <1>6, <2>1, <3>2 DEF Clean, Serving
      <4>2. Len(up[s]) = 0 \/ (Len(up[s]) = 1 /\ up[s][1].is = "BeginRequest")
        BY <1>1, <4>1 DEF Conversation, Fetched
      <4>3. CASE Len(up[s]) = 0
        BY <1>1, <3>2, <4>3, ToldNothing
      <4>4. CASE Len(up[s]) = 1 /\ up[s][1].is = "BeginRequest"
        BY <1>1, <3>2, <4>4, ToldBegin
      <4> QED
        BY <4>2, <4>3, <4>4
    <3> QED
      BY <3>1, <3>2
  <2> QED
    BY <2>1 DEF Told
<1>8. Unread'
  BY <1>1 DEF Conversation, Unread
<1>9. Fetched'
  BY <1>1 DEF Conversation, Fetched
<1>10. Coupled'
  <2>1. ASSUME Serving, NEW v \in Workers, wk'[v].sock = ac.sock
        PROVE  IF Dead(v)' THEN crashes > 0 ELSE InStep(ac, wk'[v], up[ac.sock], down[ac.sock])
    <3>1. wk'[v] = wk[v]
      BY <1>1, <1>3, <2>1
    <3>2. Dead(v)' <=> Dead(v)
      BY <3>1 DEF Dead
    <3> QED
      BY <2>1, <3>1, <3>2 DEF Conversation, Coupled
  <2> QED
    BY <1>1, <1>5, <2>1 DEF Coupled
<1>11. AtWork'
  <2>1. ASSUME Serving PROVE place'[ac.sock] = place[ac.sock]
    <3>1. ac.sock \in Sockets
      BY <2>1, Fields DEF Serving, Talking, Base, Composed
    <3> QED
      BY <1>1, <1>3, <2>1, <3>1
  <2> QED
    BY <1>1, <1>5, <2>1 DEF Conversation, AtWork
<1>12. LastWord'
  <2>1. ASSUME Serving, NEW v \in Workers, wk'[v].sock = ac.sock PROVE wk'[v] = wk[v]
    BY <1>1, <1>3, <2>1
  <2> QED
    BY <1>1, <1>5, <2>1 DEF Conversation, LastWord
<1>13. Quiet'
  <2>1. ASSUME ac.pc \in {"free", "acquire", "begin"}, ac.sock # NoSocket, ac.sock \notin spoilt
        PROVE  /\ place'[ac.sock] = place[ac.sock]
               /\ \A v \in Workers : wk'[v].sock = ac.sock => wk'[v] = wk[v]
    <3>1. ac.sock \in Sockets
      BY <2>1, Fields DEF Base
    <3> QED
      BY <1>1, <1>4, <2>1, <3>1
  <2> QED
    BY <1>1, <2>1 DEF Conversation, Quiet
<1> QED
  BY <1>7, <1>8, <1>9, <1>10, <1>11, <1>12, <1>13 DEF Conversation

LEMMA ConversationSetsPlace ==
  ASSUME Base, Agreement, Conversation, NEW s \in Sockets, SetsPlace(s)
  PROVE  Conversation'
<1>1. /\ UNCHANGED <<ac, up, down, wk, spoilt, crashes>> /\ place[s] = "watched"
      /\ \/ up[s] = <<>> /\ s \in shut /\ place'[s] = "closed"
         \/ up[s] # <<>> /\ place'[s] = "waiting"
      /\ \A t \in Sockets : t # s => place'[t] = place[t]
  BY DEF SetsPlace, Base, TypeOK
<1>2. up[s] # <<>> <=> Len(up[s]) # 0
  BY Lengths
<1>3. s = ac.sock => s \notin shut
  BY Bounds DEF Base, Held
<1>4. ~(Serving /\ s = ac.sock)
  BY <1>1, <1>2, <1>3 DEF Conversation, AtWork
<1>5. ~(ac.pc \in {"free", "acquire", "begin"} /\ s = ac.sock /\ s \notin spoilt)
  BY <1>1, <1>2, <1>3, Bounds DEF Conversation, Quiet
<1>6. Serving' <=> Serving
  BY <1>1 DEF Serving, Talking, Doubled
<1>7. \A v \in Workers : Clean(wk[v].sock)' => Clean(wk[v].sock)
  BY <1>1 DEF Clean, Talking, Doubled
<1>8. \A v \in Workers : Dead(v)' <=> Dead(v)
  BY <1>1 DEF Dead
<1>9. Told' /\ Unread'
  BY <1>1, <1>7 DEF Conversation, Told, Unread
<1>10. Fetched'
  BY <1>1 DEF Conversation, Fetched
<1>11. Coupled' /\ LastWord'
  BY <1>1, <1>6, <1>8 DEF Conversation, Coupled, LastWord
<1>12. AtWork'
  <2>1. ASSUME Serving PROVE place'[ac.sock] = place[ac.sock]
    <3>1. ac.sock \in Sockets
      BY <2>1, Fields DEF Serving, Talking, Base, Composed
    <3> QED
      BY <1>1, <1>4, <2>1, <3>1
  <2> QED
    BY <1>1, <1>6, <2>1 DEF Conversation, AtWork
<1>13. Quiet'
  <2>1. ASSUME ac.pc \in {"free", "acquire", "begin"}, ac.sock # NoSocket, ac.sock \notin spoilt
        PROVE  place'[ac.sock] = place[ac.sock]
    <3>1. ac.sock \in Sockets
      BY <2>1, Fields DEF Base
    <3> QED
      BY <1>1, <1>5, <2>1, <3>1
  <2> QED
    BY <1>1, <2>1 DEF Conversation, Quiet
<1> QED
  BY <1>9, <1>10, <1>11, <1>12, <1>13 DEF Conversation

-----------------------------------------------------------------------------
(* The connector between requests and while it opens a connection.         *)

\* A connection that is not in use, before and after.
LEMMA ConversationIdle ==
  ASSUME Base, Conversation, UNCHANGED <<up, down, place, wk>>,
         ac'.pc \in {"free", "acquire", "begin"}, spoilt \subseteq spoilt',
         \/ ac.pc \in {"free", "acquire", "begin"} /\ ac'.sock = ac.sock
         \/ ac'.sock = NoSocket
         \/ ac'.sock \in spoilt'
  PROVE  Conversation'
<1>1. ~Serving' /\ ~Talking'
  BY DEF Serving, Talking
<1>2. \A v \in Workers : Clean(wk[v].sock)' => Clean(wk[v].sock)
  BY <1>1 DEF Clean
<1>3. Told' /\ Unread' /\ Fetched'
  BY <1>2 DEF Conversation, Told, Unread, Fetched
<1>4. Coupled' /\ AtWork' /\ LastWord'
  BY <1>1 DEF Coupled, AtWork, LastWord
<1>5. Quiet'
  BY DEF Conversation, Quiet
<1> QED
  BY <1>3, <1>4, <1>5 DEF Conversation

LEMMA ConversationOpens ==
  ASSUME Base, Conversation, Opens
  PROVE  Conversation'
<1> DEFINE s == Fresh
<1>1. /\ s \in Sockets /\ ac'.pc = "begin" /\ ac'.sock = s /\ UNCHANGED <<wk, crashes>>
      /\ \A w \in Workers : wk[w].sock # s
      /\ up'[s] = <<>> /\ down'[s] = <<>> /\ place'[s] = "watched"
      /\ \A t \in Sockets : t # s => up'[t] = up[t] /\ down'[t] = down[t] /\ place'[t] = place[t]
      /\ spoilt' = spoilt \ {s}
  BY DEF Opens, ConnectsTo, Connect, Unused, Base, TypeOK
<1>2. ~Serving' /\ ~Talking'
  BY <1>1 DEF Serving, Talking
<1>3. Len(<<>>) = 0
  OBVIOUS
<1>4. \A w \in Workers : wk[w].sock # NoSocket => wk[w].sock \in Sockets /\ wk[w].sock # s
  BY <1>1, WorkerFields DEF Base, Held
<1>5. \A v \in Workers : wk[v].sock # NoSocket /\ Clean(wk[v].sock)' => Clean(wk[v].sock)
  BY <1>1, <1>2, <1>4 DEF Clean
<1>6. Told' /\ Unread'
  BY <1>1, <1>4, <1>5 DEF Conversation, Told, Unread
<1>7. Fetched'
  BY <1>1, <1>3 DEF Conversation, Fetched
<1>8. Coupled' /\ AtWork' /\ LastWord'
  BY <1>2 DEF Coupled, AtWork, LastWord
<1>9. Quiet'
  BY <1>1, <1>3 DEF Quiet
<1> QED
  BY <1>6, <1>7, <1>8, <1>9 DEF Conversation

LEMMA ConversationBegins ==
  ASSUME Base, Conversation, Begins
  PROVE  Conversation'
<1>1. /\ ac.pc = "begin" /\ ac'.pc = "reply" /\ ac'.sock = ac.sock
      /\ UNCHANGED <<down, place, wk, spoilt>>
  BY DEF Begins, GoesOn
<1>2. ac.sock \in Sockets /\ ac.sock # NoSocket
  BY <1>1, Fields DEF Base, Composed
<1>3. /\ Len(up'[ac.sock]) = Len(up[ac.sock]) + 1 /\ Len(up[ac.sock]) \in Nat
      /\ up'[ac.sock][Len(up[ac.sock]) + 1] = BeginBlock
      /\ \A t \in Sockets : t # ac.sock => up'[t] = up[t]
      /\ BeginBlock.is = "BeginRequest"
  BY <1>2, Beginning, BeginBlockType DEF Base
<1>4. ASSUME ac.sock \notin spoilt
      PROVE  /\ Len(up'[ac.sock]) = 1 /\ up'[ac.sock][1].is = "BeginRequest"
             /\ \A w \in Workers : wk[w].sock = ac.sock => wk[w].pc \in {"ended", "exited"}
  <2>1. Len(up[ac.sock]) = 0
    BY <1>1, <1>2, <1>4 DEF Conversation, Quiet
  <2> QED
    BY <1>1, <1>2, <1>3, <1>4, <2>1 DEF Conversation, Quiet
<1>5. ~Serving' /\ ~Talking'
  BY <1>1 DEF Serving, Talking
<1>6. \A v \in Workers : Clean(wk[v].sock)' => Clean(wk[v].sock) /\ wk[v].sock \notin spoilt
  BY <1>1, <1>5 DEF Clean
<1>7. ASSUME NEW v \in Workers, wk[v].sock # NoSocket, Clean(wk[v].sock)'
      PROVE  WellTold(wk[v], up'[wk[v].sock])
  <2>1. CASE wk[v].sock = ac.sock
    BY <1>4, <1>6, <1>7, <2>1, ToldBegin
  <2>2. CASE wk[v].sock # ac.sock
    <3>1. wk[v].sock \in Sockets
      BY <1>7, WorkerFields DEF Base, Held
    <3> QED
      BY <1>3, <1>6, <1>7, <2>2, <3>1 DEF Conversation, Told
  <2> QED
    BY <2>1, <2>2
<1>8. Told' /\ Unread'
  BY <1>1, <1>7 DEF Conversation, Told, Unread
<1>9. Fetched'
  BY <1>1, <1>3, <1>4 DEF Conversation, Fetched
<1>10. Coupled' /\ AtWork' /\ LastWord'
  BY <1>5 DEF Coupled, AtWork, LastWord
<1>11. Quiet'
  BY <1>1 DEF Quiet
<1> QED
  BY <1>8, <1>9, <1>10, <1>11 DEF Conversation

LEMMA ConversationAgrees ==
  ASSUME Base, Base', Agreement, Conversation, Agrees
  PROVE  Conversation'
<1>1. /\ ac.pc = "reply" /\ ac'.pc = "headers" /\ ac'.sock = ac.sock /\ ac'.req = ac.req
      /\ Hears({"BeginRequest"}) /\ Received.reply = 1
      /\ UNCHANGED <<up, place, wk, spoilt, crashes>>
  BY DEF Agrees, GoesOn
<1>2. ac.sock \in Sockets /\ ac.sock # NoSocket
  BY <1>1, Fields DEF Base, Composed
<1>3. /\ IsTail(down'[ac.sock], down[ac.sock]) /\ down[ac.sock][1].is = "BeginRequest"
      /\ down[ac.sock][1].reply = 1
      /\ Len(down[ac.sock]) \in Nat \ {0} /\ 1 \in 1..Len(down[ac.sock])
  BY <1>1, <1>2, Hearing DEF IsTail
<1>4. Ready /\ Len(down[ac.sock]) = 1
  BY <1>2, <1>3 DEF Agreement, ReplyLast
<1>5. Len(down'[ac.sock]) = 0 /\ Len(up[ac.sock]) = 0
  BY <1>2, <1>3, <1>4, Lengths DEF IsTail, Ready
<1>6. crashes \in Nat
  BY Bounds DEF Base, TypeOK
<1>7. ASSUME ~(crashes > 0)
      PROVE  \A w \in Workers : wk[w].sock = ac.sock => wk[w].pc = "headers"
  <2>1. crashes = 0 /\ GoodReplyComes
    BY <1>1, <1>3, <1>6, <1>7 DEF GoodReplyComes
  <2> QED
    BY <2>1 DEF Agreement, Alive
<1>8. place[ac.sock] \in {"handed", "closed"} /\ (place[ac.sock] = "closed" => crashes > 0)
  <2>1. ASSUME ~(crashes > 0) PROVE place[ac.sock] = "handed"
    <3>1. crashes = 0 /\ GoodReplyComes
      BY <1>1, <1>3, <1>6, <2>1 DEF GoodReplyComes
    <3> QED
      BY <3>1 DEF Agreement, Alive
  <2> QED
    BY <1>4, <2>1 DEF Ready
<1>9. ac'.blocks = 0 /\ ~ac'.postdata_sent
  BY <1>1 DEF Base, Composed
<1>10. ASSUME NEW w \in Workers, wk[w].sock = ac.sock
       PROVE  /\ (wk[w].pc = "headers" /\ wk[w].req = ac.req) \/ wk[w].pc = "exited"
              /\ WellTold(wk[w], up[ac.sock])
              /\ wk[w].pc = "exited" => crashes > 0
              /\ wk[w].pc = "headers" => InStep(ac', wk[w], up[ac.sock], down'[ac.sock])
  <2>1. (wk[w].pc = "headers" /\ wk[w].req = ac.req) \/ wk[w].pc = "exited"
    BY <1>4, <1>10 DEF Ready
  <2>2. wk[w].pc = "exited" => crashes > 0
    BY <1>7, <1>10
  <2>3. CASE wk[w].pc = "headers" /\ wk[w].req = ac.req
    <3>1. ~wk[w].after
      BY <2>3 DEF Conversation, Unread
    <3>2. WellTold(wk[w], up[ac.sock])
      BY <1>5, <2>3, <3>1, ToldNothing
    <3>3. Said(ac', wk[w], down'[ac.sock])
      BY <1>5, <2>3 DEF Said
    <3>4. InStep(ac', wk[w], up[ac.sock], down'[ac.sock])
      BY <1>1, <1>5, <1>9, <2>3, <3>3 DEF InStep, Has
    <3> QED
      BY <2>3, <3>2, <3>4
  <2>4. CASE wk[w].pc = "exited"
    BY <1>5, <2>2, <2>4, ToldNothing
  <2> QED
    BY <2>1, <2>2, <2>3, <2>4
<1>11. ASSUME NEW v \in Workers, wk[v].sock # NoSocket, Clean(wk[v].sock)'
       PROVE  WellTold(wk[v], up[wk[v].sock])
  <2>1. CASE wk[v].sock = ac.sock
    BY <1>10, <2>1
  <2>2. CASE wk[v].sock # ac.sock
    <3>1. Clean(wk[v].sock)
      BY <1>1, <1>11, <2>2 DEF Clean
    <3> QED
      BY <1>11, <3>1 DEF Conversation, Told
  <2> QED
    BY <2>1, <2>2
<1>12. Told' /\ Unread' /\ Fetched'
  BY <1>1, <1>11 DEF Conversation, Told, Unread, Fetched
<1>13. Coupled'
  <2>1. ASSUME NEW v \in Workers, wk[v].sock = ac.sock
        PROVE  IF Dead(v)' THEN crashes > 0
               ELSE InStep(ac', wk[v], up[ac.sock], down'[ac.sock])
    BY <1>1, <1>10, <2>1 DEF Dead
  <2> QED
    BY <1>1, <2>1 DEF Coupled
<1>14. AtWork' /\ Quiet'
  BY <1>1, <1>8 DEF AtWork, Quiet
<1>15. LastWord'
  <2>1. \A i \in 1..Len(down'[ac.sock]) : FALSE
    BY <1>5
  <2> QED
    BY <1>1, <2>1 DEF LastWord
<1> QED
  BY <1>12, <1>13, <1>14, <1>15 DEF Conversation

-----------------------------------------------------------------------------
(* The connector while it sends its request and receives the answer.       *)

\* A request that was sent twice: nothing is claimed of its connection.
LEMMA ConversationDoubled ==
  ASSUME Base, Conversation, UNCHANGED <<place, wk>>, ac'.sock = ac.sock, ac.sock \in spoilt',
         Talking, ~Serving', ac'.pc \notin {"free", "acquire", "begin"},
         \A t \in Sockets : t # ac.sock => up'[t] = up[t],
         spoilt \subseteq spoilt', spoilt' \subseteq spoilt \cup {ac.sock}
  PROVE  Conversation'
<1>1. \A v \in Workers : Clean(wk[v].sock)' => wk[v].sock # ac.sock /\ Clean(wk[v].sock)
  BY DEF Clean, Serving
<1>2. \A v \in Workers : wk[v].sock # NoSocket => wk[v].sock \in Sockets
  BY WorkerFields DEF Base, Held
<1>3. Told' /\ Unread'
  BY <1>1, <1>2 DEF Conversation, Told, Unread
<1>4. Fetched'
  BY DEF Conversation, Fetched
<1>5. Coupled' /\ AtWork' /\ LastWord' /\ Quiet'
  BY DEF Coupled, AtWork, LastWord, Quiet
<1> QED
  BY <1>3, <1>4, <1>5 DEF Conversation

\* More of the request, on a connection that is with its worker.
LEMMA ConversationSends ==
  ASSUME Base, Conversation, UNCHANGED <<place, wk, spoilt, crashes>>, ac'.sock = ac.sock,
         Serving, Serving', ac'.pc \notin {"free", "acquire", "begin"},
         place[ac.sock] \notin {"watched", "waiting"}, NEW p,
         IsAppended(up'[ac.sock], up[ac.sock], p),
         \A t \in Sockets : t # ac.sock => up'[t] = up[t],
         Sending(ac, ac', p, down[ac.sock], down'[ac.sock]),
         ac.pc = "headers" => Len(down[ac.sock]) = 0
  PROVE  Conversation'
<1> DEFINE s == ac.sock
<1>1. s \in Sockets /\ s # NoSocket
  BY Fields, Bounds DEF Base, Composed, Serving, Talking
<1>2. ASSUME NEW w \in Workers, wk[w].sock = s
      PROVE  /\ WellTold(wk[w], up'[s])
             /\ IF Dead(w) THEN crashes > 0 ELSE InStep(ac', wk[w], up'[s], down'[s])
  <2>1. WellTold(wk[w], up[s])
    BY <1>1, <1>2 DEF Conversation, Told, Clean, Serving
  <2>2. wk[w].pc # "confused"
    BY <2>1 DEF WellTold
  <2>3. CASE wk[w].pc = "exited"
    BY <1>2, <2>1, <2>3, ToldEnded DEF Conversation, Coupled, Dead
  <2>4. CASE wk[w].pc # "exited"
    <3>1. ~Dead(w) /\ InStep(ac, wk[w], up[s], down[s])
      BY <1>2, <2>2, <2>4 DEF Conversation, Coupled, Dead
    <3>2. WellTold(wk[w], up'[s]) /\ InStep(ac', wk[w], up'[s], down'[s])
      BY <2>1, <2>4, <3>1, StepSending DEF Base, Composed
    <3> QED
      BY <3>1, <3>2
  <2> QED
    BY <2>3, <2>4
<1>3. ASSUME NEW v \in Workers, wk[v].sock # NoSocket, Clean(wk[v].sock)'
      PROVE  WellTold(wk[v], up'[wk[v].sock])
  <2>1. CASE wk[v].sock = s
    BY <1>2, <2>1
  <2>2. CASE wk[v].sock # s
    <3>1. Clean(wk[v].sock) /\ wk[v].sock \in Sockets
      BY <1>3, <2>2, WorkerFields DEF Clean, Base, Held
    <3> QED
      BY <1>3, <2>2, <3>1 DEF Conversation, Told
  <2> QED
    BY <2>1, <2>2
<1>4. Told' /\ Unread'
  BY <1>3 DEF Conversation, Told, Unread
<1>5. Fetched'
  BY DEF Conversation, Fetched
<1>6. Coupled'
  <2>1. \A w \in Workers : Dead(w)' <=> Dead(w)
    BY DEF Dead
  <2> QED
    BY <1>2, <2>1 DEF Coupled
<1>7. AtWork' /\ Quiet'
  BY DEF Conversation, AtWork, Quiet
\* Who said the last word of the request sends no more.
<1>8. ASSUME NEW i \in 1..Len(down'[s])
      PROVE  /\ down'[s][i].is # "EndRequest"
             /\ down'[s][i].is = "RequirePostData" => Len(down'[s]) = 1
  <2>1. \/ down[s][1].is = "RequirePostData" /\ Len(down[s]) > 0 /\ Len(down'[s]) = Len(down[s]) - 1
        \/ down'[s] = down[s] /\ ~Has(p, "PostData")
    BY DEF Sending
  <2>2. CASE down[s][1].is = "RequirePostData" /\ Len(down[s]) > 0
             /\ Len(down'[s]) = Len(down[s]) - 1
    <3>1. Len(down[s]) \in Nat
      BY <1>1, Lengths
    <3>2. 1 \in 1..Len(down[s])
      BY <2>2, <3>1
    <3>3. Len(down[s]) = 1
      BY <2>2, <3>2 DEF Conversation, LastWord
    <3>4. Len(down'[s]) = 0
      BY <2>2, <3>3
    <3> QED
      BY <1>8, <3>4
  <2>3. CASE down'[s] = down[s] /\ ~Has(p, "PostData")
    <3>1. i \in 1..Len(down[s]) /\ ac.pc # "headers"
      BY <1>8, <2>3
    <3>2. /\ down[s][i].is = "EndRequest" => LastSent(ac) = "EndRequest"
          /\ down[s][i].is = "RequirePostData" => Len(down[s]) = 1
      BY <3>1 DEF Conversation, LastWord
    <3>3. LastSent(ac) # "EndRequest"
      <4>1. Len(p) \in Nat /\ Len(p) > 0
        BY DEF Sending, IsAppended
      <4>2. 1 \in 1..Len(p)
        BY <4>1
      <4>3. p[1].is # "PostData"
        BY <2>3, <4>2 DEF Has
      <4> QED
        BY <3>1, <4>3 DEF Sending
    <3> QED
      BY <2>3, <3>2, <3>3
  <2> QED
    BY <2>1, <2>2, <2>3
<1>9. LastWord'
  BY <1>8 DEF LastWord
<1> QED
  BY <1>4, <1>5, <1>6, <1>7, <1>9 DEF Conversation

\* A connection whose request did not end, as far as the connector knows, is
\* with its worker.
LEMMA Underway ==
  ASSUME Conversation, Serving, LastSent(ac) # "EndRequest" \/ Asked
  PROVE  place[ac.sock] \notin {"watched", "waiting"}
<1>1. ASSUME place[ac.sock] = "watched" PROVE FALSE
  <2>1. LastSent(ac) = "EndRequest" /\ Delivered(ac, down[ac.sock])
    BY <1>1 DEF Conversation, AtWork
  <2>2. Head(down[ac.sock]).is = "RequirePostData" /\ Asked
    BY <2>1 DEF Asked, Received
  <2> QED
    BY <2>1, <2>2 DEF Delivered
<1> QED
  BY <1>1 DEF Conversation, AtWork

\* The blocks that are sent together are in order.
LEMMA Parcels ==
  ASSUME NEW p, \A i \in 1..Len(p) : p[i].kind = p[1].kind,
         NEW types, Len(p) = Len(types), \A i \in 1..Len(p) : p[i].is = types[i]
  PROVE  /\ types \in {<<"Headers">>, <<"Document">>, <<"EndRequest">>} =>
              /\ Ordered(p) /\ Len(p) = 1 /\ p[1].is = types[1]
              /\ \A type : Has(p, type) => type = types[1]
         /\ types \in {<<"PostData", "Document">>, <<"PostData", "EndRequest">>} =>
              /\ Ordered(p) /\ Len(p) = 2 /\ p[1].is = "PostData" /\ p[2].is = types[2]
              /\ \A type : Has(p, type) => type \in {"PostData", types[2]}
         /\ types = <<"Document", "EndRequest">> =>
              /\ Ordered(p) /\ Len(p) = 2 /\ p[1].is = "Document" /\ p[2].is = "EndRequest"
              /\ \A type : Has(p, type) => type \in {"Document", "EndRequest"}
         /\ types = <<"Headers", "Document", "EndRequest">> =>
              /\ Ordered(p) /\ Len(p) = 3 /\ p[1].is = "Headers" /\ p[3].is = "EndRequest"
              /\ \A type : Has(p, type) => type \in {"Headers", "Document", "EndRequest"}
<1>1. ASSUME types \in {<<"Headers">>, <<"Document">>, <<"EndRequest">>}
      PROVE  /\ Ordered(p) /\ Len(p) = 1 /\ p[1].is = types[1]
             /\ \A type : Has(p, type) => type = types[1]
  <2>1. Len(types) = 1
    BY <1>1
  <2>2. Len(p) = 1 /\ 1 \in 1..Len(p)
    BY <2>1
  <2>3. p[1].is = types[1]
    BY <2>2
  <2> QED
    BY <2>2, <2>3, OrderedOne
<1>2. ASSUME types \in {<<"PostData", "Document">>, <<"PostData", "EndRequest">>,
                        <<"Document", "EndRequest">>}
      PROVE  /\ Ordered(p) /\ Len(p) = 2 /\ p[1].is = types[1] /\ p[2].is = types[2]
             /\ \A type : Has(p, type) => type \in {types[1], types[2]}
  <2>1. Len(types) = 2
    BY <1>2
  <2>2. Len(p) = 2 /\ 1 \in 1..Len(p) /\ 2 \in 1..Len(p)
    BY <2>1
  <2>3. p[1].is = types[1] /\ p[2].is = types[2] /\ p[2].kind = p[1].kind
    BY <2>2
  <2>4. types[2] \in Follow(p[1].kind, types[1]) /\ types[1] # "EndRequest" /\ types[2] # "PostData"
    <3>1. CASE types = <<"PostData", "Document">>
      BY <3>1, Follows
    <3>2. CASE types = <<"PostData", "EndRequest">>
      BY <3>2, Follows
    <3>3. CASE types = <<"Document", "EndRequest">>
      <4>1. "EndRequest" \in Follow(p[1].kind, "Document")
        BY Follows
      <4> QED
        BY <3>3, <4>1
    <3> QED
      BY <1>2, <3>1, <3>2, <3>3
  <2> QED
    BY <2>2, <2>3, <2>4, OrderedTwo
<1>3. ASSUME types = <<"Headers", "Document", "EndRequest">>
      PROVE  /\ Ordered(p) /\ Len(p) = 3 /\ p[1].is = "Headers" /\ p[3].is = "EndRequest"
             /\ \A type : Has(p, type) => type \in {"Headers", "Document", "EndRequest"}
  <2>1. Len(types) = 3
    BY <1>3
  <2>2. Len(p) = 3 /\ 1 \in 1..Len(p) /\ 2 \in 1..Len(p) /\ 3 \in 1..Len(p)
    BY <2>1
  <2>3. /\ p[1].is = "Headers" /\ p[2].is = "Document" /\ p[3].is = "EndRequest"
        /\ p[2].kind = p[1].kind /\ p[3].kind = p[1].kind
    BY <1>3, <2>2
  <2> QED
    BY <2>2, <2>3, OrderedThree
<1> QED
  BY <1>1, <1>2, <1>3

\* What is sent, as blocks of the request.
LEMMA Parcel ==
  ASSUME Base, Talking, NEW types \in Seq(Types), Tells(types)
  PROVE  /\ ac.sock \in Sockets /\ IsAppended(up'[ac.sock], up[ac.sock], Blocks(types))
         /\ \A t \in Sockets : t # ac.sock => up'[t] = up[t]
         /\ Len(Blocks(types)) = Len(types)
         /\ \A i \in 1..Len(Blocks(types)) :
              Blocks(types)[i].is = types[i] /\ Blocks(types)[i].kind = ac.kind
<1>1. ac.sock \in Sockets
  BY Fields DEF Base, Composed, Talking
<1> QED
  BY <1>1, Telling

\* The post data was asked for in the first block.
LEMMA Answering ==
  ASSUME Base, ac.sock \in Sockets, Asked, Hears({"RequirePostData"})
  PROVE  /\ Len(down'[ac.sock]) = Len(down[ac.sock]) - 1 /\ Len(down[ac.sock]) > 0
         /\ down[ac.sock][1].is = "RequirePostData" /\ ~ac.postdata_sent
<1>1. IsTail(down'[ac.sock], down[ac.sock]) /\ down[ac.sock][1].is \in {"RequirePostData"}
  BY Hearing
<1>2. /\ Len(down'[ac.sock]) = Len(down[ac.sock]) - 1
      /\ Len(down[ac.sock]) \in Nat \ {0}
  BY <1>1 DEF IsTail
<1>3. Len(down[ac.sock]) > 0
  BY <1>2
<1>4. ~ac.postdata_sent
  BY DEF Asked
<1> QED
  BY <1>1, <1>2, <1>3, <1>4

LEMMA ConversationLeads ==
  ASSUME Base, Base', Agreement, Conversation, SendHeaders
  PROVE  Conversation'
<1>1. /\ ac.pc = "headers" /\ SameProgress /\ ac'.sock = ac.sock /\ ac'.req = ac.req
      /\ ac'.kind = ac.kind /\ ac.blocks = 0 /\ ~ac.postdata_sent
      /\ IF Handler(ac.kind)
         THEN ac'.pc = "final" /\ Tells(<<"Headers", "Document", "EndRequest">>)
         ELSE ac'.pc = "document" /\ Tells(<<"Headers">>)
      /\ UNCHANGED <<down, place, wk, spoilt, crashes>>
  BY SendHeadersEffect DEF Base, GoesOn, Composed
<1>2. Serving /\ Talking /\ Serving' /\ ac'.blocks = 0
  BY <1>1 DEF Serving, Talking, Doubled, SameProgress
<1>3. Ready /\ down[ac.sock] = <<>>
  BY <1>1 DEF Agreement, ReplyLast
<1>4. Len(down[ac.sock]) = 0 /\ place[ac.sock] \notin {"watched", "waiting"}
  BY <1>3 DEF Ready
<1>5. ac'.postdata_sent = ac.postdata_sent
  BY <1>1 DEF SameProgress
<1>6. CASE Handler(ac.kind)
  <2> DEFINE types == <<"Headers", "Document", "EndRequest">>
             p == Blocks(types)
  <2>1. /\ IsAppended(up'[ac.sock], up[ac.sock], p)
        /\ \A t \in Sockets : t # ac.sock => up'[t] = up[t]
        /\ Len(p) = Len(types)
        /\ \A i \in 1..Len(p) : p[i].is = types[i] /\ p[i].kind = ac.kind
    BY <1>1, <1>2, <1>6, Parcel, TypesSeq
  <2>0. types = <<"Headers", "Document", "EndRequest">>
    OBVIOUS
  <2> HIDE DEF types, p
  <2>20. Len(types) = 3
    BY <2>0
  <2>21. \A i \in 1..Len(p) : p[i].is = types[i] /\ p[i].kind = p[1].kind
    BY <2>0, <2>1, <2>20
  <2>2. /\ Ordered(p) /\ Len(p) = 3 /\ p[1].is = "Headers" /\ p[3].is = "EndRequest"
        /\ \A type : Has(p, type) => type \in {"Headers", "Document", "EndRequest"}
    BY <2>0, <2>1, <2>20, <2>21, Parcels
  <2>3. LastSent(ac') = "EndRequest"
    BY <1>1, <1>6 DEF LastSent
  <2>4. Sending(ac, ac', p, down[ac.sock], down'[ac.sock])
    BY <1>1, <1>5, <1>6, <2>1, <2>2, <2>3 DEF Sending
  <2> QED
    BY <1>1, <1>2, <1>4, <1>6, <2>1, <2>4, ConversationSends
<1>7. CASE ~Handler(ac.kind)
  <2> DEFINE types == <<"Headers">>
             p == Blocks(types)
  <2>1. /\ IsAppended(up'[ac.sock], up[ac.sock], p)
        /\ \A t \in Sockets : t # ac.sock => up'[t] = up[t]
        /\ Len(p) = Len(types)
        /\ \A i \in 1..Len(p) : p[i].is = types[i] /\ p[i].kind = ac.kind
    BY <1>1, <1>2, <1>7, Parcel, TypesSeq
  <2>0. types \in {<<"Headers">>, <<"Document">>, <<"EndRequest">>} /\ types[1] = "Headers"
    OBVIOUS
  <2> HIDE DEF types, p
  <2>20. Len(types) = 1
    BY <2>0
  <2>21. \A i \in 1..Len(p) : p[i].is = types[i] /\ p[i].kind = p[1].kind
    BY <2>0, <2>1, <2>20
  <2>2. /\ Ordered(p) /\ Len(p) = 1 /\ p[1].is = "Headers"
        /\ \A type : Has(p, type) => type = "Headers"
    BY <2>0, <2>1, <2>20, <2>21, Parcels, SMTT(30)
  <2>3. LastSent(ac') = "Headers"
    BY <1>1, <1>2, <1>7 DEF LastSent
  <2>4. Sending(ac, ac', p, down[ac.sock], down'[ac.sock])
    BY <1>1, <1>5, <1>7, <2>1, <2>2, <2>3 DEF Sending
  <2> QED
    BY <1>1, <1>2, <1>4, <1>7, <2>1, <2>4, ConversationSends
<1> QED
  BY <1>6, <1>7

\* A block of the document or its end, with the post data when it was asked for.
LEMMA ConversationAttends ==
  ASSUME Base, Conversation, NEW block \in {"Document", "EndRequest"}, Attends(block),
         ac.pc = "document", ac.kind # "options", ac'.pc \in {"document", "final"},
         ac'.sock = ac.sock, ac'.req = ac.req, ac'.kind = ac.kind, LastSent(ac') = block,
         block = "EndRequest" => LastSent(ac) = "Document",
         UNCHANGED <<place, wk, spoilt, crashes>>
  PROVE  Conversation'
<1>1. Serving /\ Talking /\ Serving' /\ LastSent(ac) \in {"Headers", "Document"}
  BY DEF Serving, Talking, Doubled, LastSent
<1>2. place[ac.sock] \notin {"watched", "waiting"}
  BY <1>1, Underway
<1>3. ac.sock \in Sockets
  BY <1>1, Fields DEF Base, Composed, Talking
<1>4. CASE Asked /\ Hears({"RequirePostData"}) /\ Tells(<<"PostData", block>>) /\ ac'.postdata_sent
  <2> DEFINE types == <<"PostData", block>>
             p == Blocks(types)
  <2>1. types \in {<<"PostData", "Document">>, <<"PostData", "EndRequest">>} /\ types[2] = block
    OBVIOUS
  <2>2. types \in Seq(Types)
    BY <2>1, TypesSeq
  <2>3. /\ IsAppended(up'[ac.sock], up[ac.sock], p)
        /\ \A t \in Sockets : t # ac.sock => up'[t] = up[t]
        /\ Len(p) = Len(types)
        /\ \A i \in 1..Len(p) : p[i].is = types[i] /\ p[i].kind = ac.kind
    BY <1>1, <1>4, <2>2, Parcel
  <2> HIDE DEF types, p
  <2>20. Len(types) = 2
    BY <2>1
  <2>21. \A i \in 1..Len(p) : p[i].is = types[i] /\ p[i].kind = p[1].kind
    BY <2>1, <2>3, <2>20
  <2>22. types \in {<<"PostData", "Document">>, <<"PostData", "EndRequest">>} /\ types[2] = block
    BY <2>1
  <2>23. Len(p) = Len(types)
    BY <2>3
  <2>24. /\ Ordered(p) /\ Len(p) = 2 /\ p[1].is = "PostData" /\ p[2].is = types[2]
         /\ \A type : Has(p, type) => type \in {"PostData", types[2]}
    BY <2>21, <2>22, <2>23, Parcels
  <2>4. /\ Ordered(p) /\ Len(p) = 2 /\ p[1].is = "PostData" /\ p[2].is = block
        /\ \A type : Has(p, type) => type \in {"PostData", block}
    BY <2>22, <2>24
  <2>6. /\ Len(down'[ac.sock]) = Len(down[ac.sock]) - 1 /\ Len(down[ac.sock]) > 0
        /\ down[ac.sock][1].is = "RequirePostData" /\ ~ac.postdata_sent
    BY <1>3, <1>4, Answering
  <2>7. /\ Len(p) > 0 /\ p[Len(p)].is = block /\ LastSent(ac') = block
        /\ block = "Document" => ~Has(p, "EndRequest")
        /\ block = "EndRequest" => ~Has(p, "Document")
    BY <2>4
  <2>8. Sending(ac, ac', p, down[ac.sock], down'[ac.sock])
    BY <1>1, <1>4, <2>3, <2>4, <2>6, <2>7 DEF Sending
  <2> QED
    BY <1>1, <1>2, <2>3, <2>8, ConversationSends
<1>5. CASE Tells(<<block>>) /\ UNCHANGED down /\ ac'.postdata_sent = ac.postdata_sent
  <2> DEFINE types == <<block>>
             p == Blocks(types)
  <2>1. types \in {<<"Headers">>, <<"Document">>, <<"EndRequest">>} /\ types[1] = block
    OBVIOUS
  <2>2. types \in Seq(Types)
    BY <2>1, TypesSeq
  <2>3. /\ IsAppended(up'[ac.sock], up[ac.sock], p)
        /\ \A t \in Sockets : t # ac.sock => up'[t] = up[t]
        /\ Len(p) = Len(types)
        /\ \A i \in 1..Len(p) : p[i].is = types[i] /\ p[i].kind = ac.kind
    BY <1>1, <1>5, <2>2, Parcel
  <2> HIDE DEF types, p
  <2>20. Len(types) = 1
    BY <2>1
  <2>21. \A i \in 1..Len(p) : p[i].is = types[i] /\ p[i].kind = p[1].kind
    BY <2>1, <2>3, <2>20
  <2>4. /\ Ordered(p) /\ Len(p) = 1 /\ p[1].is = block
        /\ \A type : Has(p, type) => type = block
    BY <2>1, <2>3, <2>20, <2>21, Parcels
  <2>6. Sending(ac, ac', p, down[ac.sock], down'[ac.sock])
    BY <1>1, <1>5, <2>3, <2>4 DEF Sending
  <2> QED
    BY <1>1, <1>2, <2>3, <2>6, ConversationSends
<1> QED
  BY <1>4, <1>5 DEF Attends

LEMMA ConversationDocument ==
  ASSUME Base, Conversation, SendDocument \/ SendEndRequest
  PROVE  Conversation'
<1>1. CASE SendDocument
  <2>1. /\ ac.pc = "document" /\ ac.kind # "options" /\ ac'.pc = "document"
        /\ ac'.sock = ac.sock /\ ac'.req = ac.req /\ ac'.kind = ac.kind
        /\ ac'.blocks = ac.blocks + 1 /\ Attends("Document") /\ ac.blocks \in Nat
        /\ UNCHANGED <<place, wk, spoilt, crashes>>
    BY <1>1, SendDocumentEffect, Fields, Bounds DEF Base, GoesOn
  <2>2. LastSent(ac') = "Document"
    BY <2>1 DEF LastSent
  <2> QED
    BY <2>1, <2>2, ConversationAttends
<1>2. CASE SendEndRequest
  <2>1. /\ ac.pc = "document" /\ ac.kind # "options" /\ ac'.pc = "final" /\ ac.blocks > 0
        /\ ac'.sock = ac.sock /\ ac'.req = ac.req /\ ac'.kind = ac.kind
        /\ Attends("EndRequest") /\ ac.blocks \in Nat
        /\ UNCHANGED <<place, wk, spoilt, crashes>>
    BY <1>2, SendEndRequestEffect, Fields, Bounds DEF Base, GoesOn
  <2>2. LastSent(ac') = "EndRequest" /\ LastSent(ac) = "Document"
    BY <2>1 DEF LastSent
  <2> QED
    BY <2>1, <2>2, ConversationAttends
<1> QED
  BY <1>1, <1>2

LEMMA ConversationOptions ==
  ASSUME Base, Conversation, NEW eos_seen \in BOOLEAN, SendOptions(eos_seen)
  PROVE  Conversation'
<1>1. /\ ac.pc = "document" /\ ac.kind = "options" /\ ac'.pc \in {"document", "final"}
      /\ ac'.sock = ac.sock /\ ac'.req = ac.req /\ ac'.kind = ac.kind
      /\ ac'.blocks = ac.blocks + 1 /\ ac'.postdata_sent = ac.postdata_sent
      /\ Tells(<<"Document", "EndRequest">>) /\ ac.blocks \in Nat
      /\ spoilt' = IF ac.blocks > 0 THEN spoilt \cup {ac.sock} ELSE spoilt
      /\ UNCHANGED <<down, place, wk, crashes>>
  BY SendOptionsEffect, Fields, Bounds DEF Base, GoesOn
<1>2. Talking /\ Talking'
  BY <1>1 DEF Talking
<1> DEFINE types == <<"Document", "EndRequest">>
           p == Blocks(types)
<1>3. /\ ac.sock \in Sockets /\ IsAppended(up'[ac.sock], up[ac.sock], p)
      /\ \A t \in Sockets : t # ac.sock => up'[t] = up[t]
      /\ Len(p) = Len(types)
      /\ \A i \in 1..Len(p) : p[i].is = types[i] /\ p[i].kind = ac.kind
  BY <1>1, <1>2, Parcel, TypesSeq
<1>0. types = <<"Document", "EndRequest">>
  OBVIOUS
<1> HIDE DEF types, p
<1>4. CASE ac.blocks > 0
  <2>1. Doubled' /\ ~Serving'
    BY <1>1, <1>4 DEF Doubled, Serving
  <2> QED
    BY <1>1, <1>2, <1>3, <1>4, <2>1, ConversationDoubled
<1>5. CASE ac.blocks = 0
  <2>1. Serving /\ Serving' /\ LastSent(ac) = "Headers" /\ LastSent(ac') = "EndRequest"
    BY <1>1, <1>2, <1>5 DEF Serving, Doubled, LastSent
  <2>2. place[ac.sock] \notin {"watched", "waiting"}
    BY <2>1, Underway
  <2>20. Len(types) = 2
    BY <1>0
  <2>21. \A i \in 1..Len(p) : p[i].is = types[i] /\ p[i].kind = p[1].kind
    BY <1>0, <1>3, <2>20
  <2>3. /\ Ordered(p) /\ Len(p) = 2 /\ p[1].is = "Document" /\ p[2].is = "EndRequest"
        /\ \A type : Has(p, type) => type \in {"Document", "EndRequest"}
    BY <1>0, <1>3, <2>20, <2>21, Parcels
  <2>4. Sending(ac, ac', p, down[ac.sock], down'[ac.sock])
    BY <1>1, <1>3, <2>1, <2>3 DEF Sending
  <2> QED
    BY <1>1, <1>3, <1>5, <2>1, <2>2, <2>4, ConversationSends
<1> QED
  BY <1>1, <1>4, <1>5

LEMMA ConversationLatePostData ==
  ASSUME Base, Base', Conversation, SendLatePostData
  PROVE  Conversation'
<1>1. /\ ac.pc = "final" /\ ac'.pc = "final" /\ Asked /\ ac'.blocks = ac.blocks
      /\ ac'.sock = ac.sock /\ ac'.req = ac.req /\ ac'.kind = ac.kind /\ ac'.postdata_sent
      /\ Hears({"RequirePostData"}) /\ Tells(<<"PostData", "EndRequest">>)
      /\ UNCHANGED <<place, wk, spoilt, crashes>>
  BY SendLatePostDataEffect DEF Base, GoesOn
<1>2. Talking /\ (Doubled' <=> Doubled)
  BY <1>1 DEF Talking, Doubled
<1> DEFINE types == <<"PostData", "EndRequest">>
           p == Blocks(types)
<1>3. /\ ac.sock \in Sockets /\ IsAppended(up'[ac.sock], up[ac.sock], p)
      /\ \A t \in Sockets : t # ac.sock => up'[t] = up[t]
      /\ Len(p) = Len(types)
      /\ \A i \in 1..Len(p) : p[i].is = types[i] /\ p[i].kind = ac.kind
  BY <1>1, <1>2, Parcel, TypesSeq
<1>0. types \in {<<"PostData", "Document">>, <<"PostData", "EndRequest">>} /\ types[2] = "EndRequest"
  OBVIOUS
<1> HIDE DEF types, p
<1>4. CASE Doubled
  <2>1. ~Serving' /\ ac.sock \in spoilt
    BY <1>2, <1>4 DEF Serving, Base, Composed
  <2> QED
    BY <1>1, <1>2, <1>3, <2>1, ConversationDoubled
<1>5. CASE ~Doubled
  <2>1. Serving /\ Serving' /\ LastSent(ac) = "EndRequest" /\ LastSent(ac') = "EndRequest"
    BY <1>1, <1>2, <1>5 DEF Serving, Talking, LastSent
  <2>2. place[ac.sock] \notin {"watched", "waiting"}
    BY <1>1, <2>1, Underway
  <2>20. Len(types) = 2
    BY <1>0
  <2>21. \A i \in 1..Len(p) : p[i].is = types[i] /\ p[i].kind = p[1].kind
    BY <1>0, <1>3, <2>20
  <2>22. types \in {<<"PostData", "Document">>, <<"PostData", "EndRequest">>} /\ types[2] = "EndRequest"
    BY <1>0
  <2>23. Len(p) = Len(types)
    BY <1>3
  <2>24. /\ Ordered(p) /\ Len(p) = 2 /\ p[1].is = "PostData" /\ p[2].is = types[2]
         /\ \A type : Has(p, type) => type \in {"PostData", types[2]}
    BY <2>21, <2>22, <2>23, Parcels
  <2>3. /\ Ordered(p) /\ Len(p) = 2 /\ p[1].is = "PostData" /\ p[2].is = "EndRequest"
        /\ \A type : Has(p, type) => type \in {"PostData", "EndRequest"}
    BY <2>22, <2>24
  <2>4. /\ Len(down'[ac.sock]) = Len(down[ac.sock]) - 1 /\ Len(down[ac.sock]) > 0
        /\ down[ac.sock][1].is = "RequirePostData" /\ ~ac.postdata_sent
    BY <1>1, <1>3, Answering
  <2>5. Len(p) > 0 /\ p[Len(p)].is = "EndRequest" /\ ~Has(p, "Document")
    BY <2>3
  <2>6. Sending(ac, ac', p, down[ac.sock], down'[ac.sock])
    BY <1>1, <1>3, <2>1, <2>3, <2>4, <2>5 DEF Sending
  <2> QED
    BY <1>1, <1>3, <2>1, <2>2, <2>6, ConversationSends
<1> QED
  BY <1>4, <1>5

\* A block of the answer is received: what is left is an answer still.
LEMMA DeliveredRest ==
  ASSUME NEW c, NEW n, NEW d, NEW e, IsTail(e, d), Delivered(c, d), n.pc = "body",
         d[1].is # "EndRequest"
  PROVE  Delivered(n, e)
<1>1. Len(e) = Len(d) - 1 /\ \A i \in 1..Len(e) : e[i] = d[i + 1]
  BY DEF IsTail
<1>2. CASE c.pc = "body"
  <2>1. Len(d) = 2 /\ d[2].is = "EndRequest"
    BY <1>2 DEF Delivered
  <2>2. Len(e) = 1 /\ e[1] = d[2]
    BY <1>1, <2>1
  <2> QED
    BY <2>1, <2>2 DEF Delivered
<1>3. CASE c.pc # "body"
  <2>1. Len(d) = 3 /\ d[2].is = "Document" /\ d[3].is = "EndRequest"
    BY <1>3 DEF Delivered
  <2>2. Len(e) = 2 /\ e[1] = d[2] /\ e[2] = d[3]
    BY <1>1, <2>1
  <2> QED
    BY <2>1, <2>2 DEF Delivered
<1> QED
  BY <1>2, <1>3

LEMMA StepHearing ==
  ASSUME NEW c, NEW n, NEW m, NEW u, NEW d, NEW e, IsTail(e, d), InStep(c, m, u, d),
         c.pc \in {"final", "body"}, n.pc = "body", n.req = c.req, n.kind = c.kind,
         n.postdata_sent = c.postdata_sent,
         d[1].is = IF c.pc = "final" THEN "ResponseHeader" ELSE "Document"
  PROVE  InStep(n, m, u, e)
<1>1. Said(c, m, d) /\ (c.pc = "body" => m.pc \in {"finish", "ended"})
  BY DEF InStep
<1>2. Len(d) \in Nat \ {0} /\ Len(e) = Len(d) - 1 /\ \A i \in 1..Len(e) : e[i] = d[i + 1]
  BY DEF IsTail
<1>3. m.pc \in {"finish", "ended"}
  <2>1. ~(Len(d) = 0)
    BY <1>2
  <2> QED
    BY <1>1, <2>1 DEF Said
<1>4. Said(n, m, e)
  <2>1. CASE m.pc = "ended"
    <3>1. Delivered(c, d)
      BY <1>1, <2>1 DEF Said
    <3>2. Delivered(n, e)
      BY <3>1, DeliveredRest
    <3> QED
      BY <2>1, <3>2 DEF Said
  <2>2. CASE m.pc = "finish" /\ c.pc = "body"
    <3>1. Len(d) = 1
      BY <1>1, <1>2, <2>2 DEF Said
    <3>2. Len(e) = 0
      BY <1>2, <3>1
    <3> QED
      BY <2>2, <3>2 DEF Said
  <2>3. CASE m.pc = "finish" /\ c.pc # "body"
    <3>1. Len(d) = 2 /\ d[2].is = "Document"
      BY <1>1, <2>3 DEF Said
    <3>2. Len(e) = 1 /\ e[1] = d[2]
      BY <1>2, <3>1
    <3> QED
      BY <2>3, <3>1, <3>2 DEF Said
  <2> QED
    BY <1>3, <2>1, <2>2, <2>3
<1>5. LastSent(n) = "EndRequest" /\ LastSent(c) = "EndRequest"
  BY DEF LastSent
<1>6. Awaiting(n, m) <=> Awaiting(c, m)
  BY <1>5 DEF Awaiting
<1> QED
  BY <1>3, <1>4, <1>5, <1>6 DEF InStep

LEMMA ConversationHears ==
  ASSUME Base, Base', Conversation, ReceiveHeaders \/ ReceiveBody
  PROVE  Conversation'
<1> DEFINE s == ac.sock
           first == IF ac.pc = "final" THEN "ResponseHeader" ELSE "Document"
<1>1. /\ ac.pc \in {"final", "body"} /\ ac'.pc = "body" /\ ac'.sock = ac.sock
      /\ ac'.req = ac.req /\ ac'.kind = ac.kind /\ ac'.blocks = ac.blocks
      /\ ac'.postdata_sent = ac.postdata_sent /\ Hears({first})
      /\ UNCHANGED <<up, place, wk, spoilt, crashes>>
  <2>1. CASE ReceiveHeaders
    BY <2>1, ReceiveHeadersEffect DEF Base, GoesOn, SameProgress
  <2>2. CASE ReceiveBody
    BY <2>2, ReceiveBodyEffect DEF Base
  <2> QED
    BY <2>1, <2>2
<1>2. Talking /\ (Doubled' <=> Doubled) /\ s \in Sockets /\ s # NoSocket
  BY <1>1, Fields, Bounds DEF Talking, Doubled, Base, Composed
<1>3. IsTail(down'[s], down[s]) /\ down[s][1].is = first
  BY <1>1, <1>2, Hearing
<1>4. CASE Doubled
  <2>1. ~Serving' /\ s \in spoilt
    BY <1>2, <1>4 DEF Serving, Base, Composed
  <2> QED
    BY <1>1, <1>2, <2>1, ConversationDoubled
<1>5. CASE ~Doubled
  <2>1. Serving /\ Serving'
    BY <1>1, <1>2, <1>5 DEF Serving, Talking
  <2>2. \A v \in Workers : Clean(wk[v].sock)' => Clean(wk[v].sock)
    BY <1>1, <2>1 DEF Clean, Serving
  <2>3. Told' /\ Unread' /\ Fetched' /\ Quiet'
    BY <1>1, <2>2 DEF Conversation, Told, Unread, Fetched, Quiet
  <2>4. Coupled'
    <3>1. ASSUME NEW w \in Workers, wk[w].sock = s
          PROVE  IF Dead(w) THEN crashes > 0 ELSE InStep(ac', wk[w], up[s], down'[s])
      <4>1. CASE Dead(w)
        BY <2>1, <3>1, <4>1 DEF Conversation, Coupled
      <4>2. CASE ~Dead(w)
        <5>1. InStep(ac, wk[w], up[s], down[s])
          BY <2>1, <3>1, <4>2 DEF Conversation, Coupled
        <5>2. InStep(ac', wk[w], up[s], down'[s])
          BY <1>1, <1>3, <5>1, StepHearing
        <5> QED
          BY <4>2, <5>2
      <4> QED
        BY <4>1, <4>2
    <3>2. \A w \in Workers : Dead(w)' <=> Dead(w)
      BY <1>1 DEF Dead
    <3> QED
      BY <1>1, <3>1, <3>2 DEF Coupled
  <2>5. LastSent(ac') = "EndRequest"
    BY <1>1 DEF LastSent
  <2>6. AtWork'
    <3>1. ASSUME place[s] = "watched" PROVE Delivered(ac', down'[s])
      <4>1. Delivered(ac, down[s])
        BY <2>1, <3>1 DEF Conversation, AtWork
      <4> QED
        BY <1>1, <1>3, <4>1, DeliveredRest
    <3> QED
      BY <1>1, <2>1, <2>5, <3>1 DEF Conversation, AtWork
  <2>7. LastWord'
    <3>1. /\ Len(down[s]) \in Nat \ {0} /\ Len(down'[s]) = Len(down[s]) - 1
          /\ \A i \in 1..Len(down'[s]) : i + 1 \in 1..Len(down[s]) /\ down'[s][i] = down[s][i + 1]
      BY <1>3 DEF IsTail
    <3>2. ASSUME NEW i \in 1..Len(down'[s])
          PROVE  /\ down'[s][i].is = "EndRequest" =>
                      /\ i = Len(down'[s]) /\ Len(up[s]) = 0
                      /\ \A w \in Workers : wk[w].sock = s => wk[w].pc \in {"ended", "exited"}
                 /\ down'[s][i].is # "RequirePostData"
      <4>1. i + 1 \in 1..Len(down[s]) /\ down'[s][i] = down[s][i + 1] /\ Len(down[s]) # 1
        BY <3>1, <3>2
      <4>2. /\ down[s][i + 1].is = "EndRequest" =>
                 /\ i + 1 = Len(down[s]) /\ Len(up[s]) = 0
                 /\ \A w \in Workers : wk[w].sock = s => wk[w].pc \in {"ended", "exited"}
            /\ down[s][i + 1].is # "RequirePostData"
        BY <2>1, <4>1 DEF Conversation, LastWord
      <4>3. i + 1 = Len(down[s]) => i = Len(down'[s])
        BY <3>1, <3>2
      <4> QED
        BY <4>1, <4>2, <4>3
    <3> QED
      BY <1>1, <2>5, <3>2 DEF LastWord
  <2> QED
    BY <2>3, <2>4, <2>6, <2>7 DEF Conversation
<1> QED
  BY <1>4, <1>5

\* The answer is complete: the connection is empty, and its worker has ended.
LEMMA ConversationEnds ==
  ASSUME Base, Conversation, ReceiveEnd
  PROVE  Conversation'
<1> DEFINE s == ac.sock
<1>1. /\ ac.pc = "body" /\ ac'.pc = "free" /\ ac'.sock = ac.sock /\ Hears({"EndRequest"})
      /\ UNCHANGED <<up, place, wk, spoilt, crashes>>
  BY ReceiveEndEffect DEF Base, IsFree
<1>2. Talking /\ ~Talking' /\ ~Serving' /\ s \in Sockets /\ s # NoSocket
  BY <1>1, Fields, Bounds DEF Talking, Serving, Base, Composed
<1>3. IsTail(down'[s], down[s]) /\ down[s][1].is = "EndRequest"
  BY <1>1, <1>2, Hearing
<1>4. \A v \in Workers : Clean(wk[v].sock)' => Clean(wk[v].sock)
  BY <1>1, <1>2 DEF Clean
<1>5. Told' /\ Unread' /\ Fetched'
  BY <1>1, <1>4 DEF Conversation, Told, Unread, Fetched
<1>6. Coupled' /\ AtWork' /\ LastWord'
  BY <1>2 DEF Coupled, AtWork, LastWord
<1>7. ASSUME s \notin spoilt
      PROVE  /\ Len(up[s]) = 0 /\ Len(down'[s]) = 0 /\ place[s] # "waiting"
             /\ \A w \in Workers : wk[w].sock = s => wk[w].pc \in {"ended", "exited"}
  <2>1. Serving
    BY <1>2, <1>7 DEF Serving, Base, Composed
  <2>2. Len(down[s]) \in Nat \ {0} /\ Len(down'[s]) = Len(down[s]) - 1
    BY <1>3 DEF IsTail
  <2>3. 1 \in 1..Len(down[s])
    BY <2>2
  <2>4. /\ 1 = Len(down[s]) /\ Len(up[s]) = 0
        /\ \A w \in Workers : wk[w].sock = s => wk[w].pc \in {"ended", "exited"}
    BY <1>3, <2>1, <2>3 DEF Conversation, LastWord
  <2>5. Len(down'[s]) = 0
    BY <2>2, <2>4
  <2> QED
    BY <2>1, <2>4, <2>5 DEF Conversation, AtWork
<1>8. Quiet'
  BY <1>1, <1>7 DEF Quiet
<1> QED
  BY <1>5, <1>6, <1>8 DEF Conversation

-----------------------------------------------------------------------------
(* The invariant.                                                          *)

LEMMA ConversationInit == Init => Conversation
<1> SUFFICES ASSUME Init PROVE Conversation
  OBVIOUS
<1>1. /\ ac.pc = "free" /\ ac.sock = NoSocket
      /\ \A w \in Workers : wk[w].sock = NoSocket /\ wk[w].pc = "free"
      /\ \A s \in Sockets : place[s] = "closed"
  BY DEF Init, Pooled, Waiting
<1> QED
  BY <1>1 DEF Conversation, Told, Unread, Fetched, Coupled, AtWork, LastWord, Quiet, Serving, Talking

LEMMA ConversationConnector ==
  ASSUME Base, Base', Agreement, Conversation,
         \/ \E kind \in Kinds : NewRequest(kind)
         \/ Connector \/ Abandon
  PROVE  Conversation'
<1>1. CASE \E kind \in Kinds : NewRequest(kind)
  <2>1. PICK kind \in Kinds : NewRequest(kind)
    BY <1>1
  <2>2. /\ ac.pc = "free" /\ ac'.pc = "acquire" /\ ac'.sock = ac.sock
        /\ UNCHANGED <<up, down, place, wk, spoilt>>
    BY <2>1, NewRequestEffect DEF Base
  <2> QED
    BY <2>2, ConversationIdle
<1>2. CASE Abandon
  <2>1. /\ ac'.pc = "free" /\ ac'.sock = ac.sock /\ spoilt' = spoilt \cup {ac.sock}
        /\ UNCHANGED <<up, down, place, wk>>
    BY <1>2, AbandonEffect DEF Base, IsFree
  <2> QED
    BY <2>1, ConversationIdle
<1>3. ASSUME ClosesSocket, UNCHANGED <<up, down, place, wk, spoilt>>
      PROVE  Conversation'
  BY <1>3, ConversationIdle DEF ClosesSocket
<1>4. CASE Acquire
  <2>1. CASE Reuses
    BY <2>1, ConversationIdle DEF Reuses, GoesOn
  <2>2. CASE Opens
    BY <2>2, ConversationOpens
  <2>3. CASE ClosesSocket /\ UNCHANGED <<up, down, place, wk, spoilt>>
    BY <1>3, <2>3
  <2> QED
    BY <1>4, <2>1, <2>2, <2>3, AcquireEffect DEF Base, Reuses, Opens
<1>5. CASE SendBegin
  BY <1>5, SendBeginEffect, ConversationBegins DEF Base, Begins
<1>6. CASE Begun
  BY <1>6, BegunEffect, ConversationAgrees DEF Base, Agrees
<1>7. CASE BeginAgain
  BY <1>7, BeginAgainEffect, ConversationOpens DEF Base, Opens
<1>8. CASE BeginFails
  BY <1>3, <1>8, BeginFailsEffect DEF Base
<1>9. CASE Fail
  BY <1>3, <1>9, FailEffect DEF Base
<1>10. CASE SendHeaders
  BY <1>10, ConversationLeads
<1>11. CASE SendDocument \/ SendEndRequest
  BY <1>11, ConversationDocument
<1>12. CASE \E eos_seen \in BOOLEAN : SendOptions(eos_seen)
  BY <1>12, ConversationOptions
<1>13. CASE SendLatePostData
  BY <1>13, ConversationLatePostData
<1>14. CASE ReceiveHeaders \/ ReceiveBody
  BY <1>14, ConversationHears
<1>15. CASE ReceiveEnd
  BY <1>15, ConversationEnds
<1> QED
  BY <1>1, <1>2, <1>4, <1>5, <1>6, <1>7, <1>8, <1>9, <1>10, <1>11, <1>12, <1>13, <1>14, <1>15
     DEF Connector

LEMMA ConversationStep ==
  ASSUME Base, Base', Agreement, Agreement', Conversation, [Next]_vars
  PROVE  Conversation'
<1>1. CASE Next
  <2>1. CASE \/ \E kind \in Kinds : NewRequest(kind)
             \/ Connector \/ Abandon
    BY <2>1, ConversationConnector
  <2>2. CASE \E s \in Sockets : SetsPlace(s)
    BY <2>2, ConversationSetsPlace
  <2>3. CASE \E s \in Sockets, w \in Workers : Hands(s, w)
    BY <2>3, ConversationHands
  <2>4. CASE \E w \in Workers : WorkerActs(w)
    BY <2>4, ConversationWorker
  <2> QED
    BY <1>1, <2>1, <2>2, <2>3, <2>4, Cases
<1>2. CASE UNCHANGED vars
  BY <1>2 DEF vars, streams, history, Conversation, Told, Unread, Fetched, Coupled, AtWork,
              LastWord, Quiet, Serving, Talking, Doubled, Clean, Dead
<1> QED
  BY <1>1, <1>2

LEMMA Conversing == Spec => [](Base /\ Agreement /\ Conversation)
<1>1. Init => Base /\ Agreement /\ Conversation
  BY BaseInit, AgreementInit, ConversationInit
<1>2. Base /\ Agreement /\ Conversation /\ [Next]_vars => (Base /\ Agreement /\ Conversation)'
  BY BaseStep, AgreementStep, ConversationStep
<1> QED
  BY <1>1, <1>2, PTL DEF Spec

\* No worker meets a block it does not expect on a connection on which no
\* request was given up or sent twice, whichever of the end of the document and
\* the post data comes first (the document FCGXStream sets aside in
\* RequestPostData, and the second EndRequest of mod_jaxer).
THEOREM WorkersUnderstand == Spec => []NeverConfused
<1>1. Base /\ Conversation => NeverConfused
  <2> SUFFICES ASSUME Base, Conversation, NEW w \in Workers, At(w, "confused")
               PROVE  wk[w].sock \in spoilt
    BY DEF NeverConfused
  <2>1. wk[w].pc = "confused"
    BY DEF At
  <2>2. wk[w].sock # NoSocket
    BY <2>1 DEF Base, Held
  <2>3. ~WellTold(wk[w], up[wk[w].sock])
    BY <2>1 DEF WellTold
  <2> QED
    BY <2>2, <2>3 DEF Conversation, Told, Clean
<1> QED
  BY <1>1, Conversing, PTL

\* A connection that goes back to the pool after its request is empty in both
\* directions, and its worker is done with it (proc_close_socket releases it
\* without looking).
THEOREM PoolIsClean == Spec => []PooledClean
<1>1. Base /\ Conversation => PooledClean
  <2> SUFFICES ASSUME Base, Conversation, ac.pc = "free", ac.sock # NoSocket, ac.sock \notin spoilt
               PROVE  /\ down[ac.sock] = <<>> /\ up[ac.sock] = <<>>
                      /\ \A w \in Workers : wk[w].sock = ac.sock => wk[w].pc \in {"ended", "exited"}
    BY DEF PooledClean
  <2>1. ac.sock \in Sockets
    BY Fields DEF Base
  <2>2. /\ Len(up[ac.sock]) = 0 /\ Len(down[ac.sock]) = 0
        /\ \A w \in Workers : wk[w].sock = ac.sock => wk[w].pc \in {"ended", "exited"}
    BY DEF Conversation, Quiet
  <2> QED
    BY <2>1, <2>2, Lengths
<1> QED
  BY <1>1, Conversing, PTL

-----------------------------------------------------------------------------
(* No request fails without a cause.                                       *)

\* A worker that answers has read the request to its end.
LEMMA AnsweringLast ==
  ASSUME NEW c, NEW m, NEW u, WellTold(m, u), NEW d, InStep(c, m, u, d),
         m.pc \in {"finish", "ended"}, ~Has(u, "BeginRequest")
  PROVE  LastSent(c) = "EndRequest"
<1>1. Len(u) \in Nat /\ c.pc # "headers"
  BY DEF InStep, WellTold, Ordered
<1>2. Len(u) = 0
  BY <1>1, Firsts DEF WellTold, Has
<1>3. Awaiting(c, m)
  BY <1>1, <1>2 DEF InStep
<1> QED
  BY <1>3, Last DEF Awaiting

\* The first block of the answer is one that the connector expects.
LEMMA ExpectedComes ==
  ASSUME Base, Agreement, Conversation, Serving, ~(crashes > 0), Readable,
         ac.pc \in {"document", "final", "body"}
  PROVE  Expected
<1> DEFINE s == ac.sock
           d == down[s]
<1>1. s \in Sockets /\ s # NoSocket
  BY Fields, Bounds DEF Base, Composed
<1>2. Received = d[1] /\ Len(d) \in Nat \ {0}
  <2>1. d \in Seq(AnyBlock) /\ d # <<>>
    BY <1>1, Lengths DEF Readable
  <2> QED
    BY <2>1, Tails DEF Received
<1>3. place[s] = "watched" \/ place[s] = "handed"
  BY <1>1 DEF Base, TypeOK, Conversation, AtWork
<1>4. CASE place[s] = "watched"
  <2>1. LastSent(ac) = "EndRequest" /\ Delivered(ac, d)
    BY <1>4 DEF Conversation, AtWork
  <2>2. CASE ac.pc = "document"
    <3>1. ac.kind = "options"
      BY <2>1, <2>2 DEF LastSent
    <3> QED
      BY <2>2, <3>1 DEF Expected
  <2>3. CASE ac.pc = "final"
    <3>1. d[1].is = "ResponseHeader"
      BY <2>1, <2>3 DEF Delivered
    <3> QED
      BY <1>2, <2>3, <3>1 DEF Expected
  <2>4. CASE ac.pc = "body"
    <3>1. d[1].is \in {"Document", "EndRequest"}
      BY <2>1, <2>4 DEF Delivered
    <3> QED
      BY <1>2, <2>4, <3>1 DEF Expected
  <2> QED
    BY <2>2, <2>3, <2>4
<1>5. CASE place[s] = "handed"
  <2>1. PICK w \in Workers : wk[w].sock = s
    BY <1>1, <1>5 DEF Base, Held
  <2>2. InStep(ac, wk[w], up[s], d)
    BY <2>1 DEF Conversation, Coupled
  <2>3. WellTold(wk[w], up[s])
    BY <1>1, <2>1 DEF Conversation, Told, Clean, Serving
  <2>4. ~Has(up[s], "BeginRequest")
    BY <1>1 DEF Has, Agreement, BeginsLast
  <2>5. Said(ac, wk[w], d) /\ Len(d) # 0
    BY <1>2, <2>2 DEF InStep
  <2>6. CASE wk[w].pc \in {"aside", "postdata"}
    <3>1. d[1].is = "RequirePostData" /\ ~ac.postdata_sent
      BY <2>5, <2>6 DEF Said
    <3>2. Asked
      BY <1>2, <3>1 DEF Asked
    <3>3. ac.pc # "body"
      BY <2>2, <2>6 DEF InStep
    <3> QED
      BY <3>2, <3>3 DEF Expected
  <2>7. CASE wk[w].pc \in {"finish", "ended"}
    <3>1. LastSent(ac) = "EndRequest"
      BY <2>2, <2>3, <2>4, <2>7, AnsweringLast
    <3>2. CASE ac.pc = "document"
      <4>1. ac.kind = "options"
        BY <3>1, <3>2 DEF LastSent
      <4> QED
        BY <3>2, <4>1 DEF Expected
    <3>3. CASE ac.pc = "final"
      <4>1. d[1].is = "ResponseHeader"
        BY <2>5, <2>7, <3>3 DEF Said, Delivered
      <4> QED
        BY <1>2, <3>3, <4>1 DEF Expected
    <3>4. CASE ac.pc = "body"
      <4>1. d[1].is \in {"Document", "EndRequest"}
        BY <2>5, <2>7, <3>4 DEF Said, Delivered
      <4> QED
        BY <1>2, <3>4, <4>1 DEF Expected
    <3> QED
      BY <3>2, <3>3, <3>4
  <2>8. CASE wk[w].pc \notin {"aside", "postdata", "finish", "ended"}
    BY <2>5, <2>8 DEF Said
  <2> QED
    BY <2>6, <2>7, <2>8
<1> QED
  BY <1>3, <1>4, <1>5

LEMMA FailureHasCause ==
  ASSUME Base, Agreement, Conversation, Fail
  PROVE  crashes > 0 \/ (ac.kind = "options" /\ ac.blocks > 1)
<1>1. Failing /\ Talking
  BY FailEffect DEF Base
<1>2. ASSUME ~(crashes > 0), ~Doubled PROVE FALSE
  <2>1. Serving
    BY <1>1, <1>2 DEF Serving
  <2>2. ~Ended(ac.sock) /\ ~Reset(ac.sock)
    BY <1>2, <2>1 DEF Ended, Reset, Conversation, AtWork
  <2>3. ac.pc \in {"document", "final", "body"} /\ Readable /\ ~Expected
    BY <1>1, <2>2 DEF Failing
  <2> QED
    BY <1>2, <2>1, <2>3, ExpectedComes
<1> QED
  BY <1>2 DEF Doubled

\* A request that has begun fails only when a worker died, a connect failed or
\* OPTIONS was sent twice: nothing an earlier request left on the connection,
\* and no order in which the two sides send, makes the connector meet a block
\* it does not expect (has_error in jaxer_out_filter and jxr_handle_request).
THEOREM FailuresHaveCause == Spec => NoFailureWithoutCause
<1>1. Base /\ Agreement /\ Conversation /\ [Next]_vars =>
        [ \A r \in Request : answer[r] = "none" /\ answer'[r] = "failed" =>
            crashes > 0 \/ (ac.kind = "options" /\ ac.blocks > 1) ]_vars
  <2> SUFFICES ASSUME Base, Agreement, Conversation, Next, NEW r \in Request,
                      answer[r] = "none", answer'[r] = "failed"
               PROVE  crashes > 0 \/ (ac.kind = "options" /\ ac.blocks > 1)
    OBVIOUS
  <2>1. CASE \E kind \in Kinds : NewRequest(kind)
    BY <2>1, NewRequestEffect DEF Base
  <2>2. CASE Abandon
    BY <2>2, AbandonEffect DEF Base, Answered
  <2>3. CASE Connector
    <3>1. CASE Acquire
      BY <3>1, AcquireEffect DEF Base, Answered
    <3>2. CASE BeginFails
      BY <3>2, BeginFailsEffect DEF Base, Answered
    <3>3. CASE ReceiveEnd
      BY <3>3, ReceiveEndEffect DEF Base, Answered
    <3>4. CASE Fail
      BY <3>4, FailureHasCause
    <3>5. CASE SendBegin \/ Begun \/ BeginAgain \/ SendHeaders
      BY <3>5, SendBeginEffect, BegunEffect, BeginAgainEffect, SendHeadersEffect DEF Base
    <3>6. CASE \/ SendDocument \/ SendEndRequest \/ SendLatePostData \/ ReceiveHeaders
               \/ ReceiveBody
      BY <3>6, SendDocumentEffect, SendEndRequestEffect, SendLatePostDataEffect,
         ReceiveHeadersEffect, ReceiveBodyEffect DEF Base
    <3>7. CASE \E eos_seen \in BOOLEAN : SendOptions(eos_seen)
      BY <3>7, SendOptionsEffect DEF Base
    <3> QED
      BY <2>3, <3>1, <3>2, <3>3, <3>4, <3>5, <3>6, <3>7 DEF Connector
  <2>4. CASE \E s \in Sockets : SetsPlace(s)
    BY <2>4 DEF SetsPlace
  <2>5. CASE \E s \in Sockets, w \in Workers : Hands(s, w)
    BY <2>5 DEF Hands
  <2>6. CASE \E w \in Workers : WorkerActs(w)
    BY <2>6, Shrinking
  <2> QED
    BY <2>1, <2>2, <2>3, <2>4, <2>5, <2>6, Cases
<1> QED
  BY <1>1, Conversing, PTL DEF Spec, NoFailureWithoutCause

=============================================================================
