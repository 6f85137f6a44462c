---------------------------- MODULE RequestBroker ----------------------------
(***************************************************************************)
(* What the Jaxer Manager promises the web server: every request that      *)
(* comes on a connection waits its turn and is handed to one worker; the   *)
(* connection is watched for another request when the worker is done with  *)
(* it.  Only a web server that closes its end, a manager that is stopping  *)
(* or the loss of the worker it was handed to ends a connection.           *)
(*                                                                         *)
(* JaxerManager implements it (JaxerManager!Broker).                       *)
(***************************************************************************)
EXTENDS Naturals, Sequences

CONSTANTS Workers, Connections, Nobody

VARIABLES
  watched,  \* connections whose next request is looked for
  waiting,  \* connections with a request, oldest first
  served    \* the connection each worker was handed

vars == <<watched, waiting, served>>

Handed == {served[w] : w \in Workers} \ {Nobody}
Queued == {waiting[i] : i \in DOMAIN waiting}
Known == watched \cup Queued \cup Handed

Init ==
  /\ watched = {}
  /\ waiting = <<>>
  /\ served = [w \in Workers |-> Nobody]

Accept(c) ==
  /\ c \notin Known
  /\ watched' = watched \cup {c}
  /\ UNCHANGED <<waiting, served>>

Refuse(c) ==
  /\ c \in watched
  /\ watched' = watched \ {c}
  /\ UNCHANGED <<waiting, served>>

\* A request overtakes nobody: it goes to a worker only when nobody waits.
Serve(c, w) ==
  /\ c \in watched
  /\ waiting = <<>>
  /\ served[w] = Nobody
  /\ watched' = watched \ {c}
  /\ served' = [served EXCEPT ![w] = c]
  /\ UNCHANGED waiting

Queue(c) ==
  /\ c \in watched
  /\ watched' = watched \ {c}
  /\ waiting' = Append(waiting, c)
  /\ UNCHANGED served

\* w gives back what it had and may take the oldest request instead.
Release(w) ==
  /\ served[w] # Nobody
  /\ watched' = watched \cup {served[w]}
  /\ \/ /\ served' = [served EXCEPT ![w] = Nobody]
        /\ UNCHANGED waiting
     \/ /\ waiting # <<>>
        /\ served' = [served EXCEPT ![w] = Head(waiting)]
        /\ waiting' = Tail(waiting)

\* Workers with nothing take the oldest requests, one each.
Take ==
  \E n \in 1..Len(waiting) : \E who \in [1..n -> Workers] :
    /\ \A i, j \in 1..n : who[i] = who[j] => i = j
    /\ \A i \in 1..n : served[who[i]] = Nobody
    /\ served' = [w \in Workers |->
                    IF \E i \in 1..n : who[i] = w
                    THEN waiting[CHOOSE i \in 1..n : who[i] = w] ELSE served[w]]
    /\ waiting' = SubSeq(waiting, n + 1, Len(waiting))
    /\ UNCHANGED watched

\* Workers are lost, with the connections they were handed.
Lose(W) ==
  /\ served' = [w \in Workers |-> IF w \in W THEN Nobody ELSE served[w]]
  /\ UNCHANGED <<watched, waiting>>

Next ==
  \/ \E c \in Connections : Accept(c) \/ Refuse(c) \/ Queue(c)
  \/ \E c \in Connections, w \in Workers : Serve(c, w)
  \/ \E w \in Workers : Release(w)
  \/ Take
  \/ \E W \in SUBSET Workers : Lose(W)

Spec == Init /\ [][Next]_vars

-----------------------------------------------------------------------------
TypeOK ==
  /\ watched \in SUBSET Connections
  /\ waiting \in Seq(Connections)
  /\ served \in [Workers -> Connections \cup {Nobody}]

\* A connection is watched, waits once or is with one worker, never two of these.
OnePlace ==
  /\ \A c \in watched : c \notin Queued /\ c \notin Handed
  /\ Queued \cap Handed = {}
  /\ \A i, j \in DOMAIN waiting : waiting[i] = waiting[j] => i = j
  /\ \A v, w \in Workers : served[v] = served[w] /\ served[v] # Nobody => v = w
=============================================================================
