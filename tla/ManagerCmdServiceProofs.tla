----------------------- MODULE ManagerCmdServiceProofs -----------------------
(***************************************************************************)
(* Proofs about ManagerCmdService for every finite set of threads and bound *)
(* on commands and messages: types, then one command at a time and answers *)
(* that reach it, whatever the habits of the callers are, then callbacks   *)
(* and the order of locks, when no two callers differ in their habit.      *)
(***************************************************************************)
EXTENDS ManagerCmdService, FiniteSetTheorems, TLAPS

-----------------------------------------------------------------------------
(* Sequences.                                                              *)

LEMMA AppendElements ==
  ASSUME NEW S, NEW q \in Seq(S), NEW e \in S
  PROVE  /\ Append(q, e) \in Seq(S)
         /\ Append(q, e) # <<>>
         /\ Len(Append(q, e)) = Len(q) + 1
         /\ DOMAIN Append(q, e) = 1..Len(q) + 1
         /\ DOMAIN q = 1..Len(q)
         /\ Len(q) \in Nat
         /\ \A n \in 1..Len(q) : Append(q, e)[n] = q[n]
         /\ Append(q, e)[Len(q) + 1] = e
OBVIOUS

LEMMA TailElements ==
  ASSUME NEW S, NEW q \in Seq(S), q # <<>>
  PROVE  /\ Tail(q) \in Seq(S)
         /\ Head(q) \in S
         /\ Head(q) = q[1]
         /\ 1 \in DOMAIN q
         /\ Len(q) \in Nat \ {0}
         /\ DOMAIN q = 1..Len(q)
         /\ Len(Tail(q)) = Len(q) - 1
         /\ DOMAIN Tail(q) = 1..Len(q) - 1
         /\ \A n \in DOMAIN Tail(q) : n + 1 \in DOMAIN q /\ Tail(q)[n] = q[n + 1]
OBVIOUS

-----------------------------------------------------------------------------
(* Type correctness.  It needs to know that commands are numbered in order *)
(* and that a caller past the first check has a number left, which is the  *)
(* bound of the model, and where a number is never 0.                      *)

\* Commands are numbered from 1, and those begun keep to the bound.
Numbered ==
  /\ Issued = 1..Cardinality(Issued)
  /\ Cardinality(Issued) + Cardinality(Asking) <= MaxCommands

\* A caller between the critical section and the end of its send.
Sender(t) == pc[t] \in {"accepted", "entering", "sending"}

\* Where the number of a command is known to be one.
Known ==
  /\ svc.isAsync => svc.response \in Ids
  /\ reader = "dispatching" => held.event \in Ids
  /\ \A t \in Callers : Sender(t) => call[t].id \in Ids

TypeInv == TypeOK /\ Numbered /\ Known

\* The number of the next command is within the bound.
LEMMA NextNumber ==
  ASSUME TypeOK, Numbered, NEW t \in Callers, pc[t] = "locked"
  PROVE  /\ Cardinality(Issued) + 1 \in Ids \ Issued
         /\ Cardinality(Issued) \in Nat
         /\ Cardinality(Asking \ {t}) = Cardinality(Asking) - 1
         /\ Cardinality(Asking) \in Nat
<1>1. IsFiniteSet(Asking) /\ t \in Asking
  BY CommandAssumption, FS_Subset DEF Asking
<1>2. /\ Cardinality(Asking \ {t}) = Cardinality(Asking) - 1
      /\ Cardinality(Asking) \in Nat
  BY <1>1, FS_RemoveElement, FS_CardinalityType
<1>3. Cardinality(Asking) # 0
  BY <1>1, FS_EmptySet
<1>4. IsFiniteSet(Ids)
  BY CommandAssumption, FS_Interval DEF Ids
<1>5. Cardinality(Issued) \in Nat
  BY <1>4, FS_Subset, FS_CardinalityType DEF Issued
<1>6. Cardinality(Issued) + 1 \in Ids
  BY <1>2, <1>3, <1>5, CommandAssumption DEF Numbered, Ids
<1>7. Cardinality(Issued) + 1 \notin Issued
  BY <1>5 DEF Numbered
<1> QED
  BY <1>2, <1>5, <1>6, <1>7

\* The numbering of commands survives a step that issues none.
LEMMA SameNumbers ==
  ASSUME TypeOK, Numbered, owner' = owner,
         \A t \in Callers : pc'[t] \in {"checked", "locked"} => t \in Asking
  PROVE  Numbered'
<1>1. Issued' = Issued
  BY DEF Issued
<1>2. IsFiniteSet(Asking) /\ Asking' \subseteq Asking
  BY CommandAssumption, FS_Subset DEF Asking
<1>3. /\ Cardinality(Asking') <= Cardinality(Asking)
      /\ Cardinality(Asking') \in Nat /\ Cardinality(Asking) \in Nat
  BY <1>2, FS_Subset, FS_CardinalityType
<1>4. Cardinality(Issued) \in Nat
  <2>1. IsFiniteSet(Ids) /\ Issued \subseteq Ids
    BY CommandAssumption, FS_Interval DEF Ids, Issued
  <2> QED
    BY <2>1, FS_Subset, FS_CardinalityType
<1> QED
  BY <1>1, <1>3, <1>4, CommandAssumption DEF Numbered

LEMMA AppendAt ==
  ASSUME NEW D, NEW S, NEW f \in [D -> Seq(S)], NEW d, NEW e \in S
  PROVE  [f EXCEPT ![d] = Append(@, e)] \in [D -> Seq(S)]
<1>1. d \in D => Append(f[d], e) \in Seq(S)
  BY AppendElements
<1> QED
  BY <1>1

\* The fields of the service that are replaced one or more at a time.
LEMMA ServiceFields ==
  ASSUME svc \in Service, NEW t \in Callers
  PROVE  /\ [svc EXCEPT !.cmdLock = t] \in Service
         /\ [svc EXCEPT !.toMgrLock = Nobody] \in Service
         /\ [svc EXCEPT !.monitor = t] \in Service
         /\ [svc EXCEPT !.inProgress = FALSE] \in Service
         /\ LeaveMonitor(t) \in Callers \cup {Nobody}
BY DEF Service, LeaveMonitor

\* No number of a command is made up by a step that issues none.
LEMMA SameCommands ==
  ASSUME Known, reader' = reader, held' = held,
         svc'.isAsync = svc.isAsync, svc'.response = svc.response,
         \A u \in Callers : Sender(u)' => Sender(u) /\ call'[u].id = call[u].id
  PROVE  Known'
BY DEF Known

\* The arguments of a call.
Calls == [async : BOOLEAN, id : {0} \cup Ids, back : {"idle", "handling"}]

LEMMA CallFields ==
  ASSUME call \in [Callers -> Calls], NEW t \in Callers
  PROVE  /\ \A a \in BOOLEAN : [call EXCEPT ![t].async = a] \in [Callers -> Calls]
         /\ \A i \in {0} \cup Ids : [call EXCEPT ![t].id = i] \in [Callers -> Calls]
         /\ \A b \in {"idle", "handling"} : [call EXCEPT ![t].back = b] \in [Callers -> Calls]
<1>1. \A a \in BOOLEAN : [call[t] EXCEPT !.async = a] \in Calls
  BY DEF Calls
<1>2. \A i \in {0} \cup Ids : [call[t] EXCEPT !.id = i] \in Calls
  BY DEF Calls
<1>3. \A b \in {"idle", "handling"} : [call[t] EXCEPT !.back = b] \in Calls
  BY DEF Calls
<1> QED
  BY <1>1, <1>2, <1>3

LEMMA CallsType == TypeOK => call \in [Callers -> Calls]
BY DEF TypeOK, Calls

LEMMA TypeInit == Init => TypeInv
<1> SUFFICES ASSUME Init PROVE TypeInv
  OBVIOUS
<1> USE CommandAssumption
<1>1. TypeOK
  BY DEF Init, TypeOK, Service, Ids, Steps, Outside, NoAnswer
<1>2. Issued = {} /\ Asking = {}
  BY DEF Init, Issued, Asking
<1>3. Numbered
  BY <1>2, FS_EmptySet DEF Numbered
<1>4. Known
  BY DEF Init, Known, Sender
<1> QED
  BY <1>1, <1>3, <1>4 DEF TypeInv

LEMMA TypeStep == TypeInv /\ [Next]_vars => TypeInv'
<1> SUFFICES ASSUME TypeInv, [Next]_vars PROVE TypeInv'
  OBVIOUS
<1>1. ASSUME NEW t \in Callers, LockCmd(t) PROVE TypeInv'
  <2>1. TypeOK'
    <3>1. svc' \in Service
      <4>1. svc' = svc \/ svc' = [svc EXCEPT !.cmdLock = t]
        BY <1>1 DEF LockCmd
      <4> QED
        <5>1. svc \in Service
          BY DEF TypeInv, TypeOK
        <5>2. [svc EXCEPT !.cmdLock = t] \in Service
          BY <1>1, <5>1, ServiceFields
        <5> QED
          BY <4>1, <5>1, <5>2
    <3>2. pc' \in [Callers -> Steps]
      <4>1. pc' = [pc EXCEPT ![t] = "idle"] \/ pc' = [pc EXCEPT ![t] = "locked"]
        BY <1>1 DEF LockCmd, Goto
      <4> QED
        BY <4>1 DEF TypeInv, TypeOK, Steps, Outside
    <3> QED
      BY <1>1, <3>1, <3>2
      DEF LockCmd, Goto, Inside, TypeInv, TypeOK, callers, reading, socket, history, unspent
  <2>2. Numbered'
    <3>1. owner' = owner
      BY <1>1 DEF LockCmd, Goto, Inside, callers, reading, socket, history, unspent
    <3>2. \A u \in Callers : pc'[u] \in {"checked", "locked"} => u \in Asking
      BY <1>1 DEF TypeInv, TypeOK, Asking, LockCmd, Goto, Inside, callers, reading, socket, history, unspent
    <3> QED
      BY <3>1, <3>2, SameNumbers DEF TypeInv
  <2>3. Known'
    <3>1. /\ reader' = reader /\ held' = held
          /\ svc'.isAsync = svc.isAsync /\ svc'.response = svc.response
      BY <1>1 DEF TypeInv, TypeOK, Service, LockCmd, Goto, Inside, callers, reading
    <3>2. \A u \in Callers : Sender(u)' => Sender(u) /\ call'[u].id = call[u].id
      BY <1>1 DEF TypeInv, TypeOK, Sender, LockCmd, Goto, Inside, callers
    <3> QED
      BY <3>1, <3>2, SameCommands DEF TypeInv
  <2> QED
    BY <2>1, <2>2, <2>3 DEF TypeInv
<1>2. ASSUME NEW t \in Callers, LockToMgr(t) PROVE TypeInv'
  <2>1. TypeOK'
    BY <1>2
    DEF TypeInv, TypeOK, Service, Steps, Outside, LockToMgr, Goto, Inside,
        callers, reading, socket, history, unspent
  <2>2. Numbered'
    <3>1. owner' = owner
      BY <1>2 DEF LockToMgr, Goto, Inside, callers, reading, socket, history, unspent
    <3>2. \A u \in Callers : pc'[u] \in {"checked", "locked"} => u \in Asking
      BY <1>2 DEF TypeInv, TypeOK, Asking, LockToMgr, Goto, Inside, callers, reading, socket, history, unspent
    <3> QED
      BY <3>1, <3>2, SameNumbers DEF TypeInv
  <2>3. Known'
    BY <1>2
    DEF TypeInv, Known, Sender, TypeOK, Service, LockToMgr, Goto, Inside,
        callers, reading, socket, history, unspent
  <2> QED
    BY <2>1, <2>2, <2>3 DEF TypeInv
<1>3. ASSUME NEW t \in Callers, EnterMonitor(t) PROVE TypeInv'
  <2>1. TypeOK'
    BY <1>3
    DEF TypeInv, TypeOK, Service, Steps, Outside, EnterMonitor, Goto, Inside,
        callers, reading, socket, history, unspent
  <2>2. Numbered'
    <3>1. owner' = owner
      BY <1>3 DEF EnterMonitor, Goto, Inside, callers, reading, socket, history, unspent
    <3>2. \A u \in Callers : pc'[u] \in {"checked", "locked"} => u \in Asking
      BY <1>3 DEF TypeInv, TypeOK, Asking, EnterMonitor, Goto, Inside, callers, reading, socket, history, unspent
    <3> QED
      BY <3>1, <3>2, SameNumbers DEF TypeInv
  <2>3. Known'
    BY <1>3
    DEF TypeInv, Known, Sender, TypeOK, Service, EnterMonitor, Goto, Inside,
        callers, reading, socket, history, unspent
  <2> QED
    BY <2>1, <2>2, <2>3 DEF TypeInv
<1>4. ASSUME NEW t \in Callers, SendNeedRespCmd(t) PROVE TypeInv'
  <2>1. TypeOK'
    <3>1. svc' \in Service
      <4>1. CASE open
        BY <4>1, <1>4, ServiceFields DEF SendNeedRespCmd, TypeInv, TypeOK
      <4>2. CASE ~open
        <5>1. /\ svc \in Service
              /\ LeaveMonitor(t) \in Callers \cup {Nobody}
          BY <1>4, ServiceFields DEF TypeInv, TypeOK
        <5>2. svc' = [svc EXCEPT !.toMgrLock = Nobody, !.inProgress = FALSE,
                                 !.monitor = LeaveMonitor(t)]
          BY <4>2, <1>4 DEF SendNeedRespCmd
        <5> QED
          BY <5>1, <5>2 DEF Service
      <4> QED
        BY <4>1, <4>2
    <3>2. pc' \in [Callers -> Steps]
      <4>1. pc' = [pc EXCEPT ![t] = "sent"] \/ pc' = [pc EXCEPT ![t] = "idle"]
        BY <1>4 DEF SendNeedRespCmd, Goto
      <4> QED
        BY <4>1 DEF TypeInv, TypeOK, Steps, Outside
    <3>3. toManager' \in Seq({0} \cup Ids)
      <4>1. /\ toManager \in Seq({0} \cup Ids)
            /\ call[t].id \in {0} \cup Ids
        BY <1>4 DEF TypeInv, TypeOK
      <4>2. toManager' = toManager \/ toManager' = Append(toManager, call[t].id)
        BY <1>4 DEF SendNeedRespCmd
      <4> QED
        BY <4>1, <4>2, AppendElements
    <3>4. failed' \in SUBSET Ids
      <4>1. failed' = failed \/ failed' = failed \cup {call[t].id}
        BY <1>4 DEF SendNeedRespCmd
      <4>2. call[t].id \in Ids
        BY <1>4 DEF TypeInv, Known, Sender, SendNeedRespCmd, Goto
      <4> QED
        BY <4>1, <4>2 DEF TypeInv, TypeOK
    <3> QED
      BY <1>4, <3>1, <3>2, <3>3, <3>4
      DEF SendNeedRespCmd, Goto, LeaveMonitor, TypeInv, TypeOK, callers, reading, socket, history, unspent
  <2>2. Numbered'
    <3>1. owner' = owner
      BY <1>4 DEF SendNeedRespCmd, Goto, LeaveMonitor, callers, reading, socket, history, unspent
    <3>2. \A u \in Callers : pc'[u] \in {"checked", "locked"} => u \in Asking
      BY <1>4 DEF TypeInv, TypeOK, Asking, SendNeedRespCmd, Goto, LeaveMonitor, callers, reading, socket, history, unspent
    <3> QED
      BY <3>1, <3>2, SameNumbers DEF TypeInv
  <2>3. Known'
    <3>1. /\ reader' = reader /\ held' = held
          /\ svc'.isAsync = svc.isAsync /\ svc'.response = svc.response
      BY <1>4 DEF TypeInv, TypeOK, Service, SendNeedRespCmd, Goto, callers, reading
    <3>2. \A u \in Callers : Sender(u)' => Sender(u) /\ call'[u].id = call[u].id
      BY <1>4 DEF TypeInv, TypeOK, Sender, SendNeedRespCmd, Goto, callers
    <3> QED
      BY <3>1, <3>2, SameCommands DEF TypeInv
  <2> QED
    BY <2>1, <2>2, <2>3 DEF TypeInv
<1>5. ASSUME NEW t \in Callers, Wait(t) PROVE TypeInv'
  <2>1. TypeOK'
    <3>1. svc' \in Service
      <4>1. svc' = svc \/ svc' = [svc EXCEPT !.monitor = Nobody]
        BY <1>5 DEF Wait
      <4>2. svc \in Service
        BY DEF TypeInv, TypeOK
      <4> QED
        BY <4>1, <4>2 DEF Service
    <3>2. pc' \in [Callers -> Steps]
      <4>1. pc' = [pc EXCEPT ![t] = "idle"] \/ pc' = [pc EXCEPT ![t] = "waiting"]
        BY <1>5 DEF Wait, Goto
      <4> QED
        BY <4>1 DEF TypeInv, TypeOK, Steps, Outside
    <3> QED
      BY <1>5, <3>1, <3>2
      DEF Wait, Goto, Inside, TypeInv, TypeOK, callers, reading, socket, history, unspent
  <2>2. Numbered'
    <3>1. owner' = owner
      BY <1>5 DEF Wait, Goto, Inside, callers, reading, socket, history, unspent
    <3>2. \A u \in Callers : pc'[u] \in {"checked", "locked"} => u \in Asking
      BY <1>5 DEF TypeInv, TypeOK, Asking, Wait, Goto, Inside, callers, reading, socket, history, unspent
    <3> QED
      BY <3>1, <3>2, SameNumbers DEF TypeInv
  <2>3. Known'
    <3>1. /\ reader' = reader /\ held' = held
          /\ svc'.isAsync = svc.isAsync /\ svc'.response = svc.response
      BY <1>5 DEF TypeInv, TypeOK, Service, Wait, Goto, Inside, callers, reading
    <3>2. \A u \in Callers : Sender(u)' => Sender(u) /\ call'[u].id = call[u].id
      BY <1>5 DEF TypeInv, TypeOK, Sender, Wait, Goto, Inside, callers
    <3> QED
      BY <3>1, <3>2, SameCommands DEF TypeInv
  <2> QED
    BY <2>1, <2>2, <2>3 DEF TypeInv
<1>6. ASSUME NEW t \in Callers, WakeUp(t) PROVE TypeInv'
  <2>1. TypeOK'
    <3>1. svc' \in Service
      BY <1>6 DEF WakeUp, Goto, TypeInv, TypeOK, Service
    <3>2. pc' \in [Callers -> Steps]
      BY <1>6 DEF WakeUp, Goto, TypeInv, TypeOK, Steps, Outside
    <3>3. called' \in [Ids -> Seq(Callers)]
      BY <1>6, AppendAt DEF WakeUp, TypeInv, TypeOK
    <3> QED
      BY <1>6, <3>1, <3>2, <3>3
      DEF WakeUp, Goto, TypeInv, TypeOK, callers, reading, socket, history, unspent
  <2>2. Numbered'
    <3>1. owner' = owner
      BY <1>6 DEF WakeUp, Goto, callers, reading, socket, history, unspent
    <3>2. \A u \in Callers : pc'[u] \in {"checked", "locked"} => u \in Asking
      BY <1>6 DEF TypeInv, TypeOK, Asking, WakeUp, Goto, callers, reading, socket, history, unspent
    <3> QED
      BY <3>1, <3>2, SameNumbers DEF TypeInv
  <2>3. Known'
    BY <1>6
    DEF TypeInv, Known, Sender, TypeOK, Service, WakeUp, Goto,
        callers, reading, socket, history, unspent
  <2> QED
    BY <2>1, <2>2, <2>3 DEF TypeInv
<1>7. ASSUME NEW t \in Callers, Handled(t) PROVE TypeInv'
  <2>1. TypeOK'
    BY <1>7
    DEF TypeInv, TypeOK, Service, Steps, Outside, Handled, Goto, Inside,
        callers, reading, socket, history, unspent
  <2>2. Numbered'
    <3>1. owner' = owner
      BY <1>7 DEF Handled, Goto, Inside, callers, reading, socket, history, unspent
    <3>2. \A u \in Callers : pc'[u] \in {"checked", "locked"} => u \in Asking
      BY <1>7 DEF TypeInv, TypeOK, Asking, Handled, Goto, Inside, callers, reading, socket, history, unspent
    <3> QED
      BY <3>1, <3>2, SameNumbers DEF TypeInv
  <2>3. Known'
    BY <1>7
    DEF TypeInv, Known, Sender, TypeOK, Service, Handled, Goto, Inside,
        callers, reading, socket, history, unspent
  <2> QED
    BY <2>1, <2>2, <2>3 DEF TypeInv
<1>8. ASSUME NEW t \in Callers, Complete(t) PROVE TypeInv'
  <2>1. TypeOK'
    BY <1>8
    DEF TypeInv, TypeOK, Service, Steps, Outside, Complete, Goto, Inside,
        callers, reading, socket, history, unspent
  <2>2. Numbered'
    <3>1. owner' = owner
      BY <1>8 DEF Complete, Goto, Inside, callers, reading, socket, history, unspent
    <3>2. \A u \in Callers : pc'[u] \in {"checked", "locked"} => u \in Asking
      BY <1>8 DEF TypeInv, TypeOK, Asking, Complete, Goto, Inside, callers, reading, socket, history, unspent
    <3> QED
      BY <3>1, <3>2, SameNumbers DEF TypeInv
  <2>3. Known'
    BY <1>8
    DEF TypeInv, Known, Sender, TypeOK, Service, Complete, Goto, Inside,
        callers, reading, socket, history, unspent
  <2> QED
    BY <2>1, <2>2, <2>3 DEF TypeInv
<1>9. ASSUME NEW t \in Callers, ExecNoRespCmd(t) PROVE TypeInv'
  <2>1. TypeOK'
    <3>1. spent' \in [others : Nat, parts : Nat]
      <4>1. spent.others + 1 \in Nat
        BY DEF TypeInv, TypeOK
      <4> QED
        BY <4>1, <1>9 DEF ExecNoRespCmd, TypeInv, TypeOK
    <3>2. pc' \in [Callers -> Steps]
      <4>1. pc' = [pc EXCEPT ![t] = "posting"]
        BY <1>9 DEF ExecNoRespCmd
      <4> QED
        BY <4>1 DEF TypeInv, TypeOK, Steps, Outside
    <3>3. call' \in [Callers -> Calls]
      BY <1>9, CallsType, CallFields DEF ExecNoRespCmd, TypeInv
    <3> QED
      BY <1>9, <3>1, <3>2, <3>3
      DEF ExecNoRespCmd, TypeInv, TypeOK, Calls, callers, reading, socket, history, unspent
  <2>2. Numbered'
    <3>1. owner' = owner
      BY <1>9 DEF ExecNoRespCmd, callers, reading, socket, history, unspent
    <3>2. \A u \in Callers : pc'[u] \in {"checked", "locked"} => u \in Asking
      BY <1>9 DEF TypeInv, TypeOK, Asking, ExecNoRespCmd, callers, reading, socket, history, unspent
    <3> QED
      BY <3>1, <3>2, SameNumbers DEF TypeInv
  <2>3. Known'
    BY <1>9
    DEF TypeInv, Known, Sender, TypeOK, Service, ExecNoRespCmd,
        callers, reading, socket, history, unspent
  <2> QED
    BY <2>1, <2>2, <2>3 DEF TypeInv
<1>10. ASSUME NEW t \in Callers, LockToPost(t) PROVE TypeInv'
  <2>1. TypeOK'
    BY <1>10
    DEF TypeInv, TypeOK, Service, Steps, Outside, LockToPost, Goto, Inside,
        callers, reading, socket, history, unspent
  <2>2. Numbered'
    <3>1. owner' = owner
      BY <1>10 DEF LockToPost, Goto, Inside, callers, reading, socket, history, unspent
    <3>2. \A u \in Callers : pc'[u] \in {"checked", "locked"} => u \in Asking
      BY <1>10 DEF TypeInv, TypeOK, Asking, LockToPost, Goto, Inside, callers, reading, socket, history, unspent
    <3> QED
      BY <3>1, <3>2, SameNumbers DEF TypeInv
  <2>3. Known'
    BY <1>10
    DEF TypeInv, Known, Sender, TypeOK, Service, LockToPost, Goto, Inside,
        callers, reading, socket, history, unspent
  <2> QED
    BY <2>1, <2>2, <2>3 DEF TypeInv
<1>11. ASSUME NEW t \in Callers, SendNoRespCmd(t) PROVE TypeInv'
  <2>1. TypeOK'
    <3>1. svc' \in Service
      BY <1>11 DEF SendNoRespCmd, Goto, TypeInv, TypeOK, Service
    <3>2. pc' \in [Callers -> Steps]
      BY <1>11 DEF SendNoRespCmd, Goto, TypeInv, TypeOK, Steps, Outside
    <3>3. toManager' \in Seq({0} \cup Ids)
      BY <1>11 DEF SendNoRespCmd, Goto, TypeInv, TypeOK
    <3> QED
      BY <1>11, <3>1, <3>2, <3>3
      DEF SendNoRespCmd, Goto, TypeInv, TypeOK, callers, reading, socket, history, unspent
  <2>2. Numbered'
    <3>1. owner' = owner
      BY <1>11 DEF SendNoRespCmd, Goto, callers, reading, socket, history, unspent
    <3>2. \A u \in Callers : pc'[u] \in {"checked", "locked"} => u \in Asking
      BY <1>11 DEF TypeInv, TypeOK, Asking, SendNoRespCmd, Goto, callers, reading, socket, history, unspent
    <3> QED
      BY <3>1, <3>2, SameNumbers DEF TypeInv
  <2>3. Known'
    BY <1>11
    DEF TypeInv, Known, Sender, TypeOK, Service, SendNoRespCmd, Goto,
        callers, reading, socket, history, unspent
  <2> QED
    BY <2>1, <2>2, <2>3 DEF TypeInv
<1>12. ASSUME NEW t \in Callers, RunCallback(t) PROVE TypeInv'
  <2>1. TypeOK'
    <3>1. /\ events[t] \in Seq(Ids) /\ events[t] # <<>>
          /\ events' = [events EXCEPT ![t] = Tail(@)]
          /\ called' = [called EXCEPT ![Head(events[t])] = Append(@, t)]
      BY <1>12 DEF RunCallback, TypeInv, TypeOK
    <3>2. Tail(events[t]) \in Seq(Ids)
      BY <3>1, TailElements
    <3>3. events' \in [Callers -> Seq(Ids)]
      BY <3>1, <3>2 DEF TypeInv, TypeOK
    <3>4. called' \in [Ids -> Seq(Callers)]
      BY <1>12, <3>1, AppendAt DEF TypeInv, TypeOK
    <3> QED
      BY <1>12, <3>3, <3>4
      DEF RunCallback, TypeInv, TypeOK, reading, socket, unspent
  <2>2. Numbered'
    <3>1. owner' = owner
      BY <1>12 DEF RunCallback, callers, reading, socket, history, unspent
    <3>2. \A u \in Callers : pc'[u] \in {"checked", "locked"} => u \in Asking
      BY <1>12 DEF TypeInv, TypeOK, Asking, RunCallback, callers, reading, socket, history, unspent
    <3> QED
      BY <3>1, <3>2, SameNumbers DEF TypeInv
  <2>3. Known'
    BY <1>12
    DEF TypeInv, Known, Sender, TypeOK, Service, RunCallback,
        callers, reading, socket, history, unspent
  <2> QED
    BY <2>1, <2>2, <2>3 DEF TypeInv
<1>13. ASSUME ReadAnswer PROVE TypeInv'
  <2>1. TypeOK'
    <3>1. held' \in [of : {0} \cup Ids, more : BOOLEAN, event : {0} \cup Ids]
      <4>1. Head(toWorker) \in [of : Ids, more : BOOLEAN]
        BY <1>13, TailElements DEF ReadAnswer, TypeInv, TypeOK
      <4> QED
        BY <4>1, <1>13 DEF ReadAnswer, NoAnswer
    <3>2. toWorker' \in Seq([of : Ids, more : BOOLEAN])
      BY <1>13 DEF ReadAnswer, NoAnswer, TypeInv, TypeOK
    <3>3. reader' \in {"reading", "adding", "notifying", "dispatching", "leaving", "gone"}
      BY <1>13 DEF ReadAnswer, NoAnswer, TypeInv, TypeOK
    <3> QED
      BY <1>13, <3>1, <3>2, <3>3
      DEF ReadAnswer, NoAnswer, TypeInv, TypeOK, callers, reading, socket, history, unspent
  <2>2. Numbered'
    <3>1. owner' = owner
      BY <1>13 DEF ReadAnswer, NoAnswer, callers, reading, socket, history, unspent
    <3>2. \A u \in Callers : pc'[u] \in {"checked", "locked"} => u \in Asking
      BY <1>13 DEF TypeInv, TypeOK, Asking, ReadAnswer, NoAnswer, callers, reading, socket, history, unspent
    <3> QED
      BY <3>1, <3>2, SameNumbers DEF TypeInv
  <2>3. Known'
    BY <1>13
    DEF TypeInv, Known, Sender, TypeOK, Service, ReadAnswer, NoAnswer,
        callers, reading, socket, history, unspent
  <2> QED
    BY <2>1, <2>2, <2>3 DEF TypeInv
<1>14. ASSUME ReadEnd PROVE TypeInv'
  <2>1. TypeOK'
    BY <1>14
    DEF TypeInv, TypeOK, Service, Steps, Outside, ReadEnd,
        callers, reading, socket, history, unspent
  <2>2. Numbered'
    <3>1. owner' = owner
      BY <1>14 DEF ReadEnd, callers, reading, socket, history, unspent
    <3>2. \A u \in Callers : pc'[u] \in {"checked", "locked"} => u \in Asking
      BY <1>14 DEF TypeInv, TypeOK, Asking, ReadEnd, callers, reading, socket, history, unspent
    <3> QED
      BY <3>1, <3>2, SameNumbers DEF TypeInv
  <2>3. Known'
    BY <1>14
    DEF TypeInv, Known, Sender, TypeOK, Service, ReadEnd,
        callers, reading, socket, history, unspent
  <2> QED
    BY <2>1, <2>2, <2>3 DEF TypeInv
<1>15. ASSUME NotifyPossibleCmdFailure PROVE TypeInv'
  <2>1. TypeOK'
    BY <1>15
    DEF TypeInv, TypeOK, Service, Steps, Outside, NotifyPossibleCmdFailure, NoAnswer,
        callers, reading, socket, history, unspent
  <2>2. Numbered'
    <3>1. owner' = owner
      BY <1>15 DEF NotifyPossibleCmdFailure, NoAnswer, callers, reading, socket, history, unspent
    <3>2. \A u \in Callers : pc'[u] \in {"checked", "locked"} => u \in Asking
      BY <1>15 DEF TypeInv, TypeOK, Asking, NotifyPossibleCmdFailure, NoAnswer, callers, reading, socket, history, unspent
    <3> QED
      BY <3>1, <3>2, SameNumbers DEF TypeInv
  <2>3. Known'
    BY <1>15
    DEF TypeInv, Known, Sender, TypeOK, Service, NotifyPossibleCmdFailure, NoAnswer,
        callers, reading, socket, history, unspent
  <2> QED
    BY <2>1, <2>2, <2>3 DEF TypeInv
<1>16. ASSUME SetCmdRespData PROVE TypeInv'
  <2>1. TypeOK'
    <3>1. parts' \in [Ids -> Nat]
      <4>1. \A i \in Ids : parts[i] + 1 \in Nat
        BY DEF TypeInv, TypeOK
      <4> QED
        BY <4>1, <1>16 DEF SetCmdRespData, TypeInv, TypeOK
    <3>2. svc' \in Service
      <4>1. svc' = svc \/ svc' = [svc EXCEPT !.inProgress = FALSE]
        BY <1>16 DEF SetCmdRespData
      <4>2. svc \in Service
        BY DEF TypeInv, TypeOK
      <4> QED
        BY <4>1, <4>2 DEF Service
    <3>3. held' \in [of : {0} \cup Ids, more : BOOLEAN, event : {0} \cup Ids]
      <4>1. held' = held \/ held' = [held EXCEPT !.event = svc.response]
        BY <1>16 DEF SetCmdRespData
      <4>2. svc.response \in {0} \cup Ids
        BY DEF TypeInv, TypeOK, Service
      <4> QED
        BY <4>1, <4>2 DEF TypeInv, TypeOK
    <3>4. reader' \in {"reading", "adding", "notifying", "dispatching", "leaving", "gone"}
      BY <1>16 DEF SetCmdRespData, TypeInv, TypeOK
    <3> QED
      BY <1>16, <3>1, <3>2, <3>3, <3>4
      DEF SetCmdRespData, TypeInv, TypeOK, callers, reading, socket, history, unspent
  <2>2. Numbered'
    <3>1. owner' = owner
      BY <1>16 DEF SetCmdRespData, callers, reading, socket, history, unspent
    <3>2. \A u \in Callers : pc'[u] \in {"checked", "locked"} => u \in Asking
      BY <1>16 DEF TypeInv, TypeOK, Asking, SetCmdRespData, callers, reading, socket, history, unspent
    <3> QED
      BY <3>1, <3>2, SameNumbers DEF TypeInv
  <2>3. Known'
    BY <1>16
    DEF TypeInv, Known, Sender, TypeOK, Service, SetCmdRespData,
        callers, reading, socket, history, unspent
  <2> QED
    BY <2>1, <2>2, <2>3 DEF TypeInv
<1>17. ASSUME Dispatch PROVE TypeInv'
  <2>1. TypeOK'
    <3>1. events' \in [Callers -> Seq(Ids)]
      BY <1>17, AppendAt DEF Dispatch, TypeInv, TypeOK, Known
    <3>2. reader' \in {"reading", "adding", "notifying", "dispatching", "leaving", "gone"}
      BY <1>17 DEF Dispatch, Onward, TypeInv, TypeOK
    <3> QED
      BY <1>17, <3>1, <3>2
      DEF Dispatch, Onward, TypeInv, TypeOK, callers, reading, socket, history, unspent
  <2>2. Numbered'
    <3>1. owner' = owner
      BY <1>17 DEF Dispatch, Onward, callers, reading, socket, history, unspent
    <3>2. \A u \in Callers : pc'[u] \in {"checked", "locked"} => u \in Asking
      BY <1>17 DEF TypeInv, TypeOK, Asking, Dispatch, Onward, callers, reading, socket, history, unspent
    <3> QED
      BY <3>1, <3>2, SameNumbers DEF TypeInv
  <2>3. Known'
    BY <1>17
    DEF TypeInv, Known, Sender, TypeOK, Service, Dispatch, Onward,
        callers, reading, socket, history, unspent
  <2> QED
    BY <2>1, <2>2, <2>3 DEF TypeInv
<1>18. ASSUME Notify PROVE TypeInv'
  <2>1. TypeOK'
    <3>1. pc' \in [Callers -> Steps]
      <4>1. pc' = pc \/ \E t \in Callers : pc' = [pc EXCEPT ![t] = "notified"]
        BY <1>18 DEF Notify, Waiting, Goto
      <4> QED
        BY <4>1 DEF TypeInv, TypeOK, Steps, Outside
    <3>2. reader' \in {"gone", "reading"}
      BY <1>18 DEF Notify, Onward
    <3> QED
      BY <1>18, <3>1, <3>2
      DEF Notify, TypeInv, TypeOK, callers, socket, history, unspent
  <2>2. Numbered'
    <3>1. owner' = owner
      BY <1>18 DEF Notify, Onward, Waiting, Goto, callers, reading, socket, history, unspent
    <3>2. \A u \in Callers : pc'[u] \in {"checked", "locked"} => u \in Asking
      BY <1>18 DEF TypeInv, TypeOK, Asking, Notify, Onward, Waiting, Goto, callers, reading, socket, history, unspent
    <3> QED
      BY <3>1, <3>2, SameNumbers DEF TypeInv
  <2>3. Known'
    BY <1>18
    DEF TypeInv, Known, Sender, TypeOK, Service, Notify, Onward, Waiting, Goto,
        callers, reading, socket, history, unspent
  <2> QED
    BY <2>1, <2>2, <2>3 DEF TypeInv
<1>19. ASSUME TakeNoRespCmd PROVE TypeInv'
  <2>1. TypeOK'
    BY <1>19
    DEF TypeInv, TypeOK, Service, Steps, Outside, TakeNoRespCmd,
        callers, reading, socket, history, unspent
  <2>2. Numbered'
    <3>1. owner' = owner
      BY <1>19 DEF TakeNoRespCmd, callers, reading, socket, history, unspent
    <3>2. \A u \in Callers : pc'[u] \in {"checked", "locked"} => u \in Asking
      BY <1>19 DEF TypeInv, TypeOK, Asking, TakeNoRespCmd, callers, reading, socket, history, unspent
    <3> QED
      BY <3>1, <3>2, SameNumbers DEF TypeInv
  <2>3. Known'
    BY <1>19
    DEF TypeInv, Known, Sender, TypeOK, Service, TakeNoRespCmd,
        callers, reading, socket, history, unspent
  <2> QED
    BY <2>1, <2>2, <2>3 DEF TypeInv
<1>20. ASSUME Answer PROVE TypeInv'
  <2>1. TypeOK'
    <3>1. toManager' \in Seq({0} \cup Ids)
      BY <1>20 DEF Answer, TypeInv, TypeOK
    <3>2. toWorker' \in Seq([of : Ids, more : BOOLEAN])
      BY <1>20 DEF Answer, TypeInv, TypeOK
    <3>3. spent' \in [others : Nat, parts : Nat]
      <4>1. spent.parts + 1 \in Nat
        BY DEF TypeInv, TypeOK
      <4>2. \/ spent' = [spent EXCEPT !.parts = spent.parts + 1]
            \/ spent' = [spent EXCEPT !.parts = 0]
        BY <1>20 DEF Answer
      <4> QED
        <5>1. \A v \in Nat : [spent EXCEPT !.parts = v] \in [others : Nat, parts : Nat]
          BY DEF TypeInv, TypeOK
        <5> QED
          BY <4>1, <4>2, <5>1
    <3> QED
      BY <1>20, <3>1, <3>2, <3>3
      DEF Answer, TypeInv, TypeOK, callers, reading, socket, history, unspent
  <2>2. Numbered'
    <3>1. owner' = owner
      BY <1>20 DEF Answer, callers, reading, socket, history, unspent
    <3>2. \A u \in Callers : pc'[u] \in {"checked", "locked"} => u \in Asking
      BY <1>20 DEF TypeInv, TypeOK, Asking, Answer, callers, reading, socket, history, unspent
    <3> QED
      BY <3>1, <3>2, SameNumbers DEF TypeInv
  <2>3. Known'
    BY <1>20
    DEF TypeInv, Known, Sender, TypeOK, Service, Answer,
        callers, reading, socket, history, unspent
  <2> QED
    BY <2>1, <2>2, <2>3 DEF TypeInv
<1>21. ASSUME Close PROVE TypeInv'
  <2>1. TypeOK'
    <3>1. toManager' \in Seq({0} \cup Ids)
      BY <1>21 DEF Close, TypeInv, TypeOK
    <3> QED
      BY <1>21, <3>1
      DEF Close, TypeInv, TypeOK, callers, reading, socket, history, unspent
  <2>2. Numbered'
    <3>1. owner' = owner
      BY <1>21 DEF Close, callers, reading, socket, history, unspent
    <3>2. \A u \in Callers : pc'[u] \in {"checked", "locked"} => u \in Asking
      BY <1>21 DEF TypeInv, TypeOK, Asking, Close, callers, reading, socket, history, unspent
    <3> QED
      BY <3>1, <3>2, SameNumbers DEF TypeInv
  <2>3. Known'
    BY <1>21
    DEF TypeInv, Known, Sender, TypeOK, Service, Close,
        callers, reading, socket, history, unspent
  <2> QED
    BY <2>1, <2>2, <2>3 DEF TypeInv
<1>22. ASSUME NEW t \in Callers, BasicCmdCheck(t) PROVE TypeInv'
  <2>1. TypeOK'
    <3>1. pc' \in [Callers -> Steps]
      <4>1. pc' = [pc EXCEPT ![t] = "checked"]
        BY <1>22 DEF BasicCmdCheck, Goto
      <4> QED
        BY <4>1 DEF TypeInv, TypeOK, Steps, Outside
    <3>2. call' \in [Callers -> Calls]
      <4>1. PICK a \in habit[t] : call' = [call EXCEPT ![t].async = a]
        BY <1>22 DEF BasicCmdCheck
      <4>2. a \in BOOLEAN
        BY <1>22, CommandAssumption DEF TypeInv, TypeOK
      <4> QED
        BY <1>22, <4>1, <4>2, CallsType, CallFields DEF TypeInv
    <3> QED
      BY <1>22, <3>1, <3>2
      DEF TypeInv, TypeOK, Calls, BasicCmdCheck, reading, socket, history, unspent
  <2>2. Numbered'
    <3>1. /\ Issued' = Issued
          /\ Asking' = Asking \cup {t}
          /\ t \notin Asking
      BY <1>22 DEF TypeInv, TypeOK, BasicCmdCheck, Goto, Issued, Asking, history
    <3>2. IsFiniteSet(Asking)
      BY CommandAssumption, FS_Subset DEF Asking
    <3>3. Cardinality(Asking') = Cardinality(Asking) + 1
      BY <3>1, <3>2, FS_AddElement
    <3>4. Cardinality(Asking) \in Nat /\ Cardinality(Issued) \in Nat
      <4>1. IsFiniteSet(Ids) /\ Issued \subseteq Ids
        BY CommandAssumption, FS_Interval DEF Ids, Issued
      <4> QED
        BY <3>2, <4>1, FS_Subset, FS_CardinalityType
    <3> QED
      BY <1>22, <3>1, <3>3, <3>4, CommandAssumption
      DEF TypeInv, Numbered, BasicCmdCheck
  <2>3. Known'
    BY <1>22 DEF TypeInv, TypeOK, Known, Sender, BasicCmdCheck, Goto, reading
  <2> QED
    BY <2>1, <2>2, <2>3 DEF TypeInv
<1>23. ASSUME NEW t \in Callers, AcceptCmd(t) PROVE TypeInv'
  <2> DEFINE i == Cardinality(Issued) + 1
  <2>1. /\ i \in Ids \ Issued
        /\ Cardinality(Issued) \in Nat
        /\ Cardinality(Asking \ {t}) = Cardinality(Asking) - 1
        /\ Cardinality(Asking) \in Nat
    BY <1>23, NextNumber DEF TypeInv, AcceptCmd, Goto
  <2>2. /\ pc' = [pc EXCEPT ![t] = "accepted"]
        /\ svc' = [svc EXCEPT !.isAsync = call[t].async, !.callingThread = t,
                              !.response = i, !.inProgress = TRUE,
                              !.cmdLock = Nobody]
        /\ call' = [call EXCEPT ![t].id = i]
        /\ owner' = [owner EXCEPT ![i] = t]
        /\ UNCHANGED <<events, reading, socket, called, failed, unspent>>
    BY <1>23 DEF AcceptCmd, Goto
  <2> HIDE DEF i
  <2>3. TypeOK'
    <3>1. svc' \in Service
      BY <2>1, <2>2 DEF TypeInv, TypeOK, Service
    <3>2. pc' \in [Callers -> Steps] /\ owner' \in [Ids -> Callers \cup {Nobody}]
      BY <2>1, <2>2 DEF TypeInv, TypeOK, Steps, Outside
    <3>3. call' \in [Callers -> Calls]
      BY <1>23, <2>1, <2>2, CallsType, CallFields DEF TypeInv
    <3> QED
      BY <2>2, <3>1, <3>2, <3>3 DEF TypeInv, TypeOK, Calls, reading, socket, unspent
  <2>4. Numbered'
    <3>1. Asking' = Asking \ {t}
      BY <2>2 DEF TypeInv, TypeOK, Asking
    <3>2. Issued' = Issued \cup {i}
      BY <2>1, <2>2, CommandAssumption, SMTT(30) DEF TypeInv, TypeOK, Issued
    <3>3. IsFiniteSet(Issued)
      <4>1. IsFiniteSet(Ids) /\ Issued \subseteq Ids
        BY CommandAssumption, FS_Interval DEF Ids, Issued
      <4> QED
        BY <4>1, FS_Subset
    <3>4. Cardinality(Issued') = i
      BY <2>1, <3>2, <3>3, FS_AddElement DEF i
    <3>5. Issued' = 1..i
      BY <2>1, <3>2 DEF TypeInv, Numbered, i
    <3>6. i + Cardinality(Asking') <= MaxCommands
      BY <2>1, <3>1, CommandAssumption DEF TypeInv, Numbered, i
    <3> QED
      BY <3>4, <3>5, <3>6 DEF Numbered
  <2>5. Known'
    BY <2>1, <2>2 DEF TypeInv, TypeOK, Service, Known, Sender, reading
  <2> QED
    BY <2>3, <2>4, <2>5 DEF TypeInv
<1>24. CASE UNCHANGED vars
  <2>1. TypeOK'
    BY <1>24 DEF TypeInv, TypeOK, vars, callers, reading, socket, history, unspent
  <2>2. Numbered'
    BY <1>24 DEF TypeInv, Numbered, Issued, Asking, vars, history
  <2>3. Known'
    BY <1>24 DEF TypeInv, Known, Sender, vars, callers, reading
  <2> QED
    BY <2>1, <2>2, <2>3 DEF TypeInv
<1> QED
  BY <1>1, <1>2, <1>3, <1>4, <1>5, <1>6, <1>7, <1>8, <1>9, <1>10, <1>11, <1>12, <1>13, <1>14, <1>15, <1>16, <1>17, <1>18, <1>19, <1>20, <1>21, <1>22, <1>23, <1>24 DEF Next, Proceed, Reader, Manager

\* The fields, locks and queues of the service have their types: the reader
\* never adds to or dispatches a response that is not there.
THEOREM TypeCorrect == Spec => []TypeOK
<1>1. TypeInv => TypeOK
  BY DEF TypeInv
<1> QED
  BY <1>1, TypeInit, TypeStep, PTL DEF Spec

-----------------------------------------------------------------------------
(***************************************************************************)
(* Proofs that the manager never has two commands to answer and that every *)
(* message of an answer reaches the command it answers, although messages  *)
(* do not say which that is.                                               *)
(*                                                                         *)
(* mCmdInProgress is cleared in three places, by three kinds of threads.   *)
(* The invariant says that, while the reader listens, a command in         *)
(* progress is in one stage only: with its sender, with the manager, on    *)
(* its way back, with the reader, or with the thread that runs its         *)
(* callback; and that whoever clears the flag is the only stage there is.  *)
(* Once the manager is gone this fails: the reader tells of the end while  *)
(* a thread may still be sending.  What is left then is that nothing is    *)
(* sent, and that the reader reads no more answers.                        *)
(***************************************************************************)

\* A caller with a callback to run, or running it.
Finisher(t) ==
  \/ pc[t] \in {"notified", "handling", "handled"}
  \/ pc[t] \in {"posting", "writing"} /\ call[t].back = "handling"

\* The reader has not seen the end of the socket.
Listening ==
  \/ reader = "reading"
  \/ reader \in {"adding", "notifying", "dispatching"} /\ held.of # 0

\* A command that needs a response is on its way to the manager or with it.
Asked == \E n \in DOMAIN toManager : toManager[n] # 0

\* No command is with the manager, on its way back or with the reader.
Quiet == ~Asked /\ toWorker = <<>> /\ reader \notin {"adding", "notifying"}

\* mCmdLock: the second check still holds when the command is accepted.
Exclusive ==
  \A t \in Callers : pc[t] = "locked" => svc.cmdLock = t /\ ~svc.inProgress

Senders ==
  \A t \in Callers : Sender(t) =>
    /\ svc.inProgress /\ call[t].id = svc.response /\ Quiet
    /\ \A u \in Callers : ~Finisher(u) /\ (Sender(u) => u = t)

Finishers ==
  \A t \in Callers : Finisher(t) =>
    /\ svc.inProgress /\ Quiet
    /\ \A u \in Callers : Finisher(u) => u = t

Requests ==
  \A m \in DOMAIN toManager : toManager[m] # 0 =>
    /\ svc.inProgress /\ toManager[m] = svc.response
    /\ \A n \in DOMAIN toManager : toManager[n] # 0 => n = m
    /\ \A n \in DOMAIN toWorker : toWorker[n].more
    /\ reader # "notifying" /\ (reader = "adding" => held.more)

Answers ==
  \A n \in DOMAIN toWorker :
    /\ svc.inProgress /\ toWorker[n].of = svc.response
    /\ ~toWorker[n].more => n = Len(toWorker)
    /\ reader # "notifying" /\ (reader = "adding" => held.more)

InHand ==
  /\ reader \in {"adding", "notifying"} => svc.inProgress
  /\ reader = "adding" => held.of = svc.response

OneStage == Senders /\ Finishers /\ Requests /\ Answers /\ InHand

\* The end of the manager.
Closing ==
  /\ ~open => toManager = <<>>
  /\ ~Listening => ~open
  /\ held.of = 0 => ~held.more
  /\ \A m, n \in DOMAIN toWorker : toWorker[m].of = toWorker[n].of

ServiceInv == Exclusive /\ Closing /\ (Listening => OneStage)

-----------------------------------------------------------------------------
LEMMA ServiceInit == Init => ServiceInv
<1> SUFFICES ASSUME Init PROVE ServiceInv
  OBVIOUS
<1> QED
  BY CommandAssumption
  DEF Init, NoAnswer, ServiceInv, Exclusive, Closing, Listening, OneStage, Senders,
      Sender, Finishers, Finisher, Requests, Answers, InHand

\* A step that moves nothing from one stage to another.
LEMMA Undisturbed ==
  ASSUME TypeOK, ServiceInv,
         UNCHANGED <<toManager, toWorker, reader, held, open>>,
         svc'.inProgress = svc.inProgress, svc'.response = svc.response,
         \A t \in Callers : Sender(t)' => Sender(t) /\ call'[t].id = call[t].id,
         \A t \in Callers : Finisher(t)' => Finisher(t)
  PROVE  Closing' /\ (Listening => OneStage)'
<1>1. Closing' /\ (Listening' <=> Listening) /\ (Quiet' <=> Quiet)
  BY DEF ServiceInv, Closing, Listening, Quiet, Asked
<1> SUFFICES ASSUME Listening PROVE OneStage'
  BY <1>1
<1> HIDE DEF Sender, Finisher
<1>2. Senders' /\ Finishers'
  BY <1>1 DEF ServiceInv, OneStage, Senders, Finishers
<1>3. Requests' /\ Answers' /\ InHand'
  BY DEF ServiceInv, OneStage, Requests, Answers, InHand
<1> QED
  BY <1>2, <1>3 DEF OneStage

\* mCmdLock is taken and given up by its holder only.
LEMMA SameLock ==
  ASSUME Exclusive, svc'.cmdLock = svc.cmdLock, svc'.inProgress => svc.inProgress,
         \A t \in Callers : pc'[t] = "locked" => pc[t] = "locked"
  PROVE  Exclusive'
BY DEF Exclusive

LEMMA BasicCmdCheckStep ==
  ASSUME TypeOK, ServiceInv, NEW t \in Callers, BasicCmdCheck(t)
  PROVE  ServiceInv'
<1>1. Exclusive'
  BY SameLock DEF ServiceInv, TypeOK, Service, BasicCmdCheck, Goto, reading, socket
<1>2. /\ UNCHANGED <<toManager, toWorker, reader, held, open>>
      /\ svc'.inProgress = svc.inProgress /\ svc'.response = svc.response
  BY DEF TypeOK, Service, BasicCmdCheck, Goto, reading, socket
<1>3. \A u \in Callers : Sender(u)' => Sender(u) /\ call'[u].id = call[u].id
  BY DEF TypeOK, Sender, BasicCmdCheck, Goto, reading, socket
<1>4. \A u \in Callers : Finisher(u)' => Finisher(u)
  BY DEF TypeOK, Finisher, BasicCmdCheck, Goto, reading, socket
<1> QED
  BY <1>1, <1>2, <1>3, <1>4, Undisturbed DEF ServiceInv

LEMMA LockToMgrStep ==
  ASSUME TypeOK, ServiceInv, NEW t \in Callers, LockToMgr(t)
  PROVE  ServiceInv'
<1>1. Exclusive'
  BY SameLock DEF ServiceInv, TypeOK, Service, LockToMgr, Goto, Inside, callers, reading, socket
<1>2. /\ UNCHANGED <<toManager, toWorker, reader, held, open>>
      /\ svc'.inProgress = svc.inProgress /\ svc'.response = svc.response
  BY DEF TypeOK, Service, LockToMgr, Goto, Inside, callers, reading, socket
<1>3. \A u \in Callers : Sender(u)' => Sender(u) /\ call'[u].id = call[u].id
  BY DEF TypeOK, Sender, LockToMgr, Goto, Inside, callers, reading, socket
<1>4. \A u \in Callers : Finisher(u)' => Finisher(u)
  BY DEF TypeOK, Finisher, LockToMgr, Goto, Inside, callers, reading, socket
<1> QED
  BY <1>1, <1>2, <1>3, <1>4, Undisturbed DEF ServiceInv

LEMMA EnterMonitorStep ==
  ASSUME TypeOK, ServiceInv, NEW t \in Callers, EnterMonitor(t)
  PROVE  ServiceInv'
<1>1. Exclusive'
  BY SameLock DEF ServiceInv, TypeOK, Service, EnterMonitor, Goto, Inside, callers, reading, socket
<1>2. /\ UNCHANGED <<toManager, toWorker, reader, held, open>>
      /\ svc'.inProgress = svc.inProgress /\ svc'.response = svc.response
  BY DEF TypeOK, Service, EnterMonitor, Goto, Inside, callers, reading, socket
<1>3. \A u \in Callers : Sender(u)' => Sender(u) /\ call'[u].id = call[u].id
  BY DEF TypeOK, Sender, EnterMonitor, Goto, Inside, callers, reading, socket
<1>4. \A u \in Callers : Finisher(u)' => Finisher(u)
  BY DEF TypeOK, Finisher, EnterMonitor, Goto, Inside, callers, reading, socket
<1> QED
  BY <1>1, <1>2, <1>3, <1>4, Undisturbed DEF ServiceInv

LEMMA WaitStep ==
  ASSUME TypeOK, ServiceInv, NEW t \in Callers, Wait(t)
  PROVE  ServiceInv'
<1>1. Exclusive'
  BY SameLock DEF ServiceInv, TypeOK, Service, Wait, Goto, Inside, callers, reading, socket
<1>2. /\ UNCHANGED <<toManager, toWorker, reader, held, open>>
      /\ svc'.inProgress = svc.inProgress /\ svc'.response = svc.response
  BY DEF TypeOK, Service, Wait, Goto, Inside, callers, reading, socket
<1>3. \A u \in Callers : Sender(u)' => Sender(u) /\ call'[u].id = call[u].id
  BY DEF TypeOK, Sender, Wait, Goto, Inside, callers, reading, socket
<1>4. \A u \in Callers : Finisher(u)' => Finisher(u)
  BY DEF TypeOK, Finisher, Wait, Goto, Inside, callers, reading, socket
<1> QED
  BY <1>1, <1>2, <1>3, <1>4, Undisturbed DEF ServiceInv

LEMMA WakeUpStep ==
  ASSUME TypeOK, ServiceInv, NEW t \in Callers, WakeUp(t)
  PROVE  ServiceInv'
<1>1. Exclusive'
  BY SameLock DEF ServiceInv, TypeOK, Service, WakeUp, Goto, callers, reading, socket
<1>2. /\ UNCHANGED <<toManager, toWorker, reader, held, open>>
      /\ svc'.inProgress = svc.inProgress /\ svc'.response = svc.response
  BY DEF TypeOK, Service, WakeUp, Goto, callers, reading, socket
<1>3. \A u \in Callers : Sender(u)' => Sender(u) /\ call'[u].id = call[u].id
  BY DEF TypeOK, Sender, WakeUp, Goto, callers, reading, socket
<1>4. \A u \in Callers : Finisher(u)' => Finisher(u)
  BY DEF TypeOK, Finisher, WakeUp, Goto, callers, reading, socket
<1> QED
  BY <1>1, <1>2, <1>3, <1>4, Undisturbed DEF ServiceInv

LEMMA HandledStep ==
  ASSUME TypeOK, ServiceInv, NEW t \in Callers, Handled(t)
  PROVE  ServiceInv'
<1>1. Exclusive'
  BY SameLock DEF ServiceInv, TypeOK, Service, Handled, Goto, Inside, callers, reading, socket
<1>2. /\ UNCHANGED <<toManager, toWorker, reader, held, open>>
      /\ svc'.inProgress = svc.inProgress /\ svc'.response = svc.response
  BY DEF TypeOK, Service, Handled, Goto, Inside, callers, reading, socket
<1>3. \A u \in Callers : Sender(u)' => Sender(u) /\ call'[u].id = call[u].id
  BY DEF TypeOK, Sender, Handled, Goto, Inside, callers, reading, socket
<1>4. \A u \in Callers : Finisher(u)' => Finisher(u)
  BY DEF TypeOK, Finisher, Handled, Goto, Inside, callers, reading, socket
<1> QED
  BY <1>1, <1>2, <1>3, <1>4, Undisturbed DEF ServiceInv

LEMMA ExecNoRespCmdStep ==
  ASSUME TypeOK, ServiceInv, NEW t \in Callers, ExecNoRespCmd(t)
  PROVE  ServiceInv'
<1>1. Exclusive'
  BY SameLock DEF ServiceInv, TypeOK, Service, ExecNoRespCmd, reading, socket
<1>2. /\ UNCHANGED <<toManager, toWorker, reader, held, open>>
      /\ svc'.inProgress = svc.inProgress /\ svc'.response = svc.response
  BY DEF TypeOK, Service, ExecNoRespCmd, reading, socket
<1>3. \A u \in Callers : Sender(u)' => Sender(u) /\ call'[u].id = call[u].id
  BY DEF TypeOK, Sender, ExecNoRespCmd, reading, socket
<1>4. \A u \in Callers : Finisher(u)' => Finisher(u)
  BY DEF TypeOK, Finisher, ExecNoRespCmd, reading, socket
<1> QED
  BY <1>1, <1>2, <1>3, <1>4, Undisturbed DEF ServiceInv

LEMMA LockToPostStep ==
  ASSUME TypeOK, ServiceInv, NEW t \in Callers, LockToPost(t)
  PROVE  ServiceInv'
<1>1. Exclusive'
  BY SameLock DEF ServiceInv, TypeOK, Service, LockToPost, Goto, Inside, callers, reading, socket
<1>2. /\ UNCHANGED <<toManager, toWorker, reader, held, open>>
      /\ svc'.inProgress = svc.inProgress /\ svc'.response = svc.response
  BY DEF TypeOK, Service, LockToPost, Goto, Inside, callers, reading, socket
<1>3. \A u \in Callers : Sender(u)' => Sender(u) /\ call'[u].id = call[u].id
  BY DEF TypeOK, Sender, LockToPost, Goto, Inside, callers, reading, socket
<1>4. \A u \in Callers : Finisher(u)' => Finisher(u)
  BY DEF TypeOK, Finisher, LockToPost, Goto, Inside, callers, reading, socket
<1> QED
  BY <1>1, <1>2, <1>3, <1>4, Undisturbed DEF ServiceInv

LEMMA RunCallbackStep ==
  ASSUME TypeOK, ServiceInv, NEW t \in Callers, RunCallback(t)
  PROVE  ServiceInv'
<1>1. Exclusive'
  BY SameLock DEF ServiceInv, TypeOK, Service, RunCallback, reading, socket
<1>2. /\ UNCHANGED <<toManager, toWorker, reader, held, open>>
      /\ svc'.inProgress = svc.inProgress /\ svc'.response = svc.response
  BY DEF TypeOK, Service, RunCallback, reading, socket
<1>3. \A u \in Callers : Sender(u)' => Sender(u) /\ call'[u].id = call[u].id
  BY DEF TypeOK, Sender, RunCallback, reading, socket
<1>4. \A u \in Callers : Finisher(u)' => Finisher(u)
  BY DEF TypeOK, Finisher, RunCallback, reading, socket
<1> QED
  BY <1>1, <1>2, <1>3, <1>4, Undisturbed DEF ServiceInv

LEMMA LockCmdStep ==
  ASSUME TypeOK, ServiceInv, NEW t \in Callers, LockCmd(t)
  PROVE  ServiceInv'
<1>1. Exclusive'
  <2>1. CASE svc.inProgress
    BY <2>1 DEF ServiceInv, Exclusive, TypeOK, LockCmd, Goto
  <2>2. CASE ~svc.inProgress
    <3>1. /\ svc.cmdLock = Nobody /\ svc'.cmdLock = t /\ ~svc'.inProgress
          /\ pc' = [pc EXCEPT ![t] = "locked"]
      BY <2>2 DEF TypeOK, Service, LockCmd, Goto
    <3> QED
      BY <3>1, CommandAssumption DEF ServiceInv, Exclusive, TypeOK
  <2> QED
    BY <2>1, <2>2
<1>2. /\ UNCHANGED <<toManager, toWorker, reader, held, open>>
      /\ svc'.inProgress = svc.inProgress /\ svc'.response = svc.response
  BY DEF TypeOK, Service, LockCmd, Inside, reading, socket
<1>3. \A u \in Callers : Sender(u)' => Sender(u) /\ call'[u].id = call[u].id
  BY DEF TypeOK, Sender, LockCmd, Goto, Inside, callers
<1>4. \A u \in Callers : Finisher(u)' => Finisher(u)
  BY DEF TypeOK, Finisher, LockCmd, Goto, Inside, callers
<1> QED
  BY <1>1, <1>2, <1>3, <1>4, Undisturbed DEF ServiceInv

\* The flag is down, so there is no stage: the caller becomes the only one.
LEMMA AcceptCmdStep ==
  ASSUME TypeOK, ServiceInv, NEW t \in Callers, AcceptCmd(t)
  PROVE  ServiceInv'
<1> DEFINE i == Cardinality(Issued) + 1
<1>1. /\ pc[t] = "locked" /\ pc' = [pc EXCEPT ![t] = "accepted"]
      /\ svc'.inProgress /\ svc'.response = i /\ svc'.cmdLock = Nobody
      /\ call' = [call EXCEPT ![t].id = i]
      /\ UNCHANGED <<toManager, toWorker, reader, held, parts, open>>
  BY DEF TypeOK, Service, AcceptCmd, Goto, reading, socket
<1> HIDE DEF i
<1>2. ~svc.inProgress /\ \A u \in Callers : pc[u] = "locked" => u = t
  BY <1>1, CommandAssumption DEF ServiceInv, Exclusive
<1>3. Exclusive'
  BY <1>1, <1>2 DEF Exclusive, TypeOK
<1>4. Closing' /\ (Listening' <=> Listening)
  BY <1>1 DEF ServiceInv, Closing, Listening
<1> SUFFICES ASSUME Listening PROVE OneStage'
  BY <1>3, <1>4 DEF ServiceInv
<1>5. \A u \in Callers : ~Sender(u) /\ ~Finisher(u)
  BY <1>2 DEF ServiceInv, OneStage, Senders, Finishers
<1>6. Quiet
  <2>1. ~Asked
    BY <1>2 DEF ServiceInv, OneStage, Requests, Asked
  <2>2. toWorker = <<>>
    BY <1>2 DEF ServiceInv, OneStage, Answers, TypeOK
  <2> QED
    BY <1>2, <2>1, <2>2 DEF ServiceInv, OneStage, InHand, Quiet
<1>7. Quiet'
  BY <1>1, <1>6 DEF Quiet, Asked
<1>8. \A u \in Callers : ~Finisher(u)' /\ (Sender(u)' => u = t)
  BY <1>1, <1>5 DEF TypeOK, Sender, Finisher
<1>9. Senders' /\ Finishers'
  BY <1>1, <1>7, <1>8 DEF TypeOK, Senders, Finishers
<1>10. Requests' /\ Answers' /\ InHand'
  BY <1>7 DEF Quiet, Asked, Requests, Answers, InHand
<1> QED
  BY <1>9, <1>10 DEF OneStage

\* A command leaves its sender, which was the only stage, for the manager or,
\* when the send fails, for nowhere.
LEMMA SendNeedRespCmdStep ==
  ASSUME TypeOK, ServiceInv, NEW t \in Callers, SendNeedRespCmd(t)
  PROVE  ServiceInv'
<1>1. /\ Sender(t)
      /\ svc'.cmdLock = svc.cmdLock /\ svc'.response = svc.response
      /\ UNCHANGED <<toWorker, reader, held, open, call>>
      /\ \A u \in Callers : u # t => pc'[u] = pc[u]
      /\ ~Sender(t)' /\ ~Finisher(t)' /\ pc'[t] # "locked"
  <2>1. /\ pc[t] = "sending"
        /\ pc' = [pc EXCEPT ![t] = "sent"] \/ pc' = [pc EXCEPT ![t] = "idle"]
        /\ UNCHANGED <<toWorker, reader, held, open, call>>
    BY DEF SendNeedRespCmd, Goto, callers, reading
  <2>2. svc'.cmdLock = svc.cmdLock /\ svc'.response = svc.response
    BY DEF TypeOK, Service, SendNeedRespCmd
  <2> QED
    BY <2>1, <2>2 DEF TypeOK, Sender, Finisher
<1>2. \/ /\ open /\ toManager' = Append(toManager, call[t].id)
         /\ svc'.inProgress = svc.inProgress
      \/ /\ ~open /\ toManager' = toManager /\ ~svc'.inProgress
  BY DEF TypeOK, Service, SendNeedRespCmd
<1>3. Exclusive'
  BY <1>1, <1>2 DEF ServiceInv, Exclusive, TypeOK
<1>4. Closing' /\ (Listening' <=> Listening)
  BY <1>1, <1>2 DEF ServiceInv, Closing, Listening
<1> SUFFICES ASSUME Listening PROVE OneStage'
  BY <1>3, <1>4 DEF ServiceInv
<1>5. /\ svc.inProgress /\ call[t].id = svc.response /\ Quiet
      /\ \A u \in Callers : ~Finisher(u) /\ (Sender(u) => u = t)
  BY <1>1 DEF ServiceInv, OneStage, Senders
<1>6. \A u \in Callers : ~Sender(u)' /\ ~Finisher(u)'
  BY <1>1, <1>5 DEF Sender, Finisher
<1>7. Senders' /\ Finishers'
  BY <1>6 DEF Senders, Finishers
<1>8. toWorker' = <<>> /\ reader' \notin {"adding", "notifying"}
  BY <1>1, <1>5 DEF Quiet
<1>9. Answers' /\ InHand'
  BY <1>8 DEF Answers, InHand
<1>10. Requests'
  <2>1. CASE ~open
    BY <1>2, <1>5, <2>1 DEF Requests, Quiet, Asked
  <2>2. CASE open
    <3>1. /\ toManager \in Seq({0} \cup Ids) /\ call[t].id \in {0} \cup Ids
      BY DEF TypeOK
    <3>2. /\ toManager' = Append(toManager, call[t].id)
          /\ svc'.inProgress
      BY <1>2, <1>5, <2>2
    <3>3. /\ DOMAIN toManager' = 1..Len(toManager) + 1
          /\ DOMAIN toManager = 1..Len(toManager)
          /\ Len(toManager) \in Nat
          /\ \A n \in 1..Len(toManager) : toManager'[n] = toManager[n]
          /\ toManager'[Len(toManager) + 1] = svc.response
      BY <1>5, <3>1, <3>2, AppendElements
    <3>4. \A n \in DOMAIN toManager' : toManager'[n] # 0 => n = Len(toManager) + 1
      BY <1>5, <3>3 DEF Quiet, Asked
    <3> QED
      BY <1>1, <1>8, <3>2, <3>3, <3>4 DEF Requests
  <2> QED
    BY <2>1, <2>2
<1> QED
  BY <1>7, <1>9, <1>10 DEF OneStage

\* The callback of the command has returned; that was the only stage.
LEMMA CompleteStep ==
  ASSUME TypeOK, ServiceInv, NEW t \in Callers, Complete(t)
  PROVE  ServiceInv'
<1>1. /\ Finisher(t)
      /\ svc'.cmdLock = svc.cmdLock /\ svc'.response = svc.response
      /\ ~svc'.inProgress
      /\ UNCHANGED <<toManager, toWorker, reader, held, open, call>>
      /\ pc' = [pc EXCEPT ![t] = "idle"]
  BY DEF TypeOK, Service, Complete, Goto, Inside, callers, reading, socket, Finisher
<1>2. Exclusive'
  BY <1>1, SameLock DEF ServiceInv, TypeOK
<1>3. Closing' /\ (Listening' <=> Listening) /\ (Quiet' <=> Quiet)
  BY <1>1 DEF ServiceInv, Closing, Listening, Quiet, Asked
<1> SUFFICES ASSUME Listening PROVE OneStage'
  BY <1>2, <1>3 DEF ServiceInv
<1>4. Quiet /\ \A u \in Callers : Finisher(u) => u = t
  BY <1>1 DEF ServiceInv, OneStage, Finishers
<1>5. \A u \in Callers : ~Sender(u)
  BY <1>1 DEF ServiceInv, OneStage, Senders
<1>6. \A u \in Callers : ~Sender(u)' /\ ~Finisher(u)'
  BY <1>1, <1>4, <1>5 DEF TypeOK, Sender, Finisher
<1>7. Senders' /\ Finishers'
  BY <1>6 DEF Senders, Finishers
<1>8. Requests' /\ Answers' /\ InHand'
  BY <1>3, <1>4 DEF Quiet, Asked, Requests, Answers, InHand
<1> QED
  BY <1>7, <1>8 DEF OneStage

\* A command without a response is no stage.
LEMMA SendNoRespCmdStep ==
  ASSUME TypeOK, ServiceInv, NEW t \in Callers, SendNoRespCmd(t)
  PROVE  ServiceInv'
<1>1. /\ svc'.cmdLock = svc.cmdLock /\ svc'.response = svc.response
      /\ svc'.inProgress = svc.inProgress
      /\ UNCHANGED <<toWorker, reader, held, open, call>>
      /\ pc[t] = "writing" /\ pc' = [pc EXCEPT ![t] = call[t].back]
      /\ call[t].back \in {"idle", "handling"}
  BY DEF TypeOK, Service, SendNoRespCmd, Goto, callers, reading
<1>2. \/ ~open /\ toManager' = toManager
      \/ open /\ toManager' = Append(toManager, 0)
  BY DEF SendNoRespCmd
<1>3. /\ toManager \in Seq({0} \cup Ids) /\ Len(toManager) \in Nat
      /\ DOMAIN toManager = 1..Len(toManager)
  BY DEF TypeOK
<1>4. \/ toManager' = toManager
      \/ /\ DOMAIN toManager' = 1..Len(toManager) + 1
         /\ \A n \in 1..Len(toManager) : toManager'[n] = toManager[n]
         /\ toManager'[Len(toManager) + 1] = 0
  BY <1>2, <1>3, AppendElements
<1>5. \A n \in DOMAIN toManager' : toManager'[n] # 0 =>
         n \in DOMAIN toManager /\ toManager'[n] = toManager[n]
  BY <1>3, <1>4
<1>6. Exclusive'
  BY <1>1, SameLock DEF ServiceInv, TypeOK
<1>7. Closing' /\ (Listening' <=> Listening)
  BY <1>1, <1>2 DEF ServiceInv, Closing, Listening
<1> SUFFICES ASSUME Listening PROVE OneStage'
  BY <1>6, <1>7 DEF ServiceInv
<1>8. Quiet => Quiet'
  BY <1>1, <1>5 DEF Quiet, Asked
<1>9. \A u \in Callers : (Sender(u)' => Sender(u)) /\ (Finisher(u)' => Finisher(u))
  BY <1>1 DEF TypeOK, Sender, Finisher
<1>10. Senders' /\ Finishers'
  BY <1>1, <1>8, <1>9 DEF ServiceInv, OneStage, Senders, Finishers
<1>11. Requests' /\ Answers' /\ InHand'
  BY <1>1, <1>5 DEF ServiceInv, OneStage, Requests, Answers, InHand
<1> QED
  BY <1>10, <1>11 DEF OneStage

-----------------------------------------------------------------------------
(* The reader.                                                             *)

\* A message of an answer goes from the socket to the reader.
LEMMA ReadAnswerStep ==
  ASSUME TypeOK, ServiceInv, ReadAnswer
  PROVE  ServiceInv'
<1>1. /\ reader = "reading" /\ toWorker # <<>>
      /\ UNCHANGED <<svc, pc, call, toManager, open>>
      /\ toWorker' = Tail(toWorker)
      /\ reader' = IF svc.inProgress THEN "adding" ELSE "gone"
  BY DEF ReadAnswer, callers
<1>2. /\ toWorker \in Seq([of : Ids, more : BOOLEAN])
      /\ Listening
  BY <1>1 DEF TypeOK, Listening
<1>3. /\ 1 \in DOMAIN toWorker
      /\ Len(toWorker) \in Nat \ {0}
      /\ Len(toWorker') = Len(toWorker) - 1
      /\ DOMAIN toWorker' = 1..Len(toWorker) - 1
      /\ \A n \in DOMAIN toWorker' :
           n + 1 \in DOMAIN toWorker /\ toWorker'[n] = toWorker[n + 1]
  BY <1>1, <1>2, TailElements
<1>4. /\ held'.of = toWorker[1].of /\ held'.more = toWorker[1].more
      /\ toWorker[1].of \in Ids
  <2>1. Head(toWorker) \in [of : Ids, more : BOOLEAN] /\ Head(toWorker) = toWorker[1]
    BY <1>1, <1>2, TailElements
  <2> QED
    BY <2>1 DEF ReadAnswer, NoAnswer
<1>5. /\ svc.inProgress /\ toWorker[1].of = svc.response
      /\ ~toWorker[1].more => Len(toWorker) = 1
  BY <1>2, <1>3 DEF ServiceInv, OneStage, Answers
<1>6. Exclusive'
  BY <1>1 DEF ServiceInv, Exclusive
<1>7. held'.of # 0
  BY <1>4, CommandAssumption DEF Ids
<1>8. Closing'
  <2>1. Listening'
    BY <1>1, <1>5, <1>7 DEF Listening
  <2>2. \A m, n \in DOMAIN toWorker' : toWorker'[m].of = toWorker'[n].of
    BY <1>3 DEF ServiceInv, Closing
  <2> QED
    BY <1>1, <1>7, <2>1, <2>2 DEF ServiceInv, Closing
<1>9. \A u \in Callers : ~Sender(u)' /\ ~Finisher(u)'
  BY <1>1, <1>2 DEF ServiceInv, OneStage, Senders, Finishers, Quiet, Sender, Finisher
<1>10. Senders' /\ Finishers'
  BY <1>9 DEF Senders, Finishers
<1>11. InHand'
  BY <1>1, <1>4, <1>5 DEF InHand
<1>12. Requests'
  <2>1. Asked => toWorker[1].more
    BY <1>2, <1>3 DEF ServiceInv, OneStage, Requests, Asked
  <2>2. \A n \in DOMAIN toWorker' : Asked => toWorker'[n].more
    BY <1>2, <1>3 DEF ServiceInv, OneStage, Requests, Asked
  <2> QED
    BY <1>1, <1>2, <1>4, <1>5, <2>1, <2>2
    DEF ServiceInv, OneStage, Requests, Asked
<1>13. Answers'
  <2>1. \A n \in DOMAIN toWorker' : held'.more
    BY <1>3, <1>4, <1>5
  <2>2. \A n \in DOMAIN toWorker' :
          /\ toWorker'[n].of = svc.response
          /\ ~toWorker'[n].more => n = Len(toWorker')
    BY <1>2, <1>3 DEF ServiceInv, OneStage, Answers
  <2> QED
    BY <1>1, <1>5, <2>1, <2>2 DEF Answers
<1> QED
  BY <1>6, <1>8, <1>10, <1>11, <1>12, <1>13 DEF ServiceInv, OneStage

\* The manager is gone: from here on the reader does not listen.
LEMMA ReadEndStep ==
  ASSUME TypeOK, ServiceInv, ReadEnd \/ NotifyPossibleCmdFailure
  PROVE  ServiceInv'
<1>1. /\ UNCHANGED <<svc, pc, toManager, toWorker, open>>
      /\ ~open
      /\ ~Listening'
      /\ held' = held \/ ~held'.more
  BY DEF ServiceInv, Closing, Listening, ReadEnd, NotifyPossibleCmdFailure, NoAnswer,
         socket
<1>2. Exclusive' /\ Closing'
  BY <1>1 DEF ServiceInv, Exclusive, Closing
<1> QED
  BY <1>1, <1>2 DEF ServiceInv

\* The last message of an answer ends an asynchronous command.
LEMMA SetCmdRespDataStep ==
  ASSUME TypeOK, ServiceInv, SetCmdRespData
  PROVE  ServiceInv'
<1>1. /\ reader = "adding"
      /\ UNCHANGED <<pc, call, toManager, toWorker, open>>
      /\ held'.of = held.of /\ held'.more = held.more
      /\ svc'.cmdLock = svc.cmdLock /\ svc'.response = svc.response
      /\ \/ held.more /\ reader' = "reading" /\ svc' = svc
         \/ ~held.more /\ reader' = "dispatching" /\ ~svc'.inProgress
         \/ ~held.more /\ reader' = "notifying" /\ svc' = svc
  BY DEF TypeOK, Service, SetCmdRespData, callers, socket
<1>2. Exclusive'
  BY <1>1 DEF ServiceInv, Exclusive
<1>3. Closing' /\ (Listening' <=> Listening)
  BY <1>1 DEF ServiceInv, Closing, Listening
<1> SUFFICES ASSUME Listening PROVE OneStage'
  BY <1>2, <1>3 DEF ServiceInv
<1>4. /\ svc.inProgress /\ held.of = svc.response
      /\ \A u \in Callers : ~Sender(u) /\ ~Finisher(u)
  BY <1>1 DEF ServiceInv, OneStage, InHand, Senders, Finishers, Quiet
<1>5. \A u \in Callers : ~Sender(u)' /\ ~Finisher(u)'
  BY <1>1, <1>4 DEF Sender, Finisher
<1>6. Senders' /\ Finishers'
  BY <1>5 DEF Senders, Finishers
<1>7. InHand'
  BY <1>1, <1>4 DEF InHand
<1>8. Requests'
  BY <1>1, <1>4 DEF ServiceInv, OneStage, Requests
<1>9. Answers'
  BY <1>1, <1>4 DEF ServiceInv, OneStage, Answers
<1> QED
  BY <1>6, <1>7, <1>8, <1>9 DEF OneStage

\* The command of the callback has ended before the callback is dispatched.
LEMMA DispatchStep ==
  ASSUME TypeOK, ServiceInv, Dispatch
  PROVE  ServiceInv'
<1>1. /\ reader = "dispatching"
      /\ UNCHANGED <<svc, pc, call, held, toManager, toWorker, open>>
      /\ reader' = IF held.of = 0 THEN "gone" ELSE "reading"
  BY DEF Dispatch, Onward, socket
<1>2. Exclusive'
  BY <1>1 DEF ServiceInv, Exclusive
<1>3. Closing' /\ (Listening' <=> Listening) /\ (Quiet' <=> Quiet)
  BY <1>1 DEF ServiceInv, Closing, Listening, Quiet, Asked
<1> SUFFICES ASSUME Listening PROVE OneStage'
  BY <1>2, <1>3 DEF ServiceInv
<1>4. \A u \in Callers : (Sender(u)' <=> Sender(u)) /\ (Finisher(u)' <=> Finisher(u))
  BY <1>1 DEF Sender, Finisher
<1>5. Senders' /\ Finishers'
  BY <1>1, <1>3, <1>4 DEF ServiceInv, OneStage, Senders, Finishers
<1>6. Requests' /\ Answers' /\ InHand'
  BY <1>1, <1>3 DEF ServiceInv, OneStage, Requests, Answers, InHand, Listening
<1> QED
  BY <1>5, <1>6 DEF OneStage

\* The command goes from the reader to the thread it wakes up.
LEMMA NotifyStep ==
  ASSUME TypeOK, ServiceInv, Notify
  PROVE  ServiceInv'
<1>1. /\ reader = "notifying"
      /\ UNCHANGED <<svc, call, held, toManager, toWorker, open>>
      /\ reader' = IF held.of = 0 THEN "gone" ELSE "reading"
      /\ \/ pc' = pc
         \/ \E t \in Callers : pc' = [pc EXCEPT ![t] = "notified"]
  BY DEF Notify, Onward, Waiting, Goto, callers, socket
<1>2. Exclusive'
  BY <1>1 DEF ServiceInv, Exclusive, TypeOK
<1>3. Closing' /\ (Listening' <=> Listening)
  BY <1>1 DEF ServiceInv, Closing, Listening
<1> SUFFICES ASSUME Listening PROVE OneStage'
  BY <1>2, <1>3 DEF ServiceInv
<1>4. /\ svc.inProgress
      /\ \A u \in Callers : ~Sender(u) /\ ~Finisher(u)
  BY <1>1 DEF ServiceInv, OneStage, InHand, Senders, Finishers, Quiet
<1>5. ~Asked /\ toWorker = <<>>
  <2>1. ~Asked
    BY <1>1 DEF ServiceInv, OneStage, Requests, Asked
  <2>2. DOMAIN toWorker = {}
    BY <1>1 DEF ServiceInv, OneStage, Answers
  <2> QED
    BY <2>1, <2>2 DEF TypeOK
<1>6. Quiet'
  BY <1>1, <1>5 DEF Quiet, Asked
<1>7. \A u \in Callers : ~Sender(u)'
  BY <1>1, <1>4 DEF TypeOK, Sender
<1>8. \A u, v \in Callers : Finisher(u)' /\ Finisher(v)' => u = v
  BY <1>1, <1>4 DEF TypeOK, Finisher
<1>9. Senders' /\ Finishers'
  BY <1>1, <1>4, <1>6, <1>7, <1>8 DEF Senders, Finishers
<1>10. Requests' /\ Answers' /\ InHand'
  BY <1>6 DEF Quiet, Asked, Requests, Answers, InHand
<1> QED
  BY <1>9, <1>10 DEF OneStage

-----------------------------------------------------------------------------
(* The manager.                                                            *)

LEMMA TakeNoRespCmdStep ==
  ASSUME TypeOK, ServiceInv, TakeNoRespCmd
  PROVE  ServiceInv'
<1>1. /\ open /\ toManager # <<>> /\ toManager' = Tail(toManager)
      /\ toManager \in Seq({0} \cup Ids)
      /\ UNCHANGED <<svc, pc, call, reader, held, toWorker, open>>
  BY DEF TypeOK, TakeNoRespCmd, callers, reading
<1>2. /\ Len(toManager) \in Nat \ {0}
      /\ DOMAIN toManager' = 1..Len(toManager) - 1
      /\ \A n \in DOMAIN toManager' :
           n + 1 \in DOMAIN toManager /\ toManager'[n] = toManager[n + 1]
  BY <1>1, TailElements
<1>3. Exclusive'
  BY <1>1 DEF ServiceInv, Exclusive
<1>4. Closing' /\ (Listening' <=> Listening)
  BY <1>1 DEF ServiceInv, Closing, Listening
<1> SUFFICES ASSUME Listening PROVE OneStage'
  BY <1>3, <1>4 DEF ServiceInv
<1>5. Quiet => Quiet'
  BY <1>1, <1>2 DEF Quiet, Asked
<1>6. \A u \in Callers : (Sender(u)' <=> Sender(u)) /\ (Finisher(u)' <=> Finisher(u))
  BY <1>1 DEF Sender, Finisher
<1>7. Senders' /\ Finishers'
  BY <1>1, <1>5, <1>6 DEF ServiceInv, OneStage, Senders, Finishers
<1>8. Requests'
  <2> SUFFICES ASSUME NEW m \in DOMAIN toManager', toManager'[m] # 0
               PROVE  /\ svc.inProgress /\ toManager'[m] = svc.response
                      /\ \A n \in DOMAIN toManager' : toManager'[n] # 0 => n = m
                      /\ \A n \in DOMAIN toWorker : toWorker[n].more
                      /\ reader # "notifying" /\ (reader = "adding" => held.more)
    BY <1>1 DEF Requests
  <2>1. m + 1 \in DOMAIN toManager /\ toManager[m + 1] # 0 /\ toManager'[m] = toManager[m + 1]
    BY <1>2
  <2>2. \A n \in DOMAIN toManager' : toManager'[n] # 0 => n + 1 = m + 1
    BY <1>2, <2>1 DEF ServiceInv, OneStage, Requests
  <2>3. m \in Int /\ \A n \in DOMAIN toManager' : n \in Int
    BY <1>2
  <2> QED
    BY <2>1, <2>2, <2>3 DEF ServiceInv, OneStage, Requests
<1>9. Answers' /\ InHand'
  BY <1>1 DEF ServiceInv, OneStage, Answers, InHand
<1> QED
  BY <1>7, <1>8, <1>9 DEF OneStage

\* A message of the answer goes to the worker; with the last one the command
\* is no longer with the manager.
LEMMA AnswerStep ==
  ASSUME TypeOK, ServiceInv, Answer
  PROVE  ServiceInv'
<1>1. /\ open /\ toManager # <<>> /\ Head(toManager) # 0
      /\ toManager \in Seq({0} \cup Ids)
      /\ toWorker \in Seq([of : Ids, more : BOOLEAN])
      /\ UNCHANGED <<svc, pc, call, reader, held, open>>
  BY DEF TypeOK, Answer, callers, reading
<1>2. PICK more \in BOOLEAN :
        /\ toWorker' = Append(toWorker, [of |-> Head(toManager), more |-> more])
        /\ toManager' = IF more THEN toManager ELSE Tail(toManager)
  BY DEF Answer
<1>3. /\ 1 \in DOMAIN toManager /\ Head(toManager) = toManager[1]
      /\ Head(toManager) \in Ids
      /\ DOMAIN toManager = 1..Len(toManager) /\ Len(toManager) \in Nat \ {0}
      /\ DOMAIN Tail(toManager) = 1..Len(toManager) - 1
      /\ \A n \in DOMAIN Tail(toManager) :
           n + 1 \in DOMAIN toManager /\ Tail(toManager)[n] = toManager[n + 1]
  BY <1>1, TailElements
<1>4. /\ Len(toWorker) \in Nat /\ DOMAIN toWorker = 1..Len(toWorker)
      /\ Len(toWorker') = Len(toWorker) + 1
      /\ DOMAIN toWorker' = 1..Len(toWorker) + 1
      /\ \A n \in DOMAIN toWorker : toWorker'[n] = toWorker[n]
      /\ toWorker'[Len(toWorker) + 1].of = toManager[1]
      /\ toWorker'[Len(toWorker) + 1].more = more
      /\ toWorker' # <<>>
  <2>1. [of |-> Head(toManager), more |-> more] \in [of : Ids, more : BOOLEAN]
    BY <1>3
  <2> QED
    BY <1>1, <1>2, <1>3, <2>1, AppendElements
<1>5. Listening
  BY <1>1 DEF ServiceInv, Closing
<1>6. /\ svc.inProgress /\ toManager[1] = svc.response
      /\ \A n \in DOMAIN toManager : toManager[n] # 0 => n = 1
      /\ \A n \in DOMAIN toWorker : toWorker[n].more
      /\ reader # "notifying" /\ (reader = "adding" => held.more)
  BY <1>1, <1>3, <1>5 DEF ServiceInv, OneStage, Requests
<1>7. \A n \in DOMAIN toWorker' : toWorker'[n].of = svc.response
  BY <1>4, <1>5, <1>6 DEF ServiceInv, OneStage, Answers
<1>8. Exclusive'
  BY <1>1 DEF ServiceInv, Exclusive
<1>9. Closing'
  BY <1>1, <1>7 DEF ServiceInv, Closing, Listening
<1>10. \A u \in Callers : ~Sender(u) /\ ~Finisher(u)
  BY <1>1, <1>3, <1>5 DEF ServiceInv, OneStage, Senders, Finishers, Quiet, Asked
<1>11. \A u \in Callers : ~Sender(u)' /\ ~Finisher(u)'
  BY <1>1, <1>10 DEF Sender, Finisher
<1>12. Senders' /\ Finishers'
  BY <1>11 DEF Senders, Finishers
<1>13. InHand'
  BY <1>1, <1>5 DEF ServiceInv, OneStage, InHand
<1>14. Answers'
  BY <1>1, <1>4, <1>6, <1>7 DEF Answers
<1>15. Requests'
  <2>1. CASE more
    <3>1. toManager' = toManager /\ \A n \in DOMAIN toWorker' : toWorker'[n].more
      BY <1>2, <1>4, <1>6, <2>1
    <3> QED
      BY <1>1, <1>5, <3>1 DEF ServiceInv, OneStage, Requests
  <2>2. CASE ~more
    <3>1. \A n \in DOMAIN toManager' : toManager'[n] = 0
      BY <1>2, <1>3, <1>6, <2>2
    <3> QED
      BY <3>1 DEF Requests
  <2> QED
    BY <2>1, <2>2
<1> QED
  BY <1>8, <1>9, <1>12, <1>13, <1>14, <1>15 DEF ServiceInv, OneStage

\* What was with the manager is lost; the reader still listens.
LEMMA CloseStep ==
  ASSUME TypeOK, ServiceInv, Close
  PROVE  ServiceInv'
<1>1. /\ toManager' = <<>> /\ ~open' /\ open
      /\ UNCHANGED <<svc, pc, call, reader, held, toWorker>>
  BY DEF Close, callers, reading
<1>2. Exclusive' /\ Closing'
  BY <1>1 DEF ServiceInv, Exclusive, Closing
<1>3. OneStage
  BY <1>1 DEF ServiceInv, Closing
<1>4. \A u \in Callers : (Sender(u)' <=> Sender(u)) /\ (Finisher(u)' <=> Finisher(u))
  BY <1>1 DEF Sender, Finisher
<1>5. Quiet => Quiet'
  BY <1>1 DEF Quiet, Asked
<1>6. Senders' /\ Finishers'
  BY <1>1, <1>3, <1>4, <1>5 DEF OneStage, Senders, Finishers
<1>7. Requests' /\ Answers' /\ InHand'
  BY <1>1, <1>3 DEF OneStage, Requests, Answers, InHand
<1> QED
  BY <1>2, <1>6, <1>7 DEF ServiceInv, OneStage

-----------------------------------------------------------------------------
LEMMA ServiceStep == TypeInv /\ ServiceInv /\ [Next]_vars => ServiceInv'
<1> SUFFICES ASSUME TypeOK, ServiceInv, [Next]_vars PROVE ServiceInv'
  BY DEF TypeInv
<1>1. ASSUME NEW t \in Callers, BasicCmdCheck(t) \/ ExecNoRespCmd(t) \/ Proceed(t)
      PROVE  ServiceInv'
  BY <1>1, BasicCmdCheckStep, ExecNoRespCmdStep, LockCmdStep, AcceptCmdStep,
     LockToMgrStep, EnterMonitorStep, SendNeedRespCmdStep, WaitStep, WakeUpStep,
     HandledStep, CompleteStep, LockToPostStep, SendNoRespCmdStep, RunCallbackStep
  DEF Proceed
<1>2. CASE Reader
  BY <1>2, ReadAnswerStep, ReadEndStep, SetCmdRespDataStep, DispatchStep, NotifyStep
  DEF Reader
<1>3. CASE Manager \/ Close
  BY <1>3, TakeNoRespCmdStep, AnswerStep, CloseStep DEF Manager
<1>4. CASE UNCHANGED vars
  <2>1. /\ UNCHANGED <<svc, pc, call, toManager, toWorker, reader, held, open>>
    BY <1>4 DEF vars, callers, reading, socket
  <2>2. Exclusive'
    BY <2>1 DEF ServiceInv, Exclusive
  <2>3. \A u \in Callers : (Sender(u)' => Sender(u)) /\ (Finisher(u)' => Finisher(u))
    BY <2>1 DEF Sender, Finisher
  <2> QED
    BY <2>1, <2>2, <2>3, Undisturbed DEF ServiceInv
<1> QED
  BY <1>1, <1>2, <1>3, <1>4 DEF Next

\* The manager has one command at most to answer, and so has what is on its
\* way to and from it.
LEMMA OneUnanswered == TypeOK /\ ServiceInv => OneCommand
<1> SUFFICES ASSUME TypeOK, ServiceInv PROVE OneCommand
  OBVIOUS
<1>1. \A i, j \in Unanswered : i = j
  <2>1. 0 \notin Ids
    BY CommandAssumption DEF Ids
  <2>2. CASE Listening
    <3>1. \A i \in Unanswered : i = svc.response
      BY <2>1, <2>2
      DEF ServiceInv, OneStage, Requests, Answers, InHand, Unanswered
    <3> QED
      BY <3>1
  <2>3. CASE ~Listening
    <3>1. toManager = <<>> /\ ~(reader = "adding" /\ held.of # 0)
      BY <2>3 DEF ServiceInv, Closing, Listening
    <3>2. \A i \in Unanswered : \E n \in DOMAIN toWorker : toWorker[n].of = i
      BY <2>1, <3>1 DEF Unanswered
    <3> QED
      BY <3>2 DEF ServiceInv, Closing
  <2> QED
    BY <2>2, <2>3
<1>2. CASE Unanswered = {}
  BY <1>2, FS_EmptySet DEF OneCommand
<1>3. CASE Unanswered # {}
  <2>1. PICK i \in Unanswered : Unanswered = {i}
    BY <1>1, <1>3
  <2> QED
    BY <2>1, FS_Singleton DEF OneCommand
<1> QED
  BY <1>2, <1>3

\* "Only one NeedRespCmd can be issued" (aptManagerCmdService.h:78), whatever
\* threads call the service, and whether they wait or not.
THEOREM OneAtATime == Spec => []OneCommand
<1>1. TypeInv => TypeOK
  BY DEF TypeInv
<1> QED
  BY <1>1, TypeInit, TypeStep, ServiceInit, ServiceStep, OneUnanswered, PTL DEF Spec

\* What SetCmdRespData adds to mResponse is part of the answer to the command
\* mResponse belongs to (aptManagerCmdService.cpp:346).
THEOREM AnswersMatch == Spec => []AnswersReachTheirCommand
<1>1. ServiceInv => AnswersReachTheirCommand
  BY DEF ServiceInv, Listening, OneStage, InHand, AnswersReachTheirCommand
<1> QED
  BY <1>1, TypeInit, TypeStep, ServiceInit, ServiceStep, PTL DEF Spec


-----------------------------------------------------------------------------
(***************************************************************************)
(* Proofs that the callback of a command runs once and when its response   *)
(* is complete, and that the two locks are taken in one order.             *)
(*                                                                         *)
(* Both need that no two callers differ in their habit, which the          *)
(* interface asks of them: mIsAsync is read without a lock by threads      *)
(* whose command it does not describe.  A command that is waited for is    *)
(* then alone in the service until its callback has returned, whether the  *)
(* manager is there or not; and a response is given away once, by the      *)
(* reader to an event or by the one thread that wakes up.                  *)
(***************************************************************************)

\* Two callers that use the service want the same of it.
Agree(h) == \A s, t \in Callers : s # t => \A a \in h[s], b \in h[t] : a = b

\* A caller that runs a callback for which it has waited.
Running(t) ==
  \/ pc[t] \in {"handling", "handled"}
  \/ pc[t] \in {"posting", "writing"} /\ call[t].back = "handling"

\* A caller whose command has been accepted and whose call has not returned.
Busy(t) == Sender(t) \/ pc[t] \in {"sent", "waiting"} \/ Finisher(t)

\* Where only a caller that waits gets.
Patient(t) == pc[t] \in {"entering", "waiting"} \/ Finisher(t)

ByHabit ==
  \A t \in Callers :
    pc[t] \in {"checked", "locked"} \/ Busy(t) => call[t].async \in habit[t]

SameHabit ==
  \A t \in Callers :
    /\ Busy(t) => call[t].async = svc.isAsync
    /\ Patient(t) => ~svc.isAsync

Alone ==
  \A t \in Callers : Busy(t) /\ ~svc.isAsync =>
    svc.inProgress /\ \A u \in Callers : Busy(u) => u = t

\* The steps in which a thread may be in the monitor.
MayHold(t) == pc[t] # "handled" /\ (pc[t] \in {"sending", "sent"} \/ Running(t))

InMonitor == \A t \in Callers : svc.monitor = t => ~svc.isAsync /\ MayHold(t)

HabitInv == ByHabit /\ SameHabit /\ Alone /\ InMonitor

-----------------------------------------------------------------------------
(* The habits of the callers.                                              *)

LEMMA HabitInit == Init => HabitInv
<1> SUFFICES ASSUME Init PROVE HabitInv
  OBVIOUS
<1>1. \A t \in Callers : pc[t] = "idle" /\ svc.monitor # t
  BY CommandAssumption DEF Init
<1> QED
  BY <1>1 DEF HabitInv, ByHabit, SameHabit, Alone, InMonitor, Busy, Patient, Sender, Finisher

\* A step that accepts no command.
LEMMA HabitKept ==
  ASSUME HabitInv, habit' = habit, svc'.isAsync = svc.isAsync,
         \A u \in Callers : Busy(u)' => Busy(u) /\ call'[u].async = call[u].async,
         \A u \in Callers : pc'[u] \in {"checked", "locked"} =>
           \/ pc[u] \in {"checked", "locked"} /\ call'[u].async = call[u].async
           \/ call'[u].async \in habit[u],
         \A u \in Callers : Patient(u)' => Patient(u) \/ ~svc.isAsync,
         svc.inProgress /\ ~svc'.inProgress =>
           svc.isAsync \/ \A u \in Callers : ~Busy(u)',
         \A u \in Callers : svc'.monitor = u => ~svc.isAsync /\ MayHold(u)'
  PROVE  HabitInv'
<1> HIDE DEF Busy, Patient, MayHold
<1>1. ByHabit'
  BY DEF HabitInv, ByHabit
<1>2. SameHabit'
  BY DEF HabitInv, SameHabit
<1>3. Alone'
  BY DEF HabitInv, Alone
<1>4. InMonitor'
  BY DEF InMonitor
<1> QED
  BY <1>1, <1>2, <1>3, <1>4 DEF HabitInv

LEMMA BasicCmdCheckHabit ==
  ASSUME TypeOK, ServiceInv, HabitInv, NEW t \in Callers, BasicCmdCheck(t)
  PROVE  HabitInv'
<1>1. habit' = habit /\ svc'.isAsync = svc.isAsync
  BY DEF TypeOK, Service, BasicCmdCheck, Goto, callers, unspent
<1>2. \A u \in Callers : Busy(u)' => Busy(u) /\ call'[u].async = call[u].async
  BY DEF TypeOK, Busy, Sender, Finisher, BasicCmdCheck, Goto, callers, unspent
<1>3. \A u \in Callers : pc'[u] \in {"checked", "locked"} =>
        \/ pc[u] \in {"checked", "locked"} /\ call'[u].async = call[u].async
        \/ call'[u].async \in habit[u]
  BY DEF TypeOK, BasicCmdCheck, Goto, callers, unspent
<1>4. \A u \in Callers : Patient(u)' => Patient(u) \/ ~svc.isAsync
  BY DEF TypeOK, Patient, Finisher, BasicCmdCheck, Goto, callers, unspent
<1>5. svc.inProgress /\ ~svc'.inProgress => svc.isAsync \/ \A u \in Callers : ~Busy(u)'
  BY DEF TypeOK, Service, BasicCmdCheck, Goto, callers, unspent
<1>6. \A u \in Callers : svc'.monitor = u => ~svc.isAsync /\ MayHold(u)'
  BY CommandAssumption DEF TypeOK, Service, HabitInv, InMonitor, MayHold, Running, BasicCmdCheck, Goto, callers, unspent
<1> QED
  BY <1>1, <1>2, <1>3, <1>4, <1>5, <1>6, HabitKept

LEMMA LockCmdHabit ==
  ASSUME TypeOK, ServiceInv, HabitInv, NEW t \in Callers, LockCmd(t)
  PROVE  HabitInv'
<1>1. habit' = habit /\ svc'.isAsync = svc.isAsync
  BY DEF TypeOK, Service, LockCmd, Goto, Inside, callers, unspent
<1>2. \A u \in Callers : Busy(u)' => Busy(u) /\ call'[u].async = call[u].async
  BY DEF TypeOK, Busy, Sender, Finisher, LockCmd, Goto, Inside, callers, unspent
<1>3. \A u \in Callers : pc'[u] \in {"checked", "locked"} =>
        \/ pc[u] \in {"checked", "locked"} /\ call'[u].async = call[u].async
        \/ call'[u].async \in habit[u]
  BY DEF TypeOK, LockCmd, Goto, Inside, callers, unspent
<1>4. \A u \in Callers : Patient(u)' => Patient(u) \/ ~svc.isAsync
  BY DEF TypeOK, Patient, Finisher, LockCmd, Goto, Inside, callers, unspent
<1>5. svc.inProgress /\ ~svc'.inProgress => svc.isAsync \/ \A u \in Callers : ~Busy(u)'
  BY DEF TypeOK, Service, LockCmd, Goto, Inside, callers, unspent
<1>6. \A u \in Callers : svc'.monitor = u => ~svc.isAsync /\ MayHold(u)'
  <2>1. pc[t] = "checked" /\ svc'.monitor = svc.monitor
    BY DEF TypeOK, Service, LockCmd, Goto
  <2>2. ~MayHold(t) /\ \A u \in Callers : MayHold(u) => MayHold(u)'
    BY <2>1 DEF TypeOK, MayHold, Running, LockCmd, Goto, Inside, callers
  <2> QED
    BY <2>1, <2>2 DEF HabitInv, InMonitor
<1> QED
  BY <1>1, <1>2, <1>3, <1>4, <1>5, <1>6, HabitKept

LEMMA LockToMgrHabit ==
  ASSUME TypeOK, ServiceInv, HabitInv, NEW t \in Callers, LockToMgr(t)
  PROVE  HabitInv'
<1>1. habit' = habit /\ svc'.isAsync = svc.isAsync
  BY DEF TypeOK, Service, LockToMgr, Goto, Inside, callers, unspent
<1>2. \A u \in Callers : Busy(u)' => Busy(u) /\ call'[u].async = call[u].async
  BY DEF TypeOK, Busy, Sender, Finisher, LockToMgr, Goto, Inside, callers, unspent
<1>3. \A u \in Callers : pc'[u] \in {"checked", "locked"} =>
        \/ pc[u] \in {"checked", "locked"} /\ call'[u].async = call[u].async
        \/ call'[u].async \in habit[u]
  BY DEF TypeOK, LockToMgr, Goto, Inside, callers, unspent
<1>4. \A u \in Callers : Patient(u)' => Patient(u) \/ ~svc.isAsync
  BY DEF TypeOK, Patient, Finisher, LockToMgr, Goto, Inside, callers, unspent
<1>5. svc.inProgress /\ ~svc'.inProgress => svc.isAsync \/ \A u \in Callers : ~Busy(u)'
  BY DEF TypeOK, Service, LockToMgr, Goto, Inside, callers, unspent
<1>6. \A u \in Callers : svc'.monitor = u => ~svc.isAsync /\ MayHold(u)'
  BY CommandAssumption DEF TypeOK, Service, HabitInv, InMonitor, MayHold, Running, LockToMgr, Goto, Inside, callers, unspent
<1> QED
  BY <1>1, <1>2, <1>3, <1>4, <1>5, <1>6, HabitKept

LEMMA EnterMonitorHabit ==
  ASSUME TypeOK, ServiceInv, HabitInv, NEW t \in Callers, EnterMonitor(t)
  PROVE  HabitInv'
<1>1. habit' = habit /\ svc'.isAsync = svc.isAsync
  BY DEF TypeOK, Service, EnterMonitor, Goto, Inside, callers, unspent
<1>2. \A u \in Callers : Busy(u)' => Busy(u) /\ call'[u].async = call[u].async
  BY DEF TypeOK, Busy, Sender, Finisher, EnterMonitor, Goto, Inside, callers, unspent
<1>3. \A u \in Callers : pc'[u] \in {"checked", "locked"} =>
        \/ pc[u] \in {"checked", "locked"} /\ call'[u].async = call[u].async
        \/ call'[u].async \in habit[u]
  BY DEF TypeOK, EnterMonitor, Goto, Inside, callers, unspent
<1>4. \A u \in Callers : Patient(u)' => Patient(u) \/ ~svc.isAsync
  BY DEF TypeOK, Patient, Finisher, EnterMonitor, Goto, Inside, callers, unspent
<1>5. svc.inProgress /\ ~svc'.inProgress => svc.isAsync \/ \A u \in Callers : ~Busy(u)'
  BY DEF TypeOK, Service, EnterMonitor, Goto, Inside, callers, unspent
<1>6. \A u \in Callers : svc'.monitor = u => ~svc.isAsync /\ MayHold(u)'
  <2>1. pc[t] = "entering" /\ pc' = [pc EXCEPT ![t] = "sending"] /\ svc'.monitor = t
    BY DEF TypeOK, Service, EnterMonitor, Goto
  <2>2. ~svc.isAsync
    BY <2>1 DEF HabitInv, SameHabit, Patient, Finisher
  <2>3. MayHold(t)'
    BY <2>1 DEF TypeOK, MayHold, Running
  <2> QED
    BY <2>1, <2>2, <2>3
<1> QED
  BY <1>1, <1>2, <1>3, <1>4, <1>5, <1>6, HabitKept

LEMMA SendNeedRespCmdHabit ==
  ASSUME TypeOK, ServiceInv, HabitInv, NEW t \in Callers, SendNeedRespCmd(t)
  PROVE  HabitInv'
<1>1. habit' = habit /\ svc'.isAsync = svc.isAsync
  BY DEF TypeOK, Service, SendNeedRespCmd, Goto, LeaveMonitor, callers, unspent
<1>2. \A u \in Callers : Busy(u)' => Busy(u) /\ call'[u].async = call[u].async
  BY DEF TypeOK, Busy, Sender, Finisher, SendNeedRespCmd, Goto, LeaveMonitor, callers, unspent
<1>3. \A u \in Callers : pc'[u] \in {"checked", "locked"} =>
        \/ pc[u] \in {"checked", "locked"} /\ call'[u].async = call[u].async
        \/ call'[u].async \in habit[u]
  BY DEF TypeOK, SendNeedRespCmd, Goto, LeaveMonitor, callers, unspent
<1>4. \A u \in Callers : Patient(u)' => Patient(u) \/ ~svc.isAsync
  BY DEF TypeOK, Patient, Finisher, SendNeedRespCmd, Goto, LeaveMonitor, callers, unspent
<1>5. svc.inProgress /\ ~svc'.inProgress => svc.isAsync \/ \A u \in Callers : ~Busy(u)'
  <2>1. Busy(t) /\ (svc.inProgress /\ ~svc'.inProgress => ~Busy(t)')
    <3>1. pc[t] = "sending" /\ pc'[t] = IF open THEN "sent" ELSE "idle"
      BY DEF TypeOK, SendNeedRespCmd, Goto
    <3>2. svc.inProgress /\ ~svc'.inProgress => ~open
      BY DEF TypeOK, Service, SendNeedRespCmd
    <3> QED
      BY <3>1, <3>2 DEF Busy, Sender, Finisher
  <2> QED
    BY <1>2, <2>1 DEF HabitInv, Alone
<1>6. \A u \in Callers : svc'.monitor = u => ~svc.isAsync /\ MayHold(u)'
  <2>1. /\ pc[t] = "sending" /\ call' = call
        /\ \A u \in Callers : u # t => pc'[u] = pc[u]
        /\ pc'[t] = IF open THEN "sent" ELSE "idle"
    BY DEF TypeOK, SendNeedRespCmd, Goto, callers
  <2>4. svc'.monitor = IF open THEN svc.monitor ELSE LeaveMonitor(t)
    BY DEF TypeOK, Service, SendNeedRespCmd
  <2>2. \A u \in Callers : svc'.monitor = u => svc.monitor = u
    BY <2>4, CommandAssumption DEF LeaveMonitor
  <2>3. \A u \in Callers : svc'.monitor = u /\ MayHold(u) => MayHold(u)'
    <3>1. svc'.monitor = t => open
      BY <2>4, CommandAssumption DEF LeaveMonitor
    <3> QED
      BY <2>1, <3>1 DEF MayHold, Running
  <2> QED
    BY <2>2, <2>3 DEF HabitInv, InMonitor
<1> QED
  BY <1>1, <1>2, <1>3, <1>4, <1>5, <1>6, HabitKept

LEMMA WaitHabit ==
  ASSUME TypeOK, ServiceInv, HabitInv, NEW t \in Callers, Wait(t)
  PROVE  HabitInv'
<1>1. habit' = habit /\ svc'.isAsync = svc.isAsync
  BY DEF TypeOK, Service, Wait, Goto, Inside, callers, unspent
<1>2. \A u \in Callers : Busy(u)' => Busy(u) /\ call'[u].async = call[u].async
  BY DEF TypeOK, Busy, Sender, Finisher, Wait, Goto, Inside, callers, unspent
<1>3. \A u \in Callers : pc'[u] \in {"checked", "locked"} =>
        \/ pc[u] \in {"checked", "locked"} /\ call'[u].async = call[u].async
        \/ call'[u].async \in habit[u]
  BY DEF TypeOK, Wait, Goto, Inside, callers, unspent
<1>4. \A u \in Callers : Patient(u)' => Patient(u) \/ ~svc.isAsync
  BY DEF TypeOK, Patient, Finisher, Wait, Goto, Inside, callers, unspent
<1>5. svc.inProgress /\ ~svc'.inProgress => svc.isAsync \/ \A u \in Callers : ~Busy(u)'
  BY DEF TypeOK, Service, Wait, Goto, Inside, callers, unspent
<1>6. \A u \in Callers : svc'.monitor = u => ~svc.isAsync /\ MayHold(u)'
  BY CommandAssumption DEF TypeOK, Service, HabitInv, InMonitor, MayHold, Running, Wait, Goto, Inside, callers, unspent
<1> QED
  BY <1>1, <1>2, <1>3, <1>4, <1>5, <1>6, HabitKept

LEMMA WakeUpHabit ==
  ASSUME TypeOK, ServiceInv, HabitInv, NEW t \in Callers, WakeUp(t)
  PROVE  HabitInv'
<1>1. habit' = habit /\ svc'.isAsync = svc.isAsync
  BY DEF TypeOK, Service, WakeUp, Goto, callers, unspent
<1>2. \A u \in Callers : Busy(u)' => Busy(u) /\ call'[u].async = call[u].async
  BY DEF TypeOK, Busy, Sender, Finisher, WakeUp, Goto, callers, unspent
<1>3. \A u \in Callers : pc'[u] \in {"checked", "locked"} =>
        \/ pc[u] \in {"checked", "locked"} /\ call'[u].async = call[u].async
        \/ call'[u].async \in habit[u]
  BY DEF TypeOK, WakeUp, Goto, callers, unspent
<1>4. \A u \in Callers : Patient(u)' => Patient(u) \/ ~svc.isAsync
  BY DEF TypeOK, Patient, Finisher, WakeUp, Goto, callers, unspent
<1>5. svc.inProgress /\ ~svc'.inProgress => svc.isAsync \/ \A u \in Callers : ~Busy(u)'
  BY DEF TypeOK, Service, WakeUp, Goto, callers, unspent
<1>6. \A u \in Callers : svc'.monitor = u => ~svc.isAsync /\ MayHold(u)'
  <2>1. pc[t] = "notified" /\ pc' = [pc EXCEPT ![t] = "handling"] /\ svc'.monitor = t
    BY DEF TypeOK, Service, WakeUp, Goto
  <2>2. ~svc.isAsync
    BY <2>1 DEF HabitInv, SameHabit, Patient, Finisher
  <2>3. MayHold(t)'
    BY <2>1 DEF TypeOK, MayHold, Running
  <2> QED
    BY <2>1, <2>2, <2>3
<1> QED
  BY <1>1, <1>2, <1>3, <1>4, <1>5, <1>6, HabitKept

LEMMA HandledHabit ==
  ASSUME TypeOK, ServiceInv, HabitInv, NEW t \in Callers, Handled(t)
  PROVE  HabitInv'
<1>1. habit' = habit /\ svc'.isAsync = svc.isAsync
  BY DEF TypeOK, Service, Handled, Goto, Inside, callers, unspent
<1>2. \A u \in Callers : Busy(u)' => Busy(u) /\ call'[u].async = call[u].async
  BY DEF TypeOK, Busy, Sender, Finisher, Handled, Goto, Inside, callers, unspent
<1>3. \A u \in Callers : pc'[u] \in {"checked", "locked"} =>
        \/ pc[u] \in {"checked", "locked"} /\ call'[u].async = call[u].async
        \/ call'[u].async \in habit[u]
  BY DEF TypeOK, Handled, Goto, Inside, callers, unspent
<1>4. \A u \in Callers : Patient(u)' => Patient(u) \/ ~svc.isAsync
  BY DEF TypeOK, Patient, Finisher, Handled, Goto, Inside, callers, unspent
<1>5. svc.inProgress /\ ~svc'.inProgress => svc.isAsync \/ \A u \in Callers : ~Busy(u)'
  BY DEF TypeOK, Service, Handled, Goto, Inside, callers, unspent
<1>6. \A u \in Callers : svc'.monitor = u => ~svc.isAsync /\ MayHold(u)'
  BY CommandAssumption DEF TypeOK, Service, HabitInv, InMonitor, MayHold, Running, Handled, Goto, Inside, callers, unspent
<1> QED
  BY <1>1, <1>2, <1>3, <1>4, <1>5, <1>6, HabitKept

LEMMA CompleteHabit ==
  ASSUME TypeOK, ServiceInv, HabitInv, NEW t \in Callers, Complete(t)
  PROVE  HabitInv'
<1>1. habit' = habit /\ svc'.isAsync = svc.isAsync
  BY DEF TypeOK, Service, Complete, Goto, Inside, callers, unspent
<1>2. \A u \in Callers : Busy(u)' => Busy(u) /\ call'[u].async = call[u].async
  BY DEF TypeOK, Busy, Sender, Finisher, Complete, Goto, Inside, callers, unspent
<1>3. \A u \in Callers : pc'[u] \in {"checked", "locked"} =>
        \/ pc[u] \in {"checked", "locked"} /\ call'[u].async = call[u].async
        \/ call'[u].async \in habit[u]
  BY DEF TypeOK, Complete, Goto, Inside, callers, unspent
<1>4. \A u \in Callers : Patient(u)' => Patient(u) \/ ~svc.isAsync
  BY DEF TypeOK, Patient, Finisher, Complete, Goto, Inside, callers, unspent
<1>5. svc.inProgress /\ ~svc'.inProgress => svc.isAsync \/ \A u \in Callers : ~Busy(u)'
  <2>1. Busy(t) /\ ~Busy(t)'
    BY DEF TypeOK, Busy, Sender, Finisher, Complete, Goto
  <2> QED
    BY <1>2, <2>1 DEF HabitInv, Alone
<1>6. \A u \in Callers : svc'.monitor = u => ~svc.isAsync /\ MayHold(u)'
  BY CommandAssumption DEF TypeOK, Service, HabitInv, InMonitor, MayHold, Running, Complete, Goto, Inside, callers, unspent
<1> QED
  BY <1>1, <1>2, <1>3, <1>4, <1>5, <1>6, HabitKept

LEMMA ExecNoRespCmdHabit ==
  ASSUME TypeOK, ServiceInv, HabitInv, NEW t \in Callers, ExecNoRespCmd(t)
  PROVE  HabitInv'
<1>1. habit' = habit /\ svc'.isAsync = svc.isAsync
  BY DEF TypeOK, Service, ExecNoRespCmd, callers, unspent
<1>2. \A u \in Callers : Busy(u)' => Busy(u) /\ call'[u].async = call[u].async
  BY DEF TypeOK, Busy, Sender, Finisher, ExecNoRespCmd, callers, unspent
<1>3. \A u \in Callers : pc'[u] \in {"checked", "locked"} =>
        \/ pc[u] \in {"checked", "locked"} /\ call'[u].async = call[u].async
        \/ call'[u].async \in habit[u]
  BY DEF TypeOK, ExecNoRespCmd, callers, unspent
<1>4. \A u \in Callers : Patient(u)' => Patient(u) \/ ~svc.isAsync
  BY DEF TypeOK, Patient, Finisher, ExecNoRespCmd, callers, unspent
<1>5. svc.inProgress /\ ~svc'.inProgress => svc.isAsync \/ \A u \in Callers : ~Busy(u)'
  BY DEF TypeOK, Service, ExecNoRespCmd, callers, unspent
<1>6. \A u \in Callers : svc'.monitor = u => ~svc.isAsync /\ MayHold(u)'
  BY CommandAssumption DEF TypeOK, Service, HabitInv, InMonitor, MayHold, Running, ExecNoRespCmd, callers, unspent
<1> QED
  BY <1>1, <1>2, <1>3, <1>4, <1>5, <1>6, HabitKept

LEMMA LockToPostHabit ==
  ASSUME TypeOK, ServiceInv, HabitInv, NEW t \in Callers, LockToPost(t)
  PROVE  HabitInv'
<1>1. habit' = habit /\ svc'.isAsync = svc.isAsync
  BY DEF TypeOK, Service, LockToPost, Goto, Inside, callers, unspent
<1>2. \A u \in Callers : Busy(u)' => Busy(u) /\ call'[u].async = call[u].async
  BY DEF TypeOK, Busy, Sender, Finisher, LockToPost, Goto, Inside, callers, unspent
<1>3. \A u \in Callers : pc'[u] \in {"checked", "locked"} =>
        \/ pc[u] \in {"checked", "locked"} /\ call'[u].async = call[u].async
        \/ call'[u].async \in habit[u]
  BY DEF TypeOK, LockToPost, Goto, Inside, callers, unspent
<1>4. \A u \in Callers : Patient(u)' => Patient(u) \/ ~svc.isAsync
  BY DEF TypeOK, Patient, Finisher, LockToPost, Goto, Inside, callers, unspent
<1>5. svc.inProgress /\ ~svc'.inProgress => svc.isAsync \/ \A u \in Callers : ~Busy(u)'
  BY DEF TypeOK, Service, LockToPost, Goto, Inside, callers, unspent
<1>6. \A u \in Callers : svc'.monitor = u => ~svc.isAsync /\ MayHold(u)'
  BY CommandAssumption DEF TypeOK, Service, HabitInv, InMonitor, MayHold, Running, LockToPost, Goto, Inside, callers, unspent
<1> QED
  BY <1>1, <1>2, <1>3, <1>4, <1>5, <1>6, HabitKept

LEMMA SendNoRespCmdHabit ==
  ASSUME TypeOK, ServiceInv, HabitInv, NEW t \in Callers, SendNoRespCmd(t)
  PROVE  HabitInv'
<1>1. habit' = habit /\ svc'.isAsync = svc.isAsync
  BY DEF TypeOK, Service, SendNoRespCmd, Goto, callers, unspent
<1>2. \A u \in Callers : Busy(u)' => Busy(u) /\ call'[u].async = call[u].async
  BY DEF TypeOK, Busy, Sender, Finisher, SendNoRespCmd, Goto, callers, unspent
<1>3. \A u \in Callers : pc'[u] \in {"checked", "locked"} =>
        \/ pc[u] \in {"checked", "locked"} /\ call'[u].async = call[u].async
        \/ call'[u].async \in habit[u]
  BY DEF TypeOK, SendNoRespCmd, Goto, callers, unspent
<1>4. \A u \in Callers : Patient(u)' => Patient(u) \/ ~svc.isAsync
  BY DEF TypeOK, Patient, Finisher, SendNoRespCmd, Goto, callers, unspent
<1>5. svc.inProgress /\ ~svc'.inProgress => svc.isAsync \/ \A u \in Callers : ~Busy(u)'
  BY DEF TypeOK, Service, SendNoRespCmd, Goto, callers, unspent
<1>6. \A u \in Callers : svc'.monitor = u => ~svc.isAsync /\ MayHold(u)'
  BY CommandAssumption DEF TypeOK, Service, HabitInv, InMonitor, MayHold, Running, SendNoRespCmd, Goto, callers, unspent
<1> QED
  BY <1>1, <1>2, <1>3, <1>4, <1>5, <1>6, HabitKept

LEMMA RunCallbackHabit ==
  ASSUME TypeOK, ServiceInv, HabitInv, NEW t \in Callers, RunCallback(t)
  PROVE  HabitInv'
<1>1. habit' = habit /\ svc'.isAsync = svc.isAsync
  BY DEF TypeOK, Service, RunCallback, callers, unspent
<1>2. \A u \in Callers : Busy(u)' => Busy(u) /\ call'[u].async = call[u].async
  BY DEF TypeOK, Busy, Sender, Finisher, RunCallback, callers, unspent
<1>3. \A u \in Callers : pc'[u] \in {"checked", "locked"} =>
        \/ pc[u] \in {"checked", "locked"} /\ call'[u].async = call[u].async
        \/ call'[u].async \in habit[u]
  BY DEF TypeOK, RunCallback, callers, unspent
<1>4. \A u \in Callers : Patient(u)' => Patient(u) \/ ~svc.isAsync
  BY DEF TypeOK, Patient, Finisher, RunCallback, callers, unspent
<1>5. svc.inProgress /\ ~svc'.inProgress => svc.isAsync \/ \A u \in Callers : ~Busy(u)'
  BY DEF TypeOK, Service, RunCallback, callers, unspent
<1>6. \A u \in Callers : svc'.monitor = u => ~svc.isAsync /\ MayHold(u)'
  BY CommandAssumption DEF TypeOK, Service, HabitInv, InMonitor, MayHold, Running, RunCallback, callers, unspent
<1> QED
  BY <1>1, <1>2, <1>3, <1>4, <1>5, <1>6, HabitKept

\* The flag is down, so nobody waits, and the others are of the same habit.
LEMMA AcceptCmdHabit ==
  ASSUME TypeOK, ServiceInv, HabitInv, Agree(habit), NEW t \in Callers, AcceptCmd(t)
  PROVE  HabitInv'
<1>1. /\ pc[t] = "locked" /\ pc' = [pc EXCEPT ![t] = "accepted"]
      /\ call'[t].async = call[t].async /\ call'[t].back = call[t].back
      /\ \A u \in Callers : u # t => call'[u] = call[u]
      /\ svc'.inProgress /\ svc'.isAsync = call[t].async /\ svc'.monitor = svc.monitor
      /\ habit' = habit
  BY DEF TypeOK, Service, AcceptCmd, Goto, unspent
<1>2. /\ ~svc.inProgress /\ call[t].async \in habit[t] /\ call[t].async \in BOOLEAN
      /\ ~Busy(t) /\ ~MayHold(t)
  BY <1>1 DEF ServiceInv, Exclusive, HabitInv, ByHabit, TypeOK, Busy, Sender, Finisher,
              MayHold, Running
<1>3. \A u \in Callers : Busy(u) => svc.isAsync /\ call[u].async = call[t].async
  <2>1. \A u \in Callers : Busy(u) => svc.isAsync /\ call[u].async \in habit[u]
    BY <1>2 DEF HabitInv, Alone, ByHabit
  <2> QED
    BY <1>2, <2>1 DEF Agree
<1>4. \A u \in Callers : u # t => (Busy(u)' <=> Busy(u)) /\ (Patient(u)' <=> Patient(u))
  BY <1>1 DEF TypeOK, Busy, Patient, Sender, Finisher
<1>5. Busy(t)' /\ ~Patient(t)'
  BY <1>1 DEF TypeOK, Busy, Patient, Sender, Finisher
<1>6. \A u \in Callers : Patient(u) => Busy(u)
  BY DEF Patient, Busy, Sender
<1>7. \A u \in Callers : ~Patient(u)
  BY <1>3, <1>6 DEF HabitInv, SameHabit
<1>8. \A u \in Callers : svc.monitor # u
  <2>1. \A u \in Callers : MayHold(u) => Busy(u)
    BY DEF MayHold, Running, Busy, Sender, Finisher
  <2> QED
    BY <1>3, <2>1 DEF HabitInv, InMonitor
<1> HIDE DEF Busy, Patient, MayHold
<1>9. ByHabit'
  <2>1. \A u \in Callers : pc'[u] \in {"checked", "locked"} => pc[u] = pc'[u] /\ u # t
    BY <1>1 DEF TypeOK
  <2> QED
    BY <1>1, <1>2, <1>4, <2>1 DEF HabitInv, ByHabit
<1>10. SameHabit'
  BY <1>1, <1>3, <1>4, <1>5, <1>7 DEF SameHabit
<1>11. Alone'
  <2>1. ~svc'.isAsync => \A u \in Callers : Busy(u)' => u = t
    BY <1>1, <1>3, <1>4 DEF HabitInv, SameHabit
  <2> QED
    BY <1>1, <2>1 DEF Alone
<1>12. InMonitor'
  BY <1>1, <1>8 DEF InMonitor
<1> QED
  BY <1>9, <1>10, <1>11, <1>12 DEF HabitInv

\* The last message of an answer clears the flag for a caller that does not wait.
LEMMA SetCmdRespDataHabit ==
  ASSUME TypeOK, HabitInv, SetCmdRespData
  PROVE  HabitInv'
<1>1. /\ UNCHANGED <<pc, call, habit>>
      /\ svc'.isAsync = svc.isAsync /\ svc'.monitor = svc.monitor
      /\ svc.inProgress /\ ~svc'.inProgress => svc.isAsync
  BY DEF TypeOK, Service, SetCmdRespData, callers, unspent
<1>2. \A u \in Callers : /\ Busy(u)' <=> Busy(u)
                         /\ Patient(u)' <=> Patient(u)
                         /\ MayHold(u)' <=> MayHold(u)
  BY <1>1 DEF Busy, Patient, MayHold, Running, Sender, Finisher
<1> HIDE DEF Busy, Patient, MayHold
<1>3. \A u \in Callers : svc'.monitor = u => ~svc.isAsync /\ MayHold(u)'
  BY <1>1, <1>2 DEF HabitInv, InMonitor
<1> QED
  BY <1>1, <1>2, <1>3, HabitKept

LEMMA NotifyHabit ==
  ASSUME TypeOK, HabitInv, Notify
  PROVE  HabitInv'
<1>1. /\ UNCHANGED <<svc, call, habit>> /\ svc.monitor = Nobody
      /\ \/ pc' = pc
         \/ \E t \in Callers : pc[t] = "waiting" /\ pc' = [pc EXCEPT ![t] = "notified"]
  BY DEF Notify, Waiting, Goto, callers, unspent
<1>2. \A u \in Callers : (Busy(u)' => Busy(u)) /\ (Patient(u)' => Patient(u))
  BY <1>1 DEF TypeOK, Busy, Patient, Sender, Finisher
<1>3. \A u \in Callers : pc'[u] \in {"checked", "locked"} => pc[u] \in {"checked", "locked"}
  BY <1>1 DEF TypeOK
<1>4. \A u \in Callers : svc'.monitor # u
  BY <1>1, CommandAssumption
<1> HIDE DEF Busy, Patient, MayHold
<1> QED
  BY <1>1, <1>2, <1>3, <1>4, HabitKept

\* Everything else moves no caller.
LEMMA OthersHabit ==
  ASSUME HabitInv, UNCHANGED <<svc, pc, call, habit>>
  PROVE  HabitInv'
<1>1. \A u \in Callers : /\ Busy(u)' <=> Busy(u)
                         /\ Patient(u)' <=> Patient(u)
                         /\ MayHold(u)' <=> MayHold(u)
  BY DEF Busy, Patient, MayHold, Running, Sender, Finisher
<1> HIDE DEF Busy, Patient, MayHold
<1>2. \A u \in Callers : svc'.monitor = u => ~svc.isAsync /\ MayHold(u)'
  BY <1>1 DEF HabitInv, InMonitor
<1> QED
  BY <1>1, <1>2, HabitKept

LEMMA HabitStep ==
  TypeInv /\ ServiceInv /\ HabitInv /\ Agree(habit) /\ [Next]_vars => HabitInv'
<1> SUFFICES ASSUME TypeOK, ServiceInv, HabitInv, Agree(habit), [Next]_vars PROVE HabitInv'
  BY DEF TypeInv
<1>1. ASSUME NEW t \in Callers, BasicCmdCheck(t) \/ ExecNoRespCmd(t) \/ Proceed(t)
      PROVE  HabitInv'
  BY <1>1, BasicCmdCheckHabit, ExecNoRespCmdHabit, LockCmdHabit, AcceptCmdHabit,
     LockToMgrHabit, EnterMonitorHabit, SendNeedRespCmdHabit, WaitHabit, WakeUpHabit,
     HandledHabit, CompleteHabit, LockToPostHabit, SendNoRespCmdHabit, RunCallbackHabit
  DEF Proceed
<1>2. CASE SetCmdRespData
  BY <1>2, SetCmdRespDataHabit
<1>3. CASE Notify
  BY <1>3, NotifyHabit
<1>4. CASE ReadAnswer \/ ReadEnd \/ NotifyPossibleCmdFailure \/ Dispatch
  <2>1. UNCHANGED <<svc, pc, call, habit>>
    BY <1>4 DEF ReadAnswer, ReadEnd, NotifyPossibleCmdFailure, Dispatch, callers, unspent
  <2> QED
    BY <2>1, OthersHabit
<1>5. CASE Manager \/ Close \/ UNCHANGED vars
  <2>1. UNCHANGED <<svc, pc, call, habit>>
    BY <1>5 DEF Manager, TakeNoRespCmd, Answer, Close, vars, callers, unspent
  <2> QED
    BY <2>1, OthersHabit
<1> QED
  BY <1>1, <1>2, <1>3, <1>4, <1>5 DEF Next, Reader

LEMMA HabitConstant == TypeOK /\ [Next]_vars => habit' = habit /\ habit \in Habits
BY DEF TypeOK, Next, Proceed, Reader, Manager, vars, unspent, Inside, BasicCmdCheck,
       ExecNoRespCmd, LockCmd, AcceptCmd, LockToMgr, EnterMonitor, SendNeedRespCmd, Wait,
       WakeUp, Handled, Complete, LockToPost, SendNoRespCmd, RunCallback, ReadAnswer,
       ReadEnd, NotifyPossibleCmdFailure, SetCmdRespData, Dispatch, Notify,
       TakeNoRespCmd, Answer, Close

-----------------------------------------------------------------------------
(* The callbacks.                                                          *)

\* The callback of a command is in a thread's event queue.
Posted(i) == \E t \in Callers : \E n \in DOMAIN events[t] : events[t][n] = i

\* The reader is about to put it there.
InEvent(i) == reader = "dispatching" /\ held.event = i

Called(i) == called[i] # <<>>

\* The response of the command has been given away.
Given(i) == Posted(i) \/ InEvent(i) \/ Called(i)

OfIssued ==
  /\ svc.response # 0 => svc.response \in Issued
  /\ \A i \in Ids : Given(i) => i \in Issued

\* Where the response can still be given away.
Giveable ==
  \/ svc.inProgress /\ \A t \in Callers : ~Running(t)
  \/ reader = "adding" /\ svc.isAsync

NotYet == Giveable => \A i \in Ids : Given(i) => i # svc.response

Once ==
  \A i \in Ids :
    /\ Posted(i) => ~InEvent(i)
    /\ Posted(i) \/ InEvent(i) => ~Called(i)
    /\ Len(called[i]) <= 1

PostedOnce ==
  \A t, u \in Callers : \A m \in DOMAIN events[t] : \A n \in DOMAIN events[u] :
    events[t][m] = events[u][n] => t = u /\ m = n

\* A caller has been woken up or is to be.
Waking == reader = "notifying" \/ \E t \in Callers : Finisher(t)

Filled ==
  open => /\ \A i \in Ids : Given(i) => parts[i] > 0
          /\ Waking => parts[svc.response] > 0

CallbackInv == OfIssued /\ NotYet /\ Once /\ PostedOnce /\ Filled

LEMMA CallbackInit == Init => CallbackInv
<1> SUFFICES ASSUME Init PROVE CallbackInv
  OBVIOUS
<1>1. /\ \A i \in Ids : ~Posted(i) /\ ~InEvent(i) /\ called[i] = <<>>
      /\ \A t \in Callers : DOMAIN events[t] = {} /\ ~Finisher(t)
      /\ svc.response = 0 /\ ~svc.inProgress /\ reader = "reading"
  BY DEF Init, Posted, InEvent, Finisher
<1> HIDE DEF Posted, InEvent, Finisher
<1> QED
  BY <1>1 DEF CallbackInv, OfIssued, NotYet, Giveable, Once, PostedOnce, Filled, Waking,
              Given, Called

\* A step that gives nothing away and accepts nothing.
LEMMA CallbackKept ==
  ASSUME CallbackInv,
         UNCHANGED <<events, called, parts, owner>>,
         svc'.response = svc.response,
         open' => open,
         \A i : InEvent(i)' => InEvent(i),
         Giveable' => Giveable,
         Waking' => Waking
  PROVE  CallbackInv'
<1>1. /\ Issued' = Issued
      /\ \A i : (Posted(i)' <=> Posted(i)) /\ (Called(i)' <=> Called(i)) /\ (Given(i)' => Given(i))
  BY DEF Issued, Posted, Called, Given
<1> HIDE DEF Posted, Called, Given, InEvent, Giveable, Waking
<1>2. OfIssued' /\ NotYet'
  BY <1>1 DEF CallbackInv, OfIssued, NotYet
<1>3. Once'
  BY <1>1 DEF CallbackInv, Once
<1>4. PostedOnce'
  BY DEF CallbackInv, PostedOnce
<1>5. Filled'
  BY <1>1 DEF CallbackInv, Filled
<1> QED
  BY <1>2, <1>3, <1>4, <1>5 DEF CallbackInv

\* A caller moves that has no callback to begin.
LEMMA CallerKept ==
  ASSUME CallbackInv,
         UNCHANGED <<events, called, parts, owner, reader, held, open>>,
         svc'.response = svc.response, svc'.isAsync = svc.isAsync,
         svc'.inProgress => svc.inProgress /\ \A u \in Callers : Running(u) => Running(u)',
         \A u \in Callers : Finisher(u)' => Finisher(u)
  PROVE  CallbackInv'
<1> HIDE DEF Running, Finisher
<1>1. \A i : InEvent(i)' => InEvent(i)
  BY DEF InEvent
<1>2. Giveable' => Giveable
  BY DEF Giveable
<1>3. Waking' => Waking
  BY DEF Waking
<1> QED
  BY <1>1, <1>2, <1>3, CallbackKept

LEMMA BasicCmdCheckCallback ==
  ASSUME TypeOK, CallbackInv, NEW t \in Callers, BasicCmdCheck(t)
  PROVE  CallbackInv'
<1>1. /\ UNCHANGED <<events, called, parts, owner, reader, held, open>>
      /\ svc'.response = svc.response /\ svc'.isAsync = svc.isAsync
      /\ svc'.inProgress => svc.inProgress
  BY DEF TypeOK, Service, BasicCmdCheck, Goto, callers, reading, socket, history
<1>2. svc'.inProgress => \A u \in Callers : Running(u) => Running(u)'
  BY DEF TypeOK, Service, Running, BasicCmdCheck, Goto, callers
<1>3. \A u \in Callers : Finisher(u)' => Finisher(u)
  BY DEF TypeOK, Finisher, BasicCmdCheck, Goto, callers
<1> QED
  BY <1>1, <1>2, <1>3, CallerKept

LEMMA LockCmdCallback ==
  ASSUME TypeOK, CallbackInv, NEW t \in Callers, LockCmd(t)
  PROVE  CallbackInv'
<1>1. /\ UNCHANGED <<events, called, parts, owner, reader, held, open>>
      /\ svc'.response = svc.response /\ svc'.isAsync = svc.isAsync
      /\ svc'.inProgress => svc.inProgress
  BY DEF TypeOK, Service, LockCmd, Goto, Inside, callers, reading, socket, history
<1>2. svc'.inProgress => \A u \in Callers : Running(u) => Running(u)'
  BY DEF TypeOK, Service, Running, LockCmd, Goto, Inside, callers
<1>3. \A u \in Callers : Finisher(u)' => Finisher(u)
  BY DEF TypeOK, Finisher, LockCmd, Goto, Inside, callers
<1> QED
  BY <1>1, <1>2, <1>3, CallerKept

LEMMA LockToMgrCallback ==
  ASSUME TypeOK, CallbackInv, NEW t \in Callers, LockToMgr(t)
  PROVE  CallbackInv'
<1>1. /\ UNCHANGED <<events, called, parts, owner, reader, held, open>>
      /\ svc'.response = svc.response /\ svc'.isAsync = svc.isAsync
      /\ svc'.inProgress => svc.inProgress
  BY DEF TypeOK, Service, LockToMgr, Goto, Inside, callers, reading, socket, history
<1>2. svc'.inProgress => \A u \in Callers : Running(u) => Running(u)'
  BY DEF TypeOK, Service, Running, LockToMgr, Goto, Inside, callers
<1>3. \A u \in Callers : Finisher(u)' => Finisher(u)
  BY DEF TypeOK, Finisher, LockToMgr, Goto, Inside, callers
<1> QED
  BY <1>1, <1>2, <1>3, CallerKept

LEMMA EnterMonitorCallback ==
  ASSUME TypeOK, CallbackInv, NEW t \in Callers, EnterMonitor(t)
  PROVE  CallbackInv'
<1>1. /\ UNCHANGED <<events, called, parts, owner, reader, held, open>>
      /\ svc'.response = svc.response /\ svc'.isAsync = svc.isAsync
      /\ svc'.inProgress => svc.inProgress
  BY DEF TypeOK, Service, EnterMonitor, Goto, Inside, callers, reading, socket, history
<1>2. svc'.inProgress => \A u \in Callers : Running(u) => Running(u)'
  BY DEF TypeOK, Service, Running, EnterMonitor, Goto, Inside, callers
<1>3. \A u \in Callers : Finisher(u)' => Finisher(u)
  BY DEF TypeOK, Finisher, EnterMonitor, Goto, Inside, callers
<1> QED
  BY <1>1, <1>2, <1>3, CallerKept

LEMMA SendNeedRespCmdCallback ==
  ASSUME TypeOK, CallbackInv, NEW t \in Callers, SendNeedRespCmd(t)
  PROVE  CallbackInv'
<1>1. /\ UNCHANGED <<events, called, parts, owner, reader, held, open>>
      /\ svc'.response = svc.response /\ svc'.isAsync = svc.isAsync
      /\ svc'.inProgress => svc.inProgress
  BY ZenonT(40) DEF TypeOK, Service, SendNeedRespCmd, Goto, callers, reading, socket, history
<1>2. svc'.inProgress => \A u \in Callers : Running(u) => Running(u)'
  BY DEF TypeOK, Service, Running, SendNeedRespCmd, Goto, callers
<1>3. \A u \in Callers : Finisher(u)' => Finisher(u)
  BY DEF TypeOK, Finisher, SendNeedRespCmd, Goto, callers
<1> QED
  BY <1>1, <1>2, <1>3, CallerKept

LEMMA WaitCallback ==
  ASSUME TypeOK, CallbackInv, NEW t \in Callers, Wait(t)
  PROVE  CallbackInv'
<1>1. /\ UNCHANGED <<events, called, parts, owner, reader, held, open>>
      /\ svc'.response = svc.response /\ svc'.isAsync = svc.isAsync
      /\ svc'.inProgress => svc.inProgress
  BY DEF TypeOK, Service, Wait, Goto, Inside, callers, reading, socket, history
<1>2. svc'.inProgress => \A u \in Callers : Running(u) => Running(u)'
  BY DEF TypeOK, Service, Running, Wait, Goto, Inside, callers
<1>3. \A u \in Callers : Finisher(u)' => Finisher(u)
  BY DEF TypeOK, Finisher, Wait, Goto, Inside, callers
<1> QED
  BY <1>1, <1>2, <1>3, CallerKept

LEMMA HandledCallback ==
  ASSUME TypeOK, CallbackInv, NEW t \in Callers, Handled(t)
  PROVE  CallbackInv'
<1>1. /\ UNCHANGED <<events, called, parts, owner, reader, held, open>>
      /\ svc'.response = svc.response /\ svc'.isAsync = svc.isAsync
      /\ svc'.inProgress => svc.inProgress
  BY DEF TypeOK, Service, Handled, Goto, Inside, callers, reading, socket, history
<1>2. svc'.inProgress => \A u \in Callers : Running(u) => Running(u)'
  BY DEF TypeOK, Service, Running, Handled, Goto, Inside, callers
<1>3. \A u \in Callers : Finisher(u)' => Finisher(u)
  BY DEF TypeOK, Finisher, Handled, Goto, Inside, callers
<1> QED
  BY <1>1, <1>2, <1>3, CallerKept

LEMMA CompleteCallback ==
  ASSUME TypeOK, CallbackInv, NEW t \in Callers, Complete(t)
  PROVE  CallbackInv'
<1>1. /\ UNCHANGED <<events, called, parts, owner, reader, held, open>>
      /\ svc'.response = svc.response /\ svc'.isAsync = svc.isAsync
      /\ svc'.inProgress => svc.inProgress
  BY DEF TypeOK, Service, Complete, Goto, Inside, callers, reading, socket, history
<1>2. svc'.inProgress => \A u \in Callers : Running(u) => Running(u)'
  BY DEF TypeOK, Service, Running, Complete, Goto, Inside, callers
<1>3. \A u \in Callers : Finisher(u)' => Finisher(u)
  BY DEF TypeOK, Finisher, Complete, Goto, Inside, callers
<1> QED
  BY <1>1, <1>2, <1>3, CallerKept

LEMMA ExecNoRespCmdCallback ==
  ASSUME TypeOK, CallbackInv, NEW t \in Callers, ExecNoRespCmd(t)
  PROVE  CallbackInv'
<1>1. /\ UNCHANGED <<events, called, parts, owner, reader, held, open>>
      /\ svc'.response = svc.response /\ svc'.isAsync = svc.isAsync
      /\ svc'.inProgress => svc.inProgress
  BY DEF TypeOK, Service, ExecNoRespCmd, callers, reading, socket, history
<1>2. svc'.inProgress => \A u \in Callers : Running(u) => Running(u)'
  BY DEF TypeOK, Service, Running, ExecNoRespCmd, callers
<1>3. \A u \in Callers : Finisher(u)' => Finisher(u)
  BY DEF TypeOK, Finisher, ExecNoRespCmd, callers
<1> QED
  BY <1>1, <1>2, <1>3, CallerKept

LEMMA LockToPostCallback ==
  ASSUME TypeOK, CallbackInv, NEW t \in Callers, LockToPost(t)
  PROVE  CallbackInv'
<1>1. /\ UNCHANGED <<events, called, parts, owner, reader, held, open>>
      /\ svc'.response = svc.response /\ svc'.isAsync = svc.isAsync
      /\ svc'.inProgress => svc.inProgress
  BY DEF TypeOK, Service, LockToPost, Goto, Inside, callers, reading, socket, history
<1>2. svc'.inProgress => \A u \in Callers : Running(u) => Running(u)'
  BY DEF TypeOK, Service, Running, LockToPost, Goto, Inside, callers
<1>3. \A u \in Callers : Finisher(u)' => Finisher(u)
  BY DEF TypeOK, Finisher, LockToPost, Goto, Inside, callers
<1> QED
  BY <1>1, <1>2, <1>3, CallerKept

LEMMA SendNoRespCmdCallback ==
  ASSUME TypeOK, CallbackInv, NEW t \in Callers, SendNoRespCmd(t)
  PROVE  CallbackInv'
<1>1. /\ UNCHANGED <<events, called, parts, owner, reader, held, open>>
      /\ svc'.response = svc.response /\ svc'.isAsync = svc.isAsync
      /\ svc'.inProgress => svc.inProgress
  BY DEF TypeOK, Service, SendNoRespCmd, Goto, callers, reading, socket, history
<1>2. svc'.inProgress => \A u \in Callers : Running(u) => Running(u)'
  BY DEF TypeOK, Service, Running, SendNoRespCmd, Goto, callers
<1>3. \A u \in Callers : Finisher(u)' => Finisher(u)
  BY DEF TypeOK, Finisher, SendNoRespCmd, Goto, callers
<1> QED
  BY <1>1, <1>2, <1>3, CallerKept

\* The command accepted has a number that was never given away.
LEMMA AcceptCmdCallback ==
  ASSUME TypeOK, Numbered, ServiceInv, CallbackInv, NEW t \in Callers, AcceptCmd(t)
  PROVE  CallbackInv'
<1> DEFINE i == Cardinality(Issued) + 1
<1>1. /\ pc[t] = "locked" /\ pc' = [pc EXCEPT ![t] = "accepted"]
      /\ svc'.response = i /\ owner' = [owner EXCEPT ![i] = t]
      /\ UNCHANGED <<events, called, parts, reader, held, open>>
  BY DEF TypeOK, Service, AcceptCmd, Goto, reading, socket
<1>2. i \in Ids \ Issued
  BY <1>1, NextNumber
<1> HIDE DEF i
<1>3. i \in Issued' /\ Issued \subseteq Issued'
  BY <1>1, <1>2, CommandAssumption DEF TypeOK, Issued
<1>4. \A j : /\ Posted(j)' <=> Posted(j)
             /\ InEvent(j)' <=> InEvent(j)
             /\ Called(j)' <=> Called(j)
             /\ Given(j)' <=> Given(j)
  BY <1>1 DEF Posted, InEvent, Called, Given
<1>5. open => ~Waking'
  <2>1. ~svc.inProgress
    BY <1>1 DEF ServiceInv, Exclusive
  <2>2. open => ~Waking
    BY <2>1 DEF ServiceInv, Closing, OneStage, Finishers, InHand, Waking
  <2>3. \A u \in Callers : Finisher(u)' => Finisher(u)
    BY <1>1 DEF TypeOK, Finisher, AcceptCmd
  <2> QED
    BY <1>1, <2>2, <2>3 DEF Waking
<1> HIDE DEF Posted, InEvent, Called, Given, Waking
<1>6. OfIssued' /\ NotYet'
  BY <1>1, <1>2, <1>3, <1>4 DEF CallbackInv, OfIssued, NotYet
<1>7. Once' /\ PostedOnce'
  BY <1>1, <1>4 DEF CallbackInv, Once, PostedOnce
<1>8. Filled'
  BY <1>1, <1>4, <1>5 DEF CallbackInv, Filled
<1> QED
  BY <1>6, <1>7, <1>8 DEF CallbackInv

\* The caller that wakes up is alone in the service, and so the only one to
\* take the response.
LEMMA WakeUpCallback ==
  ASSUME TypeOK, HabitInv, CallbackInv, NEW t \in Callers, WakeUp(t)
  PROVE  CallbackInv'
<1>1. /\ pc[t] = "notified" /\ pc' = [pc EXCEPT ![t] = "handling"]
      /\ called' = [called EXCEPT ![svc.response] = Append(@, t)]
      /\ svc'.response = svc.response /\ svc'.isAsync = svc.isAsync
      /\ UNCHANGED <<call, events, parts, owner, reader, held, open>>
  BY DEF TypeOK, Service, WakeUp, Goto, callers, reading, socket
<1>2. Finisher(t) /\ Busy(t) /\ ~Running(t) /\ ~svc.isAsync
  BY <1>1 DEF HabitInv, SameHabit, Patient, Busy, Finisher, Running
<1>3. svc.inProgress /\ \A u \in Callers : ~Running(u)
  <2>1. \A u \in Callers : Running(u) => Busy(u)
    BY DEF Running, Busy, Finisher
  <2> QED
    BY <1>2, <2>1 DEF HabitInv, Alone
<1>4. \A i \in Ids : i = svc.response => ~Posted(i) /\ ~InEvent(i) /\ called[i] = <<>>
  BY <1>3 DEF CallbackInv, NotYet, Giveable, Given, Called
<1>5. \A i \in Ids : IF i = svc.response THEN called'[i] = <<t>> ELSE called'[i] = called[i]
  <2>1. Append(<<>>, t) = <<t>>
    OBVIOUS
  <2> QED
    BY <1>1, <1>4, <2>1 DEF TypeOK
<1>6. ~Giveable' /\ (Waking' => Waking)
  <2>1. Running(t)' /\ Finisher(t)
    BY <1>1 DEF TypeOK, Running, Finisher
  <2> QED
    BY <1>1, <1>2, <2>1 DEF Giveable, Waking
<1>7. /\ Issued' = Issued
      /\ \A i : (Posted(i)' <=> Posted(i)) /\ (InEvent(i)' <=> InEvent(i))
  BY <1>1 DEF Issued, Posted, InEvent
<1>8. \A i \in Ids : Given(i)' => Given(i) \/ i = svc.response
  BY <1>5, <1>7 DEF Given, Called
<1> HIDE DEF Posted, InEvent, Given, Giveable
<1>9. OfIssued' /\ NotYet'
  <2>1. svc.response \in Ids => svc.response # 0
    BY CommandAssumption DEF Ids
  <2> QED
    BY <1>1, <1>6, <1>7, <1>8, <2>1 DEF CallbackInv, OfIssued, NotYet
<1>10. Once'
  <2> SUFFICES ASSUME NEW i \in Ids
               PROVE  /\ Posted(i)' => ~InEvent(i)'
                      /\ Posted(i)' \/ InEvent(i)' => called'[i] = <<>>
                      /\ Len(called'[i]) <= 1
    BY DEF Once, Called
  <2>1. CASE i = svc.response
    <3>1. called'[i] = <<t>> /\ Len(<<t>>) = 1
      BY <1>5, <2>1
    <3> QED
      BY <1>4, <1>7, <2>1, <3>1
  <2>2. CASE i # svc.response
    <3>1. called'[i] = called[i]
      BY <1>5, <2>2
    <3> QED
      BY <1>7, <3>1 DEF CallbackInv, Once, Called
  <2> QED
    BY <2>1, <2>2
<1>11. PostedOnce'
  BY <1>1 DEF CallbackInv, PostedOnce
<1>12. Filled'
  <2>1. Waking
    BY <1>2 DEF Waking
  <2> QED
    BY <1>1, <1>6, <1>8, <2>1 DEF CallbackInv, Filled
<1> QED
  BY <1>9, <1>10, <1>11, <1>12 DEF CallbackInv

\* What was in the queue of the thread has been given away before.
LEMMA RunCallbackCallback ==
  ASSUME TypeOK, CallbackInv, NEW t \in Callers, RunCallback(t)
  PROVE  CallbackInv'
<1> DEFINE e == Head(events[t])
<1>1. /\ events[t] # <<>> /\ events[t] \in Seq(Ids)
      /\ events' = [events EXCEPT ![t] = Tail(@)]
      /\ called' = [called EXCEPT ![e] = Append(@, t)]
      /\ UNCHANGED <<svc, pc, call, parts, owner, reader, held, open>>
  BY DEF TypeOK, RunCallback, reading, socket
<1>2. /\ e \in Ids /\ e = events[t][1] /\ 1 \in DOMAIN events[t]
      /\ \A n \in DOMAIN Tail(events[t]) :
           n + 1 \in DOMAIN events[t] /\ Tail(events[t])[n] = events[t][n + 1]
      /\ DOMAIN Tail(events[t]) = 1..Len(events[t]) - 1
      /\ Len(events[t]) \in Nat
  BY <1>1, TailElements
<1> HIDE DEF e
<1>3. Posted(e) /\ ~InEvent(e) /\ called[e] = <<>>
  BY <1>2 DEF CallbackInv, Once, Posted, Called
<1>4. /\ events'[t] = Tail(events[t])
      /\ \A u \in Callers : u # t => events'[u] = events[u]
  BY <1>1 DEF TypeOK
<1>5. \A i : Posted(i)' => Posted(i) /\ i # e
  <2> SUFFICES ASSUME NEW u \in Callers, NEW n \in DOMAIN events'[u]
               PROVE  Posted(events'[u][n]) /\ events'[u][n] # e
    BY DEF Posted
  <2>1. CASE u = t
    <3>1. n + 1 \in DOMAIN events[t] /\ events'[t][n] = events[t][n + 1]
      BY <1>2, <1>4, <2>1
    <3>2. n \in 1..Len(events[t]) - 1
      BY <1>2, <1>4, <2>1
    <3>3. n + 1 # 1
      BY <1>2, <3>2
    <3> QED
      BY <1>2, <2>1, <3>1, <3>3 DEF CallbackInv, PostedOnce, Posted
  <2>2. CASE u # t
    BY <1>2, <1>4, <2>2 DEF CallbackInv, PostedOnce, Posted
  <2> QED
    BY <2>1, <2>2
<1>6. PostedOnce'
  <2> SUFFICES ASSUME NEW u \in Callers, NEW v \in Callers,
                      NEW m \in DOMAIN events'[u], NEW n \in DOMAIN events'[v],
                      events'[u][m] = events'[v][n]
               PROVE  u = v /\ m = n
    BY DEF PostedOnce
  <2>1. \A w \in Callers : \A k \in DOMAIN events'[w] :
          IF w = t THEN /\ k + 1 \in DOMAIN events[w] /\ events'[w][k] = events[w][k + 1]
                        /\ k \in 1..Len(events[t]) - 1
                   ELSE k \in DOMAIN events[w] /\ events'[w][k] = events[w][k]
    BY <1>2, <1>4
  <2>2. CASE u # t /\ v # t
    BY <2>1, <2>2 DEF CallbackInv, PostedOnce
  <2>3. CASE u = t /\ v = t
    <3>1. m + 1 = n + 1
      BY <2>1, <2>3 DEF CallbackInv, PostedOnce
    <3>2. m \in Int /\ n \in Int
      BY <1>2, <2>1, <2>3
    <3> QED
      BY <2>3, <3>1, <3>2
  <2>4. CASE ~(u = t <=> v = t)
    BY <2>1, <2>4 DEF CallbackInv, PostedOnce
  <2> QED
    BY <2>2, <2>3, <2>4
<1>7. \A i \in Ids : IF i = e THEN called'[i] = <<t>> ELSE called'[i] = called[i]
  <2>1. Append(<<>>, t) = <<t>>
    OBVIOUS
  <2> QED
    BY <1>1, <1>2, <1>3, <2>1 DEF TypeOK
<1>8. /\ Issued' = Issued
      /\ \A i : InEvent(i)' <=> InEvent(i)
      /\ Giveable' <=> Giveable
      /\ Waking' <=> Waking
  BY <1>1 DEF Issued, InEvent, Giveable, Running, Waking, Finisher
<1>9. \A i \in Ids : Given(i)' => Given(i)
  BY <1>3, <1>5, <1>7, <1>8 DEF Given, Called
<1> HIDE DEF Posted, InEvent, Given, Giveable, Waking
<1>10. OfIssued' /\ NotYet'
  BY <1>1, <1>8, <1>9 DEF CallbackInv, OfIssued, NotYet
<1>11. Once'
  <2> SUFFICES ASSUME NEW i \in Ids
               PROVE  /\ Posted(i)' => ~InEvent(i)'
                      /\ Posted(i)' \/ InEvent(i)' => called'[i] = <<>>
                      /\ Len(called'[i]) <= 1
    BY DEF Once, Called
  <2>1. CASE i = e
    <3>1. called'[i] = <<t>> /\ Len(<<t>>) = 1
      BY <1>7, <2>1
    <3> QED
      BY <1>3, <1>5, <1>8, <2>1, <3>1
  <2>2. CASE i # e
    <3>1. called'[i] = called[i]
      BY <1>7, <2>2
    <3> QED
      BY <1>5, <1>8, <3>1 DEF CallbackInv, Once, Called
  <2> QED
    BY <2>1, <2>2
<1>12. Filled'
  BY <1>1, <1>8, <1>9 DEF CallbackInv, Filled
<1> QED
  BY <1>6, <1>10, <1>11, <1>12 DEF CallbackInv

\* The last message of an answer gives the response to the event, or leaves it
\* to the caller that waits.
LEMMA SetCmdRespDataCallback ==
  ASSUME TypeInv, ServiceInv, CallbackInv, SetCmdRespData
  PROVE  CallbackInv'
<1> TypeOK
  BY DEF TypeInv
<1>1. /\ reader = "adding"
      /\ UNCHANGED <<pc, call, events, called, owner, open>>
      /\ held'.of = held.of
      /\ svc'.isAsync = svc.isAsync /\ svc'.response = svc.response
      /\ parts' = IF held.of = 0 THEN parts ELSE [parts EXCEPT ![svc.response] = @ + 1]
      /\ \/ reader' = "reading" /\ svc' = svc
         \/ /\ reader' = "dispatching" /\ ~svc'.inProgress
            /\ svc.isAsync /\ held'.event = svc.response
         \/ reader' = "notifying" /\ svc' = svc /\ ~svc.isAsync
  BY DEF TypeOK, Service, SetCmdRespData, callers, socket, history
<1>2. \A i \in Ids : parts'[i] >= parts[i] /\ parts[i] \in Nat /\ parts'[i] \in Nat
  BY <1>1 DEF TypeOK
<1>3. open => svc.response \in Ids /\ parts'[svc.response] > 0
  <2> SUFFICES ASSUME open PROVE svc.response \in Ids /\ parts'[svc.response] > 0
    OBVIOUS
  <2>1. held.of # 0 /\ held.of = svc.response
    BY <1>1 DEF ServiceInv, Closing, Listening, OneStage, InHand
  <2>2. held.of \in Ids
    BY <2>1 DEF TypeOK
  <2>3. parts'[svc.response] = parts[svc.response] + 1
    BY <1>1, <2>1, <2>2 DEF TypeOK
  <2> QED
    BY <1>2, <2>1, <2>2, <2>3
<1>4. /\ Issued' = Issued
      /\ \A i : (Posted(i)' <=> Posted(i)) /\ (Called(i)' <=> Called(i)) /\ ~InEvent(i)
      /\ \A i : InEvent(i)' => svc.isAsync /\ i = svc.response
  BY <1>1 DEF Issued, Posted, Called, InEvent
<1>5. svc.isAsync => svc.response \in Ids /\ \A i \in Ids : Given(i) => i # svc.response
  BY <1>1 DEF CallbackInv, NotYet, Giveable, TypeInv, Known
<1>6. \A i : Given(i)' => Given(i) \/ i = svc.response
  BY <1>4 DEF Given
<1> HIDE DEF Posted, Called, InEvent
<1>7. OfIssued'
  <2>1. 0 \notin Ids
    BY CommandAssumption DEF Ids
  <2> QED
    BY <1>1, <1>4, <1>6, <2>1 DEF CallbackInv, OfIssued
<1>8. NotYet'
  <2>1. Giveable' => Giveable /\ reader' # "dispatching"
    BY <1>1 DEF Giveable, Running
  <2>2. reader' # "dispatching" => \A i : Given(i)' => Given(i)
    BY <1>4 DEF Given, InEvent
  <2> HIDE DEF Giveable, Given
  <2> QED
    BY <1>1, <2>1, <2>2 DEF CallbackInv, NotYet
<1>9. Once'
  <2> SUFFICES ASSUME NEW i \in Ids
               PROVE  /\ Posted(i)' => ~InEvent(i)'
                      /\ Posted(i)' \/ InEvent(i)' => ~Called(i)'
                      /\ Len(called'[i]) <= 1
    BY DEF Once
  <2>1. InEvent(i)' => ~Posted(i) /\ ~Called(i)
    BY <1>4, <1>5 DEF Given
  <2> QED
    BY <1>1, <1>4, <2>1 DEF CallbackInv, Once
<1>10. PostedOnce'
  BY <1>1 DEF CallbackInv, PostedOnce
<1>11. Filled'
  BY <1>1, <1>2, <1>3, <1>6 DEF CallbackInv, Filled
<1> QED
  BY <1>7, <1>8, <1>9, <1>10, <1>11 DEF CallbackInv

\* The event goes into one queue.
LEMMA DispatchCallback ==
  ASSUME TypeInv, CallbackInv, Dispatch
  PROVE  CallbackInv'
<1> TypeOK
  BY DEF TypeInv
<1> DEFINE c == svc.callingThread
<1>1. /\ reader = "dispatching" /\ reader' \in {"gone", "reading"}
      /\ events' = [events EXCEPT ![c] = Append(@, held.event)]
      /\ UNCHANGED <<svc, pc, call, held, parts, called, owner, open>>
  BY DEF Dispatch, Onward, socket, history
<1>2. held.event \in Ids /\ InEvent(held.event)
  BY <1>1 DEF TypeInv, Known, InEvent
<1> HIDE DEF c
<1>3. ~Posted(held.event) /\ ~Called(held.event)
  BY <1>2 DEF CallbackInv, Once
<1>4. \A u \in Callers :
        IF u = c
        THEN /\ DOMAIN events'[u] = 1..Len(events[u]) + 1
             /\ DOMAIN events[u] = 1..Len(events[u]) /\ Len(events[u]) \in Nat
             /\ \A n \in 1..Len(events[u]) : events'[u][n] = events[u][n]
             /\ events'[u][Len(events[u]) + 1] = held.event
        ELSE events'[u] = events[u]
  <2>1. \A u \in Callers : events[u] \in Seq(Ids)
    BY DEF TypeOK
  <2>2. \A u \in Callers : events'[u] = IF u = c THEN Append(events[u], held.event)
                                                 ELSE events[u]
    BY <1>1 DEF TypeOK
  <2>3. \A q \in Seq(Ids) :
          /\ DOMAIN Append(q, held.event) = 1..Len(q) + 1
          /\ DOMAIN q = 1..Len(q) /\ Len(q) \in Nat
          /\ \A n \in 1..Len(q) : Append(q, held.event)[n] = q[n]
          /\ Append(q, held.event)[Len(q) + 1] = held.event
    BY <1>2, AppendElements
  <2> QED
    BY <2>1, <2>2, <2>3
<1>5. \A u \in Callers : \A n \in DOMAIN events'[u] :
        \/ n \in DOMAIN events[u] /\ events'[u][n] = events[u][n]
        \/ u = c /\ n = Len(events[u]) + 1 /\ events'[u][n] = held.event
  BY <1>4
<1>6. /\ Issued' = Issued
      /\ \A i : Posted(i)' => Posted(i) \/ i = held.event
      /\ \A i : Called(i)' <=> Called(i)
      /\ \A i : ~InEvent(i)'
      /\ Giveable' => Giveable
      /\ Waking' => Waking
  <2>1. \A i : Posted(i)' => Posted(i) \/ i = held.event
    BY <1>5 DEF Posted
  <2>2. Giveable' => Giveable
    BY <1>1 DEF Giveable, Running
  <2>3. Waking' => Waking
    BY <1>1 DEF Waking, Finisher
  <2> QED
    BY <1>1, <2>1, <2>2, <2>3 DEF Issued, Called, InEvent
<1>7. \A i : Given(i)' => Given(i)
  BY <1>2, <1>6 DEF Given
<1>8. PostedOnce'
  <2> SUFFICES ASSUME NEW u \in Callers, NEW v \in Callers,
                      NEW m \in DOMAIN events'[u], NEW n \in DOMAIN events'[v],
                      events'[u][m] = events'[v][n]
               PROVE  u = v /\ m = n
    BY DEF PostedOnce
  <2>1. events'[u][m] = held.event => u = c /\ m = Len(events[u]) + 1
    BY <1>3, <1>5 DEF Posted
  <2>2. events'[v][n] = held.event => v = c /\ n = Len(events[v]) + 1
    BY <1>3, <1>5 DEF Posted
  <2>3. CASE events'[u][m] = held.event
    BY <2>1, <2>2, <2>3
  <2>4. CASE events'[u][m] # held.event
    <3>1. /\ m \in DOMAIN events[u] /\ events'[u][m] = events[u][m]
          /\ n \in DOMAIN events[v] /\ events'[v][n] = events[v][n]
      BY <1>5, <2>4
    <3>2. events[u][m] = events[v][n] /\ PostedOnce
      BY <3>1 DEF CallbackInv
    <3> QED
      BY <3>1, <3>2 DEF PostedOnce
  <2> QED
    BY <2>3, <2>4
<1> HIDE DEF Posted, Called, InEvent, Given, Giveable, Waking
<1>9. OfIssued' /\ NotYet'
  BY <1>1, <1>6, <1>7 DEF CallbackInv, OfIssued, NotYet
<1>10. Once'
  BY <1>1, <1>3, <1>6 DEF CallbackInv, Once
<1>11. Filled'
  BY <1>1, <1>6, <1>7 DEF CallbackInv, Filled
<1> QED
  BY <1>8, <1>9, <1>10, <1>11 DEF CallbackInv

\* The reader takes a message or notices the end; nobody runs a callback if a
\* caller that does not wait has the command in progress.
LEMMA ReadingCallback ==
  ASSUME HabitInv, CallbackInv, ReadAnswer \/ ReadEnd \/ NotifyPossibleCmdFailure
  PROVE  CallbackInv'
<1>1. /\ UNCHANGED <<svc, pc, call, events, called, parts, owner, open>>
      /\ reader \in {"reading", "leaving"}
      /\ reader' \in {"adding", "gone", "leaving"}
      /\ reader' = "adding" => svc.inProgress
  BY DEF ReadAnswer, ReadEnd, NotifyPossibleCmdFailure, callers, socket, history
<1>2. \A i : ~InEvent(i)'
  BY <1>1 DEF InEvent
<1>3. svc.isAsync => \A u \in Callers : ~Running(u)
  <2>1. \A u \in Callers : Running(u) => Patient(u)
    BY DEF Running, Patient, Finisher
  <2> QED
    BY <2>1 DEF HabitInv, SameHabit
<1>4. Giveable' => Giveable
  <2>1. \A u \in Callers : Running(u)' <=> Running(u)
    BY <1>1 DEF Running
  <2> HIDE DEF Running
  <2> QED
    BY <1>1, <1>3, <2>1 DEF Giveable
<1>5. Waking' => Waking
  BY <1>1 DEF Waking, Finisher
<1> QED
  BY <1>1, <1>2, <1>4, <1>5, CallbackKept

LEMMA NotifyCallback ==
  ASSUME TypeOK, CallbackInv, Notify
  PROVE  CallbackInv'
<1>1. /\ UNCHANGED <<svc, call, events, called, parts, owner, open>>
      /\ reader = "notifying" /\ reader' \in {"gone", "reading"}
      /\ \/ pc' = pc
         \/ \E t \in Callers : pc[t] = "waiting" /\ pc' = [pc EXCEPT ![t] = "notified"]
  BY DEF Notify, Onward, Waiting, Goto, callers, socket, history
<1>2. \A i : ~InEvent(i)'
  BY <1>1 DEF InEvent
<1>3. Giveable' => Giveable
  <2>1. \A u \in Callers : Running(u) => Running(u)'
    BY <1>1 DEF TypeOK, Running
  <2> HIDE DEF Running
  <2> QED
    BY <1>1, <2>1 DEF Giveable
<1>4. Waking
  BY <1>1 DEF Waking
<1> QED
  BY <1>1, <1>2, <1>3, <1>4, CallbackKept

LEMMA ManagerCallback ==
  ASSUME CallbackInv, Manager \/ Close \/ UNCHANGED vars
  PROVE  CallbackInv'
<1>1. /\ UNCHANGED <<svc, pc, call, events, reader, held, parts, called, owner>>
      /\ open' => open
  BY DEF Manager, TakeNoRespCmd, Answer, Close, vars, callers, reading, socket, history
<1>2. \A i : InEvent(i)' => InEvent(i)
  BY <1>1 DEF InEvent
<1>3. (Giveable' => Giveable) /\ (Waking' => Waking)
  BY <1>1 DEF Giveable, Running, Waking, Finisher
<1> QED
  BY <1>1, <1>2, <1>3, CallbackKept

LEMMA CallbackStep ==
  TypeInv /\ ServiceInv /\ HabitInv /\ CallbackInv /\ [Next]_vars => CallbackInv'
<1> SUFFICES ASSUME TypeInv, ServiceInv, HabitInv, CallbackInv, [Next]_vars
             PROVE  CallbackInv'
  OBVIOUS
<1> TypeOK /\ Numbered
  BY DEF TypeInv
<1>1. ASSUME NEW t \in Callers, BasicCmdCheck(t) \/ ExecNoRespCmd(t) \/ Proceed(t)
      PROVE  CallbackInv'
  BY <1>1, BasicCmdCheckCallback, ExecNoRespCmdCallback, LockCmdCallback,
     AcceptCmdCallback, LockToMgrCallback, EnterMonitorCallback, SendNeedRespCmdCallback,
     WaitCallback, WakeUpCallback, HandledCallback, CompleteCallback, LockToPostCallback,
     SendNoRespCmdCallback, RunCallbackCallback
  DEF Proceed
<1>2. CASE Reader
  BY <1>2, ReadingCallback, SetCmdRespDataCallback, DispatchCallback, NotifyCallback
  DEF Reader
<1>3. CASE Manager \/ Close \/ UNCHANGED vars
  BY <1>3, ManagerCallback
<1> QED
  BY <1>1, <1>2, <1>3 DEF Next

-----------------------------------------------------------------------------
(* The theorems, for callers that agree.                                   *)

ServedInv == TypeInv /\ ServiceInv /\ HabitInv /\ CallbackInv

LEMMA Served ==
  ASSUME \A h \in Habits : Agree(h)
  PROVE  Spec => []ServedInv
<1>1. Init => ServedInv
  BY TypeInit, ServiceInit, HabitInit, CallbackInit DEF ServedInv
<1>2. ServedInv /\ [Next]_vars => ServedInv'
  <2> SUFFICES ASSUME ServedInv, [Next]_vars PROVE ServedInv'
    OBVIOUS
  <2>1. TypeInv /\ ServiceInv /\ HabitInv /\ CallbackInv /\ TypeOK
    BY DEF ServedInv, TypeInv
  <2>2. Agree(habit)
    BY <2>1 DEF TypeOK
  <2> QED
    BY <2>1, <2>2, TypeStep, ServiceStep, HabitStep, CallbackStep DEF ServedInv
<1> QED
  BY <1>1, <1>2, PTL DEF Spec

\* A command that the manager has not answered, or whose answer has not been
\* read, is the one in progress, and nobody runs a callback.
LEMMA UnansweredGiveable ==
  ASSUME TypeOK, ServiceInv, open, NEW i \in Unanswered
  PROVE  i = svc.response /\ Giveable
<1>1. Listening /\ OneStage
  BY DEF ServiceInv, Closing
<1>2. i \in Ids /\ i # 0
  BY CommandAssumption DEF Unanswered, Ids
<1>3. svc.inProgress /\ i = svc.response /\ ~Quiet
  BY <1>1, <1>2 DEF OneStage, Requests, Answers, InHand, Unanswered, Quiet, Asked
<1>4. \A u \in Callers : ~Running(u)
  BY <1>1, <1>3 DEF OneStage, Finishers, Finisher, Running
<1> QED
  BY <1>3, <1>4 DEF Giveable

\* "Callback function to invoke when response is ready" (aptIManagerCmdService.idl:56):
\* while the manager is there a callback runs when every message of the answer has
\* been added to the response, and it never runs twice, whether callers wait, or
\* not, or a single one does both.
THEOREM CallbacksWhenReady ==
  ASSUME \A h \in Habits : Agree(h)
  PROVE  Spec => []CalledWhenReady
<1>1. ServedInv => CalledWhenReady
  <2> SUFFICES ASSUME ServedInv, NEW i \in Ids
               PROVE  /\ Len(called[i]) <= 1
                      /\ called[i] # <<>> /\ open => parts[i] > 0 /\ i \notin Unanswered
    BY DEF CalledWhenReady
  <2>1. TypeOK /\ ServiceInv /\ CallbackInv
    BY DEF ServedInv, TypeInv
  <2>2. Len(called[i]) <= 1
    BY <2>1 DEF CallbackInv, Once
  <2>3. ASSUME Called(i), open PROVE parts[i] > 0 /\ i \notin Unanswered
    <3>1. Given(i)
      BY <2>3 DEF Given
    <3>2. parts[i] > 0
      BY <2>1, <2>3, <3>1 DEF CallbackInv, Filled
    <3>3. i \notin Unanswered
      BY <2>1, <2>3, <3>1, UnansweredGiveable DEF CallbackInv, NotYet
    <3> QED
      BY <3>2, <3>3
  <2> QED
    BY <2>2, <2>3 DEF Called
<1> QED
  BY <1>1, Served, PTL

\* A caller takes mToMgrLock before it enters the monitor to send, and one that is
\* in the monitor with its callback takes mToMgrLock: the two never meet, so that
\* neither waits for the other (aptManagerCmdService.cpp:128, 232, 244).
THEOREM LocksInOrder ==
  ASSUME \A h \in Habits : Agree(h)
  PROVE  Spec => []LockOrder
<1>1. ServedInv => LockOrder
  <2> SUFFICES ASSUME ServedInv, NEW s \in Callers, NEW t \in Callers,
                      pc[s] = "entering", pc[t] = "posting", svc.monitor = t
               PROVE  FALSE
    BY DEF LockOrder
  <2>1. HabitInv
    BY DEF ServedInv
  <2>2. ~svc.isAsync /\ Busy(s) /\ Busy(t)
    BY <2>1 DEF HabitInv, InMonitor, MayHold, Running, Busy, Sender, Finisher
  <2> QED
    BY <2>1, <2>2 DEF HabitInv, Alone
<1> QED
  BY <1>1, Served, PTL

=============================================================================
