-------------------------- MODULE ManagerCmdService --------------------------
(***************************************************************************)
(* aptManagerCmdService: how the threads of a Jaxer worker send commands   *)
(* to the manager and get the answers.                                     *)
(*                                                                         *)
(* Several threads may call the service; one more, aptMgrCmdReader, reads  *)
(* what the manager sends and hands answers to the service.  They share    *)
(* the fields of the service, two locks and a monitor.  An action is the   *)
(* code between two points at which another thread can interfere.          *)
(*                                                                         *)
(* Answers do not name the command they answer; "of" in a message is there *)
(* to say whether they reach the right one.                                *)
(*                                                                         *)
(* A definition whose comment starts with "Faulty" is a plausible error in *)
(* the one after it; the specification does not use it.                    *)
(***************************************************************************)
EXTENDS Integers, Sequences, FiniteSets

CONSTANTS
  Callers,      \* threads that call the service
  Nobody,       \* holder of a free lock, null mCallingThread
  MaxCommands,  \* bound: commands that need a response
  MaxOthers,    \* bound: commands that need none
  MaxParts,     \* bound: messages of one answer
  Habits        \* values of bAsync each caller uses, one choice for a process

ASSUME CommandAssumption ==
  /\ IsFiniteSet(Callers)
  /\ Nobody \notin Callers
  /\ MaxCommands \in Nat
  /\ MaxOthers \in Nat
  /\ MaxParts \in Nat \ {0}
  /\ Habits \subseteq [Callers -> SUBSET BOOLEAN]

VARIABLES
  svc,        \* the fields of the service, its locks and its monitor
  pc,         \* where each caller is
  call,       \* the arguments of each caller's call
  events,     \* callbacks dispatched to each caller's event queue
  reader,     \* where the reader thread is
  held,       \* the message and the callback it works on
  parts,      \* messages in the response object of each command
  toManager,  \* socket: commands, 0 for one that needs no response
  toWorker,   \* socket: answers
  open,       \* the manager has its end of the socket
  habit,      \* the member of Habits this process follows
  owner,      \* history: the caller of each command
  called,     \* history: threads that ran the callback of each command
  failed,     \* history: commands whose call returned an error
  spent       \* how much of MaxOthers and MaxParts is used up

callers == <<call, events>>
reading == <<reader, held, parts>>
socket == <<toManager, toWorker, open>>
history == <<owner, called, failed>>
unspent == <<spent, habit>>
vars == <<svc, pc, callers, reading, socket, history, unspent>>

Ids == 1..MaxCommands
Issued == {i \in Ids : owner[i] # Nobody}
Asking == {t \in Callers : pc[t] \in {"checked", "locked"}}

\* The fields; response is the command mResponse and mCallback belong to.
Service ==
  [ inProgress    : BOOLEAN,
    isAsync       : BOOLEAN,
    callingThread : Callers \cup {Nobody},
    response      : {0} \cup Ids,
    cmdLock       : Callers \cup {Nobody},
    toMgrLock     : Callers \cup {Nobody},
    monitor       : Callers \cup {Nobody} ]

\* What NotifyPossibleCmdFailure passes: it answers nothing.
NoAnswer == [of |-> 0, more |-> FALSE, event |-> 0]

Init ==
  /\ svc = [ inProgress |-> FALSE, isAsync |-> FALSE, callingThread |-> Nobody,
             response |-> 0, cmdLock |-> Nobody, toMgrLock |-> Nobody,
             monitor |-> Nobody ]
  /\ pc = [t \in Callers |-> "idle"]
  /\ call = [t \in Callers |-> [async |-> FALSE, id |-> 0, back |-> "idle"]]
  /\ events = [t \in Callers |-> <<>>]
  /\ reader = "reading"
  /\ held = NoAnswer
  /\ parts = [i \in Ids |-> 0]
  /\ toManager = <<>> /\ toWorker = <<>> /\ open = TRUE
  /\ owner = [i \in Ids |-> Nobody]
  /\ called = [i \in Ids |-> <<>>]
  /\ failed = {}
  /\ spent = [others |-> 0, parts |-> 0]
  /\ habit \in Habits

-----------------------------------------------------------------------------
(* ExecNeedRespCmd.                                                        *)

Goto(t, from, to) == pc[t] = from /\ pc' = [pc EXCEPT ![t] = to]

\* A step of a caller inside the service.
Inside == UNCHANGED <<callers, reading, socket, history, unspent>>

\* BasicCmdCheck, without a lock.
BasicCmdCheck(t) ==
  /\ Cardinality(Issued) + Cardinality(Asking) < MaxCommands
  /\ ~svc.inProgress
  /\ Goto(t, "idle", "checked")
  /\ \E a \in habit[t] : call' = [call EXCEPT ![t].async = a]
  /\ UNCHANGED <<svc, events, reading, socket, history, unspent>>

\* Faulty: relies on the first check.
LockCmdUnchecked(t) ==
  /\ svc.cmdLock = Nobody
  /\ Goto(t, "checked", "locked")
  /\ svc' = [svc EXCEPT !.cmdLock = t]
  /\ Inside

\* Locks mCmdLock and checks again.
LockCmd(t) ==
  /\ svc.cmdLock = Nobody
  /\ IF svc.inProgress
     THEN Goto(t, "checked", "idle") /\ UNCHANGED svc
     ELSE Goto(t, "checked", "locked") /\ svc' = [svc EXCEPT !.cmdLock = t]
  /\ Inside

\* Describes the command, sets mCmdInProgress and unlocks mCmdLock.
AcceptCmd(t) ==
  LET i == Cardinality(Issued) + 1
  IN  /\ Goto(t, "locked", "accepted")
      /\ svc' = [svc EXCEPT !.isAsync = call[t].async, !.callingThread = t,
                            !.response = i, !.inProgress = TRUE,
                            !.cmdLock = Nobody]
      /\ call' = [call EXCEPT ![t].id = i]
      /\ owner' = [owner EXCEPT ![i] = t]
      /\ UNCHANGED <<events, reading, socket, called, failed, unspent>>

\* Faulty: nobody enters the monitor before sending.
LockToMgrOnly(t) ==
  /\ svc.toMgrLock = Nobody
  /\ Goto(t, "accepted", "sending")
  /\ svc' = [svc EXCEPT !.toMgrLock = t]
  /\ Inside

\* Locks mToMgrLock and fills mCmdBuf.
LockToMgr(t) ==
  /\ svc.toMgrLock = Nobody
  /\ Goto(t, "accepted", IF svc.isAsync THEN "sending" ELSE "entering")
  /\ svc' = [svc EXCEPT !.toMgrLock = t]
  /\ Inside

\* A caller that will wait enters the monitor before it sends.
EnterMonitor(t) ==
  /\ svc.monitor = Nobody
  /\ Goto(t, "entering", "sending")
  /\ svc' = [svc EXCEPT !.monitor = t]
  /\ Inside

LeaveMonitor(t) == IF svc.monitor = t THEN Nobody ELSE svc.monitor

\* Faulty: a caller that does not wait is done with its command.
SendAndForget(t) ==
  /\ Goto(t, "sending", "sent")
  /\ toManager' = IF open THEN Append(toManager, call[t].id) ELSE toManager
  /\ svc' = [svc EXCEPT !.toMgrLock = Nobody,
                        !.inProgress = @ /\ ~call[t].async]
  /\ UNCHANGED <<callers, reading, toWorker, open, history, unspent>>

\* SendCmdToManager, then unlocks mToMgrLock.  When it fails mCmdInProgress is
\* cleared and the monitor left: PR_ExitMonitor refuses a thread that is not in.
SendNeedRespCmd(t) ==
  /\ IF open
     THEN /\ Goto(t, "sending", "sent")
          /\ toManager' = Append(toManager, call[t].id)
          /\ svc' = [svc EXCEPT !.toMgrLock = Nobody]
          /\ UNCHANGED failed
     ELSE /\ Goto(t, "sending", "idle")
          /\ svc' = [svc EXCEPT !.toMgrLock = Nobody, !.inProgress = FALSE,
                                !.monitor = LeaveMonitor(t)]
          /\ failed' = failed \cup {call[t].id}
          /\ UNCHANGED toManager
  /\ UNCHANGED <<callers, reading, toWorker, open, owner, called, unspent>>

\* Reads mIsAsync once more: an asynchronous call returns, a synchronous one
\* leaves the monitor in PR_Wait and waits to be notified.  PR_Wait clears the
\* owner of the monitor whoever calls it; what follows the call of a thread
\* that is not the owner is undefined, and nothing is stated beyond it.
Wait(t) ==
  /\ IF svc.isAsync
     THEN Goto(t, "sent", "idle") /\ UNCHANGED svc
     ELSE Goto(t, "sent", "waiting") /\ svc' = [svc EXCEPT !.monitor = Nobody]
  /\ Inside

\* Faulty: the next command is let in before the callback has returned.
WakeUpDone(t) ==
  /\ svc.monitor = Nobody
  /\ Goto(t, "notified", "handling")
  /\ svc' = [svc EXCEPT !.monitor = t, !.inProgress = FALSE]
  /\ called' = [called EXCEPT ![svc.response] = Append(@, t)]
  /\ UNCHANGED <<callers, reading, socket, owner, failed, unspent>>

\* PR_Wait returns in the monitor and HandleResponse begins.
WakeUp(t) ==
  /\ svc.monitor = Nobody
  /\ Goto(t, "notified", "handling")
  /\ svc' = [svc EXCEPT !.monitor = t]
  /\ called' = [called EXCEPT ![svc.response] = Append(@, t)]
  /\ UNCHANGED <<callers, reading, socket, owner, failed, unspent>>

\* HandleResponse returns and the monitor is left.
Handled(t) ==
  /\ Goto(t, "handling", "handled")
  /\ svc' = [svc EXCEPT !.monitor = Nobody]
  /\ Inside

Complete(t) ==
  /\ Goto(t, "handled", "idle")
  /\ svc' = [svc EXCEPT !.inProgress = FALSE]
  /\ Inside

-----------------------------------------------------------------------------
(* ExecNoRespCmd and ExecEndReqCmd, also from a callback of the service.   *)

ExecNoRespCmd(t) ==
  /\ spent.others < MaxOthers
  /\ spent' = [spent EXCEPT !.others = @ + 1]
  /\ pc[t] \in {"idle", "handling"}
  /\ pc' = [pc EXCEPT ![t] = "posting"]
  /\ call' = [call EXCEPT ![t].back = pc[t]]
  /\ UNCHANGED <<svc, events, reading, socket, history, habit>>

LockToPost(t) ==
  /\ svc.toMgrLock = Nobody
  /\ Goto(t, "posting", "writing")
  /\ svc' = [svc EXCEPT !.toMgrLock = t]
  /\ Inside

SendNoRespCmd(t) ==
  /\ Goto(t, "writing", call[t].back)
  /\ svc' = [svc EXCEPT !.toMgrLock = Nobody]
  /\ toManager' = IF open THEN Append(toManager, 0) ELSE toManager
  /\ UNCHANGED <<callers, reading, toWorker, open, history, unspent>>

\* aptCallbackEvent::Run, from the event loop of the thread.
RunCallback(t) ==
  /\ pc[t] = "idle"
  /\ events[t] # <<>>
  /\ events' = [events EXCEPT ![t] = Tail(@)]
  /\ called' = [called EXCEPT ![Head(events[t])] = Append(@, t)]
  /\ UNCHANGED <<svc, pc, call, reading, socket, owner, failed, unspent>>

-----------------------------------------------------------------------------
(* aptMgrCmdReader: the loop over messages and SetCmdRespData.             *)

\* An answer; without a command in progress the thread ends with an error.
ReadAnswer ==
  /\ reader = "reading"
  /\ toWorker # <<>>
  /\ held' = [NoAnswer EXCEPT !.of = Head(toWorker).of, !.more = Head(toWorker).more]
  /\ toWorker' = Tail(toWorker)
  /\ reader' = IF svc.inProgress THEN "adding" ELSE "gone"
  /\ UNCHANGED <<svc, pc, callers, parts, toManager, open, history, unspent>>

\* The manager has closed the socket: the loop ends, and what was sent before
\* may be lost.
ReadEnd ==
  /\ reader = "reading"
  /\ ~open
  /\ reader' = "leaving"
  /\ UNCHANGED <<svc, pc, callers, held, parts, socket, history, unspent>>

\* NotifyPossibleCmdFailure, and the first check of SetCmdRespData.
NotifyPossibleCmdFailure ==
  /\ reader = "leaving"
  /\ held' = NoAnswer
  /\ reader' = IF svc.inProgress THEN "adding" ELSE "gone"
  /\ UNCHANGED <<svc, pc, callers, parts, socket, history, unspent>>

\* Where the thread goes after SetCmdRespData.
Onward == IF held.of = 0 THEN "gone" ELSE "reading"

\* Faulty: does not wait for the last message.
SetOnFirst ==
  /\ reader = "adding"
  /\ parts' = IF held.of = 0 THEN parts ELSE [parts EXCEPT ![svc.response] = @ + 1]
  /\ IF svc.isAsync
     THEN /\ reader' = "dispatching"
          /\ held' = [held EXCEPT !.event = svc.response]
          /\ svc' = [svc EXCEPT !.inProgress = FALSE]
     ELSE reader' = "notifying" /\ UNCHANGED <<svc, held>>
  /\ UNCHANGED <<pc, callers, socket, history, unspent>>

\* Faulty: gives the response up before it goes into the event.
SetAndRelease ==
  /\ reader = "adding"
  /\ parts' = IF held.of = 0 THEN parts ELSE [parts EXCEPT ![svc.response] = @ + 1]
  /\ IF held.more THEN reader' = "reading" /\ UNCHANGED <<svc, held>>
     ELSE IF svc.isAsync
     THEN /\ reader' = "dispatching"
          /\ svc' = [svc EXCEPT !.inProgress = FALSE, !.response = 0]
          /\ held' = [held EXCEPT !.event = svc'.response]
     ELSE reader' = "notifying" /\ UNCHANGED <<svc, held>>
  /\ UNCHANGED <<pc, callers, socket, history, unspent>>

\* mResponse->Init adds the message to the response, or refuses one that is no
\* answer.  The last one of an asynchronous command ends it.
SetCmdRespData ==
  /\ reader = "adding"
  /\ parts' = IF held.of = 0 THEN parts
              ELSE [parts EXCEPT ![svc.response] = @ + 1]
  /\ IF held.more THEN reader' = "reading" /\ UNCHANGED <<svc, held>>
     ELSE IF svc.isAsync
     THEN /\ reader' = "dispatching"
          /\ held' = [held EXCEPT !.event = svc.response]
          /\ svc' = [svc EXCEPT !.inProgress = FALSE]
     ELSE reader' = "notifying" /\ UNCHANGED <<svc, held>>
  /\ UNCHANGED <<pc, callers, socket, history, unspent>>

\* Dispatches the callback to mCallingThread.
Dispatch ==
  /\ reader = "dispatching"
  /\ events' = [events EXCEPT ![svc.callingThread] = Append(@, held.event)]
  /\ reader' = Onward
  /\ UNCHANGED <<svc, pc, call, held, parts, socket, history, unspent>>

Waiting == {t \in Callers : pc[t] = "waiting"}

\* Enters the monitor, notifies one waiting thread if there is one, leaves.
Notify ==
  /\ reader = "notifying"
  /\ svc.monitor = Nobody
  /\ IF Waiting = {} THEN UNCHANGED pc ELSE \E t \in Waiting : Goto(t, "waiting", "notified")
  /\ reader' = Onward
  /\ UNCHANGED <<svc, callers, held, parts, socket, history, unspent>>

-----------------------------------------------------------------------------
(* The manager: RecvServerMsg and ProcessNeedRespCmd, one message at a     *)
(* time, or its end.                                                       *)

TakeNoRespCmd ==
  /\ open
  /\ toManager # <<>> /\ Head(toManager) = 0
  /\ toManager' = Tail(toManager)
  /\ UNCHANGED <<svc, pc, callers, reading, toWorker, open, history, unspent>>

Answer ==
  /\ open
  /\ toManager # <<>> /\ Head(toManager) # 0
  /\ \E more \in BOOLEAN :
       /\ more => spent.parts < MaxParts - 1
       /\ toWorker' = Append(toWorker, [of |-> Head(toManager), more |-> more])
       /\ toManager' = IF more THEN toManager ELSE Tail(toManager)
       /\ spent' = [spent EXCEPT !.parts = IF more THEN @ + 1 ELSE 0]
  /\ UNCHANGED <<svc, pc, callers, reading, open, history, habit>>

Close ==
  /\ open
  /\ open' = FALSE
  /\ toManager' = <<>>
  /\ UNCHANGED <<svc, pc, callers, reading, toWorker, history, unspent>>

-----------------------------------------------------------------------------
\* Steps of a caller that has begun a call, or has a callback to run.
Proceed(t) ==
  \/ LockCmd(t)
  \/ AcceptCmd(t)
  \/ LockToMgr(t)
  \/ EnterMonitor(t)
  \/ SendNeedRespCmd(t)
  \/ Wait(t)
  \/ WakeUp(t)
  \/ Handled(t)
  \/ Complete(t)
  \/ LockToPost(t)
  \/ SendNoRespCmd(t)
  \/ RunCallback(t)

Reader ==
  \/ ReadAnswer
  \/ ReadEnd
  \/ NotifyPossibleCmdFailure
  \/ SetCmdRespData
  \/ Dispatch
  \/ Notify

Manager == TakeNoRespCmd \/ Answer

Next ==
  \/ \E t \in Callers : BasicCmdCheck(t) \/ ExecNoRespCmd(t) \/ Proceed(t)
  \/ Reader
  \/ Manager
  \/ Close

Spec == Init /\ [][Next]_vars

\* The threads run, a caller processes its events as the interface asks of it,
\* and the manager serves its sockets.  Nothing makes a caller call or the
\* manager end.
Fairness ==
  /\ \A t \in Callers : WF_vars(Proceed(t))
  /\ WF_vars(Reader)
  /\ WF_vars(Manager)

FairSpec == Spec /\ Fairness
-----------------------------------------------------------------------------
Outside == {"idle", "checked"}
Steps ==
  Outside \cup {"locked", "accepted", "entering", "sending", "sent", "waiting",
                "notified", "handling", "handled", "posting", "writing"}
TypeOK ==
  /\ svc \in Service
  /\ pc \in [Callers -> Steps]
  /\ call \in [Callers -> [async : BOOLEAN, id : {0} \cup Ids, back : {"idle", "handling"}]]
  /\ events \in [Callers -> Seq(Ids)]
  /\ reader \in {"reading", "adding", "notifying", "dispatching", "leaving", "gone"}
  /\ held \in [of : {0} \cup Ids, more : BOOLEAN, event : {0} \cup Ids]
  /\ parts \in [Ids -> Nat]
  /\ toManager \in Seq({0} \cup Ids)
  /\ toWorker \in Seq([of : Ids, more : BOOLEAN])
  /\ open \in BOOLEAN
  /\ owner \in [Ids -> Callers \cup {Nobody}]
  /\ called \in [Ids -> Seq(Callers)]
  /\ failed \in SUBSET Ids
  /\ spent \in [others : Nat, parts : Nat]
  /\ habit \in Habits

\* Commands the manager has not answered, or whose answer has not been read.
Unanswered ==
  {i \in Ids :
    \/ \E n \in DOMAIN toManager : toManager[n] = i
    \/ \E n \in DOMAIN toWorker : toWorker[n].of = i
    \/ reader = "adding" /\ held.of = i}

\* "Only one NeedRespCmd can be issued" (aptManagerCmdService.h:78): the
\* manager, which answers without saying what, never has two to answer.
OneCommand == Cardinality(Unanswered) <= 1

\* A message of an answer is added to the response of its own command.
AnswersReachTheirCommand ==
  reader = "adding" /\ held.of # 0 => held.of = svc.response

\* While the manager is there, a callback runs when its response is complete
\* (aptIManagerCmdService.idl:56), and never twice.
CalledWhenReady ==
  \A i \in Ids :
    /\ Len(called[i]) <= 1
    /\ called[i] # <<>> /\ open => parts[i] > 0 /\ i \notin Unanswered

\* A caller that holds mToMgrLock and wants the monitor never meets one that
\* is in the monitor, runs a callback and wants mToMgrLock.
LockOrder ==
  ~ \E s, t \in Callers : /\ pc[s] = "entering" /\ svc.toMgrLock = s
                          /\ pc[t] = "posting" /\ svc.monitor = t

\* Every command that was let in ends: its callback runs or its call fails.
CommandEnds ==
  \A i \in Ids : owner[i] # Nobody ~> called[i] # <<>> \/ i \in failed
=============================================================================
