------------------------------ MODULE Mailboxes ------------------------------
(***************************************************************************)
(* What JaxerManager takes for granted of the manager's lists: the idle    *)
(* list hands out the server that has been on it longest, and each server  *)
(* has a mailbox of its own, in which a message stays until it is read.    *)
(*                                                                         *)
(* ManagerLists, with linked lists and one list of messages for everybody, *)
(* implements it.                                                          *)
(***************************************************************************)
EXTENDS Naturals, Sequences

CONSTANTS
  Servers,
  Letters, \* each says whom it is for
  Nothing, \* no letter
  Most      \* letters that may be waiting for a server when it joins

VARIABLES
  idle,     \* servers with nothing to do, longest first
  box,      \* letters each server has not read
  reading,  \* the letter it is being sent
  working,  \* servers with a request
  members   \* servers with a mailbox

vars == <<idle, box, reading, working, members>>

For(s) == {letter \in Letters : letter.for = {s}}
OnIdle == {idle[i] : i \in DOMAIN idle}

Init ==
  /\ idle = <<>>
  /\ box = [s \in Servers |-> <<>>]
  /\ reading = [s \in Servers |-> Nothing]
  /\ working = {}
  /\ members = {}

\* s, with the letters q before it, reads the first; with none it works or rests.
Proceed(s, q) ==
  IF q # <<>>
  THEN /\ reading' = [reading EXCEPT ![s] = Head(q)]
       /\ box' = [box EXCEPT ![s] = Tail(q)]
       /\ working' = working \ {s}
       /\ UNCHANGED idle
  ELSE /\ reading' = [reading EXCEPT ![s] = Nothing]
       /\ box' = [box EXCEPT ![s] = <<>>]
       /\ \/ working' = working \cup {s} /\ UNCHANGED idle
          \/ working' = working \ {s} /\ idle' = Append(idle, s)

Join(s, q) ==
  /\ members' = members \cup {s}
  /\ Proceed(s, q)

Continue(s) ==
  /\ UNCHANGED members
  /\ s \in working \/ reading[s] # Nothing
  /\ Proceed(s, box[s])

\* Of those it is for, the idle ones read a letter at once.
Post(letter) ==
  /\ UNCHANGED <<working, members>>
  /\ reading' = [s \in Servers |-> IF s \in letter.for \cap OnIdle THEN letter ELSE reading[s]]
  /\ box' = [s \in Servers |->
               IF s \in (letter.for \cap members) \ OnIdle
               THEN Append(box[s], letter) ELSE box[s]]
  /\ idle' = SelectSeq(idle, LAMBDA s : s \notin letter.for)

\* The server that has been idle longest gets a request, and maybe a letter.
Work(q) ==
  /\ idle # <<>>
  /\ idle' = Tail(idle)
  /\ working' = working \cup {Head(idle)}
  /\ box' = [box EXCEPT ![Head(idle)] = q]
  /\ UNCHANGED <<reading, members>>

Leave(s) ==
  /\ members' = members \ {s}
  /\ working' = working \ {s}
  /\ idle' = SelectSeq(idle, LAMBDA t : t # s)
  /\ box' = [box EXCEPT ![s] = <<>>]
  /\ reading' = [reading EXCEPT ![s] = Nothing]

Next ==
  \/ \E s \in members : Continue(s) \/ Leave(s)
  \/ \E s \in Servers \ members, n \in 0..Most :
       \E q \in [1..n -> For(s)] : Join(s, q)
  \/ \E letter \in Letters : Post(letter)
  \/ Work(<<>>)
  \/ idle # <<>> /\ \E letter \in For(Head(idle)) : Work(<<letter>>)

Spec == Init /\ [][Next]_vars
=============================================================================
