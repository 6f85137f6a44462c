------------------------ MODULE MCManagerCmdService ------------------------
(* Small instances of ManagerCmdService for TLC. *)
EXTENDS ManagerCmdService

\* Every caller waits, none does, or a single one issues all commands that
\* need a response and may do either.
Agreeing ==
  {[t \in Callers |-> {a}] : a \in BOOLEAN}
    \cup {[t \in Callers |-> IF t = s THEN BOOLEAN ELSE {}] : s \in Callers}
=============================================================================
