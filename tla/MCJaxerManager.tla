--------------------------- MODULE MCJaxerManager ---------------------------
(* Small instances of JaxerManager for TLC. *)
EXTENDS JaxerManager, TLC

\* Connections differ by their identity only; slots do not, because
\* CreateNewProcess chooses one.
Symmetry == Permutations(Connections)

DayCommands == {"pause", "resume"}
PoolCommands == {"reload", "restart", "stop", "setpref", "getsettings", "setmytimeout"}
StopCommands == {"reload", "restart", "stop", "exit", "ping", "setmytimeout"}
=============================================================================
