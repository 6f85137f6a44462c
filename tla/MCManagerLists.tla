---------------------------- MODULE MCManagerLists ----------------------------
(* Small instances of ManagerLists for TLC.                                  *)
EXTENDS ManagerLists

\* Servers differ by their address only.
Symmetry == Permutations(Servers)
=============================================================================
