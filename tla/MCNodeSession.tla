---------------------------- MODULE MCNodeSession ----------------------------
(* Small instances of NodeSession for TLC.                                  *)
EXTENDS NodeSession, TLC

\* Sockets are interchangeable, and so are instances when none is foreign.
Symmetry == Permutations(Conn) \cup Permutations(Instance)
==============================================================================
