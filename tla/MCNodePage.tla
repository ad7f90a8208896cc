------------------------------- MODULE MCNodePage -------------------------------
(* Instances of NodePage for TLC. *)
EXTENDS NodePage
=============================================================================
