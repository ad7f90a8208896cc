---------------------------- MODULE MCSequencePage ----------------------------
(* A small instance of SequencePage for TLC: one sequence of the tab, one of   *)
(* another client.                                                             *)
EXTENDS SequencePage

CONSTANTS here, elsewhere
OneHere == {here}
OneElsewhere == {elsewhere}
Both == {here, elsewhere}
==============================================================================
