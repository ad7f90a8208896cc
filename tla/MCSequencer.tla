------------------------------ MODULE MCSequencer ------------------------------
(* Small instances of Sequencer for TLC: two sequences of two steps.        *)
EXTENDS Sequencer, TLC

CONSTANTS auto, manual
TwoSequences == {auto, manual}
OneManual == {manual}
OneAuto == {auto}
==============================================================================
