---------------------------- MODULE MCInterlock ----------------------------
(* Constants for TLC's instances of Interlock.                            *)
EXTENDS Interlock

\* Every PCA9685 channel of the instance is on one board.
MCBoard == [a \in Pca |-> "0x40@1"]
=============================================================================
