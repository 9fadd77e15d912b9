--------------------------- MODULE MCCommandQueue ---------------------------
(* TLC's instance of CommandQueue.                                         *)
EXTENDS CommandQueue
=============================================================================
