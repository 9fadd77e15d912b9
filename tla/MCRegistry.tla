----------------------------- MODULE MCRegistry -----------------------------
(* TLC's instances of Registry.                                            *)
EXTENDS Registry
=============================================================================
