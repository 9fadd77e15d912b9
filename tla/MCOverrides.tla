---------------------------- MODULE MCOverrides -----------------------------
(* TLC's instances of Overrides.                                           *)
EXTENDS Overrides
=============================================================================
