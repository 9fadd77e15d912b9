----------------------------- MODULE MCPairing ------------------------------
(* TLC's instance of Pairing.  Calls differ in nothing but their names.    *)
EXTENDS Pairing, TLC
Calls == Permutations(Call)
=============================================================================
