------------------------------ MODULE MCAlerts ------------------------------
(* Constants for TLC's instances of Alerts.                                *)
EXTENDS Alerts

\* No band, and a band with both bounds and room to clear in.
MCBands == {[min |-> None, max |-> None, margin |-> 1],
            [min |-> 1, max |-> 4, margin |-> 1]}
=============================================================================
