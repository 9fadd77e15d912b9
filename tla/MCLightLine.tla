---------------------------- MODULE MCLightLine ----------------------------
\* The line from the schedule to the pin, on small instances.
EXTENDS LightLine

\* One hold that jumps to full duty: Scheduler's run has them all.
MCOffered == {[duty |-> FullDuty, transition |-> "snap"]}
=============================================================================
