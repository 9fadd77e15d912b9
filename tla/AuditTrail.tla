----------------------------- MODULE AuditTrail -----------------------------
(***************************************************************************)
(* From BR_AUDIT to the audit_log table: the API's AuditWriter.            *)
(*                                                                         *)
(* BR_AUDIT is a work queue: an event stays until it is acked, is handed   *)
(* out again when the ack does not come in time, and after                 *)
(* MaxAuditDeliver deliveries is never handed out again.  The writer puts  *)
(* a whole batch in one transaction and acks it afterwards; the unique     *)
(* message id makes a second insert of an event no insert at all.          *)
(***************************************************************************)
EXTENDS Naturals

CONSTANTS
    Event,              \* audit events
    MaxAuditDeliver     \* deliveries of one event

VARIABLES
    audit,              \* BR_AUDIT, event by event
    writer,             \* where AuditWriter is, and its batch
    rows                \* audit_log

auditVars == <<audit, writer, rows>>

\* "new" can be fetched, "out" waits for its ack, "gone" ran out of deliveries.
AuditMsg == [at : {"none", "new", "out", "acked", "gone"}, tries : 0..MaxAuditDeliver]
Resting == [at |-> "idle", batch |-> {}]

AuditTypeOK ==
    /\ audit \in [Event -> AuditMsg]
    /\ writer \in [at : {"idle", "store", "ack"}, batch : SUBSET Event]
    /\ rows \subseteq Event

AuditInit ==
    /\ audit = [e \in Event |-> [at |-> "none", tries |-> 0]]
    /\ writer = Resting
    /\ rows = {}

-----------------------------------------------------------------------------
\* publish_audit.  The broker drops an event whose id it has seen; a malformed command has a
\* new id each time it is refused, and then the first of its events is the one followed.
Publishing(e) ==
    audit' = IF audit[e].at = "none" THEN [audit EXCEPT ![e].at = "new"] ELSE audit

\* Mutant of WriterFetches: what is fetched is acked before it is stored.
WriterAcksFirst ==
    LET new == {e \in Event : audit[e].at = "new"}
    IN  /\ writer.at = "idle" /\ new # {}
        /\ audit' = [e \in Event |-> IF e \in new THEN [at |-> "acked", tries |-> audit[e].tries + 1]
                                     ELSE audit[e]]
        /\ writer' = [at |-> "store", batch |-> new]
        /\ UNCHANGED rows

\* drain_once, the fetch.
WriterFetches ==
    LET new == {e \in Event : audit[e].at = "new"}
    IN  /\ writer.at = "idle" /\ new # {}
        /\ audit' = [e \in Event |-> IF e \in new THEN [at |-> "out", tries |-> audit[e].tries + 1]
                                     ELSE audit[e]]
        /\ writer' = [at |-> "store", batch |-> new]
        /\ UNCHANGED rows

\* One transaction for the batch, ON CONFLICT DO NOTHING.
WriterStores ==
    /\ writer.at = "store"
    /\ rows' = rows \cup writer.batch
    /\ writer' = [writer EXCEPT !.at = "ack"]
    /\ UNCHANGED audit

WriterAcks(e) ==
    /\ writer.at = "ack" /\ e \in writer.batch
    /\ audit' = [audit EXCEPT ![e].at = "acked"]
    /\ writer' = IF writer.batch = {e} THEN Resting ELSE [writer EXCEPT !.batch = @ \ {e}]
    /\ UNCHANGED rows

\* _run_forever: whatever is raised, by Postgres or by the broker, drops the batch and
\* subscribes anew; so does a restart of the API.
WriterStalls ==
    /\ writer.at # "idle"
    /\ writer' = Resting
    /\ UNCHANGED <<audit, rows>>

\* The ack wait of an event the writer no longer works on runs out.
AuditRedelivers(e) ==
    /\ audit[e].at = "out" /\ e \notin writer.batch
    /\ audit' = [audit EXCEPT ![e].at = IF audit[e].tries < MaxAuditDeliver THEN "new" ELSE "gone"]
    /\ UNCHANGED <<writer, rows>>

WriterStep ==
    \/ WriterFetches \/ WriterStores
    \/ \E e \in Event : WriterAcks(e) \/ AuditRedelivers(e)
=============================================================================
