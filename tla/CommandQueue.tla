---------------------------- MODULE CommandQueue ----------------------------
(***************************************************************************)
(* hardware-io's CommandConsumer between the BR_CMD work queue, the        *)
(* supervisor, the retained BR_STATE stream and the audit stream           *)
(* (spine.py), with the trips that run beside it (app.py).                 *)
(*                                                                         *)
(* One channel of a PCA9685 board, whose level is the number of the        *)
(* command that set it, 0 being its safe state; commands are numbered in   *)
(* the order they are published.  Its writes hold the chip's lock until    *)
(* their task resumes, and from there the task runs to the hand-off of     *)
(* what it has to say without being suspended.                             *)
(*                                                                         *)
(* A message that was nak'd or not acked in time is handed out again, at   *)
(* most MaxDeliver times by one consumer, and the consumer can be deleted  *)
(* under the service.                                                      *)
(***************************************************************************)
EXTENDS AuditTrail, FiniteSets

CONSTANTS
    MaxDeliver,     \* CommandConsumer._max_deliver
    MaxHeal,        \* MAX_HEAL_ATTEMPTS
    MaxFaults       \* faults in a behaviour

VARIABLES
    sent,           \* commands published so far
    msg,            \* BR_CMD, message by message
    late,           \* commands whose expires_at has passed
    consumer,       \* the durable exists on the broker
    other,          \* somebody else's consumer holds the filter subject
    up,             \* hardware-io runs
    batch,          \* messages in the hands of drain_once
    at,             \* where it is with the first of them
    lost,           \* the subscription is gone: _sub is None, _heal_cause is set
    attempts,       \* _heal_attempts
    refusing,       \* a latch is set, or the clock is not trusted
    pin,            \* the level of the actuator
    tripTold,       \* a trip's own state has been published
    state,          \* BR_STATE's last value
    newest,         \* the newest command that was applied
    seen,           \* commands that were handed out before the batch at hand
    untold,         \* the last state could not be published
    unaudited,      \* refusals whose event could not be published
    faults

Cmd == Event

queueVars == <<sent, msg, late, consumer, other, seen>>
loopVars == <<up, batch, at, lost, attempts>>
pinVars == <<refusing, pin, tripTold, state, newest, untold>>
vars == <<queueVars, loopVars, pinVars, unaudited, faults, auditVars>>

ASSUME QueueAssumption ==
    /\ IsFiniteSet(Event) /\ Event = 1..Cardinality(Event)
    /\ MaxDeliver \in Nat \ {0} /\ MaxAuditDeliver \in Nat \ {0}
    /\ MaxHeal \in Nat /\ MaxFaults \in Nat

-----------------------------------------------------------------------------
\* "bad": a payload that does not validate, or an actuator this node does not own.
Kind == {"ok", "bad"}
Message == [at : {"none", "new", "out", "held", "acked", "termed", "dead"},
            tries : 0..MaxDeliver, kind : Kind]

Queued(c) == msg[c].at \in {"new", "out", "held", "dead"}
\* Mutant of Foremost: the batch is worked on from its end.
Hindmost(c) == c \in batch /\ \A d \in batch : d <= c

Foremost(c) == c \in batch /\ \A d \in batch : c <= d

HandedOut == {c \in Cmd : msg[c].tries > 0}
Busy == batch # {}
Refused(c) == msg[c].kind = "bad" \/ c \in late \/ refusing

\* What the broker does with a message whose delivery came to nothing.
Again(c) == IF msg[c].tries < MaxDeliver THEN "new" ELSE "dead"

\* Every variable has its type: among others the heal attempts stay within their budget, and
\* what is worked on was handed out (spine.py, drain_once and _heal).
QueueTypeOK ==
    /\ AuditTypeOK
    /\ sent \in Nat
    /\ msg \in [Cmd -> Message]
    /\ \A c \in Cmd : (msg[c].at = "none") <=> (c > sent)
    /\ late \subseteq Cmd /\ seen \subseteq Cmd /\ unaudited \subseteq Cmd
    /\ \A b \in {consumer, other, up, lost, refusing, tripTold, untold} : b \in BOOLEAN
    /\ batch \subseteq Cmd
    /\ \A c \in batch : msg[c].at \in {"new", "out", "dead", "acked"}
    /\ at \in {"idle", "write", "wrote", "audit", "term", "heal"}
    /\ at \in {"write", "wrote", "audit", "term"} => Busy
    /\ attempts \in 0..MaxHeal
    /\ {pin, state, newest} \subseteq Cmd \cup {0}
    /\ faults \in 0..MaxFaults

Fault == faults < MaxFaults /\ faults' = faults + 1

-----------------------------------------------------------------------------
(* The queue.                                                              *)

Emit(k) ==
    /\ sent + 1 \in Cmd
    /\ sent' = sent + 1
    /\ msg' = [msg EXCEPT ![sent + 1] = [at |-> "new", tries |-> 0, kind |-> k]]
    /\ UNCHANGED <<late, consumer, other, seen, loopVars, pinVars, unaudited, faults, auditVars>>

Lapse(c) ==
    /\ Queued(c) /\ c \notin late
    /\ late' = late \cup {c}
    /\ UNCHANGED <<sent, msg, consumer, other, seen, loopVars, pinVars, unaudited, faults, auditVars>>

\* A nak's delay, or the ack wait of a message nobody works on, runs out.
Redeliver(c) ==
    /\ consumer
    /\ msg[c].at \in {"held", "out"} /\ c \notin batch
    /\ msg' = [msg EXCEPT ![c].at = Again(c)]
    /\ UNCHANGED <<sent, late, consumer, other, seen, loopVars, pinVars, unaudited, faults, auditVars>>

\* A batch so slow that the ack wait of one of its messages runs out.
AckWaitLapses(c) ==
    /\ consumer /\ msg[c].at = "out" /\ c \in batch
    /\ Fault
    /\ msg' = [msg EXCEPT ![c].at = Again(c)]
    /\ UNCHANGED <<sent, late, consumer, other, seen, loopVars, pinVars, unaudited, auditVars>>

DeleteConsumer ==
    /\ consumer
    /\ Fault
    /\ consumer' = FALSE
    /\ UNCHANGED <<sent, msg, late, other, seen, loopVars, pinVars, unaudited, auditVars>>

HoldFilter ==
    /\ ~consumer /\ ~other
    /\ Fault
    /\ other' = TRUE
    /\ UNCHANGED <<sent, msg, late, consumer, seen, loopVars, pinVars, unaudited, auditVars>>

FreeFilter ==
    /\ other
    /\ other' = FALSE
    /\ UNCHANGED <<sent, msg, late, consumer, seen, loopVars, pinVars, unaudited, faults, auditVars>>

-----------------------------------------------------------------------------
(* drain_once.                                                             *)

Fetch ==
    LET new == {c \in Cmd : msg[c].at = "new"}
    IN  /\ up /\ at = "idle" /\ ~Busy /\ ~lost /\ consumer /\ new # {}
        /\ batch' = new
        /\ msg' = [c \in Cmd |-> IF c \in new THEN [msg[c] EXCEPT !.at = "out", !.tries = @ + 1]
                                 ELSE msg[c]]
        /\ seen' = seen \cup HandedOut
        /\ UNCHANGED <<sent, late, consumer, other, up, at, lost, attempts, pinVars,
                       unaudited, faults, auditVars>>

\* supervisor.apply lets the command pass; the write waits for the chip's lock.
Pass(c) ==
    /\ up /\ at = "idle" /\ Busy /\ Foremost(c) /\ ~Refused(c)
    /\ at' = "write"
    /\ UNCHANGED <<queueVars, up, batch, lost, attempts, pinVars, unaudited, faults, auditVars>>

\* The write lands, once a trip's has and the trip was told: until then the lock is taken.
Apply(c) ==
    /\ up /\ at = "write" /\ Foremost(c) /\ tripTold
    /\ pin' = c
    /\ newest' = IF c > newest THEN c ELSE newest
    /\ at' = "wrote"
    /\ UNCHANGED <<queueVars, up, batch, lost, attempts, refusing, tripTold, state, untold,
                   unaudited, faults, auditVars>>

\* The driver raises: the message is nak'd and comes back after a second.
DriverFails(c) ==
    /\ up /\ at = "write" /\ Foremost(c) /\ tripTold
    /\ Fault
    /\ msg' = [msg EXCEPT ![c].at = "held"]
    /\ batch' = batch \ {c}
    /\ at' = "idle"
    /\ UNCHANGED <<sent, late, consumer, other, seen, up, lost, attempts, pinVars, unaudited,
                   auditVars>>

\* The task resumes: the ack, and the state from _publish_applied_state.  read_back() says
\* nothing, so the level is the one the driver makes of the command.  Either may not arrive.
Report(c, acked, told) ==
    /\ up /\ at = "wrote" /\ Foremost(c)
    /\ IF acked /\ told THEN faults' = faults ELSE Fault
    /\ msg' = IF acked THEN [msg EXCEPT ![c].at = "acked"] ELSE msg
    /\ state' = IF told THEN c ELSE state
    /\ untold' = ~told
    /\ batch' = batch \ {c}
    /\ at' = "idle"
    /\ UNCHANGED <<sent, late, consumer, other, seen, up, lost, attempts, refusing, pin, tripTold,
                   newest, unaudited, auditVars>>

\* A refusal, by the contract or by the supervisor: an audit event, then term().
Refuse(c) ==
    /\ up /\ at = "idle" /\ Busy /\ Foremost(c) /\ Refused(c)
    /\ at' = "audit"
    /\ UNCHANGED <<sent, msg, late, consumer, other, seen, up, batch, lost, attempts, pinVars,
                   unaudited, faults, auditVars>>

AuditRefusal(c) ==
    /\ up /\ at = "audit" /\ Foremost(c)
    /\ Publishing(c)
    /\ at' = "term"
    /\ UNCHANGED <<queueVars, up, batch, lost, attempts, pinVars, unaudited, faults, writer, rows>>

AuditRefusalFails(c) ==
    /\ up /\ at = "audit" /\ Foremost(c)
    /\ Fault
    /\ unaudited' = unaudited \cup {c}
    /\ at' = "term"
    /\ UNCHANGED <<queueVars, up, batch, lost, attempts, pinVars, auditVars>>

Term(c) ==
    /\ up /\ at = "term" /\ Foremost(c)
    /\ msg' = [msg EXCEPT ![c].at = "termed"]
    /\ batch' = batch \ {c}
    /\ at' = "idle"
    /\ UNCHANGED <<sent, late, consumer, other, seen, up, lost, attempts, pinVars, unaudited,
                   faults, auditVars>>

-----------------------------------------------------------------------------
(* _heal.                                                                  *)

\* Mutant of Heal: the attempts are counted per loss that was noticed, not per try.
HealUncounted ==
    /\ up /\ at = "idle" /\ ~Busy /\ (lost \/ ~consumer) /\ attempts < MaxHeal
    /\ lost' = TRUE
    /\ attempts' = IF lost THEN attempts ELSE attempts + 1
    /\ at' = "heal"
    /\ UNCHANGED <<queueVars, up, batch, pinVars, unaudited, faults, auditVars>>

\* Mutant of Heal: nothing bounds the attempts.
HealForever ==
    /\ up /\ at = "idle" /\ ~Busy /\ (lost \/ ~consumer)
    /\ lost' = TRUE
    /\ attempts' = attempts + 1
    /\ at' = "heal"
    /\ UNCHANGED <<queueVars, up, batch, pinVars, unaudited, faults, auditVars>>

\* The fetch finds no consumer, or an earlier heal did not stick.
Heal ==
    /\ up /\ at = "idle" /\ ~Busy /\ (lost \/ ~consumer) /\ attempts < MaxHeal
    /\ lost' = TRUE
    /\ attempts' = attempts + 1
    /\ at' = "heal"
    /\ UNCHANGED <<queueVars, up, batch, pinVars, unaudited, faults, auditVars>>

\* provision and subscribe.  To a consumer made anew every message left is a new one.
Provisioned ==
    /\ consumer' = TRUE
    /\ msg' = [c \in Cmd |-> IF ~consumer /\ Queued(c) THEN [msg[c] EXCEPT !.at = "new", !.tries = 0]
                             ELSE msg[c]]
    /\ seen' = seen \cup HandedOut

Resubscribe ==
    /\ up /\ at = "heal" /\ ~other
    /\ Provisioned
    /\ lost' = FALSE /\ attempts' = 0
    /\ at' = "idle"
    /\ UNCHANGED <<sent, late, other, up, batch, pinVars, unaudited, faults, auditVars>>

\* Another holds the filter, or anything else is raised on the way ...
ResubscribeFails ==
    /\ up /\ at = "heal"
    /\ IF other THEN faults' = faults ELSE Fault
    /\ at' = "idle"
    /\ UNCHANGED <<queueVars, up, batch, lost, attempts, pinVars, unaudited, auditVars>>

\* ... also when the broker has made the consumer and only its answer was lost.
ResubscribeUnanswered ==
    /\ up /\ at = "heal" /\ ~other
    /\ Fault
    /\ Provisioned
    /\ at' = "idle"
    /\ UNCHANGED <<sent, late, other, up, batch, lost, attempts, pinVars, unaudited, auditVars>>

Stopped ==
    /\ up' = FALSE
    /\ batch' = {} /\ at' = "idle"
    /\ lost' = FALSE /\ attempts' = 0

\* ConsumerLostError: the service shuts down, which drives the actuator safe and says so.
GiveUp ==
    /\ up /\ at = "idle" /\ ~Busy /\ (lost \/ ~consumer) /\ attempts = MaxHeal
    /\ Stopped
    /\ pin' = 0 /\ state' = 0 /\ untold' = FALSE /\ tripTold' = TRUE /\ refusing' = FALSE
    /\ UNCHANGED <<queueVars, newest, unaudited, faults, auditVars>>

Die ==
    /\ up
    /\ Fault
    /\ Stopped
    /\ tripTold' = TRUE /\ refusing' = FALSE
    /\ UNCHANGED <<queueVars, pin, state, newest, untold, unaudited, auditVars>>

\* run: the safe state is asserted and published, then the consumer subscribed to, which
\* fails, and the service with it, while another holds the filter.
Start ==
    /\ ~up /\ (consumer \/ ~other)
    /\ up' = TRUE
    /\ pin' = 0 /\ state' = 0 /\ untold' = FALSE
    /\ Provisioned
    /\ UNCHANGED <<sent, late, other, batch, at, lost, attempts, refusing, tripTold,
                   newest, unaudited, faults, auditVars>>

-----------------------------------------------------------------------------
(* The supervisor's own tasks.                                             *)

\* Mutant of Trip: the write takes no lock.
TripUnlocked(latch) ==
    /\ up /\ pin # 0 /\ tripTold
    /\ Fault
    /\ pin' = 0
    /\ refusing' = (refusing \/ latch)
    /\ tripTold' = FALSE
    /\ UNCHANGED <<queueVars, loopVars, state, newest, untold, unaudited, auditVars>>

\* A heartbeat lost or a runtime cap reached: driven safe, when the chip's lock is free, and
\* latched in the second case.
Trip(latch) ==
    /\ up /\ pin # 0 /\ tripTold /\ at # "wrote"
    /\ Fault
    /\ pin' = 0
    /\ refusing' = (refusing \/ latch)
    /\ tripTold' = FALSE
    /\ UNCHANGED <<queueVars, loopVars, state, newest, untold, unaudited, auditVars>>

\* The trip's task resumes: _on_safety_event.
TellTrip ==
    /\ up /\ ~tripTold
    /\ tripTold' = TRUE
    /\ state' = 0
    /\ untold' = FALSE
    /\ UNCHANGED <<queueVars, loopVars, refusing, pin, newest, unaudited, faults, auditVars>>

TellTripFails ==
    /\ up /\ ~tripTold
    /\ Fault
    /\ tripTold' = TRUE
    /\ untold' = TRUE
    /\ UNCHANGED <<queueVars, loopVars, refusing, pin, state, newest, unaudited, auditVars>>

\* The latch is cleared, the clock is trusted again.
Relent ==
    /\ refusing
    /\ refusing' = FALSE
    /\ UNCHANGED <<queueVars, loopVars, pin, tripTold, state, newest, untold, unaudited, faults, auditVars>>

-----------------------------------------------------------------------------
Writer == WriterStep /\ UNCHANGED <<queueVars, loopVars, pinVars, unaudited, faults>>
Stall == WriterStalls /\ Fault /\ UNCHANGED <<queueVars, loopVars, pinVars, unaudited>>

Init ==
    /\ sent = 0
    /\ msg = [c \in Cmd |-> [at |-> "none", tries |-> 0, kind |-> "ok"]]
    /\ late = {} /\ seen = {} /\ unaudited = {} /\ batch = {}
    /\ consumer = TRUE /\ other = FALSE /\ up = TRUE /\ lost = FALSE
    /\ at = "idle" /\ attempts = 0
    /\ pin = 0 /\ state = 0 /\ newest = 0
    /\ refusing = FALSE /\ tripTold = TRUE /\ untold = FALSE
    /\ faults = 0
    /\ AuditInit

\* What the service's loop does next.
Loop ==
    \/ Fetch \/ Heal \/ Resubscribe \/ ResubscribeFails \/ GiveUp
    \/ \E c \in batch : \/ Pass(c) \/ Apply(c) \/ Report(c, TRUE, TRUE)
                        \/ Refuse(c) \/ AuditRefusal(c) \/ Term(c)

Next ==
    \/ Loop \/ Writer \/ Stall
    \/ \E k \in Kind : Emit(k)
    \/ \E c \in Cmd : Lapse(c) \/ Redeliver(c) \/ AckWaitLapses(c)
    \/ \E c \in batch : DriverFails(c) \/ AuditRefusalFails(c)
    \/ \E c \in batch : \E acked, told \in BOOLEAN : Report(c, acked, told)
    \/ DeleteConsumer \/ HoldFilter \/ FreeFilter \/ ResubscribeUnanswered
    \/ Die \/ Start
    \/ \E latch \in BOOLEAN : Trip(latch)
    \/ TellTrip \/ TellTripFails \/ Relent

Spec == Init /\ [][Next]_vars

(* The loop runs on, so does the writer's, and a trip's write that has landed is    *)
(* told of.  Nobody promises that the filter is ever freed.                         *)
FairSpec == Spec /\ WF_vars(Loop) /\ WF_vars(Writer) /\ WF_vars(TellTrip)

-----------------------------------------------------------------------------
(* Properties.                                                             *)

\* A service whose consumer is gone, or whose subscription is, does not sit there consuming
\* nothing: it has both again or it ends, and its end is the drilled way to a restart.
LostEnds == (up /\ (lost \/ ~consumer)) ~> (~up \/ (consumer /\ ~lost))

\* A command that was refused for good is in audit_log in the end, unless the publish of the
\* event failed or every delivery of it came to nothing: a batch that was stored and not
\* acked, or neither, is handed out again as long as a delivery is left.  (audit_writer.py
\* counts on what BR_AUDIT keeps in 24 h; max_deliver ends it long before.)
RefusalsAccounted ==
    \A c \in Cmd : msg[c].at = "termed" ~>
        \/ c \in rows \cup unaudited
        \/ audit[c] = [at |-> "gone", tries |-> MaxAuditDeliver]

\* The level goes back to an older command's only when that command is handed out again:
\* after a driver fault, an ack that was lost, a batch that was slow or a consumer made anew.
RetryOnlyReorders == [][pin' \notin {0, pin} /\ pin' < newest => pin' \in seen]_vars

\* Two tasks write the channel and publish its state to the same retained subject.  With no
\* write waiting to be told of, and the last publish not lost, BR_STATE names the level of
\* the pin.
StateIsTruth == (up /\ at # "wrote" /\ tripTold /\ ~untold) => state = pin
=============================================================================
