------------------------- MODULE CommandQueueProofs -------------------------
(***************************************************************************)
(* For any number of commands, of deliveries, of heal attempts and of      *)
(* faults: the types of the queue and of its consumer, that an older       *)
(* command overrides a newer one only when it is handed out again, and     *)
(* that the retained state names the level of the pin.                     *)
(***************************************************************************)
EXTENDS CommandQueue, TLAPS

\* Commands that were ever handed out.
Known == HandedOut \cup seen

\* The audit stream: an event that can be handed out has a delivery left.
AuditOK ==
    /\ AuditTypeOK
    /\ \A e \in Event : audit[e].at = "new" => audit[e].tries < MaxAuditDeliver
    /\ \A e \in Event : audit[e].at = "none" => audit[e].tries = 0

\* The work queue: so has a message; one that was not published was not handed out.
MsgOK ==
    /\ sent \in Nat
    /\ msg \in [Cmd -> Message]
    /\ \A c \in Cmd : (msg[c].at = "none") <=> (c > sent)
    /\ \A c \in Cmd : msg[c].at = "new" => msg[c].tries < MaxDeliver
    /\ \A c \in Cmd : msg[c].at = "none" => msg[c].tries = 0

\* Whatever is no longer new was handed out, the batch and the newest command applied among
\* it, and commands are handed out in the order they were published.
InOrder ==
    /\ \A c \in Cmd : msg[c].at \notin {"none", "new"} => c \in Known
    /\ batch \subseteq Known
    /\ newest \in {0} \cup Known
    /\ \A c \in Known, d \in Cmd : d < c => d \in Known

\* The batch: what is left of it is handed out again, or no older than what was applied.
BatchOK ==
    /\ batch \subseteq Cmd
    /\ \A c \in batch : msg[c].at \in {"new", "out", "dead", "acked"}
    /\ \A c \in batch : c \in seen \/ c >= newest

\* Where drain_once is.
LoopOK ==
    /\ at \in {"idle", "write", "wrote", "audit", "term", "heal"}
    /\ at \in {"write", "wrote", "audit", "term"} => Busy
    /\ attempts \in 0..MaxHeal

\* Everything else.
Flags ==
    /\ consumer \in BOOLEAN /\ other \in BOOLEAN /\ up \in BOOLEAN /\ lost \in BOOLEAN
    /\ refusing \in BOOLEAN /\ tripTold \in BOOLEAN /\ untold \in BOOLEAN
Sets == late \subseteq Cmd /\ seen \subseteq Cmd /\ unaudited \subseteq Cmd
Levels == {pin, state, newest} \subseteq Cmd \cup {0}
Faults == faults \in 0..MaxFaults

QueueInv ==
    /\ AuditOK /\ MsgOK /\ InOrder /\ BatchOK /\ LoopOK
    /\ Flags /\ Sets /\ Levels /\ Faults

-----------------------------------------------------------------------------
(* The facts the steps below rest on.                                      *)

\* Commands are numbers from 1 on.
LEMMA CommandsAreNumbers ==
    /\ Cmd \subseteq Nat \ {0}
    /\ Cmd = Event
    /\ MaxDeliver \in Nat \ {0} /\ MaxAuditDeliver \in Nat \ {0} /\ MaxHeal \in Nat /\ MaxFaults \in Nat
<1>1. Cmd \subseteq Nat \ {0}
  <2>1. PICK n : Event = 1..n /\ n = Cardinality(Event)
    BY QueueAssumption
  <2>2. QED
    BY <2>1 DEF Cmd
<1>2. QED
  BY <1>1, QueueAssumption DEF Cmd

\* The invariant is stronger than the types.
LEMMA InvariantTypes == QueueInv => QueueTypeOK
<1>1. Flags => \A b \in {consumer, other, up, lost, refusing, tripTold, untold} : b \in BOOLEAN
  BY Zenon DEF Flags
<1>2. QED
  BY <1>1 DEF QueueInv, QueueTypeOK, AuditOK, MsgOK, BatchOK, LoopOK, Sets, Levels, Faults

\* A fault is one of a bounded number.
LEMMA FaultCounts == ASSUME Faults, Fault PROVE Faults'
  BY CommandsAreNumbers DEF Faults, Fault

\* The queue is left alone, and the batch at most loses messages.
LEMMA QueueRests ==
    ASSUME QueueInv, UNCHANGED <<sent, msg, seen, newest>>, batch' \subseteq batch
    PROVE  MsgOK' /\ InOrder' /\ BatchOK'
<1>1. MsgOK'
  BY DEF QueueInv, MsgOK
<1>2. Known' = Known
  BY DEF Known, HandedOut
<1>3. InOrder'
  BY <1>2 DEF QueueInv, InOrder
<1>4. BatchOK'
  BY DEF QueueInv, BatchOK
<1>5. QED
  BY <1>1, <1>3, <1>4

\* A message goes from one state to another without being handed out.
LEMMA MessageTurns ==
    ASSUME QueueInv, NEW c \in Cmd, NEW a \in {"new", "held", "acked", "termed", "dead"},
           msg' = [msg EXCEPT ![c].at = a],
           msg[c].at # "none", a = "new" => msg[c].tries < MaxDeliver,
           c \in Known, batch' \subseteq batch, c \in batch' => a \in {"new", "acked", "dead"},
           UNCHANGED <<sent, seen, newest>>
    PROVE  MsgOK' /\ InOrder' /\ BatchOK'
<1>1. /\ msg' \in [Cmd -> Message]
      /\ \A d \in Cmd : msg'[d].tries = msg[d].tries /\ msg'[d].at = IF d = c THEN a ELSE msg[d].at
  BY DEF QueueInv, MsgOK, Message
<1>2. MsgOK'
  BY <1>1 DEF QueueInv, MsgOK
<1>3. Known' = Known
  BY <1>1 DEF Known, HandedOut
<1>4. InOrder'
  BY <1>1, <1>3 DEF QueueInv, InOrder
<1>5. BatchOK'
  BY <1>1 DEF QueueInv, BatchOK
<1>6. QED
  BY <1>2, <1>4, <1>5

\* What was handed out is known, whatever has become of it.
LEMMA HandedOutIsKnown == ASSUME QueueInv, NEW c \in Cmd, msg[c].at \notin {"none", "new"} PROVE c \in Known
  BY DEF QueueInv, InOrder

\* What provision and subscribe leave of the messages.
Remade ==
    msg' = [c \in Cmd |-> IF ~consumer /\ Queued(c) THEN [msg[c] EXCEPT !.at = "new", !.tries = 0]
                          ELSE msg[c]]

\* A consumer made anew, or the same one again: what it may hand out has its deliveries left,
\* and what was handed out before is remembered as such.
LEMMA QueueRemade ==
    ASSUME QueueInv, batch' = batch, UNCHANGED <<sent, newest>>, seen' = seen \cup HandedOut, Remade
    PROVE  MsgOK' /\ InOrder' /\ BatchOK' /\ seen' \subseteq Cmd
<1>1. /\ msg \in [Cmd -> Message]
      /\ \A c \in Cmd : msg[c].tries \in Nat
      /\ 0 \in 0..MaxDeliver /\ 0 < MaxDeliver
  <2>1. msg \in [Cmd -> Message]
    BY DEF QueueInv, MsgOK
  <2>2. \A c \in Cmd : msg[c].tries \in 0..MaxDeliver
    BY <2>1 DEF Message
  <2>3. MaxDeliver \in Nat /\ MaxDeliver # 0
    BY CommandsAreNumbers
  <2>4. QED
    BY <2>1, <2>2, <2>3
<1>2. ASSUME NEW c \in Cmd
      PROVE  /\ msg'[c] \in Message
             /\ msg'[c].at = (IF ~consumer /\ Queued(c) THEN "new" ELSE msg[c].at)
             /\ msg'[c].tries = (IF ~consumer /\ Queued(c) THEN 0 ELSE msg[c].tries)
  BY <1>1 DEF Message, Remade
<1>3. msg' \in [Cmd -> Message]
  BY <1>2 DEF Remade
<1>4. MsgOK'
  <2>1. sent' = sent /\ sent \in Nat
    BY DEF QueueInv, MsgOK
  <2>2. \A c \in Cmd : msg'[c].at = "none" <=> msg[c].at = "none"
    BY <1>2 DEF Queued
  <2>3. ASSUME NEW c \in Cmd, msg'[c].at = "new" PROVE msg'[c].tries < MaxDeliver
    BY <1>1, <1>2, <2>3 DEF QueueInv, MsgOK
  <2>4. ASSUME NEW c \in Cmd, msg'[c].at = "none" PROVE msg'[c].tries = 0
    BY <1>2, <2>2, <2>4 DEF QueueInv, MsgOK, Queued
  <2>5. \A c \in Cmd : (msg'[c].at = "none") <=> (c > sent')
    BY <2>1, <2>2 DEF QueueInv, MsgOK
  <2>6. QED
    BY <1>3, <2>1, <2>3, <2>4, <2>5 DEF MsgOK
<1>5. Known' = Known
  <2>1. HandedOut' \subseteq HandedOut
    BY <1>2 DEF HandedOut
  <2>2. QED
    BY <2>1 DEF Known
<1>6. InOrder'
  BY <1>2, <1>5 DEF QueueInv, InOrder, Queued
<1>7. BatchOK'
  BY <1>2 DEF QueueInv, BatchOK, Queued
<1>8. seen' \subseteq Cmd
  BY DEF HandedOut, QueueInv, Sets
<1>9. QED
  BY <1>4, <1>6, <1>7, <1>8

\* The audit stream is left alone.
LEMMA AuditRests == ASSUME AuditOK, UNCHANGED auditVars PROVE AuditOK'
  BY DEF AuditOK, AuditTypeOK, auditVars

-----------------------------------------------------------------------------
(* The steps that leave the queue alone.                                   *)

\* A command's time runs out.
LEMMA LapseKeeps == ASSUME QueueInv, NEW c \in Cmd, Lapse(c) PROVE QueueInv'
<1>1. MsgOK' /\ InOrder' /\ BatchOK' /\ AuditOK'
  BY QueueRests, AuditRests DEF Lapse, QueueInv, loopVars, pinVars, auditVars
<1>2. LoopOK'
  BY DEF Lapse, QueueInv, LoopOK, Busy, loopVars
<1>3. Flags'
  BY DEF Lapse, QueueInv, Flags, loopVars, pinVars
<1>4. Sets' /\ Levels'
  BY DEF Lapse, QueueInv, Sets, Levels, loopVars, pinVars
<1>5. Faults'
  BY DEF Lapse, QueueInv, Faults
<1>6. QED
  BY <1>1, <1>2, <1>3, <1>4, <1>5 DEF QueueInv

\* The consumer is deleted.
LEMMA DeleteConsumerKeeps == ASSUME QueueInv, DeleteConsumer PROVE QueueInv'
<1>1. MsgOK' /\ InOrder' /\ BatchOK' /\ AuditOK'
  BY QueueRests, AuditRests DEF DeleteConsumer, QueueInv, loopVars, pinVars, auditVars
<1>2. LoopOK'
  BY DEF DeleteConsumer, QueueInv, LoopOK, Busy, loopVars
<1>3. Flags'
  BY DEF DeleteConsumer, QueueInv, Flags, loopVars, pinVars
<1>4. Sets' /\ Levels'
  BY DEF DeleteConsumer, QueueInv, Sets, Levels, loopVars, pinVars
<1>5. Faults'
  BY FaultCounts DEF DeleteConsumer, QueueInv
<1>6. QED
  BY <1>1, <1>2, <1>3, <1>4, <1>5 DEF QueueInv

\* Somebody else takes the filter.
LEMMA HoldFilterKeeps == ASSUME QueueInv, HoldFilter PROVE QueueInv'
<1>1. MsgOK' /\ InOrder' /\ BatchOK' /\ AuditOK'
  BY QueueRests, AuditRests DEF HoldFilter, QueueInv, loopVars, pinVars, auditVars
<1>2. LoopOK'
  BY DEF HoldFilter, QueueInv, LoopOK, Busy, loopVars
<1>3. Flags'
  BY DEF HoldFilter, QueueInv, Flags, loopVars, pinVars
<1>4. Sets' /\ Levels'
  BY DEF HoldFilter, QueueInv, Sets, Levels, loopVars, pinVars
<1>5. Faults'
  BY FaultCounts DEF HoldFilter, QueueInv
<1>6. QED
  BY <1>1, <1>2, <1>3, <1>4, <1>5 DEF QueueInv

\* The filter is given up again.
LEMMA FreeFilterKeeps == ASSUME QueueInv, FreeFilter PROVE QueueInv'
<1>1. MsgOK' /\ InOrder' /\ BatchOK' /\ AuditOK'
  BY QueueRests, AuditRests DEF FreeFilter, QueueInv, loopVars, pinVars, auditVars
<1>2. LoopOK'
  BY DEF FreeFilter, QueueInv, LoopOK, Busy, loopVars
<1>3. Flags'
  BY DEF FreeFilter, QueueInv, Flags, loopVars, pinVars
<1>4. Sets' /\ Levels'
  BY DEF FreeFilter, QueueInv, Sets, Levels, loopVars, pinVars
<1>5. Faults'
  BY DEF FreeFilter, QueueInv, Faults
<1>6. QED
  BY <1>1, <1>2, <1>3, <1>4, <1>5 DEF QueueInv

\* A command passes.
LEMMA PassKeeps == ASSUME QueueInv, NEW c \in Cmd, Pass(c) PROVE QueueInv'
<1>1. MsgOK' /\ InOrder' /\ BatchOK' /\ AuditOK'
  BY QueueRests, AuditRests DEF Pass, QueueInv, queueVars, pinVars, auditVars
<1>2. LoopOK'
  BY DEF Pass, QueueInv, LoopOK, Busy
<1>3. Flags'
  BY DEF Pass, QueueInv, Flags, queueVars, pinVars
<1>4. Sets' /\ Levels'
  BY DEF Pass, QueueInv, Sets, Levels, queueVars, pinVars
<1>5. Faults'
  BY DEF Pass, QueueInv, Faults
<1>6. QED
  BY <1>1, <1>2, <1>3, <1>4, <1>5 DEF QueueInv

\* A refusal.
LEMMA RefuseKeeps == ASSUME QueueInv, NEW c \in Cmd, Refuse(c) PROVE QueueInv'
<1>1. MsgOK' /\ InOrder' /\ BatchOK' /\ AuditOK'
  BY QueueRests, AuditRests DEF Refuse, QueueInv, pinVars, auditVars
<1>2. LoopOK'
  BY DEF Refuse, QueueInv, LoopOK, Busy
<1>3. Flags'
  BY DEF Refuse, QueueInv, Flags, pinVars
<1>4. Sets' /\ Levels'
  BY DEF Refuse, QueueInv, Sets, Levels, pinVars
<1>5. Faults'
  BY DEF Refuse, QueueInv, Faults
<1>6. QED
  BY <1>1, <1>2, <1>3, <1>4, <1>5 DEF QueueInv

\* Its event cannot be published.
LEMMA AuditRefusalFailsKeeps == ASSUME QueueInv, NEW c \in Cmd, AuditRefusalFails(c) PROVE QueueInv'
<1>1. MsgOK' /\ InOrder' /\ BatchOK' /\ AuditOK'
  BY QueueRests, AuditRests DEF AuditRefusalFails, QueueInv, queueVars, pinVars, auditVars
<1>2. LoopOK'
  BY DEF AuditRefusalFails, QueueInv, LoopOK, Busy, queueVars
<1>3. Flags'
  BY DEF AuditRefusalFails, QueueInv, Flags, queueVars, pinVars
<1>4. Sets' /\ Levels'
  BY DEF AuditRefusalFails, QueueInv, Sets, Levels, queueVars, pinVars
<1>5. Faults'
  BY FaultCounts DEF AuditRefusalFails, QueueInv
<1>6. QED
  BY <1>1, <1>2, <1>3, <1>4, <1>5 DEF QueueInv

\* A heal begins.
LEMMA HealKeeps == ASSUME QueueInv, Heal PROVE QueueInv'
<1>1. MsgOK' /\ InOrder' /\ BatchOK' /\ AuditOK'
  BY QueueRests, AuditRests DEF Heal, QueueInv, queueVars, pinVars, auditVars
<1>2. LoopOK'
  BY CommandsAreNumbers DEF Heal, QueueInv, LoopOK, Busy, queueVars
<1>3. Flags'
  BY DEF Heal, QueueInv, Flags, queueVars, pinVars
<1>4. Sets' /\ Levels'
  BY DEF Heal, QueueInv, Sets, Levels, queueVars, pinVars
<1>5. Faults'
  BY DEF Heal, QueueInv, Faults
<1>6. QED
  BY <1>1, <1>2, <1>3, <1>4, <1>5 DEF QueueInv

\* A heal that does not stick.
LEMMA ResubscribeFailsKeeps == ASSUME QueueInv, ResubscribeFails PROVE QueueInv'
<1>1. MsgOK' /\ InOrder' /\ BatchOK' /\ AuditOK'
  BY QueueRests, AuditRests DEF ResubscribeFails, QueueInv, queueVars, pinVars, auditVars
<1>2. LoopOK'
  BY DEF ResubscribeFails, QueueInv, LoopOK, Busy, queueVars
<1>3. Flags'
  BY DEF ResubscribeFails, QueueInv, Flags, queueVars, pinVars
<1>4. Sets' /\ Levels'
  BY DEF ResubscribeFails, QueueInv, Sets, Levels, queueVars, pinVars
<1>5. Faults'
  BY FaultCounts DEF ResubscribeFails, QueueInv, Faults
<1>6. QED
  BY <1>1, <1>2, <1>3, <1>4, <1>5 DEF QueueInv

\* The service gives up.
LEMMA GiveUpKeeps == ASSUME QueueInv, GiveUp PROVE QueueInv'
<1>1. MsgOK' /\ InOrder' /\ BatchOK' /\ AuditOK'
  BY QueueRests, AuditRests DEF GiveUp, QueueInv, queueVars, auditVars, Stopped
<1>2. LoopOK'
  BY CommandsAreNumbers DEF GiveUp, QueueInv, LoopOK, Busy, queueVars, Stopped
<1>3. Flags'
  BY DEF GiveUp, QueueInv, Flags, queueVars, Stopped
<1>4. Sets' /\ Levels'
  BY DEF GiveUp, QueueInv, Sets, Levels, queueVars, Stopped
<1>5. Faults'
  BY DEF GiveUp, QueueInv, Faults
<1>6. QED
  BY <1>1, <1>2, <1>3, <1>4, <1>5 DEF QueueInv

\* The service dies.
LEMMA DieKeeps == ASSUME QueueInv, Die PROVE QueueInv'
<1>1. MsgOK' /\ InOrder' /\ BatchOK' /\ AuditOK'
  BY QueueRests, AuditRests DEF Die, QueueInv, queueVars, auditVars, Stopped
<1>2. LoopOK'
  BY CommandsAreNumbers DEF Die, QueueInv, LoopOK, Busy, queueVars, Stopped
<1>3. Flags'
  BY DEF Die, QueueInv, Flags, queueVars, Stopped
<1>4. Sets' /\ Levels'
  BY DEF Die, QueueInv, Sets, Levels, queueVars, Stopped
<1>5. Faults'
  BY FaultCounts DEF Die, QueueInv
<1>6. QED
  BY <1>1, <1>2, <1>3, <1>4, <1>5 DEF QueueInv

\* A trip.
LEMMA TripKeeps == ASSUME QueueInv, NEW latch \in BOOLEAN, Trip(latch) PROVE QueueInv'
<1>1. MsgOK' /\ InOrder' /\ BatchOK' /\ AuditOK'
  BY QueueRests, AuditRests DEF Trip, QueueInv, queueVars, loopVars, auditVars
<1>2. LoopOK'
  BY DEF Trip, QueueInv, LoopOK, Busy, queueVars, loopVars
<1>3. Flags'
  BY DEF Trip, QueueInv, Flags, queueVars, loopVars
<1>4. Sets' /\ Levels'
  BY DEF Trip, QueueInv, Sets, Levels, queueVars, loopVars
<1>5. Faults'
  BY FaultCounts DEF Trip, QueueInv
<1>6. QED
  BY <1>1, <1>2, <1>3, <1>4, <1>5 DEF QueueInv

\* A trip is told.
LEMMA TellTripKeeps == ASSUME QueueInv, TellTrip PROVE QueueInv'
<1>1. MsgOK' /\ InOrder' /\ BatchOK' /\ AuditOK'
  BY QueueRests, AuditRests DEF TellTrip, QueueInv, queueVars, loopVars, auditVars
<1>2. LoopOK'
  BY DEF TellTrip, QueueInv, LoopOK, Busy, queueVars, loopVars
<1>3. Flags'
  BY DEF TellTrip, QueueInv, Flags, queueVars, loopVars
<1>4. Sets' /\ Levels'
  BY DEF TellTrip, QueueInv, Sets, Levels, queueVars, loopVars
<1>5. Faults'
  BY DEF TellTrip, QueueInv, Faults
<1>6. QED
  BY <1>1, <1>2, <1>3, <1>4, <1>5 DEF QueueInv

\* A trip cannot be told.
LEMMA TellTripFailsKeeps == ASSUME QueueInv, TellTripFails PROVE QueueInv'
<1>1. MsgOK' /\ InOrder' /\ BatchOK' /\ AuditOK'
  BY QueueRests, AuditRests DEF TellTripFails, QueueInv, queueVars, loopVars, auditVars
<1>2. LoopOK'
  BY DEF TellTripFails, QueueInv, LoopOK, Busy, queueVars, loopVars
<1>3. Flags'
  BY DEF TellTripFails, QueueInv, Flags, queueVars, loopVars
<1>4. Sets' /\ Levels'
  BY DEF TellTripFails, QueueInv, Sets, Levels, queueVars, loopVars
<1>5. Faults'
  BY FaultCounts DEF TellTripFails, QueueInv
<1>6. QED
  BY <1>1, <1>2, <1>3, <1>4, <1>5 DEF QueueInv

\* The latch is cleared.
LEMMA RelentKeeps == ASSUME QueueInv, Relent PROVE QueueInv'
<1>1. MsgOK' /\ InOrder' /\ BatchOK' /\ AuditOK'
  BY QueueRests, AuditRests DEF Relent, QueueInv, queueVars, loopVars, auditVars
<1>2. LoopOK'
  BY DEF Relent, QueueInv, LoopOK, Busy, queueVars, loopVars
<1>3. Flags'
  BY DEF Relent, QueueInv, Flags, queueVars, loopVars
<1>4. Sets' /\ Levels'
  BY DEF Relent, QueueInv, Sets, Levels, queueVars, loopVars
<1>5. Faults'
  BY DEF Relent, QueueInv, Faults
<1>6. QED
  BY <1>1, <1>2, <1>3, <1>4, <1>5 DEF QueueInv

-----------------------------------------------------------------------------
(* The steps of the queue.                                                 *)

\* A command is published: the first that was not.
LEMMA EmitKeeps == ASSUME QueueInv, NEW k \in Kind, Emit(k) PROVE QueueInv'
<1>1. /\ sent \in Nat /\ sent + 1 \in Cmd /\ Cmd \subseteq Nat
      /\ 0 \in 0..MaxDeliver /\ 0 < MaxDeliver
  BY CommandsAreNumbers DEF Emit, QueueInv, MsgOK
<1>2. /\ msg' \in [Cmd -> Message]
      /\ msg'[sent + 1].at = "new" /\ msg'[sent + 1].tries = 0
      /\ \A d \in Cmd \ {sent + 1} : msg'[d] = msg[d]
  BY <1>1 DEF Emit, QueueInv, MsgOK, Message
<1>3. msg[sent + 1].at = "none" /\ msg[sent + 1].tries = 0
  BY <1>1 DEF QueueInv, MsgOK
<1>4. MsgOK'
  <2>1. sent' = sent + 1 /\ sent' \in Nat
    BY <1>1 DEF Emit
  <2>2. ASSUME NEW d \in Cmd PROVE (msg'[d].at = "none") <=> (d > sent')
    BY <1>1, <1>2, <2>1 DEF QueueInv, MsgOK
  <2>3. ASSUME NEW d \in Cmd, msg'[d].at = "new" PROVE msg'[d].tries < MaxDeliver
    BY <1>1, <1>2, <2>3 DEF QueueInv, MsgOK
  <2>4. ASSUME NEW d \in Cmd, msg'[d].at = "none" PROVE msg'[d].tries = 0
    BY <1>2, <2>4 DEF QueueInv, MsgOK
  <2>5. QED
    BY <1>2, <2>1, <2>2, <2>3, <2>4 DEF MsgOK
<1>5. Known' = Known
  BY <1>1, <1>2, <1>3 DEF Known, HandedOut, Emit
<1>6. InOrder' /\ BatchOK'
  <2>1. InOrder'
    BY <1>2, <1>5 DEF Emit, QueueInv, InOrder, loopVars, pinVars
  <2>2. BatchOK'
    BY <1>2 DEF Emit, QueueInv, BatchOK, loopVars, pinVars
  <2>3. QED
    BY <2>1, <2>2
<1>7. MsgOK' /\ InOrder' /\ BatchOK'
  BY <1>4, <1>6
<1>8. AuditOK'
  BY AuditRests DEF Emit, QueueInv, auditVars
<1>9. LoopOK'
  BY DEF Emit, QueueInv, LoopOK, Busy, loopVars
<1>10. Flags'
  BY DEF Emit, QueueInv, Flags, loopVars, pinVars
<1>11. Sets' /\ Levels'
  BY DEF Emit, QueueInv, Sets, Levels, loopVars, pinVars
<1>12. Faults'
  BY DEF Emit, QueueInv, Faults
<1>13. QED
  BY <1>7, <1>8, <1>9, <1>10, <1>11, <1>12 DEF QueueInv

\* A message nobody works on comes back.
LEMMA RedeliverKeeps == ASSUME QueueInv, NEW c \in Cmd, Redeliver(c) PROVE QueueInv'
<1>1. c \in Cmd /\ c \in Known /\ msg[c].at # "none"
  BY HandedOutIsKnown DEF Redeliver, QueueInv
<1>2. Again(c) \in {"new", "dead"} /\ (Again(c) = "new" => msg[c].tries < MaxDeliver)
  BY DEF Again
<1>3. MsgOK' /\ InOrder' /\ BatchOK'
  BY <1>1, <1>2, MessageTurns DEF Redeliver, QueueInv, loopVars, pinVars
<1>4. AuditOK'
  BY AuditRests DEF Redeliver, QueueInv, auditVars
<1>5. LoopOK'
  BY DEF Redeliver, QueueInv, LoopOK, Busy, loopVars
<1>6. Flags'
  BY DEF Redeliver, QueueInv, Flags, loopVars, pinVars
<1>7. Sets' /\ Levels'
  BY DEF Redeliver, QueueInv, Sets, Levels, loopVars, pinVars
<1>8. Faults'
  BY DEF Redeliver, QueueInv, Faults
<1>9. QED
  BY <1>3, <1>4, <1>5, <1>6, <1>7, <1>8 DEF QueueInv

\* One of a slow batch comes back.
LEMMA AckWaitLapsesKeeps == ASSUME QueueInv, NEW c \in Cmd, AckWaitLapses(c) PROVE QueueInv'
<1>1. c \in Cmd /\ c \in Known /\ msg[c].at # "none"
  BY HandedOutIsKnown DEF AckWaitLapses, QueueInv
<1>2. Again(c) \in {"new", "dead"} /\ (Again(c) = "new" => msg[c].tries < MaxDeliver)
  BY DEF Again
<1>3. MsgOK' /\ InOrder' /\ BatchOK'
  BY <1>1, <1>2, MessageTurns DEF AckWaitLapses, QueueInv, loopVars, pinVars
<1>4. AuditOK'
  BY AuditRests DEF AckWaitLapses, QueueInv, auditVars
<1>5. LoopOK'
  BY DEF AckWaitLapses, QueueInv, LoopOK, Busy, loopVars
<1>6. Flags'
  BY DEF AckWaitLapses, QueueInv, Flags, loopVars, pinVars
<1>7. Sets' /\ Levels'
  BY DEF AckWaitLapses, QueueInv, Sets, Levels, loopVars, pinVars
<1>8. Faults'
  BY FaultCounts DEF AckWaitLapses, QueueInv
<1>9. QED
  BY <1>3, <1>4, <1>5, <1>6, <1>7, <1>8 DEF QueueInv

\* A nak.
LEMMA DriverFailsKeeps == ASSUME QueueInv, NEW c \in batch, DriverFails(c) PROVE QueueInv'
<1>1. c \in Cmd /\ c \in Known /\ msg[c].at # "none"
  BY DEF DriverFails, QueueInv, BatchOK, InOrder
<1>2. MsgOK' /\ InOrder' /\ BatchOK'
  BY <1>1, MessageTurns DEF DriverFails, pinVars
<1>3. AuditOK'
  BY AuditRests DEF DriverFails, QueueInv, auditVars
<1>4. LoopOK'
  BY DEF DriverFails, QueueInv, LoopOK, Busy
<1>5. Flags'
  BY DEF DriverFails, QueueInv, Flags, pinVars
<1>6. Sets' /\ Levels'
  BY DEF DriverFails, QueueInv, Sets, Levels, pinVars
<1>7. Faults'
  BY FaultCounts DEF DriverFails, QueueInv
<1>8. QED
  BY <1>2, <1>3, <1>4, <1>5, <1>6, <1>7 DEF QueueInv

\* The report of a command that was applied.
LEMMA ReportKeeps ==
    ASSUME QueueInv, NEW c \in batch, NEW acked \in BOOLEAN, NEW told \in BOOLEAN, Report(c, acked, told)
    PROVE  QueueInv'
<1>1. c \in Cmd /\ c \in Known /\ msg[c].at # "none"
  BY DEF QueueInv, BatchOK, InOrder, Report
<1>2. MsgOK' /\ InOrder' /\ BatchOK'
  <2>1. CASE acked
    BY <1>1, <2>1, MessageTurns DEF Report
  <2>2. CASE ~acked
    BY <2>2, QueueRests DEF Report
  <2>3. QED
    BY <2>1, <2>2
<1>3. AuditOK'
  BY AuditRests DEF Report, QueueInv, auditVars
<1>4. LoopOK'
  BY DEF Report, QueueInv, LoopOK, Busy
<1>5. Flags'
  BY DEF Report, QueueInv, Flags
<1>6. Sets' /\ Levels'
  <2>1. state' \in {state, c}
    BY DEF Report
  <2>2. QED
    BY <1>1, <2>1 DEF Report, QueueInv, Sets, Levels
<1>7. Faults'
  BY FaultCounts DEF Report, QueueInv, Faults
<1>8. QED
  BY <1>2, <1>3, <1>4, <1>5, <1>6, <1>7 DEF QueueInv

\* A term.
LEMMA TermKeeps == ASSUME QueueInv, NEW c \in batch, Term(c) PROVE QueueInv'
<1>1. c \in Cmd /\ c \in Known /\ msg[c].at # "none"
  BY DEF Term, QueueInv, BatchOK, InOrder
<1>2. MsgOK' /\ InOrder' /\ BatchOK'
  BY <1>1, MessageTurns DEF Term, pinVars
<1>3. AuditOK'
  BY AuditRests DEF Term, QueueInv, auditVars
<1>4. LoopOK'
  BY DEF Term, QueueInv, LoopOK, Busy
<1>5. Flags'
  BY DEF Term, QueueInv, Flags, pinVars
<1>6. Sets' /\ Levels'
  BY DEF Term, QueueInv, Sets, Levels, pinVars
<1>7. Faults'
  BY DEF Term, QueueInv, Faults
<1>8. QED
  BY <1>2, <1>3, <1>4, <1>5, <1>6, <1>7 DEF QueueInv

\* drain_once fetches: what it takes was published, and so was everything before it.
LEMMA FetchKeeps == ASSUME QueueInv, Fetch PROVE QueueInv'
<1> DEFINE new == {c \in Cmd : msg[c].at = "new"}
<1>1. /\ msg \in [Cmd -> Message] /\ sent \in Nat /\ Cmd \subseteq Nat \ {0} /\ MaxDeliver \in Nat
      /\ \A c \in Cmd : msg[c].tries \in 0..MaxDeliver
  <2>1. msg \in [Cmd -> Message]
    BY DEF QueueInv, MsgOK
  <2>2. \A c \in Cmd : msg[c].tries \in 0..MaxDeliver
    BY <2>1 DEF Message
  <2>3. QED
    BY <2>1, <2>2, CommandsAreNumbers DEF QueueInv, MsgOK
<1>2. ASSUME NEW c \in new
      PROVE  msg'[c] \in Message /\ msg'[c].at = "out" /\ msg'[c].tries = msg[c].tries + 1
                /\ msg'[c].tries > 0
  <2>1. msg[c].tries < MaxDeliver
    BY DEF QueueInv, MsgOK
  <2>2. msg[c].tries + 1 \in 0..MaxDeliver /\ msg[c].tries + 1 > 0
    BY <1>1, <2>1
  <2>3. msg'[c] = [msg[c] EXCEPT !.at = "out", !.tries = @ + 1]
    BY DEF Fetch
  <2>4. QED
    BY <1>1, <2>2, <2>3 DEF Message
<1>3. ASSUME NEW c \in Cmd \ new PROVE msg'[c] = msg[c]
  BY DEF Fetch
<1>4. msg' \in [Cmd -> Message]
  BY <1>1, <1>2, <1>3 DEF Fetch
<1>5. MsgOK'
  <2>1. sent' = sent
    BY DEF Fetch
  <2>2. ASSUME NEW c \in Cmd PROVE (msg'[c].at = "none" <=> msg[c].at = "none") /\ msg'[c].at # "new"
    BY <1>2, <1>3
  <2>3. ASSUME NEW c \in Cmd, msg'[c].at = "none" PROVE msg'[c].tries = 0
    BY <1>2, <1>3, <2>3 DEF QueueInv, MsgOK
  <2>4. QED
    BY <1>4, <2>1, <2>2, <2>3 DEF QueueInv, MsgOK
<1>6. batch' = new /\ new \subseteq Cmd /\ seen' = seen \cup HandedOut /\ newest' = newest
  BY DEF Fetch, pinVars
<1>7. HandedOut' = HandedOut \cup new
  BY <1>2, <1>3 DEF HandedOut
<1>8. Known' = Known \cup new
  BY <1>6, <1>7 DEF Known
<1>9. InOrder'
  <2>1. ASSUME NEW c \in Cmd, msg'[c].at \notin {"none", "new"} PROVE c \in Known'
    BY <1>3, <1>8, <2>1 DEF QueueInv, InOrder
  <2>2. newest' \in {0} \cup Known'
    BY <1>6, <1>8 DEF QueueInv, InOrder
  <2>3. ASSUME NEW c \in Known', NEW d \in Cmd, d < c PROVE d \in Known'
    <3>1. CASE c \in Known
      BY <1>8, <2>3, <3>1 DEF QueueInv, InOrder
    <3>2. CASE c \in new
      <4>1. ~(c > sent)
        BY <3>2 DEF QueueInv, MsgOK
      <4>2. msg[d].at # "none"
        BY <1>1, <2>3, <3>2, <4>1 DEF QueueInv, MsgOK
      <4>3. QED
        BY <1>8, <4>2 DEF QueueInv, InOrder
    <3>3. QED
      BY <1>8, <3>1, <3>2
  <2>4. QED
    BY <1>6, <1>8, <2>1, <2>2, <2>3 DEF InOrder
<1>10. BatchOK'
  <2>1. ASSUME NEW c \in new, c \notin seen' PROVE c >= newest'
    <3>1. c \notin Known
      BY <1>6, <2>1 DEF Known
    <3>2. CASE newest = 0
      BY <1>1, <1>6, <3>2
    <3>3. CASE newest \in Known
      <4>1. ~(c < newest)
        BY <3>1, <3>3 DEF QueueInv, InOrder
      <4>2. newest \in Nat
        BY <1>1, <3>3 DEF Known, HandedOut, QueueInv, Sets
      <4>3. QED
        BY <1>1, <1>6, <4>1, <4>2
    <3>4. QED
      BY <3>2, <3>3 DEF QueueInv, InOrder
  <2>2. QED
    BY <1>2, <1>6, <2>1 DEF BatchOK
<1>11. AuditOK'
  BY AuditRests DEF Fetch, QueueInv
<1>12. LoopOK'
  BY DEF Fetch, QueueInv, LoopOK
<1>13. Flags'
  BY DEF Fetch, QueueInv, Flags, pinVars
<1>14. Sets'
  BY <1>6 DEF Fetch, HandedOut, QueueInv, Sets
<1>15. Levels' /\ Faults'
  BY DEF Fetch, QueueInv, Levels, Faults, pinVars
<1>16. QED
  BY <1>5, <1>9, <1>10, <1>11, <1>12, <1>13, <1>14, <1>15 DEF QueueInv

\* A command is applied: the rest of the batch is newer, so it is no older than the newest.
LEMMA ApplyKeeps == ASSUME QueueInv, NEW c \in batch, Apply(c) PROVE QueueInv'
<1>1. Cmd \subseteq Nat \ {0} /\ c \in Cmd /\ c \in Known /\ \A d \in batch : d \in Nat /\ c <= d
  BY CommandsAreNumbers DEF Apply, Foremost, QueueInv, BatchOK, InOrder, queueVars
<1>2. newest' \in {c, newest} /\ newest \in Nat
  <2>1. newest \in Cmd \cup {0}
    BY DEF QueueInv, Levels
  <2>2. newest' \in {c, newest}
    BY DEF Apply, queueVars
  <2>3. QED
    BY <1>1, <2>1, <2>2
<1>3. MsgOK'
  BY DEF Apply, QueueInv, MsgOK, queueVars
<1>4. Known' = Known /\ batch' = batch /\ msg' = msg /\ seen' = seen
  BY DEF Known, HandedOut, Apply, queueVars
<1>5. InOrder'
  BY <1>1, <1>2, <1>4 DEF QueueInv, InOrder
<1>6. BatchOK'
  BY <1>1, <1>2, <1>4 DEF QueueInv, BatchOK
<1>7. MsgOK' /\ InOrder' /\ BatchOK'
  BY <1>3, <1>5, <1>6
<1>8. AuditOK'
  BY AuditRests DEF Apply, QueueInv, auditVars, queueVars
<1>9. LoopOK'
  BY DEF Apply, QueueInv, LoopOK, Busy, queueVars
<1>10. Flags'
  BY DEF Apply, QueueInv, Flags, queueVars
<1>11. Sets' /\ Levels'
  BY <1>1, <1>2 DEF Apply, QueueInv, Sets, Levels, queueVars
<1>12. Faults'
  BY DEF Apply, QueueInv, Faults, queueVars
<1>13. QED
  BY <1>7, <1>8, <1>9, <1>10, <1>11, <1>12 DEF QueueInv

\* A heal that sticks.
LEMMA ResubscribeKeeps == ASSUME QueueInv, Resubscribe PROVE QueueInv'
<1>1. MsgOK' /\ InOrder' /\ BatchOK' /\ seen' \subseteq Cmd
  BY QueueRemade DEF Resubscribe, Provisioned, Remade, pinVars
<1>2. AuditOK'
  BY AuditRests DEF Resubscribe, QueueInv, auditVars
<1>3. LoopOK'
  <2>1. at' = "idle" /\ attempts' = 0
    BY DEF Resubscribe
  <2>2. QED
    BY <2>1, CommandsAreNumbers DEF LoopOK
<1>4. Flags'
  BY DEF Resubscribe, Provisioned, QueueInv, Flags, pinVars
<1>5. Sets' /\ Levels'
  BY <1>1 DEF Resubscribe, QueueInv, Sets, Levels, pinVars
<1>6. Faults'
  BY DEF Resubscribe, QueueInv, Faults
<1>7. QED
  BY <1>1, <1>2, <1>3, <1>4, <1>5, <1>6 DEF QueueInv

\* A heal whose answer is lost.
LEMMA ResubscribeUnansweredKeeps == ASSUME QueueInv, ResubscribeUnanswered PROVE QueueInv'
<1>1. MsgOK' /\ InOrder' /\ BatchOK' /\ seen' \subseteq Cmd
  BY QueueRemade DEF ResubscribeUnanswered, Provisioned, Remade, pinVars
<1>2. AuditOK'
  BY AuditRests DEF ResubscribeUnanswered, QueueInv, auditVars
<1>3. LoopOK'
  BY DEF ResubscribeUnanswered, QueueInv, LoopOK
<1>4. Flags'
  BY DEF ResubscribeUnanswered, Provisioned, QueueInv, Flags, pinVars
<1>5. Sets' /\ Levels'
  BY <1>1 DEF ResubscribeUnanswered, QueueInv, Sets, Levels, pinVars
<1>6. Faults'
  BY FaultCounts DEF ResubscribeUnanswered, QueueInv, Faults
<1>7. QED
  BY <1>1, <1>2, <1>3, <1>4, <1>5, <1>6 DEF QueueInv

\* The service starts.
LEMMA StartKeeps == ASSUME QueueInv, Start PROVE QueueInv'
<1>1. MsgOK' /\ InOrder' /\ BatchOK' /\ seen' \subseteq Cmd
  BY QueueRemade DEF Start, Provisioned, Remade
<1>2. AuditOK'
  BY AuditRests DEF Start, QueueInv, auditVars
<1>3. LoopOK'
  BY CommandsAreNumbers DEF Start, QueueInv, LoopOK, Busy
<1>4. Flags'
  BY DEF Start, Provisioned, QueueInv, Flags
<1>5. Sets' /\ Levels'
  BY <1>1 DEF Start, QueueInv, Sets, Levels
<1>6. Faults'
  BY DEF Start, QueueInv, Faults
<1>7. QED
  BY <1>1, <1>2, <1>3, <1>4, <1>5, <1>6 DEF QueueInv

-----------------------------------------------------------------------------
(* The audit stream and its writer.                                        *)

\* The event of a refusal is published.
LEMMA AuditRefusalKeeps == ASSUME QueueInv, NEW c \in batch, AuditRefusal(c) PROVE QueueInv'
<1>1. MsgOK' /\ InOrder' /\ BatchOK'
  BY QueueRests DEF AuditRefusal, queueVars, pinVars
<1>2. c \in Event
  BY CommandsAreNumbers DEF QueueInv, BatchOK
<1>3. ASSUME audit' = audit PROVE AuditOK'
  BY <1>3 DEF AuditRefusal, QueueInv, AuditOK, AuditTypeOK
<1>4. ASSUME audit[c].at = "none", audit' = [audit EXCEPT ![c].at = "new"] PROVE AuditOK'
  <2>1. 0 < MaxAuditDeliver /\ audit[c].tries = 0
    BY <1>2, <1>4, CommandsAreNumbers DEF QueueInv, AuditOK
  <2>2. [audit[c] EXCEPT !.at = "new"] \in AuditMsg
    BY <1>2 DEF QueueInv, AuditOK, AuditTypeOK, AuditMsg
  <2>3. audit' \in [Event -> AuditMsg]
    BY <1>4, <2>2 DEF QueueInv, AuditOK, AuditTypeOK
  <2>4. ASSUME NEW e \in Event PROVE audit'[e].at = "new" => audit'[e].tries < MaxAuditDeliver
    <3>1. audit'[e].tries = audit[e].tries /\ (e # c => audit'[e].at = audit[e].at)
      BY <1>4 DEF QueueInv, AuditOK, AuditTypeOK, AuditMsg
    <3>2. QED
      BY <2>1, <3>1 DEF QueueInv, AuditOK
  <2>5. ASSUME NEW e \in Event PROVE audit'[e].at = "none" => audit'[e].tries = 0
    BY <1>4 DEF QueueInv, AuditOK, AuditTypeOK, AuditMsg
  <2>6. QED
    BY <2>3, <2>4, <2>5 DEF AuditRefusal, QueueInv, AuditOK, AuditTypeOK
<1>5. AuditOK'
  BY <1>3, <1>4 DEF AuditRefusal, Publishing
<1>6. LoopOK'
  BY DEF AuditRefusal, QueueInv, LoopOK, Busy
<1>7. Flags'
  BY DEF AuditRefusal, QueueInv, Flags, queueVars, pinVars
<1>8. Sets' /\ Levels' /\ Faults'
  BY DEF AuditRefusal, QueueInv, Sets, Levels, Faults, queueVars, pinVars
<1>9. QED
  BY <1>1, <1>5, <1>6, <1>7, <1>8 DEF QueueInv

\* The writer fetches, stores, acks; an event comes back.
LEMMA WriterTypes == ASSUME AuditOK, WriterStep PROVE AuditOK'
<1>1. audit \in [Event -> AuditMsg] /\ \A e \in Event : audit[e].tries \in 0..MaxAuditDeliver
  BY DEF AuditOK, AuditTypeOK, AuditMsg
<1>2. MaxAuditDeliver \in Nat
  BY CommandsAreNumbers
<1>3. CASE WriterFetches
  <2> DEFINE new == {e \in Event : audit[e].at = "new"}
  <2>1. ASSUME NEW e \in new PROVE [at |-> "out", tries |-> audit[e].tries + 1] \in AuditMsg
    <3>1. audit[e].tries < MaxAuditDeliver
      BY DEF AuditOK
    <3>2. audit[e].tries + 1 \in 0..MaxAuditDeliver
      BY <1>1, <1>2, <3>1
    <3>3. QED
      BY <3>2 DEF AuditMsg
  <2>2. audit' = [e \in Event |-> IF e \in new THEN [at |-> "out", tries |-> audit[e].tries + 1]
                                  ELSE audit[e]]
    BY <1>3 DEF WriterFetches
  <2>3. audit' \in [Event -> AuditMsg]
    BY <1>1, <2>1, <2>2
  <2>4. \A e \in Event : audit'[e].at # "new" /\ (audit'[e].at = "none" => audit'[e] = audit[e])
    BY <2>2
  <2>5. writer' \in [at : {"idle", "store", "ack"}, batch : SUBSET Event] /\ rows' = rows
    BY <1>3 DEF WriterFetches
  <2>6. QED
    BY <2>3, <2>4, <2>5 DEF AuditOK, AuditTypeOK
<1>4. CASE WriterStores
  BY <1>4 DEF WriterStores, AuditOK, AuditTypeOK
<1>5. ASSUME NEW e \in Event, WriterAcks(e) PROVE AuditOK'
  <2>1. /\ audit' \in [Event -> AuditMsg]
        /\ \A d \in Event : audit'[d].at = "new" => audit[d].at = "new" /\ audit'[d].tries = audit[d].tries
        /\ \A d \in Event : audit'[d].at = "none" => audit'[d] = audit[d]
    BY <1>1, <1>5 DEF WriterAcks, AuditMsg
  <2>2. writer' \in [at : {"idle", "store", "ack"}, batch : SUBSET Event] /\ rows' = rows
    BY <1>5 DEF WriterAcks, Resting, AuditOK, AuditTypeOK
  <2>3. QED
    BY <2>1, <2>2 DEF AuditOK, AuditTypeOK
<1>6. ASSUME NEW e \in Event, AuditRedelivers(e) PROVE AuditOK'
  <2>1. PICK a \in {"new", "gone"} :
          /\ audit' = [audit EXCEPT ![e].at = a]
          /\ a = "new" => audit[e].tries < MaxAuditDeliver
    BY <1>6 DEF AuditRedelivers
  <2>2. /\ audit' \in [Event -> AuditMsg]
        /\ \A d \in Event : audit'[d].tries = audit[d].tries /\ (d # e => audit'[d].at = audit[d].at)
        /\ audit'[e].at = a
    BY <1>1, <2>1 DEF AuditMsg
  <2>3. QED
    BY <1>6, <2>1, <2>2 DEF AuditRedelivers, AuditOK, AuditTypeOK
<1>7. QED
  BY <1>3, <1>4, <1>5, <1>6 DEF WriterStep

\* The writer's steps, and its stalls, leave the consumer alone.
LEMMA WriterKeeps == ASSUME QueueInv, Writer \/ Stall PROVE QueueInv'
<1>1. MsgOK' /\ InOrder' /\ BatchOK'
  BY QueueRests DEF Writer, Stall, queueVars, loopVars, pinVars
<1>2. AuditOK'
  <2>1. CASE Writer
    BY <2>1, WriterTypes DEF Writer, QueueInv
  <2>2. CASE Stall
    <3>1. audit' = audit /\ rows' = rows /\ writer' = Resting
      BY <2>2 DEF Stall, WriterStalls
    <3>2. QED
      BY <3>1 DEF QueueInv, AuditOK, AuditTypeOK, Resting
  <2>3. QED
    BY <2>1, <2>2
<1>3. LoopOK'
  BY DEF Writer, Stall, QueueInv, LoopOK, Busy, loopVars
<1>4. Flags'
  BY DEF Writer, Stall, QueueInv, Flags, queueVars, loopVars, pinVars
<1>5. Sets' /\ Levels'
  BY DEF Writer, Stall, QueueInv, Sets, Levels, queueVars, loopVars, pinVars
<1>6. Faults'
  BY FaultCounts DEF Writer, Stall, QueueInv, Faults
<1>7. QED
  BY <1>1, <1>2, <1>3, <1>4, <1>5, <1>6 DEF QueueInv

-----------------------------------------------------------------------------
(* The theorems.                                                           *)

\* The invariant holds from the start and through every step.
LEMMA QueueInvariant == Spec => []QueueInv
<1>1. ASSUME Init PROVE QueueInv
  <2>1. 0 \in 0..MaxDeliver /\ 0 \in 0..MaxAuditDeliver /\ 0 \in 0..MaxHeal /\ 0 \in 0..MaxFaults /\ 0 \in Nat
    BY CommandsAreNumbers
  <2>2. [at |-> "none", tries |-> 0, kind |-> "ok"] \in Message /\ [at |-> "none", tries |-> 0] \in AuditMsg
    BY <2>1 DEF Message, Kind, AuditMsg
  <2>3. MsgOK
    BY <1>1, <2>1, <2>2, CommandsAreNumbers DEF Init, MsgOK
  <2>4. Known = {}
    BY <1>1 DEF Init, Known, HandedOut
  <2>5. InOrder
    BY <1>1, <2>4 DEF Init, InOrder
  <2>6. AuditOK
    BY <1>1, <2>2 DEF Init, AuditInit, AuditOK, AuditTypeOK, Resting
  <2>7. Flags
    BY <1>1 DEF Init, Flags
  <2>8. BatchOK /\ LoopOK /\ Sets /\ Levels /\ Faults
    BY <1>1, <2>1 DEF Init, BatchOK, LoopOK, Sets, Levels, Faults
  <2>9. QED
    BY <2>3, <2>5, <2>6, <2>7, <2>8 DEF QueueInv
<1>2. ASSUME QueueInv, [Next]_vars PROVE QueueInv'
  <2>1. batch \subseteq Cmd
    BY <1>2 DEF QueueInv, BatchOK
  <2>2. CASE UNCHANGED vars
    <3>1. MsgOK' /\ InOrder' /\ BatchOK' /\ AuditOK'
      BY <1>2, <2>2, QueueRests, AuditRests DEF QueueInv, vars, queueVars, loopVars, pinVars
    <3>2. LoopOK' /\ Flags' /\ Sets' /\ Levels' /\ Faults'
      BY <1>2, <2>2 DEF QueueInv, LoopOK, Busy, Flags, Sets, Levels, Faults,
         vars, queueVars, loopVars, pinVars
    <3>3. QED
      BY <3>1, <3>2 DEF QueueInv
  <2>3. CASE Loop
    <3>1. CASE Fetch \/ Heal \/ Resubscribe \/ ResubscribeFails \/ GiveUp
      BY <1>2, <3>1, FetchKeeps, HealKeeps, ResubscribeKeeps, ResubscribeFailsKeeps, GiveUpKeeps
    <3>2. ASSUME NEW c \in batch, \/ Pass(c) \/ Apply(c) \/ Report(c, TRUE, TRUE)
                                  \/ Refuse(c) \/ AuditRefusal(c) \/ Term(c)
          PROVE  QueueInv'
      BY <1>2, <2>1, <3>2, PassKeeps, ApplyKeeps, ReportKeeps, RefuseKeeps,
         AuditRefusalKeeps, TermKeeps
    <3>3. QED
      BY <2>3, <3>1, <3>2 DEF Loop
  <2>4. CASE Writer \/ Stall
    BY <1>2, <2>4, WriterKeeps
  <2>5. ASSUME NEW k \in Kind, Emit(k) PROVE QueueInv'
    BY <1>2, <2>5, EmitKeeps
  <2>6. ASSUME NEW c \in Cmd, Lapse(c) \/ Redeliver(c) \/ AckWaitLapses(c) PROVE QueueInv'
    BY <1>2, <2>6, LapseKeeps, RedeliverKeeps, AckWaitLapsesKeeps
  <2>7. ASSUME NEW c \in batch, DriverFails(c) \/ AuditRefusalFails(c)
        PROVE  QueueInv'
    BY <1>2, <2>1, <2>7, DriverFailsKeeps, AuditRefusalFailsKeeps
  <2>8. ASSUME NEW c \in batch, NEW acked \in BOOLEAN, NEW told \in BOOLEAN, Report(c, acked, told)
         PROVE  QueueInv'
    BY <1>2, <2>8, ReportKeeps
  <2>9. CASE DeleteConsumer \/ HoldFilter \/ FreeFilter \/ ResubscribeUnanswered \/ Die \/ Start
    BY <1>2, <2>9, ResubscribeUnansweredKeeps, DeleteConsumerKeeps, HoldFilterKeeps, FreeFilterKeeps, DieKeeps, StartKeeps
  <2>10. ASSUME NEW latch \in BOOLEAN, Trip(latch) PROVE QueueInv'
    BY <1>2, <2>10, TripKeeps
  <2>11. CASE TellTrip \/ TellTripFails \/ Relent
    BY <1>2, <2>11, TellTripKeeps, TellTripFailsKeeps, RelentKeeps
  <2>12. QED
    BY <1>2, <2>2, <2>3, <2>4, <2>5, <2>6, <2>7, <2>8, <2>9, <2>10, <2>11 DEF Next
<1>3. QED
  BY <1>1, <1>2, PTL DEF Spec

\* Every variable has its type: among others the heal attempts stay within their budget, what
\* is worked on was handed out, and no message is handed out more often than it may be
\* (spine.py, drain_once and _heal; the consumers' max_deliver).
THEOREM QueueTypes == Spec => []QueueTypeOK
  BY QueueInvariant, InvariantTypes, PTL

\* The level goes back to an older command's only when that command is handed out again
\* (spine.py, drain_once): for any number of commands, of deliveries, of faults and of
\* consumers lost and made anew.
THEOREM OnlyRetriesReorder == Spec => RetryOnlyReorders
<1>1. QueueInv /\ [Next]_vars => [pin' \notin {0, pin} /\ pin' < newest => pin' \in seen]_vars
  <2>1. SUFFICES ASSUME QueueInv, Next, pin' \notin {0, pin}, pin' < newest PROVE pin' \in seen
    OBVIOUS
  <2>2. PICK c \in batch : Apply(c)
    BY <2>1 DEF Next, Loop, Fetch, Heal, Resubscribe, ResubscribeFails, GiveUp, Pass, Report, Refuse,
       AuditRefusal, Term, Writer, Stall, Emit, Lapse, Redeliver, AckWaitLapses, DriverFails,
       ResubscribeUnanswered, AuditRefusalFails, DeleteConsumer, HoldFilter, FreeFilter, Die, Start, Trip, TellTrip,
       TellTripFails, Relent, pinVars
  <2>3. c \in Nat /\ newest \in Nat
    <3>1. c \in Cmd /\ newest \in Cmd \cup {0}
      BY <2>1, <2>2 DEF QueueInv, BatchOK, Levels
    <3>2. QED
      BY <3>1, CommandsAreNumbers
  <2>4. QED
    BY <2>1, <2>2, <2>3 DEF Apply, QueueInv, BatchOK
<1>2. QED
  BY <1>1, QueueInvariant, PTL DEF Spec, RetryOnlyReorders

-----------------------------------------------------------------------------
(* The published level.                                                    *)

\* Who holds the chip's lock decides what the pin carries: a trip that was not told of holds
\* it at 0, a command whose task has not resumed at its own level, and the state follows each.
WireInv ==
    /\ StateIsTruth
    /\ ~tripTold => pin = 0
    /\ at = "wrote" => tripTold /\ \A c \in batch : Foremost(c) => pin = c
    /\ ~up => tripTold /\ at # "wrote"

\* The steps that neither write nor publish.
LEMMA WireRests ==
    ASSUME WireInv, UNCHANGED <<up, pin, tripTold, state, untold>>,
           \/ at' # "wrote" /\ at # "wrote"
           \/ at' = at /\ batch' = batch
    PROVE  WireInv'
<1>1. CASE at' # "wrote" /\ at # "wrote"
  BY <1>1 DEF WireInv, StateIsTruth
<1>2. CASE at' = at /\ batch' = batch
  BY <1>2 DEF WireInv, StateIsTruth, Foremost
<1>3. QED
  BY <1>1, <1>2

\* What drain_once, _heal and the audit writer do beside the write itself.
LEMMA LoopKeepsTheWire ==
    ASSUME WireInv,
           \/ Fetch \/ Heal \/ Resubscribe \/ ResubscribeFails \/ ResubscribeUnanswered
           \/ Writer \/ Stall
           \/ \E c \in batch : \/ Pass(c) \/ DriverFails(c) \/ Refuse(c) \/ AuditRefusal(c)
                               \/ AuditRefusalFails(c) \/ Term(c)
    PROVE  WireInv'
<1>1. CASE Fetch \/ Heal \/ Resubscribe \/ ResubscribeFails \/ ResubscribeUnanswered
  BY <1>1, WireRests DEF Fetch, Heal, Resubscribe, ResubscribeFails, ResubscribeUnanswered, pinVars
<1>2. CASE Writer \/ Stall
  BY <1>2, WireRests DEF Writer, Stall, loopVars, pinVars
<1>3. ASSUME NEW c \in batch, \/ Pass(c) \/ DriverFails(c) \/ Refuse(c) \/ AuditRefusal(c)
                              \/ AuditRefusalFails(c) \/ Term(c)
      PROVE  WireInv'
  BY <1>3, WireRests DEF Pass, DriverFails, Refuse, AuditRefusal, AuditRefusalFails, Term, pinVars
<1>4. QED
  BY <1>1, <1>2, <1>3

\* What happens to the queue.
LEMMA QueueKeepsTheWire ==
    ASSUME WireInv,
           \/ \E k \in Kind : Emit(k)
           \/ \E c \in Cmd : Lapse(c) \/ Redeliver(c) \/ AckWaitLapses(c)
           \/ DeleteConsumer \/ HoldFilter \/ FreeFilter \/ Relent
    PROVE  WireInv'
<1>1. UNCHANGED <<loopVars, pin, tripTold, state, untold>>
  BY DEF Emit, Lapse, Redeliver, AckWaitLapses, DeleteConsumer, HoldFilter, FreeFilter, Relent, pinVars
<1>2. QED
  BY <1>1, WireRests DEF loopVars

\* The writes and the publishes.
LEMMA WritesKeepTheWire ==
    ASSUME QueueInv, WireInv,
           \/ \E c \in batch : Apply(c) \/ \E acked, told \in BOOLEAN : Report(c, acked, told)
           \/ \E latch \in BOOLEAN : Trip(latch)
           \/ TellTrip \/ TellTripFails \/ GiveUp \/ Die \/ Start
    PROVE  WireInv'
<1>1. ASSUME NEW c \in batch, Apply(c) PROVE WireInv'
  <2>1. /\ pin' = c /\ at' = "wrote" /\ tripTold /\ tripTold' = tripTold /\ batch' = batch
        /\ up /\ up' = up /\ Foremost(c)
    BY <1>1 DEF Apply
  <2>2. ASSUME NEW d \in batch, \A e \in batch : d <= e PROVE d = c
    <3>1. c \in Nat /\ d \in Nat /\ c <= d /\ d <= c
      BY <2>1, <2>2, CommandsAreNumbers DEF Foremost, QueueInv, BatchOK
    <3>2. QED
      BY <3>1
  <2>3. QED
    BY <2>1, <2>2 DEF WireInv, StateIsTruth, Foremost
<1>2. ASSUME NEW c \in batch, NEW acked \in BOOLEAN, NEW told \in BOOLEAN, Report(c, acked, told)
      PROVE  WireInv'
  <2>1. /\ at = "wrote" /\ Foremost(c) /\ at' = "idle" /\ untold' = ~told
        /\ state' = (IF told THEN c ELSE state)
        /\ UNCHANGED <<up, pin, tripTold>>
    BY <1>2 DEF Report
  <2>2. pin = c
    BY <2>1 DEF WireInv
  <2>3. QED
    BY <2>1, <2>2 DEF WireInv, StateIsTruth
<1>3. ASSUME NEW latch \in BOOLEAN, Trip(latch) PROVE WireInv'
  BY <1>3 DEF Trip, WireInv, StateIsTruth, loopVars
<1>4. CASE TellTrip \/ TellTripFails
  BY <1>4 DEF TellTrip, TellTripFails, WireInv, StateIsTruth, loopVars
<1>5. CASE GiveUp \/ Die
  BY <1>5 DEF GiveUp, Die, Stopped, WireInv, StateIsTruth
<1>6. CASE Start
  BY <1>6 DEF Start, WireInv, StateIsTruth
<1>7. QED
  BY <1>1, <1>2, <1>3, <1>4, <1>5, <1>6

\* Two tasks write the channel and publish its state to one retained subject.  With no write
\* waiting to be told of, and the last publish not lost, BR_STATE names the level of the pin
\* (spine.py, drain_once and _publish_applied_state; app.py, _on_safety_event): for any number
\* of commands, deliveries, trips and faults.
THEOREM WireIsTruth == Spec => []StateIsTruth
<1>1. Init => WireInv
  BY DEF Init, WireInv, StateIsTruth
<1>2. QueueInv /\ WireInv /\ [Next]_vars => WireInv'
  <2>1. SUFFICES ASSUME QueueInv, WireInv, [Next]_vars PROVE WireInv'
    OBVIOUS
  <2>2. CASE UNCHANGED vars
    BY <2>1, <2>2, WireRests DEF vars, loopVars, pinVars
  <2>3. CASE Next
    <3>1. TRUE \in BOOLEAN
      OBVIOUS
    <3>2. CASE Loop
      BY <2>1, <3>1, <3>2, LoopKeepsTheWire, WritesKeepTheWire DEF Loop
    <3>3. QED
      BY <2>1, <2>3, <3>2, LoopKeepsTheWire, QueueKeepsTheWire, WritesKeepTheWire DEF Next
  <2>4. QED
    BY <2>1, <2>2, <2>3
<1>3. QED
  BY <1>1, <1>2, QueueInvariant, PTL DEF Spec, WireInv
=============================================================================
