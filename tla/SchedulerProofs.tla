-------------------------- MODULE SchedulerProofs --------------------------
(***************************************************************************)
(* For any number of channels and any deadband, refresh and slew: the      *)
(* scheduler's memory is its last command, a cold channel starts dark, no  *)
(* two commands are further apart than the slew allows, and a convergence  *)
(* moves on every pass.                                                    *)
(***************************************************************************)
EXTENDS Scheduler, TLAPS

\* scheduler.py, _limit: a move stays between where it starts and where it is going,
\* and with a slew it rises by no more than the slew allows for the time.
LEMMA LimitBounds ==
    ASSUME NEW previous \in Duty, NEW target \in Duty, NEW dt \in Nat
    PROVE  /\ Limit(previous, target, dt) \in Duty
           /\ Slew # 0 => Limit(previous, target, dt) - previous <= Slew * dt
           /\ Slew # 0 /\ dt = 0 => Limit(previous, target, dt) = previous
<1> DEFINE reach == Slew * dt
<1>1. reach \in Nat
  BY SchedulerAssumption
<1>2. dt = 0 => reach = 0
  BY SchedulerAssumption
<1>3. Limit(previous, target, dt) =
         IF Slew = 0 \/ Distance(target, previous) <= reach THEN target
         ELSE IF target > previous THEN previous + reach ELSE previous - reach
  BY DEF Limit
<1> HIDE DEF reach
<1>4. /\ Limit(previous, target, dt) \in Duty
      /\ Slew # 0 => Limit(previous, target, dt) - previous <= reach
      /\ Slew # 0 /\ dt = 0 => Limit(previous, target, dt) = previous
  BY <1>1, <1>2, <1>3, SchedulerAssumption DEF Distance, Duty
<1>5. QED
  BY <1>4 DEF reach

\* The fields of a memory, a hold and a sent command.
LEMMA Fields ==
    /\ \A m \in Memory : /\ m.known \in BOOLEAN /\ m.duty \in Duty /\ m.age \in 0..MaxAge
                         /\ m.hold \in Transition \cup {"none"} /\ m.slewing \in BOOLEAN
    /\ \A hold \in Hold : hold.duty \in Duty /\ hold.transition \in Transition \cup {"none"}
    /\ \A s \in Sent : s.duty \in Duty /\ s.age \in 0..MaxAge /\ s.snap \in BOOLEAN
<1>1. SAFE_DUTY \in Duty
  BY SchedulerAssumption DEF SAFE_DUTY, Duty
<1>2. QED
  BY <1>1 DEF Memory, Hold, HeldTarget, NoHold, Sent

\* scheduler.py, _emit_for: the intent for a channel is an intent, and unless it or the
\* remembered one is a snap it is no further up than the slew allows; a cold channel's
\* is dark.
LEMMA EmitForBounds ==
    ASSUME NEW m \in Memory, NEW resting \in Duty, NEW hold \in Hold,
           NEW intent \in EmitFor(m, resting, hold)
    PROVE  /\ intent \in Intent
           /\ Slew # 0 /\ m.hold # "snap" /\ intent.hold # "snap"
                 => intent.duty - m.duty <= Slew * m.age
           /\ Slew # 0 /\ m = Cold => intent.duty = SAFE_DUTY \/ intent.hold = "snap"
<1> DEFINE target == IF hold = NoHold THEN resting ELSE hold.duty
           duty == IF hold.transition = "snap" THEN target
                   ELSE Limit(m.duty, target, m.age)
           plain == [duty |-> duty, hold |-> hold.transition,
                     converging |-> duty # target]
           release == [duty |-> resting, hold |-> "none", converging |-> FALSE]
<1>1. intent = plain \/ (Releases(m, hold) /\ intent = release)
  BY DEF EmitFor
<1>2. m.duty \in Duty /\ m.age \in Nat /\ target \in Duty
  BY Fields, SchedulerAssumption
<1>3. /\ Limit(m.duty, target, m.age) \in Duty
      /\ Slew # 0 => Limit(m.duty, target, m.age) - m.duty <= Slew * m.age
      /\ Slew # 0 /\ m.age = 0 => Limit(m.duty, target, m.age) = m.duty
  BY <1>2, LimitBounds
<1>4. intent \in Intent
  <2>1. plain \in Intent
    BY <1>2, <1>3, Fields DEF Intent
  <2>2. release \in Intent
    BY DEF Intent
  <2>3. QED
    BY <1>1, <2>1, <2>2
<1>5. Slew # 0 /\ m.hold # "snap" /\ intent.hold # "snap"
         => intent.duty - m.duty <= Slew * m.age
  BY <1>1, <1>3 DEF Releases
<1>6. Slew # 0 /\ m = Cold => intent.duty = SAFE_DUTY \/ intent.hold = "snap"
  BY <1>1, <1>3 DEF Releases, Cold
<1>7. QED
  BY <1>4, <1>5, <1>6

\* What a command that is due is made of.
LEMMA DueBounds ==
    ASSUME SchedulerTypeOK, NEW c \in Channel, NEW intent \in DueFor(c)
    PROVE  /\ intent \in Intent
           /\ Slew # 0 /\ memory[c].hold # "snap" /\ intent.hold # "snap"
                 => intent.duty - memory[c].duty <= Slew * memory[c].age
           /\ Slew # 0 /\ memory[c] = Cold
                 => intent.duty = SAFE_DUTY \/ intent.hold = "snap"
<1>1. memory[c] \in Memory /\ held[c] \in Hold /\ Resting(c) \in Duty
  BY SchedulerAssumption DEF SchedulerTypeOK, Resting, SAFE_DUTY, Duty
<1>2. intent \in EmitFor(memory[c], Resting(c), held[c])
  BY DEF DueFor
<1>3. QED
  BY <1>1, <1>2, EmitForBounds

SchedulerInv == SchedulerTypeOK /\ MemoryIsLastSent

\* Both parts of the invariant hold at first.
LEMMA SchedulerInitInv == Init => SchedulerInv
<1> SUFFICES ASSUME Init PROVE SchedulerInv
  OBVIOUS
<1>1. Cold \in Memory
  BY SchedulerAssumption DEF Cold, Memory, SAFE_DUTY, Duty
<1>2. [duty |-> SAFE_DUTY, age |-> 0, snap |-> FALSE] \in Sent
  BY SchedulerAssumption DEF Sent, SAFE_DUTY, Duty
<1>3. SchedulerTypeOK
  BY <1>1, <1>2 DEF Init, SchedulerTypeOK, Hold
<1>4. MemoryIsLastSent
  BY DEF Init, MemoryIsLastSent, Cold
<1>5. QED
  BY <1>3, <1>4 DEF SchedulerInv

\* Both parts are kept by every step of the scheduler.
LEMMA SchedulerStepInv == SchedulerInv /\ [Next]_schedulerVars => SchedulerInv'
<1> SUFFICES ASSUME SchedulerInv, [Next]_schedulerVars PROVE SchedulerInv'
  OBVIOUS
<1> USE DEF SchedulerInv
<1>0. Cold \in Memory /\ ~Cold.known
  BY SchedulerAssumption DEF Cold, Memory, SAFE_DUTY, Duty
<1>1. ASSUME NEW c \in Channel, Emit(c) PROVE SchedulerInv'
  <2>1. PICK intent \in DueFor(c) :
           /\ turn' = turn \ {c}
           /\ memory' = [memory EXCEPT ![c] = MarkEmitted(intent, 0)]
           /\ sent' = [sent EXCEPT ![c] = [duty |-> intent.duty, age |-> 0,
                                           snap |-> intent.hold = "snap"]]
           /\ missed' = missed \ {c}
           /\ UNCHANGED <<profile, held>>
    BY <1>1 DEF Emit
  <2>2. intent \in Intent
    BY DueBounds
  <2>3. MarkEmitted(intent, 0) \in Memory
    BY <2>2, SchedulerAssumption DEF MarkEmitted, Intent, Memory
  <2>4. [duty |-> intent.duty, age |-> 0, snap |-> intent.hold = "snap"] \in Sent
    BY <2>2, SchedulerAssumption DEF Intent, Sent
  <2>5. SchedulerTypeOK'
    BY <2>1, <2>3, <2>4 DEF SchedulerTypeOK
  <2>6. MemoryIsLastSent'
    BY <2>1 DEF SchedulerTypeOK, MemoryIsLastSent, MarkEmitted
  <2>7. QED
    BY <2>5, <2>6
<1>2. ASSUME NEW c \in Channel, Suppress(c) PROVE SchedulerInv'
  BY <1>2 DEF Suppress, SchedulerTypeOK, MemoryIsLastSent
<1>3. ASSUME NEW c \in Channel, Forget(c) PROVE SchedulerInv'
  BY <1>0, <1>3 DEF Forget, SchedulerTypeOK, MemoryIsLastSent
<1>4. ASSUME NEW c \in Channel, NEW p \in Duty \cup {NoProfile}, SetProfile(c, p)
      PROVE SchedulerInv'
  BY <1>4 DEF SetProfile, SchedulerTypeOK, MemoryIsLastSent
<1>5. ASSUME NEW c \in Channel, NEW hold \in Hold, SetHeld(c, hold) PROVE SchedulerInv'
  BY <1>5 DEF SetHeld, SchedulerTypeOK, MemoryIsLastSent
<1>6. CASE Reset
  BY <1>0, <1>6 DEF Reset, SchedulerTypeOK, MemoryIsLastSent
<1>7. CASE Age
  <2>1. \A age \in 0..MaxAge : Older(age) \in 0..MaxAge
    BY SchedulerAssumption DEF Older
  <2>2. \A c \in Channel :
           /\ memory'[c] = [memory[c] EXCEPT !.age = IF memory[c].known
                                                     THEN Older(memory[c].age)
                                                     ELSE memory[c].age]
           /\ sent'[c] = [sent[c] EXCEPT !.age = Older(sent[c].age)]
    BY <1>7 DEF Age
  <2>3. \A c \in Channel : memory'[c] \in Memory /\ sent'[c] \in Sent
    <3>1. SUFFICES ASSUME NEW c \in Channel PROVE memory'[c] \in Memory /\ sent'[c] \in Sent
      OBVIOUS
    <3>2. memory[c] \in Memory /\ sent[c] \in Sent
      BY DEF SchedulerTypeOK
    <3>3. memory[c].age \in 0..MaxAge /\ sent[c].age \in 0..MaxAge
      BY <3>2, Fields
    <3>4. ASSUME NEW age \in 0..MaxAge
          PROVE  [memory[c] EXCEPT !.age = age] \in Memory
      BY <3>2 DEF Memory
    <3>5. ASSUME NEW age \in 0..MaxAge
          PROVE  [sent[c] EXCEPT !.age = age] \in Sent
      BY <3>2 DEF Sent
    <3>6. sent'[c] \in Sent
      <4>1. Older(sent[c].age) \in 0..MaxAge
        BY <2>1, <3>3
      <4>2. sent'[c] = [sent[c] EXCEPT !.age = Older(sent[c].age)]
        BY <2>2
      <4>3. QED
        BY <3>5, <4>1, <4>2
    <3>7. memory'[c] \in Memory
      <4> DEFINE age == IF memory[c].known THEN Older(memory[c].age) ELSE memory[c].age
      <4>1. age \in 0..MaxAge
        BY <2>1, <3>3
      <4>2. memory'[c] = [memory[c] EXCEPT !.age = age]
        BY <2>2
      <4> HIDE DEF age
      <4>3. QED
        BY <3>4, <4>1, <4>2
    <3>8. QED
      BY <3>6, <3>7
  <2>4. SchedulerTypeOK'
    BY <1>7, <2>3 DEF Age, SchedulerTypeOK
  <2>5. MemoryIsLastSent'
    <3>1. SUFFICES ASSUME NEW c \in Channel
                   PROVE  IF memory'[c].known
                          THEN /\ memory'[c].duty = sent'[c].duty
                               /\ memory'[c].age = sent'[c].age
                               /\ memory'[c].hold = "snap" <=> sent'[c].snap
                          ELSE memory'[c] = Cold
      BY DEF MemoryIsLastSent
    <3>2. memory[c] \in Memory /\ sent[c] \in Sent
      BY DEF SchedulerTypeOK
    <3>3. /\ memory'[c].known = memory[c].known /\ memory'[c].duty = memory[c].duty
          /\ memory'[c].hold = memory[c].hold
          /\ memory'[c].age = IF memory[c].known THEN Older(memory[c].age)
                              ELSE memory[c].age
      BY <2>2, <3>2 DEF Memory
    <3>4. /\ sent'[c].duty = sent[c].duty /\ sent'[c].snap = sent[c].snap
          /\ sent'[c].age = Older(sent[c].age)
      BY <2>2, <3>2 DEF Sent
    <3>5. CASE memory[c].known
      BY <3>3, <3>4, <3>5 DEF MemoryIsLastSent
    <3>6. CASE ~memory[c].known
      <4>1. memory[c] = Cold
        BY <3>6 DEF MemoryIsLastSent
      <4>2. memory'[c] = Cold
        BY <2>2, <3>6, <4>1 DEF Cold
      <4>3. QED
        BY <3>3, <3>6, <4>2
    <3>7. QED
      BY <3>2, <3>5, <3>6, Fields
  <2>6. QED
    BY <2>4, <2>5
<1>8. CASE UNCHANGED schedulerVars
  BY <1>8 DEF schedulerVars, SchedulerTypeOK, MemoryIsLastSent
<1>9. QED
  BY <1>1, <1>2, <1>3, <1>4, <1>5, <1>6, <1>7, <1>8 DEF Next

\* Every state is well typed: an intent, a memory and a sent command stay within the duties
\* and ages the code gives them.
THEOREM SchedulerTypes == Spec => []SchedulerTypeOK
<1>1. Spec => []SchedulerInv
  BY SchedulerInitInv, SchedulerStepInv, PTL DEF Spec
<1>2. QED
  BY <1>1, PTL DEF SchedulerInv

\* The scheduler's memory is its last command in every reachable state.
THEOREM SchedulerMemory == Spec => []MemoryIsLastSent
<1>1. Spec => []SchedulerInv
  BY SchedulerInitInv, SchedulerStepInv, PTL DEF Spec
<1>2. QED
  BY <1>1, PTL DEF SchedulerInv

\* A step that changes what was sent to a channel, or makes it known, is its emission,
\* and only time makes what was sent older.
LEMMA OnlyEmitSends ==
    ASSUME SchedulerInv, [Next]_schedulerVars, NEW c \in Channel
    PROVE  \/ \E intent \in DueFor(c) :
                /\ memory'[c] = MarkEmitted(intent, 0)
                /\ sent'[c] = [duty |-> intent.duty, age |-> 0,
                               snap |-> intent.hold = "snap"]
           \/ /\ sent'[c].duty = sent[c].duty
              /\ memory'[c].known => memory[c].known
<1> DEFINE Kept == /\ sent'[c].duty = sent[c].duty
                   /\ memory'[c].known => memory[c].known
<1>1. memory \in [Channel -> Memory] /\ sent \in [Channel -> Sent]
  BY DEF SchedulerInv, SchedulerTypeOK
<1>2. CASE Emit(c)
  BY <1>1, <1>2 DEF Emit
<1>3. ASSUME NEW d \in Channel \ {c}, Emit(d) PROVE Kept
  BY <1>1, <1>3 DEF Emit
<1>4. ASSUME NEW d \in Channel, Suppress(d) PROVE Kept
  BY <1>4 DEF Suppress
<1>5. ASSUME NEW d \in Channel, Forget(d) PROVE Kept
  BY <1>1, <1>5 DEF Forget, Cold
<1>6. ASSUME NEW d \in Channel, NEW p \in Duty \cup {NoProfile}, SetProfile(d, p) PROVE Kept
  BY <1>6 DEF SetProfile
<1>7. ASSUME NEW d \in Channel, NEW hold \in Hold, SetHeld(d, hold) PROVE Kept
  BY <1>7 DEF SetHeld
<1>8. CASE Reset
  BY <1>8 DEF Reset, Cold
<1>9. CASE Age
  <2>1. /\ memory'[c].known = memory[c].known
        /\ sent'[c].duty = sent[c].duty
    BY <1>1, <1>9 DEF Age, Memory, Sent
  <2>2. QED
    BY <2>1
<1>10. CASE UNCHANGED schedulerVars
  BY <1>10 DEF schedulerVars
<1>11. QED
  BY <1>2, <1>3, <1>4, <1>5, <1>6, <1>7, <1>8, <1>9, <1>10 DEF Next

\* NoPop for every slew, deadband, refresh and number of channels: "no visual pop".
THEOREM SchedulerNoPop == Spec => NoPop
<1> DEFINE Pop(c) == sent'[c].duty > sent[c].duty /\ ~sent[c].snap /\ ~sent'[c].snap
<1>1. ASSUME SchedulerInv, [Next]_schedulerVars, Slew # 0, NEW c \in Channel, Pop(c)
      PROVE  sent'[c].duty - sent[c].duty <= Slew * sent[c].age
  <2>1. memory[c] \in Memory /\ sent[c] \in Sent
    BY <1>1 DEF SchedulerInv, SchedulerTypeOK
  <2>2. sent[c].duty \in Nat /\ sent[c].age \in Nat /\ SAFE_DUTY = 0
    BY <2>1, Fields, SchedulerAssumption DEF Duty, SAFE_DUTY
  <2>3. PICK intent \in DueFor(c) :
           sent'[c] = [duty |-> intent.duty, age |-> 0, snap |-> intent.hold = "snap"]
    BY <1>1, <2>2, OnlyEmitSends
  <2>4. intent.hold # "snap" /\ sent'[c].duty = intent.duty
    <3>1. sent'[c].snap = (intent.hold = "snap") /\ sent'[c].duty = intent.duty
      BY <2>3
    <3>2. QED
      BY <1>1, <3>1
  <2>5. CASE memory[c].known
    <3>1. /\ memory[c].duty = sent[c].duty /\ memory[c].age = sent[c].age
          /\ memory[c].hold # "snap"
      BY <1>1, <2>5 DEF SchedulerInv, MemoryIsLastSent
    <3>2. QED
      BY <1>1, <2>4, <3>1, DueBounds DEF SchedulerInv
  <2>6. CASE ~memory[c].known
    <3>1. memory[c] = Cold
      BY <1>1, <2>6 DEF SchedulerInv, MemoryIsLastSent
    <3>2. intent.duty = SAFE_DUTY
      BY <1>1, <2>4, <3>1, DueBounds DEF SchedulerInv
    <3>3. QED
      BY <1>1, <2>2, <2>4, <3>2
  <2>7. QED
    BY <2>5, <2>6
<1>2. SchedulerInv /\ [Next]_schedulerVars
         => [Slew # 0 => \A c \in Channel :
               sent'[c].duty > sent[c].duty /\ ~sent[c].snap /\ ~sent'[c].snap
                  => sent'[c].duty - sent[c].duty <= Slew * sent[c].age]_schedulerVars
  BY <1>1
<1>3. QED
  BY <1>2, SchedulerInitInv, SchedulerStepInv, PTL DEF Spec, NoPop

\* ColdStartsDark for every slew, deadband, refresh and number of channels.
THEOREM SchedulerColdStartsDark == Spec => ColdStartsDark
<1>1. ASSUME SchedulerInv, [Next]_schedulerVars, Slew # 0, NEW c \in Channel,
             ~memory[c].known, memory'[c].known
      PROVE  memory'[c].duty = SAFE_DUTY \/ memory'[c].hold = "snap"
  <2>1. PICK intent \in DueFor(c) : memory'[c] = MarkEmitted(intent, 0)
    BY <1>1, OnlyEmitSends
  <2>2. memory[c] = Cold
    BY <1>1 DEF SchedulerInv, MemoryIsLastSent
  <2>3. intent.duty = SAFE_DUTY \/ intent.hold = "snap"
    BY <1>1, <2>2, DueBounds DEF SchedulerInv
  <2>4. QED
    BY <2>1, <2>3 DEF MarkEmitted
<1>2. SchedulerInv /\ [Next]_schedulerVars
         => [Slew # 0 => \A c \in Channel :
               ~memory[c].known /\ memory'[c].known
                  => memory'[c].duty = SAFE_DUTY \/ memory'[c].hold = "snap"]_schedulerVars
  BY <1>1
<1>3. QED
  BY <1>2, SchedulerInitInv, SchedulerStepInv, PTL DEF Spec, ColdStartsDark

\* A channel this pass has dealt with, and none of whose commands was suppressed, has
\* just been commanded if it is still converging.
Dealt ==
    \A c \in Channel \ (turn \cup missed) : memory[c].slewing => memory[c].age = 0

\* Dealt is kept: only a new pass makes a memory older, and it gives every channel
\* its turn again.
LEMMA DealtStep ==
    ASSUME SchedulerTypeOK, Dealt, [Next]_schedulerVars
    PROVE  Dealt'
<1>1. ~Cold.slewing
  BY DEF Cold
<1>2. memory \in [Channel -> Memory]
  BY DEF SchedulerTypeOK
<1>3. ASSUME NEW c \in Channel, Emit(c) PROVE Dealt'
  <2>1. PICK intent \in DueFor(c) : memory' = [memory EXCEPT ![c] = MarkEmitted(intent, 0)]
    BY <1>3 DEF Emit
  <2>2. turn' = turn \ {c} /\ missed' = missed \ {c}
    BY <1>3 DEF Emit
  <2>3. \A e \in Channel : memory'[e] = IF e = c THEN MarkEmitted(intent, 0) ELSE memory[e]
    BY <1>2, <2>1
  <2>4. MarkEmitted(intent, 0).age = 0
    BY DEF MarkEmitted
  <2>5. QED
    BY <2>2, <2>3, <2>4 DEF Dealt
<1>4. ASSUME NEW c \in Channel, Suppress(c) PROVE Dealt'
  BY <1>4 DEF Suppress, Dealt
<1>5. ASSUME NEW c \in Channel, Forget(c) PROVE Dealt'
  BY <1>1, <1>2, <1>5 DEF Forget, Dealt
<1>6. ASSUME NEW c \in Channel, NEW p \in Duty \cup {NoProfile}, SetProfile(c, p)
      PROVE  Dealt'
  BY <1>6 DEF SetProfile, Dealt
<1>7. ASSUME NEW c \in Channel, NEW hold \in Hold, SetHeld(c, hold) PROVE Dealt'
  BY <1>7 DEF SetHeld, Dealt
<1>8. CASE Reset
  BY <1>1, <1>8 DEF Reset, Dealt
<1>9. CASE Age
  BY <1>9 DEF Age, Dealt
<1>10. CASE UNCHANGED schedulerVars
  BY <1>10 DEF schedulerVars, Dealt
<1>11. QED
  BY <1>3, <1>4, <1>5, <1>6, <1>7, <1>8, <1>9, <1>10 DEF Next

\* A convergence that is considered is due on every pass, whatever its deadband: the
\* arrival step is emitted inside it.
LEMMA ConvergenceDue ==
    ASSUME NEW c \in Channel, memory[c].slewing, Considered(c)
    PROVE  DueFor(c) # {}
BY DEF DueFor, EmitFor, Arrival

\* ConvergenceSteady for every slew, deadband, refresh and number of channels.
THEOREM SchedulerConvergence == Spec => ConvergenceSteady
<1>1. Init => Dealt
  BY DEF Init, Dealt
<1>2. ASSUME SchedulerInv, Dealt, Age, NEW c \in Channel,
             memory[c].slewing, Considered(c), c \notin missed
      PROVE  memory[c].age = 0
  <2>1. c \notin turn
    BY <1>2, ConvergenceDue DEF Age
  <2>2. QED
    BY <1>2, <2>1 DEF Dealt
<1>3. SchedulerInv /\ Dealt /\ [Next]_schedulerVars
         => [Age => \A c \in Channel :
                      memory[c].slewing /\ Considered(c) /\ c \notin missed
                         => memory[c].age = 0]_schedulerVars
  BY <1>2
<1>4. SchedulerInv /\ Dealt /\ [Next]_schedulerVars => Dealt'
  BY DealtStep DEF SchedulerInv
<1>5. QED
  BY <1>1, <1>3, <1>4, SchedulerInitInv, SchedulerStepInv, PTL DEF Spec, ConvergenceSteady
=============================================================================
