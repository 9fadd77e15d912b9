----------------------------- MODULE Scheduler -----------------------------
(***************************************************************************)
(* control-engine's LightingScheduler (scheduler.py): what it remembers of *)
(* each channel, which intents are due, and what an emission records.      *)
(*                                                                         *)
(* A duty is a number of steps out of FullDuty and time is counted in      *)
(* ticks of the engine's loop.  The four dicts _last_duty,                 *)
(* _last_emitted_at, _last_hold and _slewing are written and cleared       *)
(* together, so a channel's memory is one record.                          *)
(***************************************************************************)
EXTENDS Integers, FiniteSets

CONSTANTS
    Channel,   \* the channels the engine may command
    FullDuty,  \* duty 1.0
    Deadband,  \* deadband, in duty steps
    Refresh,   \* refresh_s, in ticks
    Slew,      \* max_duty_delta_per_s, in duty steps per tick; 0 stands for None
    MaxAge     \* ages stop counting here

ASSUME SchedulerAssumption ==
    /\ FullDuty \in Nat /\ Deadband \in Nat /\ Slew \in Nat
    /\ Refresh \in Nat \ {0}
    /\ MaxAge \in Nat /\ MaxAge >= Refresh /\ MaxAge * Slew >= FullDuty

VARIABLES
    memory,   \* [Channel -> Memory]
    profile,  \* [Channel -> Target]: what duty_at gives now, NoProfile if unassigned
    held,     \* [Channel -> Hold]: the operator's hold that is owed, if any
    sent,     \* [Channel -> Sent]: history, the last command that left the engine
    turn,     \* channels this pass of the loop has not commanded yet
    missed    \* channels whose due intent was suppressed since their last command

schedulerVars == <<memory, profile, held, sent, turn, missed>>

-----------------------------------------------------------------------------
Duty == 0..FullDuty
SAFE_DUTY == 0
NoProfile == -1
Transition == {"snap", "ramp"}

NoHold == [duty |-> SAFE_DUTY, transition |-> "none"]
HeldTarget == [duty : Duty, transition : Transition]
Hold == HeldTarget \cup {NoHold}

Memory == [known : BOOLEAN, duty : Duty, age : 0..MaxAge,
           hold : Transition \cup {"none"}, slewing : BOOLEAN]

\* No emission history: assumed dark, and no time has passed.
Cold == [known |-> FALSE, duty |-> SAFE_DUTY, age |-> 0, hold |-> "none",
         slewing |-> FALSE]

Intent == [duty : Duty, hold : Transition \cup {"none"}, converging : BOOLEAN]

Sent == [duty : Duty, age : 0..MaxAge, snap : BOOLEAN]

Distance(x, y) == IF x > y THEN x - y ELSE y - x

Older(age) == IF age < MaxAge THEN age + 1 ELSE age

\* Mutant of Limit: a move that is within reach overshoots.
LimitOvershoots(previous, target, dt) ==
    IF Slew = 0 \/ target = previous THEN target
    ELSE IF target > previous THEN previous + Slew * dt
    ELSE previous - Slew * dt

\* _limit: a move toward the target, clamped to the configured rate.
Limit(previous, target, dt) ==
    IF Slew = 0 \/ Distance(target, previous) <= Slew * dt THEN target
    ELSE IF target > previous THEN previous + Slew * dt
    ELSE previous - Slew * dt

\* Mutant of Arrival: the deadband swallows the step that ends a convergence.
NoArrival(m) == FALSE

\* _emit_for: the arrival step of a convergence is emitted inside the deadband.
Arrival(m) == m.slewing

\* Mutant of Releases: every hold is released in one step.
ReleasesAny(m, hold) == hold = NoHold /\ m.hold # "none"

\* A remembered snap hold that is no longer owed is released in one step.
Releases(m, hold) == hold = NoHold /\ m.hold = "snap"

\* A hold's arrival, a change of its transition, or a snap hold at a new duty.
Announces(m, hold, duty) ==
    /\ hold # NoHold
    /\ m.hold # hold.transition \/ (hold.transition = "snap" /\ duty # m.duty)

\* Mutant of RefreshDue: a duty that has been sent is never sent again.
NoRefresh(m) == FALSE

\* The last emission is refresh_s old.
RefreshDue(m) == m.age >= Refresh

\* _emit_for: the intent due for a channel, as a set of at most one.
EmitFor(m, resting, hold) ==
    LET target == IF hold = NoHold THEN resting ELSE hold.duty
        duty == IF hold.transition = "snap" THEN target ELSE Limit(m.duty, target, m.age)
        converging == duty # target
        intent == [duty |-> duty, hold |-> hold.transition, converging |-> converging]
    IN IF Releases(m, hold)
       THEN {[duty |-> resting, hold |-> "none", converging |-> FALSE]}
       ELSE IF \/ Announces(m, hold, duty)
               \/ ~m.known
               \/ converging
               \/ Distance(duty, m.duty) >= Deadband
               \/ Arrival(m)
               \/ RefreshDue(m)
       THEN {intent}
       ELSE {}

\* Mutant of Considered: only channels with a profile or a hold.
ConsideredAssigned(c) == profile[c] # NoProfile \/ held[c] # NoHold

\* Mutant of Considered: a snap hold that ended on a dark channel is not surfaced.
ConsideredLit(c) == ConsideredAssigned(c) \/ (memory[c].known /\ memory[c].duty # SAFE_DUTY)

\* due: every profiled channel, and of the others those held, still lit from a
\* hold that ended, or owed the one-step release of a snap hold.
Considered(c) ==
    \/ profile[c] # NoProfile
    \/ held[c] # NoHold
    \/ memory[c].known /\ memory[c].duty # SAFE_DUTY
    \/ memory[c].hold = "snap"

\* An unprofiled channel is a constant schedule of SAFE_DUTY.
Resting(c) == IF profile[c] = NoProfile THEN SAFE_DUTY ELSE profile[c]

DueFor(c) == IF Considered(c) THEN EmitFor(memory[c], Resting(c), held[c]) ELSE {}

\* mark_emitted, for an intent computed `late` ticks ago.
MarkEmitted(intent, late) ==
    [known |-> TRUE, duty |-> intent.duty, age |-> late, hold |-> intent.hold,
     slewing |-> intent.converging]

-----------------------------------------------------------------------------
(* The scheduler on its own: a tick's intent is published and recorded in  *)
(* one step.  LightLine takes the step apart.                              *)

\* The intent was accepted by the broker and mark_emitted ran.
Emit(c) ==
    \E intent \in DueFor(c) :
       /\ c \in turn
       /\ turn' = turn \ {c}
       /\ memory' = [memory EXCEPT ![c] = MarkEmitted(intent, 0)]
       /\ sent' = [sent EXCEPT ![c] = [duty |-> intent.duty, age |-> 0,
                                       snap |-> intent.hold = "snap"]]
       /\ missed' = missed \ {c}
       /\ UNCHANGED <<profile, held>>

\* No spine, no adoption, or the broker did not take it: nothing is recorded, and
\* the next tick finds the intent due again.
Suppress(c) ==
    /\ c \in turn /\ DueFor(c) # {}
    /\ turn' = turn \ {c}
    /\ missed' = missed \cup {c}
    /\ UNCHANGED <<memory, profile, held, sent>>

\* set_profiles, or the curve has moved on.  Emission history is kept.
SetProfile(c, p) ==
    /\ profile' = [profile EXCEPT ![c] = p]
    /\ UNCHANGED <<memory, held, sent, turn, missed>>

\* A hold was placed, superseded, released or expired: self._held changed.
SetHeld(c, hold) ==
    /\ held' = [held EXCEPT ![c] = hold]
    /\ UNCHANGED <<memory, profile, sent, turn, missed>>

\* Mutant of Forget: the hold memory survives.
ForgetButHold(c) ==
    /\ memory' = [memory EXCEPT ![c] = [Cold EXCEPT !.hold = memory[c].hold]]
    /\ UNCHANGED <<profile, held, sent, turn, missed>>

\* forget: a tombstone, or hardware-io moved the actuator on its own.
Forget(c) ==
    /\ memory' = [memory EXCEPT ![c] = Cold]
    /\ UNCHANGED <<profile, held, sent, turn, missed>>

\* reset: the clock is no longer believed, or the engine restarted.
Reset ==
    /\ memory' = [c \in Channel |-> Cold]
    /\ UNCHANGED <<profile, held, sent, turn, missed>>

\* The next pass of the loop: every intent that was due has been dealt with.
Age ==
    /\ \A c \in turn : DueFor(c) = {}
    /\ turn' = Channel
    /\ memory' = [c \in Channel |->
                    [memory[c] EXCEPT !.age = IF memory[c].known THEN Older(@) ELSE @]]
    /\ sent' = [c \in Channel |-> [sent[c] EXCEPT !.age = Older(@)]]
    /\ UNCHANGED <<profile, held, missed>>

Init ==
    /\ memory = [c \in Channel |-> Cold]
    /\ profile = [c \in Channel |-> NoProfile]
    /\ held = [c \in Channel |-> NoHold]
    /\ sent = [c \in Channel |-> [duty |-> SAFE_DUTY, age |-> 0, snap |-> FALSE]]
    /\ turn = Channel /\ missed = {}

Next ==
    \/ \E c \in Channel :
          \/ Emit(c) \/ Suppress(c) \/ Forget(c)
          \/ \E p \in Duty \cup {NoProfile} : SetProfile(c, p)
          \/ \E hold \in Hold : SetHeld(c, hold)
    \/ Reset \/ Age

Spec == Init /\ [][Next]_schedulerVars

\* The loop keeps passing, and a command that is due pass after pass is accepted by
\* the broker in the end.
FairSpec ==
    Spec /\ WF_schedulerVars(Age) /\ \A c \in Channel : SF_schedulerVars(Emit(c))

-----------------------------------------------------------------------------
\* scheduler.py: the dicts are written and cleared together, and what is remembered of
\* a channel is its last command.
MemoryIsLastSent ==
    \A c \in Channel :
       IF memory[c].known
       THEN /\ memory[c].duty = sent[c].duty /\ memory[c].age = sent[c].age
            /\ memory[c].hold = "snap" <=> sent[c].snap
       ELSE memory[c] = Cold

\* Every variable has its type.
SchedulerTypeOK ==
    /\ memory \in [Channel -> Memory]
    /\ profile \in [Channel -> Duty \cup {NoProfile}]
    /\ held \in [Channel -> Hold]
    /\ sent \in [Channel -> Sent]
    /\ turn \subseteq Channel /\ missed \subseteq Channel

\* time-and-scheduling.md section 5, scheduler.py _emit_for: "no visual pop".
\* Between two commands to one channel the duty rises by no more than the slew
\* allows for the time between them, unless the later one is under a snap hold or
\* the earlier one was, whatever was held, edited, forgotten or reset meanwhile.
NoPop ==
    [][Slew # 0 => \A c \in Channel :
         sent'[c].duty > sent[c].duty /\ ~sent[c].snap /\ ~sent'[c].snap
            => sent'[c].duty - sent[c].duty <= Slew * sent[c].age]_schedulerVars

\* scheduler.py, forget and SAFE_DUTY: with a slew configured, the first command
\* after a forget, a reset or a start is dark unless a snap hold is owed: a release
\* that was due before does not survive.
ColdStartsDark ==
    [][Slew # 0 => \A c \in Channel :
         ~memory[c].known /\ memory'[c].known
            => memory'[c].duty = SAFE_DUTY \/ memory'[c].hold = "snap"]_schedulerVars

\* scheduler.py, _slewing: a convergence moves on every pass, down to the arrival
\* step that is smaller than the deadband; it never waits for the refresh, unless a
\* command was suppressed on the way.
ConvergenceSteady ==
    [][Age => \A c \in Channel :
                memory[c].slewing /\ Considered(c) /\ c \notin missed
                   => memory[c].age = 0]_schedulerVars

\* scheduler.py, due: a channel lit by a hold, with no profile, is brought back to
\* dark once the hold is gone, unless it is held, assigned or forgotten before.
UnassignedGoesDark ==
    \A c \in Channel :
       (memory[c].known /\ profile[c] = NoProfile /\ held[c] = NoHold)
          ~> \/ sent[c].duty = SAFE_DUTY
             \/ profile[c] # NoProfile \/ held[c] # NoHold \/ ~memory[c].known

\* scheduler.py, _last_hold: a snap hold that has ended is released by one command,
\* to the resting duty of that moment, even when the channel is already there.
SnapReleased ==
    \A c \in Channel :
       (memory[c].hold = "snap" /\ held[c] = NoHold)
          ~> (memory[c].hold # "snap" \/ held[c] # NoHold)
=============================================================================
