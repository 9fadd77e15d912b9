-------------------------- MODULE OverridesProofs ---------------------------
(***************************************************************************)
(* For any number of targets, holds, schedules, requests and faults, and   *)
(* any durations and clock steps: a hold that ended stays ended, one that  *)
(* was armed by a clock that told the time runs for all it was asked, and  *)
(* no ending goes untold but by a fault of the very publish or release.    *)
(***************************************************************************)
EXTENDS Overrides, TLAPS

-----------------------------------------------------------------------------
(* The inductive invariant.                                                *)

\* How far away a deadline can be: each fault may step the clock once.
LeftCap == MaxDuration + MaxStep * budget.faults

\* Deadlines are within the cap, and no hold is older than it was to become.
RowsInTime ==
    \A h \in Hold : table[h].left <= LeftCap /\ age[h] <= table[h].asked

\* What is held on a target is a hold of that target; what is not held has no time left.
HeldOnTarget ==
    \A t \in Target :
        /\ held[t].left <= LeftCap
        /\ held[t].id = None => held[t].left = 0
        /\ held[t].id # None => table[held[t].id].target = t

\* An engine that is down holds and owes nothing; one that expires holds looks at targets
\* that are held.
PhasesAgree ==
    /\ phase = "down" => toAudit = {} /\ \A t \in Target : held[t] = NoHold
    /\ phase = "expire" => \A t \in todo : held[t].id # None

\* Only what was asked for is armed, or released.
ArmedIsBorn == \A h \in wellArmed \cup unanswered : table[h].state # "unborn"

\* Every ending was told, is about to be, or was lost to a fault.
EndingsTold ==
    \A h \in Hold :
        Closed(h) => <<h, table[h].state>> \in trail \cup toAudit \cup toSink \/ h \in lost \cup unanswered

OverridesInv ==
    /\ OverridesTypeOK
    /\ RowsInTime /\ HeldOnTarget /\ PhasesAgree /\ ArmedIsBorn
    /\ HonouredInFull /\ EndedStaysEnded /\ EndingsTold

-----------------------------------------------------------------------------
(* Bounds.                                                                 *)

\* There is a greatest duration, and no deadline is further away than the bound.
LEMMA Bounds ==
    /\ MaxDuration \in Durations /\ MaxDuration \in Nat
    /\ \A n \in Durations : n \in Nat /\ n <= MaxDuration
    /\ LeftMost \in Int /\ LeftMost <= 0
    /\ LeftBound \in Nat
<1>1. MaxDuration \in Durations /\ \A n \in Durations : n <= MaxDuration
  BY OverridesAssumption DEF MaxDuration
<1>2. MaxStep * MaxFaults \in Nat
  BY OverridesAssumption
<1>3. QED
  BY <1>1, <1>2, OverridesAssumption DEF LeftMost, LeftBound

\* More faults allow more time.
LEMMA CapsOrdered ==
    ASSUME NEW m \in Nat, NEW n \in Nat, m <= n
    PROVE  MaxStep * m \in Nat /\ MaxStep * m <= MaxStep * n
<1>1. MaxStep \in Nat
  BY OverridesAssumption
<1>2. QED
  BY <1>1

\* The cap is a number within the bound.
LEMMA CapBounded ==
    ASSUME budget.faults \in 0..MaxFaults
    PROVE  LeftCap \in Nat /\ LeftCap <= LeftBound
<1>1. MaxStep * budget.faults \in Nat /\ MaxStep * budget.faults <= MaxStep * MaxFaults
  BY CapsOrdered, OverridesAssumption
<1>2. MaxStep * MaxFaults \in Nat
  BY OverridesAssumption
<1>3. QED
  BY <1>1, <1>2, Bounds DEF LeftCap, LeftBound

\* A request leaves the cap alone.
LEMMA AskedKeepsCap ==
    ASSUME OverridesTypeOK, Asked
    PROVE  /\ budget' \in [requests : 0..MaxRequests, faults : 0..MaxFaults]
           /\ LeftCap' = LeftCap
  BY OverridesAssumption DEF OverridesTypeOK, Asked, LeftCap

\* A fault raises the cap by what a clock is stepped at most.
LEMMA FaultRaisesCap ==
    ASSUME OverridesTypeOK, Fault
    PROVE  /\ budget' \in [requests : 0..MaxRequests, faults : 0..MaxFaults]
           /\ LeftCap' = LeftCap + MaxStep
           /\ LeftCap' <= LeftBound
<1>1. /\ budget' \in [requests : 0..MaxRequests, faults : 0..MaxFaults]
      /\ budget.faults \in 0..MaxFaults /\ budget'.faults = budget.faults + 1
  BY OverridesAssumption DEF OverridesTypeOK, Fault
<1>2. MaxStep * (budget.faults + 1) = MaxStep * budget.faults + MaxStep
  BY <1>1, OverridesAssumption
<1>3. LeftCap' = LeftCap + MaxStep
  BY <1>1, <1>2, Bounds, CapsOrdered, OverridesAssumption DEF LeftCap
<1>4. LeftCap' <= LeftBound
  BY <1>1, CapsOrdered, Bounds, OverridesAssumption DEF LeftCap, LeftBound
<1>5. QED
  BY <1>1, <1>3, <1>4

\* Whatever a step does to the budget, the cap does not fall.
LEMMA Budgets ==
    ASSUME OverridesTypeOK, Asked \/ Fault \/ UNCHANGED budget
    PROVE  /\ budget' \in [requests : 0..MaxRequests, faults : 0..MaxFaults]
           /\ LeftCap \in Nat /\ LeftCap' \in Nat
           /\ LeftCap <= LeftCap' /\ LeftCap' <= LeftBound
<1>1. LeftCap \in Nat /\ LeftCap <= LeftBound
  BY CapBounded DEF OverridesTypeOK
<1>2. CASE Asked
  BY <1>1, <1>2, AskedKeepsCap
<1>3. CASE Fault
  BY <1>1, <1>3, FaultRaisesCap, OverridesAssumption
<1>4. CASE UNCHANGED budget
  BY <1>1, <1>4 DEF OverridesTypeOK, LeftCap
<1>5. QED
  BY <1>2, <1>3, <1>4

-----------------------------------------------------------------------------
(* The steps, one by one.                                                  *)

\* A step that leaves the rows and what is held alone keeps what is said of them.
LEMMA Undisturbed ==
    ASSUME OverridesInv, UNCHANGED <<table, held, age, wellArmed, unanswered>>,
           Asked \/ Fault \/ UNCHANGED budget
    PROVE  /\ RowsInTime' /\ HeldOnTarget' /\ ArmedIsBorn'
           /\ HonouredInFull' /\ EndedStaysEnded'
           /\ budget' \in [requests : 0..MaxRequests, faults : 0..MaxFaults]
           /\ \A t \in Target : \A h, k \in OpenOn(t)' : h = k
<1>1. /\ LeftCap \in Nat /\ LeftCap' \in Nat /\ LeftCap <= LeftCap'
      /\ budget' \in [requests : 0..MaxRequests, faults : 0..MaxFaults]
  BY Budgets DEF OverridesInv
<1>2. table \in [Hold -> Row] /\ held \in [Target -> [id : Hold \cup {None}, left : 0..LeftBound]]
  BY DEF OverridesInv, OverridesTypeOK
<1>3. /\ \A h \in Hold : table[h].left \in Int
      /\ \A t \in Target : held[t].left \in Int
  BY <1>2, Bounds DEF Row
<1>4. RowsInTime' /\ HeldOnTarget'
  BY <1>1, <1>3 DEF OverridesInv, RowsInTime, HeldOnTarget
<1>5. ArmedIsBorn' /\ HonouredInFull' /\ EndedStaysEnded'
  BY DEF OverridesInv, ArmedIsBorn, HonouredInFull, EndedStaysEnded, Open
<1>6. \A t \in Target : \A h, k \in OpenOn(t)' : h = k
  BY DEF OverridesInv, OverridesTypeOK, OpenOn, Open
<1>7. QED
  BY <1>1, <1>4, <1>5, <1>6

\* Sink: an ending leaves the API's hands for the trail.
LEMMA SinkInv == ASSUME OverridesInv, NEW e \in toSink, Sink(e) PROVE OverridesInv'
<1> USE DEF OverridesInv, dbVars, clockVars, engVars, trailVars, historyVars
<1>1. UNCHANGED <<table, held, age, wellArmed, unanswered>> /\ (Asked \/ Fault \/ UNCHANGED budget)
  BY DEF Sink
<1>2. OverridesTypeOK'
  BY <1>1, Undisturbed, OverridesAssumption DEF OverridesTypeOK, Sink
<1>3. PhasesAgree'
  BY DEF PhasesAgree, Sink
<1>4. EndingsTold'
  BY DEF EndingsTold, Closed, Sink
<1>5. QED
  BY <1>1, <1>2, <1>3, <1>4, Undisturbed

\* SinkDrops: an ending that is dropped is counted as lost.
LEMMA SinkDropsInv == ASSUME OverridesInv, NEW e \in toSink, SinkDrops(e) PROVE OverridesInv'
<1> USE DEF OverridesInv, dbVars, clockVars, engVars, trailVars, historyVars
<1>1. UNCHANGED <<table, held, age, wellArmed, unanswered>> /\ (Asked \/ Fault \/ UNCHANGED budget)
  BY DEF SinkDrops
<1>2. OverridesTypeOK'
  BY <1>1, Undisturbed, OverridesAssumption DEF OverridesTypeOK, SinkDrops
<1>3. PhasesAgree'
  BY DEF PhasesAgree, SinkDrops
<1>4. EndingsTold'
  BY DEF EndingsTold, Closed, SinkDrops
<1>5. QED
  BY <1>1, <1>2, <1>3, <1>4, Undisturbed

\* ApiDies: every ending the API had yet to publish is lost.
LEMMA ApiDiesInv == ASSUME OverridesInv, ApiDies PROVE OverridesInv'
<1> USE DEF OverridesInv, dbVars, clockVars, engVars, trailVars, historyVars
<1>1. UNCHANGED <<table, held, age, wellArmed, unanswered>> /\ (Asked \/ Fault \/ UNCHANGED budget)
  BY DEF ApiDies
<1>2. OverridesTypeOK'
  BY <1>1, Undisturbed, OverridesAssumption DEF OverridesTypeOK, ApiDies
<1>3. PhasesAgree'
  BY DEF PhasesAgree, ApiDies
<1>4. EndingsTold'
  BY DEF EndingsTold, Closed, ApiDies
<1>5. QED
  BY <1>1, <1>2, <1>3, <1>4, Undisturbed

\* DeleteSchedule: no channel is left with a curve that is gone.
LEMMA DeleteScheduleInv == ASSUME OverridesInv, NEW s \in Schedule, DeleteSchedule(s) PROVE OverridesInv'
<1> USE DEF OverridesInv, dbVars, clockVars, engVars, trailVars, historyVars
<1>1. UNCHANGED <<table, held, age, wellArmed, unanswered>> /\ (Asked \/ Fault \/ UNCHANGED budget)
  BY DEF DeleteSchedule
<1>2. OverridesTypeOK'
  BY <1>1, Undisturbed, OverridesAssumption DEF OverridesTypeOK, DeleteSchedule
<1>3. PhasesAgree'
  BY DEF PhasesAgree, DeleteSchedule
<1>4. EndingsTold'
  BY DEF EndingsTold, Closed, DeleteSchedule
<1>5. QED
  BY <1>1, <1>2, <1>3, <1>4, Undisturbed

\* StoreSchedule: what is stored is a definition.
LEMMA StoreScheduleInv == ASSUME OverridesInv, NEW s \in Schedule, NEW v \in Version, StoreSchedule(s, v) PROVE OverridesInv'
<1> USE DEF OverridesInv, dbVars, clockVars, engVars, trailVars, historyVars
<1>1. UNCHANGED <<table, held, age, wellArmed, unanswered>> /\ (Asked \/ Fault \/ UNCHANGED budget)
  BY DEF StoreSchedule
<1>2. OverridesTypeOK'
  BY <1>1, Undisturbed, OverridesAssumption DEF OverridesTypeOK, StoreSchedule
<1>3. PhasesAgree'
  BY DEF PhasesAgree, StoreSchedule
<1>4. EndingsTold'
  BY DEF EndingsTold, Closed, StoreSchedule
<1>5. QED
  BY <1>1, <1>2, <1>3, <1>4, Undisturbed

\* AssignSchedule: only a curve that is defined is assigned.
LEMMA AssignScheduleInv == ASSUME OverridesInv, NEW s \in Schedule, NEW t \in Target, AssignSchedule(t, s) PROVE OverridesInv'
<1> USE DEF OverridesInv, dbVars, clockVars, engVars, trailVars, historyVars
<1>1. UNCHANGED <<table, held, age, wellArmed, unanswered>> /\ (Asked \/ Fault \/ UNCHANGED budget)
  BY DEF AssignSchedule
<1>2. OverridesTypeOK'
  BY <1>1, Undisturbed, OverridesAssumption DEF OverridesTypeOK, AssignSchedule
<1>3. PhasesAgree'
  BY DEF PhasesAgree, AssignSchedule
<1>4. EndingsTold'
  BY DEF EndingsTold, Closed, AssignSchedule
<1>5. QED
  BY <1>1, <1>2, <1>3, <1>4, Undisturbed

\* UnassignSchedule: a channel without a curve refers to none.
LEMMA UnassignScheduleInv == ASSUME OverridesInv, NEW t \in Target, UnassignSchedule(t) PROVE OverridesInv'
<1> USE DEF OverridesInv, dbVars, clockVars, engVars, trailVars, historyVars
<1>1. UNCHANGED <<table, held, age, wellArmed, unanswered>> /\ (Asked \/ Fault \/ UNCHANGED budget)
  BY DEF UnassignSchedule
<1>2. OverridesTypeOK'
  BY <1>1, Undisturbed, OverridesAssumption DEF OverridesTypeOK, UnassignSchedule
<1>3. PhasesAgree'
  BY DEF PhasesAgree, UnassignSchedule
<1>4. EndingsTold'
  BY DEF EndingsTold, Closed, UnassignSchedule
<1>5. QED
  BY <1>1, <1>2, <1>3, <1>4, Undisturbed

\* ExpireFails: the hold stays for the next tick.
LEMMA ExpireFailsInv == ASSUME OverridesInv, NEW t \in Target, ExpireFails(t) PROVE OverridesInv'
<1> USE DEF OverridesInv, dbVars, clockVars, engVars, trailVars, historyVars
<1>1. UNCHANGED <<table, held, age, wellArmed, unanswered>> /\ (Asked \/ Fault \/ UNCHANGED budget)
  BY DEF ExpireFails
<1>2. OverridesTypeOK'
  BY <1>1, Undisturbed, OverridesAssumption DEF OverridesTypeOK, ExpireFails
<1>3. PhasesAgree'
  BY DEF PhasesAgree, ExpireFails
<1>4. EndingsTold'
  BY DEF EndingsTold, Closed, ExpireFails
<1>5. QED
  BY <1>1, <1>2, <1>3, <1>4, Undisturbed

\* AuditDrops: an ending the engine could not publish is lost.
LEMMA AuditDropsInv == ASSUME OverridesInv, NEW e \in toAudit, AuditDrops(e) PROVE OverridesInv'
<1> USE DEF OverridesInv, dbVars, clockVars, engVars, trailVars, historyVars
<1>1. UNCHANGED <<table, held, age, wellArmed, unanswered>> /\ (Asked \/ Fault \/ UNCHANGED budget)
  BY DEF AuditDrops
<1>2. OverridesTypeOK'
  BY <1>1, Undisturbed, OverridesAssumption DEF OverridesTypeOK, AuditDrops
<1>3. PhasesAgree'
  BY DEF PhasesAgree, AuditDrops
<1>4. EndingsTold'
  BY DEF EndingsTold, Closed, AuditDrops
<1>5. QED
  BY <1>1, <1>2, <1>3, <1>4, Undisturbed

\* Audit: an ending leaves the engine's hands for the trail.
LEMMA AuditInv == ASSUME OverridesInv, NEW e \in toAudit, Audit(e) PROVE OverridesInv'
<1> USE DEF OverridesInv, dbVars, clockVars, engVars, trailVars, historyVars
<1>1. UNCHANGED <<table, held, age, wellArmed, unanswered>> /\ (Asked \/ Fault \/ UNCHANGED budget)
  BY DEF Audit
<1>2. OverridesTypeOK'
  BY <1>1, Undisturbed, OverridesAssumption DEF OverridesTypeOK, Audit
<1>3. PhasesAgree'
  BY DEF PhasesAgree, Audit
<1>4. EndingsTold'
  BY DEF EndingsTold, Closed, Audit
<1>5. QED
  BY <1>1, <1>2, <1>3, <1>4, Undisturbed

\* RefreshClockTrust changes nothing but the engine's trust.
LEMMA RefreshClockTrustInv == ASSUME OverridesInv, RefreshClockTrust PROVE OverridesInv'
<1> USE DEF OverridesInv, dbVars, clockVars, engVars, trailVars, historyVars
<1>1. UNCHANGED <<table, held, age, wellArmed, unanswered>> /\ (Asked \/ Fault \/ UNCHANGED budget)
  BY DEF RefreshClockTrust
<1>2. OverridesTypeOK'
  BY <1>1, Undisturbed, OverridesAssumption DEF OverridesTypeOK, RefreshClockTrust
<1>3. PhasesAgree'
  BY DEF PhasesAgree, RefreshClockTrust
<1>4. EndingsTold'
  BY DEF EndingsTold, Closed, RefreshClockTrust
<1>5. QED
  BY <1>1, <1>2, <1>3, <1>4, Undisturbed

\* ReloadFails: the last good set is kept.
LEMMA ReloadFailsInv == ASSUME OverridesInv, ReloadFails PROVE OverridesInv'
<1> USE DEF OverridesInv, dbVars, clockVars, engVars, trailVars, historyVars
<1>1. UNCHANGED <<table, held, age, wellArmed, unanswered>> /\ (Asked \/ Fault \/ UNCHANGED budget)
  BY DEF ReloadFails
<1>2. OverridesTypeOK'
  BY <1>1, Undisturbed, OverridesAssumption DEF OverridesTypeOK, ReloadFails
<1>3. PhasesAgree'
  BY DEF PhasesAgree, ReloadFails
<1>4. EndingsTold'
  BY DEF EndingsTold, Closed, ReloadFails
<1>5. QED
  BY <1>1, <1>2, <1>3, <1>4, Undisturbed

\* ReloadSchedulesFails: the last good curves are kept.
LEMMA ReloadSchedulesFailsInv == ASSUME OverridesInv, ReloadSchedulesFails PROVE OverridesInv'
<1> USE DEF OverridesInv, dbVars, clockVars, engVars, trailVars, historyVars
<1>1. UNCHANGED <<table, held, age, wellArmed, unanswered>> /\ (Asked \/ Fault \/ UNCHANGED budget)
  BY DEF ReloadSchedulesFails
<1>2. OverridesTypeOK'
  BY <1>1, Undisturbed, OverridesAssumption DEF OverridesTypeOK, ReloadSchedulesFails
<1>3. PhasesAgree'
  BY DEF PhasesAgree, ReloadSchedulesFails
<1>4. EndingsTold'
  BY DEF EndingsTold, Closed, ReloadSchedulesFails
<1>5. QED
  BY <1>1, <1>2, <1>3, <1>4, Undisturbed

\* ReloadSchedules: the join of the tables is a curve for every channel that has one.
LEMMA ReloadSchedulesInv == ASSUME OverridesInv, ReloadSchedules PROVE OverridesInv'
<1> USE DEF OverridesInv, dbVars, clockVars, engVars, trailVars, historyVars
<1>1. UNCHANGED <<table, held, age, wellArmed, unanswered>> /\ (Asked \/ Fault \/ UNCHANGED budget)
  BY DEF ReloadSchedules
<1>2. OverridesTypeOK'
  <2>1. ASSUME NEW t \in Target, assigned[t] # None PROVE <<assigned[t], defs[assigned[t]]>> \in Curve
    BY <2>1 DEF OverridesTypeOK, Curve
  <2>2. assigned_curves \in [Target -> Curve]
    BY <2>1 DEF assigned_curves, Curve
  <2>3. QED
    BY <1>1, <2>2, Undisturbed DEF OverridesTypeOK, ReloadSchedules
<1>3. PhasesAgree'
  BY DEF PhasesAgree, ReloadSchedules
<1>4. EndingsTold'
  BY DEF EndingsTold, Closed, ReloadSchedules
<1>5. QED
  BY <1>1, <1>2, <1>3, <1>4, Undisturbed

\* LoseClock moves no deadline.
LEMMA LoseClockInv == ASSUME OverridesInv, LoseClock PROVE OverridesInv'
<1> USE DEF OverridesInv, dbVars, clockVars, engVars, trailVars, historyVars
<1>1. UNCHANGED <<table, held, age, wellArmed, unanswered>> /\ (Asked \/ Fault \/ UNCHANGED budget)
  BY DEF LoseClock
<1>2. OverridesTypeOK'
  BY <1>1, Undisturbed, OverridesAssumption DEF OverridesTypeOK, LoseClock
<1>3. PhasesAgree'
  BY DEF PhasesAgree, LoseClock
<1>4. EndingsTold'
  BY DEF EndingsTold, Closed, LoseClock
<1>5. QED
  BY <1>1, <1>2, <1>3, <1>4, Undisturbed

\* ClockSettles moves no deadline.
LEMMA ClockSettlesInv == ASSUME OverridesInv, ClockSettles PROVE OverridesInv'
<1> USE DEF OverridesInv, dbVars, clockVars, engVars, trailVars, historyVars
<1>1. UNCHANGED <<table, held, age, wellArmed, unanswered>> /\ (Asked \/ Fault \/ UNCHANGED budget)
  BY DEF ClockSettles
<1>2. OverridesTypeOK'
  BY <1>1, Undisturbed, OverridesAssumption DEF OverridesTypeOK, ClockSettles
<1>3. PhasesAgree'
  BY DEF PhasesAgree, ClockSettles
<1>4. EndingsTold'
  BY DEF EndingsTold, Closed, ClockSettles
<1>5. QED
  BY <1>1, <1>2, <1>3, <1>4, Undisturbed

\* Awake: the loop starts with nothing to expire.
LEMMA AwakeInv == ASSUME OverridesInv, Awake PROVE OverridesInv'
<1> USE DEF OverridesInv, dbVars, clockVars, engVars, trailVars, historyVars
<1>1. UNCHANGED <<table, held, age, wellArmed, unanswered>> /\ (Asked \/ Fault \/ UNCHANGED budget)
  BY DEF Awake
<1>2. OverridesTypeOK'
  BY <1>1, Undisturbed, OverridesAssumption DEF OverridesTypeOK, Awake
<1>3. PhasesAgree'
  BY DEF PhasesAgree, Awake
<1>4. EndingsTold'
  BY DEF EndingsTold, Closed, Awake
<1>5. QED
  BY <1>1, <1>2, <1>3, <1>4, Undisturbed

\* StartTick looks at the targets that are held, and at no other.
LEMMA StartTickInv == ASSUME OverridesInv, StartTick PROVE OverridesInv'
<1> USE DEF OverridesInv, dbVars, clockVars, engVars, trailVars, historyVars
<1>1. UNCHANGED <<table, held, age, wellArmed, unanswered>> /\ (Asked \/ Fault \/ UNCHANGED budget)
  BY DEF StartTick
<1>2. OverridesTypeOK'
  BY <1>1, Undisturbed, OverridesAssumption DEF OverridesTypeOK, StartTick
<1>3. PhasesAgree'
  <2>1. ASSUME NEW t \in Target, held[t] # NoHold PROVE held[t].id # None
    <3>1. held[t] \in [id : Hold \cup {None}, left : 0..LeftBound]
      BY DEF OverridesTypeOK
    <3>2. held[t].id = None => held[t] = NoHold
      BY <3>1 DEF HeldOnTarget, NoHold
    <3>3. QED
      BY <2>1, <3>2
  <2>2. QED
    BY <2>1 DEF PhasesAgree, StartTick
<1>4. EndingsTold'
  BY DEF EndingsTold, Closed, StartTick
<1>5. QED
  BY <1>1, <1>2, <1>3, <1>4, Undisturbed

\* Expired: the tick goes on.
LEMMA ExpiredInv == ASSUME OverridesInv, Expired PROVE OverridesInv'
<1> USE DEF OverridesInv, dbVars, clockVars, engVars, trailVars, historyVars
<1>1. UNCHANGED <<table, held, age, wellArmed, unanswered>> /\ (Asked \/ Fault \/ UNCHANGED budget)
  BY DEF Expired
<1>2. OverridesTypeOK'
  BY <1>1, Undisturbed, OverridesAssumption DEF OverridesTypeOK, Expired
<1>3. PhasesAgree'
  BY DEF PhasesAgree, Expired
<1>4. EndingsTold'
  BY DEF EndingsTold, Closed, Expired
<1>5. QED
  BY <1>1, <1>2, <1>3, <1>4, Undisturbed

\* NotYet: the hold has time left.
LEMMA NotYetInv == ASSUME OverridesInv, NEW t \in Target, NotYet(t) PROVE OverridesInv'
<1> USE DEF OverridesInv, dbVars, clockVars, engVars, trailVars, historyVars
<1>1. UNCHANGED <<table, held, age, wellArmed, unanswered>> /\ (Asked \/ Fault \/ UNCHANGED budget)
  BY DEF NotYet
<1>2. OverridesTypeOK'
  BY <1>1, Undisturbed, OverridesAssumption DEF OverridesTypeOK, NotYet
<1>3. PhasesAgree'
  BY DEF PhasesAgree, NotYet
<1>4. EndingsTold'
  BY DEF EndingsTold, Closed, NotYet
<1>5. QED
  BY <1>1, <1>2, <1>3, <1>4, Undisturbed

\* EngineDies: what it held is gone, and the endings it owed are lost.
LEMMA EngineDiesInv == ASSUME OverridesInv, EngineDies PROVE OverridesInv'
<1> USE DEF OverridesInv, dbVars, clockVars, engVars, trailVars, historyVars
<1>1. UNCHANGED <<table, age, wellArmed, unanswered>> /\ Fault
  BY DEF EngineDies
<1>2. /\ LeftCap \in Nat /\ LeftCap' \in Nat /\ LeftCap <= LeftCap'
      /\ budget' \in [requests : 0..MaxRequests, faults : 0..MaxFaults]
  BY <1>1, Budgets
<1>3. \A t \in Target : held'[t] = NoHold
  BY DEF EngineDies
<1>4. OverridesTypeOK'
  <2>1. NoHold \in [id : Hold \cup {None}, left : 0..LeftBound]
    BY Bounds DEF NoHold
  <2>2. <<>> \in Curve
    BY DEF Curve
  <2>3. QED
    BY <1>2, <2>1, <2>2 DEF OverridesTypeOK, EngineDies, OpenOn, Open
<1>5. RowsInTime' /\ HeldOnTarget'
  <2>1. \A h \in Hold : table[h].left \in Int
    BY Bounds DEF OverridesTypeOK, Row
  <2>2. QED
    BY <1>1, <1>2, <1>3, <2>1 DEF RowsInTime, HeldOnTarget, NoHold
<1>6. PhasesAgree'
  BY <1>3 DEF PhasesAgree, EngineDies
<1>7. ArmedIsBorn' /\ HonouredInFull' /\ EndedStaysEnded'
  BY <1>1, <1>3, OverridesAssumption DEF OverridesTypeOK, ArmedIsBorn, HonouredInFull, EndedStaysEnded, NoHold
<1>8. EndingsTold'
  BY DEF EndingsTold, Closed, EngineDies
<1>9. QED
  BY <1>4, <1>5, <1>6, <1>7, <1>8

\* What the fields of a row and of what is held are.
LEMMA Fields ==
    ASSUME OverridesTypeOK
    PROVE  /\ \A h \in Hold : /\ table[h] \in Row /\ table[h].left \in LeftMost..LeftBound
                              /\ table[h].asked \in 0..MaxDuration /\ age[h] \in 0..MaxDuration
           /\ \A t \in Target : /\ held[t].id \in Hold \cup {None}
                                /\ held[t].left \in 0..LeftBound /\ held[t].left \in Int
           /\ wellArmed \subseteq Hold /\ unanswered \subseteq Hold
<1>1. \A n \in Durations \cup {0} : n \in 0..MaxDuration
  BY Bounds
<1>2. ASSUME NEW r \in Row PROVE r.left \in LeftMost..LeftBound /\ r.asked \in Durations \cup {0}
  BY DEF Row
<1>3. \A n \in 0..LeftBound : n \in Int
  BY Bounds
<1>4. \A t \in Target : held[t].id \in Hold \cup {None} /\ held[t].left \in 0..LeftBound
  BY DEF OverridesTypeOK
<1>5. QED
  BY <1>1, <1>2, <1>3, <1>4 DEF OverridesTypeOK

\* The rows as they are when those of hs were closed for a reason: nothing but their state
\* has changed.
ClosedRows(rows, hs, reason) ==
    /\ rows \in [Hold -> Row]
    /\ \A h \in Hold :
        /\ rows[h].target = table[h].target /\ rows[h].asked = table[h].asked
        /\ rows[h].left = table[h].left
        /\ rows[h].state = IF h \in hs THEN reason ELSE table[h].state

\* Closing does that.
LEMMA ClosingRows ==
    ASSUME OverridesTypeOK, NEW hs \in SUBSET Hold, NEW reason \in Reason
    PROVE  ClosedRows(Closing(hs, reason), hs, reason)
<1>1. ASSUME NEW h \in Hold PROVE table[h] \in Row /\ [table[h] EXCEPT !.state = reason] \in Row
  <2>1. table[h] \in Row
    BY DEF OverridesTypeOK
  <2>2. QED
    BY <2>1 DEF Row
<1>2. QED
  BY <1>1 DEF ClosedRows, Closing, Row

\* ReleaseOverride: the ending is owed from the moment the row is closed.
LEMMA ReleaseOverrideInv == ASSUME OverridesInv, NEW h \in Hold, ReleaseOverride(h) PROVE OverridesInv'
<1> USE DEF OverridesInv, dbVars, clockVars, engVars, trailVars, historyVars
<1>1. /\ table' \in [Hold -> Row]
      /\ \A k \in Hold : /\ table'[k].target = table[k].target /\ table'[k].asked = table[k].asked
                         /\ table'[k].left = table[k].left
                         /\ table'[k].state = IF k = h THEN "manual" ELSE table[k].state
  <2>1. "manual" \in Reason /\ table' = Closing({h}, "manual")
    BY DEF ReleaseOverride, Reason
  <2>2. ClosedRows(table', {h}, "manual")
    BY <2>1, ClosingRows
  <2>3. QED
    BY <2>2 DEF ClosedRows
<1>2. /\ Open(h) /\ Asked /\ toSink' = toSink \cup {<<h, "manual">>}
      /\ UNCHANGED <<defs, assigned, clockVars, engVars, trail, lost, historyVars>>
  BY DEF ReleaseOverride
<1>3. LeftCap' = LeftCap /\ budget' \in [requests : 0..MaxRequests, faults : 0..MaxFaults]
  BY <1>2, AskedKeepsCap
<1>4. OverridesTypeOK'
  <2>1. \A u \in Target : \A j, k \in OpenOn(u)' : j = k
    BY <1>1 DEF OverridesTypeOK, OpenOn, Open
  <2>2. toSink' \subseteq Hold \X Reason
    BY <1>2 DEF OverridesTypeOK, Reason
  <2>3. QED
    BY <1>1, <1>2, <1>3, <2>1, <2>2 DEF OverridesTypeOK
<1>5. RowsInTime' /\ HeldOnTarget'
  BY <1>1, <1>2, <1>3 DEF OverridesTypeOK, RowsInTime, HeldOnTarget
<1>6. PhasesAgree'
  BY <1>2 DEF PhasesAgree
<1>7. ArmedIsBorn' /\ HonouredInFull' /\ EndedStaysEnded'
  <2>1. ArmedIsBorn' /\ EndedStaysEnded'
    BY <1>1, <1>2, Fields DEF ArmedIsBorn, EndedStaysEnded
  <2>2. HonouredInFull'
    BY <1>1, <1>2, Fields DEF HonouredInFull, Open
  <2>3. QED
    BY <2>1, <2>2
<1>8. EndingsTold'
  BY <1>1, <1>2 DEF EndingsTold, Closed, Open, Reason
<1>9. QED
  BY <1>4, <1>5, <1>6, <1>7, <1>8

\* CreateOverride: the new row is nobody's yet, and the hold it takes the place of is told of.
LEMMA CreateOverrideInv ==
    ASSUME OverridesInv, NEW h \in Hold, NEW t \in Target, NEW n \in Durations, CreateOverride(h, t, n)
    PROVE  OverridesInv'
<1> USE DEF OverridesInv, dbVars, clockVars, engVars, trailVars, historyVars
<1> DEFINE opened == [target |-> t, asked |-> n, left |-> n, state |-> "open"]
<1>1. opened \in Row
  <2>1. n \in LeftMost..LeftBound
    <3>1. MaxStep * MaxFaults \in Nat
      BY OverridesAssumption
    <3>2. QED
      BY <3>1, Bounds DEF LeftBound
  <2>2. QED
    BY <2>1 DEF Row
<1>2. /\ table' \in [Hold -> Row] /\ table'[h] = opened
      /\ \A k \in Hold \ {h} :
            /\ table'[k].target = table[k].target /\ table'[k].asked = table[k].asked
            /\ table'[k].left = table[k].left
            /\ table'[k].state = IF k \in OpenOn(t) THEN "superseded" ELSE table[k].state
  <2>1. OpenOn(t) \in SUBSET Hold /\ "superseded" \in Reason
    BY DEF OpenOn, Reason
  <2>2. table' = [Closing(OpenOn(t), "superseded") EXCEPT ![h] = opened]
    BY DEF CreateOverride
  <2>3. ClosedRows(Closing(OpenOn(t), "superseded"), OpenOn(t), "superseded")
    BY <2>1, ClosingRows
  <2> HIDE DEF opened
  <2>4. QED
    BY <1>1, <2>2, <2>3 DEF ClosedRows
<1>3. /\ table[h] = Unborn /\ Asked /\ toSink' = toSink \cup (OpenOn(t) \X {"superseded"})
      /\ UNCHANGED <<defs, assigned, clockVars, engVars, trail, lost, historyVars>>
  BY DEF CreateOverride
<1>4. LeftCap' = LeftCap /\ budget' \in [requests : 0..MaxRequests, faults : 0..MaxFaults]
  BY <1>3, AskedKeepsCap
<1>5. OverridesTypeOK'
  <2>1. \A u \in Target : \A j, k \in OpenOn(u)' : j = k
    BY <1>2 DEF OverridesTypeOK, OpenOn, Open
  <2>2. toSink' \subseteq Hold \X Reason
    BY <1>3 DEF OverridesTypeOK, OpenOn, Reason
  <2>3. QED
    BY <1>2, <1>3, <1>4, <2>1, <2>2 DEF OverridesTypeOK
<1>6. RowsInTime'
  <2>1. MaxStep * budget.faults \in Nat
    BY OverridesAssumption DEF OverridesTypeOK
  <2>2. n <= LeftCap
    BY <2>1, Bounds DEF LeftCap
  <2>3. age[h] <= n
    BY <1>3, Bounds DEF RowsInTime, Unborn, OverridesTypeOK
  <2>4. QED
    BY <1>2, <1>3, <1>4, <2>2, <2>3 DEF RowsInTime
<1>7. ASSUME NEW u \in Target, held[u].id # None PROVE held[u].id \in Hold \ {h}
  BY <1>3, <1>7 DEF OverridesTypeOK, EndedStaysEnded, ArmedIsBorn, Unborn
<1>8. HeldOnTarget' /\ EndedStaysEnded'
  BY <1>2, <1>3, <1>4, <1>7 DEF HeldOnTarget, EndedStaysEnded
<1>9. PhasesAgree'
  BY <1>3 DEF PhasesAgree
<1>10. h \notin wellArmed \cup unanswered
  BY <1>3 DEF ArmedIsBorn, Unborn
<1>11. ArmedIsBorn' /\ HonouredInFull'
  <2>1. /\ wellArmed' = wellArmed /\ wellArmed \subseteq Hold \ {h} /\ UNCHANGED <<held, age>>
        /\ unanswered' = unanswered /\ unanswered \subseteq Hold \ {h}
    BY <1>3, <1>10, Fields
  <2>2. ArmedIsBorn'
    BY <1>2, <2>1 DEF ArmedIsBorn
  <2>3. HonouredInFull'
    BY <1>2, <2>1 DEF HonouredInFull, Open
  <2>4. QED
    BY <2>2, <2>3
<1>12. EndingsTold'
  BY <1>2, <1>3 DEF EndingsTold, Closed, Reason
<1>13. QED
  BY <1>5, <1>6, <1>8, <1>9, <1>11, <1>12

\* Elapse: the row, the hold and the age of it move by one, or the hold has run out.
LEMMA ElapseInv == ASSUME OverridesInv, Elapse PROVE OverridesInv'
<1> USE DEF OverridesInv, dbVars, clockVars, engVars, trailVars, historyVars
<1>1. /\ LeftCap' = LeftCap /\ LeftCap \in Nat /\ LeftCap <= LeftBound
      /\ UNCHANGED <<defs, assigned, clockVars, phase, todo, curves, toAudit, trailVars, wellArmed, unanswered, budget>>
  BY Budgets DEF Elapse, LeftCap
<1>2. ASSUME NEW h \in Hold
      PROVE  /\ table[h] \in Row /\ table'[h] \in Row
             /\ table'[h].target = table[h].target /\ table'[h].asked = table[h].asked
             /\ table'[h].state = table[h].state /\ table'[h].left <= table[h].left
             /\ table[h].asked \in 0..MaxDuration /\ table[h].left \in Int /\ table'[h].left \in Int
  <2>1. table[h] \in Row
    BY DEF OverridesTypeOK
  <2>2. table[h].asked \in 0..MaxDuration /\ table[h].left \in LeftMost..LeftBound
    BY Fields
  <2>3. table[h].left > LeftMost => [table[h] EXCEPT !.left = @ - 1] \in Row
    BY <2>1, <2>2, Bounds DEF Row
  <2>4. table'[h] = IF Open(h) /\ table[h].left > LeftMost
                    THEN [table[h] EXCEPT !.left = @ - 1] ELSE table[h]
    BY DEF Elapse
  <2>5. QED
    BY <2>1, <2>2, <2>3, <2>4, Bounds DEF Row
<1>3. ASSUME NEW t \in Target
      PROVE  /\ held'[t] \in [id : Hold \cup {None}, left : 0..LeftBound]
             /\ held'[t].id = held[t].id /\ held'[t].left = Later(held[t].left - 1)
             /\ held[t].left \in 0..LeftBound
  <2>1. held[t] \in [id : Hold \cup {None}, left : 0..LeftBound]
    BY DEF OverridesTypeOK
  <2>2. held'[t] = [held[t] EXCEPT !.left = Later(@ - 1)]
    BY DEF Elapse
  <2>3. Later(held[t].left - 1) \in 0..LeftBound
    BY <2>1, Bounds DEF Later
  <2>4. QED
    BY <2>1, <2>2, <2>3
<1>4. ASSUME NEW h \in Hold
      PROVE  /\ age'[h] = IF Open(h) /\ age[h] < table[h].asked THEN age[h] + 1 ELSE age[h]
             /\ age[h] \in 0..MaxDuration /\ age'[h] \in 0..MaxDuration
             /\ age[h] <= table[h].asked /\ age'[h] <= table[h].asked
  <2>1. age[h] \in 0..MaxDuration /\ table[h].asked \in 0..MaxDuration /\ age[h] <= table[h].asked
    BY Fields DEF RowsInTime
  <2>2. age'[h] = IF Open(h) /\ age[h] < table[h].asked THEN age[h] + 1 ELSE age[h]
    BY DEF Elapse
  <2>3. QED
    BY <2>1, <2>2, Bounds
<1>5. OverridesTypeOK'
  <2>1. table' \in [Hold -> Row] /\ held' \in [Target -> [id : Hold \cup {None}, left : 0..LeftBound]]
        /\ age' \in [Hold -> 0..MaxDuration]
    BY <1>2, <1>3, <1>4 DEF Elapse
  <2>2. \A t \in Target : \A h, k \in OpenOn(t)' : h = k
    BY <1>2 DEF OverridesTypeOK, OpenOn, Open
  <2>3. QED
    BY <1>1, <2>1, <2>2 DEF OverridesTypeOK
<1>6. RowsInTime' /\ HeldOnTarget'
  BY <1>1, <1>2, <1>3, <1>4, Bounds DEF RowsInTime, HeldOnTarget, Later
<1>7. PhasesAgree'
  <2>1. \A t \in Target : held[t] = NoHold => held'[t] = NoHold
    BY <1>3 DEF NoHold, Later
  <2>2. QED
    BY <1>1, <1>3, <2>1 DEF PhasesAgree, OverridesTypeOK
<1>8. ArmedIsBorn' /\ EndedStaysEnded'
  <2>1. UNCHANGED <<wellArmed, unanswered>>
    BY DEF Elapse
  <2>2. \A t \in Target : held[t].left = 0 => held'[t].left = 0
    BY <1>3 DEF Later
  <2>3. QED
    BY <1>1, <1>2, <1>3, <2>1, <2>2 DEF OverridesTypeOK, ArmedIsBorn, EndedStaysEnded
<1>9. HonouredInFull'
  <2>1. ASSUME NEW h \in wellArmed, NEW t \in Target, held[t].id = h, Open(h)
        PROVE  held'[t].left = table'[h].asked - age'[h]
    <3>1. h \in Hold /\ held[t].left = table[h].asked - age[h]
      BY <2>1 DEF HonouredInFull, OverridesTypeOK
    <3>2. QED
      BY <1>2, <1>3, <1>4, <2>1, <3>1, Bounds DEF Later
  <2>2. ASSUME NEW h \in wellArmed, table[h].state = "expired" PROVE age'[h] = table'[h].asked
    BY <1>2, <1>4, <2>2 DEF HonouredInFull, OverridesTypeOK, Open
  <2>3. wellArmed' = wellArmed /\ wellArmed \subseteq Hold
    BY <1>1 DEF OverridesTypeOK
  <2>4. QED
    BY <1>2, <1>3, <2>1, <2>2, <2>3 DEF HonouredInFull, Open
<1>10. EndingsTold'
  BY <1>1, <1>2 DEF EndingsTold, Closed
<1>11. QED
  BY <1>5, <1>6, <1>7, <1>8, <1>9, <1>10

\* StepClock: the deadlines of the rows move, within the cap that the fault raised.
LEMMA StepClockInv ==
    ASSUME OverridesInv, NEW n \in -MaxStep..MaxStep \ {0}, StepClock(n)
    PROVE  OverridesInv'
<1> USE DEF OverridesInv, dbVars, clockVars, engVars, trailVars, historyVars
<1>1. /\ LeftCap' = LeftCap + MaxStep /\ LeftCap \in Nat /\ LeftCap' <= LeftBound
      /\ budget' \in [requests : 0..MaxRequests, faults : 0..MaxFaults]
      /\ UNCHANGED <<defs, assigned, clockVars, engVars, trailVars, historyVars>>
  BY Budgets, FaultRaisesCap DEF StepClock
<1>2. ASSUME NEW h \in Hold
      PROVE  /\ table'[h] \in Row
             /\ table'[h].target = table[h].target /\ table'[h].asked = table[h].asked
             /\ table'[h].state = table[h].state /\ table'[h].left <= LeftCap'
  <2>1. table[h] \in Row /\ table[h].left <= LeftCap
    BY DEF OverridesTypeOK, RowsInTime
  <2>2. table[h].left \in LeftMost..LeftBound
    BY <2>1 DEF Row
  <2>3. table[h].left - n >= LeftMost => /\ [table[h] EXCEPT !.left = @ - n] \in Row
                                         /\ table[h].left - n <= LeftCap'
    BY <1>1, <2>1, <2>2, Bounds, OverridesAssumption DEF Row
  <2>4. table'[h] = IF Open(h) /\ table[h].left - n >= LeftMost
                    THEN [table[h] EXCEPT !.left = @ - n] ELSE table[h]
    BY DEF StepClock
  <2>5. QED
    BY <1>1, <2>1, <2>2, <2>3, <2>4, Bounds, OverridesAssumption DEF Row
<1>3. OverridesTypeOK'
  <2>1. table' \in [Hold -> Row]
    BY <1>2 DEF StepClock
  <2>2. \A t \in Target : \A h, k \in OpenOn(t)' : h = k
    BY <1>2 DEF OverridesTypeOK, OpenOn, Open
  <2>3. QED
    BY <1>1, <2>1, <2>2 DEF OverridesTypeOK
<1>4. RowsInTime' /\ HeldOnTarget'
  <2>1. \A t \in Target : held[t].left \in Int
    BY Fields
  <2>2. QED
    BY <1>1, <1>2, <2>1, OverridesAssumption DEF OverridesTypeOK, RowsInTime, HeldOnTarget
<1>5. PhasesAgree'
  BY <1>1 DEF PhasesAgree
<1>6. ArmedIsBorn' /\ EndedStaysEnded' /\ HonouredInFull'
  <2>1. ArmedIsBorn' /\ EndedStaysEnded'
    BY <1>1, <1>2, Fields DEF ArmedIsBorn, EndedStaysEnded
  <2>2. HonouredInFull'
    BY <1>1, <1>2, Fields DEF HonouredInFull, Open
  <2>3. QED
    BY <2>1, <2>2
<1>7. EndingsTold'
  BY <1>1, <1>2 DEF EndingsTold, Closed
<1>8. QED
  BY <1>3, <1>4, <1>5, <1>6, <1>7

\* Expire: the hold has run out, by a clock that told the time in full, and no other target
\* works from it.
LEMMA ExpireInv == ASSUME OverridesInv, NEW t \in Target, Expire(t) PROVE OverridesInv'
<1> USE DEF OverridesInv, dbVars, clockVars, engVars, trailVars, historyVars
<1> DEFINE h == held[t].id
<1>1. /\ phase = "expire" /\ toAudit = {} /\ t \in todo /\ held[t].left = 0
      /\ table' = (IF Open(h) THEN Closing({h}, "expired") ELSE table)
      /\ toAudit' = {<<h, "expired">>}
      /\ held' = [held EXCEPT ![t] = NoHold] /\ todo' = todo \ {t}
      /\ UNCHANGED <<defs, assigned, clockVars, phase, curves, trailVars, historyVars, budget>>
  BY DEF Expire
<1>2. h \in Hold /\ table[h].target = t
  BY <1>1, Fields DEF PhasesAgree, HeldOnTarget
<1>3. /\ table' \in [Hold -> Row]
      /\ \A k \in Hold : /\ table'[k].target = table[k].target /\ table'[k].asked = table[k].asked
                         /\ table'[k].left = table[k].left
                         /\ table'[k].state = IF k = h /\ Open(h) THEN "expired" ELSE table[k].state
  <2> HIDE DEF h
  <2>1. "expired" \in Reason /\ {h} \in SUBSET Hold
    BY <1>2 DEF Reason
  <2>2. ClosedRows(Closing({h}, "expired"), {h}, "expired")
    BY <2>1, ClosingRows
  <2>3. QED
    BY <1>1, <2>2 DEF ClosedRows, OverridesTypeOK
<1>4. \A u \in Target : held'[u] = IF u = t THEN NoHold ELSE held[u]
  BY <1>1 DEF OverridesTypeOK
<1> HIDE DEF h
<1>5. LeftCap' = LeftCap /\ LeftCap \in Nat
  BY <1>1, Budgets DEF LeftCap
<1>6. OverridesTypeOK'
  <2>1. NoHold \in [id : Hold \cup {None}, left : 0..LeftBound]
    BY Bounds DEF NoHold
  <2>2. held' \in [Target -> [id : Hold \cup {None}, left : 0..LeftBound]]
    BY <1>1, <2>1 DEF OverridesTypeOK
  <2>3. \A u \in Target : \A j, k \in OpenOn(u)' : j = k
    BY <1>3 DEF OverridesTypeOK, OpenOn, Open
  <2>4. toAudit' \subseteq Hold \X Reason
    BY <1>1, <1>2 DEF Reason
  <2>5. QED
    BY <1>1, <1>3, <2>2, <2>3, <2>4 DEF OverridesTypeOK
<1>7. RowsInTime'
  BY <1>1, <1>3, <1>5 DEF RowsInTime
<1>8. HeldOnTarget'
  BY <1>3, <1>4, <1>5, Fields DEF HeldOnTarget, NoHold
<1>9. PhasesAgree'
  BY <1>1, <1>4, Fields DEF PhasesAgree, OverridesTypeOK
<1>10. ASSUME NEW u \in Target, held'[u].id # None PROVE u # t /\ held'[u] = held[u] /\ held[u].id \in Hold \ {h}
  BY <1>2, <1>4, <1>10, Fields DEF HeldOnTarget, NoHold
<1>11. EndedStaysEnded'
  <2>1. ASSUME NEW u \in Target, held'[u].id # None
        PROVE  \/ table'[held[u].id].state \in {"open", "manual", "superseded"}
               \/ held[u].id \in unanswered /\ held[u].left = 0
    BY <1>3, <1>10, <2>1 DEF EndedStaysEnded
  <2>2. unanswered' = unanswered /\ \A u \in Target : held'[u].id # None => held'[u] = held[u]
    BY <1>1, <1>10
  <2>3. QED
    BY <2>1, <2>2 DEF EndedStaysEnded
<1>12. ArmedIsBorn'
  BY <1>1, <1>3, Fields DEF ArmedIsBorn
<1>13. HonouredInFull'
  <2>1. ASSUME h \in wellArmed, Open(h) PROVE age[h] = table[h].asked
    <3>1. held[t].left = table[h].asked - age[h]
      BY <2>1 DEF HonouredInFull, h
    <3>2. QED
      BY <1>1, <1>2, <3>1, Fields
  <2>2. ASSUME NEW k \in wellArmed, NEW u \in Target, held'[u].id = k
        PROVE  held'[u].left = table'[k].asked - age'[k] \/ ~Open(k)'
    <3>1. k # None
      BY OverridesAssumption, Fields
    <3>2. held'[u] = held[u] /\ k \in Hold \ {h} /\ held[u].id = k
      BY <1>10, <2>2, <3>1
    <3>3. table'[k].asked = table[k].asked /\ table'[k].state = table[k].state /\ age' = age
      BY <1>1, <1>3, <3>2
    <3>4. held[u].left = table[k].asked - age[k] \/ table[k].state # "open"
      BY <3>2 DEF HonouredInFull, Open
    <3>5. QED
      BY <3>2, <3>3, <3>4 DEF Open
  <2>3. ASSUME NEW k \in wellArmed, table'[k].state = "expired" PROVE age'[k] = table'[k].asked
    BY <1>1, <1>3, <2>1, <2>3, Fields DEF HonouredInFull
  <2>4. QED
    BY <1>1, <2>2, <2>3 DEF HonouredInFull
<1>14. EndingsTold'
  BY <1>1, <1>3 DEF EndingsTold, Closed, Open, Reason
<1>15. QED
  BY <1>6, <1>7, <1>8, <1>9, <1>11, <1>12, <1>13, <1>14

\* ExpireUnanswered: the row is closed, the hold has run out and stays, and nobody is told.
LEMMA ExpireUnansweredInv == ASSUME OverridesInv, NEW t \in Target, ExpireUnanswered(t) PROVE OverridesInv'
<1> USE DEF OverridesInv, dbVars, clockVars, engVars, trailVars, historyVars
<1> DEFINE h == held[t].id
<1>1. /\ phase = "expire" /\ toAudit = {} /\ t \in todo /\ held[t].left = 0 /\ Open(h) /\ Fault
      /\ table' = Closing({h}, "expired")
      /\ unanswered' = unanswered \cup {h} /\ todo' = todo \ {t}
      /\ UNCHANGED <<defs, assigned, clockVars, phase, held, curves, toAudit, trailVars, age, wellArmed>>
  BY DEF ExpireUnanswered
<1>2. h \in Hold /\ table[h].target = t
  BY <1>1, Fields DEF PhasesAgree, HeldOnTarget
<1>3. /\ table' \in [Hold -> Row]
      /\ \A k \in Hold : /\ table'[k].target = table[k].target /\ table'[k].asked = table[k].asked
                         /\ table'[k].left = table[k].left
                         /\ table'[k].state = IF k = h THEN "expired" ELSE table[k].state
  <2> HIDE DEF h
  <2>1. "expired" \in Reason /\ {h} \in SUBSET Hold
    BY <1>2 DEF Reason
  <2>2. ClosedRows(Closing({h}, "expired"), {h}, "expired")
    BY <2>1, ClosingRows
  <2>3. QED
    BY <1>1, <2>2 DEF ClosedRows
<1>4. \A u \in Target \ {t} : held[u].id # h
  BY <1>2, OverridesAssumption DEF HeldOnTarget
<1>5. h \in wellArmed => age[h] = table[h].asked
  <2>1. ASSUME h \in wellArmed PROVE held[t].left = table[h].asked - age[h]
    BY <1>1, <2>1 DEF HonouredInFull
  <2>2. QED
    BY <1>1, <1>2, <2>1, Fields
<1> HIDE DEF h
<1>6. /\ LeftCap \in Nat /\ LeftCap' \in Nat /\ LeftCap <= LeftCap'
      /\ budget' \in [requests : 0..MaxRequests, faults : 0..MaxFaults]
  BY <1>1, Budgets
<1>7. OverridesTypeOK'
  <2>1. \A u \in Target : \A j, k \in OpenOn(u)' : j = k
    BY <1>3 DEF OverridesTypeOK, OpenOn, Open
  <2>2. QED
    BY <1>1, <1>2, <1>3, <1>6, <2>1 DEF OverridesTypeOK
<1>8. RowsInTime' /\ HeldOnTarget'
  <2>1. ASSUME NEW k \in Hold PROVE table'[k].left <= LeftCap' /\ age'[k] <= table'[k].asked
    <3>1. table[k].left \in Int /\ table[k].left <= LeftCap
      BY Fields, Bounds DEF RowsInTime
    <3>2. table'[k].left = table[k].left /\ table'[k].asked = table[k].asked /\ age'[k] = age[k]
      BY <1>1, <1>3
    <3>3. QED
      BY <1>6, <3>1, <3>2 DEF RowsInTime
  <2>2. ASSUME NEW u \in Target PROVE held[u].left <= LeftCap'
    <3>1. held[u].left \in Int /\ held[u].left <= LeftCap
      BY Fields DEF HeldOnTarget
    <3>2. QED
      BY <1>6, <3>1
  <2>3. RowsInTime'
    BY <2>1 DEF RowsInTime
  <2>4. HeldOnTarget'
    BY <1>1, <1>3, <2>2, Fields DEF HeldOnTarget
  <2>5. QED
    BY <2>3, <2>4
<1>10. PhasesAgree'
  BY <1>1 DEF PhasesAgree
<1>11. EndedStaysEnded'
  <2>1. ASSUME NEW u \in Target, held[u].id # None
        PROVE  \/ table'[held[u].id].state \in {"open", "manual", "superseded"}
               \/ held[u].id \in unanswered' /\ held[u].left = 0
    <3>1. CASE u = t
      BY <1>1, <3>1 DEF h
    <3>2. CASE u # t
      <4>1. held[u].id \in Hold /\ held[u].id # h
        BY <1>4, <2>1, <3>2, Fields
      <4>2. table'[held[u].id].state = table[held[u].id].state
        BY <1>3, <4>1
      <4>3. \/ table[held[u].id].state \in {"open", "manual", "superseded"}
            \/ held[u].id \in unanswered /\ held[u].left = 0
        BY <2>1 DEF EndedStaysEnded
      <4>4. unanswered \subseteq unanswered'
        BY <1>1
      <4>5. QED
        BY <4>2, <4>3, <4>4
    <3>3. QED
      BY <3>1, <3>2
  <2>2. QED
    BY <1>1, <2>1 DEF EndedStaysEnded
<1>12. ArmedIsBorn'
  BY <1>1, <1>2, <1>3, Fields DEF ArmedIsBorn
<1>13. HonouredInFull'
  <2>1. ASSUME NEW k \in wellArmed, NEW u \in Target, held[u].id = k
        PROVE  held[u].left = table'[k].asked - age[k] \/ table'[k].state # "open"
    BY <1>3, <2>1, Fields DEF HonouredInFull, Open
  <2>2. ASSUME NEW k \in wellArmed, table'[k].state = "expired" PROVE age[k] = table'[k].asked
    BY <1>3, <1>5, <2>2, Fields DEF HonouredInFull
  <2>3. QED
    BY <1>1, <2>1, <2>2 DEF HonouredInFull, Open
<1>14. EndingsTold'
  BY <1>1, <1>3 DEF EndingsTold, Closed
<1>15. QED
  BY <1>7, <1>8, <1>10, <1>11, <1>12, <1>13, <1>14

\* The hold a target is found to have is the one it has.
LEMMA Chosen ==
    ASSUME OverridesTypeOK, NEW t \in Target, NEW h \in OpenOn(t)
    PROVE  (CHOOSE k \in OpenOn(t) : TRUE) = h
<1>1. (CHOOSE k \in OpenOn(t) : TRUE) \in OpenOn(t)
  OBVIOUS
<1>2. QED
  BY <1>1 DEF OverridesTypeOK

\* arm: a hold is armed with what its row has left, or nothing.
LEMMA ArmedIsHeld ==
    ASSUME OverridesInv, NEW h \in Hold
    PROVE  /\ Armed(h) \in [id : Hold \cup {None}, left : 0..LeftBound]
           /\ Armed(h).id = h /\ Armed(h).left = Later(table[h].left) /\ Armed(h).left <= LeftCap
<1>1. LeftCap \in Nat /\ LeftCap <= LeftBound
  BY CapBounded DEF OverridesInv, OverridesTypeOK
<1>2. table[h].left \in Int /\ table[h].left <= LeftCap
  BY Fields, Bounds DEF OverridesInv, RowsInTime
<1>3. Later(table[h].left) \in 0..LeftBound /\ Later(table[h].left) <= LeftCap
  BY <1>1, <1>2, Bounds DEF Later
<1>4. QED
  BY <1>3 DEF Armed

\* ReloadOverrides: what is kept was held and is open; what is armed is counted from now.
LEMMA ReloadOverridesInv == ASSUME OverridesInv, ReloadOverrides PROVE OverridesInv'
<1> USE DEF OverridesInv, dbVars, clockVars, engVars, trailVars, historyVars
<1> DEFINE new == {h \in Hold : Open(h) /\ held[table[h].target].id # h}
<1>1. /\ wellArmed' = (wellArmed \ new) \cup {h \in new : TellsTime(h)}
      /\ phase' = "schedules"
      /\ UNCHANGED <<dbVars, clockVars, todo, curves, toAudit, trailVars, age, unanswered, budget>>
  BY DEF ReloadOverrides
<1>2. ASSUME NEW t \in Target
      PROVE  \/ held'[t] = NoHold
             \/ held'[t] = held[t] /\ held[t].id \in OpenOn(t)
             \/ \E h \in OpenOn(t) : held'[t] = Armed(h) /\ held[t].id # h
  <2>1. held'[t] = CASE OpenOn(t) = {} -> NoHold
                     [] OpenOn(t) \cap {held[t].id} # {} -> held[t]
                     [] OTHER -> Armed(CHOOSE h \in OpenOn(t) : TRUE)
    BY DEF ReloadOverrides
  <2>2. CASE OpenOn(t) = {}
    BY <2>1, <2>2
  <2>3. CASE OpenOn(t) # {} /\ held[t].id \in OpenOn(t)
    <3>1. OpenOn(t) \cap {held[t].id} # {}
      BY <2>3
    <3>2. QED
      BY <2>1, <2>3, <3>1
  <2>4. CASE OpenOn(t) # {} /\ held[t].id \notin OpenOn(t)
    <3>1. OpenOn(t) \cap {held[t].id} = {}
      BY <2>4
    <3>2. PICK h \in OpenOn(t) : h = CHOOSE k \in OpenOn(t) : TRUE
      BY <2>4
    <3>3. QED
      BY <2>1, <2>4, <3>1, <3>2
  <2>5. QED
    BY <2>2, <2>3, <2>4
<1>3. LeftCap' = LeftCap /\ LeftCap \in Nat
  BY <1>1, Budgets DEF LeftCap
<1>4. ASSUME NEW t \in Target
      PROVE  /\ held'[t] \in [id : Hold \cup {None}, left : 0..LeftBound]
             /\ held'[t].left <= LeftCap
             /\ held'[t].id = None => held'[t].left = 0
             /\ held'[t].id # None => held'[t].id \in OpenOn(t)
  <2>1. CASE held'[t] = NoHold
    BY <1>3, <2>1, Bounds DEF NoHold
  <2>2. CASE held'[t] = held[t] /\ held[t].id \in OpenOn(t)
    BY <2>2 DEF OverridesTypeOK, HeldOnTarget
  <2>3. ASSUME NEW h \in OpenOn(t), held'[t] = Armed(h)
        PROVE  /\ held'[t] \in [id : Hold \cup {None}, left : 0..LeftBound]
               /\ held'[t].left <= LeftCap
               /\ held'[t].id # None /\ held'[t].id \in OpenOn(t)
    <3>1. h \in Hold /\ h # None
      BY OverridesAssumption DEF OpenOn
    <3>2. QED
      BY <2>3, <3>1, ArmedIsHeld
  <2>4. QED
    BY <1>2, <2>1, <2>2, <2>3
<1>5. OverridesTypeOK'
  <2>1. held' \in [Target -> [id : Hold \cup {None}, left : 0..LeftBound]]
    BY <1>4 DEF ReloadOverrides
  <2>2. \A t \in Target : \A h, k \in OpenOn(t)' : h = k
    BY <1>1 DEF OverridesTypeOK, OpenOn, Open
  <2>3. wellArmed' \subseteq Hold
    BY <1>1 DEF OverridesTypeOK
  <2>4. QED
    BY <1>1, <2>1, <2>2, <2>3 DEF OverridesTypeOK
<1>6. RowsInTime'
  BY <1>1, <1>3 DEF RowsInTime
<1>7. HeldOnTarget' /\ EndedStaysEnded'
  BY <1>1, <1>3, <1>4 DEF HeldOnTarget, EndedStaysEnded, OpenOn, Open
<1>8. PhasesAgree'
  BY <1>1 DEF PhasesAgree
<1>9. ArmedIsBorn'
  BY <1>1 DEF ArmedIsBorn, Open
<1>10. HonouredInFull'
  <2>1. ASSUME NEW h \in wellArmed', NEW t \in Target, held'[t].id = h
        PROVE  held'[t].left = table'[h].asked - age'[h] \/ ~Open(h)'
    <3>1. h \in Hold /\ h # None /\ table'[h] = table[h] /\ age'[h] = age[h]
      BY <1>1, OverridesAssumption DEF OverridesTypeOK
    <3>2. CASE held'[t] = NoHold
      BY <2>1, <3>1, <3>2 DEF NoHold
    <3>3. CASE held'[t] = held[t] /\ held[t].id \in OpenOn(t)
      <4>1. h \in wellArmed
        BY <1>1, <2>1, <3>3 DEF OpenOn
      <4>2. QED
        BY <1>1, <2>1, <3>1, <3>3, <4>1 DEF HonouredInFull, OpenOn
    <3>4. ASSUME NEW k \in OpenOn(t), held'[t] = Armed(k), held[t].id # k
          PROVE  held'[t].left = table'[h].asked - age'[h]
      <4>1. k = h /\ Armed(h).left = Later(table[h].left) /\ k \in new
        BY <2>1, <3>4, ArmedIsHeld DEF OpenOn
      <4>2. TellsTime(h)
        BY <1>1, <4>1
      <4>3. QED
        BY <3>1, <3>4, <4>1, <4>2 DEF TellsTime
    <3>5. QED
      BY <1>2, <3>2, <3>3, <3>4
  <2>2. ASSUME NEW h \in wellArmed', table'[h].state = "expired" PROVE age'[h] = table'[h].asked
    BY <1>1, <2>2 DEF HonouredInFull, Open
  <2>3. QED
    BY <2>1, <2>2 DEF HonouredInFull
<1>11. EndingsTold'
  BY <1>1 DEF EndingsTold, Closed
<1>12. QED
  BY <1>5, <1>6, <1>7, <1>8, <1>9, <1>10, <1>11

\* Wake: what ran out is closed and told of, and only what is left of the rest is armed.
LEMMA WakeInv == ASSUME OverridesInv, Wake PROVE OverridesInv'
<1> USE DEF OverridesInv, dbVars, clockVars, engVars, trailVars, historyVars
<1> DEFINE aged == {h \in Hold : Open(h) /\ table[h].left <= 0}
           live == {h \in Hold : Open(h)} \ aged
<1>1. /\ phase = "down" /\ phase' = "waking"
      /\ table' = Closing(aged, "lapsed") /\ toAudit' = aged \X {"lapsed"}
      /\ wellArmed' = (wellArmed \ live) \cup {h \in live : TellsTime(h)}
      /\ engTrusted' = trusted
      /\ UNCHANGED <<defs, assigned, trusted, todo, curves, trailVars, age, unanswered, budget>>
  BY DEF Wake
<1>2. ASSUME NEW t \in Target
      PROVE  \/ held'[t] = NoHold
             \/ \E h \in OpenOn(t) \cap live : held'[t] = Armed(h)
  <2>1. held'[t] = IF OpenOn(t) \cap live = {} THEN NoHold
                   ELSE Armed(CHOOSE h \in OpenOn(t) : TRUE)
    BY DEF Wake
  <2>2. CASE OpenOn(t) \cap live = {}
    BY <2>1, <2>2
  <2>3. CASE OpenOn(t) \cap live # {}
    <3>1. PICK h \in OpenOn(t) \cap live : TRUE
      BY <2>3
    <3>2. (CHOOSE k \in OpenOn(t) : TRUE) = h
      BY Chosen
    <3>3. QED
      BY <2>1, <2>3, <3>2
  <2>4. QED
    BY <2>2, <2>3
<1>3. toAudit = {} /\ aged \subseteq Hold
  BY <1>1 DEF PhasesAgree
<1>4. /\ table' \in [Hold -> Row]
      /\ \A k \in Hold : /\ table'[k].target = table[k].target /\ table'[k].asked = table[k].asked
                         /\ table'[k].left = table[k].left
                         /\ table'[k].state = IF k \in aged THEN "lapsed" ELSE table[k].state
  <2>1. aged \in SUBSET Hold /\ "lapsed" \in Reason
    BY DEF Reason
  <2> HIDE DEF aged
  <2>2. ClosedRows(table', aged, "lapsed")
    BY <1>1, <2>1, ClosingRows
  <2>3. QED
    BY <2>2 DEF ClosedRows
<1>5. LeftCap' = LeftCap /\ LeftCap \in Nat
  BY <1>1, Budgets DEF LeftCap
<1>6. ASSUME NEW t \in Target
      PROVE  /\ held'[t] \in [id : Hold \cup {None}, left : 0..LeftBound]
             /\ held'[t].left <= LeftCap
             /\ held'[t].id = None => held'[t].left = 0
             /\ held'[t].id # None => held'[t].id \in OpenOn(t) \cap live
  <2>1. CASE held'[t] = NoHold
    BY <1>5, <2>1, Bounds DEF NoHold
  <2>2. ASSUME NEW h \in OpenOn(t) \cap live, held'[t] = Armed(h)
        PROVE  /\ held'[t] \in [id : Hold \cup {None}, left : 0..LeftBound]
               /\ held'[t].left <= LeftCap
               /\ held'[t].id # None /\ held'[t].id \in OpenOn(t) \cap live
    <3>1. h \in Hold /\ h # None
      BY OverridesAssumption DEF OpenOn
    <3>2. QED
      BY <2>2, <3>1, ArmedIsHeld
  <2>3. QED
    BY <1>2, <2>1, <2>2
<1>7. OverridesTypeOK'
  <2>1. held' \in [Target -> [id : Hold \cup {None}, left : 0..LeftBound]]
    BY <1>6 DEF Wake
  <2>2. \A t \in Target : \A h, k \in OpenOn(t)' : h = k
    BY <1>4 DEF OverridesTypeOK, OpenOn, Open
  <2>3. wellArmed' \subseteq Hold /\ toAudit' \subseteq Hold \X Reason
    BY <1>1 DEF OverridesTypeOK, Reason
  <2>4. QED
    BY <1>1, <1>4, <2>1, <2>2, <2>3 DEF OverridesTypeOK
<1>8. RowsInTime'
  BY <1>1, <1>4, <1>5 DEF RowsInTime
<1>9. HeldOnTarget' /\ EndedStaysEnded'
  <2>1. \A t \in Target : \A h \in OpenOn(t) \cap live :
           h \in Hold /\ table'[h].target = t /\ table'[h].state = "open"
    BY <1>4 DEF OpenOn, Open
  <2> HIDE DEF aged, live
  <2>2. HeldOnTarget'
    BY <1>5, <1>6, <2>1 DEF HeldOnTarget
  <2>3. EndedStaysEnded'
    BY <1>6, <2>1 DEF EndedStaysEnded
  <2>4. QED
    BY <2>2, <2>3
<1>10. PhasesAgree'
  BY <1>1 DEF PhasesAgree
<1>11. ArmedIsBorn'
  BY <1>1, <1>4, Fields DEF ArmedIsBorn, Open
<1>12. HonouredInFull'
  <2>1. ASSUME NEW h \in wellArmed', NEW t \in Target, held'[t].id = h
        PROVE  held'[t].left = table'[h].asked - age'[h]
    <3>1. h \in Hold /\ h # None /\ age'[h] = age[h]
      BY <1>1, OverridesAssumption DEF OverridesTypeOK
    <3>2. PICK k \in OpenOn(t) \cap live : held'[t] = Armed(k)
      BY <1>2, <2>1, <3>1 DEF NoHold
    <3>3. k = h /\ Armed(h).left = Later(table[h].left) /\ h \in live
      BY <2>1, <3>2, ArmedIsHeld DEF OpenOn
    <3>4. TellsTime(h)
      BY <1>1, <3>3
    <3>5. QED
      BY <1>4, <3>1, <3>2, <3>3, <3>4 DEF TellsTime
  <2>2. ASSUME NEW h \in wellArmed', table'[h].state = "expired" PROVE age'[h] = table'[h].asked
    <3>1. h \in Hold /\ table[h].state = "expired"
      BY <1>1, <1>4, <2>2, Fields
    <3>2. h \in wellArmed
      BY <1>1, <3>1 DEF Open
    <3>3. QED
      BY <1>1, <1>4, <3>1, <3>2 DEF HonouredInFull
  <2>3. QED
    BY <2>1, <2>2 DEF HonouredInFull
<1>13. EndingsTold'
  BY <1>1, <1>3, <1>4 DEF EndingsTold, Closed, Open, Reason
<1>14. QED
  BY <1>7, <1>8, <1>9, <1>10, <1>11, <1>12, <1>13

-----------------------------------------------------------------------------
(* The invariant and what it gives.                                        *)

\* At first nothing was asked for and nothing is held.
LEMMA OverridesInitInv == ASSUME Init PROVE OverridesInv
<1> USE DEF Init
<1>1. Unborn \in Row /\ NoHold \in [id : Hold \cup {None}, left : 0..LeftBound] /\ <<>> \in Curve
  BY Bounds DEF Unborn, Row, NoHold, Curve
<1>2. budget \in [requests : 0..MaxRequests, faults : 0..MaxFaults]
  BY OverridesAssumption
<1>3. OverridesTypeOK
  <2>1. \A t \in Target : OpenOn(t) = {}
    BY DEF OpenOn, Open, Unborn
  <2>2. age \in [Hold -> 0..MaxDuration]
    BY Bounds
  <2>3. trusted \in BOOLEAN /\ engTrusted \in BOOLEAN
    OBVIOUS
  <2>4. QED
    BY <1>1, <1>2, <2>1, <2>2, <2>3 DEF OverridesTypeOK
<1>4. LeftCap \in Nat
  BY <1>2, CapBounded
<1>5. RowsInTime /\ HeldOnTarget /\ PhasesAgree
  BY <1>4 DEF RowsInTime, HeldOnTarget, PhasesAgree, Unborn, NoHold
<1>6. ArmedIsBorn /\ HonouredInFull /\ EndedStaysEnded /\ EndingsTold
  BY DEF ArmedIsBorn, HonouredInFull, EndedStaysEnded, EndingsTold, Closed, Unborn, NoHold, Reason
<1>7. QED
  BY <1>3, <1>5, <1>6 DEF OverridesInv

\* Every step keeps the invariant.
LEMMA OverridesStepInv == ASSUME OverridesInv, [Next]_vars PROVE OverridesInv'
<1>1. CASE Engine
  BY <1>1, WakeInv, AwakeInv, StartTickInv, ExpiredInv, ReloadOverridesInv, ReloadSchedulesInv,
     AuditInv, NotYetInv, ExpireInv DEF Engine
<1>2. ASSUME NEW h \in Hold, ReleaseOverride(h) \/ \E t \in Target, n \in Durations : CreateOverride(h, t, n)
      PROVE  OverridesInv'
  BY <1>2, ReleaseOverrideInv, CreateOverrideInv
<1>3. ASSUME NEW e \in toSink, Sink(e) \/ SinkDrops(e) PROVE OverridesInv'
  BY <1>3, SinkInv, SinkDropsInv
<1>4. ASSUME NEW s \in Schedule,
             \/ DeleteSchedule(s)
             \/ \E v \in Version : StoreSchedule(s, v)
             \/ \E t \in Target : AssignSchedule(t, s)
      PROVE  OverridesInv'
  BY <1>4, DeleteScheduleInv, StoreScheduleInv, AssignScheduleInv
<1>5. ASSUME NEW t \in Target, UnassignSchedule(t) \/ ExpireFails(t) \/ ExpireUnanswered(t) PROVE OverridesInv'
  BY <1>5, UnassignScheduleInv, ExpireFailsInv, ExpireUnansweredInv
<1>6. ASSUME NEW e \in toAudit, AuditDrops(e) PROVE OverridesInv'
  BY <1>6, AuditDropsInv
<1>7. CASE ApiDies \/ RefreshClockTrust \/ ReloadFails \/ ReloadSchedulesFails \/ EngineDies
  BY <1>7, ApiDiesInv, RefreshClockTrustInv, ReloadFailsInv, ReloadSchedulesFailsInv, EngineDiesInv
<1>8. CASE Elapse \/ LoseClock \/ ClockSettles
  BY <1>8, ElapseInv, LoseClockInv, ClockSettlesInv
<1>9. ASSUME NEW n \in -MaxStep..MaxStep \ {0}, StepClock(n) PROVE OverridesInv'
  BY <1>9, StepClockInv
<1>10. CASE UNCHANGED vars
  <2>1. UNCHANGED <<table, held, age, wellArmed, unanswered>> /\ UNCHANGED budget
    BY <1>10 DEF vars, dbVars, engVars, historyVars
  <2>2. RowsInTime' /\ HeldOnTarget' /\ ArmedIsBorn' /\ HonouredInFull' /\ EndedStaysEnded'
    BY <2>1, Undisturbed
  <2>3. OverridesTypeOK' /\ PhasesAgree' /\ EndingsTold'
    BY <1>10, <2>1, Undisturbed
    DEF vars, dbVars, clockVars, engVars, trailVars, historyVars, OverridesInv, OverridesTypeOK,
        PhasesAgree, EndingsTold, Closed
  <2>4. QED
    BY <2>2, <2>3 DEF OverridesInv
<1>11. QED
  BY <1>1, <1>2, <1>3, <1>4, <1>5, <1>6, <1>7, <1>8, <1>9, <1>10 DEF Next

\* The invariant holds in every state.
LEMMA OverridesInvariant == Spec => []OverridesInv
  BY OverridesInitInv, OverridesStepInv, PTL DEF Spec

\* Rows, holds and deadlines stay what they are, and no target has two open holds.
THEOREM OverridesTypes == Spec => []OverridesTypeOK
<1>1. OverridesInv => OverridesTypeOK
  BY DEF OverridesInv
<1>2. QED
  BY <1>1, OverridesInvariant, PTL

\* HonouredInFull: a hold that was armed by a clock that told the time is counted in elapsed
\* time, and not expired before it.
THEOREM HoldsHonoured == Spec => []HonouredInFull
<1>1. OverridesInv => HonouredInFull
  BY DEF OverridesInv
<1>2. QED
  BY <1>1, OverridesInvariant, PTL

\* EndedStaysEnded: the engine never works from a hold that lapsed or expired, but for one
\* that has run out in a release it got no answer to.
THEOREM EndedHoldsStayEnded == Spec => []EndedStaysEnded
<1>1. OverridesInv => EndedStaysEnded
  BY DEF OverridesInv
<1>2. QED
  BY <1>1, OverridesInvariant, PTL

\* EndingsAccounted: when nothing is on its way, every ending is on the trail with its own
\* reason, or a fault struck the publish of one or the answer to a release.
THEOREM EndingsAreAccounted == Spec => []EndingsAccounted
<1>1. OverridesInv => EndingsAccounted
  BY DEF OverridesInv, EndingsTold, EndingsAccounted
<1>2. QED
  BY <1>1, OverridesInvariant, PTL
=============================================================================
