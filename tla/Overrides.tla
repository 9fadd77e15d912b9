----------------------------- MODULE Overrides ------------------------------
(***************************************************************************)
(* Manual holds and lighting schedules: what an operator asks for through  *)
(* the API, what Postgres keeps (db/overrides.py, db/schedules.py) and     *)
(* what the control engine works from (app.py).                            *)
(*                                                                         *)
(* A hold is a duration.  Its row keeps a wall-clock deadline, which only  *)
(* a restart of the engine goes by; the engine that runs counts on its     *)
(* monotonic clock, from the moment it first saw the row.  Deadlines are   *)
(* written here as the time that is left, so that time passing lowers them *)
(* all and a step of the wall clock moves those of the rows alone.         *)
(*                                                                         *)
(* Every ending is also an audit event, published after the row is closed  *)
(* by whoever closed it.                                                   *)
(***************************************************************************)
EXTENDS Integers

CONSTANTS
    Target,         \* actuators that are held and scheduled
    Hold,           \* override ids
    Durations,      \* what an operator asks for, in ticks
    MaxStep,        \* how far a wall clock is stepped, at most
    Schedule,       \* named curves
    Version,        \* definitions a curve can have
    MaxRequests,    \* requests that change something
    MaxFaults       \* failed reads, writes and publishes, deaths, clock steps

VARIABLES
    table,          \* the overrides table
    defs,           \* lighting_schedules
    assigned,       \* schedule_assignments
    trusted,        \* the host's clock is synchronised
    engTrusted,     \* ControlEngine._clock_trusted
    phase,          \* where the engine is
    held,           \* ControlEngine._held
    todo,           \* targets _expire_overrides has yet to look at
    curves,         \* ControlEngine._last_curves
    toAudit,        \* endings the engine has yet to publish
    toSink,         \* endings the API has yet to publish
    trail,          \* override.released events on the audit stream
    lost,           \* holds an ending of which was not published
    age,            \* time since a hold was placed
    wellArmed,      \* holds armed while the wall clock told the time
    unanswered,     \* holds whose release the engine never got the answer of
    budget          \* requests and faults so far

dbVars == <<table, defs, assigned>>
clockVars == <<trusted, engTrusted>>
engVars == <<phase, held, todo, curves, toAudit>>
trailVars == <<toSink, trail, lost>>
historyVars == <<age, wellArmed, unanswered>>
vars == <<dbVars, clockVars, engVars, trailVars, historyVars, budget>>

-----------------------------------------------------------------------------
None == "none"

\* A hold has a greatest duration (app.py: at most a day), and neither an id nor a
\* definition is null.
ASSUME OverridesAssumption ==
    /\ Durations \subseteq Nat \ {0} /\ \E n \in Durations : \A m \in Durations : m <= n
    /\ MaxStep \in Nat /\ MaxRequests \in Nat /\ MaxFaults \in Nat
    /\ None \notin Hold \cup Version

Reason == {"expired", "lapsed", "manual", "superseded"}
MaxDuration == CHOOSE n \in Durations : \A m \in Durations : m <= n

\* Bounds on what a row's deadline can be away: far in the past is past.
LeftMost == 0 - MaxStep
LeftBound == MaxDuration + MaxStep * MaxFaults

Row == [target : Target \cup {None}, asked : Durations \cup {0}, left : LeftMost..LeftBound,
        state : {"unborn", "open"} \cup Reason]
Unborn == [target |-> None, asked |-> 0, left |-> 0, state |-> "unborn"]
NoHold == [id |-> None, left |-> 0]

Open(h) == table[h].state = "open"
Closed(h) == table[h].state \in Reason
OpenOn(t) == {h \in Hold : Open(h) /\ table[h].target = t}

Closing(hs, reason) == [h \in Hold |-> IF h \in hs THEN [table[h] EXCEPT !.state = reason] ELSE table[h]]

Later(n) == IF n > 0 THEN n ELSE 0

\* ActiveOverride.arm: what is left by the wall clock, from now on by the monotonic one.
Armed(h) == [id |-> h, left |-> Later(table[h].left)]
TellsTime(h) == Later(table[h].left) = table[h].asked - age[h]

\* assigned_curves: the join of the two tables.
assigned_curves == [t \in Target |-> IF assigned[t] = None THEN <<>> ELSE <<assigned[t], defs[assigned[t]]>>]
Curve == {<<>>} \cup (Schedule \X Version)

\* Every variable has its type, and a target has at most one open hold (models.py, Override;
\* overrides.py, create).
OverridesTypeOK ==
    /\ table \in [Hold -> Row]
    /\ \A t \in Target : \A h, k \in OpenOn(t) : h = k
    /\ defs \in [Schedule -> Version \cup {None}]
    /\ assigned \in [Target -> Schedule \cup {None}]
    /\ \A t \in Target : assigned[t] # None => defs[assigned[t]] # None
    /\ trusted \in BOOLEAN /\ engTrusted \in BOOLEAN
    /\ phase \in {"down", "waking", "idle", "expire", "reload", "schedules"}
    /\ held \in [Target -> [id : Hold \cup {None}, left : 0..LeftBound]]
    /\ todo \subseteq Target
    /\ curves \in [Target -> Curve]
    /\ toAudit \subseteq Hold \X Reason
    /\ toSink \subseteq Hold \X Reason
    /\ trail \subseteq Hold \X Reason
    /\ lost \subseteq Hold
    /\ age \in [Hold -> 0..MaxDuration]
    /\ wellArmed \subseteq Hold /\ unanswered \subseteq Hold
    /\ budget \in [requests : 0..MaxRequests, faults : 0..MaxFaults]

-----------------------------------------------------------------------------
Asked ==
    /\ budget.requests < MaxRequests
    /\ budget' = [budget EXCEPT !.requests = @ + 1]

Fault ==
    /\ budget.faults < MaxFaults
    /\ budget' = [budget EXCEPT !.faults = @ + 1]

(* The API.                                                                *)

\* Mutant of CreateOverride: the hold the target had is left open.
CreateBeside(h, t, n) ==
    /\ table[h] = Unborn /\ trusted
    /\ Asked
    /\ table' = [table EXCEPT ![h] = [target |-> t, asked |-> n, left |-> n, state |-> "open"]]
    /\ UNCHANGED <<defs, assigned, clockVars, engVars, trailVars, historyVars>>

\* create_override: refused while the clock is not trusted; one transaction closes the
\* hold the target had and opens the new one.
CreateOverride(h, t, n) ==
    /\ table[h] = Unborn /\ trusted
    /\ Asked
    /\ table' = [Closing(OpenOn(t), "superseded") EXCEPT
                    ![h] = [target |-> t, asked |-> n, left |-> n, state |-> "open"]]
    /\ toSink' = toSink \cup (OpenOn(t) \X {"superseded"})
    /\ UNCHANGED <<defs, assigned, clockVars, engVars, trail, lost, historyVars>>

\* release_override: unknown or already released is a 404.
ReleaseOverride(h) ==
    /\ Open(h)
    /\ Asked
    /\ table' = Closing({h}, "manual")
    /\ toSink' = toSink \cup {<<h, "manual">>}
    /\ UNCHANGED <<defs, assigned, clockVars, engVars, trail, lost, historyVars>>

\* NatsAuditSink: what cannot be published is logged and dropped.
Sink(e) ==
    /\ e \in toSink
    /\ toSink' = toSink \ {e}
    /\ trail' = trail \cup {e}
    /\ UNCHANGED <<dbVars, clockVars, engVars, lost, historyVars, budget>>

SinkDrops(e) ==
    /\ e \in toSink
    /\ Fault
    /\ toSink' = toSink \ {e}
    /\ lost' = lost \cup {e[1]}
    /\ UNCHANGED <<dbVars, clockVars, engVars, trail, historyVars>>

ApiDies ==
    /\ toSink # {}
    /\ Fault
    /\ toSink' = {}
    /\ lost' = lost \cup {e[1] : e \in toSink}
    /\ UNCHANGED <<dbVars, clockVars, engVars, trail, historyVars>>

\* create_schedule and update_schedule.
StoreSchedule(s, v) ==
    /\ defs[s] # v
    /\ Asked
    /\ defs' = [defs EXCEPT ![s] = v]
    /\ UNCHANGED <<table, assigned, clockVars, engVars, trailVars, historyVars>>

\* delete_schedule: one that drives a channel is refused, by the store and by the key.
DeleteSchedule(s) ==
    /\ defs[s] # None /\ \A t \in Target : assigned[t] # s
    /\ Asked
    /\ defs' = [defs EXCEPT ![s] = None]
    /\ UNCHANGED <<table, assigned, clockVars, engVars, trailVars, historyVars>>

\* assign_schedule replaces what the channel had.
AssignSchedule(t, s) ==
    /\ defs[s] # None /\ assigned[t] # s
    /\ Asked
    /\ assigned' = [assigned EXCEPT ![t] = s]
    /\ UNCHANGED <<table, defs, clockVars, engVars, trailVars, historyVars>>

UnassignSchedule(t) ==
    /\ assigned[t] # None
    /\ Asked
    /\ assigned' = [assigned EXCEPT ![t] = None]
    /\ UNCHANGED <<table, defs, clockVars, engVars, trailVars, historyVars>>

-----------------------------------------------------------------------------
(* The engine.                                                             *)

\* Mutant of Wake: what ran out is closed, and nobody is told.
WakeSilent ==
    /\ phase = "down"
    /\ LET aged == {h \in Hold : Open(h) /\ table[h].left <= 0}
       IN  /\ table' = Closing(aged, "lapsed")
           /\ held' = [t \in Target |-> IF OpenOn(t) \subseteq aged THEN NoHold
                                        ELSE Armed(CHOOSE h \in OpenOn(t) : TRUE)]
    /\ engTrusted' = trusted
    /\ phase' = "waking"
    /\ UNCHANGED <<defs, assigned, trusted, todo, curves, toAudit, trailVars, historyVars, budget>>

\* _rearm_overrides and load_active: what ran out while nobody watched is closed and
\* never applied; the rest is armed from the wall clock.
Wake ==
    /\ phase = "down"
    /\ LET aged == {h \in Hold : Open(h) /\ table[h].left <= 0}
           live == {h \in Hold : Open(h)} \ aged
       IN  /\ table' = Closing(aged, "lapsed")
           /\ toAudit' = aged \X {"lapsed"}
           /\ held' = [t \in Target |-> IF OpenOn(t) \cap live = {} THEN NoHold
                                        ELSE Armed(CHOOSE h \in OpenOn(t) : TRUE)]
           /\ wellArmed' = (wellArmed \ live) \cup {h \in live : TellsTime(h)}
    /\ engTrusted' = trusted
    /\ phase' = "waking"
    /\ UNCHANGED <<defs, assigned, trusted, todo, curves, trailVars, age, unanswered, budget>>

\* _audit_override_release: a publish that fails is logged.
Audit(e) ==
    /\ e \in toAudit
    /\ toAudit' = toAudit \ {e}
    /\ trail' = trail \cup {e}
    /\ UNCHANGED <<dbVars, clockVars, phase, held, todo, curves, toSink, lost, historyVars, budget>>

AuditDrops(e) ==
    /\ e \in toAudit
    /\ Fault
    /\ toAudit' = toAudit \ {e}
    /\ lost' = lost \cup {e[1]}
    /\ UNCHANGED <<dbVars, clockVars, phase, held, todo, curves, toSink, trail, historyVars>>

Awake ==
    /\ phase = "waking" /\ toAudit = {}
    /\ phase' = "idle"
    /\ UNCHANGED <<dbVars, clockVars, held, todo, curves, toAudit, trailVars, historyVars, budget>>

\* _refresh_clock_trust, from time to time between two ticks.
RefreshClockTrust ==
    /\ phase = "idle" /\ engTrusted # trusted
    /\ engTrusted' = trusted
    /\ UNCHANGED <<dbVars, trusted, engVars, trailVars, historyVars, budget>>

\* _tick starts with _expire_overrides, over the targets it holds.
StartTick ==
    /\ phase = "idle" /\ engTrusted
    /\ phase' = "expire"
    /\ todo' = {t \in Target : held[t] # NoHold}
    /\ UNCHANGED <<dbVars, clockVars, held, curves, toAudit, trailVars, historyVars, budget>>

NotYet(t) ==
    /\ phase = "expire" /\ toAudit = {} /\ t \in todo /\ held[t].left > 0
    /\ todo' = todo \ {t}
    /\ UNCHANGED <<dbVars, clockVars, phase, held, curves, toAudit, trailVars, historyVars, budget>>

\* Mutant of Expire: the row is closed, the hold is still worked from.
ExpireKeeps(t) ==
    /\ phase = "expire" /\ toAudit = {} /\ t \in todo /\ held[t].left = 0
    /\ LET h == held[t].id
       IN  /\ table' = IF Open(h) THEN Closing({h}, "expired") ELSE table
           /\ toAudit' = {<<h, "expired">>}
    /\ todo' = todo \ {t}
    /\ UNCHANGED <<defs, assigned, clockVars, phase, held, curves, trailVars, historyVars, budget>>

\* release() of a hold whose monotonic deadline has passed.  It closes the row if nobody
\* else has, and says which; that answer is not looked at.
Expire(t) ==
    /\ phase = "expire" /\ toAudit = {} /\ t \in todo /\ held[t].left = 0
    /\ LET h == held[t].id
       IN  /\ table' = IF Open(h) THEN Closing({h}, "expired") ELSE table
           /\ toAudit' = {<<h, "expired">>}
    /\ held' = [held EXCEPT ![t] = NoHold]
    /\ todo' = todo \ {t}
    /\ UNCHANGED <<defs, assigned, clockVars, phase, curves, trailVars, historyVars, budget>>

\* A release that raises leaves the hold for the next tick ...
ExpireFails(t) ==
    /\ phase = "expire" /\ toAudit = {} /\ t \in todo /\ held[t].left = 0
    /\ Fault
    /\ todo' = todo \ {t}
    /\ UNCHANGED <<dbVars, clockVars, phase, held, curves, toAudit, trailVars, historyVars>>

\* ... also one that raises over an answer that was lost, after the row was closed: a reload
\* that succeeds before the next tick then drops the hold, and its ending is not published.
ExpireUnanswered(t) ==
    /\ phase = "expire" /\ toAudit = {} /\ t \in todo /\ held[t].left = 0
    /\ Open(held[t].id)
    /\ Fault
    /\ table' = Closing({held[t].id}, "expired")
    /\ unanswered' = unanswered \cup {held[t].id}
    /\ todo' = todo \ {t}
    /\ UNCHANGED <<defs, assigned, clockVars, phase, held, curves, toAudit, trailVars, age, wellArmed>>

Expired ==
    /\ phase = "expire" /\ toAudit = {} /\ todo = {}
    /\ phase' = "reload"
    /\ UNCHANGED <<dbVars, clockVars, held, todo, curves, toAudit, trailVars, historyVars, budget>>

\* Mutant of ReloadOverrides: every hold is armed again from its row.
ReloadRearms ==
    /\ phase = "reload"
    /\ held' = [t \in Target |-> IF OpenOn(t) = {} THEN NoHold
                                 ELSE Armed(CHOOSE h \in OpenOn(t) : TRUE)]
    /\ phase' = "schedules"
    /\ UNCHANGED <<dbVars, clockVars, todo, curves, toAudit, trailVars, historyVars, budget>>

\* Mutant of ReloadOverrides: a hold the operator placed while the engine ran is not
\* taken up.
ReloadOnlyDrops ==
    /\ phase = "reload"
    /\ held' = [t \in Target |-> IF held[t].id \in OpenOn(t) THEN held[t] ELSE NoHold]
    /\ phase' = "schedules"
    /\ UNCHANGED <<dbVars, clockVars, todo, curves, toAudit, trailVars, historyVars, budget>>

\* _reload_overrides and list_active: a hold that is known keeps its deadline, a new one is
\* armed, one that is gone is dropped.
ReloadOverrides ==
    /\ phase = "reload"
    /\ LET current(t) == OpenOn(t) \cap {held[t].id}
           new == {h \in Hold : Open(h) /\ held[table[h].target].id # h}
       IN  /\ held' = [t \in Target |->
                          CASE OpenOn(t) = {} -> NoHold
                            [] current(t) # {} -> held[t]
                            [] OTHER -> Armed(CHOOSE h \in OpenOn(t) : TRUE)]
           /\ wellArmed' = (wellArmed \ new) \cup {h \in new : TellsTime(h)}
    /\ phase' = "schedules"
    /\ UNCHANGED <<dbVars, clockVars, todo, curves, toAudit, trailVars, age, unanswered, budget>>

\* A read that fails keeps the last good set.
ReloadFails ==
    /\ phase = "reload"
    /\ Fault
    /\ phase' = "schedules"
    /\ UNCHANGED <<dbVars, clockVars, held, todo, curves, toAudit, trailVars, historyVars>>

\* Mutant of ReloadSchedules: a channel whose schedule was taken away keeps its curve.
ReloadAssignedOnly ==
    /\ phase = "schedules"
    /\ curves' = [t \in Target |-> IF assigned_curves[t] = <<>> THEN curves[t] ELSE assigned_curves[t]]
    /\ phase' = "idle"
    /\ UNCHANGED <<dbVars, clockVars, held, todo, toAudit, trailVars, historyVars, budget>>

\* _reload_schedules.
ReloadSchedules ==
    /\ phase = "schedules"
    /\ curves' = assigned_curves
    /\ phase' = "idle"
    /\ UNCHANGED <<dbVars, clockVars, held, todo, toAudit, trailVars, historyVars, budget>>

ReloadSchedulesFails ==
    /\ phase = "schedules"
    /\ Fault
    /\ phase' = "idle"
    /\ UNCHANGED <<dbVars, clockVars, held, todo, curves, toAudit, trailVars, historyVars>>

\* A death, or the end of run() when load_active raises after its commit.
EngineDies ==
    /\ phase # "down"
    /\ Fault
    /\ phase' = "down"
    /\ held' = [t \in Target |-> NoHold]
    /\ todo' = {}
    /\ curves' = [t \in Target |-> <<>>]
    /\ toAudit' = {}
    /\ lost' = lost \cup {e[1] : e \in toAudit}
    /\ UNCHANGED <<dbVars, clockVars, toSink, trail, historyVars>>

Engine ==
    \/ Wake \/ Awake \/ StartTick \/ Expired \/ ReloadOverrides \/ ReloadSchedules
    \/ \E e \in toAudit : Audit(e)
    \/ \E t \in Target : NotYet(t) \/ Expire(t)

-----------------------------------------------------------------------------
(* The clocks.                                                             *)

Elapse ==
    /\ table' = [h \in Hold |-> IF Open(h) /\ table[h].left > LeftMost
                                THEN [table[h] EXCEPT !.left = @ - 1] ELSE table[h]]
    /\ age' = [h \in Hold |-> IF Open(h) /\ age[h] < table[h].asked THEN age[h] + 1 ELSE age[h]]
    /\ held' = [t \in Target |-> [held[t] EXCEPT !.left = Later(@ - 1)]]
    /\ UNCHANGED <<defs, assigned, clockVars, phase, todo, curves, toAudit, trailVars, wellArmed, unanswered, budget>>

\* Synchronisation is lost, and while it is chrony may step the clock.
LoseClock ==
    /\ trusted
    /\ Fault
    /\ trusted' = FALSE
    /\ UNCHANGED <<dbVars, engTrusted, engVars, trailVars, historyVars>>

StepClock(n) ==
    /\ ~trusted /\ \E h \in Hold : Open(h)
    /\ Fault
    /\ table' = [h \in Hold |-> IF Open(h) /\ table[h].left - n >= LeftMost
                                THEN [table[h] EXCEPT !.left = @ - n] ELSE table[h]]
    /\ UNCHANGED <<defs, assigned, clockVars, engVars, trailVars, historyVars>>

ClockSettles ==
    /\ ~trusted
    /\ trusted' = TRUE
    /\ UNCHANGED <<dbVars, engTrusted, engVars, trailVars, historyVars, budget>>

-----------------------------------------------------------------------------
Init ==
    /\ table = [h \in Hold |-> Unborn]
    /\ defs = [s \in Schedule |-> None]
    /\ assigned = [t \in Target |-> None]
    /\ trusted = TRUE /\ engTrusted = FALSE
    /\ phase = "down"
    /\ held = [t \in Target |-> NoHold]
    /\ todo = {}
    /\ curves = [t \in Target |-> <<>>]
    /\ toAudit = {} /\ toSink = {} /\ trail = {} /\ lost = {}
    /\ age = [h \in Hold |-> 0]
    /\ wellArmed = {} /\ unanswered = {}
    /\ budget = [requests |-> 0, faults |-> 0]

Next ==
    \/ Engine
    \/ \E h \in Hold : ReleaseOverride(h) \/ \E t \in Target, n \in Durations : CreateOverride(h, t, n)
    \/ \E e \in toSink : Sink(e) \/ SinkDrops(e)
    \/ ApiDies
    \/ \E s \in Schedule :
        \/ DeleteSchedule(s)
        \/ \E v \in Version : StoreSchedule(s, v)
        \/ \E t \in Target : AssignSchedule(t, s)
    \/ \E t \in Target : UnassignSchedule(t) \/ ExpireFails(t) \/ ExpireUnanswered(t)
    \/ \E e \in toAudit : AuditDrops(e)
    \/ RefreshClockTrust \/ ReloadFails \/ ReloadSchedulesFails \/ EngineDies
    \/ Elapse \/ LoseClock \/ ClockSettles
    \/ \E n \in -MaxStep..MaxStep \ {0} : StepClock(n)

Spec == Init /\ [][Next]_vars

(* The engine is restarted and its loop runs on, the clock is synchronised in the *)
(* end and time passes.                                                           *)
Fairness ==
    /\ WF_vars(Engine) /\ WF_vars(RefreshClockTrust)
    /\ WF_vars(ClockSettles) /\ WF_vars(Elapse)

FairSpec == Spec /\ Fairness

-----------------------------------------------------------------------------
(* Properties.                                                             *)

\* A hold that was armed by a wall clock that told the time is counted in elapsed time
\* from there on, whatever the wall clock does, and is not expired before its time.
HonouredInFull ==
    \A h \in wellArmed :
        /\ \A t \in Target : held[t].id = h => held[t].left = table[h].asked - age[h] \/ ~Open(h)
        /\ table[h].state = "expired" => age[h] = table[h].asked

\* A hold that lapsed or expired is never applied again: what the engine holds is open, or
\* was closed by an operator since the last tick, or has run out in a release that the
\* engine was not told the outcome of.
EndedStaysEnded ==
    \A t \in Target : held[t].id # None =>
        \/ table[held[t].id].state \in {"open", "manual", "superseded"}
        \/ held[t].id \in unanswered /\ held[t].left = 0

\* Once nothing is on its way, every ending is on the trail with its own reason, unless a
\* fault struck the very publish that would have told of it, or the answer to the release.
EndingsAccounted ==
    (toAudit = {} /\ toSink = {}) =>
        \A h \in Hold : Closed(h) => <<h, table[h].state>> \in trail \/ h \in lost \cup unanswered

\* Every hold ends: also one the engine was down for, one whose release failed, and one
\* placed before the clock was lost.
HoldEnds == \A h \in Hold : Open(h) ~> Closed(h)

\* An edit of the schedules, an unassignment too, reaches the engine: however the edits,
\* the failed reads and the restarts fall, it comes back to working from the tables.
CurvesFollow == []<>(curves = assigned_curves)
=============================================================================
