------------------------------- MODULE Alerts -------------------------------
(***************************************************************************)
(* Threshold and silence alerts: AlertSupervisor and SilenceWatcher in the *)
(* control engine (alerts.py, app.py), the episodes in Postgres            *)
(* (db/alerts.py) and the thresholds an operator edits through the API     *)
(* (store.py).                                                             *)
(*                                                                         *)
(* Two tasks of the engine share the watcher: the sensor callback, which   *)
(* nats-py runs one message at a time, and the tick loop, which sweeps for *)
(* probes that have gone quiet.  Each waits for Postgres in the middle of  *)
(* its work, and the other one runs there.  The engine keeps a copy of the *)
(* bands that it reads every RefreshEvery ticks, a mirror of the open      *)
(* threshold episodes that it re-reads at the same time, and a mirror of   *)
(* the open silences that it reads once, when it starts.                   *)
(***************************************************************************)
EXTENDS Integers, Sequences

CONSTANTS
    Probe,          \* sensors
    Level,          \* values a probe can read
    Bands,          \* the bands an operator sets
    Cadence,        \* declared polling interval, in ticks
    SILENCE_CADENCE_MULTIPLE,
    SILENCE_FLOOR_S,
    RefreshEvery,   \* threshold_refresh_s, in ticks
    Commit,         \* how a transaction, and the publish after it, can end
    MaxFaults       \* how many of them fail, and how often the process dies

VARIABLES
    tank,       \* what each probe would measure now
    health,     \* whether each probe reports, and what
    band,       \* devices.alert_min, alert_max, alert_clear_margin
    watched,    \* enabled sensors, the ones cadences() returns
    episodes,   \* open rows of sensor_alerts
    up,         \* the engine runs
    open,       \* AlertSupervisor._open
    silent,     \* SilenceWatcher._silent
    lastSeen,   \* ticks since SilenceWatcher._last_seen, Never if absent
    cache,      \* ControlEngine._thresholds
    cacheAge,   \* ticks since _thresholds_read_at
    task,       \* the sensor callback
    sweep,      \* the sweep of the tick loop
    faults

dbVars == <<band, watched, episodes>>
worldVars == <<tank, health>>
supervisorVars == <<open, cache, cacheAge>>
watcherVars == <<silent, lastSeen>>
vars == <<worldVars, dbVars, up, supervisorVars, watcherVars, task, sweep, faults>>

-----------------------------------------------------------------------------
Bound == {"min", "max"}
Health == {"good", "faulty", "dead"}
Kind == Bound \cup {"silence"}

None == -1
Never == -1
Nobody == "nobody"

\* What the CHECK constraints of devices and Thresholds.__post_init__ admit.
Usable(b) ==
    /\ b.margin > 0
    /\ (b.min # None /\ b.max # None) => b.min + b.margin < b.max - b.margin

Configured(b) == b.min # None \/ b.max # None

silence_deadline_s ==
    IF Cadence * SILENCE_CADENCE_MULTIPLE > SILENCE_FLOOR_S
    THEN Cadence * SILENCE_CADENCE_MULTIPLE ELSE SILENCE_FLOOR_S

ASSUME AlertsAssumption ==
    /\ Level \subseteq Nat
    /\ Bands \subseteq [min : Nat \cup {None}, max : Nat \cup {None}, margin : Nat]
    /\ \A b \in Bands : Usable(b)
    /\ Cadence \in Nat \ {0}
    /\ SILENCE_CADENCE_MULTIPLE \in Nat \ {0}
    /\ SILENCE_FLOOR_S \in Nat \ {0}
    /\ RefreshEvery \in Nat \ {0}
    /\ Commit \subseteq {"ok", "failed", "unacknowledged", "unpublished"}
    /\ MaxFaults \in Nat
    /\ Nobody \notin Probe

\* evaluate(): each bound has its own breach and its own way back, min first.
LowChange(v, b, isOpen) ==
    CASE b.min # None /\ ~isOpen /\ v < b.min -> <<[bound |-> "min", state |-> "breach"]>>
      [] b.min # None /\ isOpen /\ v >= b.min + b.margin -> <<[bound |-> "min", state |-> "clear"]>>
      [] OTHER -> <<>>

HighChange(v, b, isOpen) ==
    CASE b.max # None /\ ~isOpen /\ v > b.max -> <<[bound |-> "max", state |-> "breach"]>>
      [] b.max # None /\ isOpen /\ v <= b.max - b.margin -> <<[bound |-> "max", state |-> "clear"]>>
      [] OTHER -> <<>>

evaluate(v, b, openBounds) ==
    LowChange(v, b, "min" \in openBounds) \o HighChange(v, b, "max" \in openBounds)

\* open_bounds() and open_silences(): what the record says is open.
open_bounds(p) == {b \in Bound : <<p, b>> \in episodes}
open_silences == {p \in Probe : <<p, "silence">> \in episodes}

Idle == [step |-> "idle", probe |-> Nobody, value |-> None, todo |-> <<>>]
AtRest == [left |-> {}, chosen |-> Nobody]

Change == [bound : Bound, state : {"breach", "clear"}]
Task == [step : {"idle", "unsilence", "refresh", "resync", "evaluate", "apply"},
         probe : Probe \cup {Nobody}, value : Level \cup {None}, todo : Seq(Change)]

\* Every variable has its type; the callback applies changes only when it has some, and the
\* sweep works on probes (alerts.py, on_reading and sweep).
AlertsTypeOK ==
    /\ tank \in [Probe -> Level]
    /\ health \in [Probe -> Health]
    /\ band \in [Probe -> Bands]
    /\ watched \subseteq Probe
    /\ episodes \subseteq Probe \X Kind
    /\ up \in BOOLEAN
    /\ open \in [Probe -> SUBSET Bound]
    /\ silent \subseteq Probe
    /\ lastSeen \in [Probe -> {Never} \cup 0..silence_deadline_s]
    /\ cache \in [Probe -> Bands]
    /\ cacheAge \in 0..RefreshEvery
    /\ task \in Task
    /\ task.step # "idle" => task.probe \in Probe
    /\ task.step = "apply" <=> task.todo # <<>>
    /\ sweep \in [left : SUBSET Probe, chosen : Probe \cup {Nobody}]
    /\ faults \in 0..MaxFaults

-----------------------------------------------------------------------------
Answered(commit) == commit \in {"ok", "unpublished"}

\* A transaction that does not end well is one of the bounded number of faults: it
\* failed, it took effect and the connection was lost before the answer came, or it is
\* done and the publish that follows raises.
Ends(commit) ==
    /\ commit # "ok" => faults < MaxFaults
    /\ faults' = IF commit = "ok" THEN faults ELSE faults + 1

\* Mutant of Started: the open silences are not read back.
StartedForgetful ==
    /\ up' = TRUE
    /\ open' = [p \in Probe |-> open_bounds(p)]
    /\ silent' = {}
    /\ lastSeen' = [p \in Probe |-> IF p \in watched THEN 0 ELSE Never]
    /\ cache' = band
    /\ cacheAge' = 0
    /\ task' = Idle
    /\ sweep' = AtRest

\* prime() of both classes and the forced refresh of _start_alerting.
Started ==
    /\ up' = TRUE
    /\ open' = [p \in Probe |-> open_bounds(p)]
    /\ silent' = open_silences
    /\ lastSeen' = [p \in Probe |-> IF p \in watched THEN 0 ELSE Never]
    /\ cache' = band
    /\ cacheAge' = 0
    /\ task' = Idle
    /\ sweep' = AtRest

Init ==
    /\ tank \in [Probe -> Level]
    /\ health = [p \in Probe |-> "good"]
    /\ band \in [Probe -> Bands]
    /\ watched = Probe
    /\ episodes = {}
    /\ up = TRUE
    /\ open = [p \in Probe |-> {}]
    /\ silent = {}
    /\ lastSeen = [p \in Probe |-> 0]
    /\ cache = band
    /\ cacheAge = 0
    /\ task = Idle
    /\ sweep = AtRest
    /\ faults = 0

Start ==
    /\ ~up
    /\ Started
    /\ UNCHANGED <<worldVars, dbVars, faults>>

\* The process ends anywhere; what it remembered is gone.
Crash ==
    /\ up
    /\ faults < MaxFaults
    /\ faults' = faults + 1
    /\ up' = FALSE
    /\ open' = [p \in Probe |-> {}]
    /\ silent' = {}
    /\ lastSeen' = [p \in Probe |-> Never]
    /\ task' = Idle
    /\ sweep' = AtRest
    /\ UNCHANGED <<worldVars, dbVars, cache, cacheAge>>

-----------------------------------------------------------------------------
(* The sensor callback: _on_reading, one message at a time.                *)

\* SilenceWatcher.on_reading up to its first await.  A faulted reading is not
\* evidence: it neither ends a silence nor counts as being heard.
Receive(p) ==
    /\ up /\ health[p] = "good" /\ task = Idle
    /\ lastSeen' = [lastSeen EXCEPT ![p] = 0]
    /\ task' = [step |-> IF p \in silent THEN "unsilence" ELSE "refresh",
                probe |-> p, value |-> tank[p], todo |-> <<>>]
    /\ UNCHANGED <<worldVars, dbVars, up, supervisorVars, silent, sweep, faults>>

\* Mutant of ReceiveFault: any message counts as being heard.
ReceiveFaultHeard(p) ==
    /\ up /\ health[p] = "faulty" /\ task = Idle
    /\ lastSeen' = [lastSeen EXCEPT ![p] = 0]
    /\ task' = [step |-> "refresh", probe |-> p, value |-> None, todo |-> <<>>]
    /\ UNCHANGED <<worldVars, dbVars, up, supervisorVars, silent, sweep, faults>>

ReceiveFault(p) ==
    /\ up /\ health[p] = "faulty" /\ task = Idle
    /\ task' = [step |-> "refresh", probe |-> p, value |-> None, todo |-> <<>>]
    /\ UNCHANGED <<worldVars, dbVars, up, supervisorVars, watcherVars, sweep, faults>>

\* Mutant of Unsilence: the memory goes first and is not put back when the row stays.
UnsilenceEarly(commit) ==
    /\ up /\ task.step = "unsilence"
    /\ Ends(commit)
    /\ episodes' = IF commit = "failed" THEN episodes ELSE episodes \ {<<task.probe, "silence">>}
    /\ silent' = silent \ {task.probe}
    /\ task' = IF commit = "ok" THEN [task EXCEPT !.step = "refresh"] ELSE Idle
    /\ UNCHANGED <<worldVars, band, watched, up, supervisorVars, lastSeen, sweep>>

\* clear_silence: the row is stamped, then _silent follows, then cadences() is read
\* and the clear published; a failure of those two ends the callback.  A row that is
\* not there to stamp is an AlertStoreError.
Unsilence(commit) ==
    /\ up /\ task.step = "unsilence"
    /\ Ends(commit)
    /\ LET p == task.probe
           found == <<p, "silence">> \in episodes
       IN  /\ episodes' = IF commit = "failed" THEN episodes ELSE episodes \ {<<p, "silence">>}
           /\ IF Answered(commit) /\ found
              THEN /\ silent' = silent \ {p}
                   /\ task' = IF commit = "ok" THEN [task EXCEPT !.step = "refresh"] ELSE Idle
              ELSE /\ task' = Idle
                   /\ UNCHANGED silent
    /\ UNCHANGED <<worldVars, band, watched, up, supervisorVars, lastSeen, sweep>>

\* _refresh_thresholds: when the copy is old enough it is stamped, and only then read.
RefreshThresholds(commit) ==
    /\ up /\ task.step = "refresh"
    /\ Ends(commit)
    /\ IF cacheAge < RefreshEvery
       THEN /\ task' = [task EXCEPT !.step = "evaluate"]
            /\ UNCHANGED <<cache, cacheAge>>
       ELSE /\ cacheAge' = 0
            /\ IF commit = "ok"
               THEN cache' = band /\ task' = [task EXCEPT !.step = "resync"]
               ELSE task' = Idle /\ UNCHANGED cache
    /\ UNCHANGED <<worldVars, dbVars, up, open, watcherVars, sweep>>

\* Mutant of Resync: the mirror is left as it is.
ResyncSkipped(commit) ==
    /\ up /\ task.step = "resync"
    /\ Ends(commit)
    /\ task' = IF commit = "ok" THEN [task EXCEPT !.step = "evaluate"] ELSE Idle
    /\ UNCHANGED <<worldVars, dbVars, up, open, cache, cacheAge, watcherVars, sweep>>

\* resync(): nothing but this callback changes _open, so what it reconciles is the record.
Resync(commit) ==
    /\ up /\ task.step = "resync"
    /\ Ends(commit)
    /\ IF commit = "ok"
       THEN /\ open' = [p \in Probe |-> open_bounds(p)]
            /\ task' = [task EXCEPT !.step = "evaluate"]
       ELSE task' = Idle /\ UNCHANGED open
    /\ UNCHANGED <<worldVars, dbVars, up, cache, cacheAge, watcherVars, sweep>>

\* Mutant of Evaluate: no return when nothing changes.
EvaluateAlways ==
    /\ up /\ task.step = "evaluate"
    /\ task' = [task EXCEPT !.step = "apply",
                !.todo = IF task.value = None THEN <<>>
                         ELSE evaluate(task.value, cache[task.probe], open[task.probe])]
    /\ UNCHANGED <<worldVars, dbVars, up, supervisorVars, watcherVars, sweep, faults>>

\* The rest of _on_reading up to the first episode: nothing without a band, for a
\* probe that the sweep has just recorded silent, or for a faulted reading.
Evaluate ==
    /\ up /\ task.step = "evaluate"
    /\ LET p == task.probe
           todo == IF /\ Configured(cache[p])
                      /\ p \notin silent
                      /\ task.value # None
                   THEN evaluate(task.value, cache[p], open[p]) ELSE <<>>
       IN  task' = IF todo = <<>> THEN Idle ELSE [task EXCEPT !.step = "apply", !.todo = todo]
    /\ UNCHANGED <<worldVars, dbVars, up, supervisorVars, watcherVars, sweep, faults>>

\* After a change is recorded it is published; a publish that raises ends the callback.
AfterChange(commit) ==
    IF commit = "ok" /\ Len(task.todo) > 1 THEN [task EXCEPT !.todo = Tail(@)] ELSE Idle

\* raise_episode: the partial unique index refuses a second open row.
RaiseEpisode(commit) ==
    /\ up /\ task.step = "apply" /\ Head(task.todo).state = "breach"
    /\ Ends(commit)
    /\ LET p == task.probe
           b == Head(task.todo).bound
           fresh == <<p, b>> \notin episodes
       IN  /\ episodes' = IF commit = "failed" THEN episodes ELSE episodes \cup {<<p, b>>}
           /\ IF Answered(commit) /\ fresh
              THEN open' = [open EXCEPT ![p] = @ \cup {b}] /\ task' = AfterChange(commit)
              ELSE task' = Idle /\ UNCHANGED open
    /\ UNCHANGED <<worldVars, band, watched, up, cache, cacheAge, watcherVars, sweep>>

\* clear_episode: no open row to stamp is an AlertStoreError.
ClearEpisode(commit) ==
    /\ up /\ task.step = "apply" /\ Head(task.todo).state = "clear"
    /\ Ends(commit)
    /\ LET p == task.probe
           b == Head(task.todo).bound
           found == <<p, b>> \in episodes
       IN  /\ episodes' = IF commit = "failed" THEN episodes ELSE episodes \ {<<p, b>>}
           /\ IF Answered(commit) /\ found
              THEN open' = [open EXCEPT ![p] = @ \ {b}] /\ task' = AfterChange(commit)
              ELSE task' = Idle /\ UNCHANGED open
    /\ UNCHANGED <<worldVars, band, watched, up, cache, cacheAge, watcherVars, sweep>>

Callback(commit) ==
    \/ Unsilence(commit) \/ RefreshThresholds(commit) \/ Resync(commit) \/ Evaluate
    \/ RaiseEpisode(commit) \/ ClearEpisode(commit)

-----------------------------------------------------------------------------
(* The sweep: SilenceWatcher.sweep, on the tick.                           *)

\* cadences() is read; when that fails nothing is swept this time.
StartSweep ==
    /\ up /\ sweep = AtRest
    /\ sweep' = [left |-> watched, chosen |-> Nobody]
    /\ UNCHANGED <<worldVars, dbVars, up, supervisorVars, watcherVars, task, faults>>

\* One probe is judged: already silent, never heard and not yet due are passed over.
Judge(p) ==
    /\ up /\ p \in sweep.left /\ sweep.chosen = Nobody
    /\ sweep' = [left |-> sweep.left \ {p},
                 chosen |-> IF p \notin silent /\ lastSeen[p] = silence_deadline_s
                            THEN p ELSE Nobody]
    /\ UNCHANGED <<worldVars, dbVars, up, supervisorVars, watcherVars, task, faults>>

\* raise_silence, then _silent, then the publish; whatever raises ends the sweep
\* for the probes that are left, too.
RaiseSilence(commit) ==
    /\ up /\ sweep.chosen \in Probe
    /\ Ends(commit)
    /\ LET p == sweep.chosen
           fresh == <<p, "silence">> \notin episodes
       IN  /\ episodes' = IF commit = "failed" THEN episodes ELSE episodes \cup {<<p, "silence">>}
           /\ IF Answered(commit) /\ fresh
              THEN /\ silent' = silent \cup {p}
                   /\ sweep' = IF commit = "ok" THEN [sweep EXCEPT !.chosen = Nobody] ELSE AtRest
              ELSE sweep' = AtRest /\ UNCHANGED silent
    /\ UNCHANGED <<worldVars, band, watched, up, supervisorVars, lastSeen, task>>

-----------------------------------------------------------------------------
(* The API and the world.                                                  *)

\* put_thresholds and Store.set_thresholds: the band and, in the same transaction,
\* the end of every episode whose bound it removes.
SetThresholds(p, b) ==
    /\ band' = [band EXCEPT ![p] = b]
    /\ episodes' = episodes \ {<<p, k>> : k \in {k \in Bound : b[k] = None}}
    /\ UNCHANGED <<worldVars, watched, up, supervisorVars, watcherVars, task, sweep, faults>>

\* unadopt and readopt, as far as cadences() sees them.
Unadopt(p) ==
    /\ p \in watched
    /\ watched' = watched \ {p}
    /\ health' = [health EXCEPT ![p] = "dead"]
    /\ UNCHANGED <<tank, band, episodes, up, supervisorVars, watcherVars, task, sweep, faults>>

Readopt(p) ==
    /\ p \notin watched
    /\ watched' = watched \cup {p}
    /\ UNCHANGED <<worldVars, band, episodes, up, supervisorVars, watcherVars, task, sweep, faults>>

Drift(p) ==
    /\ \E v \in Level \ {tank[p]} : tank' = [tank EXCEPT ![p] = v]
    /\ UNCHANGED <<health, dbVars, up, supervisorVars, watcherVars, task, sweep, faults>>

Turn(p) ==
    /\ p \in watched
    /\ \E h \in Health \ {health[p]} : health' = [health EXCEPT ![p] = h]
    /\ UNCHANGED <<tank, dbVars, up, supervisorVars, watcherVars, task, sweep, faults>>

Older(age, limit) == IF age = Never \/ age = limit THEN age ELSE age + 1

\* A callback is over within a tick, and a probe that works is heard before its
\* deadline: the deadline is six of its cadences.
Tick ==
    /\ up /\ task = Idle
    /\ \A p \in Probe : health[p] = "good" => lastSeen[p] < silence_deadline_s - 1
    /\ lastSeen' = [p \in Probe |-> Older(lastSeen[p], silence_deadline_s)]
    /\ cacheAge' = Older(cacheAge, RefreshEvery)
    /\ UNCHANGED <<worldVars, dbVars, up, open, cache, silent, task, sweep, faults>>

World == \E p \in Probe : Drift(p) \/ Turn(p) \/ Unadopt(p) \/ Readopt(p)

Next ==
    \/ Start \/ Crash \/ Tick \/ World
    \/ \E p \in Probe : Receive(p) \/ ReceiveFault(p) \/ Judge(p)
    \/ \E c \in Commit : Callback(c) \/ RaiseSilence(c)
    \/ StartSweep
    \/ \E p \in Probe, b \in Bands : SetThresholds(p, b)

Spec == Init /\ [][Next]_vars

(* The container is restarted, both tasks run and time passes; a probe that works *)
(* again and again is heard again and again, whatever else is heard in between.   *)
Fairness ==
    /\ WF_vars(Start)
    /\ SF_vars(Tick)
    /\ \A p \in Probe : SF_vars(Receive(p)) /\ WF_vars(Judge(p))
    /\ WF_vars(Callback("ok"))
    /\ WF_vars(StartSweep)
    /\ WF_vars(RaiseSilence("ok"))

FairSpec == Spec /\ Fairness

-----------------------------------------------------------------------------
(* Properties.                                                             *)

\* What the engine believes is open covers what the record says is open: a breach or
\* a silence the engine has forgotten would be raised into the partial unique index and
\* lost (open_bounds, open_silences), and a silence it still believes in without a row
\* would be cleared for ever in vain, because _silent is never read again.
RecordMirrored ==
    up => /\ \A p \in Probe : open_bounds(p) \subseteq open[p]
          /\ silent = open_silences

Outside(p, b) ==
    /\ band[p][b] # None
    /\ IF b = "min" THEN tank[p] < band[p].min ELSE tank[p] > band[p].max

WellInside(p, b) ==
    /\ band[p][b] # None
    /\ IF b = "min" THEN tank[p] >= band[p].min + band[p].margin
                    ELSE tank[p] <= band[p].max - band[p].margin

\* A probe that reports a breach for good gets its episode, and one that is back by the
\* margin for good has none, whatever was edited, lost or restarted before.
RecordFollowsTank ==
    \A p \in Probe, b \in Bound :
        /\ <>[](health[p] = "good" /\ Outside(p, b)) => <>[](<<p, b>> \in episodes)
        /\ <>[](health[p] = "good" /\ WellInside(p, b)) => <>[](<<p, b>> \notin episodes)

\* A probe that has stopped for good is recorded silent: also one that was already dead
\* when the engine started, and whatever the other probes' sweeps ran into.  (One that
\* was adopted under a running engine and never spoke is left alone on purpose.)
DeadProbeNoticed ==
    \A p \in Probe :
        <>[](up /\ p \in watched /\ health[p] # "good" /\ lastSeen[p] # Never)
            => <>[](<<p, "silence">> \in episodes)

\* A probe that reports again ends its silence: no open silence outlives a probe that is
\* heard from.
SilenceEnds ==
    \A p \in Probe : <>[](health[p] = "good") => []<>(<<p, "silence">> \notin episodes)
=============================================================================
