---------------------------- MODULE AlertsProofs ----------------------------
(***************************************************************************)
(* For any number of probes, any bands, cadences and refresh, and any      *)
(* number of faults: the engine's mirrors of the open episodes cover the   *)
(* record, as long as no commit takes effect without its answer arriving.  *)
(***************************************************************************)
EXTENDS Alerts, TLAPS

\* The deadline of a silence is a number of ticks.
LEMMA DeadlineIsTime == silence_deadline_s \in Nat \ {0}
<1>1. Cadence * SILENCE_CADENCE_MULTIPLE \in Nat
  BY AlertsAssumption
<1>2. QED
  BY <1>1, AlertsAssumption DEF silence_deadline_s

\* evaluate: at most one change per bound, and nothing else.
LEMMA EvaluateChanges ==
    ASSUME NEW v, NEW b, NEW openBounds
    PROVE  evaluate(v, b, openBounds) \in Seq(Change)
<1>1. ASSUME NEW c \in Change PROVE <<c>> \in Seq(Change)
  OBVIOUS
<1>2. /\ [bound |-> "min", state |-> "breach"] \in Change /\ [bound |-> "min", state |-> "clear"] \in Change
      /\ [bound |-> "max", state |-> "breach"] \in Change /\ [bound |-> "max", state |-> "clear"] \in Change
  BY DEF Change, Bound
<1>3. <<>> \in Seq(Change)
  OBVIOUS
<1>4. LowChange(v, b, "min" \in openBounds) \in Seq(Change)
  BY <1>1, <1>2, <1>3 DEF LowChange
<1>5. HighChange(v, b, "max" \in openBounds) \in Seq(Change)
  BY <1>1, <1>2, <1>3 DEF HighChange
<1>6. QED
  BY <1>4, <1>5 DEF evaluate

\* What is left to apply after a change is shorter, and not empty when it is gone on with.
LEMMA TailChanges ==
    ASSUME NEW todo \in Seq(Change), Len(todo) > 1
    PROVE  Tail(todo) \in Seq(Change) /\ Tail(todo) # <<>>
<1>1. todo # <<>>
  OBVIOUS
<1>2. Tail(todo) \in Seq(Change) /\ Len(Tail(todo)) = Len(todo) - 1
  BY <1>1
<1>3. Len(Tail(todo)) # 0
  BY <1>2
<1>4. ASSUME Tail(todo) = <<>> PROVE FALSE
  <2>1. Len(<<>>) = 0
    OBVIOUS
  <2>2. QED
    BY <1>3, <1>4, <2>1
<1>5. QED
  BY <1>2, <1>4

\* A task at rest, and one that goes on.
LEMMA TaskGoesOn ==
    /\ Idle \in Task /\ Idle.step = "idle" /\ Idle.todo = <<>>
    /\ \A k \in Task, step \in {"refresh", "resync", "evaluate"} :
         /\ [k EXCEPT !.step = step] \in Task
         /\ [k EXCEPT !.step = step].step = step
         /\ [k EXCEPT !.step = step].probe = k.probe
         /\ [k EXCEPT !.step = step].todo = k.todo
<1>1. Idle \in Task
  <2>1. <<>> \in Seq(Change)
    OBVIOUS
  <2>2. QED
    BY <2>1 DEF Idle, Task
<1>2. Idle.step = "idle" /\ Idle.todo = <<>>
  BY DEF Idle
<1>3. QED
  BY <1>1, <1>2 DEF Task

\* The parts of the type that are about the callback.
TaskOK ==
    /\ task \in Task
    /\ task.step # "idle" => task.probe \in Probe
    /\ task.step = "apply" <=> task.todo # <<>>

\* A transaction leaves the number of faults within its bound.
LEMMA EndsCounts == ASSUME faults \in 0..MaxFaults, NEW c \in Commit, Ends(c) PROVE faults' \in 0..MaxFaults
  BY AlertsAssumption DEF Ends

\* The callback ends, or goes on to another step.
LEMMA CallbackTask ==
    ASSUME AlertsTypeOK, task.step # "apply", task.step # "idle",
           task' = Idle \/ \E step \in {"refresh", "resync", "evaluate"} : task' = [task EXCEPT !.step = step]
    PROVE  TaskOK'
<1>1. task \in Task /\ task.probe \in Probe /\ task.todo = <<>>
  BY DEF AlertsTypeOK
<1>2. CASE task' = Idle
  BY <1>2, TaskGoesOn DEF TaskOK
<1>3. ASSUME NEW step \in {"refresh", "resync", "evaluate"}, task' = [task EXCEPT !.step = step]
      PROVE  TaskOK'
  <2>1. /\ task' \in Task /\ task'.step = step
        /\ task'.probe = task.probe /\ task'.todo = task.todo
    BY <1>1, <1>3, TaskGoesOn
  <2>2. QED
    BY <1>1, <2>1 DEF TaskOK
<1>4. QED
  BY <1>2, <1>3

\* So does one that applies changes.
LEMMA ApplyTask ==
    ASSUME AlertsTypeOK, task.step = "apply", NEW c, task' = AfterChange(c) \/ task' = Idle
    PROVE  TaskOK'
<1>1. CASE task' = Idle
  BY <1>1, TaskGoesOn DEF TaskOK
<1>2. CASE Len(task.todo) > 1 /\ task' = [task EXCEPT !.todo = Tail(@)]
  <2>1. task \in Task /\ task.todo \in Seq(Change) /\ task.probe \in Probe
    BY DEF AlertsTypeOK, Task
  <2>2. Tail(task.todo) \in Seq(Change) /\ Tail(task.todo) # <<>>
    BY <1>2, <2>1, TailChanges
  <2>3. QED
    BY <1>2, <2>1, <2>2 DEF TaskOK, Task
<1>3. QED
  BY <1>1, <1>2 DEF AfterChange

\* An age that has grown is still within its limit, or still absent.
LEMMA Ages ==
    ASSUME NEW limit \in Nat, NEW age \in {Never} \cup 0..limit
    PROVE  Older(age, limit) \in {Never} \cup 0..limit
  BY DEF Older, Never

\* Start and prime(): every memory is rebuilt from a record that has its type.
LEMMA StartTypes == ASSUME AlertsTypeOK, Start PROVE AlertsTypeOK'
<1>1. silence_deadline_s \in Nat
  BY DeadlineIsTime
<1>2. open' \in [Probe -> SUBSET Bound] /\ silent' \subseteq Probe
  BY DEF Start, Started, open_bounds, open_silences
<1>3. lastSeen' \in [Probe -> {Never} \cup 0..silence_deadline_s]
  BY <1>1 DEF Start, Started
<1>4. TaskOK'
  BY TaskGoesOn DEF TaskOK, Start, Started
<1>5. sweep' \in [left : SUBSET Probe, chosen : Probe \cup {Nobody}]
  BY DEF Start, Started, AtRest
<1>6. cache' \in [Probe -> Bands] /\ cacheAge' \in 0..RefreshEvery /\ up' \in BOOLEAN
  BY AlertsAssumption DEF AlertsTypeOK, Start, Started
<1>7. QED
  BY <1>2, <1>3, <1>4, <1>5, <1>6 DEF AlertsTypeOK, TaskOK, Start, worldVars, dbVars

\* A crash forgets everything the process knew.
LEMMA CrashTypes == ASSUME AlertsTypeOK, Crash PROVE AlertsTypeOK'
<1>1. open' \in [Probe -> SUBSET Bound] /\ silent' \subseteq Probe
  BY DEF Crash
<1>2. lastSeen' \in [Probe -> {Never} \cup 0..silence_deadline_s]
  BY DEF Crash
<1>3. TaskOK'
  BY TaskGoesOn DEF TaskOK, Crash
<1>4. sweep' \in [left : SUBSET Probe, chosen : Probe \cup {Nobody}]
  BY DEF Crash, AtRest
<1>5. faults' \in 0..MaxFaults
  BY AlertsAssumption DEF AlertsTypeOK, Crash
<1>6. up' \in BOOLEAN
  BY DEF Crash
<1>7. QED
  BY <1>1, <1>2, <1>3, <1>4, <1>5, <1>6 DEF AlertsTypeOK, TaskOK, Crash, worldVars, dbVars

\* Time: the ages stay within the deadline and the refresh.
LEMMA TickTypes == ASSUME AlertsTypeOK, Tick PROVE AlertsTypeOK'
<1>1. silence_deadline_s \in Nat /\ RefreshEvery \in Nat
  BY DeadlineIsTime, AlertsAssumption
<1>2. lastSeen' \in [Probe -> {Never} \cup 0..silence_deadline_s]
  <2>1. ASSUME NEW p \in Probe
        PROVE  Older(lastSeen[p], silence_deadline_s) \in {Never} \cup 0..silence_deadline_s
    <3>1. lastSeen[p] \in {Never} \cup 0..silence_deadline_s
      BY DEF AlertsTypeOK
    <3>2. QED
      BY <1>1, <3>1, Ages
  <2>2. QED
    BY <2>1 DEF Tick
<1>3. cacheAge' \in 0..RefreshEvery
  <2>1. Older(cacheAge, RefreshEvery) \in {Never} \cup 0..RefreshEvery
    BY <1>1, Ages DEF AlertsTypeOK
  <2>2. Older(cacheAge, RefreshEvery) # Never
    BY <1>1 DEF AlertsTypeOK, Older, Never
  <2>3. QED
    BY <2>1, <2>2 DEF Tick
<1>4. QED
  BY <1>2, <1>3 DEF AlertsTypeOK, Tick, worldVars, dbVars

\* The tank, the probes and the operator's edits.
LEMMA WorldTypes == ASSUME AlertsTypeOK, World PROVE AlertsTypeOK'
<1>1. PICK p \in Probe : Drift(p) \/ Turn(p) \/ Unadopt(p) \/ Readopt(p)
  BY DEF World
<1>2. CASE Drift(p)
  BY <1>2 DEF Drift, AlertsTypeOK, dbVars, supervisorVars, watcherVars
<1>3. CASE Turn(p)
  BY <1>3 DEF Turn, AlertsTypeOK, dbVars, supervisorVars, watcherVars
<1>4. CASE Unadopt(p)
  BY <1>4 DEF Unadopt, AlertsTypeOK, supervisorVars, watcherVars, Health
<1>5. CASE Readopt(p)
  BY <1>5 DEF Readopt, AlertsTypeOK, worldVars, supervisorVars, watcherVars
<1>6. QED
  BY <1>1, <1>2, <1>3, <1>4, <1>5

\* An edit of a band ends episodes and starts none.
LEMMA SetThresholdsTypes ==
    ASSUME AlertsTypeOK, NEW p \in Probe, NEW b \in Bands, SetThresholds(p, b) PROVE AlertsTypeOK'
  BY DEF SetThresholds, AlertsTypeOK, worldVars, supervisorVars, watcherVars

\* A message is taken up.
LEMMA ReceiveTypes ==
    ASSUME AlertsTypeOK, NEW p \in Probe, Receive(p) \/ ReceiveFault(p) PROVE AlertsTypeOK'
<1>1. <<>> \in Seq(Change)
  OBVIOUS
<1>2. CASE Receive(p)
  <2>1. TaskOK'
    <3>1. tank[p] \in Level
      BY DEF AlertsTypeOK
    <3>2. QED
      BY <1>1, <1>2, <3>1 DEF Receive, TaskOK, Task
  <2>2. lastSeen' \in [Probe -> {Never} \cup 0..silence_deadline_s]
    BY <1>2, DeadlineIsTime DEF Receive, AlertsTypeOK
  <2>3. QED
    BY <1>2, <2>1, <2>2 DEF Receive, AlertsTypeOK, TaskOK, worldVars, dbVars, supervisorVars
<1>3. CASE ReceiveFault(p)
  <2>1. TaskOK'
    BY <1>1, <1>3 DEF ReceiveFault, TaskOK, Task
  <2>2. QED
    BY <1>3, <2>1 DEF ReceiveFault, AlertsTypeOK, TaskOK, worldVars, dbVars, supervisorVars, watcherVars
<1>4. QED
  BY <1>2, <1>3

\* The end of a silence.
LEMMA UnsilenceTypes == ASSUME AlertsTypeOK, NEW c \in Commit, Unsilence(c) PROVE AlertsTypeOK'
<1>1. task' = Idle \/ task' = [task EXCEPT !.step = "refresh"]
  BY DEF Unsilence
<1>2. TaskOK'
  BY <1>1, CallbackTask DEF Unsilence
<1>3. episodes' \subseteq Probe \X Kind /\ silent' \subseteq Probe
  BY DEF Unsilence, AlertsTypeOK
<1>4. faults' \in 0..MaxFaults
  BY EndsCounts DEF Unsilence, AlertsTypeOK
<1>5. QED
  BY <1>2, <1>3, <1>4 DEF Unsilence, AlertsTypeOK, TaskOK, worldVars, supervisorVars

\* A read of the bands.
LEMMA RefreshTypes == ASSUME AlertsTypeOK, NEW c \in Commit, RefreshThresholds(c) PROVE AlertsTypeOK'
<1>1. task' = Idle \/ task' = [task EXCEPT !.step = "evaluate"] \/ task' = [task EXCEPT !.step = "resync"]
  BY DEF RefreshThresholds
<1>2. TaskOK'
  BY <1>1, CallbackTask DEF RefreshThresholds
<1>3. cache' \in [Probe -> Bands] /\ cacheAge' \in 0..RefreshEvery
  BY AlertsAssumption DEF RefreshThresholds, AlertsTypeOK
<1>4. faults' \in 0..MaxFaults
  BY EndsCounts DEF RefreshThresholds, AlertsTypeOK
<1>5. QED
  BY <1>2, <1>3, <1>4 DEF RefreshThresholds, AlertsTypeOK, TaskOK, worldVars, dbVars, watcherVars

\* A read of the open episodes.
LEMMA ResyncTypes == ASSUME AlertsTypeOK, NEW c \in Commit, Resync(c) PROVE AlertsTypeOK'
<1>1. task' = Idle \/ task' = [task EXCEPT !.step = "evaluate"]
  BY DEF Resync
<1>2. TaskOK'
  BY <1>1, CallbackTask DEF Resync
<1>3. open' \in [Probe -> SUBSET Bound]
  <2>1. [p \in Probe |-> open_bounds(p)] \in [Probe -> SUBSET Bound]
    BY DEF open_bounds
  <2>2. QED
    BY <2>1 DEF Resync, AlertsTypeOK
<1>4. faults' \in 0..MaxFaults
  BY EndsCounts DEF Resync, AlertsTypeOK
<1>5. QED
  BY <1>2, <1>3, <1>4 DEF Resync, AlertsTypeOK, TaskOK, worldVars, dbVars, watcherVars

\* A reading is judged: the callback goes on only when something is to be recorded.
LEMMA EvaluateTypes == ASSUME AlertsTypeOK, Evaluate PROVE AlertsTypeOK'
<1>1. PICK todo \in Seq(Change) :
        task' = IF todo = <<>> THEN Idle ELSE [task EXCEPT !.step = "apply", !.todo = todo]
  <2>1. <<>> \in Seq(Change)
    OBVIOUS
  <2>2. evaluate(task.value, cache[task.probe], open[task.probe]) \in Seq(Change)
    BY EvaluateChanges
  <2>3. QED
    BY <2>1, <2>2 DEF Evaluate
<1>2. TaskOK'
  <2>1. CASE todo = <<>>
    BY <1>1, <2>1, TaskGoesOn DEF TaskOK
  <2>2. CASE todo # <<>>
    <3>1. task \in Task /\ task.probe \in Probe
      BY DEF AlertsTypeOK, Evaluate
    <3>2. QED
      BY <1>1, <2>2, <3>1 DEF TaskOK, Task
  <2>3. QED
    BY <2>1, <2>2
<1>3. QED
  BY <1>2 DEF Evaluate, AlertsTypeOK, TaskOK, worldVars, dbVars, supervisorVars, watcherVars

\* The change at hand names a bound.
LEMMA ChangeAtHand == ASSUME AlertsTypeOK, task.step = "apply" PROVE Head(task.todo) \in Change
<1>1. task.todo \in Seq(Change) /\ task.todo # <<>>
  BY DEF AlertsTypeOK, Task
<1>2. QED
  BY <1>1

\* A breach is recorded.
LEMMA RaiseTypes == ASSUME AlertsTypeOK, NEW c \in Commit, RaiseEpisode(c) PROVE AlertsTypeOK'
<1>1. task.probe \in Probe /\ Head(task.todo).bound \in Bound
  BY ChangeAtHand DEF RaiseEpisode, AlertsTypeOK, Change
<1>2. TaskOK'
  BY ApplyTask DEF RaiseEpisode
<1>3. episodes' \subseteq Probe \X Kind
  BY <1>1 DEF RaiseEpisode, AlertsTypeOK, Kind
<1>4. open' \in [Probe -> SUBSET Bound]
  BY <1>1 DEF RaiseEpisode, AlertsTypeOK
<1>5. faults' \in 0..MaxFaults
  BY EndsCounts DEF RaiseEpisode, AlertsTypeOK
<1>6. QED
  BY <1>2, <1>3, <1>4, <1>5 DEF RaiseEpisode, AlertsTypeOK, TaskOK, worldVars, watcherVars

\* The end of a breach is recorded.
LEMMA ClearTypes == ASSUME AlertsTypeOK, NEW c \in Commit, ClearEpisode(c) PROVE AlertsTypeOK'
<1>1. task.probe \in Probe /\ Head(task.todo).bound \in Bound
  BY ChangeAtHand DEF ClearEpisode, AlertsTypeOK, Change
<1>2. TaskOK'
  BY ApplyTask DEF ClearEpisode
<1>3. episodes' \subseteq Probe \X Kind
  BY DEF ClearEpisode, AlertsTypeOK
<1>4. open' \in [Probe -> SUBSET Bound]
  BY <1>1 DEF ClearEpisode, AlertsTypeOK
<1>5. faults' \in 0..MaxFaults
  BY EndsCounts DEF ClearEpisode, AlertsTypeOK
<1>6. QED
  BY <1>2, <1>3, <1>4, <1>5 DEF ClearEpisode, AlertsTypeOK, TaskOK, worldVars, watcherVars

\* The sweep begins, or judges a probe.
LEMMA SweepTypes ==
    ASSUME AlertsTypeOK, StartSweep \/ \E p \in Probe : Judge(p) PROVE AlertsTypeOK'
<1>1. CASE StartSweep
  BY <1>1 DEF StartSweep, AlertsTypeOK, worldVars, dbVars, supervisorVars, watcherVars
<1>2. ASSUME NEW p \in Probe, Judge(p) PROVE AlertsTypeOK'
  BY <1>2 DEF Judge, AlertsTypeOK, worldVars, dbVars, supervisorVars, watcherVars
<1>3. QED
  BY <1>1, <1>2

\* A silence is recorded.
LEMMA RaiseSilenceTypes == ASSUME AlertsTypeOK, NEW c \in Commit, RaiseSilence(c) PROVE AlertsTypeOK'
<1>1. episodes' \subseteq Probe \X Kind /\ silent' \subseteq Probe
  BY DEF RaiseSilence, AlertsTypeOK, Kind
<1>2. sweep' \in [left : SUBSET Probe, chosen : Probe \cup {Nobody}]
  BY DEF RaiseSilence, AlertsTypeOK, AtRest
<1>3. faults' \in 0..MaxFaults
  BY EndsCounts DEF RaiseSilence, AlertsTypeOK
<1>4. QED
  BY <1>1, <1>2, <1>3 DEF RaiseSilence, AlertsTypeOK, worldVars, supervisorVars

\* Every variable has its type; the callback applies changes only when it has some, and the
\* sweep works on probes (alerts.py, on_reading and sweep).
THEOREM AlertsTypes == Spec => []AlertsTypeOK
<1>1. Init => AlertsTypeOK
  <2>1. SUFFICES ASSUME Init PROVE AlertsTypeOK
    OBVIOUS
  <2>2. silence_deadline_s \in Nat /\ RefreshEvery \in Nat /\ MaxFaults \in Nat
    BY <2>1, DeadlineIsTime, AlertsAssumption
  <2>3. TaskOK
    BY <2>1, TaskGoesOn DEF Init, TaskOK
  <2>4. health \in [Probe -> Health]
    BY <2>1 DEF Init, Health
  <2>5. lastSeen \in [Probe -> {Never} \cup 0..silence_deadline_s]
    BY <2>1, <2>2 DEF Init
  <2>6. sweep \in [left : SUBSET Probe, chosen : Probe \cup {Nobody}]
    BY <2>1 DEF Init, AtRest
  <2>7. up \in BOOLEAN
    BY <2>1 DEF Init
  <2>8. cacheAge \in 0..RefreshEvery /\ faults \in 0..MaxFaults
    BY <2>1, <2>2 DEF Init
  <2>9. QED
    BY <2>1, <2>3, <2>4, <2>5, <2>6, <2>7, <2>8 DEF Init, AlertsTypeOK, TaskOK
<1>2. AlertsTypeOK /\ [Next]_vars => AlertsTypeOK'
  <2>1. SUFFICES ASSUME AlertsTypeOK, [Next]_vars PROVE AlertsTypeOK'
    OBVIOUS
  <2>2. CASE UNCHANGED vars
    BY <2>1, <2>2 DEF AlertsTypeOK, vars, worldVars, dbVars, supervisorVars, watcherVars
  <2>3. CASE Start \/ Crash \/ Tick \/ World \/ StartSweep
    BY <2>1, <2>3, StartTypes, CrashTypes, TickTypes, WorldTypes, SweepTypes
  <2>4. ASSUME NEW p \in Probe, Receive(p) \/ ReceiveFault(p) \/ Judge(p) PROVE AlertsTypeOK'
    BY <2>1, <2>4, ReceiveTypes, SweepTypes
  <2>5. ASSUME NEW c \in Commit, Callback(c) \/ RaiseSilence(c) PROVE AlertsTypeOK'
    BY <2>1, <2>5, UnsilenceTypes, RefreshTypes, ResyncTypes, EvaluateTypes, RaiseTypes, ClearTypes, RaiseSilenceTypes
       DEF Callback
  <2>6. ASSUME NEW p \in Probe, NEW b \in Bands, SetThresholds(p, b) PROVE AlertsTypeOK'
    BY <2>1, <2>6, SetThresholdsTypes
  <2>7. QED
    BY <2>1, <2>2, <2>3, <2>4, <2>5, <2>6 DEF Next
<1>3. QED
  BY <1>1, <1>2, PTL DEF Spec

-----------------------------------------------------------------------------
(* The mirrors of the record.                                              *)

\* What the mirrors say of one probe and one bound, and of one probe.
BoundMirrored == \A p \in Probe, b \in Bound : <<p, b>> \in episodes => b \in open[p]
SilenceMirrored == \A p \in Probe : p \in silent <=> <<p, "silence">> \in episodes

\* They are what RecordMirrored says of a running engine.
LEMMA Mirrored ==
    ASSUME AlertsTypeOK, up, RecordMirrored
    PROVE  BoundMirrored /\ SilenceMirrored
  BY DEF RecordMirrored, open_bounds, open_silences, BoundMirrored, SilenceMirrored, AlertsTypeOK

\* The converse, after a step.
LEMMA MirroredAfter ==
    ASSUME AlertsTypeOK', BoundMirrored', SilenceMirrored'
    PROVE  RecordMirrored'
<1>1. silent' = open_silences'
  BY DEF open_silences, SilenceMirrored, AlertsTypeOK
<1>2. \A p \in Probe : open_bounds(p)' \subseteq open[p]'
  BY DEF open_bounds, BoundMirrored
<1>3. QED
  BY <1>1, <1>2 DEF RecordMirrored

\* The record and the mirrors are untouched.
LEMMA UntouchedMirrored ==
    ASSUME RecordMirrored, up' = up, UNCHANGED <<episodes, open, silent>> PROVE RecordMirrored'
  BY DEF RecordMirrored, open_bounds, open_silences

\* A start reads the record back.
LEMMA StartMirrored == ASSUME Start PROVE RecordMirrored'
<1>1. episodes' = episodes
  BY DEF Start, dbVars
<1>2. \A p \in Probe : open_bounds(p)' = open_bounds(p) /\ open'[p] = open_bounds(p)
  BY <1>1 DEF Start, Started, open_bounds
<1>3. silent' = open_silences /\ open_silences' = open_silences
  BY <1>1 DEF Start, Started, open_silences
<1>4. QED
  BY <1>2, <1>3 DEF RecordMirrored

\* A band edit only closes episodes, and none of them is a silence.
LEMMA SetThresholdsMirrored ==
    ASSUME AlertsTypeOK, AlertsTypeOK', RecordMirrored, NEW p \in Probe, NEW b \in Bands, SetThresholds(p, b)
    PROVE  RecordMirrored'
<1>1. SUFFICES ASSUME up PROVE BoundMirrored' /\ SilenceMirrored'
  BY MirroredAfter DEF SetThresholds, RecordMirrored
<1>2. BoundMirrored /\ SilenceMirrored
  BY <1>1, Mirrored
<1>3. BoundMirrored'
  BY <1>2 DEF BoundMirrored, SetThresholds, supervisorVars
<1>4. SilenceMirrored'
  <2>1. \A q \in Probe : <<q, "silence">> \in episodes' <=> <<q, "silence">> \in episodes
    BY DEF SetThresholds, Bound
  <2>2. silent' = silent
    BY DEF SetThresholds, watcherVars
  <2>3. QED
    BY <1>2, <2>1, <2>2 DEF SilenceMirrored
<1>5. QED
  BY <1>3, <1>4

\* The end of a silence: the row and the memory go together, or neither goes.
LEMMA UnsilenceMirrored ==
    ASSUME AlertsTypeOK, AlertsTypeOK', RecordMirrored,
           NEW c \in Commit, c # "unacknowledged", Unsilence(c)
    PROVE  RecordMirrored'
<1>1. up /\ up'
  BY DEF Unsilence
<1>2. BoundMirrored /\ SilenceMirrored
  BY <1>1, Mirrored
<1>3. task.probe \in Probe
  BY DEF Unsilence, AlertsTypeOK
<1>4. BoundMirrored'
  BY <1>2 DEF BoundMirrored, Unsilence, supervisorVars, Bound
<1>5. SilenceMirrored'
  <2>1. c = "failed" \/ Answered(c)
    BY AlertsAssumption DEF Answered
  <2>2. CASE c = "failed"
    BY <1>2, <2>2 DEF Unsilence, Answered, SilenceMirrored
  <2>3. CASE Answered(c) /\ <<task.probe, "silence">> \in episodes
    <3>1. /\ silent' = silent \ {task.probe}
          /\ episodes' = episodes \ {<<task.probe, "silence">>}
      BY <2>3 DEF Unsilence, Answered
    <3>2. QED
      BY <1>2, <3>1 DEF SilenceMirrored
  <2>4. CASE Answered(c) /\ <<task.probe, "silence">> \notin episodes
    BY <1>2, <2>4 DEF Unsilence, Answered, SilenceMirrored
  <2>5. QED
    BY <2>1, <2>2, <2>3, <2>4
<1>6. QED
  BY <1>4, <1>5, MirroredAfter

\* A resync reads the open episodes back.
LEMMA ResyncMirrored ==
    ASSUME AlertsTypeOK, AlertsTypeOK', RecordMirrored, NEW c \in Commit, Resync(c) PROVE RecordMirrored'
<1>1. up' = up /\ episodes' = episodes /\ silent' = silent
  BY DEF Resync, dbVars, watcherVars
<1>2. open_silences' = open_silences /\ \A p \in Probe : open_bounds(p)' = open_bounds(p)
  BY <1>1 DEF open_silences, open_bounds
<1>3. CASE open' = open
  BY <1>1, <1>3, UntouchedMirrored
<1>4. CASE open' = [p \in Probe |-> open_bounds(p)]
  BY <1>1, <1>2, <1>4 DEF RecordMirrored
<1>5. QED
  BY <1>3, <1>4 DEF Resync

\* A breach that is recorded is in the mirror too, and one refused already was.
LEMMA RaiseMirrored ==
    ASSUME AlertsTypeOK, AlertsTypeOK', RecordMirrored,
           NEW c \in Commit, c # "unacknowledged", RaiseEpisode(c)
    PROVE  RecordMirrored'
<1>1. up /\ up' /\ silent' = silent
  BY DEF RaiseEpisode, watcherVars
<1>2. BoundMirrored /\ SilenceMirrored
  BY <1>1, Mirrored
<1>3. PICK p \in Probe, b \in Bound : p = task.probe /\ b = Head(task.todo).bound
  BY ChangeAtHand DEF RaiseEpisode, AlertsTypeOK, Change
<1>4. SilenceMirrored'
  <2>1. \A q \in Probe : <<q, "silence">> \in episodes' <=> <<q, "silence">> \in episodes
    BY <1>3 DEF RaiseEpisode, Bound
  <2>2. QED
    BY <1>1, <1>2, <2>1 DEF SilenceMirrored
<1>5. BoundMirrored'
  <2>1. c = "failed" \/ Answered(c)
    BY AlertsAssumption DEF Answered
  <2>2. CASE episodes' = episodes /\ open' = open
    BY <1>2, <2>2 DEF BoundMirrored
  <2>3. CASE episodes' = episodes \cup {<<p, b>>} /\ open' = [open EXCEPT ![p] = @ \cup {b}]
    BY <1>2, <2>3 DEF BoundMirrored, AlertsTypeOK
  <2>4. QED
    BY <1>3, <2>1, <2>2, <2>3 DEF RaiseEpisode, Answered
<1>6. QED
  BY <1>4, <1>5, MirroredAfter

\* The end of a breach: the row goes first, so what is still in the record is still mirrored.
LEMMA ClearMirrored ==
    ASSUME AlertsTypeOK, AlertsTypeOK', RecordMirrored,
           NEW c \in Commit, ClearEpisode(c)
    PROVE  RecordMirrored'
<1>1. up /\ up' /\ silent' = silent
  BY DEF ClearEpisode, watcherVars
<1>2. BoundMirrored /\ SilenceMirrored
  BY <1>1, Mirrored
<1>3. PICK p \in Probe, b \in Bound : p = task.probe /\ b = Head(task.todo).bound
  BY ChangeAtHand DEF ClearEpisode, AlertsTypeOK, Change
<1>4. SilenceMirrored'
  <2>1. \A q \in Probe : <<q, "silence">> \in episodes' <=> <<q, "silence">> \in episodes
    BY <1>3 DEF ClearEpisode, Bound
  <2>2. QED
    BY <1>1, <1>2, <2>1 DEF SilenceMirrored
<1>5. BoundMirrored'
  <2>1. episodes' \subseteq episodes
    BY DEF ClearEpisode
  <2>2. CASE open' = open
    BY <1>2, <2>1, <2>2 DEF BoundMirrored
  <2>3. CASE open' = [open EXCEPT ![p] = @ \ {b}] /\ episodes' = episodes \ {<<p, b>>}
    BY <1>2, <2>3 DEF BoundMirrored, AlertsTypeOK
  <2>4. QED
    BY <1>3, <2>2, <2>3 DEF ClearEpisode, Answered
<1>6. QED
  BY <1>4, <1>5, MirroredAfter

\* A silence is remembered when its row is committed, and only then.
LEMMA RaiseSilenceMirrored ==
    ASSUME AlertsTypeOK, AlertsTypeOK', RecordMirrored,
           NEW c \in Commit, c # "unacknowledged", RaiseSilence(c)
    PROVE  RecordMirrored'
<1>1. up /\ up'
  BY DEF RaiseSilence
<1>2. BoundMirrored /\ SilenceMirrored
  BY <1>1, Mirrored
<1>3. PICK p \in Probe : p = sweep.chosen
  BY DEF RaiseSilence
<1>4. BoundMirrored'
  BY <1>2 DEF BoundMirrored, RaiseSilence, supervisorVars, Bound
<1>5. SilenceMirrored'
  <2>1. c = "failed" \/ Answered(c)
    BY AlertsAssumption DEF Answered
  <2>2. CASE episodes' = episodes /\ silent' = silent
    BY <1>2, <2>2 DEF SilenceMirrored
  <2>3. CASE episodes' = episodes \cup {<<p, "silence">>} /\ silent' = silent \cup {p}
    BY <1>2, <2>3 DEF SilenceMirrored
  <2>4. QED
    BY <1>3, <2>1, <2>2, <2>3 DEF RaiseSilence, Answered
<1>6. QED
  BY <1>4, <1>5, MirroredAfter

\* As long as every commit that takes effect is answered (a publish that raises after it is
\* no exception, nor is a crash anywhere), what the engine believes is open covers the
\* record, and the silences it believes in are the record's: for any number of probes, bands,
\* operator edits under its feet and failed transactions.
THEOREM MirrorsCoverRecord ==
    ASSUME "unacknowledged" \notin Commit
    PROVE  Spec => []RecordMirrored
<1>1. Init => RecordMirrored
  BY DEF Init, RecordMirrored, open_bounds, open_silences
<1>2. AlertsTypeOK /\ AlertsTypeOK' /\ RecordMirrored /\ [Next]_vars => RecordMirrored'
  <2>1. SUFFICES ASSUME AlertsTypeOK, AlertsTypeOK', RecordMirrored, [Next]_vars PROVE RecordMirrored'
    OBVIOUS
  <2>2. CASE UNCHANGED vars
    BY <2>1, <2>2, UntouchedMirrored DEF vars, dbVars, supervisorVars, watcherVars
  <2>3. CASE Start
    BY <2>1, <2>3, StartMirrored
  <2>4. CASE Crash
    BY <2>1, <2>4 DEF Crash, RecordMirrored
  <2>5. CASE Tick \/ StartSweep
    BY <2>1, <2>5, UntouchedMirrored DEF Tick, StartSweep, dbVars, supervisorVars, watcherVars
  <2>6. CASE World
    BY <2>1, <2>6, UntouchedMirrored
       DEF World, Drift, Turn, Unadopt, Readopt, dbVars, supervisorVars, watcherVars
  <2>7. ASSUME NEW p \in Probe, Receive(p) \/ ReceiveFault(p) \/ Judge(p) PROVE RecordMirrored'
    BY <2>1, <2>7, UntouchedMirrored DEF Receive, ReceiveFault, Judge, dbVars, supervisorVars, watcherVars
  <2>8. ASSUME NEW c \in Commit, Callback(c) \/ RaiseSilence(c) PROVE RecordMirrored'
    <3>1. c # "unacknowledged"
      OBVIOUS
    <3>2. CASE RefreshThresholds(c) \/ Evaluate
      BY <2>1, <3>2, UntouchedMirrored DEF RefreshThresholds, Evaluate, dbVars, supervisorVars, watcherVars
    <3>3. CASE Unsilence(c) \/ Resync(c) \/ RaiseEpisode(c) \/ ClearEpisode(c) \/ RaiseSilence(c)
      BY <2>1, <3>1, <3>3, UnsilenceMirrored, ResyncMirrored, RaiseMirrored, ClearMirrored, RaiseSilenceMirrored
    <3>4. QED
      BY <2>1, <2>8, <3>2, <3>3 DEF Callback
  <2>9. ASSUME NEW p \in Probe, NEW b \in Bands, SetThresholds(p, b) PROVE RecordMirrored'
    BY <2>1, <2>9, SetThresholdsMirrored
  <2>10. QED
    BY <2>1, <2>2, <2>3, <2>4, <2>5, <2>6, <2>7, <2>8, <2>9 DEF Next
<1>3. QED
  BY <1>1, <1>2, AlertsTypes, PTL DEF Spec
=============================================================================
