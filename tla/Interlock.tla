----------------------------- MODULE Interlock -----------------------------
(***************************************************************************)
(* hardware-io's InterlockSupervisor (safety.py) and the life of the       *)
(* process around it (app.py: run, _build_from_registry, shutdown).        *)
(*                                                                         *)
(* One guard per actuator, each with a heartbeat-watcher task and, while   *)
(* the output is energised, a runtime-deadline task.  The command consumer *)
(* is a third task: drain_once awaits one command after another, so at     *)
(* most one command is being applied at a time.  An action is what one     *)
(* task does between two suspension points; all tasks interleave.          *)
(*                                                                         *)
(* Time is counted in ticks.  The event loop runs what is due before the   *)
(* next tick (a stalled loop is the LivenessGuard's business: Crash); a    *)
(* driver's write may take any number of ticks.                            *)
(***************************************************************************)
EXTENDS DriverIO

CONSTANTS
    Drill,             \* actuators registered before start(); none in production
    HeartbeatTimeout,  \* registration.heartbeat_timeout_s, in ticks
    MaxRuntime         \* registration.max_runtime_s, in ticks

ASSUME InterlockAssumption ==
    /\ Drill \subseteq Actuator
    /\ HeartbeatTimeout \in Nat \ {0}
    /\ MaxRuntime \in Nat \ {0}

VARIABLES
    proc,          \* the process: down, starting, building, up, stopping
    toOpen,        \* assignments read from the registry and not opened yet
    skipped,       \* assignments whose open() raised
    chips,         \* boards whose initialise() has run in this process
    clockTrusted,  \* _clock_trusted
    guards,        \* the keys of _guards
    latched,       \* guard.latched
    atSafe,        \* guard.at_safe_state
    beat,          \* guard.beat, the asyncio.Event
    hbLeft,        \* ticks until last_beat + heartbeat_timeout_s
    watch,         \* guard.watch_task: where the heartbeat watcher is
    run,           \* guard.runtime_task: where the runtime-deadline task is
    capLeft,       \* ticks until that task's sleep ends
    outcome,       \* what supervisor.apply is doing, or what it last answered
    stopLeft,      \* guards that stop() has not reached yet
    stopNow,       \* the guard it is at, if any
    failures,      \* the failures list of start() or stop()
    admitted,      \* history: a command was admitted since the last trip began
    onFor          \* history: ticks the output has been energised without a break

procVars == <<proc, toOpen, skipped, chips, clockTrusted, stopLeft, stopNow,
              failures>>
watchVars == <<beat, hbLeft, watch>>
runVars == <<run, capLeft>>
vars == <<driverVars, procVars, guards, latched, atSafe, watchVars, runVars,
          outcome, admitted, onFor>>

Outcome == {"applied", "rejected_expired", "rejected_latched",
            "rejected_clock", "rejected_unknown"}

Running == proc \in {"starting", "building", "up"}   \* supervisor._running

-----------------------------------------------------------------------------
(* Bookkeeping shared by the tasks.                                        *)

\* task.cancel() on the runtime task, and guard.runtime_task = None.  A write
\* it was waiting to make is withdrawn; one already on a thread is orphaned.
CancelRun(a, resuming) ==
    /\ run' = [run EXCEPT ![a] = "none"]
    /\ capLeft' = [capLeft EXCEPT ![a] = 0]
    /\ Leave({resuming, RunJob(a)})
    /\ orphan' = IF resuming # RunJob(a) /\ OnThread(RunJob(a))
                 THEN orphan \cup {a} ELSE orphan

\* _mark_safe, run by the task whose drive_safe() just returned.
MarkSafe(a, resuming) ==
    /\ atSafe' = [atSafe EXCEPT ![a] = TRUE]
    /\ CancelRun(a, resuming)

\* Mutant of ArmCap: every energising command starts a fresh cap.
ArmCapAlways(a) ==
    /\ run' = [run EXCEPT ![a] = "sleeping"]
    /\ capLeft' = [capLeft EXCEPT ![a] = MaxRuntime]

\* A new runtime task, unless one is already under way.
ArmCap(a) ==
    IF run[a] = "none"
    THEN /\ run' = [run EXCEPT ![a] = "sleeping"]
         /\ capLeft' = [capLeft EXCEPT ![a] = MaxRuntime]
    ELSE UNCHANGED runVars

\* _note_level: leaving the safe state arms the cap; re-commanding does not
\* extend it; returning to the safe state disarms it.
NoteLevel(a, level) ==
    IF level = Safe
    THEN MarkSafe(a, CmdJob(a))
    ELSE /\ atSafe' = [atSafe EXCEPT ![a] = FALSE]
         /\ ArmCap(a)
         /\ Leave({CmdJob(a)})
         /\ UNCHANGED orphan

\* What a process has in memory when it starts: no guards, nothing running.
FreshMemory ==
    /\ chips' = {}
    /\ latched' = [a \in Actuator |-> FALSE]
    /\ atSafe' = [a \in Actuator |-> TRUE]
    /\ beat' = [a \in Actuator |-> FALSE]
    /\ hbLeft' = [a \in Actuator |-> 0]
    /\ watch' = [a \in Actuator |-> "none"]
    /\ run' = [a \in Actuator |-> "none"]
    /\ capLeft' = [a \in Actuator |-> 0]
    /\ outcome' = "idle"
    /\ admitted' = [a \in Actuator |-> FALSE]
    /\ onFor' = [a \in Actuator |-> 0]
    /\ stopLeft' = {}
    /\ stopNow' = {}
    /\ failures' = {}
    /\ skipped' = {}

Die ==
    /\ proc' = "down"
    /\ guards' = {}
    /\ toOpen' = {}
    /\ FreshMemory
    /\ NoWrites
    /\ UNCHANGED <<hw, clockTrusted>>

-----------------------------------------------------------------------------
(* The process: start, build from the registry, serve, stop, die.          *)

\* The container starts the process; the drill actuators are registered and
\* supervisor.start() begins.  register_drill_actuator brings its relay up
\* energised; here it comes up at any level.  The assignments the process will
\* read are the registry's.
Boot(assigned) ==
    /\ proc = "down"
    /\ proc' = "starting"
    /\ guards' = Drill
    /\ toOpen' = assigned
    /\ \E level \in Level :
          hw' = [a \in Actuator |-> IF a \in Drill THEN level ELSE hw[a]]
    /\ FreshMemory
    /\ UNCHANGED <<io, duty, ahead, orphan, clockTrusted>>

\* start(): each guard registered so far is driven safe, one after another.
StartDrive(a) ==
    /\ proc = "starting"
    /\ a \in guards /\ watch[a] = "none"
    /\ \A b \in guards : io[MainJob(b)] = "idle"
    /\ hbLeft' = [hbLeft EXCEPT ![a] = HeartbeatTimeout]
    /\ Submit(MainJob(a), Safe)
    /\ UNCHANGED <<hw, orphan, procVars, guards, latched, atSafe, beat, watch,
                   runVars, outcome, admitted, onFor>>

\* It returned, or raised: an actuator not proven safe is latched.  The watcher
\* is created either way.
StartReturn(a) ==
    /\ proc = "starting"
    /\ io[MainJob(a)] \in {"landed", "failed"}
    /\ IF io[MainJob(a)] = "landed"
       THEN /\ atSafe' = [atSafe EXCEPT ![a] = TRUE]
            /\ UNCHANGED <<latched, failures>>
       ELSE /\ latched' = [latched EXCEPT ![a] = TRUE]
            /\ failures' = failures \cup {a}
            /\ UNCHANGED atSafe
    /\ watch' = [watch EXCEPT ![a] = "waiting"]
    /\ Leave({MainJob(a)})
    /\ UNCHANGED <<hw, orphan, proc, toOpen, skipped, chips, clockTrusted, stopLeft, stopNow,
                   guards, beat, hbLeft, runVars, outcome, admitted, onFor>>

\* Mutant of StartDone: the failures list is collected and never raised.
StartDoneRegardless ==
    /\ proc = "starting"
    /\ \A a \in guards : watch[a] # "none" /\ io[MainJob(a)] = "idle"
    /\ proc' = "building"
    /\ UNCHANGED <<driverVars, toOpen, skipped, chips, clockTrusted, stopLeft, stopNow,
                   failures, guards, latched, atSafe, watchVars, runVars, outcome, admitted,
                   onFor>>

\* start() is through: with a failure it raises and the process dies, otherwise
\* the spine is connected and the registry read.
StartDone ==
    /\ proc = "starting"
    /\ \A a \in guards : watch[a] # "none" /\ io[MainJob(a)] = "idle"
    /\ \/ /\ failures # {}
          /\ Die
       \/ /\ failures = {}
          /\ proc' = "building"
          /\ UNCHANGED <<driverVars, toOpen, skipped, chips, clockTrusted, stopLeft, stopNow,
                         failures, guards, latched, atSafe, watchVars, runVars,
                         outcome, admitted, onFor>>

\* _build_from_registry: open() succeeds and the actuator is registered with a
\* running supervisor.  A PCA9685 is initialised once per process, which turns
\* every channel of the board off; an RP1 channel is brought up dark itself.
OpenOk(a) ==
    /\ proc = "building" /\ a \in toOpen
    /\ toOpen' = toOpen \ {a}
    /\ IF a \in Pca
       THEN /\ chips' = chips \cup {Board[a]}
            /\ hw' = IF Board[a] \in chips THEN hw
                     ELSE [b \in Actuator |->
                            IF b \in Pca /\ Board[b] = Board[a] THEN Safe ELSE hw[b]]
       ELSE /\ hw' = [hw EXCEPT ![a] = Safe]
            /\ UNCHANGED chips
    /\ guards' = guards \cup {a}
    /\ latched' = [latched EXCEPT ![a] = FALSE]
    /\ atSafe' = [atSafe EXCEPT ![a] = TRUE]
    /\ beat' = [beat EXCEPT ![a] = FALSE]
    /\ hbLeft' = [hbLeft EXCEPT ![a] = HeartbeatTimeout]
    /\ watch' = [watch EXCEPT ![a] = "waiting"]
    /\ UNCHANGED <<io, duty, ahead, orphan, proc, skipped, clockTrusted, stopLeft, stopNow,
                   failures, runVars, outcome, admitted, onFor>>

\* open() raises part-way: the actuator is skipped, not fatal.
OpenFail(a) ==
    /\ proc = "building" /\ a \in toOpen
    /\ a \in Pca => Board[a] \notin chips
    /\ toOpen' = toOpen \ {a}
    /\ skipped' = skipped \cup {a}
    /\ \/ UNCHANGED hw
       \/ hw' = [b \in Actuator |->
                   IF b = a \/ SameLock(<<a, "main">>, <<b, "main">>)
                   THEN Safe ELSE hw[b]]
    /\ UNCHANGED <<io, duty, ahead, orphan, proc, chips, clockTrusted, stopLeft, stopNow, failures,
                   guards, latched, atSafe, watchVars, runVars, outcome, admitted, onFor>>

\* The command consumer and the heartbeat subscription are in place.
Serve ==
    /\ proc = "building" /\ toOpen = {}
    /\ proc' = "up"
    /\ UNCHANGED <<driverVars, toOpen, skipped, chips, clockTrusted, stopLeft, stopNow, failures,
                   guards, latched, atSafe, watchVars, runVars, outcome, admitted, onFor>>

\* Mutant of Stop: the loop is left with a command still being applied.
StopMidCommand ==
    /\ proc = "up"
    /\ proc' = "stopping"
    /\ stopLeft' = guards
    /\ UNCHANGED <<driverVars, toOpen, skipped, chips, clockTrusted, stopNow, failures, guards,
                   latched, atSafe, watchVars, runVars, outcome, admitted, onFor>>

\* request_stop, a lost consumer or SIGTERM ends _loop between two commands, and
\* shutdown() calls supervisor.stop().
Stop ==
    /\ proc = "up" /\ outcome # "writing"
    /\ proc' = "stopping"
    /\ stopLeft' = guards
    /\ UNCHANGED <<driverVars, toOpen, skipped, chips, clockTrusted, stopNow, failures, guards,
                   latched, atSafe, watchVars, runVars, outcome, admitted, onFor>>

\* stop() takes the next guard and cancels its tasks.  A task asleep or waiting
\* for the lock ends at once; one whose write is on a thread unwinds when that
\* write is done.
StopCancel(a) ==
    LET shielded(x) == OnThread(x) \/ io[x] \in {"landed", "failed"}
    IN /\ proc = "stopping" /\ stopNow = {} /\ a \in stopLeft
       /\ stopLeft' = stopLeft \ {a}
       /\ stopNow' = {a}
       /\ watch' = [watch EXCEPT ![a] =
                      IF shielded(WatchJob(a)) THEN "cancelled" ELSE "none"]
       /\ run' = [run EXCEPT ![a] = IF shielded(RunJob(a)) THEN "cancelled" ELSE "none"]
       /\ capLeft' = [capLeft EXCEPT ![a] = 0]
       /\ Leave({x \in {WatchJob(a), RunJob(a)} : ~shielded(x)})
       /\ UNCHANGED <<hw, orphan, proc, toOpen, skipped, chips, clockTrusted, failures,
                      guards, latched, atSafe, beat, hbLeft, outcome, admitted, onFor>>

\* A cancelled task whose write has finished raises CancelledError, whatever the
\* write did.
Unwind(a, x) ==
    /\ x \in {WatchJob(a), RunJob(a)}
    /\ io[x] \in {"landed", "failed"}
    /\ \/ /\ x = WatchJob(a) /\ watch[a] = "cancelled"
          /\ watch' = [watch EXCEPT ![a] = "none"]
          /\ UNCHANGED run
       \/ /\ x = RunJob(a) /\ run[a] = "cancelled"
          /\ run' = [run EXCEPT ![a] = "none"]
          /\ UNCHANGED watch
    /\ Leave({x})
    /\ UNCHANGED <<hw, orphan, procVars, guards, latched, atSafe, beat, hbLeft, capLeft,
                   outcome, admitted, onFor>>

\* Both tasks are gone: _drive_safe(guard, "shutdown", ...).
StopDrive(a) ==
    /\ a \in stopNow /\ io[MainJob(a)] = "idle"
    /\ watch[a] = "none" /\ run[a] = "none"
    /\ Submit(MainJob(a), Safe)
    /\ UNCHANGED <<hw, orphan, procVars, guards, latched, atSafe, watchVars, runVars,
                   outcome, admitted, onFor>>

\* It returned, or raised: a failure is collected and the next guard still gets
\* its turn.
StopReturn(a) ==
    /\ a \in stopNow
    /\ \/ /\ io[MainJob(a)] = "landed"
          /\ atSafe' = [atSafe EXCEPT ![a] = TRUE]
          /\ UNCHANGED failures
       \/ /\ io[MainJob(a)] = "failed"
          /\ failures' = failures \cup {a}
          /\ UNCHANGED atSafe
    /\ stopNow' = {}
    /\ Leave({MainJob(a)})
    /\ UNCHANGED <<hw, orphan, proc, toOpen, skipped, chips, clockTrusted, stopLeft, guards,
                   latched, watchVars, runVars, outcome, admitted, onFor>>

\* shutdown() is through and asyncio.run has joined the worker threads.
Exit ==
    /\ proc = "stopping" /\ stopLeft = {} /\ stopNow = {} /\ orphan = {}
    /\ Die

\* The process ends anywhere: the LivenessGuard's os._exit, a kill, a start-up
\* exception.  The pins keep what they carry.
Crash ==
    /\ proc # "down"
    /\ Die

-----------------------------------------------------------------------------
(* The heartbeat watcher, _watch_heartbeat.                                *)

\* heartbeat(): one beat of the engine stamps every guard.  Beats are at least a
\* tick apart; a second one within the tick would find nothing to stamp.
Heartbeat ==
    /\ proc \in {"up", "stopping"}
    /\ \E a \in guards : hbLeft[a] < HeartbeatTimeout
    /\ beat' = [a \in Actuator |-> a \in guards]
    /\ hbLeft' = [a \in Actuator |-> IF a \in guards THEN HeartbeatTimeout ELSE 0]
    /\ UNCHANGED <<driverVars, procVars, guards, latched, atSafe, watch, runVars, outcome,
                   admitted, onFor>>

\* wait_for(beat.wait()) returns: clear the event, wait out the new deadline.
WatchBeat(a) ==
    /\ watch[a] = "waiting" /\ beat[a]
    /\ beat' = [beat EXCEPT ![a] = FALSE]
    /\ watch' = [watch EXCEPT ![a] = IF Running THEN "waiting" ELSE "none"]
    /\ UNCHANGED <<driverVars, procVars, guards, latched, atSafe, hbLeft, runVars, outcome,
                   admitted, onFor>>

\* The deadline passed without a beat: heartbeat_lost, and drive safe.
WatchTrip(a) ==
    /\ watch[a] = "waiting" /\ hbLeft[a] = 0 /\ Running
    /\ watch' = [watch EXCEPT ![a] = "driving"]
    /\ admitted' = [admitted EXCEPT ![a] = FALSE]
    /\ Submit(WatchJob(a), Safe)
    /\ UNCHANGED <<hw, orphan, procVars, guards, latched, atSafe, beat, hbLeft, runVars,
                   outcome, onFor>>

\* The deadline passed while stop() is under way: `while self._running` ends.
WatchEnd(a) ==
    /\ watch[a] = "waiting" /\ hbLeft[a] = 0 /\ ~Running
    /\ watch' = [watch EXCEPT ![a] = "none"]
    /\ UNCHANGED <<driverVars, procVars, guards, latched, atSafe, beat, hbLeft, runVars,
                   outcome, admitted, onFor>>

\* drive_safe() returned: _mark_safe, then sleep until a beat.
WatchDriven(a) ==
    /\ watch[a] = "driving" /\ io[WatchJob(a)] = "landed"
    /\ MarkSafe(a, WatchJob(a))
    /\ watch' = [watch EXCEPT ![a] = "lost"]
    /\ UNCHANGED <<hw, procVars, guards, latched, beat, hbLeft, outcome, admitted, onFor>>

\* Mutant of WatchFault: the first error ends the trip.
WatchFaultGivesUp(a) ==
    /\ watch[a] = "driving" /\ io[WatchJob(a)] = "failed"
    /\ watch' = [watch EXCEPT ![a] = "lost"]
    /\ Leave({WatchJob(a)})
    /\ UNCHANGED <<hw, orphan, procVars, guards, latched, atSafe, beat, hbLeft, runVars,
                   outcome, admitted, onFor>>

\* drive_safe() raised: back off and retry, unless the supervisor is stopping.
WatchFault(a) ==
    /\ watch[a] = "driving" /\ io[WatchJob(a)] = "failed"
    /\ watch' = [watch EXCEPT ![a] = IF Running THEN "retrying" ELSE "lost"]
    /\ Leave({WatchJob(a)})
    /\ UNCHANGED <<hw, orphan, procVars, guards, latched, atSafe, beat, hbLeft, runVars,
                   outcome, admitted, onFor>>

WatchRetry(a) ==
    /\ watch[a] = "retrying"
    /\ watch' = [watch EXCEPT ![a] = "driving"]
    /\ Submit(WatchJob(a), Safe)
    /\ UNCHANGED <<hw, orphan, procVars, guards, latched, atSafe, beat, hbLeft, runVars,
                   outcome, admitted, onFor>>

\* A beat ends the outage: the actuator stays safe until it is commanded again.
WatchRecover(a) ==
    /\ watch[a] = "lost" /\ beat[a]
    /\ beat' = [beat EXCEPT ![a] = FALSE]
    /\ watch' = [watch EXCEPT ![a] = IF Running THEN "waiting" ELSE "none"]
    /\ UNCHANGED <<driverVars, procVars, guards, latched, atSafe, hbLeft, runVars, outcome,
                   admitted, onFor>>

-----------------------------------------------------------------------------
(* Commands and the runtime cap.                                           *)

\* apply's refusals, in the order the code checks them.
Verdict(a, expired) ==
    CASE a \notin guards -> "rejected_unknown"
      [] a \in guards /\ ~clockTrusted -> "rejected_clock"
      [] a \in guards /\ clockTrusted /\ expired -> "rejected_expired"
      [] a \in guards /\ clockTrusted /\ ~expired /\ latched[a] -> "rejected_latched"
      [] OTHER -> "applied"

\* A command is delivered.  Between the latch check and the driver call there is
\* no suspension point; a lost heartbeat does not refuse it.
Apply(a, d, expired) ==
    /\ proc = "up" /\ outcome # "writing"
    /\ \/ /\ Verdict(a, expired) = "applied"
          /\ outcome' = "writing"
          /\ admitted' = [admitted EXCEPT ![a] = TRUE]
          /\ Submit(CmdJob(a), d)
       \/ /\ Verdict(a, expired) # "applied"
          /\ outcome' = Verdict(a, expired)
          /\ UNCHANGED <<io, duty, ahead, admitted>>
    /\ UNCHANGED <<hw, orphan, procVars, guards, latched, atSafe, watchVars, runVars, onFor>>

\* driver.apply returned: _note_level on what reached the pin.
ApplyReturn(a) ==
    /\ io[CmdJob(a)] = "landed"
    /\ NoteLevel(a, effective_level(duty[CmdJob(a)]))
    /\ outcome' = "applied"
    /\ UNCHANGED <<hw, procVars, guards, latched, watchVars, admitted, onFor>>

\* driver.apply raised: no clock is started; drain_once naks the message.
ApplyRaise(a) ==
    /\ io[CmdJob(a)] = "failed"
    /\ outcome' = "raised"
    /\ Leave({CmdJob(a)})
    /\ UNCHANGED <<hw, orphan, procVars, guards, latched, atSafe, watchVars, runVars,
                   admitted, onFor>>

\* _runtime_deadline wakes: latch first, then drive safe.
CapExpire(a) ==
    /\ run[a] = "sleeping" /\ capLeft[a] = 0
    /\ latched' = [latched EXCEPT ![a] = TRUE]
    /\ run' = [run EXCEPT ![a] = "driving"]
    /\ Submit(RunJob(a), Safe)
    /\ UNCHANGED <<hw, orphan, procVars, guards, atSafe, watchVars, capLeft, outcome,
                   admitted, onFor>>

\* Its drive_safe() returned: _mark_safe, which cancels this very task.
RunDriven(a) ==
    /\ run[a] = "driving" /\ io[RunJob(a)] = "landed"
    /\ MarkSafe(a, RunJob(a))
    /\ UNCHANGED <<hw, procVars, guards, latched, watchVars, outcome, admitted, onFor>>

\* Mutant of RunFault: the first error ends the deadline task.
RunFaultGivesUp(a) ==
    /\ run[a] = "driving" /\ io[RunJob(a)] = "failed"
    /\ run' = [run EXCEPT ![a] = "none"]
    /\ Leave({RunJob(a)})
    /\ UNCHANGED <<hw, orphan, procVars, guards, latched, atSafe, watchVars, capLeft,
                   outcome, admitted, onFor>>

RunFault(a) ==
    /\ run[a] = "driving" /\ io[RunJob(a)] = "failed"
    /\ run' = [run EXCEPT ![a] = IF Running THEN "retrying" ELSE "none"]
    /\ Leave({RunJob(a)})
    /\ UNCHANGED <<hw, orphan, procVars, guards, latched, atSafe, watchVars, capLeft,
                   outcome, admitted, onFor>>

RunRetry(a) ==
    /\ run[a] = "retrying"
    /\ run' = [run EXCEPT ![a] = "driving"]
    /\ Submit(RunJob(a), Safe)
    /\ UNCHANGED <<hw, orphan, procVars, guards, latched, atSafe, watchVars, capLeft,
                   outcome, admitted, onFor>>

\* clear_latch: the operator's explicit action.
ClearLatch(a) ==
    /\ proc = "up" /\ a \in guards /\ latched[a]
    /\ latched' = [latched EXCEPT ![a] = FALSE]
    /\ UNCHANGED <<driverVars, procVars, guards, atSafe, watchVars, runVars, outcome,
                   admitted, onFor>>

\* _refresh_clock_trust_async: chrony's verdict changed.
SetClockTrusted ==
    /\ proc = "up"
    /\ clockTrusted' = ~clockTrusted
    /\ UNCHANGED <<driverVars, proc, toOpen, skipped, chips, stopLeft, stopNow, failures,
                   guards, latched, atSafe, watchVars, runVars, outcome, admitted, onFor>>

-----------------------------------------------------------------------------
(* Time and the worker threads.                                            *)

\* Something on the loop is due: it runs before the next tick.
Due ==
    \/ \E x \in Job : io[x] \in {"landed", "failed"}
    \/ \E a \in Actuator :
          \/ watch[a] = "waiting" /\ (beat[a] \/ hbLeft[a] = 0)
          \/ watch[a] = "lost" /\ beat[a]
          \/ run[a] = "sleeping" /\ capLeft[a] = 0

\* Mutant of Down: a timer that runs past zero.
DownUnclamped(n) == n - 1

Down(n) == IF n > 0 THEN n - 1 ELSE 0

\* The history onFor stops counting one tick past the cap.
Tick ==
    /\ proc # "down" /\ ~Due
    /\ hbLeft' = [a \in Actuator |-> Down(hbLeft[a])]
    /\ capLeft' = [a \in Actuator |-> Down(capLeft[a])]
    /\ onFor' = [a \in Actuator |->
                   IF hw[a] = Safe \/ a \notin guards THEN 0
                   ELSE IF onFor[a] > MaxRuntime THEN onFor[a] ELSE onFor[a] + 1]
    /\ UNCHANGED <<driverVars, procVars, guards, latched, atSafe, beat, watch, run, outcome,
                   admitted>>

\* A write reaches the pin; the run of energised time ends when it is dark.
LandWrite(x) ==
    /\ Land(x)
    /\ onFor' = [onFor EXCEPT ![x[1]] = IF hw'[x[1]] = Safe THEN 0 ELSE @]
    /\ UNCHANGED <<procVars, guards, latched, atSafe, watchVars, runVars, outcome, admitted>>

FailWrite(x) ==
    /\ Fault(x)
    /\ UNCHANGED <<procVars, guards, latched, atSafe, watchVars, runVars, outcome, admitted,
                   onFor>>

LandOrphanWrite(a) ==
    /\ LandOrphan(a)
    /\ onFor' = [onFor EXCEPT ![a] = IF hw'[a] = Safe THEN 0 ELSE @]
    /\ UNCHANGED <<procVars, guards, latched, atSafe, watchVars, runVars, outcome, admitted>>

-----------------------------------------------------------------------------
\* A power-on reset leaves a PWM output dark.
Init ==
    /\ DriverInit
    /\ hw = [a \in Actuator |-> Safe]
    /\ proc = "down" /\ toOpen = {} /\ skipped = {} /\ chips = {}
    /\ stopLeft = {} /\ stopNow = {} /\ failures = {}
    /\ clockTrusted \in BOOLEAN
    /\ guards = {}
    /\ latched = [a \in Actuator |-> FALSE]
    /\ atSafe = [a \in Actuator |-> TRUE]
    /\ beat = [a \in Actuator |-> FALSE]
    /\ hbLeft = [a \in Actuator |-> 0]
    /\ watch = [a \in Actuator |-> "none"]
    /\ run = [a \in Actuator |-> "none"]
    /\ capLeft = [a \in Actuator |-> 0]
    /\ outcome = "idle"
    /\ admitted = [a \in Actuator |-> FALSE]
    /\ onFor = [a \in Actuator |-> 0]

Process ==
    \/ \E S \in SUBSET (Actuator \ Drill) : Boot(S)
    \/ StartDone \/ Serve \/ Stop \/ Exit \/ Crash
    \/ \E a \in Actuator :
          \/ StartDrive(a) \/ StartReturn(a) \/ OpenOk(a) \/ OpenFail(a)
          \/ StopCancel(a) \/ StopDrive(a) \/ StopReturn(a)
          \/ Unwind(a, WatchJob(a)) \/ Unwind(a, RunJob(a))

Watcher(a) ==
    \/ WatchBeat(a) \/ WatchTrip(a) \/ WatchEnd(a) \/ WatchDriven(a) \/ WatchFault(a)
    \/ WatchRetry(a) \/ WatchRecover(a)

Deadline(a) == CapExpire(a) \/ RunDriven(a) \/ RunFault(a) \/ RunRetry(a)

Consumer ==
    \E a \in Actuator :
       \/ \E d \in Duties, e \in BOOLEAN : Apply(a, d, e)
       \/ ApplyReturn(a) \/ ApplyRaise(a)

Next ==
    \/ Process
    \/ Heartbeat \/ SetClockTrusted \/ Tick
    \/ Consumer
    \/ \E a \in Actuator : Watcher(a) \/ Deadline(a) \/ ClearLatch(a) \/ LandOrphanWrite(a)
    \/ \E x \in Job : LandWrite(x) \/ FailWrite(x)

Spec == Init /\ [][Next]_vars

-----------------------------------------------------------------------------
(* What the interlocks promise.                                            *)

\* Every variable has its type.
TypeOK ==
    /\ DriverTypeOK
    /\ proc \in {"down", "starting", "building", "up", "stopping"}
    /\ toOpen \subseteq Actuator
    /\ skipped \subseteq Actuator
    /\ chips \subseteq {Board[a] : a \in Pca}
    /\ clockTrusted \in BOOLEAN
    /\ stopLeft \subseteq Actuator /\ stopNow \subseteq Actuator
    /\ failures \subseteq Actuator
    /\ guards \subseteq Actuator
    /\ latched \in [Actuator -> BOOLEAN]
    /\ atSafe \in [Actuator -> BOOLEAN]
    /\ beat \in [Actuator -> BOOLEAN]
    /\ hbLeft \in [Actuator -> 0..HeartbeatTimeout]
    /\ watch \in [Actuator -> {"none", "waiting", "driving", "retrying", "lost",
                               "cancelled"}]
    /\ run \in [Actuator -> {"none", "sleeping", "driving", "retrying", "cancelled"}]
    /\ capLeft \in [Actuator -> 0..MaxRuntime]
    /\ outcome \in Outcome \cup {"idle", "writing", "raised"}
    /\ admitted \in [Actuator -> BOOLEAN]
    /\ onFor \in [Actuator -> 0..(MaxRuntime + 1)]

Serving == proc \in {"building", "up"}

\* The output is energised and its command has been accounted for.
Energised(a) == Serving /\ a \in guards /\ hw[a] # Safe /\ io[CmdJob(a)] # "landed"

Capped(a) == Energised(a) => ~atSafe[a] /\ run[a] # "none"

\* safety.py, _note_level and _mark_safe: whatever the command, the watcher and
\* the deadline task do to each other's bookkeeping, an energised PCA9685 channel
\* has a runtime-deadline task and is not reported at its safe state.
EnergisedIsCapped == \A a \in Pca : Capped(a)

\* safety.py:470: "re-commanding the same non-safe level does NOT extend it".
\* The time a PCA9685 channel has been energised and the time its cap still
\* allows never add up to more than max_runtime_s.
CapNeverExtended ==
    \A a \in Pca : Energised(a) /\ run[a] = "sleeping" => onFor[a] + capLeft[a] <= MaxRuntime

DarkAfterTrip(a) ==
    proc = "up" /\ a \in guards /\ watch[a] = "lost" /\ ~admitted[a] => hw[a] = Safe

\* safety.py, _watch_heartbeat: once a heartbeat trip is through, the PCA9685
\* channel is dark until a command is admitted after the trip.  A write queued
\* before the trip does not survive it.
TripIsDark == \A a \in Pca : DarkAfterTrip(a)

\* app.py, run: "Startup asserts safe state; it never assumes it."  No drill
\* actuator is energised once start() has returned and the registry is being read,
\* however the hardware came up.
StartAssertsSafe == proc = "building" => \A a \in Drill \cap guards : hw[a] = Safe

\* safety.py, stop(): every guard that stop() is done with is dark, unless its
\* own drive raised; a neighbour that raises, or a task of the guard that was in
\* the middle of a write, changes nothing.  RP1 channels included.
StopReachesAll ==
    proc = "stopping" =>
       \A a \in guards \ (stopLeft \cup stopNow) : hw[a] = Safe \/ a \in failures

\* safety.py, _drive_safe_with_retry and _runtime_deadline: an energised PCA9685
\* channel of a running process does not stay energised for ever, however often
\* the driver raises, as long as it does not raise every time.
EnergisedEnds ==
    \A a \in Pca : (proc = "up" /\ a \in guards /\ hw[a] # Safe)
                      ~> (proc # "up" \/ hw[a] = Safe)

\* The event loop runs what is due, worker threads finish, time passes, and a
\* driver that is asked again and again lands a write in the end.
Fairness ==
    /\ SF_vars(Tick)
    /\ \A a \in Actuator :
          /\ WF_vars(Watcher(a)) /\ WF_vars(Deadline(a))
          /\ WF_vars(ApplyReturn(a) \/ ApplyRaise(a))
    /\ \A x \in Job : WF_vars(LandWrite(x) \/ FailWrite(x)) /\ SF_vars(LandWrite(x))

FairSpec == Spec /\ Fairness

\* pipwm.py, drive_safe: "the safe-state write cannot be superseded by a
\* still-running write from whatever this channel was doing before", for every
\* channel, RP1 PWM included.
SafeWriteNotSuperseded == \A a \in Actuator : DarkAfterTrip(a)
=============================================================================
