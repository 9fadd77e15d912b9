------------------------------ MODULE DriverIO ------------------------------
(***************************************************************************)
(* The hardware side of hardware-io: the PWM outputs and the offloaded     *)
(* writes that the two drivers make to them (drivers/pca9685.py,           *)
(* drivers/pipwm.py, drivers/dimming.py).                                  *)
(*                                                                         *)
(* Every write runs on a worker thread and its task resumes on the event   *)
(* loop later, so a write has three moments: it is queued, it lands on the *)
(* hardware (or raises), and its caller resumes.  A PCA9685 channel queues *)
(* behind its chip's asyncio.Lock, which is FIFO; an RP1 PWM channel takes *)
(* no lock at all.  The FIFO is kept as the set of writes each write still *)
(* waits for: those that held or awaited the lock when it arrived.         *)
(***************************************************************************)
EXTENDS Integers, FiniteSets

CONSTANTS
    Actuator,       \* the channels this node may be asked to drive
    Pca,            \* those on a PCA9685 board; the others are RP1 PWM channels
    Board,          \* [Pca -> board]: which chip a PCA9685 channel belongs to
    Duties,         \* the duties (percent) a command may ask for
    MinUsableDuty,  \* dimming.MIN_USABLE_DUTY, in percent
    FullDuty        \* duty 1.0, in percent

ASSUME DriverAssumption ==
    /\ Pca \subseteq Actuator
    /\ Duties \subseteq Nat
    /\ MinUsableDuty \in Nat \ {0}
    /\ FullDuty \in Nat \ {0}

VARIABLES
    hw,      \* [Actuator -> duty]: what each pin carries
    io,      \* [Job -> phase]: where each task's offloaded write is
    duty,    \* [Job -> duty]: what that write carries
    ahead,   \* [Job -> SUBSET Job]: the writes it waits for in its chip's lock
    orphan   \* actuators with a safe write still on a thread, its task cancelled

driverVars == <<hw, io, duty, ahead, orphan>>

-----------------------------------------------------------------------------
\* The tasks that call a driver: the command consumer, the heartbeat watcher,
\* the runtime-deadline task, and start()/stop() on the main task.
Owner == {"cmd", "watch", "run", "main"}
Job == Actuator \X Owner

CmdJob(a) == <<a, "cmd">>
WatchJob(a) == <<a, "watch">>
RunJob(a) == <<a, "run">>
MainJob(a) == <<a, "main">>

Safe == 0

\* dimming.snap_duty: the undefined band under MIN_USABLE_DUTY is hard off.
snap_duty(d) ==
    IF d < MinUsableDuty THEN Safe ELSE IF d < FullDuty THEN d ELSE FullDuty

\* What effective_level predicts and what apply puts on the pin.
effective_level(d) == snap_duty(d)

Level == {Safe} \cup {snap_duty(d) : d \in Duties}

-----------------------------------------------------------------------------
\* Mutant of SameLock: the chip's lock is dropped.
NoLock(x, y) == FALSE

SameLock(x, y) ==
    /\ x[1] \in Pca /\ y[1] \in Pca
    /\ Board[x[1]] = Board[y[1]]

\* apply/drive_safe is called: the write joins its chip's queue, or, on an RP1
\* channel, goes straight to a worker thread.
Submit(x, d) ==
    /\ io' = [io EXCEPT ![x] = "pending"]
    /\ duty' = [duty EXCEPT ![x] = d]
    /\ ahead' = [ahead EXCEPT ![x] =
                    {y \in Job : io[y] # "idle" /\ SameLock(x, y)}]

\* The tasks of the jobs in S have resumed, or were cancelled while they waited
\* for the lock: they no longer hold anybody up.
Leave(S) ==
    /\ io' = [x \in Job |-> IF x \in S THEN "idle" ELSE io[x]]
    /\ duty' = [x \in Job |-> IF x \in S THEN Safe ELSE duty[x]]
    /\ ahead' = [x \in Job |-> IF x \in S THEN {} ELSE ahead[x] \ S]

\* A write whose thread is running: its task can no longer take it back
\* (to_thread_uncancellable shields it).
OnThread(x) == io[x] = "pending" /\ ahead[x] = {}

\* The write reaches the pin.
Land(x) ==
    /\ OnThread(x)
    /\ io' = [io EXCEPT ![x] = "landed"]
    /\ hw' = [hw EXCEPT ![x[1]] = snap_duty(duty[x])]
    /\ UNCHANGED <<duty, ahead, orphan>>

\* The bus or the sysfs write raises: "a write either lands or raises".
Fault(x) ==
    /\ OnThread(x)
    /\ io' = [io EXCEPT ![x] = "failed"]
    /\ UNCHANGED <<hw, duty, ahead, orphan>>

\* The write of a cancelled task finishes on its thread with nobody waiting.
LandOrphan(a) ==
    /\ a \in orphan
    /\ orphan' = orphan \ {a}
    /\ \/ hw' = [hw EXCEPT ![a] = Safe]
       \/ UNCHANGED hw
    /\ UNCHANGED <<io, duty, ahead>>

\* Every write a dying process had in flight is gone with its threads.
NoWrites ==
    /\ io' = [x \in Job |-> "idle"]
    /\ duty' = [x \in Job |-> Safe]
    /\ ahead' = [x \in Job |-> {}]
    /\ orphan' = {}

\* What the pins carry at the start is the extending module's business.
DriverInit ==
    /\ io = [x \in Job |-> "idle"]
    /\ duty = [x \in Job |-> Safe]
    /\ ahead = [x \in Job |-> {}]
    /\ orphan = {}

DriverTypeOK ==
    /\ hw \in [Actuator -> Level]
    /\ io \in [Job -> {"idle", "pending", "landed", "failed"}]
    /\ duty \in [Job -> Duties \cup {Safe}]
    /\ ahead \in [Job -> SUBSET Job]
    /\ orphan \subseteq Actuator
=============================================================================
