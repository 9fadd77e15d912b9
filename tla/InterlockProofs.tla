-------------------------- MODULE InterlockProofs --------------------------
(***************************************************************************)
(* Proofs about Interlock, for any set of channels, boards and timings.    *)
(***************************************************************************)
EXTENDS Interlock, TLAPS

\* The chip lock: an idle job waits for nobody; a job waits only for jobs that
\* are under way on its own chip; of two jobs under way on one chip, one waits
\* for the other; a job that has had its turn waits for nobody; only commands
\* carry a duty.
LockInv ==
    /\ \A x \in Job : io[x] = "idle" => ahead[x] = {} /\ duty[x] = Safe
    /\ \A x, y \in Job : y \in ahead[x] => io[y] # "idle" /\ SameLock(x, y)
    /\ \A x, y \in Job : x # y /\ SameLock(x, y) /\ io[x] # "idle" /\ io[y] # "idle"
                            => x \in ahead[y] \/ y \in ahead[x]
    /\ \A x \in Job : io[x] \in {"landed", "failed"} => ahead[x] = {}
    /\ \A a \in Actuator :
          duty[WatchJob(a)] = Safe /\ duty[RunJob(a)] = Safe /\ duty[MainJob(a)] = Safe

\* Which task may have a write under way, and in which phase of the process.
TaskInv ==
    /\ \A a \in Actuator :
          /\ watch[a] \in {"none", "waiting", "retrying", "lost"} => io[WatchJob(a)] = "idle"
          /\ run[a] \in {"none", "sleeping", "retrying"} => io[RunJob(a)] = "idle"
          /\ outcome # "writing" => io[CmdJob(a)] = "idle"
          /\ io[CmdJob(a)] # "idle" => a \in guards
          /\ io[MainJob(a)] # "idle" =>
                \/ proc = "starting" /\ a \in guards /\ watch[a] = "none"
                \/ proc = "stopping" /\ a \in stopNow
          /\ a \notin guards => watch[a] = "none" /\ run[a] = "none" /\ onFor[a] = 0
          /\ proc # "stopping" => watch[a] # "cancelled" /\ run[a] # "cancelled"
    /\ outcome = "writing" => proc = "up"
    /\ proc \in {"down", "starting", "building"} => \A a \in Actuator : run[a] = "none"
    /\ proc = "down" => guards = {}
    /\ proc # "stopping" => stopLeft = {} /\ stopNow = {}
    /\ stopLeft \subseteq guards /\ stopNow \subseteq guards
    /\ \A a, b \in stopNow : a = b
    /\ \A a, b \in Actuator : io[CmdJob(a)] # "idle" /\ io[CmdJob(b)] # "idle" => a = b
    /\ toOpen \cap guards = {}

\* What the pins carry.
PinInv ==
    /\ orphan \cap Pca = {}
    /\ \A x \in Job : io[x] = "landed" /\ x[1] \in Pca => hw[x[1]] = snap_duty(duty[x])
    /\ \A a \in Actuator : proc = "starting" /\ a \in guards /\ watch[a] # "none"
                              => hw[a] = Safe \/ a \in failures
    /\ \A a \in Actuator : proc = "starting" /\ io[MainJob(a)] = "landed" => hw[a] = Safe
    /\ \A a \in Pca : Board[a] \in chips /\ a \notin guards => hw[a] = Safe
    /\ \A a \in Actuator : hw[a] = Safe /\ a \in guards => onFor[a] = 0
    /\ proc = "starting" => chips = {}
    /\ proc = "building" => \A a \in guards : hw[a] = Safe

\* The cap's arithmetic: a channel without a deadline task has not been energised
\* for a tick, and one with a sleeping task has not used up what is left of it.
CapInv ==
    \A a \in Pca : Serving /\ a \in guards =>
       /\ run[a] = "none" => onFor[a] = 0
       /\ run[a] = "sleeping" => onFor[a] + capLeft[a] <= MaxRuntime

\* A command that was under way when a trip began is ahead of the trip's write, so
\* it is gone when that write has had its turn.
TripInv ==
    \A a \in Pca : proc # "stopping" /\ ~admitted[a] =>
       /\ watch[a] = "driving" /\ io[CmdJob(a)] # "idle" => CmdJob(a) \in ahead[WatchJob(a)]
       /\ watch[a] \in {"retrying", "lost"} => io[CmdJob(a)] = "idle"
       /\ watch[a] = "lost" => hw[a] = Safe

\* The guard that stop() is at is dark once its write has landed.
StopInv ==
    /\ StopReachesAll
    /\ proc = "stopping" =>
          \A a \in stopNow : io[MainJob(a)] = "landed" => hw[a] = Safe
-----------------------------------------------------------------------------
(* Facts about jobs and levels.                                            *)

\* Which jobs there are, and that they are told apart by actuator and task.
LEMMA JobFacts ==
    /\ \A a \in Actuator :
          /\ CmdJob(a) \in Job /\ WatchJob(a) \in Job /\ RunJob(a) \in Job /\ MainJob(a) \in Job
          /\ CmdJob(a)[1] = a /\ WatchJob(a)[1] = a /\ RunJob(a)[1] = a /\ MainJob(a)[1] = a
    /\ \A x \in Job : x[1] \in Actuator
          /\ \/ x = CmdJob(x[1]) \/ x = WatchJob(x[1]) \/ x = RunJob(x[1]) \/ x = MainJob(x[1])
    /\ \A a, b \in Actuator :
          /\ CmdJob(a) # WatchJob(b) /\ CmdJob(a) # RunJob(b) /\ CmdJob(a) # MainJob(b)
          /\ WatchJob(a) # RunJob(b) /\ WatchJob(a) # MainJob(b) /\ RunJob(a) # MainJob(b)
BY DEF Job, Owner, CmdJob, WatchJob, RunJob, MainJob

\* Jobs of different actuators differ.
LEMMA JobsDiffer ==
    \A a, b \in Actuator : a # b => CmdJob(a) # CmdJob(b) /\ WatchJob(a) # WatchJob(b)
BY DEF CmdJob, WatchJob

\* The safe duty is dark, and what a driver puts on a pin is a level.
LEMMA SnapFacts ==
    /\ snap_duty(Safe) = Safe
    /\ Safe \in Level
    /\ \A d \in Duties \cup {Safe} : snap_duty(d) \in Level
BY DriverAssumption DEF snap_duty, Level, Safe

-----------------------------------------------------------------------------
(* Type correctness.                                                       *)

\* Every step keeps the types.
LEMMA TypeStep == TypeOK /\ [Next]_vars => TypeOK'
<1> SUFFICES ASSUME TypeOK, [Next]_vars PROVE TypeOK'
    OBVIOUS
<1>1. ASSUME NEW S \in SUBSET (Actuator \ Drill), Boot(S) PROVE TypeOK'
      BY <1>1, JobFacts, SnapFacts, InterlockAssumption
      DEF Boot, FreshMemory, driverVars, TypeOK, DriverTypeOK, Outcome
<1>2. CASE StartDone
  <2>1. CASE Die
      BY <2>1, SnapFacts, InterlockAssumption
      DEF Die, FreshMemory, NoWrites, TypeOK, DriverTypeOK, Outcome
  <2>2. CASE ~Die
      BY <1>2, <2>2 DEF StartDone, driverVars, watchVars, runVars, TypeOK, DriverTypeOK
  <2> QED BY <2>1, <2>2
<1>3. CASE Serve
      BY <1>3, JobFacts, SnapFacts, InterlockAssumption
      DEF Serve, driverVars, watchVars, runVars, TypeOK, DriverTypeOK, Outcome
<1>4. CASE Stop
      BY <1>4, JobFacts, SnapFacts, InterlockAssumption
      DEF Stop, driverVars, watchVars, runVars, TypeOK, DriverTypeOK, Outcome
<1>5. CASE Exit
      BY <1>5, JobFacts, SnapFacts, InterlockAssumption
      DEF Exit, Die, FreshMemory, NoWrites, TypeOK, DriverTypeOK, Outcome
<1>6. CASE Crash
      BY <1>6, JobFacts, SnapFacts, InterlockAssumption
      DEF Crash, Die, FreshMemory, NoWrites, TypeOK, DriverTypeOK, Outcome
<1>7. CASE Heartbeat
      BY <1>7, JobFacts, SnapFacts, InterlockAssumption
      DEF Heartbeat, driverVars, procVars, runVars, TypeOK, DriverTypeOK, Outcome
<1>8. CASE SetClockTrusted
      BY <1>8, JobFacts, SnapFacts, InterlockAssumption
      DEF SetClockTrusted, driverVars, watchVars, runVars, TypeOK, DriverTypeOK, Outcome
<1>9. CASE Tick
      BY <1>9, JobFacts, SnapFacts, InterlockAssumption
      DEF Tick, driverVars, procVars, Down, TypeOK, DriverTypeOK, Outcome
<1>10. ASSUME NEW a \in Actuator, StartDrive(a) PROVE TypeOK'
      BY <1>10, JobFacts, SnapFacts, InterlockAssumption
      DEF StartDrive, Submit, procVars, runVars, TypeOK, DriverTypeOK, Outcome
<1>11. ASSUME NEW a \in Actuator, StartReturn(a) PROVE TypeOK'
  <2>1. io' \in [Job -> {"idle", "pending", "landed", "failed"}]
      BY <1>11 DEF StartReturn, Leave, TypeOK, DriverTypeOK
  <2>2. duty' \in [Job -> Duties \cup {Safe}] /\ ahead' \in [Job -> SUBSET Job]
      BY <1>11 DEF StartReturn, Leave, TypeOK, DriverTypeOK
  <2>3. /\ atSafe' \in [Actuator -> BOOLEAN] /\ latched' \in [Actuator -> BOOLEAN]
        /\ failures' \subseteq Actuator
      BY <1>11 DEF StartReturn, TypeOK
  <2> QED
      BY <1>11, <2>1, <2>2, <2>3 DEF StartReturn, runVars, TypeOK, DriverTypeOK
<1>12. ASSUME NEW a \in Actuator, OpenOk(a) PROVE TypeOK'
      BY <1>12, JobFacts, SnapFacts, InterlockAssumption
      DEF OpenOk, runVars, TypeOK, DriverTypeOK, Outcome
<1>13. ASSUME NEW a \in Actuator, OpenFail(a) PROVE TypeOK'
  <2>1. hw' \in [Actuator -> Level]
      BY <1>13, SnapFacts DEF OpenFail, TypeOK, DriverTypeOK
  <2> QED
      BY <1>13, <2>1 DEF OpenFail, watchVars, runVars, TypeOK, DriverTypeOK
<1>14. ASSUME NEW a \in Actuator, StopCancel(a) PROVE TypeOK'
      BY <1>14, JobFacts, SnapFacts, InterlockAssumption
      DEF StopCancel, Leave, TypeOK, DriverTypeOK, Outcome
<1>15. ASSUME NEW a \in Actuator, StopDrive(a) PROVE TypeOK'
      BY <1>15, JobFacts, SnapFacts, InterlockAssumption
      DEF StopDrive, Submit, procVars, watchVars, runVars, TypeOK, DriverTypeOK, Outcome
<1>16. ASSUME NEW a \in Actuator, StopReturn(a) PROVE TypeOK'
  <2>1. /\ io' \in [Job -> {"idle", "pending", "landed", "failed"}]
        /\ duty' \in [Job -> Duties \cup {Safe}] /\ ahead' \in [Job -> SUBSET Job]
      BY <1>16 DEF StopReturn, Leave, TypeOK, DriverTypeOK
  <2>2. atSafe' \in [Actuator -> BOOLEAN] /\ failures' \subseteq Actuator
      BY <1>16 DEF StopReturn, TypeOK
  <2> QED
      BY <1>16, <2>1, <2>2 DEF StopReturn, watchVars, runVars, TypeOK, DriverTypeOK
<1>17. ASSUME NEW a \in Actuator, WatchBeat(a) PROVE TypeOK'
      BY <1>17, JobFacts, SnapFacts, InterlockAssumption
      DEF WatchBeat, driverVars, procVars, runVars, TypeOK, DriverTypeOK, Outcome
<1>18. ASSUME NEW a \in Actuator, WatchTrip(a) PROVE TypeOK'
      BY <1>18, JobFacts, SnapFacts, InterlockAssumption
      DEF WatchTrip, Submit, procVars, runVars, TypeOK, DriverTypeOK, Outcome
<1>19. ASSUME NEW a \in Actuator, WatchEnd(a) PROVE TypeOK'
      BY <1>19, JobFacts, SnapFacts, InterlockAssumption
      DEF WatchEnd, driverVars, procVars, runVars, TypeOK, DriverTypeOK, Outcome
<1>20. ASSUME NEW a \in Actuator, WatchDriven(a) PROVE TypeOK'
      BY <1>20, JobFacts, SnapFacts, InterlockAssumption
      DEF WatchDriven, MarkSafe, CancelRun, Leave, procVars, TypeOK, DriverTypeOK, Outcome
<1>21. ASSUME NEW a \in Actuator, WatchFault(a) PROVE TypeOK'
      BY <1>21, JobFacts, SnapFacts, InterlockAssumption
      DEF WatchFault, Leave, procVars, runVars, TypeOK, DriverTypeOK, Outcome
<1>22. ASSUME NEW a \in Actuator, WatchRetry(a) PROVE TypeOK'
      BY <1>22, JobFacts, SnapFacts, InterlockAssumption
      DEF WatchRetry, Submit, procVars, runVars, TypeOK, DriverTypeOK, Outcome
<1>23. ASSUME NEW a \in Actuator, WatchRecover(a) PROVE TypeOK'
      BY <1>23, JobFacts, SnapFacts, InterlockAssumption
      DEF WatchRecover, driverVars, procVars, runVars, TypeOK, DriverTypeOK, Outcome
<1>24. ASSUME NEW a \in Actuator, ApplyReturn(a) PROVE TypeOK'
  <2>1. CASE effective_level(duty[CmdJob(a)]) = Safe
    <3>1. MarkSafe(a, CmdJob(a))
        BY <1>24, <2>1 DEF ApplyReturn, NoteLevel
    <3> QED
        BY <1>24, <3>1, JobFacts, InterlockAssumption
        DEF ApplyReturn, MarkSafe, CancelRun, Leave, procVars, watchVars, TypeOK,
            DriverTypeOK, Outcome
  <2>2. CASE effective_level(duty[CmdJob(a)]) # Safe
    <3>1. /\ atSafe' = [atSafe EXCEPT ![a] = FALSE]
          /\ Leave({CmdJob(a)})
          /\ UNCHANGED orphan
        BY <1>24, <2>2 DEF ApplyReturn, NoteLevel
    <3>2. \/ /\ run' = [run EXCEPT ![a] = "sleeping"]
             /\ capLeft' = [capLeft EXCEPT ![a] = MaxRuntime]
          \/ UNCHANGED <<run, capLeft>>
        BY <1>24, <2>2 DEF ApplyReturn, NoteLevel, ArmCap, runVars
    <3>3. /\ run' \in [Actuator -> {"none", "sleeping", "driving", "retrying", "cancelled"}]
          /\ capLeft' \in [Actuator -> 0..MaxRuntime]
        BY <3>2, InterlockAssumption DEF TypeOK
    <3>4. /\ io' \in [Job -> {"idle", "pending", "landed", "failed"}]
          /\ duty' \in [Job -> Duties \cup {Safe}]
          /\ ahead' \in [Job -> SUBSET Job]
        BY <3>1 DEF Leave, TypeOK, DriverTypeOK
    <3> QED
        BY <1>24, <3>1, <3>3, <3>4
        DEF ApplyReturn, procVars, watchVars, TypeOK, DriverTypeOK, Outcome
  <2> QED BY <2>1, <2>2
<1>25. ASSUME NEW a \in Actuator, ApplyRaise(a) PROVE TypeOK'
      BY <1>25, JobFacts, SnapFacts, InterlockAssumption
      DEF ApplyRaise, Leave, procVars, watchVars, runVars, TypeOK, DriverTypeOK, Outcome
<1>26. ASSUME NEW a \in Actuator, CapExpire(a) PROVE TypeOK'
      BY <1>26, JobFacts, SnapFacts, InterlockAssumption
      DEF CapExpire, Submit, procVars, watchVars, TypeOK, DriverTypeOK, Outcome
<1>27. ASSUME NEW a \in Actuator, RunDriven(a) PROVE TypeOK'
      BY <1>27, JobFacts, SnapFacts, InterlockAssumption
      DEF RunDriven, MarkSafe, CancelRun, Leave, procVars, watchVars, TypeOK,
          DriverTypeOK, Outcome
<1>28. ASSUME NEW a \in Actuator, RunFault(a) PROVE TypeOK'
      BY <1>28, JobFacts, SnapFacts, InterlockAssumption
      DEF RunFault, Leave, procVars, watchVars, TypeOK, DriverTypeOK, Outcome
<1>29. ASSUME NEW a \in Actuator, RunRetry(a) PROVE TypeOK'
      BY <1>29, JobFacts, SnapFacts, InterlockAssumption
      DEF RunRetry, Submit, procVars, watchVars, TypeOK, DriverTypeOK, Outcome
<1>30. ASSUME NEW a \in Actuator, ClearLatch(a) PROVE TypeOK'
      BY <1>30, JobFacts, SnapFacts, InterlockAssumption
      DEF ClearLatch, driverVars, procVars, watchVars, runVars, TypeOK,
          DriverTypeOK, Outcome
<1>31. ASSUME NEW a \in Actuator, LandOrphanWrite(a) PROVE TypeOK'
      BY <1>31, JobFacts, SnapFacts, InterlockAssumption
      DEF LandOrphanWrite, LandOrphan, procVars, watchVars, runVars, TypeOK,
          DriverTypeOK, Outcome
<1>32. ASSUME NEW a \in Actuator, NEW x \in {WatchJob(a), RunJob(a)}, Unwind(a, x)
         PROVE  TypeOK'
  <2>1. duty' \in [Job -> Duties \cup {Safe}] /\ ahead' \in [Job -> SUBSET Job]
        /\ io' \in [Job -> {"idle", "pending", "landed", "failed"}]
      BY <1>32 DEF Unwind, Leave, TypeOK, DriverTypeOK
  <2>2. /\ watch' \in [Actuator -> {"none", "waiting", "driving", "retrying", "lost",
                                    "cancelled"}]
        /\ run' \in [Actuator -> {"none", "sleeping", "driving", "retrying", "cancelled"}]
      BY <1>32 DEF Unwind, TypeOK
  <2> QED
      BY <1>32, <2>1, <2>2 DEF Unwind, procVars, TypeOK, DriverTypeOK
<1>33. ASSUME NEW a \in Actuator, NEW d \in Duties, NEW e \in BOOLEAN, Apply(a, d, e)
         PROVE  TypeOK'
  <2>1. Verdict(a, e) \in Outcome
      BY DEF Verdict, Outcome
  <2>2. CASE Verdict(a, e) = "applied"
    <3>1. /\ io' \in [Job -> {"idle", "pending", "landed", "failed"}]
          /\ duty' \in [Job -> Duties \cup {Safe}]
          /\ ahead' \in [Job -> SUBSET Job]
          /\ admitted' \in [Actuator -> BOOLEAN]
      <4>1. Submit(CmdJob(a), d) /\ admitted' = [admitted EXCEPT ![a] = TRUE]
          BY <1>33, <2>2 DEF Apply
      <4> QED
          BY <4>1, JobFacts DEF Submit, TypeOK, DriverTypeOK
    <3> QED
        BY <1>33, <2>2, <3>1 DEF Apply, procVars, watchVars, runVars, TypeOK, DriverTypeOK
  <2>3. CASE Verdict(a, e) # "applied"
      BY <1>33, <2>1, <2>3 DEF Apply, procVars, watchVars, runVars, TypeOK, DriverTypeOK
  <2> QED BY <2>2, <2>3
<1>34. ASSUME NEW x \in Job, LandWrite(x) PROVE TypeOK'
      BY <1>34, JobFacts, SnapFacts, InterlockAssumption
      DEF LandWrite, Land, procVars, watchVars, runVars, TypeOK, DriverTypeOK, Outcome
<1>35. ASSUME NEW x \in Job, FailWrite(x) PROVE TypeOK'
      BY <1>35, JobFacts, SnapFacts, InterlockAssumption
      DEF FailWrite, Fault, procVars, watchVars, runVars, TypeOK, DriverTypeOK, Outcome
<1>s. CASE UNCHANGED vars
      BY <1>s DEF vars, driverVars, procVars, watchVars, runVars, TypeOK, DriverTypeOK
<1> QED
    BY <1>1, <1>2, <1>3, <1>4, <1>5, <1>6, <1>7, <1>8, <1>9, <1>10, <1>11, <1>12,
        <1>13, <1>14, <1>15, <1>16, <1>17, <1>18, <1>19, <1>20, <1>21, <1>22, <1>23,
        <1>24, <1>25, <1>26, <1>27, <1>28, <1>29, <1>30, <1>31, <1>32, <1>33, <1>34,
        <1>35,
       <1>s DEF Next, Process, Watcher, Deadline, Consumer

-----------------------------------------------------------------------------
(* The chip lock and the tasks.                                            *)

\* Joining a chip's queue with an idle job, and leaving it, keep the queue in order.
LEMMA SubmitLock ==
    ASSUME TypeOK, LockInv, NEW x \in Job, NEW d \in Duties \cup {Safe}, io[x] = "idle",
           d = Safe \/ x = CmdJob(x[1]), Submit(x, d)
    PROVE  LockInv'
<1> USE DEF TypeOK, DriverTypeOK, Submit
<1>1. \A y \in Job : io'[y] = (IF y = x THEN "pending" ELSE io[y])
                     /\ duty'[y] = (IF y = x THEN d ELSE duty[y])
                     /\ ahead'[y] = (IF y = x THEN {z \in Job : io[z] # "idle" /\ SameLock(x, z)}
                                     ELSE ahead[y])
    OBVIOUS
<1>2. \A y, z \in Job : SameLock(y, z) => SameLock(z, y)
    BY DEF SameLock
<1>3. \A y \in Job : io'[y] = "idle" => ahead'[y] = {} /\ duty'[y] = Safe
    BY <1>1 DEF LockInv
<1>4. \A y, z \in Job : z \in ahead'[y] => io'[z] # "idle" /\ SameLock(y, z)
    BY <1>1 DEF LockInv
<1>5. \A y, z \in Job : y # z /\ SameLock(y, z) /\ io'[y] # "idle" /\ io'[z] # "idle"
                           => y \in ahead'[z] \/ z \in ahead'[y]
    BY <1>1, <1>2 DEF LockInv
<1>6. \A y \in Job : io'[y] \in {"landed", "failed"} => ahead'[y] = {}
    BY <1>1 DEF LockInv
<1>7. \A a \in Actuator : duty'[WatchJob(a)] = Safe /\ duty'[RunJob(a)] = Safe
                          /\ duty'[MainJob(a)] = Safe
    BY <1>1, JobFacts DEF LockInv
<1> QED BY <1>3, <1>4, <1>5, <1>6, <1>7 DEF LockInv, SameLock

\* Jobs that leave the chip lock keep the queue of the others in order.
LEMMA LeaveLock ==
    ASSUME TypeOK, LockInv, NEW S \in SUBSET Job, Leave(S)
    PROVE  LockInv'
<1> USE DEF TypeOK, DriverTypeOK, Leave
<1>1. \A y \in Job : io'[y] = (IF y \in S THEN "idle" ELSE io[y])
                     /\ duty'[y] = (IF y \in S THEN Safe ELSE duty[y])
                     /\ ahead'[y] = (IF y \in S THEN {} ELSE ahead[y] \ S)
    OBVIOUS
<1>2. \A y \in Job : io'[y] = "idle" => ahead'[y] = {} /\ duty'[y] = Safe
    BY <1>1 DEF LockInv
<1>3. \A y, z \in Job : z \in ahead'[y] => io'[z] # "idle" /\ SameLock(y, z)
    BY <1>1 DEF LockInv
<1>4. \A y, z \in Job : y # z /\ SameLock(y, z) /\ io'[y] # "idle" /\ io'[z] # "idle"
                           => y \in ahead'[z] \/ z \in ahead'[y]
    BY <1>1 DEF LockInv
<1>5. \A y \in Job : io'[y] \in {"landed", "failed"} => ahead'[y] = {}
    BY <1>1 DEF LockInv
<1>6. \A a \in Actuator : duty'[WatchJob(a)] = Safe /\ duty'[RunJob(a)] = Safe
                          /\ duty'[MainJob(a)] = Safe
    BY <1>1, JobFacts DEF LockInv
<1> QED BY <1>2, <1>3, <1>4, <1>5, <1>6 DEF LockInv, SameLock

\* So does a write that lands or raises.
LEMMA LandLock ==
    ASSUME TypeOK, LockInv, NEW x \in Job, NEW p \in {"landed", "failed"}, OnThread(x),
           io' = [io EXCEPT ![x] = p], UNCHANGED <<duty, ahead>>
    PROVE  LockInv'
<1> USE DEF TypeOK, DriverTypeOK, OnThread
<1>1. \A y \in Job : io'[y] = (IF y = x THEN p ELSE io[y])
    OBVIOUS
<1> QED BY <1>1 DEF LockInv, SameLock

\* A process with no write under way has an empty queue.
LEMMA EmptyLock ==
    ASSUME NoWrites
    PROVE  LockInv'
BY JobFacts DEF NoWrites, LockInv

\* The chip lock's queue stays in order under every step.
LEMMA LockStep == TypeOK /\ LockInv /\ TaskInv /\ [Next]_vars => LockInv'
<1> SUFFICES ASSUME TypeOK, LockInv, TaskInv, [Next]_vars PROVE LockInv'
    OBVIOUS
<1>1. ASSUME NEW S \in SUBSET (Actuator \ Drill), Boot(S) PROVE LockInv'
      BY <1>1 DEF Boot, driverVars, LockInv, SameLock
<1>2. CASE StartDone
      BY <1>2, EmptyLock DEF StartDone, Die, driverVars, LockInv, SameLock
<1>3. CASE Serve
      BY <1>3 DEF Serve, driverVars, LockInv, SameLock
<1>4. CASE Stop
      BY <1>4 DEF Stop, driverVars, LockInv, SameLock
<1>5. CASE Exit
      BY <1>5, EmptyLock DEF Exit, Die
<1>6. CASE Crash
      BY <1>6, EmptyLock DEF Crash, Die
<1>7. CASE Heartbeat
      BY <1>7 DEF Heartbeat, driverVars, LockInv, SameLock
<1>8. CASE SetClockTrusted
      BY <1>8 DEF SetClockTrusted, driverVars, LockInv, SameLock
<1>9. CASE Tick
      BY <1>9 DEF Tick, driverVars, LockInv, SameLock
<1>10. ASSUME NEW a \in Actuator, StartDrive(a) PROVE LockInv'
      BY <1>10, SubmitLock, JobFacts DEF StartDrive
<1>11. ASSUME NEW a \in Actuator, StartReturn(a) PROVE LockInv'
      BY <1>11, LeaveLock, JobFacts DEF StartReturn
<1>12. ASSUME NEW a \in Actuator, OpenOk(a) PROVE LockInv'
      BY <1>12 DEF OpenOk, LockInv, SameLock
<1>13. ASSUME NEW a \in Actuator, OpenFail(a) PROVE LockInv'
      BY <1>13 DEF OpenFail, LockInv, SameLock
<1>14. ASSUME NEW a \in Actuator, StopCancel(a) PROVE LockInv'
  <2>1. \E S \in SUBSET {WatchJob(a), RunJob(a)} : Leave(S)
      BY <1>14 DEF StopCancel
  <2> QED BY <2>1, LeaveLock, JobFacts
<1>15. ASSUME NEW a \in Actuator, StopDrive(a) PROVE LockInv'
      BY <1>15, SubmitLock, JobFacts DEF StopDrive
<1>16. ASSUME NEW a \in Actuator, StopReturn(a) PROVE LockInv'
      BY <1>16, LeaveLock, JobFacts DEF StopReturn
<1>17. ASSUME NEW a \in Actuator, WatchBeat(a) PROVE LockInv'
      BY <1>17 DEF WatchBeat, driverVars, LockInv, SameLock
<1>18. ASSUME NEW a \in Actuator, WatchTrip(a) PROVE LockInv'
  <2>1. io[WatchJob(a)] = "idle"
      BY <1>18 DEF WatchTrip, TaskInv
  <2> QED BY <1>18, <2>1, SubmitLock, JobFacts DEF WatchTrip
<1>19. ASSUME NEW a \in Actuator, WatchEnd(a) PROVE LockInv'
      BY <1>19 DEF WatchEnd, driverVars, LockInv, SameLock
<1>20. ASSUME NEW a \in Actuator, WatchDriven(a) PROVE LockInv'
      BY <1>20, LeaveLock, JobFacts DEF WatchDriven, MarkSafe, CancelRun
<1>21. ASSUME NEW a \in Actuator, WatchFault(a) PROVE LockInv'
      BY <1>21, LeaveLock, JobFacts DEF WatchFault
<1>22. ASSUME NEW a \in Actuator, WatchRetry(a) PROVE LockInv'
  <2>1. io[WatchJob(a)] = "idle"
      BY <1>22 DEF WatchRetry, TaskInv
  <2> QED BY <1>22, <2>1, SubmitLock, JobFacts DEF WatchRetry
<1>23. ASSUME NEW a \in Actuator, WatchRecover(a) PROVE LockInv'
      BY <1>23 DEF WatchRecover, driverVars, LockInv, SameLock
<1>24. ASSUME NEW a \in Actuator, ApplyReturn(a) PROVE LockInv'
      BY <1>24, LeaveLock, JobFacts DEF ApplyReturn, NoteLevel, MarkSafe, CancelRun
<1>25. ASSUME NEW a \in Actuator, ApplyRaise(a) PROVE LockInv'
      BY <1>25, LeaveLock, JobFacts DEF ApplyRaise
<1>26. ASSUME NEW a \in Actuator, CapExpire(a) PROVE LockInv'
  <2>1. io[RunJob(a)] = "idle"
      BY <1>26 DEF CapExpire, TaskInv
  <2> QED BY <1>26, <2>1, SubmitLock, JobFacts DEF CapExpire
<1>27. ASSUME NEW a \in Actuator, RunDriven(a) PROVE LockInv'
      BY <1>27, LeaveLock, JobFacts DEF RunDriven, MarkSafe, CancelRun
<1>28. ASSUME NEW a \in Actuator, RunFault(a) PROVE LockInv'
      BY <1>28, LeaveLock, JobFacts DEF RunFault
<1>29. ASSUME NEW a \in Actuator, RunRetry(a) PROVE LockInv'
  <2>1. io[RunJob(a)] = "idle"
      BY <1>29 DEF RunRetry, TaskInv
  <2> QED BY <1>29, <2>1, SubmitLock, JobFacts DEF RunRetry
<1>30. ASSUME NEW a \in Actuator, ClearLatch(a) PROVE LockInv'
      BY <1>30 DEF ClearLatch, driverVars, LockInv, SameLock
<1>31. ASSUME NEW a \in Actuator, LandOrphanWrite(a) PROVE LockInv'
      BY <1>31 DEF LandOrphanWrite, LandOrphan, LockInv, SameLock
<1>32. ASSUME NEW a \in Actuator, NEW x \in {WatchJob(a), RunJob(a)}, Unwind(a, x)
         PROVE  LockInv'
      BY <1>32, LeaveLock, JobFacts DEF Unwind
<1>33. ASSUME NEW a \in Actuator, NEW d \in Duties, NEW e \in BOOLEAN, Apply(a, d, e)
         PROVE  LockInv'
  <2>1. CASE Verdict(a, e) = "applied"
    <3>1. Submit(CmdJob(a), d) /\ io[CmdJob(a)] = "idle"
        BY <1>33, <2>1 DEF Apply, TaskInv
    <3> QED BY <3>1, SubmitLock, JobFacts
  <2>2. CASE Verdict(a, e) # "applied"
      BY <1>33, <2>2 DEF Apply, LockInv, SameLock
  <2> QED BY <2>1, <2>2
<1>34. ASSUME NEW x \in Job, LandWrite(x) PROVE LockInv'
      BY <1>34, LandLock DEF LandWrite, Land
<1>35. ASSUME NEW x \in Job, FailWrite(x) PROVE LockInv'
      BY <1>35, LandLock DEF FailWrite, Fault
<1>s. CASE UNCHANGED vars
      BY <1>s DEF vars, driverVars, procVars, watchVars, runVars, LockInv, SameLock
<1> QED
    BY <1>1, <1>2, <1>3, <1>4, <1>5, <1>6, <1>7, <1>8, <1>9, <1>10, <1>11, <1>12,
       <1>13, <1>14, <1>15, <1>16, <1>17, <1>18, <1>19, <1>20, <1>21, <1>22, <1>23,
       <1>24, <1>25, <1>26, <1>27, <1>28, <1>29, <1>30, <1>31, <1>32, <1>33, <1>34,
       <1>35,
       <1>s DEF Next, Process, Watcher, Deadline, Consumer

\* Each task's write and the phase of the process stay in step.
LEMMA TaskStep == TypeOK /\ LockInv /\ TaskInv /\ [Next]_vars => TaskInv'
<1> SUFFICES ASSUME TypeOK, LockInv, TaskInv, [Next]_vars PROVE TaskInv'
    OBVIOUS
<1>1. ASSUME NEW S \in SUBSET (Actuator \ Drill), Boot(S) PROVE TaskInv'
      BY <1>1, JobFacts
      DEF Boot, FreshMemory, driverVars, TaskInv, TypeOK, DriverTypeOK
<1>2. CASE StartDone
      BY <1>2, JobFacts
      DEF StartDone, Die, FreshMemory, NoWrites, driverVars, watchVars, runVars,
          TaskInv, TypeOK, DriverTypeOK
<1>3. CASE Serve
      BY <1>3, JobFacts
      DEF Serve, driverVars, watchVars, runVars, TaskInv, TypeOK, DriverTypeOK
<1>4. CASE Stop
      BY <1>4, JobFacts
      DEF Stop, driverVars, watchVars, runVars, TaskInv, TypeOK, DriverTypeOK
<1>5. CASE Exit
      BY <1>5, JobFacts
      DEF Exit, Die, FreshMemory, NoWrites, TaskInv, TypeOK, DriverTypeOK
<1>6. CASE Crash
      BY <1>6, JobFacts
      DEF Crash, Die, FreshMemory, NoWrites, TaskInv, TypeOK, DriverTypeOK
<1>7. CASE Heartbeat
      BY <1>7, JobFacts
      DEF Heartbeat, driverVars, procVars, runVars, TaskInv, TypeOK, DriverTypeOK
<1>8. CASE SetClockTrusted
      BY <1>8, JobFacts
      DEF SetClockTrusted, driverVars, watchVars, runVars, TaskInv, TypeOK, DriverTypeOK
<1>9. CASE Tick
      BY <1>9, JobFacts
      DEF Tick, driverVars, procVars, Down, TaskInv, TypeOK, DriverTypeOK
<1>10. ASSUME NEW a \in Actuator, StartDrive(a) PROVE TaskInv'
      BY <1>10, JobFacts
      DEF StartDrive, Submit, procVars, runVars, TaskInv, TypeOK, DriverTypeOK
<1>11. ASSUME NEW a \in Actuator, StartReturn(a) PROVE TaskInv'
      BY <1>11, JobFacts
      DEF StartReturn, Leave, runVars, TaskInv, TypeOK, DriverTypeOK
<1>12. ASSUME NEW a \in Actuator, OpenOk(a) PROVE TaskInv'
      BY <1>12, JobFacts
      DEF OpenOk, runVars, TaskInv, TypeOK, DriverTypeOK
<1>13. ASSUME NEW a \in Actuator, OpenFail(a) PROVE TaskInv'
      BY <1>13, JobFacts
      DEF OpenFail, watchVars, runVars, SameLock, TaskInv, TypeOK, DriverTypeOK
<1>14. ASSUME NEW a \in Actuator, StopCancel(a) PROVE TaskInv'
      BY <1>14, JobFacts
      DEF StopCancel, Leave, TaskInv, TypeOK, DriverTypeOK
<1>15. ASSUME NEW a \in Actuator, StopDrive(a) PROVE TaskInv'
      BY <1>15, JobFacts
      DEF StopDrive, Submit, procVars, watchVars, runVars, TaskInv, TypeOK, DriverTypeOK
<1>16. ASSUME NEW a \in Actuator, StopReturn(a) PROVE TaskInv'
      BY <1>16, JobFacts
      DEF StopReturn, Leave, watchVars, runVars, TaskInv, TypeOK, DriverTypeOK
<1>17. ASSUME NEW a \in Actuator, WatchBeat(a) PROVE TaskInv'
      BY <1>17, JobFacts
      DEF WatchBeat, driverVars, procVars, runVars, TaskInv, TypeOK, DriverTypeOK, Running
<1>18. ASSUME NEW a \in Actuator, WatchTrip(a) PROVE TaskInv'
  <2>1. \A y \in Job : y # WatchJob(a) => io'[y] = io[y]
      BY <1>18 DEF WatchTrip, Submit, TypeOK, DriverTypeOK
  <2>2. \A b \in Actuator : watch'[b] = (IF b = a THEN "driving" ELSE watch[b])
      BY <1>18 DEF WatchTrip, TypeOK
  <2> QED
      BY <1>18, <2>1, <2>2, JobFacts DEF WatchTrip, procVars, runVars, TaskInv
<1>19. ASSUME NEW a \in Actuator, WatchEnd(a) PROVE TaskInv'
      BY <1>19, JobFacts
      DEF WatchEnd, driverVars, procVars, runVars, TaskInv, TypeOK, DriverTypeOK
<1>20. ASSUME NEW a \in Actuator, WatchDriven(a) PROVE TaskInv'
      BY <1>20, JobFacts
      DEF WatchDriven, MarkSafe, CancelRun, Leave, procVars, TaskInv, TypeOK, DriverTypeOK
<1>21. ASSUME NEW a \in Actuator, WatchFault(a) PROVE TaskInv'
      BY <1>21, JobFacts
      DEF WatchFault, Leave, procVars, runVars, TaskInv, TypeOK, DriverTypeOK, Running
<1>22. ASSUME NEW a \in Actuator, WatchRetry(a) PROVE TaskInv'
  <2>1. \A y \in Job : y # WatchJob(a) => io'[y] = io[y]
      BY <1>22 DEF WatchRetry, Submit, TypeOK, DriverTypeOK
  <2>2. \A b \in Actuator : watch'[b] = (IF b = a THEN "driving" ELSE watch[b])
      BY <1>22 DEF WatchRetry, TypeOK
  <2> QED
      BY <1>22, <2>1, <2>2, JobFacts DEF WatchRetry, procVars, runVars, TaskInv
<1>23. ASSUME NEW a \in Actuator, WatchRecover(a) PROVE TaskInv'
      BY <1>23, JobFacts
      DEF WatchRecover, driverVars, procVars, runVars, TaskInv, TypeOK,
          DriverTypeOK, Running
<1>24. ASSUME NEW a \in Actuator, ApplyReturn(a) PROVE TaskInv'
  <2>1. /\ \A y \in Job : io'[y] = "idle" \/ io'[y] = io[y]
        /\ \A b \in Actuator : io'[CmdJob(b)] = "idle"
      <3>1. CASE effective_level(duty[CmdJob(a)]) = Safe
          BY <1>24, <3>1, JobFacts
          DEF ApplyReturn, NoteLevel, MarkSafe, CancelRun, Leave, TaskInv,
              TypeOK, DriverTypeOK
      <3>2. CASE effective_level(duty[CmdJob(a)]) # Safe
          BY <1>24, <3>2, JobFacts
          DEF ApplyReturn, NoteLevel, Leave, TaskInv, TypeOK, DriverTypeOK
      <3> QED BY <3>1, <3>2
  <2>2. a \in guards /\ proc = "up"
      BY <1>24 DEF ApplyReturn, TaskInv
  <2>3. \A b \in Actuator : run'[b] = run[b] \/ (b = a /\ run'[b] \in {"none", "sleeping"}
                                                      /\ io'[RunJob(b)] = "idle")
      <3>1. CASE effective_level(duty[CmdJob(a)]) = Safe
          BY <1>24, <3>1, JobFacts
          DEF ApplyReturn, NoteLevel, MarkSafe, CancelRun, Leave, TaskInv,
              TypeOK, DriverTypeOK
      <3>2. CASE effective_level(duty[CmdJob(a)]) # Safe
          BY <1>24, <2>1, <3>2, JobFacts
          DEF ApplyReturn, NoteLevel, ArmCap, runVars, TaskInv, TypeOK, DriverTypeOK
      <3> QED BY <3>1, <3>2
  <2> QED
      BY <1>24, <2>1, <2>2, <2>3, JobFacts
      DEF ApplyReturn, procVars, watchVars, TaskInv
<1>25. ASSUME NEW a \in Actuator, ApplyRaise(a) PROVE TaskInv'
      BY <1>25, JobFacts
      DEF ApplyRaise, Leave, procVars, watchVars, runVars, TaskInv, TypeOK, DriverTypeOK
<1>26. ASSUME NEW a \in Actuator, CapExpire(a) PROVE TaskInv'
      BY <1>26, JobFacts
      DEF CapExpire, Submit, procVars, watchVars, TaskInv, TypeOK, DriverTypeOK
<1>27. ASSUME NEW a \in Actuator, RunDriven(a) PROVE TaskInv'
      BY <1>27, JobFacts
      DEF RunDriven, MarkSafe, CancelRun, Leave, procVars, watchVars, TaskInv,
          TypeOK, DriverTypeOK
<1>28. ASSUME NEW a \in Actuator, RunFault(a) PROVE TaskInv'
      BY <1>28, JobFacts
      DEF RunFault, Leave, procVars, watchVars, TaskInv, TypeOK, DriverTypeOK, Running
<1>29. ASSUME NEW a \in Actuator, RunRetry(a) PROVE TaskInv'
  <2>1. \A y \in Job : y # RunJob(a) => io'[y] = io[y]
      BY <1>29 DEF RunRetry, Submit, TypeOK, DriverTypeOK
  <2>2. \A b \in Actuator : run'[b] = (IF b = a THEN "driving" ELSE run[b])
      BY <1>29 DEF RunRetry, TypeOK
  <2> QED
      BY <1>29, <2>1, <2>2, JobFacts DEF RunRetry, procVars, watchVars, TaskInv
<1>30. ASSUME NEW a \in Actuator, ClearLatch(a) PROVE TaskInv'
      BY <1>30, JobFacts
      DEF ClearLatch, driverVars, procVars, watchVars, runVars, TaskInv, TypeOK,
          DriverTypeOK
<1>31. ASSUME NEW a \in Actuator, LandOrphanWrite(a) PROVE TaskInv'
      BY <1>31, JobFacts
      DEF LandOrphanWrite, LandOrphan, procVars, watchVars, runVars, TaskInv,
          TypeOK, DriverTypeOK
<1>32. ASSUME NEW a \in Actuator, NEW x \in {WatchJob(a), RunJob(a)}, Unwind(a, x)
         PROVE  TaskInv'
      BY <1>32, JobFacts
      DEF Unwind, Leave, procVars, TaskInv, TypeOK, DriverTypeOK
<1>33. ASSUME NEW a \in Actuator, NEW d \in Duties, NEW e \in BOOLEAN, Apply(a, d, e)
         PROVE  TaskInv'
      BY <1>33, JobFacts
      DEF Apply, Submit, procVars, watchVars, runVars, Verdict, TaskInv, TypeOK,
          DriverTypeOK
<1>34. ASSUME NEW x \in Job, LandWrite(x) PROVE TaskInv'
  <2>1. \A y \in Job : io'[y] = "idle" <=> io[y] = "idle"
      BY <1>34 DEF LandWrite, Land, OnThread, TypeOK, DriverTypeOK
  <2> QED
      BY <1>34, <2>1, JobFacts
      DEF LandWrite, Land, procVars, watchVars, runVars, TaskInv, TypeOK, DriverTypeOK
<1>35. ASSUME NEW x \in Job, FailWrite(x) PROVE TaskInv'
  <2>1. \A y \in Job : io'[y] = "idle" <=> io[y] = "idle"
      BY <1>35 DEF FailWrite, Fault, OnThread, TypeOK, DriverTypeOK
  <2> QED
      BY <1>35, <2>1, JobFacts
      DEF FailWrite, Fault, procVars, watchVars, runVars, TaskInv, TypeOK, DriverTypeOK
<1>s. CASE UNCHANGED vars
      BY <1>s DEF vars, driverVars, procVars, watchVars, runVars, TaskInv, TypeOK,
          DriverTypeOK
<1> QED
    BY <1>1, <1>2, <1>3, <1>4, <1>5, <1>6, <1>7, <1>8, <1>9, <1>10, <1>11, <1>12,
       <1>13, <1>14, <1>15, <1>16, <1>17, <1>18, <1>19, <1>20, <1>21, <1>22, <1>23,
       <1>24, <1>25, <1>26, <1>27, <1>28, <1>29, <1>30, <1>31, <1>32, <1>33, <1>34,
       <1>35,
       <1>s DEF Next, Process, Watcher, Deadline, Consumer

-----------------------------------------------------------------------------
(* The pins, the runtime cap, the trip and the shutdown.                   *)

\* A write lands: only commands put anything but the safe duty on a pin, and only
\* in a serving process.
LEMMA LandFacts ==
    ASSUME TypeOK, LockInv, TaskInv, NEW x \in Job, Land(x)
    PROVE  /\ hw'[x[1]] = snap_duty(duty[x])
           /\ \A b \in Actuator : b # x[1] => hw'[b] = hw[b]
           /\ x # CmdJob(x[1]) => hw'[x[1]] = Safe
           /\ x = CmdJob(x[1]) => proc = "up" /\ x[1] \in guards
           /\ io[x] = "pending" /\ io'[x] = "landed"
           /\ \A y \in Job : y # x => io'[y] = io[y]
<1>1. /\ hw'[x[1]] = snap_duty(duty[x])
      /\ \A b \in Actuator : b # x[1] => hw'[b] = hw[b]
      /\ io[x] = "pending" /\ io'[x] = "landed"
      /\ \A y \in Job : y # x => io'[y] = io[y]
    BY JobFacts DEF Land, OnThread, TypeOK, DriverTypeOK
<1>2. x # CmdJob(x[1]) => hw'[x[1]] = Safe
    BY <1>1, JobFacts, SnapFacts DEF LockInv
<1>3. x = CmdJob(x[1]) => proc = "up" /\ x[1] \in guards
    BY <1>1, JobFacts DEF TaskInv
<1> QED BY <1>1, <1>2, <1>3

\* A PCA9685 channel whose safe write has landed is dark until its task resumes.
LEMMA DrivenDark ==
    ASSUME LockInv, PinInv, NEW a \in Actuator, a \in Pca,
           io[WatchJob(a)] = "landed" \/ io[RunJob(a)] = "landed"
    PROVE  hw[a] = Safe
BY JobFacts, SnapFacts DEF LockInv, PinInv

\* What _mark_safe changes.
LEMMA MarkSafeFacts ==
    ASSUME TypeOK, NEW a \in Actuator, NEW x \in Job, MarkSafe(a, x)
    PROVE  /\ run'[a] = "none"
           /\ \A b \in Actuator : b # a => /\ atSafe'[b] = atSafe[b]
                                           /\ run'[b] = run[b] /\ capLeft'[b] = capLeft[b]
           /\ \A y \in Job : io'[y] = IF y \in {x, RunJob(a)} THEN "idle" ELSE io[y]
           /\ \A y \in Job : y \notin {x, RunJob(a)} => ahead'[y] = ahead[y] \ {x, RunJob(a)}
<1>1. run'[a] = "none" /\ \A b \in Actuator : b # a => /\ atSafe'[b] = atSafe[b]
                                           /\ run'[b] = run[b] /\ capLeft'[b] = capLeft[b]
    BY DEF MarkSafe, CancelRun, TypeOK
<1>2. \A y \in Job : io'[y] = IF y \in {x, RunJob(a)} THEN "idle" ELSE io[y]
    BY DEF MarkSafe, CancelRun, Leave
<1>3. \A y \in Job : y \notin {x, RunJob(a)} => ahead'[y] = ahead[y] \ {x, RunJob(a)}
    BY DEF MarkSafe, CancelRun, Leave
<1> QED BY <1>1, <1>2, <1>3

\* Two writes of one chip are never both past the lock.
LEMMA OnePastLock ==
    ASSUME LockInv, NEW x \in Job, NEW y \in Job, x # y, SameLock(x, y),
           ahead[x] = {}, ahead[y] = {}, io[x] # "idle", io[y] # "idle"
    PROVE  FALSE
BY DEF LockInv

\* A task that resumes from a PCA9685 write never orphans the deadline task's.
LEMMA NoPcaOrphan ==
    ASSUME LockInv, PinInv, NEW a \in Actuator,
           NEW x \in {CmdJob(a), WatchJob(a), RunJob(a)}, io[x] = "landed", CancelRun(a, x)
    PROVE  orphan' \cap Pca = {}
<1>1. ASSUME a \in Pca, x # RunJob(a), OnThread(RunJob(a)) PROVE FALSE
  <2>1. SameLock(x, RunJob(a))
      BY <1>1, JobFacts DEF SameLock
  <2>2. ahead[x] = {} /\ ahead[RunJob(a)] = {} /\ io[RunJob(a)] # "idle"
      BY <1>1, JobFacts DEF LockInv, OnThread
  <2> QED BY <1>1, <2>1, <2>2, OnePastLock, JobFacts
<1> QED BY <1>1 DEF CancelRun, PinInv

\* What is known of the pins stays true.
LEMMA PinStep == TypeOK /\ LockInv /\ TaskInv /\ PinInv /\ [Next]_vars => PinInv'
<1> SUFFICES ASSUME TypeOK, LockInv, TaskInv, PinInv, [Next]_vars PROVE PinInv'
    OBVIOUS
<1>1. ASSUME NEW S \in SUBSET (Actuator \ Drill), Boot(S) PROVE PinInv'
  <2>1. ASSUME NEW a \in Actuator
        PROVE  /\ io[CmdJob(a)] = "idle" /\ io[WatchJob(a)] = "idle"
               /\ io[RunJob(a)] = "idle" /\ io[MainJob(a)] = "idle"
      BY <1>1, JobFacts DEF Boot, TaskInv
  <2>2. \A x \in Job : io[x] = "idle"
      BY <2>1, JobFacts
  <2> QED BY <1>1, <2>2, JobFacts DEF Boot, FreshMemory, PinInv, TypeOK, DriverTypeOK
<1>2. CASE StartDone
      BY <1>2, JobFacts, SnapFacts
      DEF StartDone, Die, FreshMemory, NoWrites, driverVars, watchVars, runVars,
          PinInv, TaskInv, TypeOK, DriverTypeOK
<1>3. CASE Serve
      BY <1>3, JobFacts, SnapFacts
      DEF Serve, driverVars, watchVars, runVars, PinInv, TaskInv, TypeOK, DriverTypeOK
<1>4. CASE Stop
      BY <1>4, JobFacts, SnapFacts
      DEF Stop, driverVars, watchVars, runVars, PinInv, TaskInv, TypeOK, DriverTypeOK
<1>5. CASE Exit
      BY <1>5, JobFacts, SnapFacts
      DEF Exit, Die, FreshMemory, NoWrites, PinInv, TaskInv, TypeOK, DriverTypeOK
<1>6. CASE Crash
      BY <1>6, JobFacts, SnapFacts
      DEF Crash, Die, FreshMemory, NoWrites, PinInv, TaskInv, TypeOK, DriverTypeOK
<1>7. CASE Heartbeat
      BY <1>7, JobFacts, SnapFacts
      DEF Heartbeat, driverVars, procVars, runVars, PinInv, TaskInv, TypeOK, DriverTypeOK
<1>8. CASE SetClockTrusted
      BY <1>8, JobFacts, SnapFacts
      DEF SetClockTrusted, driverVars, watchVars, runVars, PinInv, TaskInv,
          TypeOK, DriverTypeOK
<1>9. CASE Tick
      BY <1>9, JobFacts, SnapFacts
      DEF Tick, driverVars, procVars, Down, PinInv, TaskInv, TypeOK, DriverTypeOK
<1>10. ASSUME NEW a \in Actuator, StartDrive(a) PROVE PinInv'
      BY <1>10, JobFacts, SnapFacts
      DEF StartDrive, Submit, procVars, runVars, PinInv, TaskInv, TypeOK, DriverTypeOK
<1>11. ASSUME NEW a \in Actuator, StartReturn(a) PROVE PinInv'
      BY <1>11, JobFacts, SnapFacts
      DEF StartReturn, Leave, runVars, PinInv, TaskInv, TypeOK, DriverTypeOK
<1>12. ASSUME NEW a \in Actuator, OpenOk(a) PROVE PinInv'
  <2>1. \A b \in Actuator : hw'[b] = Safe \/ hw'[b] = hw[b]
      BY <1>12 DEF OpenOk, TypeOK, DriverTypeOK
  <2>2. a \notin guards /\ onFor[a] = 0
      BY <1>12 DEF OpenOk, TaskInv
  <2>3. hw'[a] = Safe
      BY <1>12, <2>2 DEF OpenOk, PinInv, TypeOK, DriverTypeOK
  <2>4. \A b \in Actuator : b \in guards' => hw'[b] = Safe /\ onFor[b] = 0
      BY <1>12, <2>1, <2>2, <2>3 DEF OpenOk, PinInv
  <2>5. \A x \in Job : io[x] = "landed" => duty[x] = Safe
    <3> SUFFICES ASSUME NEW x \in Job, io[x] = "landed" PROVE duty[x] = Safe
        OBVIOUS
    <3>1. x # CmdJob(x[1])
        BY <1>12, JobFacts DEF OpenOk, TaskInv
    <3> QED BY <3>1, JobFacts DEF LockInv
  <2>6. \A x \in Job : io[x] = "landed" /\ x[1] \in Pca => hw'[x[1]] = Safe
      BY <2>1, <2>5, SnapFacts, JobFacts DEF PinInv
  <2>7. \A b \in Pca : Board[b] \in chips' /\ b \notin guards' => hw'[b] = Safe
    <3> SUFFICES ASSUME NEW b \in Pca, Board[b] \in chips', b \notin guards' PROVE hw'[b] = Safe
        OBVIOUS
    <3>1. CASE Board[b] \in chips
        BY <1>12, <2>1, <3>1, DriverAssumption DEF OpenOk, PinInv
    <3>2. CASE Board[b] \notin chips
        BY <1>12, <3>2, DriverAssumption DEF OpenOk, TypeOK, DriverTypeOK
    <3> QED BY <3>1, <3>2
  <2> QED
      BY <1>12, <2>4, <2>5, <2>6, <2>7, SnapFacts DEF OpenOk, runVars, PinInv, TypeOK
<1>13. ASSUME NEW a \in Actuator, OpenFail(a) PROVE PinInv'
  <2>1. \A b \in Actuator : hw'[b] = Safe \/ hw'[b] = hw[b]
      BY <1>13 DEF OpenFail, TypeOK, DriverTypeOK
  <2>2. \A b \in Actuator : b \in guards => hw[b] = Safe /\ hw'[b] = Safe
      BY <1>13, <2>1 DEF OpenFail, PinInv
  <2>3. \A x \in Job : io[x] = "landed" => duty[x] = Safe
    <3> SUFFICES ASSUME NEW x \in Job, io[x] = "landed" PROVE duty[x] = Safe
        OBVIOUS
    <3>1. x # CmdJob(x[1])
        BY <1>13, JobFacts DEF OpenFail, TaskInv
    <3> QED BY <3>1, JobFacts DEF LockInv
  <2>4. \A x \in Job : io[x] = "landed" /\ x[1] \in Pca => hw'[x[1]] = Safe
      BY <2>1, <2>3, SnapFacts, JobFacts DEF PinInv
  <2> QED
      BY <1>13, <2>1, <2>2, <2>3, <2>4, SnapFacts, DriverAssumption
      DEF OpenFail, watchVars, runVars, PinInv, TypeOK
<1>14. ASSUME NEW a \in Actuator, StopCancel(a) PROVE PinInv'
      BY <1>14, JobFacts, SnapFacts
      DEF StopCancel, Leave, PinInv, TaskInv, TypeOK, DriverTypeOK
<1>15. ASSUME NEW a \in Actuator, StopDrive(a) PROVE PinInv'
      BY <1>15, JobFacts, SnapFacts
      DEF StopDrive, Submit, procVars, watchVars, runVars, PinInv, TaskInv,
          TypeOK, DriverTypeOK
<1>16. ASSUME NEW a \in Actuator, StopReturn(a) PROVE PinInv'
      BY <1>16, JobFacts, SnapFacts
      DEF StopReturn, Leave, watchVars, runVars, PinInv, TaskInv, TypeOK, DriverTypeOK
<1>17. ASSUME NEW a \in Actuator, WatchBeat(a) PROVE PinInv'
      BY <1>17, JobFacts, SnapFacts
      DEF WatchBeat, driverVars, procVars, runVars, PinInv, TaskInv, TypeOK, DriverTypeOK
<1>18. ASSUME NEW a \in Actuator, WatchTrip(a) PROVE PinInv'
      BY <1>18, JobFacts, SnapFacts
      DEF WatchTrip, Submit, procVars, runVars, PinInv, TaskInv, TypeOK, DriverTypeOK
<1>19. ASSUME NEW a \in Actuator, WatchEnd(a) PROVE PinInv'
      BY <1>19, JobFacts, SnapFacts
      DEF WatchEnd, driverVars, procVars, runVars, PinInv, TaskInv, TypeOK, DriverTypeOK
<1>20. ASSUME NEW a \in Actuator, WatchDriven(a) PROVE PinInv'
  <2>1. orphan' \cap Pca = {}
      BY <1>20, NoPcaOrphan DEF WatchDriven, MarkSafe
  <2>2. \A y \in Job : io'[y] = "landed" => io[y] = "landed" /\ duty'[y] = duty[y]
      BY <1>20 DEF WatchDriven, MarkSafe, CancelRun, Leave
  <2> QED
      BY <1>20, <2>1, <2>2, JobFacts DEF WatchDriven, procVars, PinInv, TaskInv, TypeOK
<1>21. ASSUME NEW a \in Actuator, WatchFault(a) PROVE PinInv'
      BY <1>21, JobFacts, SnapFacts
      DEF WatchFault, Leave, procVars, runVars, PinInv, TaskInv, TypeOK, DriverTypeOK
<1>22. ASSUME NEW a \in Actuator, WatchRetry(a) PROVE PinInv'
      BY <1>22, JobFacts, SnapFacts
      DEF WatchRetry, Submit, procVars, runVars, PinInv, TaskInv, TypeOK, DriverTypeOK
<1>23. ASSUME NEW a \in Actuator, WatchRecover(a) PROVE PinInv'
      BY <1>23, JobFacts, SnapFacts
      DEF WatchRecover, driverVars, procVars, runVars, PinInv, TaskInv, TypeOK, DriverTypeOK
<1>24. ASSUME NEW a \in Actuator, ApplyReturn(a) PROVE PinInv'
  <2>1. orphan' \cap Pca = {}
      BY <1>24, NoPcaOrphan DEF ApplyReturn, NoteLevel, MarkSafe, PinInv
  <2>2. \A y \in Job : io'[y] = "landed" => io[y] = "landed" /\ duty'[y] = duty[y]
      BY <1>24 DEF ApplyReturn, NoteLevel, MarkSafe, CancelRun, Leave
  <2> QED
      BY <1>24, <2>1, <2>2, JobFacts DEF ApplyReturn, procVars, watchVars, PinInv
<1>25. ASSUME NEW a \in Actuator, ApplyRaise(a) PROVE PinInv'
      BY <1>25, JobFacts, SnapFacts
      DEF ApplyRaise, Leave, procVars, watchVars, runVars, PinInv, TaskInv,
          TypeOK, DriverTypeOK
<1>26. ASSUME NEW a \in Actuator, CapExpire(a) PROVE PinInv'
      BY <1>26, JobFacts, SnapFacts
      DEF CapExpire, Submit, procVars, watchVars, PinInv, TaskInv, TypeOK, DriverTypeOK
<1>27. ASSUME NEW a \in Actuator, RunDriven(a) PROVE PinInv'
      BY <1>27, JobFacts, SnapFacts
      DEF RunDriven, MarkSafe, CancelRun, Leave, procVars, watchVars, PinInv,
          TaskInv, TypeOK, DriverTypeOK
<1>28. ASSUME NEW a \in Actuator, RunFault(a) PROVE PinInv'
      BY <1>28, JobFacts, SnapFacts
      DEF RunFault, Leave, procVars, watchVars, PinInv, TaskInv, TypeOK, DriverTypeOK
<1>29. ASSUME NEW a \in Actuator, RunRetry(a) PROVE PinInv'
      BY <1>29, JobFacts, SnapFacts
      DEF RunRetry, Submit, procVars, watchVars, PinInv, TaskInv, TypeOK, DriverTypeOK
<1>30. ASSUME NEW a \in Actuator, ClearLatch(a) PROVE PinInv'
      BY <1>30, JobFacts, SnapFacts
      DEF ClearLatch, driverVars, procVars, watchVars, runVars, PinInv, TaskInv,
          TypeOK, DriverTypeOK
<1>31. ASSUME NEW a \in Actuator, LandOrphanWrite(a) PROVE PinInv'
  <2>1. /\ a \notin Pca
        /\ \A b \in Actuator : b # a => hw'[b] = hw[b] /\ onFor'[b] = onFor[b]
        /\ hw'[a] = Safe \/ hw'[a] = hw[a]
        /\ onFor'[a] = IF hw'[a] = Safe THEN 0 ELSE onFor[a]
      BY <1>31 DEF LandOrphanWrite, LandOrphan, PinInv, TypeOK, DriverTypeOK
  <2>2. UNCHANGED <<io, duty, ahead, proc, chips, failures, guards, watch>>
      BY <1>31 DEF LandOrphanWrite, LandOrphan, procVars, watchVars
  <2>3. orphan' \cap Pca = {}
      BY <1>31 DEF LandOrphanWrite, LandOrphan, PinInv
  <2>4. \A y \in Job : io'[y] = "landed" /\ y[1] \in Pca => hw'[y[1]] = snap_duty(duty'[y])
      BY <2>1, <2>2, JobFacts DEF PinInv
  <2>5. \A b \in Pca : Board[b] \in chips' /\ b \notin guards' => hw'[b] = Safe
      BY <2>1, <2>2, DriverAssumption DEF PinInv
  <2>6. \A b \in Actuator : hw'[b] = Safe /\ b \in guards' => onFor'[b] = 0
      BY <2>1, <2>2 DEF PinInv
  <2>7. \A b \in Actuator : hw[b] = Safe => hw'[b] = Safe
      BY <2>1
  <2> QED
      BY <2>2, <2>3, <2>4, <2>5, <2>6, <2>7 DEF PinInv, TypeOK
<1>32. ASSUME NEW a \in Actuator, NEW x \in {WatchJob(a), RunJob(a)}, Unwind(a, x)
         PROVE  PinInv'
      BY <1>32, JobFacts, SnapFacts
      DEF Unwind, Leave, procVars, PinInv, TaskInv, TypeOK, DriverTypeOK
<1>33. ASSUME NEW a \in Actuator, NEW d \in Duties, NEW e \in BOOLEAN, Apply(a, d, e)
         PROVE  PinInv'
      BY <1>33, JobFacts, SnapFacts
      DEF Apply, Submit, procVars, watchVars, runVars, Verdict, PinInv, TaskInv,
          TypeOK, DriverTypeOK
<1>34. ASSUME NEW x \in Job, LandWrite(x) PROVE PinInv'
  <2>1. Land(x)
      BY <1>34 DEF LandWrite
  <2>2. /\ hw'[x[1]] = snap_duty(duty[x])
        /\ \A b \in Actuator : b # x[1] => hw'[b] = hw[b]
        /\ x # CmdJob(x[1]) => hw'[x[1]] = Safe
        /\ x = CmdJob(x[1]) => proc = "up" /\ x[1] \in guards
      BY <2>1, LandFacts
  <2>3. /\ onFor'[x[1]] = IF hw'[x[1]] = Safe THEN 0 ELSE onFor[x[1]]
        /\ \A b \in Actuator : b # x[1] => onFor'[b] = onFor[b]
      BY <1>34, JobFacts DEF LandWrite, TypeOK
  <2>4. \A y \in Job : io'[y] = "landed" /\ y[1] \in Pca => hw'[y[1]] = snap_duty(duty'[y])
    <3> SUFFICES ASSUME NEW y \in Job, io'[y] = "landed", y[1] \in Pca, y # x, y[1] = x[1]
                 PROVE  FALSE
        BY <2>1, <2>2, LandFacts, JobFacts DEF Land, PinInv
    <3>1. io[y] = "landed" /\ SameLock(x, y) /\ ahead[y] = {}
        BY <2>1, LandFacts DEF SameLock, LockInv
    <3>2. ahead[x] = {} /\ io[x] # "idle"
        BY <2>1 DEF Land, OnThread
    <3> QED BY <3>1, <3>2, OnePastLock
  <2>5. \A b \in Actuator : proc = "starting" /\ io'[MainJob(b)] = "landed" => hw'[b] = Safe
      BY <2>1, <2>2, LandFacts, JobFacts DEF PinInv
  <2>6. \A b \in Actuator : proc # "up" => hw'[b] = Safe \/ hw'[b] = hw[b]
      BY <2>2
  <2>7. \A b \in Pca : Board[b] \in chips /\ b \notin guards => hw'[b] = Safe
      BY <2>2, DriverAssumption DEF PinInv
  <2> QED
      BY <1>34, <2>2, <2>3, <2>4, <2>5, <2>6, <2>7
      DEF LandWrite, Land, procVars, watchVars, PinInv, TypeOK
<1>35. ASSUME NEW x \in Job, FailWrite(x) PROVE PinInv'
      BY <1>35, JobFacts, SnapFacts
      DEF FailWrite, Fault, procVars, watchVars, runVars, PinInv, TaskInv, TypeOK,
          DriverTypeOK
<1>s. CASE UNCHANGED vars
      BY <1>s DEF vars, driverVars, procVars, watchVars, runVars, PinInv, TaskInv,
          TypeOK, DriverTypeOK
<1> QED
    BY <1>1, <1>2, <1>3, <1>4, <1>5, <1>6, <1>7, <1>8, <1>9, <1>10, <1>11, <1>12,
       <1>13, <1>14, <1>15, <1>16, <1>17, <1>18, <1>19, <1>20, <1>21, <1>22, <1>23,
       <1>24, <1>25, <1>26, <1>27, <1>28, <1>29, <1>30, <1>31, <1>32, <1>33, <1>34,
       <1>35,
       <1>s DEF Next, Process, Watcher, Deadline, Consumer

\* An energised channel keeps its deadline task.
LEMMA CappedStep ==
    TypeOK /\ LockInv /\ TaskInv /\ PinInv /\ EnergisedIsCapped /\ [Next]_vars
       => EnergisedIsCapped'
<1> SUFFICES ASSUME TypeOK, LockInv, TaskInv, PinInv, EnergisedIsCapped, [Next]_vars
             PROVE  EnergisedIsCapped'
    OBVIOUS
<1>1. ASSUME NEW S \in SUBSET (Actuator \ Drill), Boot(S) PROVE EnergisedIsCapped'
      BY <1>1, JobFacts, SnapFacts, DriverAssumption
      DEF Boot, FreshMemory, driverVars, EnergisedIsCapped, Capped, Energised,
          Serving, TypeOK, DriverTypeOK, TaskInv, PinInv
<1>2. CASE StartDone
      BY <1>2, JobFacts, SnapFacts, DriverAssumption
      DEF StartDone, Die, FreshMemory, NoWrites, driverVars, watchVars, runVars,
          EnergisedIsCapped, Capped, Energised, Serving, TypeOK, DriverTypeOK,
          TaskInv, PinInv
<1>3. CASE Serve
      BY <1>3, JobFacts, SnapFacts, DriverAssumption
      DEF Serve, driverVars, watchVars, runVars, EnergisedIsCapped, Capped,
          Energised, Serving, TypeOK, DriverTypeOK, TaskInv, PinInv
<1>4. CASE Stop
      BY <1>4, JobFacts, SnapFacts, DriverAssumption
      DEF Stop, driverVars, watchVars, runVars, EnergisedIsCapped, Capped,
          Energised, Serving, TypeOK, DriverTypeOK, TaskInv, PinInv
<1>5. CASE Exit
      BY <1>5, JobFacts, SnapFacts, DriverAssumption
      DEF Exit, Die, FreshMemory, NoWrites, EnergisedIsCapped, Capped, Energised,
          Serving, TypeOK, DriverTypeOK, TaskInv, PinInv
<1>6. CASE Crash
      BY <1>6, JobFacts, SnapFacts, DriverAssumption
      DEF Crash, Die, FreshMemory, NoWrites, EnergisedIsCapped, Capped, Energised,
          Serving, TypeOK, DriverTypeOK, TaskInv, PinInv
<1>7. CASE Heartbeat
      BY <1>7, JobFacts, SnapFacts, DriverAssumption
      DEF Heartbeat, driverVars, procVars, runVars, EnergisedIsCapped, Capped,
          Energised, Serving, TypeOK, DriverTypeOK, TaskInv, PinInv
<1>8. CASE SetClockTrusted
      BY <1>8, JobFacts, SnapFacts, DriverAssumption
      DEF SetClockTrusted, driverVars, watchVars, runVars, EnergisedIsCapped,
          Capped, Energised, Serving, TypeOK, DriverTypeOK, TaskInv, PinInv
<1>9. CASE Tick
      BY <1>9, JobFacts, SnapFacts, DriverAssumption
      DEF Tick, driverVars, procVars, Down, EnergisedIsCapped, Capped, Energised,
          Serving, TypeOK, DriverTypeOK, TaskInv, PinInv
<1>10. ASSUME NEW a \in Actuator, StartDrive(a) PROVE EnergisedIsCapped'
      BY <1>10, JobFacts, SnapFacts, DriverAssumption
      DEF StartDrive, Submit, procVars, runVars, EnergisedIsCapped, Capped,
          Energised, Serving, TypeOK, DriverTypeOK, TaskInv, PinInv
<1>11. ASSUME NEW a \in Actuator, StartReturn(a) PROVE EnergisedIsCapped'
      BY <1>11, JobFacts, SnapFacts, DriverAssumption
      DEF StartReturn, Leave, runVars, EnergisedIsCapped, Capped, Energised,
          Serving, TypeOK, DriverTypeOK, TaskInv, PinInv
<1>12. ASSUME NEW a \in Actuator, OpenOk(a) PROVE EnergisedIsCapped'
      BY <1>12, JobFacts, SnapFacts, DriverAssumption
      DEF OpenOk, runVars, EnergisedIsCapped, Capped, Energised, Serving, TypeOK,
          DriverTypeOK, TaskInv, PinInv
<1>13. ASSUME NEW a \in Actuator, OpenFail(a) PROVE EnergisedIsCapped'
      BY <1>13, JobFacts, SnapFacts, DriverAssumption
      DEF OpenFail, watchVars, runVars, SameLock, EnergisedIsCapped, Capped,
          Energised, Serving, TypeOK, DriverTypeOK, TaskInv, PinInv
<1>14. ASSUME NEW a \in Actuator, StopCancel(a) PROVE EnergisedIsCapped'
      BY <1>14, JobFacts, SnapFacts, DriverAssumption
      DEF StopCancel, Leave, EnergisedIsCapped, Capped, Energised, Serving,
          TypeOK, DriverTypeOK, TaskInv, PinInv
<1>15. ASSUME NEW a \in Actuator, StopDrive(a) PROVE EnergisedIsCapped'
      BY <1>15, JobFacts, SnapFacts, DriverAssumption
      DEF StopDrive, Submit, procVars, watchVars, runVars, EnergisedIsCapped,
          Capped, Energised, Serving, TypeOK, DriverTypeOK, TaskInv, PinInv
<1>16. ASSUME NEW a \in Actuator, StopReturn(a) PROVE EnergisedIsCapped'
      BY <1>16, JobFacts, SnapFacts, DriverAssumption
      DEF StopReturn, Leave, watchVars, runVars, EnergisedIsCapped, Capped,
          Energised, Serving, TypeOK, DriverTypeOK, TaskInv, PinInv
<1>17. ASSUME NEW a \in Actuator, WatchBeat(a) PROVE EnergisedIsCapped'
      BY <1>17, JobFacts, SnapFacts, DriverAssumption
      DEF WatchBeat, driverVars, procVars, runVars, EnergisedIsCapped, Capped,
          Energised, Serving, TypeOK, DriverTypeOK, TaskInv, PinInv
<1>18. ASSUME NEW a \in Actuator, WatchTrip(a) PROVE EnergisedIsCapped'
      BY <1>18, JobFacts, SnapFacts, DriverAssumption
      DEF WatchTrip, Submit, procVars, runVars, EnergisedIsCapped, Capped,
          Energised, Serving, TypeOK, DriverTypeOK, TaskInv, PinInv
<1>19. ASSUME NEW a \in Actuator, WatchEnd(a) PROVE EnergisedIsCapped'
      BY <1>19, JobFacts, SnapFacts, DriverAssumption
      DEF WatchEnd, driverVars, procVars, runVars, EnergisedIsCapped, Capped,
          Energised, Serving, TypeOK, DriverTypeOK, TaskInv, PinInv
<1>20. ASSUME NEW a \in Actuator, WatchDriven(a) PROVE EnergisedIsCapped'
  <2>1. a \in Pca => hw[a] = Safe
      BY <1>20, DrivenDark DEF WatchDriven
  <2>2. \A b \in Actuator : b # a => atSafe'[b] = atSafe[b] /\ run'[b] = run[b]
                                      /\ io'[CmdJob(b)] = io[CmdJob(b)]
      BY <1>20, MarkSafeFacts, JobFacts, JobsDiffer DEF WatchDriven
  <2> QED
      BY <1>20, <2>1, <2>2, DriverAssumption
      DEF WatchDriven, procVars, EnergisedIsCapped, Capped, Energised, Serving
<1>21. ASSUME NEW a \in Actuator, WatchFault(a) PROVE EnergisedIsCapped'
      BY <1>21, JobFacts, SnapFacts, DriverAssumption
      DEF WatchFault, Leave, procVars, runVars, EnergisedIsCapped, Capped,
          Energised, Serving, TypeOK, DriverTypeOK, TaskInv, PinInv
<1>22. ASSUME NEW a \in Actuator, WatchRetry(a) PROVE EnergisedIsCapped'
      BY <1>22, JobFacts, SnapFacts, DriverAssumption
      DEF WatchRetry, Submit, procVars, runVars, EnergisedIsCapped, Capped,
          Energised, Serving, TypeOK, DriverTypeOK, TaskInv, PinInv
<1>23. ASSUME NEW a \in Actuator, WatchRecover(a) PROVE EnergisedIsCapped'
      BY <1>23, JobFacts, SnapFacts, DriverAssumption
      DEF WatchRecover, driverVars, procVars, runVars, EnergisedIsCapped, Capped,
          Energised, Serving, TypeOK, DriverTypeOK, TaskInv, PinInv
<1>24. ASSUME NEW a \in Actuator, ApplyReturn(a) PROVE EnergisedIsCapped'
  <2>1. a \in Pca => hw[a] = effective_level(duty[CmdJob(a)])
      BY <1>24, JobFacts DEF ApplyReturn, PinInv, effective_level
  <2>2. CASE effective_level(duty[CmdJob(a)]) = Safe
    <3>1. \A b \in Actuator : b # a => atSafe'[b] = atSafe[b] /\ run'[b] = run[b]
                                       /\ io'[CmdJob(b)] = io[CmdJob(b)]
        BY <1>24, <2>2, MarkSafeFacts, JobFacts, JobsDiffer DEF ApplyReturn, NoteLevel
    <3> QED
        BY <1>24, <2>1, <2>2, <3>1, DriverAssumption
        DEF ApplyReturn, procVars, EnergisedIsCapped, Capped, Energised, Serving
  <2>3. CASE effective_level(duty[CmdJob(a)]) # Safe
    <3>1. ~atSafe'[a] /\ \A b \in Actuator : b # a => atSafe'[b] = atSafe[b]
        BY <1>24, <2>3 DEF ApplyReturn, NoteLevel, TypeOK
    <3>2. run'[a] # "none" /\ \A b \in Actuator : b # a => run'[b] = run[b]
        BY <1>24, <2>3 DEF ApplyReturn, NoteLevel, ArmCap, runVars, TypeOK
    <3>3. \A b \in Actuator : b # a => io'[CmdJob(b)] = io[CmdJob(b)]
        BY <1>24, <2>3, JobFacts, JobsDiffer DEF ApplyReturn, NoteLevel, Leave
    <3> QED
        BY <1>24, <3>1, <3>2, <3>3, DriverAssumption
        DEF ApplyReturn, procVars, EnergisedIsCapped, Capped, Energised, Serving
  <2> QED BY <2>2, <2>3
<1>25. ASSUME NEW a \in Actuator, ApplyRaise(a) PROVE EnergisedIsCapped'
      BY <1>25, JobFacts, SnapFacts, DriverAssumption
      DEF ApplyRaise, Leave, procVars, watchVars, runVars, EnergisedIsCapped,
          Capped, Energised, Serving, TypeOK, DriverTypeOK, TaskInv, PinInv
<1>26. ASSUME NEW a \in Actuator, CapExpire(a) PROVE EnergisedIsCapped'
      BY <1>26, JobFacts, SnapFacts, DriverAssumption
      DEF CapExpire, Submit, procVars, watchVars, EnergisedIsCapped, Capped,
          Energised, Serving, TypeOK, DriverTypeOK, TaskInv, PinInv
<1>27. ASSUME NEW a \in Actuator, RunDriven(a) PROVE EnergisedIsCapped'
  <2>1. a \in Pca => hw[a] = Safe
      BY <1>27, DrivenDark DEF RunDriven
  <2>2. \A b \in Actuator : b # a => atSafe'[b] = atSafe[b] /\ run'[b] = run[b]
                                      /\ io'[CmdJob(b)] = io[CmdJob(b)]
      BY <1>27, MarkSafeFacts, JobFacts, JobsDiffer DEF RunDriven
  <2> QED
      BY <1>27, <2>1, <2>2, DriverAssumption
      DEF RunDriven, procVars, EnergisedIsCapped, Capped, Energised, Serving
<1>28. ASSUME NEW a \in Actuator, RunFault(a) PROVE EnergisedIsCapped'
  <2>1. Serving => \A b \in Actuator : run[b] # "none" => run'[b] # "none"
      BY <1>28 DEF RunFault, Running, Serving, TypeOK
  <2>2. \A b \in Actuator : io'[CmdJob(b)] = io[CmdJob(b)]
      BY <1>28, JobFacts DEF RunFault, Leave
  <2> QED
      BY <1>28, <2>1, <2>2, DriverAssumption
      DEF RunFault, procVars, EnergisedIsCapped, Capped, Energised, Serving
<1>29. ASSUME NEW a \in Actuator, RunRetry(a) PROVE EnergisedIsCapped'
      BY <1>29, JobFacts, SnapFacts, DriverAssumption
      DEF RunRetry, Submit, procVars, watchVars, EnergisedIsCapped, Capped,
          Energised, Serving, TypeOK, DriverTypeOK, TaskInv, PinInv
<1>30. ASSUME NEW a \in Actuator, ClearLatch(a) PROVE EnergisedIsCapped'
      BY <1>30, JobFacts, SnapFacts, DriverAssumption
      DEF ClearLatch, driverVars, procVars, watchVars, runVars, EnergisedIsCapped,
          Capped, Energised, Serving, TypeOK, DriverTypeOK, TaskInv, PinInv
<1>31. ASSUME NEW a \in Actuator, LandOrphanWrite(a) PROVE EnergisedIsCapped'
      BY <1>31, JobFacts, SnapFacts, DriverAssumption
      DEF LandOrphanWrite, LandOrphan, procVars, watchVars, runVars,
          EnergisedIsCapped, Capped, Energised, Serving, TypeOK, DriverTypeOK,
          TaskInv, PinInv
<1>32. ASSUME NEW a \in Actuator, NEW x \in {WatchJob(a), RunJob(a)}, Unwind(a, x)
         PROVE  EnergisedIsCapped'
      BY <1>32, JobFacts, SnapFacts, DriverAssumption
      DEF Unwind, Leave, procVars, EnergisedIsCapped, Capped, Energised, Serving,
          TypeOK, DriverTypeOK, TaskInv, PinInv
<1>33. ASSUME NEW a \in Actuator, NEW d \in Duties, NEW e \in BOOLEAN, Apply(a, d, e)
         PROVE  EnergisedIsCapped'
      BY <1>33, JobFacts, SnapFacts, DriverAssumption
      DEF Apply, Submit, procVars, watchVars, runVars, Verdict, EnergisedIsCapped,
          Capped, Energised, Serving, TypeOK, DriverTypeOK, TaskInv, PinInv
<1>34. ASSUME NEW x \in Job, LandWrite(x) PROVE EnergisedIsCapped'
  <2>1. Land(x)
      BY <1>34 DEF LandWrite
  <2>2. \A b \in Actuator : hw'[b] # Safe /\ io'[CmdJob(b)] # "landed"
                               => hw[b] # Safe /\ io[CmdJob(b)] # "landed"
      BY <2>1, LandFacts, JobFacts, JobsDiffer
  <2> QED
      BY <1>34, <2>2, DriverAssumption
      DEF LandWrite, procVars, runVars, EnergisedIsCapped, Capped, Energised, Serving
<1>35. ASSUME NEW x \in Job, FailWrite(x) PROVE EnergisedIsCapped'
  <2>1. \A b \in Actuator : io'[CmdJob(b)] = io[CmdJob(b)]
                              \/ io[CmdJob(b)] = "pending"
      BY <1>35, JobFacts DEF FailWrite, Fault, OnThread, TypeOK, DriverTypeOK
  <2> QED
      BY <1>35, <2>1, DriverAssumption
      DEF FailWrite, Fault, procVars, runVars, EnergisedIsCapped, Capped, Energised, Serving
<1>s. CASE UNCHANGED vars
      BY <1>s DEF vars, driverVars, procVars, watchVars, runVars,
          EnergisedIsCapped, Capped, Energised, Serving, TypeOK, DriverTypeOK,
          TaskInv, PinInv
<1> QED
    BY <1>1, <1>2, <1>3, <1>4, <1>5, <1>6, <1>7, <1>8, <1>9, <1>10, <1>11, <1>12,
       <1>13, <1>14, <1>15, <1>16, <1>17, <1>18, <1>19, <1>20, <1>21, <1>22, <1>23,
       <1>24, <1>25, <1>26, <1>27, <1>28, <1>29, <1>30, <1>31, <1>32, <1>33, <1>34,
       <1>35,
       <1>s DEF Next, Process, Watcher, Deadline, Consumer

\* The cap's arithmetic is kept by every step, Tick above all.
LEMMA CapStep ==
    TypeOK /\ LockInv /\ TaskInv /\ PinInv /\ EnergisedIsCapped /\ CapInv /\ [Next]_vars
       => CapInv'
<1> SUFFICES ASSUME TypeOK, LockInv, TaskInv, PinInv, EnergisedIsCapped, CapInv, [Next]_vars
             PROVE  CapInv'
    OBVIOUS
<1>1. ASSUME NEW S \in SUBSET (Actuator \ Drill), Boot(S) PROVE CapInv'
      BY <1>1, JobFacts, SnapFacts, DriverAssumption, InterlockAssumption
      DEF Boot, FreshMemory, driverVars, CapInv, Serving, TypeOK, DriverTypeOK,
          TaskInv, PinInv
<1>2. CASE StartDone
      BY <1>2, JobFacts, SnapFacts, DriverAssumption, InterlockAssumption
      DEF StartDone, Die, FreshMemory, NoWrites, driverVars, watchVars, runVars,
          CapInv, Serving, TypeOK, DriverTypeOK, TaskInv, PinInv
<1>3. CASE Serve
      BY <1>3, JobFacts, SnapFacts, DriverAssumption, InterlockAssumption
      DEF Serve, driverVars, watchVars, runVars, CapInv, Serving, TypeOK,
          DriverTypeOK, TaskInv, PinInv
<1>4. CASE Stop
      BY <1>4, JobFacts, SnapFacts, DriverAssumption, InterlockAssumption
      DEF Stop, driverVars, watchVars, runVars, CapInv, Serving, TypeOK,
          DriverTypeOK, TaskInv, PinInv
<1>5. CASE Exit
      BY <1>5, JobFacts, SnapFacts, DriverAssumption, InterlockAssumption
      DEF Exit, Die, FreshMemory, NoWrites, CapInv, Serving, TypeOK, DriverTypeOK,
          TaskInv, PinInv
<1>6. CASE Crash
      BY <1>6, JobFacts, SnapFacts, DriverAssumption, InterlockAssumption
      DEF Crash, Die, FreshMemory, NoWrites, CapInv, Serving, TypeOK,
          DriverTypeOK, TaskInv, PinInv
<1>7. CASE Heartbeat
      BY <1>7, JobFacts, SnapFacts, DriverAssumption, InterlockAssumption
      DEF Heartbeat, driverVars, procVars, runVars, CapInv, Serving, TypeOK,
          DriverTypeOK, TaskInv, PinInv
<1>8. CASE SetClockTrusted
      BY <1>8, JobFacts, SnapFacts, DriverAssumption, InterlockAssumption
      DEF SetClockTrusted, driverVars, watchVars, runVars, CapInv, Serving,
          TypeOK, DriverTypeOK, TaskInv, PinInv
<1>9. CASE Tick
  <2> SUFFICES ASSUME NEW a \in Pca, Serving, a \in guards
               PROVE  /\ run[a] = "none" => onFor'[a] = 0
                      /\ run[a] = "sleeping" => onFor'[a] + capLeft'[a] <= MaxRuntime
      BY <1>9 DEF Tick, procVars, CapInv, Serving
  <2>1. a \in Actuator /\ onFor[a] \in 0..(MaxRuntime + 1) /\ capLeft[a] \in 0..MaxRuntime
      BY DriverAssumption DEF TypeOK
  <2>2. io[CmdJob(a)] # "landed" /\ (run[a] = "sleeping" => capLeft[a] # 0)
      BY <1>9, <2>1, JobFacts DEF Tick, Due
  <2>3. hw[a] # Safe => run[a] # "none"
      BY <2>2 DEF EnergisedIsCapped, Capped, Energised
  <2>4. /\ capLeft'[a] = IF capLeft[a] > 0 THEN capLeft[a] - 1 ELSE 0
        /\ onFor'[a] = IF hw[a] = Safe THEN 0
                       ELSE IF onFor[a] > MaxRuntime THEN onFor[a] ELSE onFor[a] + 1
      BY <1>9, <2>1 DEF Tick, Down
  <2>5. /\ run[a] = "none" => onFor[a] = 0
        /\ run[a] = "sleeping" => onFor[a] + capLeft[a] <= MaxRuntime
      BY DEF CapInv
  <2>6. run[a] = "none" => onFor'[a] = 0
      BY <2>3, <2>4
  <2>7. run[a] = "sleeping" => onFor'[a] + capLeft'[a] <= MaxRuntime
      BY <2>1, <2>2, <2>4, <2>5, InterlockAssumption
  <2> QED BY <2>6, <2>7
<1>10. ASSUME NEW a \in Actuator, StartDrive(a) PROVE CapInv'
      BY <1>10, JobFacts, SnapFacts, DriverAssumption, InterlockAssumption
      DEF StartDrive, Submit, procVars, runVars, CapInv, Serving, TypeOK,
          DriverTypeOK, TaskInv, PinInv
<1>11. ASSUME NEW a \in Actuator, StartReturn(a) PROVE CapInv'
      BY <1>11, JobFacts, SnapFacts, DriverAssumption, InterlockAssumption
      DEF StartReturn, Leave, runVars, CapInv, Serving, TypeOK, DriverTypeOK,
          TaskInv, PinInv
<1>12. ASSUME NEW a \in Actuator, OpenOk(a) PROVE CapInv'
      BY <1>12, JobFacts, SnapFacts, DriverAssumption, InterlockAssumption
      DEF OpenOk, runVars, CapInv, Serving, TypeOK, DriverTypeOK, TaskInv, PinInv
<1>13. ASSUME NEW a \in Actuator, OpenFail(a) PROVE CapInv'
      BY <1>13, JobFacts, SnapFacts, DriverAssumption, InterlockAssumption
      DEF OpenFail, watchVars, runVars, SameLock, CapInv, Serving, TypeOK,
          DriverTypeOK, TaskInv, PinInv
<1>14. ASSUME NEW a \in Actuator, StopCancel(a) PROVE CapInv'
      BY <1>14, JobFacts, SnapFacts, DriverAssumption, InterlockAssumption
      DEF StopCancel, Leave, CapInv, Serving, TypeOK, DriverTypeOK, TaskInv, PinInv
<1>15. ASSUME NEW a \in Actuator, StopDrive(a) PROVE CapInv'
      BY <1>15, JobFacts, SnapFacts, DriverAssumption, InterlockAssumption
      DEF StopDrive, Submit, procVars, watchVars, runVars, CapInv, Serving,
          TypeOK, DriverTypeOK, TaskInv, PinInv
<1>16. ASSUME NEW a \in Actuator, StopReturn(a) PROVE CapInv'
      BY <1>16, JobFacts, SnapFacts, DriverAssumption, InterlockAssumption
      DEF StopReturn, Leave, watchVars, runVars, CapInv, Serving, TypeOK,
          DriverTypeOK, TaskInv, PinInv
<1>17. ASSUME NEW a \in Actuator, WatchBeat(a) PROVE CapInv'
      BY <1>17, JobFacts, SnapFacts, DriverAssumption, InterlockAssumption
      DEF WatchBeat, driverVars, procVars, runVars, CapInv, Serving, TypeOK,
          DriverTypeOK, TaskInv, PinInv
<1>18. ASSUME NEW a \in Actuator, WatchTrip(a) PROVE CapInv'
      BY <1>18, JobFacts, SnapFacts, DriverAssumption, InterlockAssumption
      DEF WatchTrip, Submit, procVars, runVars, CapInv, Serving, TypeOK,
          DriverTypeOK, TaskInv, PinInv
<1>19. ASSUME NEW a \in Actuator, WatchEnd(a) PROVE CapInv'
      BY <1>19, JobFacts, SnapFacts, DriverAssumption, InterlockAssumption
      DEF WatchEnd, driverVars, procVars, runVars, CapInv, Serving, TypeOK,
          DriverTypeOK, TaskInv, PinInv
<1>20. ASSUME NEW a \in Actuator, WatchDriven(a) PROVE CapInv'
  <2>1. a \in Pca /\ a \in guards => onFor[a] = 0
      BY <1>20, DrivenDark DEF WatchDriven, PinInv
  <2>2. /\ run'[a] = "none"
        /\ \A b \in Actuator :
              b # a => run'[b] = run[b] /\ capLeft'[b] = capLeft[b]
      BY <1>20, MarkSafeFacts, JobFacts DEF WatchDriven
  <2> QED
      BY <1>20, <2>1, <2>2, DriverAssumption DEF WatchDriven, procVars, CapInv, Serving
<1>21. ASSUME NEW a \in Actuator, WatchFault(a) PROVE CapInv'
      BY <1>21, JobFacts, SnapFacts, DriverAssumption, InterlockAssumption
      DEF WatchFault, Leave, procVars, runVars, CapInv, Serving, TypeOK,
          DriverTypeOK, TaskInv, PinInv
<1>22. ASSUME NEW a \in Actuator, WatchRetry(a) PROVE CapInv'
      BY <1>22, JobFacts, SnapFacts, DriverAssumption, InterlockAssumption
      DEF WatchRetry, Submit, procVars, runVars, CapInv, Serving, TypeOK,
          DriverTypeOK, TaskInv, PinInv
<1>23. ASSUME NEW a \in Actuator, WatchRecover(a) PROVE CapInv'
      BY <1>23, JobFacts, SnapFacts, DriverAssumption, InterlockAssumption
      DEF WatchRecover, driverVars, procVars, runVars, CapInv, Serving, TypeOK,
          DriverTypeOK, TaskInv, PinInv
<1>24. ASSUME NEW a \in Actuator, ApplyReturn(a) PROVE CapInv'
  <2>1. a \in Pca => hw[a] = effective_level(duty[CmdJob(a)])
      BY <1>24, JobFacts DEF ApplyReturn, PinInv, effective_level
  <2>2. CASE effective_level(duty[CmdJob(a)]) = Safe
    <3>1. a \in Pca /\ a \in guards => onFor[a] = 0
        BY <2>1, <2>2 DEF PinInv
    <3>2. /\ run'[a] = "none"
          /\ \A b \in Actuator :
                b # a => run'[b] = run[b] /\ capLeft'[b] = capLeft[b]
        BY <1>24, <2>2, MarkSafeFacts, JobFacts DEF ApplyReturn, NoteLevel
    <3> QED
        BY <1>24, <3>1, <3>2, DriverAssumption DEF ApplyReturn, procVars, CapInv, Serving
  <2>3. CASE effective_level(duty[CmdJob(a)]) # Safe
    <3>1. CASE run[a] = "none"
      <4>1. /\ run' = [run EXCEPT ![a] = "sleeping"]
            /\ capLeft' = [capLeft EXCEPT ![a] = MaxRuntime]
          BY <1>24, <2>3, <3>1 DEF ApplyReturn, NoteLevel, ArmCap
      <4>2. /\ capLeft'[a] = MaxRuntime
            /\ \A b \in Actuator : b # a => run'[b] = run[b] /\ capLeft'[b] = capLeft[b]
          BY <4>1 DEF TypeOK
      <4>3. a \in Pca /\ Serving /\ a \in guards => onFor[a] + MaxRuntime <= MaxRuntime
          BY <3>1, InterlockAssumption DEF CapInv
      <4>4. run'[a] = "sleeping"
          BY <4>1 DEF TypeOK
      <4> QED
          BY <1>24, <4>2, <4>3, <4>4, DriverAssumption DEF ApplyReturn,
              procVars, CapInv, Serving
    <3>2. CASE run[a] # "none"
        BY <1>24, <2>3, <3>2 DEF ApplyReturn, NoteLevel, ArmCap, runVars,
            procVars, CapInv, Serving
    <3> QED BY <3>1, <3>2
  <2> QED BY <2>2, <2>3
<1>25. ASSUME NEW a \in Actuator, ApplyRaise(a) PROVE CapInv'
      BY <1>25, JobFacts, SnapFacts, DriverAssumption, InterlockAssumption
      DEF ApplyRaise, Leave, procVars, watchVars, runVars, CapInv, Serving,
          TypeOK, DriverTypeOK, TaskInv, PinInv
<1>26. ASSUME NEW a \in Actuator, CapExpire(a) PROVE CapInv'
      BY <1>26, JobFacts, SnapFacts, DriverAssumption, InterlockAssumption
      DEF CapExpire, Submit, procVars, watchVars, CapInv, Serving, TypeOK,
          DriverTypeOK, TaskInv, PinInv
<1>27. ASSUME NEW a \in Actuator, RunDriven(a) PROVE CapInv'
  <2>1. a \in Pca /\ a \in guards => onFor[a] = 0
      BY <1>27, DrivenDark DEF RunDriven, PinInv
  <2>2. /\ run'[a] = "none"
        /\ \A b \in Actuator :
              b # a => run'[b] = run[b] /\ capLeft'[b] = capLeft[b]
      BY <1>27, MarkSafeFacts, JobFacts DEF RunDriven
  <2> QED
      BY <1>27, <2>1, <2>2, DriverAssumption DEF RunDriven, procVars, CapInv, Serving
<1>28. ASSUME NEW a \in Actuator, RunFault(a) PROVE CapInv'
  <2>1. /\ Serving => run'[a] = "retrying"
        /\ \A b \in Actuator : b # a => run'[b] = run[b]
      BY <1>28 DEF RunFault, Running, Serving, TypeOK
  <2> QED
      BY <1>28, <2>1, DriverAssumption DEF RunFault, procVars, CapInv, Serving
<1>29. ASSUME NEW a \in Actuator, RunRetry(a) PROVE CapInv'
      BY <1>29, JobFacts, SnapFacts, DriverAssumption, InterlockAssumption
      DEF RunRetry, Submit, procVars, watchVars, CapInv, Serving, TypeOK,
          DriverTypeOK, TaskInv, PinInv
<1>30. ASSUME NEW a \in Actuator, ClearLatch(a) PROVE CapInv'
      BY <1>30, JobFacts, SnapFacts, DriverAssumption, InterlockAssumption
      DEF ClearLatch, driverVars, procVars, watchVars, runVars, CapInv, Serving,
          TypeOK, DriverTypeOK, TaskInv, PinInv
<1>31. ASSUME NEW a \in Actuator, LandOrphanWrite(a) PROVE CapInv'
      BY <1>31, JobFacts, SnapFacts, DriverAssumption, InterlockAssumption
      DEF LandOrphanWrite, LandOrphan, procVars, watchVars, runVars, CapInv,
          Serving, TypeOK, DriverTypeOK, TaskInv, PinInv
<1>32. ASSUME NEW a \in Actuator, NEW x \in {WatchJob(a), RunJob(a)}, Unwind(a, x)
         PROVE  CapInv'
      BY <1>32, JobFacts, SnapFacts, DriverAssumption, InterlockAssumption
      DEF Unwind, Leave, procVars, CapInv, Serving, TypeOK, DriverTypeOK, TaskInv, PinInv
<1>33. ASSUME NEW a \in Actuator, NEW d \in Duties, NEW e \in BOOLEAN, Apply(a, d, e)
         PROVE  CapInv'
      BY <1>33, JobFacts, SnapFacts, DriverAssumption, InterlockAssumption
      DEF Apply, Submit, procVars, watchVars, runVars, Verdict, CapInv, Serving,
          TypeOK, DriverTypeOK, TaskInv, PinInv
<1>34. ASSUME NEW x \in Job, LandWrite(x) PROVE CapInv'
      BY <1>34, JobFacts, SnapFacts, DriverAssumption, InterlockAssumption
      DEF LandWrite, Land, procVars, watchVars, runVars, CapInv, Serving, TypeOK,
          DriverTypeOK, TaskInv, PinInv
<1>35. ASSUME NEW x \in Job, FailWrite(x) PROVE CapInv'
      BY <1>35, JobFacts, SnapFacts, DriverAssumption, InterlockAssumption
      DEF FailWrite, Fault, procVars, watchVars, runVars, CapInv, Serving, TypeOK,
          DriverTypeOK, TaskInv, PinInv
<1>s. CASE UNCHANGED vars
      BY <1>s DEF vars, driverVars, procVars, watchVars, runVars, CapInv, Serving,
          TypeOK, DriverTypeOK, TaskInv, PinInv
<1> QED
    BY <1>1, <1>2, <1>3, <1>4, <1>5, <1>6, <1>7, <1>8, <1>9, <1>10, <1>11, <1>12,
       <1>13, <1>14, <1>15, <1>16, <1>17, <1>18, <1>19, <1>20, <1>21, <1>22, <1>23,
       <1>24, <1>25, <1>26, <1>27, <1>28, <1>29, <1>30, <1>31, <1>32, <1>33, <1>34,
       <1>35,
       <1>s DEF Next, Process, Watcher, Deadline, Consumer

\* A command from before the trip stays ahead of it.
LEMMA TripStep == TypeOK /\ LockInv /\ TaskInv /\ PinInv /\ TripInv /\ [Next]_vars => TripInv'
<1> SUFFICES ASSUME TypeOK, LockInv, TaskInv, PinInv, TripInv, [Next]_vars PROVE TripInv'
    OBVIOUS
<1>1. ASSUME NEW S \in SUBSET (Actuator \ Drill), Boot(S) PROVE TripInv'
      BY <1>1, JobFacts, SnapFacts, DriverAssumption
      DEF Boot, FreshMemory, driverVars, TripInv, TypeOK, DriverTypeOK, TaskInv, PinInv
<1>2. CASE StartDone
      BY <1>2, JobFacts, SnapFacts, DriverAssumption
      DEF StartDone, Die, FreshMemory, NoWrites, driverVars, watchVars, runVars,
          TripInv, TypeOK, DriverTypeOK, TaskInv, PinInv
<1>3. CASE Serve
      BY <1>3, JobFacts, SnapFacts, DriverAssumption
      DEF Serve, driverVars, watchVars, runVars, TripInv, TypeOK, DriverTypeOK,
          TaskInv, PinInv
<1>4. CASE Stop
      BY <1>4, JobFacts, SnapFacts, DriverAssumption
      DEF Stop, driverVars, watchVars, runVars, TripInv, TypeOK, DriverTypeOK,
          TaskInv, PinInv
<1>5. CASE Exit
      BY <1>5, JobFacts, SnapFacts, DriverAssumption
      DEF Exit, Die, FreshMemory, NoWrites, TripInv, TypeOK, DriverTypeOK, TaskInv, PinInv
<1>6. CASE Crash
      BY <1>6, JobFacts, SnapFacts, DriverAssumption
      DEF Crash, Die, FreshMemory, NoWrites, TripInv, TypeOK, DriverTypeOK, TaskInv, PinInv
<1>7. CASE Heartbeat
      BY <1>7, JobFacts, SnapFacts, DriverAssumption
      DEF Heartbeat, driverVars, procVars, runVars, TripInv, TypeOK, DriverTypeOK,
          TaskInv, PinInv
<1>8. CASE SetClockTrusted
      BY <1>8, JobFacts, SnapFacts, DriverAssumption
      DEF SetClockTrusted, driverVars, watchVars, runVars, TripInv, TypeOK,
          DriverTypeOK, TaskInv, PinInv
<1>9. CASE Tick
      BY <1>9, JobFacts, SnapFacts, DriverAssumption
      DEF Tick, driverVars, procVars, Down, TripInv, TypeOK, DriverTypeOK, TaskInv, PinInv
<1>10. ASSUME NEW a \in Actuator, StartDrive(a) PROVE TripInv'
      BY <1>10, JobFacts, SnapFacts, DriverAssumption
      DEF StartDrive, Submit, procVars, runVars, TripInv, TypeOK, DriverTypeOK,
          TaskInv, PinInv
<1>11. ASSUME NEW a \in Actuator, StartReturn(a) PROVE TripInv'
      BY <1>11, JobFacts, SnapFacts, DriverAssumption
      DEF StartReturn, Leave, runVars, TripInv, TypeOK, DriverTypeOK, TaskInv, PinInv
<1>12. ASSUME NEW a \in Actuator, OpenOk(a) PROVE TripInv'
      BY <1>12, JobFacts, SnapFacts, DriverAssumption
      DEF OpenOk, runVars, TripInv, TypeOK, DriverTypeOK, TaskInv, PinInv
<1>13. ASSUME NEW a \in Actuator, OpenFail(a) PROVE TripInv'
      BY <1>13, JobFacts, SnapFacts, DriverAssumption
      DEF OpenFail, watchVars, runVars, SameLock, TripInv, TypeOK, DriverTypeOK,
          TaskInv, PinInv
<1>14. ASSUME NEW a \in Actuator, StopCancel(a) PROVE TripInv'
      BY <1>14, JobFacts, SnapFacts, DriverAssumption
      DEF StopCancel, Leave, TripInv, TypeOK, DriverTypeOK, TaskInv, PinInv
<1>15. ASSUME NEW a \in Actuator, StopDrive(a) PROVE TripInv'
      BY <1>15, JobFacts, SnapFacts, DriverAssumption
      DEF StopDrive, Submit, procVars, watchVars, runVars, TripInv, TypeOK,
          DriverTypeOK, TaskInv, PinInv
<1>16. ASSUME NEW a \in Actuator, StopReturn(a) PROVE TripInv'
      BY <1>16, JobFacts, SnapFacts, DriverAssumption
      DEF StopReturn, Leave, watchVars, runVars, TripInv, TypeOK, DriverTypeOK,
          TaskInv, PinInv
<1>17. ASSUME NEW a \in Actuator, WatchBeat(a) PROVE TripInv'
      BY <1>17, JobFacts, SnapFacts, DriverAssumption
      DEF WatchBeat, driverVars, procVars, runVars, TripInv, TypeOK, DriverTypeOK,
          TaskInv, PinInv
<1>18. ASSUME NEW a \in Actuator, WatchTrip(a) PROVE TripInv'
  <2>1. /\ \A b \in Actuator : b # a => ahead'[WatchJob(b)] = ahead[WatchJob(b)]
        /\ \A y \in Job : y # WatchJob(a) => io'[y] = io[y]
      BY <1>18, JobFacts, JobsDiffer DEF WatchTrip, Submit, TypeOK, DriverTypeOK
  <2>2. a \in Pca /\ io[CmdJob(a)] # "idle" => CmdJob(a) \in ahead'[WatchJob(a)]
      BY <1>18, JobFacts DEF WatchTrip, Submit, SameLock, TypeOK, DriverTypeOK
  <2>3. \A b \in Actuator : b # a => watch'[b] = watch[b] /\ admitted'[b] = admitted[b]
      BY <1>18 DEF WatchTrip, TypeOK
  <2>4. watch'[a] = "driving"
      BY <1>18 DEF WatchTrip, TypeOK
  <2> QED
      BY <1>18, <2>1, <2>2, <2>3, <2>4, JobFacts, DriverAssumption DEF WatchTrip,
          procVars, TripInv
<1>19. ASSUME NEW a \in Actuator, WatchEnd(a) PROVE TripInv'
      BY <1>19, JobFacts, SnapFacts, DriverAssumption
      DEF WatchEnd, driverVars, procVars, runVars, TripInv, TypeOK, DriverTypeOK,
          TaskInv, PinInv
<1>20. ASSUME NEW a \in Actuator, WatchDriven(a) PROVE TripInv'
  <2>1. a \in Pca => hw[a] = Safe
      BY <1>20, DrivenDark DEF WatchDriven
  <2>2. ahead[WatchJob(a)] = {}
      BY <1>20, JobFacts DEF WatchDriven, LockInv
  <2>3. /\ \A b \in Actuator : io'[CmdJob(b)] = io[CmdJob(b)]
        /\ \A b \in Actuator : b # a =>
              ahead'[WatchJob(b)] = ahead[WatchJob(b)] \ {WatchJob(a), RunJob(a)}
      BY <1>20, MarkSafeFacts, JobFacts, JobsDiffer DEF WatchDriven
  <2>4. /\ watch[a] = "driving" /\ watch'[a] = "lost"
        /\ \A b \in Actuator : b # a => watch'[b] = watch[b]
      BY <1>20 DEF WatchDriven, TypeOK
  <2> QED
      BY <1>20, <2>1, <2>2, <2>3, <2>4, JobFacts, DriverAssumption
      DEF WatchDriven, procVars, TripInv
<1>21. ASSUME NEW a \in Actuator, WatchFault(a) PROVE TripInv'
  <2>1. ahead[WatchJob(a)] = {}
      BY <1>21, JobFacts DEF WatchFault, LockInv
  <2>2. /\ \A b \in Actuator : io'[CmdJob(b)] = io[CmdJob(b)]
        /\ \A b \in Actuator : b # a => ahead'[WatchJob(b)] = ahead[WatchJob(b)] \ {WatchJob(a)}
      BY <1>21, JobFacts, JobsDiffer DEF WatchFault, Leave
  <2>3. /\ watch[a] = "driving" /\ (Running => watch'[a] = "retrying")
        /\ \A b \in Actuator : b # a => watch'[b] = watch[b]
      BY <1>21 DEF WatchFault, TypeOK
  <2>4. proc # "stopping" => Running
      BY <1>21 DEF WatchFault, Running, TypeOK, TaskInv
  <2> QED
      BY <1>21, <2>1, <2>2, <2>3, <2>4, JobFacts, DriverAssumption DEF WatchFault,
          procVars, TripInv
<1>22. ASSUME NEW a \in Actuator, WatchRetry(a) PROVE TripInv'
  <2>1. /\ \A b \in Actuator : b # a => ahead'[WatchJob(b)] = ahead[WatchJob(b)]
        /\ \A y \in Job : y # WatchJob(a) => io'[y] = io[y]
      BY <1>22, JobFacts, JobsDiffer DEF WatchRetry, Submit, TypeOK, DriverTypeOK
  <2>2. \A b \in Actuator : b # a => watch'[b] = watch[b]
      BY <1>22 DEF WatchRetry, TypeOK
  <2>3. watch[a] = "retrying" /\ watch'[a] = "driving"
      BY <1>22 DEF WatchRetry, TypeOK
  <2> QED
      BY <1>22, <2>1, <2>2, <2>3, JobFacts, DriverAssumption DEF WatchRetry,
          procVars, TripInv
<1>23. ASSUME NEW a \in Actuator, WatchRecover(a) PROVE TripInv'
      BY <1>23, JobFacts, SnapFacts, DriverAssumption
      DEF WatchRecover, driverVars, procVars, runVars, TripInv, TypeOK,
          DriverTypeOK, TaskInv, PinInv
<1>24. ASSUME NEW a \in Actuator, ApplyReturn(a) PROVE TripInv'
      BY <1>24, JobFacts, SnapFacts, DriverAssumption
      DEF ApplyReturn, NoteLevel, ArmCap, MarkSafe, CancelRun, Leave, procVars,
          watchVars, runVars, TripInv, TypeOK, DriverTypeOK, TaskInv, PinInv
<1>25. ASSUME NEW a \in Actuator, ApplyRaise(a) PROVE TripInv'
      BY <1>25, JobFacts, SnapFacts, DriverAssumption
      DEF ApplyRaise, Leave, procVars, watchVars, runVars, TripInv, TypeOK,
          DriverTypeOK, TaskInv, PinInv
<1>26. ASSUME NEW a \in Actuator, CapExpire(a) PROVE TripInv'
      BY <1>26, JobFacts, SnapFacts, DriverAssumption
      DEF CapExpire, Submit, procVars, watchVars, TripInv, TypeOK, DriverTypeOK,
          TaskInv, PinInv
<1>27. ASSUME NEW a \in Actuator, RunDriven(a) PROVE TripInv'
      BY <1>27, JobFacts, SnapFacts, DriverAssumption
      DEF RunDriven, MarkSafe, CancelRun, Leave, procVars, watchVars, TripInv,
          TypeOK, DriverTypeOK, TaskInv, PinInv
<1>28. ASSUME NEW a \in Actuator, RunFault(a) PROVE TripInv'
      BY <1>28, JobFacts, SnapFacts, DriverAssumption
      DEF RunFault, Leave, procVars, watchVars, TripInv, TypeOK, DriverTypeOK,
          TaskInv, PinInv
<1>29. ASSUME NEW a \in Actuator, RunRetry(a) PROVE TripInv'
      BY <1>29, JobFacts, SnapFacts, DriverAssumption
      DEF RunRetry, Submit, procVars, watchVars, TripInv, TypeOK, DriverTypeOK,
          TaskInv, PinInv
<1>30. ASSUME NEW a \in Actuator, ClearLatch(a) PROVE TripInv'
      BY <1>30, JobFacts, SnapFacts, DriverAssumption
      DEF ClearLatch, driverVars, procVars, watchVars, runVars, TripInv, TypeOK,
          DriverTypeOK, TaskInv, PinInv
<1>31. ASSUME NEW a \in Actuator, LandOrphanWrite(a) PROVE TripInv'
      BY <1>31, JobFacts, SnapFacts, DriverAssumption
      DEF LandOrphanWrite, LandOrphan, procVars, watchVars, runVars, TripInv,
          TypeOK, DriverTypeOK, TaskInv, PinInv
<1>32. ASSUME NEW a \in Actuator, NEW x \in {WatchJob(a), RunJob(a)}, Unwind(a, x)
         PROVE  TripInv'
      BY <1>32, JobFacts, SnapFacts, DriverAssumption
      DEF Unwind, Leave, procVars, TripInv, TypeOK, DriverTypeOK, TaskInv, PinInv
<1>33. ASSUME NEW a \in Actuator, NEW d \in Duties, NEW e \in BOOLEAN, Apply(a, d, e)
         PROVE  TripInv'
  <2>1. CASE Verdict(a, e) = "applied"
    <3>1. /\ admitted'[a] = TRUE /\ \A b \in Actuator : b # a => admitted'[b] = admitted[b]
          /\ Submit(CmdJob(a), d)
        BY <1>33, <2>1 DEF Apply, TypeOK
    <3>2. /\ \A b \in Actuator : b # a => io'[CmdJob(b)] = io[CmdJob(b)]
          /\ \A b \in Actuator : ahead'[WatchJob(b)] = ahead[WatchJob(b)]
        BY <3>1, JobFacts, JobsDiffer DEF Submit, TypeOK, DriverTypeOK
    <3> QED
        BY <1>33, <3>1, <3>2, DriverAssumption DEF Apply, procVars, watchVars, TripInv
  <2>2. CASE Verdict(a, e) # "applied"
      BY <1>33, <2>2 DEF Apply, procVars, watchVars, TripInv
  <2> QED BY <2>1, <2>2
<1>34. ASSUME NEW x \in Job, LandWrite(x) PROVE TripInv'
  <2>1. Land(x)
      BY <1>34 DEF LandWrite
  <2>2. \A y \in Job : io'[y] = "idle" <=> io[y] = "idle"
      BY <2>1, LandFacts
  <2>3. \A b \in Actuator : io[CmdJob(b)] = "idle" /\ hw[b] = Safe => hw'[b] = Safe
      BY <2>1, LandFacts, JobFacts, JobsDiffer
  <2> QED
      BY <1>34, <2>1, <2>2, <2>3, JobFacts, DriverAssumption
      DEF LandWrite, Land, procVars, watchVars, TripInv
<1>35. ASSUME NEW x \in Job, FailWrite(x) PROVE TripInv'
  <2>1. \A y \in Job : io'[y] = "idle" <=> io[y] = "idle"
      BY <1>35 DEF FailWrite, Fault, OnThread, TypeOK, DriverTypeOK
  <2> QED
      BY <1>35, <2>1, JobFacts, DriverAssumption
      DEF FailWrite, Fault, procVars, watchVars, TripInv
<1>s. CASE UNCHANGED vars
      BY <1>s DEF vars, driverVars, procVars, watchVars, runVars, TripInv, TypeOK,
          DriverTypeOK, TaskInv, PinInv
<1> QED
    BY <1>1, <1>2, <1>3, <1>4, <1>5, <1>6, <1>7, <1>8, <1>9, <1>10, <1>11, <1>12,
       <1>13, <1>14, <1>15, <1>16, <1>17, <1>18, <1>19, <1>20, <1>21, <1>22, <1>23,
       <1>24, <1>25, <1>26, <1>27, <1>28, <1>29, <1>30, <1>31, <1>32, <1>33, <1>34,
       <1>35,
       <1>s DEF Next, Process, Watcher, Deadline, Consumer

\* stop() leaves behind it only dark channels and recorded failures.
LEMMA StopStep == TypeOK /\ LockInv /\ TaskInv /\ PinInv /\ StopInv /\ [Next]_vars => StopInv'
<1> SUFFICES ASSUME TypeOK, LockInv, TaskInv, PinInv, StopInv, [Next]_vars PROVE StopInv'
    OBVIOUS
<1>1. ASSUME NEW S \in SUBSET (Actuator \ Drill), Boot(S) PROVE StopInv'
      BY <1>1, JobFacts, SnapFacts
      DEF Boot, FreshMemory, driverVars, StopInv, StopReachesAll, TypeOK,
          DriverTypeOK, TaskInv, PinInv
<1>2. CASE StartDone
      BY <1>2, JobFacts, SnapFacts
      DEF StartDone, Die, FreshMemory, NoWrites, driverVars, watchVars, runVars,
          StopInv, StopReachesAll, TypeOK, DriverTypeOK, TaskInv, PinInv
<1>3. CASE Serve
      BY <1>3, JobFacts, SnapFacts
      DEF Serve, driverVars, watchVars, runVars, StopInv, StopReachesAll, TypeOK,
          DriverTypeOK, TaskInv, PinInv
<1>4. CASE Stop
      BY <1>4, JobFacts, SnapFacts
      DEF Stop, driverVars, watchVars, runVars, StopInv, StopReachesAll, TypeOK,
          DriverTypeOK, TaskInv, PinInv
<1>5. CASE Exit
      BY <1>5, JobFacts, SnapFacts
      DEF Exit, Die, FreshMemory, NoWrites, StopInv, StopReachesAll, TypeOK,
          DriverTypeOK, TaskInv, PinInv
<1>6. CASE Crash
      BY <1>6, JobFacts, SnapFacts
      DEF Crash, Die, FreshMemory, NoWrites, StopInv, StopReachesAll, TypeOK,
          DriverTypeOK, TaskInv, PinInv
<1>7. CASE Heartbeat
      BY <1>7, JobFacts, SnapFacts
      DEF Heartbeat, driverVars, procVars, runVars, StopInv, StopReachesAll,
          TypeOK, DriverTypeOK, TaskInv, PinInv
<1>8. CASE SetClockTrusted
      BY <1>8, JobFacts, SnapFacts
      DEF SetClockTrusted, driverVars, watchVars, runVars, StopInv,
          StopReachesAll, TypeOK, DriverTypeOK, TaskInv, PinInv
<1>9. CASE Tick
      BY <1>9, JobFacts, SnapFacts
      DEF Tick, driverVars, procVars, Down, StopInv, StopReachesAll, TypeOK,
          DriverTypeOK, TaskInv, PinInv
<1>10. ASSUME NEW a \in Actuator, StartDrive(a) PROVE StopInv'
      BY <1>10, JobFacts, SnapFacts
      DEF StartDrive, Submit, procVars, runVars, StopInv, StopReachesAll, TypeOK,
          DriverTypeOK, TaskInv, PinInv
<1>11. ASSUME NEW a \in Actuator, StartReturn(a) PROVE StopInv'
      BY <1>11, JobFacts, SnapFacts
      DEF StartReturn, Leave, runVars, StopInv, StopReachesAll, TypeOK,
          DriverTypeOK, TaskInv, PinInv
<1>12. ASSUME NEW a \in Actuator, OpenOk(a) PROVE StopInv'
      BY <1>12, JobFacts, SnapFacts
      DEF OpenOk, runVars, StopInv, StopReachesAll, TypeOK, DriverTypeOK, TaskInv, PinInv
<1>13. ASSUME NEW a \in Actuator, OpenFail(a) PROVE StopInv'
      BY <1>13, JobFacts, SnapFacts
      DEF OpenFail, watchVars, runVars, SameLock, StopInv, StopReachesAll, TypeOK,
          DriverTypeOK, TaskInv, PinInv
<1>14. ASSUME NEW a \in Actuator, StopCancel(a) PROVE StopInv'
      BY <1>14, JobFacts, SnapFacts
      DEF StopCancel, Leave, StopInv, StopReachesAll, TypeOK, DriverTypeOK, TaskInv, PinInv
<1>15. ASSUME NEW a \in Actuator, StopDrive(a) PROVE StopInv'
      BY <1>15, JobFacts, SnapFacts
      DEF StopDrive, Submit, procVars, watchVars, runVars, StopInv,
          StopReachesAll, TypeOK, DriverTypeOK, TaskInv, PinInv
<1>16. ASSUME NEW a \in Actuator, StopReturn(a) PROVE StopInv'
      BY <1>16, JobFacts, SnapFacts
      DEF StopReturn, Leave, watchVars, runVars, StopInv, StopReachesAll, TypeOK,
          DriverTypeOK, TaskInv, PinInv
<1>17. ASSUME NEW a \in Actuator, WatchBeat(a) PROVE StopInv'
      BY <1>17, JobFacts, SnapFacts
      DEF WatchBeat, driverVars, procVars, runVars, StopInv, StopReachesAll,
          TypeOK, DriverTypeOK, TaskInv, PinInv
<1>18. ASSUME NEW a \in Actuator, WatchTrip(a) PROVE StopInv'
      BY <1>18, JobFacts, SnapFacts
      DEF WatchTrip, Submit, procVars, runVars, StopInv, StopReachesAll, TypeOK,
          DriverTypeOK, TaskInv, PinInv
<1>19. ASSUME NEW a \in Actuator, WatchEnd(a) PROVE StopInv'
      BY <1>19, JobFacts, SnapFacts
      DEF WatchEnd, driverVars, procVars, runVars, StopInv, StopReachesAll,
          TypeOK, DriverTypeOK, TaskInv, PinInv
<1>20. ASSUME NEW a \in Actuator, WatchDriven(a) PROVE StopInv'
      BY <1>20, JobFacts, SnapFacts
      DEF WatchDriven, MarkSafe, CancelRun, Leave, procVars, StopInv,
          StopReachesAll, TypeOK, DriverTypeOK, TaskInv, PinInv
<1>21. ASSUME NEW a \in Actuator, WatchFault(a) PROVE StopInv'
      BY <1>21, JobFacts, SnapFacts
      DEF WatchFault, Leave, procVars, runVars, StopInv, StopReachesAll, TypeOK,
          DriverTypeOK, TaskInv, PinInv
<1>22. ASSUME NEW a \in Actuator, WatchRetry(a) PROVE StopInv'
      BY <1>22, JobFacts, SnapFacts
      DEF WatchRetry, Submit, procVars, runVars, StopInv, StopReachesAll, TypeOK,
          DriverTypeOK, TaskInv, PinInv
<1>23. ASSUME NEW a \in Actuator, WatchRecover(a) PROVE StopInv'
      BY <1>23, JobFacts, SnapFacts
      DEF WatchRecover, driverVars, procVars, runVars, StopInv, StopReachesAll,
          TypeOK, DriverTypeOK, TaskInv, PinInv
<1>24. ASSUME NEW a \in Actuator, ApplyReturn(a) PROVE StopInv'
      BY <1>24, JobFacts, SnapFacts
      DEF ApplyReturn, NoteLevel, ArmCap, MarkSafe, CancelRun, Leave, procVars,
          watchVars, runVars, StopInv, StopReachesAll, TypeOK, DriverTypeOK,
          TaskInv, PinInv
<1>25. ASSUME NEW a \in Actuator, ApplyRaise(a) PROVE StopInv'
      BY <1>25, JobFacts, SnapFacts
      DEF ApplyRaise, Leave, procVars, watchVars, runVars, StopInv,
          StopReachesAll, TypeOK, DriverTypeOK, TaskInv, PinInv
<1>26. ASSUME NEW a \in Actuator, CapExpire(a) PROVE StopInv'
      BY <1>26, JobFacts, SnapFacts
      DEF CapExpire, Submit, procVars, watchVars, StopInv, StopReachesAll, TypeOK,
          DriverTypeOK, TaskInv, PinInv
<1>27. ASSUME NEW a \in Actuator, RunDriven(a) PROVE StopInv'
      BY <1>27, JobFacts, SnapFacts
      DEF RunDriven, MarkSafe, CancelRun, Leave, procVars, watchVars, StopInv,
          StopReachesAll, TypeOK, DriverTypeOK, TaskInv, PinInv
<1>28. ASSUME NEW a \in Actuator, RunFault(a) PROVE StopInv'
      BY <1>28, JobFacts, SnapFacts
      DEF RunFault, Leave, procVars, watchVars, StopInv, StopReachesAll, TypeOK,
          DriverTypeOK, TaskInv, PinInv
<1>29. ASSUME NEW a \in Actuator, RunRetry(a) PROVE StopInv'
      BY <1>29, JobFacts, SnapFacts
      DEF RunRetry, Submit, procVars, watchVars, StopInv, StopReachesAll, TypeOK,
          DriverTypeOK, TaskInv, PinInv
<1>30. ASSUME NEW a \in Actuator, ClearLatch(a) PROVE StopInv'
      BY <1>30, JobFacts, SnapFacts
      DEF ClearLatch, driverVars, procVars, watchVars, runVars, StopInv,
          StopReachesAll, TypeOK, DriverTypeOK, TaskInv, PinInv
<1>31. ASSUME NEW a \in Actuator, LandOrphanWrite(a) PROVE StopInv'
      BY <1>31, JobFacts, SnapFacts
      DEF LandOrphanWrite, LandOrphan, procVars, watchVars, runVars, StopInv,
          StopReachesAll, TypeOK, DriverTypeOK, TaskInv, PinInv
<1>32. ASSUME NEW a \in Actuator, NEW x \in {WatchJob(a), RunJob(a)}, Unwind(a, x)
         PROVE  StopInv'
      BY <1>32, JobFacts, SnapFacts
      DEF Unwind, Leave, procVars, StopInv, StopReachesAll, TypeOK, DriverTypeOK,
          TaskInv, PinInv
<1>33. ASSUME NEW a \in Actuator, NEW d \in Duties, NEW e \in BOOLEAN, Apply(a, d, e)
         PROVE  StopInv'
      BY <1>33, JobFacts, SnapFacts
      DEF Apply, Submit, procVars, watchVars, runVars, Verdict, StopInv,
          StopReachesAll, TypeOK, DriverTypeOK, TaskInv, PinInv
<1>34. ASSUME NEW x \in Job, LandWrite(x) PROVE StopInv'
  <2>1. Land(x)
      BY <1>34 DEF LandWrite
  <2>2. proc = "stopping" => \A b \in Actuator : hw[b] = Safe => hw'[b] = Safe
      BY <2>1, LandFacts, JobFacts, JobsDiffer
  <2>3. proc = "stopping" => \A b \in Actuator : io'[MainJob(b)] = "landed" =>
                                io[MainJob(b)] = "landed" \/ hw'[b] = Safe
      BY <2>1, LandFacts, JobFacts, JobsDiffer
  <2> QED
      BY <1>34, <2>2, <2>3 DEF LandWrite, procVars, StopInv, StopReachesAll, TypeOK
<1>35. ASSUME NEW x \in Job, FailWrite(x) PROVE StopInv'
      BY <1>35, JobFacts, SnapFacts
      DEF FailWrite, Fault, procVars, watchVars, runVars, StopInv, StopReachesAll,
          TypeOK, DriverTypeOK, TaskInv, PinInv
<1>s. CASE UNCHANGED vars
      BY <1>s DEF vars, driverVars, procVars, watchVars, runVars, StopInv,
          StopReachesAll, TypeOK, DriverTypeOK, TaskInv, PinInv
<1> QED
    BY <1>1, <1>2, <1>3, <1>4, <1>5, <1>6, <1>7, <1>8, <1>9, <1>10, <1>11, <1>12,
       <1>13, <1>14, <1>15, <1>16, <1>17, <1>18, <1>19, <1>20, <1>21, <1>22, <1>23,
       <1>24, <1>25, <1>26, <1>27, <1>28, <1>29, <1>30, <1>31, <1>32, <1>33, <1>34,
       <1>35,
       <1>s DEF Next, Process, Watcher, Deadline, Consumer

-----------------------------------------------------------------------------
(* The theorems.                                                           *)

\* Every reachable state of Interlock, for any constants, has the declared types.
THEOREM TypeCorrect == Spec => []TypeOK
<1>1. Init => TypeOK
    BY SnapFacts, InterlockAssumption
    DEF Init, DriverInit, TypeOK, DriverTypeOK, Outcome, Job
<1> QED
    BY <1>1, TypeStep, PTL DEF Spec

\* The inductive invariant: what each theorem below needs to be kept by every step.
IInv ==
    /\ TypeOK /\ LockInv /\ TaskInv /\ PinInv
    /\ EnergisedIsCapped /\ CapInv /\ TripInv /\ StopInv

\* The inductive invariant holds in every reachable state.
LEMMA Invariance == Spec => []IInv
<1>1. Init => IInv
  <2> SUFFICES ASSUME Init PROVE IInv
      OBVIOUS
  <2>1. TypeOK
      BY SnapFacts, InterlockAssumption
      DEF Init, DriverInit, TypeOK, DriverTypeOK, Outcome, Job
  <2>2. LockInv
      BY JobFacts DEF Init, DriverInit, LockInv
  <2>3. TaskInv
      BY JobFacts DEF Init, DriverInit, TaskInv
  <2>4. PinInv
      BY JobFacts DEF Init, DriverInit, PinInv
  <2>5. EnergisedIsCapped /\ CapInv /\ TripInv /\ StopInv
      BY JobFacts, DriverAssumption DEF Init, EnergisedIsCapped, Capped,
          Energised, Serving, CapInv, TripInv, StopInv,
             StopReachesAll, DriverInit
  <2> QED BY <2>1, <2>2, <2>3, <2>4, <2>5 DEF IInv
<1>2. IInv /\ [Next]_vars => IInv'
    BY TypeStep, LockStep, TaskStep, PinStep, CappedStep, CapStep, TripStep,
        StopStep DEF IInv
<1> QED
    BY <1>1, <1>2, PTL DEF Spec

\* An energised PCA9685 channel always has a runtime-deadline task and is never
\* reported at its safe state, for any number of boards and channels and any timings.
THEOREM CappedCorrect == Spec => []EnergisedIsCapped
<1>1. IInv => EnergisedIsCapped
    BY DEF IInv
<1> QED
    BY <1>1, Invariance, PTL

\* Re-commanding never extends the runtime cap: the time a channel has been on and
\* the time its cap still allows stay within max_runtime_s.
THEOREM CapCorrect == Spec => []CapNeverExtended
<1>1. IInv => CapNeverExtended
    BY DEF IInv, CapInv, CapNeverExtended, Energised
<1> QED
    BY <1>1, Invariance, PTL

\* After a heartbeat trip a PCA9685 channel is dark until a later command: no write
\* queued before the trip survives it.
THEOREM TripCorrect == Spec => []TripIsDark
<1>1. IInv => TripIsDark
    BY DEF IInv, TripInv, TripIsDark, DarkAfterTrip
<1> QED
    BY <1>1, Invariance, PTL

\* Every guard that stop() has been through, on either kind of driver, is dark or
\* recorded as a failure.
THEOREM StopCorrect == Spec => []StopReachesAll
<1>1. IInv => StopReachesAll
    BY DEF IInv, StopInv
<1> QED
    BY <1>1, Invariance, PTL

\* No actuator registered before start() is energised when start() has returned,
\* however the hardware came up.
THEOREM StartCorrect == Spec => []StartAssertsSafe
<1>1. IInv => StartAssertsSafe
    BY DEF IInv, PinInv, StartAssertsSafe
<1> QED
    BY <1>1, Invariance, PTL
=============================================================================
