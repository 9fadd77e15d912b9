# Bella's Reef: TLA+ models

Bella's Reef runs a reef aquarium from a Raspberry Pi: Python/asyncio services that talk
over NATS JetStream, with Postgres behind the API. What can hurt a tank is an output that
stays energised, a channel that jumps to full light, an alert that never opens, or one part
of the system acting on something another part has already changed its mind about. Those
are the questions these models ask. This directory holds the TLA+ modules, the TLC
configurations that check small instances of them, and proofs, checked by TLAPS, that the
central results hold for any number of channels, boards, calls and timings.

## The system

| Part | State it keeps | Operations | Hard behaviour |
|---|---|---|---|
| hardware-io: `InterlockSupervisor` (`safety.py`) | a guard per actuator: latch, at-safe flag, heartbeat deadline, watcher task, runtime-deadline task | `register`, `start`, `stop`, `heartbeat`, `apply`, `clear_latch`; trips from the two tasks | four tasks per channel interleave at every await; a driver's write may fail, be slow, or outlive its cancelled task |
| hardware-io: PWM drivers (`drivers/`) | the pins; one `asyncio.Lock` per PCA9685 | `open`, `apply`, `drive_safe` | writes run on threads and cannot be taken back |
| hardware-io: process (`app.py`, `watchdog.py`) | what it built from the registry | start-up, build, serve, shutdown, watchdog exit | death anywhere; the pins keep their level |
| hardware-io: command consumer (`spine.py`) | a durable pull consumer on `BR_CMD`, its heal budget | `drain_once`, `_heal`, `_audit`, `_publish_applied_state` | redelivery, naks, expiry, a consumer that disappears, trips beside it |
| assignments (API, `spine.py`, engine `assignments.py`) | the retained last-per-subject stream; the engine's ledger; hardware-io's fingerprints | bind, unbind, readopt, forget, republish, drain, live subscription | overlapping requests, failed publishes, changes published while somebody is down or between two subscriptions, restores |
| control-engine: scheduler (`scheduler.py`) | per channel: last duty, when, hold, slewing | `due`, `mark_emitted`, `forget`, `reset` | slewing from a duty the hardware no longer holds |
| control-engine: loop, publisher (`app.py`, `publisher.py`) | profiles, holds, loaded flags | tick, reload, expire, publish | a publish awaited in the middle of a tick |
| control-engine: overrides and schedules (`app.py`, `db/overrides.py`, `db/schedules.py`, API) | rows with wall-clock deadlines, armed holds with monotonic ones, curves | place, supersede, release, lapse, expire, reload, assign, edit, delete | two clocks, one of them stepped; death between release and record |
| control-engine: alerts (`alerts.py`, `db/alerts.py`, `store.py`) | open episodes, and a mirror of them in the engine; last-seen times; cached bands | reading, sweep, refresh, resync, prime, threshold edit | two tasks on one watcher, transactions that fail, publishes that fail after a commit |
| api: audit pipeline (`audit_writer.py`) | a durable consumer on `BR_AUDIT`, rows in Postgres | fetch, insert, ack | at-least-once delivery with a delivery limit |
| api: pairing and sessions (`app.py`, `store.py`, `cli.py`) | clients, setup state, windows, requests, pending tokens | pair, poll, claim, approve, deny, revoke, recovery CLI | calls interleave between a check and the write that relies on it |
| api: live stream (`stream.py`) | a bounded queue per socket | subscribe, replay, fan out, send | a change between replay and fan-out |
| api: backup, telemetry, history, consumers of capabilities, chips and host status | archives, derived rows | dump, restore, query, upsert | see *Not modelled* |
| sensors, host status, hub scripts, web client | none the others decide on | I/O | not modelled |

The engine publishes a command on `BR_CMD`; hardware-io's consumer takes it to
`InterlockSupervisor.apply`; the supervisor drives the pin and publishes an actuator state
that the engine's scheduler listens to, that `BR_STATE` retains and that the API's stream
bridge sends to clients. The engine's heartbeat, on core NATS, keeps the supervisor's
watchers quiet. The API writes Postgres and publishes assignments on a retained stream that
both services read; the engine reads overrides, schedules and thresholds from Postgres and
writes episodes and endings there. Refusals, trips and endings are events on `BR_AUDIT`,
which the API's writer puts into `audit_log`.

## Modules

| Module | Models | State and code |
|---|---|---|
| `DriverIO` | PWM writes (`drivers/pca9685.py`, `pipwm.py`, `dimming.py`) | `hw` is the pins; a `Job` is one task's write to one channel (command, watcher, deadline, start/stop), `io` where it is, `ahead` the jobs it queues behind on the chip's `asyncio.Lock`, `orphan` a shielded thread whose task was cancelled. RP1 channels (`Actuator \ Pca`) have no lock. `snap_duty` is the dimming floor. |
| `Interlock` | `InterlockSupervisor` and the process around it | One action per stretch of a task between two awaits. `watch[a]`, `run[a]` are the two tasks of a guard, `outcome` the command being applied, `stopLeft`/`stopNow` the loop of `stop()`. `admitted` and `onFor` are history. |
| `Scheduler` | `LightingScheduler` | The four dicts per channel are one `memory` record; `EmitFor` is `_emit_for`, `DueFor` is `due`. `profile` is whatever `duty_at` gives now, `held` the hold owed. `sent`, `turn`, `missed` are history and the loop's bookkeeping. |
| `LightLine` | Scheduler composed with the engine's loop, publisher and state handler, `BR_CMD`, actuator states on core NATS, and hardware-io as the engine sees it | Extends `Scheduler` and takes its `Emit` apart: `Pass` works out the intents, `Publish` and `PubAck` are one awaited publish, `Hear` is the state handler, which runs between any two of them. `news` is what is on its way to the engine in order, `queue` the stream, `deferred` what a failing driver threw back, to be delivered again up to `MaxDeliver` times, `hbLeft` the watchers' deadline. `Consume` applies a command above the dimming floor (`Snap`), refuses it (expired, clock not trusted, latched) or throws it back; `Latch` is the runtime cap. `spurned` is history: channels a command of which did not reach the pin. |
| `Alerts` | `evaluate`, `AlertSupervisor`, `SilenceWatcher`, the episodes and the threshold edit | `task` is the sensor callback and where it waits, `sweep` the tick loop's sweep; `episodes` is the table, `open` and `silent` the engine's mirrors, `cache` its bands. A transaction commits, fails, or commits and the publish after it fails. |
| `Registry` | the devices table, the API's four requests and its lifespan, the retained assignments, hardware-io's build and watch, the engine's ledger and drain, a restore | One action per statement or publish: `BindMatch` and `BindKnown` are the two SELECTs of `bind_device`, `ReadoptMatch` and `ReadoptWrite` the check and the UPDATE of `readopt`. `req` is the requests in flight, `republish` the start-up reconciliation, `drain` the pull consumer of `load_assignments` with its batch, which a disconnect can strike. Registrations reach the API once it serves. `Restore` empties the stream and restarts everybody, `ForceRestore` (`--force`) replaces the rows under running services. `eng.missed` is history: what a struck drain left behind. |
| `Follower` | the abstract promise of a service that follows the assignments | Holds a device only if the stream has ever called it adopted; may forget at any time; agrees with the stream once the stream rests. |
| `Overrides` | holds and schedules, from the API's requests to what the engine applies, and the trail of endings | Deadlines are written as time left: `Elapse` lowers all, `StepClock` moves the rows' alone. `phase` is where in its tick the engine is; `toAudit`, `toSink` are endings on their way, `lost` the ones a fault struck. `ExpireUnanswered` is a `release` that commits and raises all the same; `unanswered` remembers it. |
| `AuditTrail` | `AuditWriter` | `audit` is `BR_AUDIT` event by event, `writer` the loop and its batch, `rows` the table. |
| `CommandQueue` | `CommandConsumer`, trips beside it, `BR_STATE`; composed with `AuditTrail` | One channel of a PCA9685 board whose level is the number of the command that set it. `at` is where `drain_once` is with the first message of its batch: `"write"`, it waits for the chip's lock; `"wrote"`, the write has landed. `Report`, the ack and the hand-off of the new state, is one step, because nothing in between suspends with the drivers in `src/`. `attempts` is the heal budget; `newest`, `seen`, `untold`, `unaudited` are history. |
| `Pairing` | `POST /pair` on its four ways, polling, claiming, approving, denying, revoking, the recovery CLI | `call[c].at` names the await a call stands at, `call[c].on` what it is being let in on. A call mints at most one client, which bears its name. `setup` is the `hub_identity` row: whether it exists (`HubId` makes it, best effort), its code, and whether setup is done; `CompleteSetup` is an UPDATE and does nothing without the row. `held`, `granted`, `strayed`, `unmarked` are history. |
| `LiveStream` | `StreamBridge` and the socket's handler | One actuator with numbered states, one socket; `wire` is the bridge's subscription, `encoding` the await in `_on_message`. |
| `InterlockProofs`, `SchedulerProofs`, `LightLineProofs`, `AlertsProofs`, `RegistryProofs`, `OverridesProofs`, `CommandQueueProofs`, `PairingProofs` | proofs about the module they are named for | |
| `MC…` | constants and symmetry for TLC | |

A broker, its streams, Postgres and nats-py are external: they are modelled by what the code
expects of them. A work queue keeps a message until it is acked and hands it out again a
bounded number of times; a core message reaches the clients connected when it is published
and nobody else; what the broker sends one client arrives in order; a transaction is one
step, and two transactions of one handler are two.

`LightLine` leaves to `Interlock` how the supervisor comes to a trip, a latch or a refusal,
and keeps what each does to a command and to the pin. `Interlock` leaves to `LightLine` and
`CommandQueue` where heartbeats and commands come from. `CommandQueue` has a board's lock
built in; what an RP1 channel does without one is in `interlock_rp1` and
`interlock_superseded`, and `StateIsTruth` is not claimed of it.

`EngineFollows` in `Registry` is the refinement: `Registry` with `register <- Register`
(devices whose retained assignment is adopted) and `view <- ledger` implements
`Follower!Spec`, and its ledger catches up with the stream once the stream rests, except for
devices in `eng.missed`. Without that exception it would be `Follower!CatchesUp`, which the
code does not keep (`registry_torn`).

## Runs

Time is counted in ticks. In `Interlock` a tick is a second or more and the timeouts are 1
or 2 of them: long enough for a command, a beat and a write to fall before, at and after a
deadline. In `LightLine` a tick is one pass of the engine's loop: between two of them
messages between connected clients arrive, watchers that are due trip, and a serving
hardware-io takes the commands it has or uses up their deliveries, unless they expire. In
`Alerts` and `Overrides` a tick is the engine's.

| Run | Instance | Checks |
|---|---|---|
| `interlock_pca` | one PCA9685 channel, duties 0, 5 (below the floor) and 50 %, timeout 1, cap 2 | `TypeOK`, `EnergisedIsCapped`, `CapNeverExtended`, `TripIsDark`; `EnergisedEnds` under fairness |
| `interlock_rp1` | one RP1 channel registered before `start()`, energised at boot | `StartAssertsSafe`, `StopReachesAll` with writes that can be orphaned |
| `scheduler` | one channel, duties 0..5, deadband 2, slew 2, refresh 4 | `SchedulerTypeOK`, `NoPop`, `ColdStartsDark`, `ConvergenceSteady`; `UnassignedGoesDark`, `SnapReleased` under fairness |
| `lightline` | one light, duties 0..2 with the floor at 2, refresh 2, heartbeat timeout 2, command TTL 2, two deliveries, a snap hold, one command on the stream beside those thrown back, two faults of any kind | `LineTypeOK`, `MemoryMatchesPin`; `PinFollows` under fairness |
| `alerts` | one probe reading 0, 2 or 5, no band or the band 1..4 with margin 1, one fault | `AlertsTypeOK`, `RecordMirrored`; `RecordFollowsTank`, `DeadProbeNoticed`, `SilenceEnds` under fairness |
| `registry` | two devices on one ROM, two requests at once and three in all, one fault, a disconnect in the middle of a drain among them | `RegistryTypeOK`, `OneRowPerChannel`, `StreamReconciled`; `EngineFollows` under fairness |
| `overrides` | one target, two holds of two ticks, clock steps of one, one schedule in two versions, three requests, two faults | `OverridesTypeOK`, `HonouredInFull`, `EndedStaysEnded`, `EndingsAccounted`; `HoldEnds`, `CurvesFollow` under fairness |
| `command_queue` | two commands and two audit events, each delivered at most twice, two heals, two faults | `QueueTypeOK`, `StateIsTruth`, `RetryOnlyReorders`; `LostEnds`, `RefusalsAccounted` under fairness |
| `pairing` | four calls (symmetric), one window, setup code and pairing code, one failed code a minute, one fault | `PairingTypeOK`, `OneCredentialEach`, `NoOrphanClient`, `SetupEndsUnlessUnmarked` |

Why these bounds. The scheduler treats channels independently, so one is enough there;
deadband 2 with slew 2 makes steps smaller than, equal to and larger than the deadband.
`LightLine` asks whether memory and pin agree: the three duties are dark, below the floor and
lit, so that a ramp passes through a duty the pin never shows; two faults let a service die
while the other is still recovering, or a driver throw back every delivery of a command. One
command waits on the stream at a time (an engine that finds it full waits to publish); what a
new command can overtake is one that was thrown back, which waits elsewhere.
Alerts are per probe and share only the loop, whose failure on one probe is the sweep's fault
path; two levels outside the band on its two sides and one inside cover both bounds. Two
devices with two requests at once contend for one channel in every way `bind_device` looks
for, and a ROM is announced as well as bound; three requests let a device be bound, detached
and bound again. Two holds on one target supersede, expire and lapse one another. Two commands
are the least that can overtake each other, and with as many faults as deliveries both a
command and an event can reach the limit of theirs. Three calls can race for one thing while a
fourth approves.

`CHECK_DEADLOCK FALSE` stands where operators simply stop asking: `registry`,
`command_queue` and `pairing` bound the number of requests or commands, and when they are used
up and answered nothing is left to do. In the other runs every state has a next step.

Fairness. `Interlock`: the event loop runs what is due and threads end (weak), time passes
and a write that is tried again and again lands in the end (strong: the retry loop exists
for a driver that comes back). `Scheduler`: the loop passes (weak), and a command that is
due again and again is accepted in the end (strong). `LightLine`: weak, for what a service does
next when it is up and its container's restart (`restart: unless-stopped`) when it is not, for
nats-py's reconnects, and for time; not for a driver that comes back, a latch that is cleared
or a clock that is trusted again. `Alerts`: the loop and the callback run (weak), time passes
although either may be in the middle of something, and a probe that keeps reporting is heard
although others are heard in between (strong, because nats-py serves messages in order).
`Registry`: requests and callbacks run on, containers are restarted and clients reconnect
(weak). `Overrides`: the engine's loop, time, and a clock that NTP synchronises in the end
(weak). `CommandQueue`: the two loops and the telling of a trip (weak); nobody is promised to
free a filter that somebody else holds. No fault and no operator action is ever fair.

### Where the code and its documents differ

Each of these is a run that TLC ends with a counterexample.

| Run | What the code does |
|---|---|
| `interlock_superseded` | An RP1 channel has no lock, so a command's write already on its thread can land after the heartbeat trip's safe write: the light is on, the trip is over, and the watcher waits for a beat. `pipwm.py` says the safe write cannot be superseded. |
| `registry_torn` | A connection that drops and returns while the engine waits for a fetch: the reconnect callback clears `_assignments_loaded`, the fetch times out, `load_assignments` takes that for the end of the stream, and the loop sets the flag again. The re-drain that `app.py:257-265` promises never happens, and what was bound in the gap stays unknown. |
| `stream_gap` | A new socket's queue joins the fan-out only after its replay has been read: a state published meanwhile is in neither, although `stream.py` says it would reach the client after its predecessor. |

Seen while modelling, in the same modules, and not given a run of their own:

- *Interlock.* The cap latches a PCA9685 channel and queues its safe write; a heartbeat trip
  ahead of it finishes, and `_mark_safe` cancels the deadline task; a command admitted before
  the latch then lights a latched channel under a fresh cap, where `safety.py:17-20` says "stop
  and stay stopped until a human looks". The latch and the cap are process memory, and nothing
  in `src/` calls `clear_latch`: a restart is the only way out of a latch.
- *Scheduler.* The slew's time base is the last *emission*: a channel that has been steady for
  `refresh_s` may move by `slew * elapsed` in the first command after an edit, where the tests
  and `docs/contracts/time-and-scheduling.md:84-86` speak of a step per tick. `NoPop`, which
  does hold, says how much. Any assumption about dark after a restart (`scheduler.py:27-30`)
  fails for an engine that restarts within the heartbeat timeout.
- *LightLine.* After an outage hardware-io may reconnect first, and the safe states it
  republishes reach nobody (`MemoryMatchesPin` is stated for a broker that stays up,
  `PinFollows` without that). Intents worked out before hardware-io restarted, or commands
  waiting on the stream meanwhile, are applied to the channel the restart made dark in one
  step, the jump `_on_actuator_state` is there to avoid. The engine is told of no refusal and
  of no command thrown back: it ramps on from a duty that never arrived, and a command thrown
  back is delivered after newer ones. A latched channel is commanded for ever, and remembered
  as lit (the exceptions `spurned` and `latched` in the two properties).
- *Alerts.* Engine and API edit episodes in transactions of their own; an episode can be raised
  for a bound from a cached band just after the API removed that bound and closed its episode
  (`store.py:1182-1186`). A commit whose answer is lost (`"unacknowledged"` in `Commit`) leaves
  the mirrors behind the record, in `clear_silence` with the probe silent in memory. The run
  leaves that ending out, and `MirrorsCoverRecord` has it as its hypothesis.
- *Registry.* Two overlapping binds of one channel both pass the check and both insert, since
  nothing in the table keeps them apart (`OneRowPerChannel` is stated for requests that do not
  overlap). A tombstone whose publish failed is never published again: the start-up republish
  covers adopted rows only. hardware-io reads, builds and only then watches, and reads nothing
  again on a reconnect, so it does not implement `Follower`. A restore with `--force` under
  running services leaves stream and ledger as they were (`StreamReconciled` excepts it until
  the API restarts). A readopt whose row is forgotten and announced again by a probe between
  its check and its UPDATE would adopt a device without a channel; only the table's CHECK
  `adopted_devices_are_bound` stops it, and the request ends in an error. It takes four
  overlapping requests, one more than the run has; the proof of `RegistryTypes` does not go
  through without the CHECK (`Bindable`).
- *Overrides.* `_expire_overrides` ignores what `release` returns, so a hold an operator
  releases just before it expires has two endings on the trail.
- *CommandQueue, AuditTrail.* An event is delivered five times at 30 s: a Postgres outage
  longer than about two and a half minutes uses the deliveries up and loses it, where
  `audit_writer.py:75-78` says that "after a writer stall, everything buffered in BR_AUDIT
  (24h) lands at once". The run has as many faults as deliveries and meets that end, which
  `RefusalsAccounted` names; without its last disjunct TLC finds it violated. A malformed
  command has no id to derive an event's from, so each of its deliveries is an event of its
  own. The docstring's "no dedup key" (`audit_writer.py:195`) is overtaken by the insert's own.
  An applied state always says `latched=False`.
- *Pairing.* If `hub_identity` has no row when the first client is let in, because making it at
  start failed (`app.py:957-966`), `complete_setup` marks nothing and nobody looks at its
  answer: setup stays open behind that client, although `store.py:199` says "First successful
  pair, by any method". `SetupEndsUnlessUnmarked` names that case; without `unmarked` TLC finds
  it violated. `bellasreef setup-code` reads and writes in two transactions and can store a
  hash after setup was completed; it lets nobody in. An API that dies between minting and
  answering leaves a live row that counts as somebody able to approve.

## Proofs

Every invariant and every action property that a passing run checks is a theorem too, for
every set of channels, boards, probes, devices, holds, commands, calls, windows and settings
that the constants' assumptions allow, and for any number of faults:

| Theorem | States |
|---|---|
| `InterlockProofs!TypeCorrect` | `Spec => []TypeOK` |
| `CappedCorrect`, `CapCorrect` | an energised PCA9685 channel has a deadline task, and the cap is never pushed out |
| `TripCorrect` | a heartbeat trip that is through leaves a PCA9685 channel dark until a command is admitted after it |
| `StopCorrect`, `StartCorrect` | `stop()` reaches every guard, `start()` darkens every drill actuator |
| `SchedulerProofs!SchedulerTypes`, `SchedulerMemory` | duties and ages stay in their range; the scheduler's memory is its last command |
| `SchedulerNoPop` | two commands outside snap holds are within the slew for the time between them |
| `SchedulerColdStartsDark` | the first command after a start, a forget or a reset is dark, or a snap hold's |
| `SchedulerConvergence` | a convergence moves on every pass, down to the step inside the deadband |
| `LightLineProofs!LineTypes`, `LineMemory` | types; a remembered duty is, above the dimming floor, on the pin when nothing is on its way, for channels neither missed nor spurned, through any number of restarts of either service, trips, latches and driver faults |
| `AlertsProofs!AlertsTypes`, `MirrorsCoverRecord` | types; the engine's mirrors cover the open episodes, if every commit that takes effect is answered |
| `RegistryProofs!RegistryTypes`, `OneIdentity` | types; one row per channel as long as no requests overlap |
| `StreamReconciles` | a serving API with nothing lost and nothing in flight has the stream agree with the table |
| `LedgerImplementsFollower` | `Registry` implements `Follower!Spec` under the mapping: the safety part of `EngineFollows` |
| `OverridesProofs!OverridesTypes`, `HoldsHonoured` | types; a hold armed by a clock that told the time runs for all it was asked |
| `EndedHoldsStayEnded`, `EndingsAreAccounted` | an ended hold is not applied again; no ending goes untold but by a fault of its own publish or of the answer to its release |
| `CommandQueueProofs!QueueTypes`, `WireIsTruth` | types; the retained state of a PCA9685 channel is the level of its pin, whichever task wrote it |
| `OnlyRetriesReorder` | an older command overrides a newer one only when it is handed out again |
| `PairingProofs!PairingTypes`, `OneCredential` | types; a window, the setup code, the first boot and an approved request are one credential each |
| `SetupEnds` | setup is over before anybody holds a credential, unless `complete_setup` found no row to say so in |
| `NoOrphan` | a live row is somebody's; a call that loses a race leaves none |

The assumptions are the `ASSUME`s of the modules, which TLC evaluates in the runs: naturals
for the settings and bounds, `Board` a function on the PCA9685 channels, ages that count far
enough for the refresh and the slew, a longest duration for a hold, bands that the API would
accept, finitely many channels in `LightLine`, events numbered from 1, and names (`None`,
`Nobody`, calls, windows, devices) that are told apart. Some theorems say less than their
name might suggest, because the code does: `OneIdentity` is about requests that do not
overlap, `MirrorsCoverRecord` has the hypothesis `"unacknowledged" \notin Commit`,
`LineMemory` excepts the channels of which the engine could not know, and `SetupEnds` a hub
whose row was missing.

What each rests on, since hardly any of these promises is inductive alone:

*Interlock.* `IInv` adds `LockInv`, the chip lock's queue is total and ordered among the jobs
under way on one chip; `TaskInv`, which task may have a write under way in which phase of the
process, and that the consumer applies one command at a time; `PinInv`, what the pins carry
before and after their guard exists; `CapInv`, the arithmetic of the cap; `TripInv`, a command
under way when a trip began is ahead of the trip's write in the queue, so it is gone when that
write has had its turn; `StopInv`, the same for the guard `stop()` is at. `LockInv` is what an
RP1 channel lacks, and `interlock_superseded` is where the proof would fail for it.

*Scheduler.* `SchedulerInv` is `SchedulerTypeOK /\ MemoryIsLastSent`. The second,
that the memory is the last command sent or cold, is what the action properties rest on, and
the run checks those. `LimitBounds` says what
`_limit` returns, `EmitForBounds` lifts it to an intent, and `OnlyEmitSends` says that nothing
but an emission changes what was last sent. A cold channel has age 0, so the slew allows it no
move. `Dealt` is the invariant behind `SchedulerConvergence`: what this pass has dealt with and
not suppressed was commanded in it.

*LightLine.* `LineInv` follows the wire in both directions. `Believes(c, d)`: once the engine
has read its news it will take the channel to be at `d`, either because a PubAck is coming that
no later state revokes, or because it remembers `d` and no news of the channel is coming.
`Comes(c, d)`: once the queue is consumed the pin is at what the floor makes of `d`. `Truthful`
says that while hardware-io serves and the broker has not gone away the first implies the
second for every channel that is not spurned; `AckStands` is the case of the PubAck. Around it:
`OneIntent`, a pass plans one intent for a channel at most; `Awaited`, the one PubAck belongs
to the pass that published; `Asleep` and `Joined`, who is connected and what a dead engine
knows; `Returning`, a command to be delivered again is one of a spurned channel, which is why
such a channel is let out of the exception only by a new command with none of its old ones on
the way. Whatever makes a channel dark puts a state of it behind everything else on the wire
(`Announced`, `AnnounceSilences`), which is what a lost state after an outage lacks.

*Alerts.* `RecordMirrored` is inductive given the types; each transaction is followed through
its three endings for the bounds (`BoundMirrored`) and for silence (`SilenceMirrored`) apart.

*Registry.* `TableInv` is about Postgres, the stream and the requests. `OneAtATime` and
`MatchStands`: what `bind_device` matched is still the only row on the channel when it writes.
`RepublishIsTable` and `StreamOwed`: an adopted device is on the stream as in the table, or the
reconciliation or the request that changed it has yet to publish it. `FollowInv` is about those
who read: whatever the stream retains, a drain's batch carries or the ledger holds has been
said, which makes every step of `Registry` a step of `Follower` or a stutter of it.

*Overrides.* `OverridesInv` adds bounds on deadlines that grow with the clock steps taken
(`RowsInTime`, without which they would not be inductive), that what is held on a target is a
hold of it, what a dead engine holds and owes, and `EndingsTold`, which names the place of every
ending between the row and the trail, the releases that were never answered among them.

*CommandQueue.* The order of hand-out is what counts. `InOrder`: the commands that were ever
handed out are a prefix of those published. `BatchOK`: what is left of the batch has been handed
out before, or is no older than what was applied. The batch's first message is described by the
predicate `Foremost` and not by a `CHOOSE`, which leaves nothing for a prover to instantiate.
`WireIsTruth` rests on `WireInv`: between a write of either task and its report the chip's lock
keeps the other from writing, so of two writes the later is reported later.

*Pairing.* `PairingInv` turns on a `Claim`: a call has been let in on something, or will be
unless an answer is lost. `Backed` says which row stands behind a claim (the used window's
`by`, the approved request's client, a row in the clients table for the first boot), so a call
that finds its window open or its request undecided knows that nobody has claimed it. No row
names the winner of the setup code; a claim on it means that setup is done. `Sealed` says that
setup has ended, or was left unmarked for want of a row, before a credential can leave on any
way. `Fits` and `Opened` say where a call is when it can claim what. The steps fall under three
lemmas: a call goes on and claims nothing new (`CallGoesOn`), a call wins what nobody claimed
(`CallWins`), or something beside the calls changes (`CallsStay`). `Owned`, on top of it, says
where a call has no row yet and where a row is its own, which gives `NoOrphan`; the one
delicate step is `_PendingTokens.put`, which overwrites nobody because a request is approved
for one call. The types need `Lasting`: a row that a used window or an approved request names
is never deleted again.

Each inductive invariant was checked by TLC on the instance of its run before it was proved.

Left to TLC: the leads-to and eventually properties, which need fairness and `ENABLED`:
`EnergisedEnds`, `UnassignedGoesDark`, `SnapReleased`, `PinFollows`, `RecordFollowsTank`,
`DeadProbeNoticed`, `SilenceEnds`, the catching up in `EngineFollows`, `HoldEnds`,
`CurvesFollow`, `LostEnds`, `RefusalsAccounted`. And what the runs refute: there is nothing to
prove about `LiveStream`, whose one property does not hold.

## Plan

1. An abstract fail-safe actuator that `Interlock` implements for PCA9685 channels, proved step
   by step: it would state `TripCorrect` and `CappedCorrect` as one promise to the rest of the
   system, the one that `LightLine`'s reduced hardware-io relies on.
2. The tank's side of `Overrides` and `LightLine` together: a hold that ended is off the pin.
3. `Profiles`: `duty_at` as a function over knots, checked against a reference definition (its
   proof would be an induction over the knots).

## Not modelled

Sensors, capability announcements, host status, metrics and logging: I/O with nothing else
decided on it (what a probe can do is in `Alerts`). The encoding of duties into registers and
sysfs. `duty_at`'s interpolation: a profile is any duty at any time, which is what the
scheduler has to cope with. The consumers of capabilities, chips and host status, which upsert
one message at a time into rows nobody else writes. Telemetry and history: HTTP and the
arithmetic of time ranges. Writing and verifying a backup archive, a straight line of file and
`pg_dump` I/O; what a restore does to the rest is `Restore` and `ForceRestore` of `Registry`.
Payload validation is the kind of a message in `CommandQueue`. Calibration and dosing tables,
which no code at this commit writes, migrations, hub scripts and the web client's README. The
engine's clock trust is `Scheduler!Reset` and a pause of the loop in `LightLine`, and modelled
in `Overrides`. A device bus that hangs for ever is the watchdog's `Crash`. The four services'
models are composed where they interact (`LightLine`, `Registry`, `CommandQueue`, `Overrides`),
not into one: their product is out of TLC's reach.
