----------------------------- MODULE LightLine -----------------------------
(***************************************************************************)
(* A light from the engine's schedule to the pin: control-engine's loop    *)
(* and publisher (app.py, publisher.py), the BR_CMD queue and the actuator *)
(* states between the services, and hardware-io reduced to what becomes of *)
(* a command: applied, with the dimming floor; refused, because the clock  *)
(* is not trusted, it has expired or the channel is latched; or thrown     *)
(* back by a failing driver, to be delivered again and in the end given    *)
(* up.  Of these the engine is told nothing.  A lost heartbeat, the        *)
(* runtime cap or a restart makes channels dark, and hardware-io says so.  *)
(* Interlock has the supervisor in full.                                   *)
(*                                                                         *)
(* The engine's memory of a channel (Scheduler) and the pin are kept in    *)
(* step only by messages: core NATS delivers a state to whoever is         *)
(* connected, and to nobody else.                                          *)
(***************************************************************************)
EXTENDS Scheduler, Sequences, SequencesExt

CONSTANTS
    HeartbeatTimeout,  \* heartbeat_timeout_s, in ticks
    CommandTtl,        \* DEFAULT_COMMAND_TTL_S, in ticks
    MaxDeliver,        \* max_deliver of the command consumer
    Floor,             \* MIN_USABLE_DUTY, in duty steps
    Offered,           \* bound: the holds the operator may place
    MaxQueue,          \* bound: commands on the stream
    MaxFaults          \* bound: broker outages, ends of a service, driver faults, lost clocks

ASSUME LightLineAssumption ==
    /\ IsFiniteSet(Channel)
    /\ HeartbeatTimeout \in Nat \ {0} /\ CommandTtl \in Nat \ {0}
    /\ MaxDeliver \in Nat \ {0} /\ Floor \in Nat /\ Offered \subseteq Hold
    /\ MaxQueue \in Nat \ {0} /\ MaxFaults \in Nat

VARIABLES
    engine,     \* "down", "idle", "ticking", "passed" (this tick's pass is done)
    plan,       \* [Channel -> SUBSET Intent]: intents of this pass still to publish
    acking,     \* the channel whose PubAck is awaited, as a set of at most one
    engConn,    \* the engine's client is connected
    news,       \* on its way to the engine, in order: autonomous states and PubAcks
    queue,      \* BR_CMD: commands not delivered yet
    deferred,   \* commands thrown back, waiting for their next delivery
    spurned,    \* history: channels a command of which was refused or thrown back, until
                \* they are commanded afresh with none of their commands on the way
    hwUp,       \* hardware-io is serving
    hwConn,     \* hardware-io's client is connected
    pin,        \* [Channel -> Duty]
    hbLeft,     \* ticks until the heartbeat watchers trip; -1 once they have
    latched,    \* channels whose runtime cap has tripped
    distrust,   \* services that do not trust the clock
    outages,    \* broker outages so far
    mishaps     \* other faults so far

engineVars == <<engine, plan, acking>>
commandVars == <<queue, deferred, spurned>>
wireVars == <<engConn, news, commandVars, hwConn>>
hardwareVars == <<hwUp, pin, hbLeft, latched>>
faultVars == <<distrust, outages, mishaps>>
vars == <<schedulerVars, engineVars, wireVars, hardwareVars, faultVars>>

Service == {"engine", "hardware"}
Command == [channel : Channel, duty : Duty, ttl : 0..CommandTtl, tries : 1..MaxDeliver]
NoPlan == [c \in Channel |-> {}]
News == [kind : {"state", "ack"}, channel : Channel]

\* The bound on faults is not used up.
FaultsLeft == outages + mishaps < MaxFaults

\* A fault other than an outage.
Mishap == FaultsLeft /\ mishaps' = mishaps + 1 /\ UNCHANGED outages

-----------------------------------------------------------------------------
(* What hardware-io says.                                                  *)

\* Mutant of Announce: core NATS keeps a state for an engine that is away.
AnnounceKept(cs) == news' = news \o SetToSeq([kind : {"state"}, channel : cs])

\* publish_state with an autonomous reason, for each channel of cs: it reaches the
\* engine only if it is connected; a failed publish is logged and swallowed.
Announce(cs) ==
    news' = IF engConn THEN news \o SetToSeq([kind : {"state"}, channel : cs]) ELSE news

\* Mutant of AnnounceStartup: no startup states.
NoStartup == UNCHANGED news

\* _publish_startup_states.
AnnounceStartup == Announce(Channel)

\* Every channel is dark.
Dark == pin' = [c \in Channel |-> SAFE_DUTY]

-----------------------------------------------------------------------------
(* The engine's loop.                                                      *)

\* One pass of _loop: the heartbeat goes out if there is a connection, and _tick
\* works out the intents that are due.  Without a trusted clock there is neither.
Pass ==
    /\ engine = "idle"
    /\ \/ /\ "engine" \notin distrust
          /\ hbLeft' = IF engConn /\ hwConn THEN HeartbeatTimeout ELSE hbLeft
          /\ plan' = [c \in Channel |-> DueFor(c)]
       \/ "engine" \in distrust /\ UNCHANGED <<hbLeft, plan>>
    /\ engine' = "ticking"
    /\ UNCHANGED <<schedulerVars, acking, wireVars, hwUp, pin, latched, faultVars>>

\* Commands of the channel are on their way to hardware-io.
Underway(c) == \E q \in Range(queue) \cup deferred : q.channel = c

\* _publish: without a connection the intent is suppressed; with one, emit puts the
\* command on the stream, and the broker answers with a PubAck.
Publish(c) ==
    /\ engine = "ticking" /\ acking = {} /\ plan[c] # {}
    /\ \/ /\ engConn /\ Len(queue) < MaxQueue
          /\ \E intent \in plan[c] :
                queue' = Append(queue, [channel |-> c, duty |-> intent.duty,
                                        ttl |-> CommandTtl, tries |-> MaxDeliver])
          /\ spurned' = IF Underway(c) THEN spurned ELSE spurned \ {c}
          /\ acking' = {c}
          /\ news' = Append(news, [kind |-> "ack", channel |-> c])
          /\ UNCHANGED <<plan, missed>>
       \/ /\ ~engConn
          /\ plan' = [plan EXCEPT ![c] = {}]
          /\ missed' = missed \cup {c}
          /\ UNCHANGED <<queue, spurned, acking, news>>
    /\ UNCHANGED <<memory, profile, held, sent, turn, engine, engConn, deferred, hwConn,
                   hardwareVars, faultVars>>

\* The PubAck arrived: mark_emitted records the intent, whatever the state handler
\* did to the channel's memory since the intent was worked out.
PubAck(c) ==
    /\ news # <<>> /\ Head(news) = [kind |-> "ack", channel |-> c]
    /\ news' = Tail(news)
    /\ missed' = missed \ {c}
    /\ \E intent \in plan[c] : memory' = [memory EXCEPT ![c] = MarkEmitted(intent, 0)]
    /\ acking' = {}
    /\ plan' = [plan EXCEPT ![c] = {}]
    /\ UNCHANGED <<profile, held, sent, turn, engine, engConn, commandVars, hwConn,
                   hardwareVars, faultVars>>

\* Every intent has been dealt with: wait for the next pass.
PassDone ==
    /\ engine = "ticking" /\ plan = NoPlan
    /\ engine' = "passed"
    /\ UNCHANGED <<schedulerVars, plan, acking, wireVars, hardwareVars, faultVars>>

\* _on_actuator_state: an autonomous state arrived, whatever the loop is waiting for.
Hear ==
    /\ news # <<>> /\ Head(news).kind = "state"
    /\ Forget(Head(news).channel)
    /\ news' = Tail(news)
    /\ UNCHANGED <<engineVars, engConn, commandVars, hwConn, hardwareVars, faultVars>>

\* The process ends, and its memory with it.
EngineDies ==
    /\ engine # "down" /\ Mishap
    /\ engine' = "down"
    /\ Reset
    /\ plan' = NoPlan /\ acking' = {}
    /\ engConn' = FALSE /\ news' = <<>>
    /\ UNCHANGED <<commandVars, hwConn, hardwareVars, distrust>>

\* run: connect, subscribe to the states, enter the loop.
EngineStarts ==
    /\ engine = "down"
    /\ engine' = "idle"
    /\ engConn' = TRUE
    /\ UNCHANGED <<schedulerVars, plan, acking, news, commandVars, hwConn, hardwareVars,
                   faultVars>>

\* _refresh_clock_trust, before a pass: a clock that is no longer trusted takes the
\* scheduler's memory with it.
EngineClock ==
    /\ engine = "idle"
    /\ \/ "engine" \notin distrust /\ Mishap /\ Reset /\ distrust' = distrust \cup {"engine"}
       \/ /\ "engine" \in distrust /\ distrust' = distrust \ {"engine"}
          /\ UNCHANGED <<schedulerVars, outages, mishaps>>
    /\ UNCHANGED <<engineVars, wireVars, hardwareVars>>

-----------------------------------------------------------------------------
(* hardware-io.                                                            *)

\* snap_duty: what reaches the pin of a duty that is asked for.
Snap(d) == IF d < Floor THEN SAFE_DUTY ELSE d

\* supervisor.apply lets the command through to the driver.
Accepted(q) == "hardware" \notin distrust /\ q.ttl > 0 /\ q.channel \notin latched

Writes(q) == pin' = [pin EXCEPT ![q.channel] = Snap(q.duty)]

\* What drain_once may be handed next: the oldest command, or one thrown back before.
Deliverable == deferred \cup {q \in Range(queue) : q = Head(queue)}

\* The command is taken from where it was.
Taken(q) == queue' = IF q \in deferred THEN queue ELSE Tail(queue)

\* nak, or no answer at all: delivered again later, unless that was its last delivery.
Return(q) ==
    deferred' = (deferred \ {q}) \cup
                (IF q.tries > 1 THEN {[q EXCEPT !.tries = @ - 1]} ELSE {})

\* drain_once takes a command: applied and acked, or refused and terminated.  The
\* engine hears of neither.
Consume(q) ==
    /\ hwUp /\ hwConn /\ Taken(q)
    /\ deferred' = deferred \ {q}
    /\ \/ Accepted(q) /\ Writes(q) /\ UNCHANGED spurned
       \/ ~Accepted(q) /\ spurned' = spurned \cup {q.channel} /\ UNCHANGED pin
    /\ UNCHANGED <<schedulerVars, engineVars, engConn, news, hwConn, hwUp, hbLeft, latched,
                   faultVars>>

\* The driver raises, before or after the write has reached the chip.
DriverFails(q) ==
    /\ hwUp /\ hwConn /\ Accepted(q) /\ Mishap
    /\ Taken(q) /\ Return(q)
    /\ Writes(q) \/ UNCHANGED pin
    /\ spurned' = spurned \cup {q.channel}
    /\ UNCHANGED <<schedulerVars, engineVars, engConn, news, hwConn, hwUp, hbLeft, latched,
                   distrust>>

\* The runtime cap of a lit channel trips: latched until the process is replaced, dark,
\* and an interlock_latch published.  When that is, is Interlock's matter.
Latch(c) ==
    /\ hwUp /\ pin[c] # SAFE_DUTY
    /\ latched' = latched \cup {c}
    /\ pin' = [pin EXCEPT ![c] = SAFE_DUTY]
    /\ IF hwConn THEN Announce({c}) ELSE UNCHANGED news
    /\ UNCHANGED <<schedulerVars, engineVars, engConn, commandVars, hwConn, hwUp, hbLeft,
                   faultVars>>

\* _refresh_clock_trust_async.
HardwareClock ==
    /\ hwUp
    /\ \/ "hardware" \notin distrust /\ Mishap /\ distrust' = distrust \cup {"hardware"}
       \/ /\ "hardware" \in distrust /\ distrust' = distrust \ {"hardware"}
          /\ UNCHANGED <<outages, mishaps>>
    /\ UNCHANGED <<schedulerVars, engineVars, wireVars, hardwareVars>>

\* The heartbeat watchers trip once: every channel dark, and a safe_state published.
Trip ==
    /\ hwUp /\ hbLeft = 0
    /\ hbLeft' = -1
    /\ Dark
    /\ IF hwConn THEN Announce(Channel) ELSE UNCHANGED news
    /\ UNCHANGED <<schedulerVars, engineVars, engConn, commandVars, hwConn, hwUp, latched,
                   faultVars>>

\* A command that was taken, and perhaps applied, is not acked before the process ends.
Unanswered(q) ==
    /\ hwConn /\ Taken(q) /\ Return(q)
    /\ (Accepted(q) /\ Writes(q)) \/ UNCHANGED pin
    /\ spurned' = spurned \cup {q.channel}

\* hardware-io ends: killed, with the pins as they are and perhaps a command in hand, or
\* stopped, which drives every channel dark and says so before the connection closes.
HardwareEnds ==
    /\ hwUp /\ Mishap
    /\ \/ UNCHANGED <<pin, news, commandVars>>
       \/ UNCHANGED news /\ \E q \in Deliverable : Unanswered(q)
       \/ /\ Dark /\ IF hwConn THEN Announce(Channel) ELSE UNCHANGED news
          /\ UNCHANGED commandVars
    /\ hwUp' = FALSE /\ hwConn' = FALSE
    /\ hbLeft' = HeartbeatTimeout
    /\ UNCHANGED <<schedulerVars, engineVars, engConn, latched, distrust>>

\* A new process: channels opened dark, startup states published, the consumer
\* attached to what is still on the stream, the watchers given their first deadline,
\* no channel latched.
HardwareStarts ==
    /\ ~hwUp
    /\ hwUp' = TRUE /\ hwConn' = TRUE
    /\ Dark /\ latched' = {}
    /\ AnnounceStartup
    /\ UNCHANGED <<schedulerVars, engineVars, engConn, commandVars, hbLeft, faultVars>>

-----------------------------------------------------------------------------
(* The broker, the operator and time.                                      *)

\* The broker restarts: every client loses its connection, and with it what core
\* NATS had on the way and any PubAck.  The emit that was waiting raises, nothing is
\* recorded and the next pass retries.  BR_CMD is on disk.
Outage ==
    /\ FaultsLeft /\ engConn /\ hwConn
    /\ outages' = outages + 1
    /\ engConn' = FALSE /\ hwConn' = FALSE /\ news' = <<>>
    /\ plan' = [c \in Channel |-> IF c \in acking THEN {} ELSE plan[c]]
    /\ acking' = {}
    /\ missed' = missed \cup acking
    /\ UNCHANGED <<memory, profile, held, sent, turn, engine, commandVars, hardwareVars,
                   distrust, mishaps>>

EngineReconnects ==
    /\ engine # "down" /\ ~engConn
    /\ engConn' = TRUE
    /\ UNCHANGED <<schedulerVars, engineVars, news, commandVars, hwConn, hardwareVars,
                   faultVars>>

\* _republish_safe_states: what is at its safe state is announced again.
HardwareReconnects ==
    /\ hwUp /\ ~hwConn
    /\ hwConn' = TRUE
    /\ Announce({c \in Channel : pin[c] = SAFE_DUTY})
    /\ UNCHANGED <<schedulerVars, engineVars, engConn, commandVars, hardwareVars, faultVars>>

\* The curve, the assigned schedules or the holds in the database changed.  Only a pass
\* reads them, so it is enough that they change before one.
Operate(c) ==
    /\ engine = "idle"
    /\ \/ \E p \in Duty \cup {NoProfile} : SetProfile(c, p)
       \/ \E hold \in Offered \cup {NoHold} : SetHeld(c, hold)
    /\ UNCHANGED <<engineVars, wireVars, hardwareVars, faultVars>>

\* A command with one tick less to live.
Fresher(q) == [q EXCEPT !.ttl = IF @ > 0 THEN @ - 1 ELSE 0]

\* A tick is long for what is quick: by its end the engine has made its pass, messages
\* between connected clients have arrived and watchers whose deadline passed have
\* tripped.  A serving hardware-io takes a command, and uses up its deliveries, before
\* it expires.
Settled ==
    /\ engine \in {"down", "passed"}
    /\ news = <<>>
    /\ hwUp /\ hwConn => \A q \in Range(queue) \cup deferred : q.ttl > 1
    /\ ~(hwUp /\ hbLeft = 0)

Tick ==
    /\ Settled
    /\ engine' = IF engine = "passed" THEN "idle" ELSE engine
    /\ memory' = [c \in Channel |->
                    [memory[c] EXCEPT !.age = IF memory[c].known THEN Older(@) ELSE @]]
    /\ hbLeft' = IF hwUp /\ hbLeft > 0 THEN hbLeft - 1 ELSE hbLeft
    /\ queue' = [i \in DOMAIN queue |-> Fresher(queue[i])]
    /\ deferred' = {Fresher(q) : q \in deferred}
    /\ UNCHANGED <<profile, held, sent, turn, missed, plan, acking, engConn, news, spurned,
                   hwUp, hwConn, pin, latched, faultVars>>

\* Both services have just started.
LineInit ==
    /\ Init
    /\ engine = "idle" /\ plan = NoPlan /\ acking = {}
    /\ engConn = TRUE /\ hwConn = TRUE /\ hwUp = TRUE
    /\ news = <<>> /\ queue = <<>> /\ deferred = {} /\ spurned = {}
    /\ pin = [c \in Channel |-> SAFE_DUTY]
    /\ hbLeft = HeartbeatTimeout /\ latched = {}
    /\ distrust = {} /\ outages = 0 /\ mishaps = 0

LineNext ==
    \/ Pass \/ PassDone \/ Hear \/ EngineDies \/ EngineStarts \/ EngineClock
    \/ \E c \in Channel : Publish(c) \/ PubAck(c) \/ Operate(c) \/ Latch(c)
    \/ \E q \in Deliverable : Consume(q) \/ DriverFails(q)
    \/ Trip \/ HardwareEnds \/ HardwareStarts \/ HardwareClock
    \/ Outage \/ EngineReconnects \/ HardwareReconnects \/ Tick

LineSpec == LineInit /\ [][LineNext]_vars

\* What a service that is up does next, its container's restart when it is not.
EngineRuns ==
    Pass \/ PassDone \/ Hear \/ EngineStarts \/ \E c \in Channel : Publish(c) \/ PubAck(c)
HardwareRuns == Trip \/ HardwareStarts \/ \E q \in Deliverable : Consume(q)

\* Both services are restarted by their containers, nats-py reconnects for ever, the
\* loops keep running and time passes.  Nothing makes a fault or the operator act.
LineFairSpec ==
    /\ LineSpec
    /\ WF_vars(EngineRuns) /\ WF_vars(HardwareRuns) /\ WF_vars(Tick)
    /\ WF_vars(EngineReconnects) /\ WF_vars(HardwareReconnects)

-----------------------------------------------------------------------------
\* Every variable has its type, and only a running, connected engine is owed news.
LineTypeOK ==
    /\ SchedulerTypeOK
    /\ engine \in {"down", "idle", "ticking", "passed"}
    /\ plan \in [Channel -> SUBSET Intent] /\ acking \subseteq Channel
    /\ engConn \in BOOLEAN /\ hwConn \in BOOLEAN /\ hwUp \in BOOLEAN
    /\ news \in Seq(News) /\ (news # <<>> => engConn)
    /\ queue \in Seq(Command) /\ deferred \subseteq Command /\ spurned \subseteq Channel
    /\ pin \in [Channel -> Duty] /\ hbLeft \in -1..HeartbeatTimeout
    /\ latched \subseteq Channel /\ distrust \subseteq Service
    /\ outages \in 0..MaxFaults /\ mishaps \in 0..MaxFaults

\* Nothing is on its way between the two services.
Quiet ==
    /\ engine # "down" /\ acking = {} /\ plan = NoPlan
    /\ engConn /\ hwUp /\ hwConn
    /\ news = <<>> /\ queue = <<>> /\ deferred = {}

\* app.py _on_actuator_state and _publish: when nothing is on its way, a duty the
\* scheduler remembers is, above the dimming floor, the duty on the pin, so the next slew
\* starts from where the light really is, through any restart of either service, trip or
\* latch.  Excepted are a channel whose last intent was suppressed, and one whose commands
\* were refused or thrown back by the driver since it was last commanded afresh: of that
\* hardware-io tells the engine nothing.  (A broker outage can lose the state that would
\* have corrected the memory: then only refresh_s repairs it, which is PinFollows.)
MemoryMatchesPin ==
    Quiet /\ outages = 0 =>
       \A c \in Channel \ (missed \cup spurned) :
          memory[c].known => pin[c] = Snap(memory[c].duty)

\* scheduler.py refresh_s, app.py _republish_safe_states: whatever was lost, refused or
\* thrown back on the way, a channel whose schedule stays at one duty ends at what the
\* dimming floor makes of it, once the faults are over, unless its runtime cap has latched
\* it or a service never trusts the clock again.
PinFollows ==
    \A c \in Channel, d \in Duty :
       <>[](profile[c] = d /\ held[c] = NoHold /\ c \notin latched /\ distrust = {})
          => <>[](pin[c] = Snap(d))
=============================================================================
