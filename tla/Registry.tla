------------------------------ MODULE Registry ------------------------------
(***************************************************************************)
(* Which device owns which hardware channel.  Postgres is the source: the  *)
(* API binds, unbinds, readopts and forgets devices there (store.py) and   *)
(* then publishes an assignment, which the broker retains, the last one    *)
(* per device (app.py, registry.py).  hardware-io builds its drivers from  *)
(* the retained assignments and restarts on a change it hears (app.py,     *)
(* spine.py, factory.py); the control engine keeps a ledger that it drains *)
(* from the same stream and updates live (publisher.py, assignments.py).   *)
(*                                                                         *)
(* Each request is several statements and a publish with awaits between    *)
(* them, so two requests interleave; a publish that fails is logged and    *)
(* dropped; live messages are core NATS and miss whoever is disconnected.  *)
(***************************************************************************)
EXTENDS Naturals, FiniteSets

CONSTANTS
    Device,         \* device_id
    Channel,        \* PWM channels and probe ROMs that have been announced
    Rom,            \* the ones that are ROMs of 1-Wire probes
    Request,        \* slots of requests the API serves at once, numbered
    MaxRequests,    \* how many requests are made
    MaxFaults       \* failed publishes of requests, deaths, disconnects, restores

VARIABLES
    rows,           \* the devices table
    stream,         \* BR_ASSIGNMENT: the last assignment of each device
    said,           \* devices an assignment has ever called adopted
    api,            \* lifespan of the API
    republish,      \* what is left of its start-up reconciliation
    unread,         \* retained registrations the API has yet to handle
    req,            \* the requests in flight
    budget,         \* requests and faults so far, and whether two requests overlapped
    settled,        \* nothing was lost or overtaken since the API last started
    hw,             \* hardware-io: its phase, connection and fingerprints
    registered,     \* retained sensor registrations
    eng,            \* the engine: running, connected, _assignments_loaded, and what it missed
    ledger,         \* AssignmentLedger._adopted
    drain           \* load_assignments in progress

dbVars == <<rows, req, budget>>
apiVars == <<api, republish, unread>>
hwVars == <<hw, registered>>
engVars == <<eng, ledger, drain>>
streamVars == <<stream, said>>
vars == <<rows, streamVars, apiVars, req, budget, settled, hwVars, engVars>>

-----------------------------------------------------------------------------
None == "none"

\* Neither a device_id nor a channel is null.
ASSUME RegistryAssumption ==
    /\ Rom \subseteq Channel /\ Request \subseteq Nat
    /\ MaxRequests \in Nat /\ MaxFaults \in Nat
    /\ None \notin Device \cup Channel

Absent == [channel |-> None, adopted |-> FALSE, stored |-> FALSE]
Row == [channel : Channel \cup {None}, adopted : BOOLEAN, stored : BOOLEAN]

\* A retained assignment, or none.
Nothing == [channel |-> None, adopted |-> FALSE]
Assignment == {Nothing} \cup [channel : Channel, adopted : BOOLEAN]

Stored(d) == rows[d].stored
AssignmentOf(d) == [channel |-> rows[d].channel, adopted |-> rows[d].adopted]

\* device_bound_to, and the holder check of readopt_device.
Holders(c) == {d \in Device : rows[d].adopted /\ rows[d].channel = c}

\* Mutant of Matches: only adopted rows count as known hardware.
MatchesAdopted(c) == Holders(c)

\* The first SELECT of bind_device does not ask whether the row is adopted.
Matches(c) == {e \in Device : Stored(e) /\ rows[e].channel = c}

IdleReq == [step |-> "idle", op |-> None, device |-> None, channel |-> None, target |-> None]
Req == [step : {"idle", "match", "known", "write", "publish"}, op : {None, "bind", "unbind", "readopt", "forget"},
        device : Device \cup {None}, channel : Channel \cup {None}, target : Device \cup {None}]

NoDrain == [on |-> FALSE, undelivered |-> {}, batch |-> [d \in {} |-> Nothing], torn |-> FALSE]

\* Every variable has its type, and an adopted row names its channel, whatever a probe's
\* registration wrote into the table (store.py, upsert_sensor and bind_device).
RegistryTypeOK ==
    /\ rows \in [Device -> Row]
    /\ \A d \in Device : /\ ~Stored(d) => rows[d] = Absent
                         /\ rows[d].adopted => rows[d].channel # None
    /\ stream \in [Device -> Assignment]
    /\ said \subseteq Device
    /\ api \in {"down", "reconciling", "serving"}
    /\ republish \subseteq Device \X Assignment
    /\ unread \subseteq Device
    /\ req \in [Request -> Req]
    /\ budget \in [requests : 0..MaxRequests, faults : 0..MaxFaults, overlap : BOOLEAN]
    /\ settled \in BOOLEAN
    /\ hw \in [phase : {"down", "building", "watching"}, conn : BOOLEAN, known : [Device -> Assignment]]
    /\ registered \subseteq Device
    /\ eng \in [up : BOOLEAN, conn : BOOLEAN, loaded : BOOLEAN, missed : SUBSET Device]
    /\ ledger \subseteq Device
    /\ drain.on \in BOOLEAN /\ drain.torn \in BOOLEAN /\ drain.undelivered \subseteq Device
    /\ drain.batch \in UNION {[D -> Assignment] : D \in SUBSET Device}

-----------------------------------------------------------------------------
Fault ==
    /\ budget.faults < MaxFaults
    /\ budget' = [budget EXCEPT !.faults = @ + 1]

\* AssignmentLedger.apply.
Applied(l, d, a) == IF a.adopted THEN l \cup {d} ELSE l \ {d}

\* _on_assignment_message: an assignment that is not the one built from ends the process.
Heard(d, a) ==
    IF hw.phase = "watching" /\ hw.conn /\ a # hw.known[d]
    THEN [hw EXCEPT !.phase = "down"] ELSE hw

\* js.publish of an assignment: the broker keeps it as the last one of its subject, and
\* whoever is subscribed and connected hears it.
Retain(d, a) ==
    /\ stream' = [stream EXCEPT ![d] = a]
    /\ said' = IF a.adopted THEN said \cup {d} ELSE said
    /\ hw' = Heard(d, a)
    /\ ledger' = IF eng.up /\ eng.conn THEN Applied(ledger, d, a) ELSE ledger
    /\ drain' = IF drain.on THEN [drain EXCEPT !.undelivered = @ \cup {d}] ELSE drain
    /\ UNCHANGED <<registered, eng>>

\* AssignmentPublisher.publish: what goes wrong is logged and the caller goes on.
PublishFails ==
    /\ settled' = FALSE
    /\ UNCHANGED <<streamVars, hwVars, engVars>>

-----------------------------------------------------------------------------
(* Requests.                                                               *)

\* No request is being served.
Quiet == \A r \in Request : req[r] = IdleReq

\* A request takes the first free slot: the slots are told apart by nothing else.
Free == {r \in Request : req[r] = IdleReq}

Ask(r, op, d, c, step, target) ==
    /\ api = "serving" /\ r \in Free /\ \A q \in Free : r <= q
    /\ budget.requests < MaxRequests
    /\ budget' = [budget EXCEPT !.requests = @ + 1, !.overlap = @ \/ ~Quiet]
    /\ req' = [req EXCEPT ![r] = [step |-> step, op |-> op, device |-> d, channel |-> c, target |-> target]]
    /\ settled' = (settled /\ Quiet)

End(r) == req' = [req EXCEPT ![r] = IdleReq]

\* bind_device of the API up to the store: a taken PWM channel is a conflict, a known
\* probe is not.
AskBind(r, d, c) ==
    /\ c \in Rom \/ Holders(c) \subseteq {d}
    /\ Ask(r, "bind", d, c, "match", None)
    /\ UNCHANGED <<rows, streamVars, apiVars, hwVars, engVars>>

\* The first SELECT of Store.bind_device, and for a probe that is on no row a second one.
BindMatch(r) ==
    /\ req[r].step = "match" /\ req[r].op = "bind"
    /\ LET found == Matches(req[r].channel)
           next == IF found = {} /\ req[r].channel \in Rom THEN "known" ELSE "write"
       IN  \E t \in IF found = {} THEN {None} ELSE found :
               req' = [req EXCEPT ![r].step = next, ![r].target = t]
    /\ UNCHANGED <<rows, streamVars, apiVars, budget, settled, hwVars, engVars>>

\* It goes by the id, for a probe that announced itself under it and was never bound.
BindKnown(r) ==
    /\ req[r].step = "known"
    /\ LET d == req[r].device
           t == IF Stored(d) /\ rows[d].channel = None THEN d ELSE None
       IN  req' = [req EXCEPT ![r].step = "write", ![r].target = t]
    /\ UNCHANGED <<rows, streamVars, apiVars, budget, settled, hwVars, engVars>>

\* Its UPDATE, which finds no row if that one has been forgotten meanwhile, or its INSERT,
\* which a row of that id turns into DeviceIdConflictError.
BindWrite(r) ==
    /\ req[r].step = "write" /\ req[r].op = "bind"
    /\ LET t == req[r].target
           d == req[r].device
           bound == [channel |-> req[r].channel, adopted |-> TRUE, stored |-> TRUE]
       IN  CASE t # None ->
                  /\ rows' = IF Stored(t) THEN [rows EXCEPT ![t] = bound] ELSE rows
                  /\ req' = [req EXCEPT ![r].step = "publish"]
             [] t = None /\ ~Stored(d) ->
                  /\ rows' = [rows EXCEPT ![d] = bound]
                  /\ req' = [req EXCEPT ![r].step = "publish", ![r].target = d]
             [] OTHER -> UNCHANGED rows /\ End(r)
    /\ UNCHANGED <<streamVars, apiVars, budget, settled, hwVars, engVars>>

\* unbind_device: one UPDATE of an adopted row, RETURNING what it held.
AskUnbind(r, d) ==
    /\ rows[d].adopted
    /\ Ask(r, "unbind", d, rows[d].channel, "publish", d)
    /\ rows' = [rows EXCEPT ![d].adopted = FALSE]
    /\ UNCHANGED <<streamVars, apiVars, hwVars, engVars>>

\* readopt_device: a detached row ...
AskReadopt(r, d) ==
    /\ Stored(d) /\ ~rows[d].adopted /\ rows[d].channel # None
    /\ Ask(r, "readopt", d, rows[d].channel, "match", d)
    /\ UNCHANGED <<rows, streamVars, apiVars, hwVars, engVars>>

\* ... with nobody else on the channel it remembered ...
ReadoptMatch(r) ==
    /\ req[r].step = "match" /\ req[r].op = "readopt"
    /\ IF Holders(req[r].channel) \subseteq {req[r].device}
       THEN req' = [req EXCEPT ![r].step = "write"]
       ELSE End(r)
    /\ UNCHANGED <<rows, streamVars, apiVars, budget, settled, hwVars, engVars>>

\* adopted_devices_are_bound: the CHECK of the table that an adopted row has to pass.
Bindable(d) == Stored(d) /\ rows[d].channel # None

\* ... and then its UPDATE, by id alone: it finds no row if that one has been forgotten
\* meanwhile, and raises if a probe has announced itself under that id since.
ReadoptWrite(r) ==
    /\ req[r].step = "write" /\ req[r].op = "readopt"
    /\ IF Bindable(req[r].device)
       THEN /\ rows' = [rows EXCEPT ![req[r].device].adopted = TRUE]
            /\ req' = [req EXCEPT ![r].step = "publish", ![r].channel = rows[req[r].device].channel]
       ELSE UNCHANGED rows /\ End(r)
    /\ UNCHANGED <<streamVars, apiVars, budget, settled, hwVars, engVars>>

\* forget_device: a row that is not adopted, and then its DELETE, by id alone.  A row that
\* calibrations or doses refer to is refused and changes nothing.
AskForget(r, d) ==
    /\ Stored(d) /\ ~rows[d].adopted
    /\ Ask(r, "forget", d, None, "write", None)
    /\ UNCHANGED <<rows, streamVars, apiVars, hwVars, engVars>>

ForgetWrite(r) ==
    /\ req[r].step = "write" /\ req[r].op = "forget"
    /\ rows' = [rows EXCEPT ![req[r].device] = Absent]
    /\ End(r)
    /\ UNCHANGED <<streamVars, apiVars, budget, settled, hwVars, engVars>>

\* Mutant of Publish: the device that was proposed, not the one that was matched.
PublishProposed(r) ==
    /\ req[r].step = "publish"
    /\ Retain(req[r].device, [channel |-> req[r].channel, adopted |-> req[r].op # "unbind"])
    /\ End(r)
    /\ UNCHANGED <<rows, apiVars, budget, settled>>

\* The assignment is published after the row is stored, for the device that was matched.
Publish(r) ==
    /\ req[r].step = "publish"
    /\ Retain(req[r].target, [channel |-> req[r].channel, adopted |-> req[r].op # "unbind"])
    /\ End(r)
    /\ UNCHANGED <<rows, apiVars, budget, settled>>

PublishLost(r) ==
    /\ req[r].step = "publish"
    /\ Fault
    /\ PublishFails
    /\ End(r)
    /\ UNCHANGED <<rows, apiVars>>

Serve(r) ==
    \/ BindMatch(r) \/ BindKnown(r) \/ BindWrite(r)
    \/ ReadoptMatch(r) \/ ReadoptWrite(r) \/ ForgetWrite(r) \/ Publish(r)

-----------------------------------------------------------------------------
(* The API's lifespan.                                                     *)

\* adopted_assignments: what is read at once is published one by one.
ApiStarts ==
    /\ api = "down"
    /\ api' = "reconciling"
    /\ republish' = {<<d, AssignmentOf(d)>> : d \in {d \in Device : rows[d].adopted}}
    /\ settled' = TRUE
    /\ UNCHANGED <<rows, streamVars, unread, req, budget, hwVars, engVars>>

Republish(d) ==
    /\ api = "reconciling"
    /\ \E a \in Assignment :
           /\ <<d, a>> \in republish
           /\ republish' = republish \ {<<d, a>>}
           /\ Retain(d, a)
    /\ UNCHANGED <<rows, api, unread, req, budget, settled>>

\* A publish of the reconciliation fails: no fault of MaxFaults, which bounds the starts.
RepublishLost(d) ==
    /\ api = "reconciling"
    /\ \E m \in republish : m[1] = d /\ republish' = republish \ {m}
    /\ PublishFails
    /\ UNCHANGED <<rows, api, unread, req, budget>>

\* Then RegistryConsumer subscribes, and every retained registration comes again.
ApiServes ==
    /\ api = "reconciling" /\ republish = {}
    /\ api' = "serving"
    /\ unread' = registered
    /\ UNCHANGED <<rows, streamVars, republish, req, budget, settled, hwVars, engVars>>

\* Mutant of Upsert: a registration writes the whole row.
UpsertResets(d) ==
    /\ api = "serving" /\ d \in unread
    /\ unread' = unread \ {d}
    /\ rows' = [rows EXCEPT ![d].stored = TRUE, ![d].channel = None]
    /\ UNCHANGED <<streamVars, api, republish, req, budget, settled, hwVars, engVars>>

\* RegistryConsumer and upsert_sensor: a row of its own for a probe that has none, and
\* nothing that an operator chose is touched.
Upsert(d) ==
    /\ api = "serving" /\ d \in unread
    /\ unread' = unread \ {d}
    /\ rows' = IF Stored(d) THEN rows ELSE [rows EXCEPT ![d] = [Absent EXCEPT !.stored = TRUE]]
    /\ UNCHANGED <<streamVars, api, republish, req, budget, settled, hwVars, engVars>>

ApiDies ==
    /\ api # "down"
    /\ Fault
    /\ api' = "down"
    /\ republish' = {} /\ unread' = {}
    /\ req' = [r \in Request |-> IdleReq]
    /\ settled' = FALSE
    /\ UNCHANGED <<rows, streamVars, hwVars, engVars>>

-----------------------------------------------------------------------------
(* hardware-io.                                                            *)

\* read_assignments and _remember_assignments; build_from_assignments follows from them.
HwBuilds ==
    /\ hw.phase = "down"
    /\ hw' = [phase |-> "building", conn |-> TRUE, known |-> stream]
    /\ UNCHANGED <<rows, streamVars, apiVars, req, budget, settled, registered, engVars>>

\* watch_assignments, only now, and then the registrations of the probes it built.
HwWatches ==
    /\ hw.phase = "building"
    /\ hw' = [hw EXCEPT !.phase = "watching"]
    /\ LET probes == {d \in Device : hw.known[d].adopted /\ hw.known[d].channel \in Rom}
       IN  /\ registered' = registered \cup probes
           /\ unread' = IF api = "serving" THEN unread \cup probes ELSE unread
    /\ UNCHANGED <<rows, streamVars, api, republish, req, budget, settled, engVars>>

HwDrops ==
    /\ hw.phase = "watching" /\ hw.conn
    /\ Fault
    /\ hw' = [hw EXCEPT !.conn = FALSE]
    /\ UNCHANGED <<rows, streamVars, apiVars, req, settled, registered, engVars>>

\* _republish_safe_states is all that a reconnect runs: the assignments are not read again.
HwReconnects ==
    /\ hw.phase = "watching" /\ ~hw.conn
    /\ hw' = [hw EXCEPT !.conn = TRUE]
    /\ UNCHANGED <<rows, streamVars, apiVars, req, budget, settled, registered, engVars>>

-----------------------------------------------------------------------------
(* The control engine.                                                     *)

\* load_assignments: a consumer that starts at the last assignment of each device.
Draining == [NoDrain EXCEPT !.on = TRUE, !.undelivered = {d \in Device : stream[d] # Nothing}]

\* run(): connect, subscribe, and drain.
EngineStarts ==
    /\ ~eng.up
    /\ eng' = [up |-> TRUE, conn |-> TRUE, loaded |-> FALSE, missed |-> {}]
    /\ ledger' = {}
    /\ drain' = Draining
    /\ UNCHANGED <<rows, streamVars, apiVars, req, budget, settled, hwVars>>

\* _loop: drains again while _assignments_loaded is not set.
Redrain ==
    /\ eng.up /\ eng.conn /\ ~eng.loaded /\ ~drain.on
    /\ drain' = Draining
    /\ UNCHANGED <<rows, streamVars, apiVars, req, budget, settled, hwVars, eng, ledger>>

\* A fetch takes what has been stored since the one before ...
Fetch ==
    /\ eng.conn /\ drain.on /\ drain.undelivered # {} /\ DOMAIN drain.batch = {}
    /\ drain' = [drain EXCEPT !.batch = [d \in drain.undelivered |-> stream[d]], !.undelivered = {}]
    /\ UNCHANGED <<rows, streamVars, apiVars, req, budget, settled, hwVars, eng, ledger>>

\* ... and each message is applied, with an ack to wait for before the next one.
ApplyDrained(d) ==
    /\ d \in DOMAIN drain.batch
    /\ ledger' = Applied(ledger, d, drain.batch[d])
    /\ drain' = [drain EXCEPT !.batch = [e \in DOMAIN @ \ {d} |-> @[e]]]
    /\ UNCHANGED <<rows, streamVars, apiVars, req, budget, settled, hwVars, eng>>

\* A fetch that brings nothing in its second ends the drain, and run() or _loop sets
\* _assignments_loaded, whatever a reconnect has set it to in between.  After a disconnect
\* a fetch may bring nothing, whatever is stored: load_assignments takes it for the end.
DrainEnds ==
    /\ drain.on /\ DOMAIN drain.batch = {}
    /\ drain.undelivered = {} \/ drain.torn
    /\ drain' = NoDrain
    /\ eng' = [eng EXCEPT !.loaded = TRUE, !.missed = IF eng.conn THEN drain.undelivered ELSE {}]
    /\ UNCHANGED <<rows, streamVars, apiVars, req, budget, settled, hwVars, ledger>>

EngineDies ==
    /\ eng.up
    /\ Fault
    /\ eng' = [up |-> FALSE, conn |-> FALSE, loaded |-> FALSE, missed |-> {}]
    /\ ledger' = {}
    /\ drain' = NoDrain
    /\ UNCHANGED <<rows, streamVars, apiVars, req, settled, hwVars>>

EngineDrops ==
    /\ eng.up /\ eng.conn
    /\ Fault
    /\ eng' = [eng EXCEPT !.conn = FALSE]
    /\ drain' = [drain EXCEPT !.torn = drain.on]
    /\ UNCHANGED <<rows, streamVars, apiVars, req, settled, hwVars, ledger>>

\* Mutant of EngineReconnects: nothing is done on a reconnect.
ReconnectsOnly ==
    /\ eng.up /\ ~eng.conn
    /\ eng' = [eng EXCEPT !.conn = TRUE]
    /\ UNCHANGED <<rows, streamVars, apiVars, req, budget, settled, hwVars, ledger, drain>>

\* reconnected_cb: _on_reconnected clears _assignments_loaded, also under a drain that is
\* still waiting for its fetch.
EngineReconnects ==
    /\ eng.up /\ ~eng.conn
    /\ eng' = [eng EXCEPT !.conn = TRUE, !.loaded = FALSE, !.missed = {}]
    /\ UNCHANGED <<rows, streamVars, apiVars, req, budget, settled, hwVars, ledger, drain>>

-----------------------------------------------------------------------------
\* restore_backup, all or nothing: Postgres is as it was when the archive was taken, just
\* now or before anything was bound.  Into an empty database, on fresh hardware: JetStream
\* starts empty and all are restarted.
Restore ==
    /\ Fault
    /\ rows' \in {rows, [d \in Device |-> Absent]}
    /\ stream' = [d \in Device |-> Nothing]
    /\ api' = "down" /\ republish' = {} /\ unread' = {}
    /\ req' = [r \in Request |-> IdleReq]
    /\ settled' = FALSE
    /\ hw' = [hw EXCEPT !.phase = "down"]
    /\ registered' = {}
    /\ eng' = [up |-> FALSE, conn |-> FALSE, loaded |-> FALSE, missed |-> {}]
    /\ ledger' = {}
    /\ drain' = NoDrain
    /\ UNCHANGED said

\* Past the first SELECT of the store's transaction.
InTransaction(q) == q.step \in {"known", "write"} \/ (q.step = "match" /\ q.op = "readopt")

\* With --force the tables are dropped and replaced under the services, which are told
\* nothing; the DROP waits for a transaction that has begun to read them.
ForceRestore ==
    /\ Fault
    /\ \A r \in Request : ~InTransaction(req[r])
    /\ rows' \in {rows, [d \in Device |-> Absent]}
    /\ settled' = FALSE
    /\ UNCHANGED <<streamVars, apiVars, req, hwVars, engVars>>

Init ==
    /\ rows = [d \in Device |-> Absent]
    /\ stream = [d \in Device |-> Nothing]
    /\ said = {}
    /\ api = "down" /\ republish = {} /\ unread = {}
    /\ req = [r \in Request |-> IdleReq]
    /\ budget = [requests |-> 0, faults |-> 0, overlap |-> FALSE]
    /\ settled = FALSE
    /\ hw = [phase |-> "down", conn |-> TRUE, known |-> stream]
    /\ registered = {}
    /\ eng = [up |-> FALSE, conn |-> FALSE, loaded |-> FALSE, missed |-> {}]
    /\ ledger = {}
    /\ drain = NoDrain

Next ==
    \/ \E r \in Request :
        \/ Serve(r) \/ PublishLost(r)
        \/ \E d \in Device : AskUnbind(r, d) \/ AskReadopt(r, d) \/ AskForget(r, d)
        \/ \E d \in Device, c \in Channel : AskBind(r, d, c)
    \/ ApiStarts \/ ApiServes \/ ApiDies
    \/ \E d \in Device : Republish(d) \/ RepublishLost(d) \/ Upsert(d)
    \/ HwBuilds \/ HwWatches \/ HwDrops \/ HwReconnects
    \/ EngineStarts \/ Redrain \/ Fetch \/ DrainEnds \/ EngineDies \/ EngineDrops \/ EngineReconnects
    \/ \E d \in Device : ApplyDrained(d)
    \/ Restore \/ ForceRestore

Spec == Init /\ [][Next]_vars

(* Containers are restarted, requests and callbacks run on, clients reconnect. *)
Fairness ==
    /\ WF_vars(ApiStarts) /\ WF_vars(ApiServes)
    /\ \A d \in Device : WF_vars(Republish(d)) /\ WF_vars(Upsert(d)) /\ WF_vars(ApplyDrained(d))
    /\ \A r \in Request : WF_vars(Serve(r))
    /\ WF_vars(HwBuilds) /\ WF_vars(HwWatches) /\ WF_vars(HwReconnects)
    /\ WF_vars(EngineStarts) /\ WF_vars(EngineReconnects) /\ WF_vars(Redrain)
    /\ WF_vars(Fetch) /\ WF_vars(DrainEnds)

FairSpec == Spec /\ Fairness

-----------------------------------------------------------------------------
(* Properties.                                                             *)

\* No two rows claim one channel, adopted or detached: hardware keeps one identity.
\* (bind_device: "matches before it creates"; readopt_device counts on it.)  Requests
\* that overlap are excepted: the match and the insert are two statements, and nothing
\* in the table keeps two of them apart.
OneRowPerChannel ==
    ~budget.overlap =>
        \A d, e \in Device : (d # e /\ rows[d].channel # None) => rows[d].channel # rows[e].channel

\* Once the API serves, with no request under way and nothing lost or overtaken since it
\* started, the retained assignment of every adopted device is the one Postgres has: also
\* after a restore, which starts from an empty stream.
StreamReconciled ==
    (api = "serving" /\ settled /\ Quiet)
        => \A d \in Device : rows[d].adopted => stream[d] = AssignmentOf(d)

\* Devices whose retained assignment is adopted.
Register == {d \in Device : stream[d].adopted}

Engine == INSTANCE Follower WITH register <- Register, view <- ledger

\* The engine's ledger implements Follower: through restarts, disconnects and re-drains
\* that overlap live messages, what it holds the stream has said, and it agrees with the
\* stream once the stream rests, but for what a drain that was struck left behind.
EngineFollows ==
    /\ Engine!Spec
    /\ \A d \in Device :
        /\ <>[](d \in Register /\ d \notin eng.missed) => <>[](d \in ledger)
        /\ <>[](d \notin Register /\ d \notin eng.missed) => <>[](d \notin ledger)

\* What _on_reconnected says of the re-drain: "JetStream [...] still has whatever tombstone
\* or bind was missed during the gap".  A drain that the gap struck ends after the callback
\* and sets the flag that it cleared.
EngineCatchesUp == Engine!CatchesUp
=============================================================================
