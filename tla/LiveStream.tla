----------------------------- MODULE LiveStream -----------------------------
(***************************************************************************)
(* The WebSocket bridge: from BR_STATE to what a client shows (stream.py,  *)
(* and the socket's handler in app.py).                                    *)
(*                                                                         *)
(* One actuator, whose states are numbered as they are published.  A new   *)
(* socket is first handed the state BR_STATE retains and then what the     *)
(* bridge's one subscription brings; every await of subscribe() and of     *)
(* _on_message is a point where the other may run.                         *)
(***************************************************************************)
EXTENDS Naturals, Sequences

CONSTANTS
    MaxStates,      \* states published
    QueueSize,      \* maxsize of a socket's queue
    MaxFaults       \* outages of the broker, replays that fail

VARIABLES
    retained,       \* BR_STATE: the last state published
    wire,           \* messages on their way to the bridge's subscription
    connected,      \* StreamBridge._nc is connected
    encoding,       \* the message _on_message is encoding, 0 if none
    socket,         \* where the client's socket is
    replay,         \* what _retained_state has read
    queue,          \* the socket's queue
    view,           \* the newest state the client was sent
    revoked,        \* the client has been revoked
    faults

vars == <<retained, wire, connected, encoding, socket, replay, queue, view, revoked, faults>>

State == 0..MaxStates
Newer(a, b) == IF a > b THEN a ELSE b

Fault == faults < MaxFaults /\ faults' = faults + 1

-----------------------------------------------------------------------------
(* The spine.                                                              *)

\* publish_state: kept by the stream, and brought to whoever is subscribed.
Publish ==
    /\ retained < MaxStates
    /\ retained' = retained + 1
    /\ wire' = IF connected THEN Append(wire, retained + 1) ELSE wire
    /\ UNCHANGED <<connected, encoding, socket, replay, queue, view, revoked, faults>>

\* The connection drops, and with it what was on its way.
Disconnect ==
    /\ connected
    /\ Fault
    /\ connected' = FALSE
    /\ wire' = <<>>
    /\ UNCHANGED <<retained, encoding, socket, replay, queue, view, revoked>>

\* nats-py reconnects by itself; nothing is read again.
Reconnect ==
    /\ ~connected /\ faults > 0
    /\ connected' = TRUE
    /\ UNCHANGED <<retained, wire, encoding, socket, replay, queue, view, revoked, faults>>

-----------------------------------------------------------------------------
(* The bridge.                                                             *)

\* _on_message: the frame is built, for which the overrides are read from Postgres.
Encode ==
    /\ wire # <<>> /\ encoding = 0
    /\ encoding' = Head(wire)
    /\ wire' = Tail(wire)
    /\ UNCHANGED <<retained, connected, socket, replay, queue, view, revoked, faults>>

\* It is put into the queue of every subscriber; one that is full drops it.
FanOut ==
    /\ encoding # 0
    /\ queue' = IF socket = "open" /\ Len(queue) < QueueSize THEN Append(queue, encoding) ELSE queue
    /\ encoding' = 0
    /\ UNCHANGED <<retained, wire, connected, socket, replay, view, revoked, faults>>

-----------------------------------------------------------------------------
(* The socket.                                                             *)

\* The first message authenticates; subscribe() makes sure of the connection.
Accept ==
    /\ socket = "closed" /\ ~revoked
    /\ connected' = TRUE
    /\ socket' = "replay"
    /\ UNCHANGED <<retained, wire, encoding, replay, queue, view, revoked, faults>>

\* _retained_state: the last state of every actuator, or nothing when the read fails.
ReadRetained ==
    /\ socket = "replay"
    /\ replay' = retained
    /\ socket' = "joining"
    /\ UNCHANGED <<retained, wire, connected, encoding, queue, view, revoked, faults>>

ReadFails ==
    /\ socket = "replay"
    /\ Fault
    /\ replay' = 0
    /\ socket' = "joining"
    /\ UNCHANGED <<retained, wire, connected, encoding, queue, view, revoked>>

\* Once its frames are encoded and its consumer is deleted, the queue is a subscriber's.
Join ==
    /\ socket = "joining"
    /\ queue' = IF replay = 0 THEN <<>> ELSE <<replay>>
    /\ socket' = "open"
    /\ UNCHANGED <<retained, wire, connected, encoding, replay, view, revoked, faults>>

\* A frame is sent; the client keeps the newer of two.
Send ==
    /\ socket = "open" /\ queue # <<>>
    /\ view' = Newer(view, Head(queue))
    /\ queue' = Tail(queue)
    /\ UNCHANGED <<retained, wire, connected, encoding, socket, replay, revoked, faults>>

\* Revocation reaches an open socket with the next frame after the recheck is due.
CloseRevoked ==
    /\ socket = "open" /\ queue # <<>> /\ revoked
    /\ socket' = "closed"
    /\ queue' = <<>>
    /\ UNCHANGED <<retained, wire, connected, encoding, replay, view, revoked, faults>>

Leave ==
    /\ socket = "open"
    /\ socket' = "closed"
    /\ queue' = <<>>
    /\ UNCHANGED <<retained, wire, connected, encoding, replay, view, revoked, faults>>

Revoke ==
    /\ ~revoked
    /\ revoked' = TRUE
    /\ UNCHANGED <<retained, wire, connected, encoding, socket, replay, queue, view, faults>>

-----------------------------------------------------------------------------
Init ==
    /\ retained = 0 /\ wire = <<>> /\ connected = FALSE /\ encoding = 0
    /\ socket = "closed" /\ replay = 0 /\ queue = <<>> /\ view = 0
    /\ revoked = FALSE /\ faults = 0

Next ==
    \/ Publish \/ Disconnect \/ Reconnect
    \/ Encode \/ FanOut
    \/ Accept \/ ReadRetained \/ ReadFails \/ Join \/ Send \/ CloseRevoked \/ Leave
    \/ Revoke

Spec == Init /\ [][Next]_vars

-----------------------------------------------------------------------------
(* Properties.                                                             *)

\* A change that lands between the replay and the live fan-out reaches the client after its
\* replayed predecessor: an open socket with nothing under way has been sent the last state.
NothingMissed ==
    (socket = "open" /\ wire = <<>> /\ encoding = 0 /\ queue = <<>>) => view = retained
=============================================================================
