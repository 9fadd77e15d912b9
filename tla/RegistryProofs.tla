--------------------------- MODULE RegistryProofs ---------------------------
(***************************************************************************)
(* For any number of devices, channels, requests and faults: one row per   *)
(* channel as long as no two requests overlap, a stream that agrees with   *)
(* Postgres once the API serves and nothing was lost, and an engine whose  *)
(* ledger only ever holds what the stream has said.                        *)
(***************************************************************************)
EXTENDS Registry, TLAPS

-----------------------------------------------------------------------------
(* The inductive invariant.                                                *)

\* What a request at a step knows.
Shaped(q) ==
    /\ q.step = "match" => /\ q.op \in {"bind", "readopt"}
                           /\ q.device \in Device /\ q.channel \in Channel
                           /\ q.op = "readopt" => q.target = q.device
    /\ q.step = "known" => q.op = "bind" /\ q.device \in Device /\ q.channel \in Channel
    /\ q.step = "write" => /\ q.op \in {"bind", "readopt", "forget"} /\ q.device \in Device
                           /\ q.op = "bind" => q.channel \in Channel
                           /\ q.op = "readopt" => q.target = q.device
    /\ q.step = "publish" => q.channel \in Channel /\ q.target \in Device

\* A request that nobody overlapped, or that nothing was lost since, is the only one, and
\* there are none unless the API serves.
OneAtATime ==
    /\ settled \/ ~budget.overlap =>
         \A r, q \in Request : req[r] # IdleReq /\ req[q] # IdleReq => r = q
    /\ api # "serving" => Quiet

\* What bind_device matched is the only row on the channel it is about to write; while it
\* asks for the id, no row is.
Matched(q) ==
    /\ q.step = "write" /\ q.op = "bind" =>
         \A e \in Device : rows[e].channel = q.channel => e = q.target
    /\ q.step = "known" => \A e \in Device : rows[e].channel # q.channel

MatchStands == ~budget.overlap => \A r \in Request : Matched(req[r])

\* What is left of a reconciliation is what the table says, unless that was replaced under it.
RepublishIsTable ==
    settled /\ api = "reconciling" =>
        \A d \in Device, a \in Assignment :
            <<d, a>> \in republish => rows[d].adopted /\ a = AssignmentOf(d)

\* A publish that is about to be made says what the table says of an adopted device.
Agrees(q) == rows[q.target].adopted => q.op # "unbind" /\ q.channel = rows[q.target].channel

\* With nothing lost, an adopted device is on the stream as it is in the table, or the
\* reconciliation or the request that changed it has yet to publish it.
StreamOwed ==
    settled =>
        /\ api = "reconciling" => \A d \in Device :
             rows[d].adopted => <<d, AssignmentOf(d)>> \in republish \/ stream[d] = AssignmentOf(d)
        /\ api = "serving" =>
             /\ \A r \in Request : req[r].step = "publish" => Agrees(req[r])
             /\ \A d \in Device : rows[d].adopted =>
                  \/ stream[d] = AssignmentOf(d)
                  \/ \E r \in Request : req[r].step = "publish" /\ req[r].target = d

\* The table, the stream and the requests.
TableTypes ==
    /\ rows \in [Device -> Row]
    /\ \A d \in Device : /\ ~Stored(d) => rows[d] = Absent
                         /\ rows[d].adopted => rows[d].channel # None
    /\ stream \in [Device -> Assignment]
    /\ api \in {"down", "reconciling", "serving"}
    /\ republish \subseteq Device \X Assignment
    /\ req \in [Request -> Req]
    /\ budget \in [requests : 0..MaxRequests, faults : 0..MaxFaults, overlap : BOOLEAN]
    /\ settled \in BOOLEAN

TableInv ==
    /\ TableTypes
    /\ \A r \in Request : Shaped(req[r])
    /\ OneAtATime /\ MatchStands /\ OneRowPerChannel
    /\ RepublishIsTable /\ StreamOwed

\* Those who follow the stream.
FollowTypes ==
    /\ said \subseteq Device
    /\ unread \subseteq Device
    /\ hw \in [phase : {"down", "building", "watching"}, conn : BOOLEAN, known : [Device -> Assignment]]
    /\ registered \subseteq Device
    /\ eng \in [up : BOOLEAN, conn : BOOLEAN, loaded : BOOLEAN, missed : SUBSET Device]
    /\ ledger \subseteq Device
    /\ drain \in [on : BOOLEAN, undelivered : SUBSET Device,
                  batch : UNION {[D -> Assignment] : D \in SUBSET Device}, torn : BOOLEAN]

\* What was taken off the stream, what the engine holds and what is retained has been said.
SaidSo ==
    /\ \A d \in Device : stream[d].adopted => d \in said
    /\ \A d \in DOMAIN drain.batch : drain.batch[d].adopted => d \in said
    /\ ledger \subseteq said

FollowInv == FollowTypes /\ SaidSo

-----------------------------------------------------------------------------
(* The table, the stream and the requests.                                 *)

\* A fault leaves the overlap alone.
LEMMA FaultBudget ==
    ASSUME TableTypes, Fault \/ UNCHANGED budget
    PROVE  /\ budget' \in [requests : 0..MaxRequests, faults : 0..MaxFaults, overlap : BOOLEAN]
           /\ budget'.overlap = budget.overlap
  BY RegistryAssumption DEF TableTypes, Fault

\* A step of hardware-io or of the engine.
LEMMA TableUndisturbed ==
    ASSUME TableInv, UNCHANGED <<rows, stream, api, republish, req, settled>>,
           Fault \/ UNCHANGED budget
    PROVE  TableInv'
<1>1. /\ budget' \in [requests : 0..MaxRequests, faults : 0..MaxFaults, overlap : BOOLEAN]
      /\ budget'.overlap = budget.overlap
  BY FaultBudget DEF TableInv
<1>2. TableTypes'
  BY <1>1 DEF TableInv, TableTypes, Stored
<1>3. OneAtATime' /\ MatchStands' /\ OneRowPerChannel'
  BY <1>1 DEF TableInv, OneAtATime, Quiet, MatchStands, Matched, OneRowPerChannel
<1>4. RepublishIsTable' /\ StreamOwed'
  BY DEF TableInv, RepublishIsTable, StreamOwed, Agrees, AssignmentOf
<1>5. QED
  BY <1>2, <1>3, <1>4 DEF TableInv, Shaped

\* What a row is, and what is published of an adopted one.
LEMMA RowFields ==
    ASSUME TableTypes, NEW d \in Device
    PROVE  /\ rows[d].channel \in Channel \cup {None}
           /\ rows[d].adopted \in BOOLEAN /\ rows[d].stored \in BOOLEAN
           /\ rows[d].adopted => rows[d].channel \in Channel /\ AssignmentOf(d) \in Assignment
           /\ rows[d].channel # None => Stored(d)
<1>1. rows[d] \in Row
  BY DEF TableTypes
<1>2. /\ rows[d].channel \in Channel \cup {None}
      /\ rows[d].adopted \in BOOLEAN /\ rows[d].stored \in BOOLEAN
  BY <1>1 DEF Row
<1>3. rows[d].adopted => rows[d].channel \in Channel
  BY <1>2 DEF TableTypes
<1>4. rows[d].channel # None => Stored(d)
  BY DEF TableTypes, Absent
<1>5. QED
  BY <1>2, <1>3, <1>4 DEF AssignmentOf, Assignment

\* Ask: a request that is taken up next to another one counts as overlapping, and unsettles.
LEMMA AskTakesUp ==
    ASSUME TableInv, NEW r \in Request, NEW op, NEW d, NEW c, NEW step, NEW target,
           Ask(r, op, d, c, step, target),
           [step |-> step, op |-> op, device |-> d, channel |-> c, target |-> target] \in Req,
           Shaped([step |-> step, op |-> op, device |-> d, channel |-> c, target |-> target])
    PROVE  /\ api = "serving"
           /\ req' \in [Request -> Req]
           /\ req'[r] = [step |-> step, op |-> op, device |-> d, channel |-> c, target |-> target]
           /\ \A q \in Request \ {r} : req'[q] = req[q]
           /\ \A q \in Request : Shaped(req'[q])
           /\ budget' \in [requests : 0..MaxRequests, faults : 0..MaxFaults, overlap : BOOLEAN]
           /\ ~budget'.overlap => ~budget.overlap /\ Quiet
           /\ settled' \in BOOLEAN
           /\ settled' => settled /\ Quiet
<1> DEFINE taken == [step |-> step, op |-> op, device |-> d, channel |-> c, target |-> target]
<1>1. /\ req \in [Request -> Req] /\ settled \in BOOLEAN
      /\ budget \in [requests : 0..MaxRequests, faults : 0..MaxFaults, overlap : BOOLEAN]
      /\ \A q \in Request : Shaped(req[q])
  BY DEF TableInv, TableTypes
<1>2. /\ api = "serving" /\ req' = [req EXCEPT ![r] = taken]
      /\ budget' = [budget EXCEPT !.requests = @ + 1, !.overlap = @ \/ ~Quiet]
      /\ budget.requests < MaxRequests
      /\ settled' = (settled /\ Quiet)
  BY DEF Ask
<1>3. taken \in Req /\ Shaped(taken)
  OBVIOUS
<1> HIDE DEF taken
<1>4. /\ req' \in [Request -> Req] /\ req'[r] = taken
      /\ \A q \in Request \ {r} : req'[q] = req[q]
  BY <1>1, <1>2, <1>3
<1>5. \A q \in Request : Shaped(req'[q])
  BY <1>1, <1>3, <1>4
<1>6. /\ budget'.overlap = (budget.overlap \/ ~Quiet)
      /\ budget' \in [requests : 0..MaxRequests, faults : 0..MaxFaults, overlap : BOOLEAN]
  <2>1. budget.requests + 1 \in 0..MaxRequests
    BY <1>1, <1>2, RegistryAssumption
  <2>2. Quiet \in BOOLEAN
    BY DEF Quiet
  <2>3. QED
    BY <1>1, <1>2, <2>1, <2>2
<1>7. settled' \in BOOLEAN /\ (settled' => settled /\ Quiet)
  BY <1>1, <1>2
<1>8. QED
  BY <1>2, <1>4, <1>5, <1>6, <1>7 DEF taken

\* A request that found nobody is the only one.
LEMMA AskedAlone ==
    ASSUME TableInv, NEW r \in Request, api = "serving", UNCHANGED api,
           \A q \in Request \ {r} : req'[q] = req[q],
           ~budget'.overlap => Quiet, settled' => Quiet
    PROVE  OneAtATime'
  BY DEF OneAtATime, Quiet

\* A request that goes on, or ends, is as alone as it was.
LEMMA StepAlone ==
    ASSUME TableInv, NEW r \in Request, req[r].step # "idle", UNCHANGED <<api, settled>>,
           budget'.overlap = budget.overlap, \A q \in Request \ {r} : req'[q] = req[q]
    PROVE  /\ api = "serving"
           /\ OneAtATime'
           /\ settled \/ ~budget.overlap => \A q \in Request \ {r} : req[q] = IdleReq
<1>1. req[r] # IdleReq
  BY DEF IdleReq
<1>2. api = "serving"
  BY <1>1 DEF TableInv, OneAtATime, Quiet
<1>3. settled \/ ~budget.overlap => \A q \in Request \ {r} : req[q] = IdleReq
  BY <1>1 DEF TableInv, OneAtATime
<1>4. QED
  BY <1>2, <1>3 DEF OneAtATime

\* A request that has yet to write: the table is as it was, and nobody is about to publish.
LEMMA AskedTable ==
    ASSUME TableInv, NEW r \in Request, NEW op, NEW d, NEW c, NEW step, NEW target,
           Ask(r, op, d, c, step, target), UNCHANGED <<rows, stream, api, republish>>,
           [step |-> step, op |-> op, device |-> d, channel |-> c, target |-> target] \in Req,
           Shaped([step |-> step, op |-> op, device |-> d, channel |-> c, target |-> target]),
           step \in {"match", "write"}, step = "write" => op # "bind"
    PROVE  TableInv'
<1>1. /\ api = "serving" /\ req' \in [Request -> Req]
      /\ req'[r] = [step |-> step, op |-> op, device |-> d, channel |-> c, target |-> target]
      /\ \A q \in Request \ {r} : req'[q] = req[q]
      /\ \A q \in Request : Shaped(req'[q])
      /\ budget' \in [requests : 0..MaxRequests, faults : 0..MaxFaults, overlap : BOOLEAN]
      /\ ~budget'.overlap => ~budget.overlap /\ Quiet
      /\ settled' \in BOOLEAN
      /\ settled' => settled /\ Quiet
  BY AskTakesUp
<1>2. req'[r].step = step /\ req'[r].op = op
  BY <1>1
<1>3. TableTypes'
  BY <1>1 DEF TableInv, TableTypes, Stored
<1>4. OneAtATime'
  BY <1>1, AskedAlone
<1>5. MatchStands' /\ OneRowPerChannel' /\ RepublishIsTable'
  BY <1>1, <1>2 DEF TableInv, MatchStands, Matched, OneRowPerChannel, RepublishIsTable, AssignmentOf, Quiet, IdleReq
<1>6. StreamOwed'
  BY <1>1, <1>2 DEF TableInv, StreamOwed, AssignmentOf, Quiet, IdleReq
<1>7. QED
  BY <1>1, <1>3, <1>4, <1>5, <1>6 DEF TableInv

\* AskBind, AskReadopt and AskForget are such requests.
LEMMA AskBindTable ==
    ASSUME TableInv, NEW r \in Request, NEW d \in Device, NEW c \in Channel, AskBind(r, d, c)
    PROVE  TableInv'
<1>1. Ask(r, "bind", d, c, "match", None) /\ UNCHANGED <<rows, stream, api, republish>>
  BY DEF AskBind, streamVars, apiVars
<1> DEFINE taken == [step |-> "match", op |-> "bind", device |-> d, channel |-> c, target |-> None]
<1>2. taken \in Req /\ Shaped(taken)
  BY DEF Req, Shaped
<1>3. QED
  BY <1>1, <1>2, AskedTable

\* A readopt knows the channel its row remembers.
LEMMA AskReadoptTable ==
    ASSUME TableInv, NEW r \in Request, NEW d \in Device, AskReadopt(r, d)
    PROVE  TableInv'
<1>1. Ask(r, "readopt", d, rows[d].channel, "match", d) /\ UNCHANGED <<rows, stream, api, republish>>
  BY DEF AskReadopt, streamVars, apiVars
<1> DEFINE taken == [step |-> "match", op |-> "readopt", device |-> d, channel |-> rows[d].channel, target |-> d]
<1>2. taken \in Req /\ Shaped(taken)
  BY RowFields DEF Req, Shaped, TableInv, AskReadopt
<1>3. QED
  BY <1>1, <1>2, AskedTable

\* A forget knows the device.
LEMMA AskForgetTable ==
    ASSUME TableInv, NEW r \in Request, NEW d \in Device, AskForget(r, d)
    PROVE  TableInv'
<1>1. Ask(r, "forget", d, None, "write", None) /\ UNCHANGED <<rows, stream, api, republish>>
  BY DEF AskForget, streamVars, apiVars
<1> DEFINE taken == [step |-> "write", op |-> "forget", device |-> d, channel |-> None, target |-> None]
<1>2. taken \in Req /\ Shaped(taken)
  BY DEF Req, Shaped
<1>3. QED
  BY <1>1, <1>2, AskedTable

\* AskUnbind: the row is detached at once, and the tombstone agrees with it.
LEMMA AskUnbindTable ==
    ASSUME TableInv, NEW r \in Request, NEW d \in Device, AskUnbind(r, d)
    PROVE  TableInv'
<1> DEFINE c == rows[d].channel
           taken == [step |-> "publish", op |-> "unbind", device |-> d, channel |-> c, target |-> d]
<1>1. c \in Channel
  BY RowFields DEF TableInv, AskUnbind
<1>2. /\ Ask(r, "unbind", d, c, "publish", d)
      /\ rows' = [rows EXCEPT ![d].adopted = FALSE]
      /\ UNCHANGED <<stream, api, republish>>
  BY DEF AskUnbind, streamVars, apiVars
<1>3. /\ rows' \in [Device -> Row]
      /\ \A e \in Device : rows'[e].channel = rows[e].channel /\ rows'[e].stored = rows[e].stored
      /\ \A e \in Device \ {d} : rows'[e] = rows[e]
      /\ ~rows'[d].adopted
  <2>1. rows \in [Device -> Row]
    BY DEF TableInv, TableTypes
  <2>2. QED
    BY <1>2, <2>1 DEF Row
<1> HIDE DEF c
<1>4. taken \in Req /\ Shaped(taken)
  BY <1>1 DEF Req, Shaped
<1>5. /\ api = "serving" /\ req' \in [Request -> Req] /\ req'[r] = taken
      /\ \A q \in Request \ {r} : req'[q] = req[q]
      /\ \A q \in Request : Shaped(req'[q])
      /\ budget' \in [requests : 0..MaxRequests, faults : 0..MaxFaults, overlap : BOOLEAN]
      /\ ~budget'.overlap => ~budget.overlap /\ Quiet
      /\ settled' \in BOOLEAN
      /\ settled' => settled /\ Quiet
  BY <1>4, <1>2, AskTakesUp
<1>6. TableTypes'
  <2>1. Stored(d)
    BY <1>1, RowFields, RegistryAssumption DEF c, TableInv
  <2>2. QED
    BY <1>2, <1>5, <1>3, <2>1 DEF TableInv, TableTypes, Stored
<1>7. OneAtATime'
  BY <1>2, <1>5, AskedAlone
<1>8. MatchStands' /\ OneRowPerChannel' /\ RepublishIsTable'
  BY <1>2, <1>5, <1>3 DEF TableInv, MatchStands, Matched, OneRowPerChannel, RepublishIsTable, Quiet, IdleReq
<1>9. StreamOwed'
  <2>1. ASSUME settled', NEW q \in Request, req'[q].step = "publish" PROVE Agrees(req[q])'
    <3>1. q = r
      BY <1>5, <2>1 DEF Quiet, IdleReq
    <3>2. req'[q].target = d
      BY <1>5, <3>1
    <3>3. QED
      BY <1>3, <3>2 DEF Agrees
  <2>2. ASSUME settled', NEW e \in Device, rows'[e].adopted PROVE stream'[e] = AssignmentOf(e)'
    <3>1. e # d /\ rows'[e] = rows[e]
      BY <1>3, <2>2
    <3>2. stream[e] = AssignmentOf(e)
      BY <1>5, <2>2, <3>1 DEF TableInv, StreamOwed, Quiet, IdleReq
    <3>3. QED
      BY <1>2, <3>1, <3>2 DEF AssignmentOf
  <2>3. QED
    BY <1>2, <1>5, <2>1, <2>2 DEF StreamOwed
<1>10. QED
  BY <1>5, <1>6, <1>7, <1>8, <1>9 DEF TableInv

\* A request goes on to a statement that it has yet to make: the table is as it was.
LEMMA GoesOnTable ==
    ASSUME TableInv, NEW r \in Request, NEW q \in Req, Shaped(q),
           req[r].step # "idle", req[r].step # "publish", q.step # "publish",
           req' = [req EXCEPT ![r] = q], ~budget.overlap => Matched(q),
           UNCHANGED <<rows, stream, api, republish, budget, settled>>
    PROVE  TableInv'
<1>1. req \in [Request -> Req]
  BY DEF TableInv, TableTypes
<1>2. /\ req' \in [Request -> Req] /\ req'[r] = q
      /\ \A p \in Request \ {r} : req'[p] = req[p]
  BY <1>1
<1>3. /\ api = "serving" /\ OneAtATime'
      /\ settled \/ ~budget.overlap => \A p \in Request \ {r} : req[p] = IdleReq
  BY <1>2, StepAlone
<1>4. TableTypes'
  BY <1>2 DEF TableInv, TableTypes, Stored
<1>5. \A p \in Request : Shaped(req'[p])
  BY <1>2 DEF TableInv
<1>6. MatchStands'
  <2>1. ASSUME ~budget.overlap, NEW p \in Request PROVE Matched(req[p])'
    <3>1. CASE p = r
      BY <1>2, <2>1, <3>1 DEF Matched
    <3>2. CASE p # r
      BY <1>2, <1>3, <2>1, <3>2 DEF Matched, IdleReq
    <3>3. QED
      BY <3>1, <3>2
  <2>2. QED
    BY <2>1 DEF MatchStands
<1>7. OneRowPerChannel' /\ RepublishIsTable'
  BY DEF TableInv, OneRowPerChannel, RepublishIsTable, AssignmentOf
<1>8. StreamOwed'
  <2>1. \A p \in Request : req'[p].step = "publish" <=> req[p].step = "publish"
    BY <1>2
  <2>2. \A p \in Request : req'[p].step = "publish" => req'[p] = req[p]
    BY <1>2
  <2>3. ASSUME settled', NEW p \in Request, req'[p].step = "publish" PROVE Agrees(req[p])'
    BY <1>3, <2>1, <2>2, <2>3 DEF TableInv, StreamOwed, Agrees
  <2>4. ASSUME settled', NEW e \in Device, rows'[e].adopted
        PROVE  stream'[e] = AssignmentOf(e)' \/ \E p \in Request : req'[p].step = "publish" /\ req'[p].target = e
    <3>1. \/ stream[e] = AssignmentOf(e)
          \/ \E p \in Request : req[p].step = "publish" /\ req[p].target = e
      BY <1>3, <2>4 DEF TableInv, StreamOwed
    <3>2. AssignmentOf(e)' = AssignmentOf(e)
      BY DEF AssignmentOf
    <3>3. QED
      BY <2>1, <2>2, <3>1, <3>2
  <2>5. QED
    BY <1>3, <2>3, <2>4 DEF StreamOwed
<1>9. QED
  BY <1>3, <1>4, <1>5, <1>6, <1>7, <1>8 DEF TableInv

\* BindMatch: what is found is on the channel, and nobody else is.
LEMMA BindMatchTable == ASSUME TableInv, NEW r \in Request, BindMatch(r) PROVE TableInv'
<1> DEFINE found == Matches(req[r].channel)
           next == IF found = {} /\ req[r].channel \in Rom THEN "known" ELSE "write"
<1>1. PICK t \in IF found = {} THEN {None} ELSE found :
         req' = [req EXCEPT ![r].step = next, ![r].target = t]
  BY DEF BindMatch
<1>2. /\ req[r].step = "match" /\ req[r].op = "bind"
      /\ UNCHANGED <<rows, stream, api, republish, budget, settled>>
  BY DEF BindMatch, streamVars, apiVars
<1>3. req[r] \in Req /\ req[r].device \in Device /\ req[r].channel \in Channel
  BY <1>2 DEF TableInv, TableTypes, Shaped
<1>4. /\ t \in Device \cup {None} /\ next \in {"known", "write"}
      /\ \A e \in Device : rows[e].channel = req[r].channel => t \in Device /\ rows[t].channel = req[r].channel
      /\ next = "known" => \A e \in Device : rows[e].channel # req[r].channel
  <2>1. ASSUME NEW e \in Device, rows[e].channel = req[r].channel PROVE e \in found
    BY <1>3, <2>1, RowFields, RegistryAssumption DEF TableInv, Matches
  <2>2. QED
    BY <1>1, <2>1 DEF Matches
<1> HIDE DEF found, next
<1> DEFINE q == [req[r] EXCEPT !.step = next, !.target = t]
<1>5. /\ q \in Req /\ q.step = next /\ q.op = "bind" /\ q.target = t
      /\ q.channel = req[r].channel /\ q.device = req[r].device
  BY <1>2, <1>3, <1>4 DEF Req
<1>6. req' = [req EXCEPT ![r] = q]
  BY <1>1 DEF TableInv, TableTypes
<1> HIDE DEF q
<1>7. Shaped(q)
  BY <1>3, <1>4, <1>5 DEF Shaped
<1>8. ~budget.overlap => Matched(q)
  <2>1. ASSUME ~budget.overlap, NEW e \in Device, rows[e].channel = req[r].channel PROVE e = t
    BY <1>3, <1>4, <2>1, RegistryAssumption DEF TableInv, OneRowPerChannel
  <2>2. QED
    BY <1>4, <1>5, <2>1 DEF Matched
<1>9. QED
  BY <1>2, <1>4, <1>5, <1>6, <1>7, <1>8, GoesOnTable

\* BindKnown: no row is on the channel, whoever has the id.
LEMMA BindKnownTable == ASSUME TableInv, NEW r \in Request, BindKnown(r) PROVE TableInv'
<1> DEFINE d == req[r].device
           t == IF Stored(d) /\ rows[d].channel = None THEN d ELSE None
<1>1. /\ req[r].step = "known" /\ req' = [req EXCEPT ![r].step = "write", ![r].target = t]
      /\ UNCHANGED <<rows, stream, api, republish, budget, settled>>
  BY DEF BindKnown, streamVars, apiVars
<1>2. req[r] \in Req /\ d \in Device /\ req[r].channel \in Channel /\ req[r].op = "bind"
  BY <1>1 DEF TableInv, TableTypes, Shaped
<1>3. t \in Device \cup {None}
  BY <1>2
<1>4. ~budget.overlap => \A e \in Device : rows[e].channel # req[r].channel
  BY <1>1 DEF TableInv, MatchStands, Matched
<1> HIDE DEF t
<1> DEFINE q == [req[r] EXCEPT !.step = "write", !.target = t]
<1>5. /\ q \in Req /\ q.step = "write" /\ q.op = "bind" /\ q.target = t
      /\ q.channel = req[r].channel /\ q.device = d
  BY <1>2, <1>3 DEF Req
<1>6. req' = [req EXCEPT ![r] = q]
  BY <1>1 DEF TableInv, TableTypes
<1> HIDE DEF q
<1>7. Shaped(q) /\ (~budget.overlap => Matched(q))
  BY <1>2, <1>4, <1>5 DEF Shaped, Matched
<1>8. QED
  BY <1>1, <1>5, <1>6, <1>7, GoesOnTable

\* A request of the only ones in flight writes a row and has yet to publish it.
LEMMA WriteOwes ==
    ASSUME TableInv, NEW r \in Request, NEW t \in Device,
           api = "serving", UNCHANGED <<stream, api, settled>>,
           req[r].step # "publish",
           settled => \A q \in Request \ {r} : req[q] = IdleReq,
           \A q \in Request \ {r} : req'[q] = req[q],
           req'[r].step = "publish", req'[r].target = t, req'[r].op # "unbind",
           \A e \in Device \ {t} : rows'[e] = rows[e],
           rows'[t].adopted => rows'[t].channel = req'[r].channel
    PROVE  StreamOwed'
<1>1. ASSUME settled', NEW q \in Request, req'[q].step = "publish" PROVE Agrees(req[q])'
  <2>1. q = r
    BY <1>1 DEF IdleReq
  <2>2. QED
    BY <2>1 DEF Agrees
<1>2. ASSUME settled', NEW e \in Device, rows'[e].adopted
      PROVE  stream'[e] = AssignmentOf(e)' \/ \E q \in Request : req'[q].step = "publish" /\ req'[q].target = e
  <2>1. CASE e = t
    BY <2>1
  <2>2. CASE e # t
    <3>1. \A q \in Request : req[q].step # "publish"
      BY <1>2 DEF IdleReq
    <3>2. stream[e] = AssignmentOf(e)
      BY <1>2, <2>2, <3>1 DEF TableInv, StreamOwed
    <3>3. QED
      BY <2>2, <3>2 DEF AssignmentOf
  <2>3. QED
    BY <2>1, <2>2
<1>3. QED
  BY <1>1, <1>2 DEF StreamOwed

\* A request that has nothing to publish ends, and its device, if it wrote one, is gone.
LEMMA EndsTable ==
    ASSUME TableInv, NEW r \in Request, NEW d \in Device,
           req[r].step # "idle", req[r].step # "publish", End(r),
           rows' = rows \/ rows' = [rows EXCEPT ![d] = Absent],
           UNCHANGED <<stream, api, republish, budget, settled>>
    PROVE  TableInv'
<1>1. /\ req \in [Request -> Req] /\ rows \in [Device -> Row]
      /\ IdleReq \in Req /\ Absent \in Row
  BY DEF TableInv, TableTypes, IdleReq, Req, Absent, Row
<1>2. /\ req' \in [Request -> Req] /\ req'[r] = IdleReq
      /\ \A q \in Request \ {r} : req'[q] = req[q]
  BY <1>1 DEF End
<1>3. /\ rows' \in [Device -> Row]
      /\ \A e \in Device : rows'[e] = rows[e] \/ rows'[e] = Absent
  BY <1>1
<1>4. /\ api = "serving" /\ OneAtATime'
      /\ settled \/ ~budget.overlap => \A q \in Request \ {r} : req[q] = IdleReq
  BY <1>2, StepAlone
<1>5. TableTypes'
  <2>1. \A e \in Device : /\ ~Stored(e)' => rows'[e] = Absent
                          /\ rows'[e].adopted => rows'[e].channel # None
    BY <1>3 DEF TableInv, TableTypes, Stored, Absent
  <2>2. QED
    BY <1>2, <1>3, <2>1 DEF TableInv, TableTypes
<1>6. \A q \in Request : Shaped(req'[q])
  BY <1>2 DEF TableInv, Shaped, IdleReq
<1>7. MatchStands'
  BY <1>2, <1>4 DEF MatchStands, Matched, IdleReq
<1>8. OneRowPerChannel' /\ RepublishIsTable'
  <2>1. \A e \in Device : rows'[e].channel # None => rows'[e].channel = rows[e].channel
    BY <1>3 DEF Absent
  <2>2. QED
    BY <1>4, <2>1 DEF TableInv, OneRowPerChannel, RepublishIsTable
<1>9. StreamOwed'
  <2>1. ASSUME settled' PROVE \A q \in Request : req'[q].step # "publish" /\ req[q].step # "publish"
    BY <1>2, <1>4, <2>1 DEF IdleReq
  <2>2. ASSUME settled', NEW e \in Device, rows'[e].adopted PROVE stream'[e] = AssignmentOf(e)'
    <3>1. rows'[e] = rows[e]
      BY <1>3, <2>2 DEF Absent
    <3>2. stream[e] = AssignmentOf(e)
      BY <1>4, <2>1, <2>2, <3>1 DEF TableInv, StreamOwed
    <3>3. QED
      BY <3>1, <3>2 DEF AssignmentOf
  <2>3. QED
    BY <1>4, <2>1, <2>2 DEF StreamOwed
<1>10. QED
  BY <1>4, <1>5, <1>6, <1>7, <1>8, <1>9 DEF TableInv

\* A request has written the row of t, or found none, and goes on to publish for it.
LEMMA WritesTable ==
    ASSUME TableInv, NEW r \in Request, NEW t \in Device, NEW q \in Req,
           req[r].step = "write", req' = [req EXCEPT ![r] = q],
           q.step = "publish", q.target = t, q.op # "unbind", q.channel \in Channel,
           \/ rows' = rows /\ ~Stored(t)
           \/ rows' = [rows EXCEPT ![t] = [channel |-> q.channel, adopted |-> TRUE, stored |-> TRUE]],
           ~budget.overlap => \A e \in Device \ {t} : rows[e].channel # q.channel,
           UNCHANGED <<stream, api, republish, budget, settled>>
    PROVE  TableInv'
<1> DEFINE bound == [channel |-> q.channel, adopted |-> TRUE, stored |-> TRUE]
<1>1. req \in [Request -> Req] /\ rows \in [Device -> Row] /\ bound \in Row
  BY DEF TableInv, TableTypes, Row
<1>2. /\ req' \in [Request -> Req] /\ req'[r] = q
      /\ \A p \in Request \ {r} : req'[p] = req[p]
  BY <1>1
<1>3. /\ rows' \in [Device -> Row]
      /\ \A e \in Device \ {t} : rows'[e] = rows[e]
      /\ rows'[t] = bound \/ (rows'[t] = Absent /\ rows' = rows)
  BY <1>1 DEF TableInv, TableTypes
<1>4. bound.channel = q.channel /\ bound.stored
  OBVIOUS
<1> HIDE DEF bound
<1>5. /\ api = "serving" /\ OneAtATime'
      /\ settled \/ ~budget.overlap => \A p \in Request \ {r} : req[p] = IdleReq
  BY <1>2, StepAlone
<1>6. TableTypes'
  <2>1. \A e \in Device : /\ ~Stored(e)' => rows'[e] = Absent
                          /\ rows'[e].adopted => rows'[e].channel # None
    BY <1>3, <1>4, RegistryAssumption DEF TableInv, TableTypes, Stored, Absent
  <2>2. QED
    BY <1>2, <1>3, <2>1 DEF TableInv, TableTypes
<1>7. \A p \in Request : Shaped(req'[p])
  BY <1>2 DEF TableInv, Shaped
<1>8. MatchStands' /\ RepublishIsTable'
  BY <1>2, <1>5 DEF MatchStands, Matched, RepublishIsTable, IdleReq
<1>9. OneRowPerChannel'
  BY <1>3, <1>4 DEF TableInv, OneRowPerChannel
<1>10. StreamOwed'
  <2>1. rows'[t].adopted => rows'[t].channel = req'[r].channel
    BY <1>2, <1>3, <1>4 DEF Absent
  <2>2. QED
    BY <1>2, <1>3, <1>5, <2>1, WriteOwes
<1>11. QED
  BY <1>5, <1>6, <1>7, <1>8, <1>9, <1>10 DEF TableInv

\* BindWrite: the row that was matched is the only one of the channel, or there is none and
\* the new one becomes it.
LEMMA BindWriteTable == ASSUME TableInv, NEW r \in Request, BindWrite(r) PROVE TableInv'
<1> DEFINE t == req[r].target
           d == req[r].device
           bound == [channel |-> req[r].channel, adopted |-> TRUE, stored |-> TRUE]
<1>1. /\ req[r].step = "write" /\ req[r].op = "bind"
      /\ UNCHANGED <<stream, api, republish, budget, settled>>
  BY DEF BindWrite, streamVars, apiVars
<1>2. /\ req \in [Request -> Req] /\ req[r] \in Req
      /\ d \in Device /\ req[r].channel \in Channel /\ t \in Device \cup {None}
  BY <1>1 DEF TableInv, TableTypes, Shaped, Req
<1>3. ~budget.overlap => \A e \in Device : rows[e].channel = req[r].channel => e = t
  BY <1>1 DEF TableInv, MatchStands, Matched
<1>4. CASE t # None
  <2> DEFINE q == [req[r] EXCEPT !.step = "publish"]
  <2>1. /\ rows' = IF Stored(t) THEN [rows EXCEPT ![t] = bound] ELSE rows
        /\ req' = [req EXCEPT ![r].step = "publish"]
    BY <1>4 DEF BindWrite
  <2>2. /\ q \in Req /\ q.step = "publish" /\ q.target = t /\ q.op = "bind"
        /\ q.channel = req[r].channel /\ req' = [req EXCEPT ![r] = q]
    BY <1>1, <1>2, <2>1 DEF Req
  <2>3. \/ rows' = rows /\ ~Stored(t)
        \/ rows' = [rows EXCEPT ![t] = [channel |-> q.channel, adopted |-> TRUE, stored |-> TRUE]]
    BY <2>1, <2>2
  <2>4. ~budget.overlap => \A e \in Device \ {t} : rows[e].channel # q.channel
    BY <1>3, <2>2
  <2> HIDE DEF q, t, d
  <2>5. t \in Device /\ q.op # "unbind" /\ q.channel \in Channel
    BY <1>2, <1>4, <2>2
  <2>6. QED
    BY <1>1, <2>2, <2>3, <2>4, <2>5, WritesTable
<1>5. CASE t = None /\ ~Stored(d)
  <2> DEFINE q == [req[r] EXCEPT !.step = "publish", !.target = d]
  <2>1. /\ rows' = [rows EXCEPT ![d] = bound]
        /\ req' = [req EXCEPT ![r].step = "publish", ![r].target = d]
    BY <1>5 DEF BindWrite
  <2>2. /\ q \in Req /\ q.step = "publish" /\ q.target = d /\ q.op = "bind"
        /\ q.channel = req[r].channel /\ req' = [req EXCEPT ![r] = q]
    BY <1>1, <1>2, <2>1 DEF Req
  <2>3. rows' = [rows EXCEPT ![d] = [channel |-> q.channel, adopted |-> TRUE, stored |-> TRUE]]
    BY <2>1, <2>2
  <2>4. ~budget.overlap => \A e \in Device : rows[e].channel # q.channel
    BY <1>3, <1>5, <2>2, RegistryAssumption
  <2> HIDE DEF q, t, d
  <2>5. d \in Device /\ q.op # "unbind" /\ q.channel \in Channel
    BY <1>2, <2>2
  <2>6. QED
    BY <1>1, <2>2, <2>3, <2>4, <2>5, WritesTable
<1>6. CASE t = None /\ Stored(d)
  <2>1. UNCHANGED rows /\ End(r)
    BY <1>6 DEF BindWrite
  <2>2. QED
    BY <1>1, <1>2, <2>1, EndsTable
<1>7. QED
  BY <1>4, <1>5, <1>6

\* An UPDATE of adopted alone leaves what bind_device would have written.
LEMMA Readopted ==
    ASSUME NEW w \in Row, w.stored = TRUE
    PROVE  [w EXCEPT !.adopted = TRUE] = [channel |-> w.channel, adopted |-> TRUE, stored |-> TRUE]
<1> DEFINE x == [w EXCEPT !.adopted = TRUE]
           y == [channel |-> w.channel, adopted |-> TRUE, stored |-> TRUE]
<1>1. x \in Row /\ x.channel = w.channel /\ x.adopted = TRUE /\ x.stored = TRUE
  BY DEF Row
<1>2. y \in Row /\ y.channel = w.channel /\ y.adopted = TRUE /\ y.stored = TRUE
  BY DEF Row
<1> HIDE DEF x, y
<1>3. x = y
  BY <1>1, <1>2 DEF Row
<1>4. QED
  BY <1>3 DEF x, y

\* ReadoptMatch: a readopt goes on to its UPDATE, or ends.
LEMMA ReadoptMatchTable == ASSUME TableInv, NEW r \in Request, ReadoptMatch(r) PROVE TableInv'
<1>1. /\ req[r].step = "match" /\ req[r].op = "readopt"
      /\ UNCHANGED <<rows, stream, api, republish, budget, settled>>
  BY DEF ReadoptMatch, streamVars, apiVars
<1>2. /\ req \in [Request -> Req] /\ req[r] \in Req
      /\ req[r].device \in Device /\ req[r].target = req[r].device
  BY <1>1 DEF TableInv, TableTypes, Shaped
<1>3. CASE End(r)
  BY <1>1, <1>2, <1>3, EndsTable
<1>4. CASE req' = [req EXCEPT ![r].step = "write"]
  <2> DEFINE q == [req[r] EXCEPT !.step = "write"]
  <2>1. /\ q \in Req /\ q.step = "write" /\ q.op = "readopt"
        /\ q.device = req[r].device /\ q.target = req[r].target
    BY <1>1, <1>2 DEF Req
  <2>2. req' = [req EXCEPT ![r] = q]
    BY <1>2, <1>4
  <2> HIDE DEF q
  <2>3. Shaped(q) /\ Matched(q)
    BY <1>2, <2>1 DEF Shaped, Matched
  <2>4. QED
    BY <1>1, <2>1, <2>2, <2>3, GoesOnTable
<1>5. QED
  BY <1>3, <1>4 DEF ReadoptMatch

\* ReadoptWrite: the row has its channel, and it is its own.
LEMMA ReadoptWriteTable == ASSUME TableInv, NEW r \in Request, ReadoptWrite(r) PROVE TableInv'
<1> DEFINE d == req[r].device
<1>1. /\ req[r].step = "write" /\ req[r].op = "readopt"
      /\ UNCHANGED <<stream, api, republish, budget, settled>>
  BY DEF ReadoptWrite, streamVars, apiVars
<1>2. /\ req \in [Request -> Req] /\ req[r] \in Req
      /\ d \in Device /\ rows \in [Device -> Row]
  BY <1>1 DEF TableInv, TableTypes, Shaped
<1>3. CASE Bindable(d)
  <2>1. /\ rows' = [rows EXCEPT ![d].adopted = TRUE]
        /\ req' = [req EXCEPT ![r].step = "publish", ![r].channel = rows[d].channel]
    BY <1>3 DEF ReadoptWrite
  <2>2. rows[d].channel \in Channel /\ rows[d].stored = TRUE
    BY <1>2, <1>3, RowFields DEF TableInv, Bindable, Stored
  <2> DEFINE q == [req[r] EXCEPT !.step = "publish", !.channel = rows[d].channel]
  <2>3. /\ q \in Req /\ q.step = "publish" /\ q.target = d /\ q.op = "readopt"
        /\ q.channel = rows[d].channel /\ req' = [req EXCEPT ![r] = q]
    BY <1>1, <1>2, <2>1, <2>2 DEF Req, TableInv, Shaped
  <2>4. rows' = [rows EXCEPT ![d] = [channel |-> q.channel, adopted |-> TRUE, stored |-> TRUE]]
    <3>1. rows[d] \in Row /\ rows' = [rows EXCEPT ![d] = [rows[d] EXCEPT !.adopted = TRUE]]
      BY <1>2, <2>1
    <3>2. [rows[d] EXCEPT !.adopted = TRUE] = [channel |-> q.channel, adopted |-> TRUE, stored |-> TRUE]
      BY <2>2, <2>3, <3>1, Readopted
    <3>3. QED
      BY <3>1, <3>2
  <2>5. ~budget.overlap => \A e \in Device \ {d} : rows[e].channel # q.channel
    BY <1>2, <2>2, <2>3, RegistryAssumption DEF TableInv, OneRowPerChannel
  <2> HIDE DEF q, d
  <2>6. QED
    BY <1>1, <1>2, <2>2, <2>3, <2>4, <2>5, WritesTable
<1>4. CASE ~Bindable(d)
  <2>1. UNCHANGED rows /\ End(r)
    BY <1>4 DEF ReadoptWrite
  <2>2. QED
    BY <1>1, <1>2, <2>1, EndsTable
<1>5. QED
  BY <1>3, <1>4

\* ForgetWrite: a row that is gone claims no channel and owes no publish.
LEMMA ForgetWriteTable == ASSUME TableInv, NEW r \in Request, ForgetWrite(r) PROVE TableInv'
<1> DEFINE d == req[r].device
<1>1. /\ req[r].step = "write" /\ End(r) /\ rows' = [rows EXCEPT ![d] = Absent]
      /\ UNCHANGED <<stream, api, republish, budget, settled>>
  BY DEF ForgetWrite, streamVars, apiVars
<1>2. d \in Device
  BY <1>1 DEF TableInv, Shaped
<1> HIDE DEF d
<1>3. QED
  BY <1>1, <1>2, EndsTable

\* Publish: the stream has the device as the table has it.
LEMMA PublishTable == ASSUME TableInv, NEW r \in Request, Publish(r) PROVE TableInv'
<1> DEFINE t == req[r].target
           a == [channel |-> req[r].channel, adopted |-> req[r].op # "unbind"]
<1>1. /\ req[r].step = "publish" /\ End(r) /\ stream' = [stream EXCEPT ![t] = a]
      /\ UNCHANGED <<rows, api, republish, budget, settled>>
  BY DEF Publish, Retain, apiVars
<1>2. t \in Device /\ a \in Assignment /\ a.adopted = (req[r].op # "unbind") /\ a.channel = req[r].channel
  BY <1>1 DEF TableInv, Shaped, Assignment
<1>3. /\ req \in [Request -> Req] /\ stream \in [Device -> Assignment] /\ IdleReq \in Req
  BY DEF TableInv, TableTypes, IdleReq, Req
<1>4. /\ req' \in [Request -> Req] /\ req'[r] = IdleReq
      /\ \A q \in Request \ {r} : req'[q] = req[q]
  BY <1>1, <1>3 DEF End
<1>5. /\ api = "serving" /\ OneAtATime'
      /\ settled \/ ~budget.overlap => \A q \in Request \ {r} : req[q] = IdleReq
  BY <1>1, <1>4, StepAlone
<1>6. TableTypes'
  <2>1. stream' \in [Device -> Assignment]
    BY <1>1, <1>2, <1>3
  <2>2. QED
    BY <1>1, <1>4, <2>1 DEF TableInv, TableTypes, Stored
<1>7. \A q \in Request : Shaped(req'[q])
  BY <1>4 DEF TableInv, Shaped, IdleReq
<1>8. MatchStands' /\ OneRowPerChannel' /\ RepublishIsTable'
  BY <1>1, <1>4, <1>5 DEF TableInv, MatchStands, Matched, OneRowPerChannel, RepublishIsTable, IdleReq
<1>9. StreamOwed'
  <2>1. ASSUME settled' PROVE \A q \in Request : req'[q].step # "publish"
    BY <1>1, <1>4, <1>5, <2>1 DEF IdleReq
  <2>2. ASSUME settled', NEW e \in Device, rows'[e].adopted PROVE stream'[e] = AssignmentOf(e)'
    <3>1. CASE e = t
      <4>1. req[r].op # "unbind" /\ req[r].channel = rows[t].channel /\ rows[t].adopted
        BY <1>1, <1>5, <2>2, <3>1 DEF TableInv, StreamOwed, Agrees
      <4>2. rows[t].adopted = TRUE
        BY <1>2, <4>1, RowFields DEF TableInv
      <4>3. a = AssignmentOf(t)
        BY <4>1, <4>2 DEF AssignmentOf
      <4>4. QED
        BY <1>1, <1>2, <1>3, <3>1, <4>3 DEF AssignmentOf
    <3>2. CASE e # t
      <4>1. \A q \in Request : req[q].step = "publish" => req[q].target # e
        BY <1>1, <1>5, <2>2, <3>2 DEF IdleReq
      <4>2. stream[e] = AssignmentOf(e)
        BY <1>1, <1>5, <2>2, <4>1 DEF TableInv, StreamOwed
      <4>3. QED
        BY <1>1, <1>3, <3>2, <4>2 DEF AssignmentOf
    <3>3. QED
      BY <3>1, <3>2
  <2>3. QED
    BY <1>1, <1>5, <2>1, <2>2 DEF StreamOwed
<1>10. QED
  BY <1>5, <1>6, <1>7, <1>8, <1>9 DEF TableInv

\* PublishLost: nothing is claimed of a stream that missed one.
LEMMA PublishLostTable == ASSUME TableInv, NEW r \in Request, PublishLost(r) PROVE TableInv'
<1>1. /\ req[r].step = "publish" /\ End(r) /\ Fault /\ settled' = FALSE
      /\ UNCHANGED <<rows, stream, api, republish>>
  BY DEF PublishLost, PublishFails, streamVars, apiVars
<1>2. req \in [Request -> Req] /\ IdleReq \in Req
  BY DEF TableInv, TableTypes, IdleReq, Req
<1>3. /\ req' \in [Request -> Req] /\ req'[r] = IdleReq
      /\ \A q \in Request \ {r} : req'[q] = req[q]
  BY <1>1, <1>2 DEF End
<1>4. /\ budget' \in [requests : 0..MaxRequests, faults : 0..MaxFaults, overlap : BOOLEAN]
      /\ budget'.overlap = budget.overlap
  BY <1>1, FaultBudget DEF TableInv
<1>5. TableTypes'
  BY <1>1, <1>3, <1>4 DEF TableInv, TableTypes, Stored
<1>6. OneAtATime'
  BY <1>1, <1>3, <1>4 DEF TableInv, OneAtATime, Quiet
<1>7. \A q \in Request : Shaped(req'[q])
  BY <1>3 DEF TableInv, Shaped, IdleReq
<1>8. MatchStands' /\ OneRowPerChannel' /\ RepublishIsTable' /\ StreamOwed'
  BY <1>1, <1>3, <1>4
  DEF TableInv, MatchStands, Matched, OneRowPerChannel, RepublishIsTable, StreamOwed, AssignmentOf, IdleReq
<1>9. QED
  BY <1>5, <1>6, <1>7, <1>8 DEF TableInv

\* ApiStarts: all that is adopted is owed.
LEMMA ApiStartsTable == ASSUME TableInv, ApiStarts PROVE TableInv'
<1>1. /\ api = "down" /\ api' = "reconciling" /\ settled' = TRUE
      /\ republish' = {<<d, AssignmentOf(d)>> : d \in {d \in Device : rows[d].adopted}}
      /\ UNCHANGED <<rows, stream, req, budget>>
  BY DEF ApiStarts, streamVars
<1>2. TableTypes'
  <2>1. republish' \subseteq Device \X Assignment
    BY <1>1, RowFields DEF TableInv
  <2>2. QED
    BY <1>1, <2>1 DEF TableInv, TableTypes, Stored
<1>3. OneAtATime'
  BY <1>1 DEF TableInv, OneAtATime, Quiet
<1>4. MatchStands' /\ OneRowPerChannel'
  BY <1>1 DEF TableInv, MatchStands, Matched, OneRowPerChannel
<1>5. RepublishIsTable' /\ StreamOwed'
  BY <1>1 DEF RepublishIsTable, StreamOwed, AssignmentOf
<1>6. QED
  BY <1>1, <1>2, <1>3, <1>4, <1>5 DEF TableInv, Shaped

\* ApiServes: nothing is left to republish.
LEMMA ApiServesTable == ASSUME TableInv, ApiServes PROVE TableInv'
<1>1. /\ api = "reconciling" /\ republish = {} /\ api' = "serving"
      /\ UNCHANGED <<rows, stream, republish, req, budget, settled>>
  BY DEF ApiServes, streamVars
<1>2. Quiet
  BY <1>1 DEF TableInv, OneAtATime
<1>3. TableTypes'
  BY <1>1 DEF TableInv, TableTypes, Stored
<1>4. OneAtATime' /\ MatchStands' /\ OneRowPerChannel' /\ RepublishIsTable'
  BY <1>1, <1>2 DEF TableInv, OneAtATime, Quiet, MatchStands, Matched, OneRowPerChannel, RepublishIsTable
<1>5. StreamOwed'
  BY <1>1, <1>2 DEF TableInv, StreamOwed, AssignmentOf, Quiet, IdleReq
<1>6. QED
  BY <1>1, <1>3, <1>4, <1>5 DEF TableInv, Shaped

\* Nothing is in flight and nothing is claimed of the stream: the API is down.
LEMMA DownTable ==
    ASSUME TableInv, Fault, api' = "down", republish' = {}, req' = [r \in Request |-> IdleReq],
           settled' = FALSE, rows' = rows \/ rows' = [d \in Device |-> Absent],
           stream' \in [Device -> Assignment]
    PROVE  TableInv'
<1>1. /\ budget' \in [requests : 0..MaxRequests, faults : 0..MaxFaults, overlap : BOOLEAN]
      /\ budget'.overlap = budget.overlap
  BY FaultBudget DEF TableInv
<1>2. IdleReq \in Req /\ Absent \in Row /\ ~Absent.adopted /\ ~Absent.stored /\ Absent.channel = None
  BY DEF IdleReq, Req, Absent, Row
<1>3. TableTypes'
  <2>1. rows' \in [Device -> Row] /\ \A d \in Device : rows'[d] = rows[d] \/ rows'[d] = Absent
    BY <1>2 DEF TableInv, TableTypes
  <2>2. \A d \in Device : /\ ~Stored(d)' => rows'[d] = Absent
                          /\ rows'[d].adopted => rows'[d].channel # None
    BY <1>2, <2>1 DEF TableInv, TableTypes, Stored
  <2>3. QED
    BY <1>1, <1>2, <2>1, <2>2 DEF TableTypes
<1>4. \A r \in Request : Shaped(req'[r])
  BY DEF Shaped, IdleReq
<1>5. OneAtATime' /\ MatchStands'
  BY DEF OneAtATime, Quiet, MatchStands, Matched, IdleReq
<1>6. OneRowPerChannel'
  BY <1>1, <1>2 DEF TableInv, OneRowPerChannel
<1>7. RepublishIsTable' /\ StreamOwed'
  BY DEF RepublishIsTable, StreamOwed
<1>8. QED
  BY <1>3, <1>4, <1>5, <1>6, <1>7 DEF TableInv

\* ApiDies.
LEMMA ApiDiesTable == ASSUME TableInv, ApiDies PROVE TableInv'
<1>1. stream' = stream /\ stream \in [Device -> Assignment]
  BY DEF ApiDies, streamVars, TableInv, TableTypes
<1>2. QED
  BY <1>1, DownTable DEF ApiDies

\* Restore: the stream starts empty, and the API with it.
LEMMA RestoreTable == ASSUME TableInv, Restore PROVE TableInv'
<1>1. stream' \in [Device -> Assignment]
  BY DEF Restore, Assignment
<1>2. rows' = rows \/ rows' = [d \in Device |-> Absent]
  BY DEF Restore
<1>3. QED
  BY <1>1, <1>2, DownTable DEF Restore

\* ForceRestore: the rows are as they were, or gone, under services that go on.
LEMMA ForceRestoreTable == ASSUME TableInv, ForceRestore PROVE TableInv'
<1>1. /\ \A r \in Request : ~InTransaction(req[r])
      /\ rows' = rows \/ rows' = [d \in Device |-> Absent]
      /\ settled' = FALSE /\ Fault
      /\ UNCHANGED <<stream, api, republish, req>>
  BY DEF ForceRestore, streamVars, apiVars
<1>2. /\ budget' \in [requests : 0..MaxRequests, faults : 0..MaxFaults, overlap : BOOLEAN]
      /\ budget'.overlap = budget.overlap
  BY <1>1, FaultBudget DEF TableInv
<1>3. Absent \in Row /\ ~Absent.adopted /\ ~Absent.stored /\ Absent.channel = None
  BY DEF Absent, Row
<1>4. rows' \in [Device -> Row] /\ \A d \in Device : rows'[d] = rows[d] \/ rows'[d] = Absent
  BY <1>1, <1>3 DEF TableInv, TableTypes
<1>5. TableTypes'
  <2>1. \A d \in Device : /\ ~Stored(d)' => rows'[d] = Absent
                          /\ rows'[d].adopted => rows'[d].channel # None
    BY <1>3, <1>4 DEF TableInv, TableTypes, Stored
  <2>2. QED
    BY <1>1, <1>2, <1>4, <2>1 DEF TableInv, TableTypes
<1>6. OneAtATime'
  BY <1>1, <1>2 DEF TableInv, OneAtATime, Quiet
<1>7. MatchStands'
  BY <1>1 DEF MatchStands, Matched, InTransaction
<1>8. OneRowPerChannel'
  BY <1>2, <1>3, <1>4 DEF TableInv, OneRowPerChannel
<1>9. RepublishIsTable' /\ StreamOwed'
  BY <1>1 DEF RepublishIsTable, StreamOwed
<1>10. QED
  BY <1>1, <1>5, <1>6, <1>7, <1>8, <1>9 DEF TableInv, Shaped

\* Republish: what was owed to the stream is on it.
LEMMA RepublishTable == ASSUME TableInv, NEW d \in Device, Republish(d) PROVE TableInv'
<1>1. PICK a \in Assignment :
         /\ <<d, a>> \in republish /\ republish' = republish \ {<<d, a>>}
         /\ stream' = [stream EXCEPT ![d] = a]
  BY DEF Republish, Retain
<1>2. api = "reconciling" /\ UNCHANGED <<rows, api, req, budget, settled>>
  BY DEF Republish
<1>3. settled => rows[d].adopted /\ a = AssignmentOf(d)
  BY <1>1, <1>2 DEF TableInv, RepublishIsTable
<1>4. /\ stream' \in [Device -> Assignment] /\ stream'[d] = a
      /\ \A e \in Device \ {d} : stream'[e] = stream[e]
  BY <1>1 DEF TableInv, TableTypes
<1>5. TableTypes'
  BY <1>1, <1>2, <1>4 DEF TableInv, TableTypes, Stored
<1>6. OneAtATime' /\ MatchStands' /\ OneRowPerChannel'
  BY <1>2 DEF TableInv, OneAtATime, Quiet, MatchStands, Matched, OneRowPerChannel
<1>7. RepublishIsTable'
  BY <1>1, <1>2 DEF TableInv, RepublishIsTable, AssignmentOf
<1>8. StreamOwed'
  <2>1. ASSUME settled', NEW e \in Device, rows'[e].adopted
        PROVE  <<e, AssignmentOf(e)>> \in republish' \/ stream'[e] = AssignmentOf(e)
    BY <1>1, <1>2, <1>3, <1>4, <2>1 DEF TableInv, StreamOwed
  <2>2. QED
    BY <1>2, <2>1 DEF StreamOwed, AssignmentOf
<1>9. QED
  BY <1>2, <1>5, <1>6, <1>7, <1>8 DEF TableInv, Shaped

\* RepublishLost: nothing is claimed of a stream that missed one.
LEMMA RepublishLostTable == ASSUME TableInv, NEW d \in Device, RepublishLost(d) PROVE TableInv'
<1>1. /\ republish' \subseteq republish /\ settled' = FALSE
      /\ UNCHANGED <<rows, stream, api, req, budget>>
  BY DEF RepublishLost, PublishFails, streamVars
<1>2. TableTypes'
  BY <1>1 DEF TableInv, TableTypes, Stored
<1>3. OneAtATime' /\ MatchStands' /\ OneRowPerChannel'
  BY <1>1 DEF TableInv, OneAtATime, Quiet, MatchStands, Matched, OneRowPerChannel
<1>4. RepublishIsTable' /\ StreamOwed'
  BY <1>1 DEF TableInv, RepublishIsTable, StreamOwed, AssignmentOf
<1>5. QED
  BY <1>1, <1>2, <1>3, <1>4 DEF TableInv, Shaped

\* Upsert: a row that is new claims no channel, and no other changes.
LEMMA UpsertTable == ASSUME TableInv, NEW d \in Device, Upsert(d) PROVE TableInv'
<1> DEFINE seen == [Absent EXCEPT !.stored = TRUE]
<1>1. /\ api = "serving"
      /\ rows' = IF Stored(d) THEN rows ELSE [rows EXCEPT ![d] = seen]
      /\ UNCHANGED <<stream, api, republish, req, budget, settled>>
  BY DEF Upsert, streamVars
<1>2. seen \in Row /\ ~seen.adopted /\ seen.channel = None /\ seen.stored
  BY DEF Absent, Row
<1> HIDE DEF seen
<1>3. rows \in [Device -> Row]
  BY DEF TableInv, TableTypes
<1>4. /\ rows' \in [Device -> Row]
      /\ \A e \in Device \ {d} : rows'[e] = rows[e]
      /\ rows'[d] = rows[d] \/ (rows'[d] = seen /\ rows[d] = Absent)
  BY <1>1, <1>2, <1>3 DEF TableInv, TableTypes
<1>5. \A e \in Device : /\ rows'[e].channel = rows[e].channel
                        /\ rows'[e].adopted <=> rows[e].adopted
                        /\ rows'[e].adopted => rows'[e] = rows[e]
  BY <1>2, <1>4 DEF Absent
<1>6. TableTypes'
  <2>1. \A e \in Device : /\ ~Stored(e)' => rows'[e] = Absent
                          /\ rows'[e].adopted => rows'[e].channel # None
    BY <1>2, <1>4, <1>5 DEF TableInv, TableTypes, Stored
  <2>2. QED
    BY <1>1, <1>4, <2>1 DEF TableInv, TableTypes
<1>7. OneAtATime' /\ MatchStands' /\ OneRowPerChannel' /\ RepublishIsTable'
  BY <1>1, <1>5 DEF TableInv, OneAtATime, Quiet, MatchStands, Matched, OneRowPerChannel, RepublishIsTable
<1>8. StreamOwed'
  <2>1. \A e \in Device : rows'[e].adopted => AssignmentOf(e)' = AssignmentOf(e)
    BY <1>5 DEF AssignmentOf
  <2>2. ASSUME settled', NEW q \in Request, req'[q].step = "publish" PROVE Agrees(req[q])'
    <3>1. Agrees(req[q]) /\ req[q].target \in Device
      BY <1>1, <2>2 DEF TableInv, StreamOwed, Shaped
    <3>2. QED
      BY <1>1, <1>5, <3>1 DEF Agrees
  <2>3. QED
    BY <1>1, <1>5, <2>1, <2>2 DEF TableInv, StreamOwed
<1>9. QED
  BY <1>1, <1>6, <1>7, <1>8 DEF TableInv, Shaped

-----------------------------------------------------------------------------
(* Those who follow the stream.                                            *)

\* A step that is nothing to them.
LEMMA FollowUndisturbed ==
    ASSUME FollowInv, UNCHANGED <<stream, said, hw, registered, eng, ledger, drain>>,
           unread' \subseteq Device
    PROVE  FollowInv'
  BY DEF FollowInv, FollowTypes, SaidSo

Batch == UNION {[D -> Assignment] : D \in SUBSET Device}

\* A batch is taken off the stream, and message by message applied.
LEMMA Batches ==
    /\ NoDrain.batch \in Batch /\ DOMAIN NoDrain.batch = {}
    /\ \A D \in SUBSET Device, s \in [Device -> Assignment] : [d \in D |-> s[d]] \in Batch
    /\ \A b \in Batch, d \in Device :
         /\ DOMAIN b \subseteq Device
         /\ \A e \in DOMAIN b : b[e] \in Assignment
         /\ [e \in DOMAIN b \ {d} |-> b[e]] \in Batch
<1>1. ASSUME NEW D \in SUBSET Device, NEW b \in [D -> Assignment] PROVE b \in Batch
  BY DEF Batch
<1>2. NoDrain.batch \in [{} -> Assignment]
  BY DEF NoDrain
<1>3. ASSUME NEW b \in Batch PROVE \E D \in SUBSET Device : b \in [D -> Assignment]
  BY DEF Batch
<1>4. ASSUME NEW b \in Batch, NEW d \in Device
      PROVE  /\ DOMAIN b \subseteq Device
             /\ \A e \in DOMAIN b : b[e] \in Assignment
             /\ [e \in DOMAIN b \ {d} |-> b[e]] \in Batch
  <2>1. PICK D \in SUBSET Device : b \in [D -> Assignment]
    BY <1>3
  <2>2. [e \in D \ {d} |-> b[e]] \in [D \ {d} -> Assignment]
    BY <2>1
  <2>3. QED
    BY <1>1, <2>1, <2>2
<1>5. ASSUME NEW D \in SUBSET Device, NEW s \in [Device -> Assignment] PROVE [d \in D |-> s[d]] \in Batch
  <2>1. [d \in D |-> s[d]] \in [D -> Assignment]
    OBVIOUS
  <2>2. QED
    BY <1>1, <2>1
<1>6. QED
  BY <1>1, <1>2, <1>4, <1>5

\* The fields of a drain.
LEMMA DrainFields ==
    ASSUME FollowTypes
    PROVE  /\ drain.on \in BOOLEAN /\ drain.torn \in BOOLEAN
           /\ drain.undelivered \subseteq Device /\ drain.batch \in Batch
           /\ drain \in [on : BOOLEAN, undelivered : SUBSET Device, batch : Batch, torn : BOOLEAN]
  BY DEF FollowTypes, Batch

\* Retain: whoever is told of an adoption is told what has now been said.
LEMMA RetainFollows ==
    ASSUME TableTypes, FollowInv, NEW d \in Device, NEW a \in Assignment, Retain(d, a),
           unread' \subseteq Device
    PROVE  FollowInv' /\ said \subseteq said' /\ said' \subseteq said \cup Register'
<1>1. /\ stream' = [stream EXCEPT ![d] = a]
      /\ said' = IF a.adopted THEN said \cup {d} ELSE said
      /\ hw' = Heard(d, a)
      /\ ledger' = IF eng.up /\ eng.conn THEN Applied(ledger, d, a) ELSE ledger
      /\ drain' = IF drain.on THEN [drain EXCEPT !.undelivered = @ \cup {d}] ELSE drain
      /\ UNCHANGED <<registered, eng>>
  BY DEF Retain
<1>2. /\ stream'[d] = a /\ \A e \in Device \ {d} : stream'[e] = stream[e]
  BY <1>1 DEF TableTypes
<1>3. hw' \in [phase : {"down", "building", "watching"}, conn : BOOLEAN, known : [Device -> Assignment]]
  BY <1>1 DEF Heard, FollowInv, FollowTypes
<1>4. /\ drain' \in [on : BOOLEAN, undelivered : SUBSET Device, batch : Batch, torn : BOOLEAN]
      /\ drain'.batch = drain.batch
  BY <1>1, DrainFields DEF FollowInv
<1>5. said \subseteq said' /\ said' \subseteq said \cup Register'
  BY <1>1, <1>2 DEF Register
<1>6. FollowTypes'
  BY <1>1, <1>3, <1>4 DEF FollowInv, FollowTypes, Applied, Batch
<1>7. SaidSo'
  <2>1. \A e \in Device : stream'[e].adopted => e \in said'
    BY <1>1, <1>2 DEF FollowInv, SaidSo
  <2>2. ledger' \subseteq said'
    BY <1>1 DEF FollowInv, SaidSo, Applied
  <2>3. QED
    BY <1>4, <1>5, <2>1, <2>2 DEF FollowInv, SaidSo
<1>8. QED
  BY <1>5, <1>6, <1>7 DEF FollowInv

\* A step of the engine that leaves the stream alone.
LEMMA EngineFollowed ==
    ASSUME FollowInv, UNCHANGED <<stream, said, unread, hw, registered>>,
           eng' \in [up : BOOLEAN, conn : BOOLEAN, loaded : BOOLEAN, missed : SUBSET Device],
           ledger' \subseteq said,
           drain' \in [on : BOOLEAN, undelivered : SUBSET Device, batch : Batch, torn : BOOLEAN],
           \A d \in DOMAIN drain'.batch : drain'.batch[d].adopted => d \in said
    PROVE  FollowInv'
<1>1. FollowTypes'
  BY DEF FollowInv, FollowTypes, Batch
<1>2. SaidSo'
  BY DEF FollowInv, SaidSo
<1>3. QED
  BY <1>1, <1>2 DEF FollowInv

\* A drain that starts, or is over, holds nothing it took off the stream.
LEMMA EmptyDrains ==
    /\ NoDrain \in [on : BOOLEAN, undelivered : SUBSET Device, batch : Batch, torn : BOOLEAN]
    /\ Draining \in [on : BOOLEAN, undelivered : SUBSET Device, batch : Batch, torn : BOOLEAN]
    /\ DOMAIN NoDrain.batch = {} /\ DOMAIN Draining.batch = {}
<1>1. NoDrain \in [on : BOOLEAN, undelivered : SUBSET Device, batch : Batch, torn : BOOLEAN]
  BY Batches DEF NoDrain
<1>2. Draining.batch = NoDrain.batch
  BY DEF Draining, NoDrain
<1>3. Draining \in [on : BOOLEAN, undelivered : SUBSET Device, batch : Batch, torn : BOOLEAN]
  BY <1>1 DEF Draining
<1>4. QED
  BY <1>1, <1>2, <1>3, Batches

\* EngineStarts and Redrain.
LEMMA StartsFollow == ASSUME FollowInv, EngineStarts \/ Redrain PROVE FollowInv'
<1>1. /\ UNCHANGED <<stream, said, unread, hw, registered>> /\ drain' = Draining
      /\ ledger' \subseteq said
      /\ eng' \in [up : BOOLEAN, conn : BOOLEAN, loaded : BOOLEAN, missed : SUBSET Device]
  <2>1. CASE EngineStarts
    BY <2>1 DEF EngineStarts, streamVars, apiVars, hwVars
  <2>2. CASE Redrain
    BY <2>2 DEF Redrain, streamVars, apiVars, hwVars, FollowInv, FollowTypes, SaidSo
  <2>3. QED
    BY <2>1, <2>2
<1>2. QED
  BY <1>1, EmptyDrains, EngineFollowed

\* DrainEnds and EngineDies.
LEMMA EndsFollow == ASSUME FollowInv, DrainEnds \/ EngineDies PROVE FollowInv'
<1>1. /\ UNCHANGED <<stream, said, unread, hw, registered>> /\ drain' = NoDrain
      /\ ledger' \subseteq said
      /\ eng' \in [up : BOOLEAN, conn : BOOLEAN, loaded : BOOLEAN, missed : SUBSET Device]
  <2>1. CASE DrainEnds
    BY <2>1 DEF DrainEnds, streamVars, apiVars, hwVars, FollowInv, FollowTypes, SaidSo
  <2>2. CASE EngineDies
    BY <2>2 DEF EngineDies, streamVars, apiVars, hwVars
  <2>3. QED
    BY <2>1, <2>2
<1>2. QED
  BY <1>1, EmptyDrains, EngineFollowed

\* EngineDrops and EngineReconnects.
LEMMA ConnectionFollows == ASSUME FollowInv, EngineDrops \/ EngineReconnects PROVE FollowInv'
<1>1. /\ UNCHANGED <<stream, said, unread, hw, registered, ledger>>
      /\ drain' = drain \/ drain' = [drain EXCEPT !.torn = drain.on]
      /\ eng' \in [up : BOOLEAN, conn : BOOLEAN, loaded : BOOLEAN, missed : SUBSET Device]
  BY DEF EngineDrops, EngineReconnects, streamVars, apiVars, hwVars, FollowInv, FollowTypes
<1>2. /\ drain' \in [on : BOOLEAN, undelivered : SUBSET Device, batch : Batch, torn : BOOLEAN]
      /\ drain'.batch = drain.batch
  BY <1>1, DrainFields DEF FollowInv
<1>3. ledger \subseteq said /\ \A d \in DOMAIN drain.batch : drain.batch[d].adopted => d \in said
  BY DEF FollowInv, SaidSo
<1>4. QED
  BY <1>1, <1>2, <1>3, EngineFollowed

\* Fetch: what is taken off the stream has been said.
LEMMA FetchFollows == ASSUME TableTypes, FollowInv, Fetch PROVE FollowInv'
<1> DEFINE taken == [d \in drain.undelivered |-> stream[d]]
<1>1. /\ UNCHANGED <<stream, said, unread, hw, registered, eng, ledger>>
      /\ drain' = [drain EXCEPT !.batch = taken, !.undelivered = {}]
  BY DEF Fetch, streamVars, apiVars, hwVars
<1>2. drain.undelivered \subseteq Device /\ taken \in Batch /\ DOMAIN taken = drain.undelivered
  BY DrainFields, Batches DEF TableTypes, FollowInv
<1>3. \A d \in DOMAIN taken : taken[d].adopted => d \in said
  BY <1>2 DEF FollowInv, SaidSo
<1> HIDE DEF taken
<1>4. /\ drain' \in [on : BOOLEAN, undelivered : SUBSET Device, batch : Batch, torn : BOOLEAN]
      /\ drain'.batch = taken
  BY <1>1, <1>2, DrainFields DEF FollowInv
<1>5. ledger \subseteq said /\ eng \in [up : BOOLEAN, conn : BOOLEAN, loaded : BOOLEAN, missed : SUBSET Device]
  BY DEF FollowInv, FollowTypes, SaidSo
<1>6. QED
  BY <1>1, <1>3, <1>4, <1>5, EngineFollowed

\* ApplyDrained: a message is applied that was taken off the stream.
LEMMA ApplyDrainedFollows == ASSUME FollowInv, NEW d \in Device, ApplyDrained(d) PROVE FollowInv'
<1> DEFINE left == [e \in DOMAIN drain.batch \ {d} |-> drain.batch[e]]
<1>1. /\ UNCHANGED <<stream, said, unread, hw, registered, eng>>
      /\ d \in DOMAIN drain.batch
      /\ ledger' = Applied(ledger, d, drain.batch[d])
      /\ drain' = [drain EXCEPT !.batch = left]
  BY DrainFields DEF ApplyDrained, streamVars, apiVars, hwVars, FollowInv
<1>2. left \in Batch
  BY DrainFields, Batches DEF FollowInv
<1>3. \A e \in DOMAIN left : left[e].adopted => e \in said
  BY DEF FollowInv, SaidSo
<1>4. ledger' \subseteq said
  BY <1>1 DEF FollowInv, SaidSo, Applied
<1> HIDE DEF left
<1>5. /\ drain' \in [on : BOOLEAN, undelivered : SUBSET Device, batch : Batch, torn : BOOLEAN]
      /\ drain'.batch = left
  BY <1>1, <1>2, DrainFields DEF FollowInv
<1>6. eng \in [up : BOOLEAN, conn : BOOLEAN, loaded : BOOLEAN, missed : SUBSET Device]
  BY DEF FollowInv, FollowTypes
<1>7. QED
  BY <1>1, <1>3, <1>4, <1>5, <1>6, EngineFollowed

\* hardware-io's steps concern it and the probes it registers.
LEMMA HwFollows ==
    ASSUME TableTypes, FollowInv, HwBuilds \/ HwWatches \/ HwDrops \/ HwReconnects
    PROVE  FollowInv'
<1>1. UNCHANGED <<stream, said, eng, ledger, drain>>
  BY DEF HwBuilds, HwWatches, HwDrops, HwReconnects, streamVars, engVars
<1>2. hw' \in [phase : {"down", "building", "watching"}, conn : BOOLEAN, known : [Device -> Assignment]]
  <2>1. hw \in [phase : {"down", "building", "watching"}, conn : BOOLEAN, known : [Device -> Assignment]]
    BY DEF FollowInv, FollowTypes
  <2>2. CASE HwBuilds
    BY <2>2 DEF HwBuilds, TableTypes
  <2>3. CASE HwWatches
    BY <2>1, <2>3 DEF HwWatches
  <2>4. CASE HwDrops \/ HwReconnects
    BY <2>1, <2>4 DEF HwDrops, HwReconnects
  <2>5. QED
    BY <2>2, <2>3, <2>4
<1>3. registered' \subseteq Device /\ unread' \subseteq Device
  BY DEF HwBuilds, HwWatches, HwDrops, HwReconnects, apiVars, FollowInv, FollowTypes
<1>4. FollowTypes'
  BY <1>1, <1>2, <1>3 DEF FollowInv, FollowTypes
<1>5. SaidSo'
  BY <1>1 DEF FollowInv, SaidSo
<1>6. QED
  BY <1>4, <1>5 DEF FollowInv

\* Restore: everything forgets, but for what has been said.
LEMMA RestoreFollows == ASSUME FollowInv, Restore PROVE FollowInv'
<1>1. /\ stream' = [d \in Device |-> Nothing] /\ unread' = {} /\ registered' = {} /\ ledger' = {}
      /\ hw' = [hw EXCEPT !.phase = "down"]
      /\ eng' = [up |-> FALSE, conn |-> FALSE, loaded |-> FALSE, missed |-> {}]
      /\ drain' = NoDrain /\ said' = said
  BY DEF Restore
<1>2. FollowTypes'
  BY <1>1, EmptyDrains DEF FollowInv, FollowTypes, Batch
<1>3. SaidSo'
  BY <1>1, EmptyDrains DEF SaidSo, Nothing
<1>4. QED
  BY <1>2, <1>3 DEF FollowInv

-----------------------------------------------------------------------------
(* The invariant and what it gives.                                        *)

RegistryInv == TableInv /\ FollowInv

\* At first there are no rows, no requests and no stream.
LEMMA RegistryInitInv == ASSUME Init PROVE RegistryInv
<1> USE DEF Init
<1>1. /\ Absent \in Row /\ ~Absent.adopted /\ Absent.channel = None /\ ~Absent.stored
      /\ Nothing \in Assignment /\ ~Nothing.adopted /\ IdleReq \in Req
  BY DEF Absent, Row, Nothing, Assignment, IdleReq, Req
<1>2. TableTypes
  <2>1. budget \in [requests : 0..MaxRequests, faults : 0..MaxFaults, overlap : BOOLEAN]
    BY RegistryAssumption
  <2>2. settled \in BOOLEAN
    OBVIOUS
  <2>3. QED
    BY <1>1, <2>1, <2>2 DEF TableTypes
<1>3. \A r \in Request : Shaped(req[r])
  BY DEF Shaped, IdleReq
<1>4. OneAtATime /\ MatchStands /\ OneRowPerChannel /\ RepublishIsTable /\ StreamOwed
  BY <1>1 DEF OneAtATime, Quiet, MatchStands, Matched, OneRowPerChannel, RepublishIsTable, StreamOwed, IdleReq
<1>5. FollowTypes
  <2>1. hw \in [phase : {"down", "building", "watching"}, conn : BOOLEAN, known : [Device -> Assignment]]
    BY <1>1
  <2>2. QED
    BY <2>1, EmptyDrains DEF FollowTypes, Batch
<1>6. SaidSo
  BY <1>1, EmptyDrains DEF SaidSo
<1>7. QED
  BY <1>2, <1>3, <1>4, <1>5, <1>6 DEF RegistryInv, TableInv, FollowInv

\* What a step does to what has been said.
Says == said \subseteq said' /\ said' \subseteq said \cup Register'

\* A step of a request.
LEMMA RequestStep ==
    ASSUME RegistryInv, NEW r \in Request,
           \/ Serve(r) \/ PublishLost(r)
           \/ \E d \in Device : AskUnbind(r, d) \/ AskReadopt(r, d) \/ AskForget(r, d)
           \/ \E d \in Device, c \in Channel : AskBind(r, d, c)
    PROVE  RegistryInv' /\ Says
<1> USE DEF RegistryInv
<1>1. CASE Publish(r)
  <2> DEFINE a == [channel |-> req[r].channel, adopted |-> req[r].op # "unbind"]
  <2>1. req[r].target \in Device /\ a \in Assignment
    BY <1>1 DEF Publish, TableInv, Shaped, Assignment
  <2>2. Retain(req[r].target, a) /\ unread' \subseteq Device
    BY <1>1 DEF Publish, apiVars, FollowInv, FollowTypes
  <2> HIDE DEF a
  <2>3. FollowInv' /\ Says
    BY <2>1, <2>2, RetainFollows DEF TableInv, Says
  <2>4. QED
    BY <1>1, <2>3, PublishTable
<1>2. CASE ~Publish(r)
  <2>1. TableInv'
    BY <1>2, BindMatchTable, BindKnownTable, BindWriteTable, ReadoptMatchTable, ReadoptWriteTable, ForgetWriteTable, PublishLostTable,
       AskUnbindTable, AskReadoptTable, AskForgetTable, AskBindTable DEF Serve
  <2>2. UNCHANGED <<streamVars, apiVars, hwVars, engVars>>
    BY <1>2 DEF Serve, BindMatch, BindKnown, BindWrite, ReadoptMatch, ReadoptWrite, ForgetWrite, PublishLost, PublishFails,
                AskUnbind, AskReadopt, AskForget, AskBind
  <2>3. FollowInv' /\ Says
    BY <2>2, FollowUndisturbed
    DEF streamVars, apiVars, hwVars, engVars, FollowInv, FollowTypes, Says
  <2>4. QED
    BY <2>1, <2>3
<1>3. QED
  BY <1>1, <1>2

\* A step of the API's lifespan, or of its registry consumer.
LEMMA ApiStep ==
    ASSUME RegistryInv,
           \/ ApiStarts \/ ApiServes \/ ApiDies
           \/ \E d \in Device : Republish(d) \/ RepublishLost(d) \/ Upsert(d)
    PROVE  RegistryInv' /\ Says
<1> USE DEF RegistryInv
<1>1. ASSUME NEW d \in Device, Republish(d) PROVE RegistryInv' /\ Says
  <2>1. PICK a \in Assignment : Retain(d, a)
    BY <1>1 DEF Republish
  <2>2. unread' \subseteq Device
    BY <1>1 DEF Republish, FollowInv, FollowTypes
  <2>3. FollowInv' /\ Says
    BY <2>1, <2>2, RetainFollows DEF TableInv, Says
  <2>4. QED
    BY <1>1, <2>3, RepublishTable
<1>2. ASSUME \/ ApiStarts \/ ApiServes \/ ApiDies
             \/ \E d \in Device : RepublishLost(d) \/ Upsert(d)
      PROVE  RegistryInv' /\ Says
  <2>1. TableInv'
    BY <1>2, ApiStartsTable, ApiServesTable, ApiDiesTable, RepublishLostTable, UpsertTable
  <2>2. UNCHANGED <<stream, said, hw, registered, eng, ledger, drain>> /\ unread' \subseteq Device
    BY <1>2 DEF ApiStarts, ApiServes, ApiDies, RepublishLost, PublishFails, Upsert,
                streamVars, hwVars, engVars, FollowInv, FollowTypes
  <2>3. QED
    BY <2>1, <2>2, FollowUndisturbed DEF Says
<1>3. QED
  BY <1>1, <1>2

\* A step of hardware-io or of the engine.
LEMMA FollowerStep ==
    ASSUME RegistryInv,
           \/ HwBuilds \/ HwWatches \/ HwDrops \/ HwReconnects
           \/ EngineStarts \/ Redrain \/ Fetch \/ DrainEnds \/ EngineDies \/ EngineDrops \/ EngineReconnects
           \/ \E d \in Device : ApplyDrained(d)
    PROVE  RegistryInv' /\ Says
<1> USE DEF RegistryInv
<1>1. UNCHANGED <<rows, stream, said, api, republish, req, settled>> /\ (Fault \/ UNCHANGED budget)
  BY DEF HwBuilds, HwWatches, HwDrops, HwReconnects, EngineStarts, Redrain, Fetch, DrainEnds, EngineDies,
         EngineDrops, EngineReconnects, ApplyDrained, streamVars, apiVars
<1>2. TableInv'
  BY <1>1, TableUndisturbed
<1>3. FollowInv'
  BY HwFollows, StartsFollow, EndsFollow, ConnectionFollows, FetchFollows, ApplyDrainedFollows DEF TableInv
<1>4. QED
  BY <1>1, <1>2, <1>3 DEF Says

\* Every step keeps the invariant, and says no more than what it retains.
LEMMA RegistryStepInv == ASSUME RegistryInv, [Next]_vars PROVE RegistryInv' /\ Says
<1>1. CASE Restore
  <2>1. RegistryInv'
    BY <1>1, RestoreTable, RestoreFollows DEF RegistryInv
  <2>2. Says
    BY <1>1 DEF Restore, Says
  <2>3. QED
    BY <2>1, <2>2
<1>2. CASE ForceRestore
  <2>1. UNCHANGED <<stream, said, hw, registered, eng, ledger, drain>> /\ unread' \subseteq Device
    BY <1>2 DEF ForceRestore, streamVars, apiVars, hwVars, engVars, RegistryInv, FollowInv, FollowTypes
  <2>2. QED
    BY <1>2, <2>1, ForceRestoreTable, FollowUndisturbed DEF RegistryInv, Says
<1>3. CASE UNCHANGED vars
  <2>1. /\ UNCHANGED <<rows, stream, api, republish, req, settled>> /\ UNCHANGED budget
        /\ UNCHANGED <<stream, said, hw, registered, eng, ledger, drain>> /\ unread' \subseteq Device
    BY <1>3 DEF vars, streamVars, apiVars, hwVars, engVars, RegistryInv, FollowInv, FollowTypes
  <2>2. QED
    BY <2>1, TableUndisturbed, FollowUndisturbed DEF RegistryInv, Says
<1>4. QED
  BY <1>1, <1>2, <1>3, RequestStep, ApiStep, FollowerStep DEF Next

\* The invariant holds in every state.
LEMMA RegistryInvariant == Spec => []RegistryInv
  BY RegistryInitInv, RegistryStepInv, PTL DEF Spec

\* Every adopted row names its channel, and no message without one is ever retained, however
\* the requests overlap.
THEOREM RegistryTypes == Spec => []RegistryTypeOK
<1>1. RegistryInv => RegistryTypeOK
  BY DrainFields
  DEF RegistryInv, TableInv, TableTypes, FollowInv, FollowTypes, RegistryTypeOK, Batch
<1>2. QED
  BY <1>1, RegistryInvariant, PTL

\* OneRowPerChannel: hardware keeps one identity as long as no two requests overlap.
THEOREM OneIdentity == Spec => []OneRowPerChannel
<1>1. RegistryInv => OneRowPerChannel
  BY DEF RegistryInv, TableInv
<1>2. QED
  BY <1>1, RegistryInvariant, PTL

\* StreamReconciled: the retained assignments of adopted devices are the table's, once the
\* API serves and nothing was lost or overtaken since it started.
THEOREM StreamReconciles == Spec => []StreamReconciled
<1>1. RegistryInv => StreamReconciled
  BY DEF RegistryInv, TableInv, StreamOwed, StreamReconciled, Quiet, IdleReq
<1>2. QED
  BY <1>1, RegistryInvariant, PTL

\* The safety of Follower: the engine's ledger never holds a device that the stream has not
\* called adopted, through drains that overlap live messages, disconnects, deaths, restores.
THEOREM LedgerImplementsFollower == Spec => Engine!Spec
<1>1. ASSUME Init PROVE Engine!Init
  <2>1. Register = {} /\ said = {} /\ ledger = {}
    BY <1>1 DEF Init, Register, Nothing
  <2>2. QED
    BY <2>1 DEF Engine!Init
<1>2. ASSUME RegistryInv, RegistryInv', [Next]_vars PROVE [Engine!Next]_(Engine!vars)
  <2>1. Says
    BY <1>2, RegistryStepInv
  <2>2. Register' \subseteq said' /\ Register' \subseteq Device /\ ledger' \subseteq said'
    BY <1>2 DEF RegistryInv, FollowInv, SaidSo, Register
  <2>3. Engine!Next
    BY <2>1, <2>2 DEF Says, Engine!Next
  <2>4. QED
    BY <2>3
<1>3. QED
  BY <1>1, <1>2, RegistryInvariant, PTL DEF Spec, Engine!Spec
=============================================================================
