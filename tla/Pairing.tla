------------------------------ MODULE Pairing -------------------------------
(***************************************************************************)
(* How a client comes to hold a credential of the hub: POST /pair with the *)
(* setup code, in a recovery window, as the first client ever or through   *)
(* an approval by a client already paired; revocation; the recovery CLI    *)
(* (app.py, store.py, security.py, cli.py).                                *)
(*                                                                         *)
(* Every await on the store is a step of its own, so calls interleave      *)
(* between their reads and their writes.  A call that mints a client mints *)
(* one, which bears the call's name.  A credential is good for whoever     *)
(* holds it while the client's row is live: an access token is minted from *)
(* it and checked against the row on every request.                        *)
(***************************************************************************)
EXTENDS Naturals, FiniteSets

CONSTANTS
    Call,           \* calls to POST /pair and to approve or claim
    Window,         \* recovery windows
    Code,           \* setup codes
    Digits,         \* pairing codes
    Limit,          \* failed setup codes a minute
    MaxFaults       \* deaths of the API and answers that do not arrive

VARIABLES
    client,         \* paired_clients
    setup,          \* hub_identity: the row, setup_code_hash and setup_completed_at
    window,         \* pairing_windows
    request,        \* pairing_requests, by the call that opened one
    call,           \* where a call is, and what it has read
    tokens,         \* _PendingTokens: the client of an approved request
    failures,       \* _SetupThrottle
    minting,        \* `bellasreef setup-code` has read that setup is not complete
    held,           \* clients whose credential has been handed out
    granted,        \* what each of them was handed it on
    strayed,        \* credentials lost with the API or with an answer
    unmarked,       \* complete_setup has found no row to write to
    faults

rowVars == <<client, setup, window, request>>
apiVars == <<tokens, failures, minting>>
outVars == <<held, granted, strayed, unmarked>>
vars == <<rowVars, call, apiVars, outVars, faults>>

-----------------------------------------------------------------------------
None == "none"

ASSUME PairingAssumption ==
    /\ Limit \in Nat \ {0} /\ MaxFaults \in Nat
    /\ Window \cap Call = {}
    /\ {None, "code", "tofu"} \cap (Window \cup Call) = {}

\* A request is "aged" when it is pending and its expires_at has passed.
Undecided == {"pending", "aged"}
NoRequest == [state |-> None, digits |-> None, client |-> None]

Step == {"free", "window", "count", "first", "active", "sweep", "insert", "mint", "latch", "consume",
         "complete", "grant", "discard", "ask", "decide", "put", "after", "done"}
Fresh == [at |-> "free", coded |-> FALSE, on |-> None]
Over == [Fresh EXCEPT !.at = "done"]

\* What a client is let in on.
Way == {"code", "tofu"} \cup Window \cup Call

Ever == {c \in Call : client[c] # None}
Live == {c \in Call : client[c] = "live"}
At(c, s) == call[c].at = s
Goes(c, s) == call' = [call EXCEPT ![c] = IF s = "done" THEN Over ELSE [@ EXCEPT !.at = s, !.coded = FALSE]]
LetIn(c, s, w) == call' = [call EXCEPT ![c] = [@ EXCEPT !.at = s, !.coded = FALSE, !.on = w]]
InFlight(c) == call[c].at \notin {"free", "done"}

\* client_for_refresh_token, the access token minted from it, and current_client.
Authorised(a) == a \in held /\ client[a] = "live"

\* Every variable has its type, and no two undecided requests show the same digits
\* (models.py, PairingRequest; store.py, open_pairing_request).
PairingTypeOK ==
    /\ client \in [Call -> {None, "live", "revoked"}]
    /\ setup \in [row : BOOLEAN, code : Code \cup {None}, done : BOOLEAN]
    /\ unmarked \in BOOLEAN
    /\ window \in [Window -> [state : {None, "open", "shut", "used"}, by : Call \cup {None}]]
    /\ \A w \in Window : window[w].state = "used" => client[window[w].by] # None
    /\ request \in [Call -> [state : Undecided \cup {None, "approved", "denied", "expired"},
                             digits : Digits \cup {None}, client : Call \cup {None}]]
    /\ \A r \in Call : request[r].state = "approved" => client[request[r].client] # None
    /\ \A r, q \in Call : {request[r].state, request[q].state} \subseteq Undecided
                          /\ request[r].digits = request[q].digits => r = q
    /\ call \in [Call -> [at : Step, coded : BOOLEAN, on : Way \cup {None}]]
    /\ tokens \in [Call -> Call \cup {None}]
    /\ failures \in 0..Limit
    /\ minting \in BOOLEAN
    /\ held \subseteq Ever
    /\ granted \subseteq Way \X Call
    /\ strayed \subseteq Call
    /\ faults \in 0..MaxFaults

Fault == faults < MaxFaults /\ faults' = faults + 1

\* complete_setup, an UPDATE: without a row there is nothing it marks.
CompleteSetup ==
    /\ setup' = IF setup.row /\ ~setup.done THEN [setup EXCEPT !.code = None, !.done = TRUE] ELSE setup
    /\ unmarked' = (unmarked \/ ~setup.row)

-----------------------------------------------------------------------------
(* POST /pair with a setup code.                                           *)

\* setup_state; a hub that is set up, a budget that is spent and a wrong code are answered
\* at once.
PairWithCode(c, k) ==
    /\ At(c, "free") /\ ~setup.done /\ failures < Limit
    /\ IF k = setup.code
       THEN /\ LetIn(c, "mint", "code")
            /\ UNCHANGED failures
       ELSE /\ Goes(c, "done")
            /\ failures' = failures + 1
    /\ UNCHANGED <<rowVars, tokens, minting, outVars, faults>>

\* _SetupThrottle.retry_after: failures older than a minute are forgotten.
MinutePasses ==
    /\ failures > 0
    /\ failures' = failures - 1
    /\ UNCHANGED <<rowVars, call, tokens, minting, outVars, faults>>

\* create_client, on every way but the first client's.
Mint(c) ==
    /\ At(c, "mint")
    /\ client' = [client EXCEPT ![c] = "live"]
    /\ Goes(c, CASE call[c].on = "code" -> "latch"
                 [] call[c].on \in Window -> "consume"
                 [] OTHER -> "decide")
    /\ UNCHANGED <<setup, window, request, apiVars, outVars, faults>>

\* complete_setup, whose answer decides who the setup code let in.
Latch(c) ==
    /\ At(c, "latch")
    /\ CompleteSetup
    /\ Goes(c, IF setup.row /\ ~setup.done THEN "grant" ELSE "discard")
    /\ UNCHANGED <<client, window, request, apiVars, held, granted, strayed, faults>>

\* discard_client, of a row whose credential never left the process.
Discard(c) ==
    /\ At(c, "discard")
    /\ client' = [client EXCEPT ![c] = None]
    /\ Goes(c, "done")
    /\ UNCHANGED <<setup, window, request, apiVars, outVars, faults>>

-----------------------------------------------------------------------------
(* POST /pair without one.                                                 *)

Pair(c) ==
    /\ At(c, "free")
    /\ call' = [call EXCEPT ![c] = [@ EXCEPT !.at = "window", !.coded = ~setup.done /\ setup.code # None]]
    /\ UNCHANGED <<rowVars, apiVars, outVars, faults>>

\* open_window; without one a setup code that was minted is asked for.
FindWindow(c) ==
    /\ At(c, "window")
    /\ LET open == {w \in Window : window[w].state = "open"}
       IN  \/ \E w \in open : LetIn(c, "mint", w)
           \/ /\ open = {}
              /\ Goes(c, IF call[c].coded THEN "done" ELSE "count")
    /\ UNCHANGED <<rowVars, apiVars, outVars, faults>>

\* Mutant of Consume: the answer of consume_window is not looked at.
ConsumeIgnored(c) ==
    /\ At(c, "consume")
    /\ LET w == call[c].on
       IN  window' = IF window[w].state = "open" THEN [window EXCEPT ![w] = [state |-> "used", by |-> c]]
                     ELSE window
    /\ Goes(c, "complete")
    /\ UNCHANGED <<client, setup, request, apiVars, outVars, faults>>

\* consume_window: unused and unexpired, or the row is discarded again.
Consume(c) ==
    /\ At(c, "consume")
    /\ LET w == call[c].on
       IN  \/ /\ window[w].state = "open"
              /\ window' = [window EXCEPT ![w] = [state |-> "used", by |-> c]]
              /\ Goes(c, "complete")
           \/ /\ window[w].state # "open"
              /\ Goes(c, "discard")
              /\ UNCHANGED window
    /\ UNCHANGED <<client, setup, request, apiVars, outVars, faults>>

\* total_clients_ever.
Count(c) ==
    /\ At(c, "count")
    /\ Goes(c, IF Ever = {} THEN "first" ELSE "active")
    /\ UNCHANGED <<rowVars, apiVars, outVars, faults>>

\* create_first_client: the count and the insert under one lock.
First(c) ==
    /\ At(c, "first")
    /\ IF Ever = {}
       THEN /\ client' = [client EXCEPT ![c] = "live"]
            /\ LetIn(c, "complete", "tofu")
       ELSE Goes(c, "done") /\ UNCHANGED client
    /\ UNCHANGED <<setup, window, request, apiVars, outVars, faults>>

\* Mutant of Complete: the first client ever does not end setup.
CompleteWindowOnly(c) ==
    /\ At(c, "complete")
    /\ IF call[c].on = "tofu" THEN UNCHANGED <<setup, unmarked>> ELSE CompleteSetup
    /\ Goes(c, "grant")
    /\ UNCHANGED <<client, window, request, apiVars, held, granted, strayed, faults>>

\* complete_setup, its answer not needed.
Complete(c) ==
    /\ At(c, "complete")
    /\ CompleteSetup
    /\ Goes(c, "grant")
    /\ UNCHANGED <<client, window, request, apiVars, held, granted, strayed, faults>>

\* active_client_count: with nobody to approve, a request would never be seen.
Active(c) ==
    /\ At(c, "active")
    /\ Goes(c, IF Live = {} THEN "done" ELSE "sweep")
    /\ UNCHANGED <<rowVars, apiVars, outVars, faults>>

\* sweep_pairing.  The rows it deletes are decided already, or nobody's.
Sweep(c) ==
    /\ At(c, "sweep")
    /\ request' = [r \in Call |-> IF request[r].state = "aged" THEN [request[r] EXCEPT !.state = "expired"]
                                  ELSE request[r]]
    /\ Goes(c, "insert")
    /\ UNCHANGED <<client, setup, window, apiVars, outVars, faults>>

\* Mutant of Insert: the digits are picked without a look at those in play.
InsertAny(c) ==
    /\ At(c, "insert")
    /\ \E d \in Digits :
            request' = [request EXCEPT ![c] = [state |-> "pending", digits |-> d, client |-> None]]
    /\ Goes(c, "done")
    /\ UNCHANGED <<client, setup, window, apiVars, outVars, faults>>

\* open_pairing_request: a code no undecided request has, or an error.
Insert(c) ==
    /\ At(c, "insert")
    /\ LET inPlay == {request[r].digits : r \in {q \in Call : request[q].state \in Undecided}}
       IN  \/ \E d \in Digits \ inPlay :
                request' = [request EXCEPT ![c] = [state |-> "pending", digits |-> d, client |-> None]]
           \/ Digits \subseteq inPlay /\ UNCHANGED request
    /\ Goes(c, "done")
    /\ UNCHANGED <<client, setup, window, apiVars, outVars, faults>>

\* The answer with the credential, and one that does not arrive.
Grant(c) ==
    /\ At(c, "grant")
    /\ held' = held \cup {c}
    /\ granted' = granted \cup {<<call[c].on, c>>}
    /\ Goes(c, "done")
    /\ UNCHANGED <<rowVars, apiVars, strayed, unmarked, faults>>

GrantLost(c) ==
    /\ At(c, "grant")
    /\ Fault
    /\ strayed' = strayed \cup {c}
    /\ Goes(c, "done")
    /\ UNCHANGED <<rowVars, apiVars, held, granted, unmarked>>

-----------------------------------------------------------------------------
(* Approval.                                                               *)

\* approve and claim: current_client.  Claim then asks for the request its digits name; one
\* that is past deciding by then is past it in pairing_state too.
Approve(c, a, r) ==
    /\ At(c, "free") /\ Authorised(a)
    /\ LetIn(c, "ask", r)
    /\ UNCHANGED <<rowVars, apiVars, outVars, faults>>

\* pairing_state.
Ask(c) ==
    /\ At(c, "ask")
    /\ Goes(c, IF request[call[c].on].state = "pending" THEN "mint" ELSE "done")
    /\ UNCHANGED <<rowVars, apiVars, outVars, faults>>

\* Mutant of Decide: a lost race leaves the client it minted.
DecideKeeps(c) ==
    /\ At(c, "decide")
    /\ LET r == call[c].on
       IN  \/ /\ request[r].state \in Undecided
              /\ request' = [request EXCEPT ![r] = [@ EXCEPT !.state = "approved", !.client = c]]
              /\ Goes(c, "put")
           \/ /\ request[r].state \notin Undecided
              /\ Goes(c, "done")
              /\ UNCHANGED request
    /\ UNCHANGED <<client, setup, window, apiVars, outVars, faults>>

\* approve_pairing's transaction: the request is decided, or the client it minted is deleted.
Decide(c) ==
    /\ At(c, "decide")
    /\ LET r == call[c].on
       IN  \/ /\ request[r].state \in Undecided
              /\ request' = [request EXCEPT ![r] = [@ EXCEPT !.state = "approved", !.client = c]]
              /\ Goes(c, "put")
              /\ UNCHANGED client
           \/ /\ request[r].state \notin Undecided
              /\ client' = [client EXCEPT ![c] = None]
              /\ Goes(c, "done")
              /\ UNCHANGED request
    /\ UNCHANGED <<setup, window, apiVars, outVars, faults>>

\* _PendingTokens.put.
Put(c) ==
    /\ At(c, "put")
    /\ tokens' = [tokens EXCEPT ![call[c].on] = c]
    /\ Goes(c, "after")
    /\ UNCHANGED <<rowVars, failures, minting, outVars, faults>>

After(c) ==
    /\ At(c, "after")
    /\ CompleteSetup
    /\ Goes(c, "done")
    /\ UNCHANGED <<client, window, request, apiVars, held, granted, strayed, faults>>

Deny(a, r) ==
    /\ Authorised(a) /\ request[r].state \in Undecided
    /\ request' = [request EXCEPT ![r].state = "denied"]
    /\ UNCHANGED <<client, setup, window, call, apiVars, outVars, faults>>

\* poll_pair of a request that was approved: the credential is taken once.
Poll(r) ==
    /\ request[r].state = "approved" /\ tokens[r] # None
    /\ held' = held \cup {tokens[r]}
    /\ granted' = granted \cup {<<r, tokens[r]>>}
    /\ tokens' = [tokens EXCEPT ![r] = None]
    /\ UNCHANGED <<rowVars, call, failures, minting, strayed, unmarked, faults>>

PollLost(r) ==
    /\ request[r].state = "approved" /\ tokens[r] # None
    /\ Fault
    /\ strayed' = strayed \cup {tokens[r]}
    /\ tokens' = [tokens EXCEPT ![r] = None]
    /\ UNCHANGED <<rowVars, call, failures, minting, held, granted, unmarked>>

-----------------------------------------------------------------------------
(* Revocation, the CLI, time and deaths.                                   *)

\* revoke, by a client, by the client itself or by `bellasreef revoke`: the hash goes, the
\* row stays.
Revoke(x) ==
    /\ client[x] = "live"
    /\ client' = [client EXCEPT ![x] = "revoked"]
    /\ UNCHANGED <<setup, window, request, call, apiVars, outVars, faults>>

\* `bellasreef pair`.
OpenWindow(w) ==
    /\ window[w].state = None
    /\ window' = [window EXCEPT ![w].state = "open"]
    /\ UNCHANGED <<client, setup, request, call, apiVars, outVars, faults>>

\* hub_id, when the API starts, best effort, and before `bellasreef setup-code` does anything.
HubId ==
    /\ ~setup.row
    /\ setup' = [setup EXCEPT !.row = TRUE]
    /\ UNCHANGED <<client, window, request, call, apiVars, outVars, faults>>

\* `bellasreef setup-code`: the state is read and the new hash written in two transactions.
ReadSetup ==
    /\ setup.row /\ ~minting /\ ~setup.done
    /\ minting' = TRUE
    /\ UNCHANGED <<rowVars, call, tokens, failures, outVars, faults>>

WriteCode(k) ==
    /\ minting
    /\ minting' = FALSE
    /\ setup' = [setup EXCEPT !.code = k]
    /\ UNCHANGED <<client, window, request, call, tokens, failures, outVars, faults>>

WindowShuts(w) ==
    /\ window[w].state = "open"
    /\ window' = [window EXCEPT ![w].state = "shut"]
    /\ UNCHANGED <<client, setup, request, call, apiVars, outVars, faults>>

Age(r) ==
    /\ request[r].state = "pending"
    /\ request' = [request EXCEPT ![r].state = "aged"]
    /\ UNCHANGED <<client, setup, window, call, apiVars, outVars, faults>>

ApiDies ==
    /\ \E c \in Call : InFlight(c) \/ tokens[c] # None
    /\ Fault
    /\ strayed' = strayed \cup {c \in Call : client[c] # None /\ InFlight(c)}
                          \cup {tokens[r] : r \in {q \in Call : tokens[q] # None}}
    /\ call' = [c \in Call |-> IF InFlight(c) THEN Over ELSE call[c]]
    /\ tokens' = [r \in Call |-> None]
    /\ failures' = 0
    /\ UNCHANGED <<rowVars, minting, held, granted, unmarked>>

-----------------------------------------------------------------------------
Init ==
    /\ client = [c \in Call |-> None]
    /\ setup \in [row : BOOLEAN, code : {None}, done : {FALSE}] /\ unmarked = FALSE
    /\ window = [w \in Window |-> [state |-> None, by |-> None]]
    /\ request = [c \in Call |-> NoRequest]
    /\ call = [c \in Call |-> Fresh]
    /\ tokens = [c \in Call |-> None]
    /\ failures = 0 /\ minting = FALSE
    /\ held = {} /\ granted = {} /\ strayed = {}
    /\ faults = 0

Next ==
    \/ \E c \in Call :
        \/ Pair(c) \/ \E k \in Code : PairWithCode(c, k)
        \/ Mint(c) \/ Latch(c) \/ Discard(c) \/ FindWindow(c) \/ Consume(c) \/ Count(c) \/ First(c)
        \/ Complete(c) \/ Active(c) \/ Sweep(c) \/ Insert(c) \/ Grant(c) \/ GrantLost(c)
        \/ \E a, r \in Call : Approve(c, a, r)
        \/ Ask(c) \/ Decide(c) \/ Put(c) \/ After(c)
    \/ \E r \in Call : Poll(r) \/ PollLost(r) \/ Age(r) \/ \E a \in Call : Deny(a, r)
    \/ \E x \in Call : Revoke(x)
    \/ \E w \in Window : OpenWindow(w) \/ WindowShuts(w)
    \/ HubId \/ ReadSetup \/ \E k \in Code : WriteCode(k)
    \/ MinutePasses \/ ApiDies

Spec == Init /\ [][Next]_vars

-----------------------------------------------------------------------------
(* Properties.                                                             *)

\* One window, one setup code, one first boot and one approved request are one credential
\* each, however many calls race for them.
OneCredentialEach == \A g, h \in granted : g[1] = h[1] => g[2] = h[2]

\* A live row is somebody's: held, on its way, waiting for its poller, or lost with the API or
\* with an answer.  A call that lost a race leaves none.
NoOrphanClient ==
    \A c \in Live : c \in held \cup strayed \/ InFlight(c) \/ \E r \in Call : tokens[r] = c

\* Once anybody holds a credential setup is over, and no setup code lets another client in,
\* unless complete_setup found no hub_identity row to mark it in.
SetupEndsUnlessUnmarked == held # {} => setup.done \/ unmarked
=============================================================================
