--------------------------- MODULE PairingProofs ----------------------------
(***************************************************************************)
(* For any number of calls, windows and codes: one way in is one           *)
(* credential, a row that is live is somebody's, and setup is over once    *)
(* anybody holds a credential, unless there was no row to say so in.       *)
(***************************************************************************)
EXTENDS Pairing, TLAPS

CallType == [at : Step, coded : BOOLEAN, on : Way \cup {None}]

Types ==
    /\ client \in [Call -> {None, "live", "revoked"}]
    /\ setup \in [row : BOOLEAN, code : Code \cup {None}, done : BOOLEAN]
    /\ unmarked \in BOOLEAN
    /\ window \in [Window -> [state : {None, "open", "shut", "used"}, by : Call \cup {None}]]
    /\ request \in [Call -> [state : Undecided \cup {None, "approved", "denied", "expired"},
                             digits : Digits \cup {None}, client : Call \cup {None}]]
    /\ call \in [Call -> CallType]
    /\ tokens \in [Call -> Call \cup {None}]
    /\ held \subseteq Call
    /\ granted \subseteq Way \X Call

\* What a call is let in on fits where it is.
OnFits(k) ==
    /\ k.at = "mint" => k.on \in {"code"} \cup Window \cup Call
    /\ k.at = "latch" => k.on = "code"
    /\ k.at = "consume" => k.on \in Window
    /\ k.at = "complete" => k.on \in Window \cup {"tofu"}
    /\ k.at = "grant" => k.on \in Window \cup {"code", "tofu"}
    /\ k.at \in {"ask", "decide", "put"} => k.on \in Call
Fits == \A c \in Call : OnFits(call[c])

\* Setup is over before a credential can be handed out, and before anybody approves, or there
\* was no row to say so in.
Ended == setup.done \/ unmarked
Ready(k) == k.at \in {"grant", "ask", "decide", "put"} \/ (k.at = "mint" /\ k.on \in Call)
Sealed ==
    /\ held # {} => Ended
    /\ granted # {} => Ended
    /\ \A c \in Call : tokens[c] # None => Ended
    /\ \A c \in Call : Ready(call[c]) => Ended

\* c has been let in on w, or will be unless an answer is lost or the API dies.
Claim(w, c) ==
    \/ <<w, c>> \in granted
    \/ call[c].at \in {"complete", "grant", "put"} /\ call[c].on = w
    \/ w \in Call /\ tokens[w] = c

\* A request is opened by a call that ends with it.
Opened == \A c \in Call : request[c].state # None => call[c].at = "done"

\* What stands for a claim in the tables.
Backed ==
    /\ \A w \in Window, c \in Call : Claim(w, c) => window[w].state = "used" /\ window[w].by = c
    /\ \A r \in Call, c \in Call : Claim(r, c) => request[r].state = "approved" /\ request[r].client = c
    /\ \A c \in Call : Claim("tofu", c) => client[c] # None /\ call[c].at \in {"complete", "grant", "done"}
    /\ \A c \in Call : Claim("code", c) => setup.done

\* The two ways in that no table row names the winner of.
Unique == \A w \in {"code", "tofu"} : \A c, d \in Call : Claim(w, c) /\ Claim(w, d) => c = d

PairingInv == Types /\ Fits /\ Sealed /\ Opened /\ Backed /\ Unique

-----------------------------------------------------------------------------
\* Goes: one call moves, with what it is let in on unless it is over.
LEMMA Moves ==
    ASSUME Types, NEW c \in Call, NEW s \in Step, Goes(c, s)
    PROVE  /\ call' \in [Call -> CallType]
           /\ call'[c].at = s
           /\ s # "done" => call'[c].on = call[c].on
           /\ \A d \in Call : d # c => call'[d] = call[d]
<1> DEFINE k == IF s = "done" THEN Over ELSE [call[c] EXCEPT !.at = s, !.coded = FALSE]
<1>1. call \in [Call -> CallType] /\ call' = [call EXCEPT ![c] = k]
  BY DEF Types, Goes
<1>2. call[c] \in CallType
  BY <1>1
<1>3. Over \in CallType /\ Over.at = "done"
  BY DEF Over, Fresh, CallType, Step
<1>4. LET r == [call[c] EXCEPT !.at = s, !.coded = FALSE]
      IN  r \in CallType /\ r.at = s /\ r.on = call[c].on
  BY <1>2 DEF CallType
<1>5. k \in CallType /\ k.at = s /\ (s # "done" => k.on = call[c].on)
  BY <1>3, <1>4
<1> HIDE DEF k
<1>6. QED
  BY <1>1, <1>5

\* A call is given what it is let in on.
LEMMA LetsIn ==
    ASSUME Types, NEW c \in Call, NEW s \in Step, NEW w \in Way, LetIn(c, s, w)
    PROVE  /\ call' \in [Call -> CallType]
           /\ call'[c].at = s /\ call'[c].on = w
           /\ \A d \in Call : d # c => call'[d] = call[d]
<1>1. call \in [Call -> CallType] /\ call[c] \in CallType
  BY DEF Types
<1> DEFINE k == [call[c] EXCEPT !.at = s, !.coded = FALSE, !.on = w]
<1>2. k \in CallType /\ k.at = s /\ k.on = w
  BY <1>1 DEF CallType
<1>3. call' = [call EXCEPT ![c] = k]
  BY DEF LetIn
<1> HIDE DEF k
<1>4. QED
  BY <1>1, <1>2, <1>3

\* The parts of the invariant about claims hold on where no claim is added and the rows
\* behind the ones there are stay as they are.
LEMMA ClaimsStay ==
    ASSUME PairingInv,
           \A w \in Way, c \in Call : Claim(w, c)' => Claim(w, c),
           setup.done => setup'.done,
           \A w \in Window : window[w].state = "used" => window'[w] = window[w],
           \A r \in Call : request[r].state = "approved" => request'[r] = request[r],
           \A c \in Call : Claim("tofu", c) => client'[c] # None /\ call'[c].at \in {"complete", "grant", "done"}
    PROVE  Backed' /\ Unique'
<1>1. Window \subseteq Way /\ Call \subseteq Way /\ {"code", "tofu"} \subseteq Way
  BY DEF Way
<1>2. Backed'
  BY <1>1 DEF PairingInv, Backed
<1>3. Unique'
  BY <1>1 DEF PairingInv, Unique
<1>4. QED
  BY <1>2, <1>3

\* A call moves on and no claim comes of it: what is left to see is where it went.
LEMMA CallGoesOn ==
    ASSUME PairingInv, Types', NEW c \in Call, call[c].at # "done",
           \A d \in Call : d # c => call'[d] = call[d],
           OnFits(call'[c]),
           Ready(call'[c]) => Ended',
           setup.done => setup'.done,
           unmarked => unmarked',
           UNCHANGED <<tokens, held, granted>>,
           call'[c].at \in {"complete", "grant", "put"}
               => call[c].at \in {"complete", "grant", "put"} /\ call'[c].on = call[c].on,
           call[c].at \in {"complete", "grant"} => call'[c].at \in {"complete", "grant", "done"},
           \A d \in Call : request'[d].state # None
                              => request[d].state # None \/ (d = c /\ call'[c].at = "done"),
           \A r \in Call : request[r].state = "approved" => request'[r] = request[r],
           \A w \in Window : window[w].state = "used" => window'[w] = window[w],
           \A d \in Call : client[d] # None
                              => client'[d] # None \/ (d = c /\ call[c].at \notin {"complete", "grant", "done"})
    PROVE  PairingInv'
<1>1. Fits'
  BY DEF PairingInv, Fits
<1>2. Sealed'
  BY DEF PairingInv, Sealed, Ended
<1>3. Opened'
  BY DEF PairingInv, Opened
<1>4. \A w \in Way, d \in Call : Claim(w, d)' => Claim(w, d)
  BY DEF Claim
<1>5. \A d \in Call : Claim("tofu", d) => client'[d] # None /\ call'[d].at \in {"complete", "grant", "done"}
  BY DEF PairingInv, Backed
<1>6. Backed' /\ Unique'
  BY <1>4, <1>5, ClaimsStay
<1>7. QED
  BY <1>1, <1>2, <1>3, <1>6 DEF PairingInv

\* Something changes beside the calls.
LEMMA CallsStay ==
    ASSUME PairingInv, Types',
           UNCHANGED <<call, tokens, held, granted>>,
           setup'.done = setup.done, UNCHANGED unmarked,
           \A d \in Call : request'[d].state # None => request[d].state # None,
           \A r \in Call : request[r].state = "approved" => request'[r] = request[r],
           \A w \in Window : window[w].state = "used" => window'[w] = window[w],
           \A d \in Call : client[d] # None => client'[d] # None
    PROVE  PairingInv'
<1>1. Fits' /\ Opened'
  BY DEF PairingInv, Fits, Opened
<1>2. Sealed'
  BY DEF PairingInv, Sealed, Ended
<1>3. \A w \in Way, d \in Call : Claim(w, d)' => Claim(w, d)
  BY DEF Claim
<1>4. \A d \in Call : Claim("tofu", d) => client'[d] # None /\ call'[d].at \in {"complete", "grant", "done"}
  BY DEF PairingInv, Backed
<1>5. Backed' /\ Unique'
  BY <1>3, <1>4, ClaimsStay
<1>6. QED
  BY <1>1, <1>2, <1>5 DEF PairingInv

\* A call wins what nobody has claimed.
LEMMA CallWins ==
    ASSUME PairingInv, Types', NEW c \in Call, NEW w \in Way,
           call[c].at \notin {"complete", "grant", "put", "done"},
           call'[c].at \in {"complete", "grant", "put"}, call'[c].on = w,
           \A d \in Call : d # c => call'[d] = call[d],
           OnFits(call'[c]),
           Ready(call'[c]) => Ended',
           setup.done => setup'.done,
           unmarked => unmarked',
           UNCHANGED <<tokens, held, granted>>,
           \A d \in Call : ~Claim(w, d),
           \A d \in Call : request'[d].state # None => request[d].state # None,
           \A r \in Call : request[r].state = "approved" => request'[r] = request[r],
           \A v \in Window : window[v].state = "used" => window'[v] = window[v],
           \A d \in Call : client[d] # None => client'[d] # None,
           w \in Window => window'[w].state = "used" /\ window'[w].by = c,
           w \in Call => request'[w].state = "approved" /\ request'[w].client = c,
           w = "tofu" => client'[c] # None /\ call'[c].at \in {"complete", "grant"},
           w = "code" => setup'.done
    PROVE  PairingInv'
<1>1. Fits'
  BY DEF PairingInv, Fits
<1>2. Sealed'
  BY DEF PairingInv, Sealed, Ended
<1>3. Opened'
  BY DEF PairingInv, Opened
<1>4. \A v \in Way, d \in Call : Claim(v, d)' => Claim(v, d) \/ (v = w /\ d = c)
  BY DEF Claim
<1>5. \A d \in Call : Claim("tofu", d) => client'[d] # None /\ call'[d].at \in {"complete", "grant", "done"}
  BY DEF PairingInv, Backed
<1>6. Window \subseteq Way /\ Call \subseteq Way /\ {"code", "tofu"} \subseteq Way
  BY DEF Way
<1>7. Backed'
  <2>1. ASSUME NEW v \in Window, NEW d \in Call, Claim(v, d)'
        PROVE  window'[v].state = "used" /\ window'[v].by = d
    BY <2>1, <1>4, <1>6 DEF PairingInv, Backed
  <2>2. ASSUME NEW r \in Call, NEW d \in Call, Claim(r, d)'
        PROVE  request'[r].state = "approved" /\ request'[r].client = d
    BY <2>2, <1>4, <1>6 DEF PairingInv, Backed
  <2>3. ASSUME NEW d \in Call, Claim("tofu", d)'
        PROVE  client'[d] # None /\ call'[d].at \in {"complete", "grant", "done"}
    BY <2>3, <1>4, <1>5, <1>6
  <2>4. ASSUME NEW d \in Call, Claim("code", d)'
        PROVE  setup'.done
    BY <2>4, <1>4, <1>6 DEF PairingInv, Backed
  <2>5. QED
    BY <2>1, <2>2, <2>3, <2>4 DEF Backed
<1>8. Unique'
  BY <1>4, <1>6 DEF PairingInv, Unique
<1>9. QED
  BY <1>1, <1>2, <1>3, <1>7, <1>8 DEF PairingInv

\* setup_code and setup_completed_at: complete_setup ends setup, if there is a row.
LEMMA SetupCompleted ==
    ASSUME Types, CompleteSetup
    PROVE  /\ setup' \in [row : BOOLEAN, code : Code \cup {None}, done : BOOLEAN] /\ unmarked' \in BOOLEAN
           /\ setup.done => setup'.done
           /\ unmarked => unmarked'
           /\ setup.row => setup'.done
           /\ Ended'
<1>1. unmarked' \in BOOLEAN /\ (unmarked => unmarked') /\ (~setup.row => unmarked')
  BY Zenon DEF CompleteSetup
<1>2. setup \in [row : BOOLEAN, code : Code \cup {None}, done : BOOLEAN]
  BY DEF Types
<1>3. CASE setup.row /\ ~setup.done
  <2>1. setup' = [setup EXCEPT !.code = None, !.done = TRUE]
    BY <1>3 DEF CompleteSetup
  <2>2. setup' \in [row : BOOLEAN, code : Code \cup {None}, done : BOOLEAN] /\ setup'.done
    BY <1>2, <2>1
  <2>3. QED
    BY <1>1, <2>2 DEF Ended
<1>4. CASE ~(setup.row /\ ~setup.done)
  <2>1. setup' = setup
    BY <1>4 DEF CompleteSetup
  <2>2. QED
    BY <1>1, <1>2, <1>4, <2>1 DEF Ended
<1>5. QED
  BY <1>3, <1>4

\* POST /pair with a setup code, up to the client's row.
LEMMA CodeStep ==
    ASSUME PairingInv, NEW c \in Call, NEW k \in Code, PairWithCode(c, k)
    PROVE  PairingInv'
<1>1. /\ call' \in [Call -> CallType]
      /\ call'[c].at = "done" \/ (call'[c].at = "mint" /\ call'[c].on = "code")
      /\ \A d \in Call : d # c => call'[d] = call[d]
  <2>1. CASE k = setup.code
    BY <2>1, LetsIn, "code" \in Way, "mint" \in Step DEF PairingInv, PairWithCode, Way, Step
  <2>2. CASE k # setup.code
    BY <2>2, Moves, "done" \in Step DEF PairingInv, PairWithCode, Step
  <2>3. QED
    BY <2>1, <2>2
<1>2. Types'
  BY <1>1 DEF PairingInv, Types, PairWithCode, rowVars, outVars
<1>3. QED
  BY <1>1, <1>2, PairingAssumption, CallGoesOn DEF PairWithCode, At, OnFits, Ready, rowVars, outVars
\* create_client: the way in decides where the call goes with it.
LEMMA MintStep ==
    ASSUME PairingInv, NEW c \in Call, Mint(c)
    PROVE  PairingInv'
<1>1. call[c].on \in {"code"} \cup Window \cup Call /\ (call[c].on \in Call => Ended)
  BY DEF PairingInv, Fits, OnFits, Sealed, Ready, Mint, At
<1>2. /\ call' \in [Call -> CallType]
      /\ call'[c].on = call[c].on
      /\ \/ call[c].on = "code" /\ call'[c].at = "latch"
         \/ call[c].on \in Window /\ call'[c].at = "consume"
         \/ call[c].on \in Call /\ call'[c].at = "decide"
      /\ \A d \in Call : d # c => call'[d] = call[d]
  <2>1. CASE call[c].on = "code"
    BY <2>1, Moves DEF PairingInv, Mint, Step
  <2>2. CASE call[c].on \in Window
    <3>1. Goes(c, "consume")
      BY <2>2, PairingAssumption DEF Mint
    <3>2. QED
      BY <2>2, <3>1, Moves DEF PairingInv, Step
  <2>3. CASE call[c].on \in Call
    <3>1. Goes(c, "decide")
      BY <2>3, PairingAssumption DEF Mint
    <3>2. QED
      BY <2>3, <3>1, Moves DEF PairingInv, Step
  <2>4. QED
    BY <1>1, <2>1, <2>2, <2>3
<1>3. Types'
  BY <1>2 DEF PairingInv, Types, Mint, apiVars, outVars
<1>4. QED
  BY <1>1, <1>2, <1>3, PairingAssumption, CallGoesOn
  DEF PairingInv, Types, Mint, At, OnFits, Ready, Ended, apiVars, outVars

\* discard_client.
LEMMA DiscardStep ==
    ASSUME PairingInv, NEW c \in Call, Discard(c)
    PROVE  PairingInv'
<1>1. /\ call' \in [Call -> CallType]
      /\ call'[c].at = "done"
      /\ \A d \in Call : d # c => call'[d] = call[d]
  BY Moves DEF PairingInv, Discard, Step
<1>2. Types'
  BY <1>1 DEF PairingInv, Types, Discard, apiVars, outVars
<1>3. QED
  BY <1>1, <1>2, PairingAssumption, CallGoesOn
  DEF PairingInv, Types, Discard, At, OnFits, Ready, apiVars, outVars

\* POST /pair without a code begins.
LEMMA PairStep ==
    ASSUME PairingInv, NEW c \in Call, Pair(c)
    PROVE  PairingInv'
<1> DEFINE k == [call[c] EXCEPT !.at = "window", !.coded = ~setup.done /\ setup.code # None]
<1>1. call[c] \in CallType
  BY DEF PairingInv, Types
<1>2. k \in CallType /\ k.at = "window"
  BY <1>1 DEF CallType, Step
<1>3. call' = [call EXCEPT ![c] = k]
  BY DEF Pair
<1> HIDE DEF k
<1>4. /\ call' \in [Call -> CallType]
      /\ call'[c].at = "window"
      /\ \A d \in Call : d # c => call'[d] = call[d]
  BY <1>2, <1>3 DEF PairingInv, Types
<1>5. Types'
  BY <1>4 DEF PairingInv, Types, Pair, rowVars, apiVars, outVars
<1>6. QED
  BY <1>4, <1>5, CallGoesOn DEF Pair, At, OnFits, Ready, rowVars, apiVars, outVars

\* open_window.
LEMMA FindWindowStep ==
    ASSUME PairingInv, NEW c \in Call, FindWindow(c)
    PROVE  PairingInv'
<1>1. /\ call' \in [Call -> CallType]
      /\ \/ call'[c].at = "mint" /\ call'[c].on \in Window
         \/ call'[c].at \in {"done", "count"}
      /\ \A d \in Call : d # c => call'[d] = call[d]
  <2>1. ASSUME NEW w \in Window, LetIn(c, "mint", w)
        PROVE  <1>1!1 /\ <1>1!2 /\ <1>1!3
    BY <2>1, LetsIn DEF PairingInv, Way, Step
  <2>2. CASE Goes(c, IF call[c].coded THEN "done" ELSE "count")
    BY <2>2, Moves DEF PairingInv, Step
  <2>3. QED
    BY <2>1, <2>2 DEF FindWindow
<1>2. Types'
  BY <1>1 DEF PairingInv, Types, FindWindow, rowVars, apiVars, outVars
<1>3. QED
  BY <1>1, <1>2, PairingAssumption, CallGoesOn
  DEF FindWindow, At, OnFits, Ready, rowVars, apiVars, outVars

\* total_clients_ever.
LEMMA CountStep ==
    ASSUME PairingInv, NEW c \in Call, Count(c)
    PROVE  PairingInv'
<1>1. /\ call' \in [Call -> CallType]
      /\ call'[c].at \in {"first", "active"}
      /\ \A d \in Call : d # c => call'[d] = call[d]
  BY Moves DEF PairingInv, Count, Step
<1>2. Types'
  BY <1>1 DEF PairingInv, Types, Count, rowVars, apiVars, outVars
<1>3. QED
  BY <1>1, <1>2, PairingAssumption, CallGoesOn
  DEF Count, At, OnFits, Ready, rowVars, apiVars, outVars

\* active_client_count.
LEMMA ActiveStep ==
    ASSUME PairingInv, NEW c \in Call, Active(c)
    PROVE  PairingInv'
<1>1. /\ call' \in [Call -> CallType]
      /\ call'[c].at \in {"done", "sweep"}
      /\ \A d \in Call : d # c => call'[d] = call[d]
  BY Moves DEF PairingInv, Active, Step
<1>2. Types'
  BY <1>1 DEF PairingInv, Types, Active, rowVars, apiVars, outVars
<1>3. QED
  BY <1>1, <1>2, PairingAssumption, CallGoesOn
  DEF Active, At, OnFits, Ready, rowVars, apiVars, outVars

\* complete_setup after a window or the first client.
LEMMA CompleteStep ==
    ASSUME PairingInv, NEW c \in Call, Complete(c)
    PROVE  PairingInv'
<1>1. /\ call' \in [Call -> CallType]
      /\ call'[c].at = "grant" /\ call'[c].on = call[c].on
      /\ \A d \in Call : d # c => call'[d] = call[d]
  BY Moves DEF PairingInv, Complete, Step
<1>2. Types'
  BY <1>1, SetupCompleted DEF PairingInv, Types, Complete, apiVars
<1>3. QED
  BY <1>1, <1>2, SetupCompleted, PairingAssumption, CallGoesOn
  DEF PairingInv, Fits, Complete, At, OnFits, Ready, apiVars

\* complete_setup after an approval.
LEMMA AfterStep ==
    ASSUME PairingInv, NEW c \in Call, After(c)
    PROVE  PairingInv'
<1>1. /\ call' \in [Call -> CallType]
      /\ call'[c].at = "done"
      /\ \A d \in Call : d # c => call'[d] = call[d]
  BY Moves DEF PairingInv, After, Step
<1>2. Types'
  BY <1>1, SetupCompleted DEF PairingInv, Types, After, apiVars
<1>3. QED
  BY <1>1, <1>2, SetupCompleted, PairingAssumption, CallGoesOn
  DEF PairingInv, After, At, OnFits, Ready, apiVars

\* sweep_pairing.
LEMMA SweepStep ==
    ASSUME PairingInv, NEW c \in Call, Sweep(c)
    PROVE  PairingInv'
<1>1. /\ call' \in [Call -> CallType]
      /\ call'[c].at = "insert"
      /\ \A d \in Call : d # c => call'[d] = call[d]
  BY Moves DEF PairingInv, Sweep, Step
<1>2. Types'
  BY <1>1 DEF PairingInv, Types, Sweep, apiVars, outVars, Undecided
<1>3. /\ \A d \in Call : request'[d].state # None => request[d].state # None
      /\ \A r \in Call : request[r].state = "approved" => request'[r] = request[r]
  BY DEF PairingInv, Types, Sweep, Undecided, None
<1>4. QED
  BY <1>1, <1>2, <1>3, CallGoesOn DEF Sweep, At, OnFits, Ready, apiVars, outVars

\* open_pairing_request: of a call that had none.
LEMMA InsertStep ==
    ASSUME PairingInv, NEW c \in Call, Insert(c)
    PROVE  PairingInv'
<1>1. /\ call' \in [Call -> CallType]
      /\ call'[c].at = "done"
      /\ \A d \in Call : d # c => call'[d] = call[d]
  BY Moves DEF PairingInv, Insert, Step
<1>2. Types'
  BY <1>1 DEF PairingInv, Types, Insert, apiVars, outVars, Undecided
<1>3. request[c].state = None
  BY DEF PairingInv, Opened, Insert, At
<1>4. /\ \A d \in Call : request'[d].state # None => request[d].state # None \/ d = c
      /\ \A r \in Call : request[r].state = "approved" => request'[r] = request[r]
  BY <1>3 DEF PairingInv, Types, Insert, None
<1>5. QED
  BY <1>1, <1>2, <1>4, CallGoesOn DEF Insert, At, OnFits, Ready, apiVars, outVars

\* The answer is lost.
LEMMA GrantLostStep ==
    ASSUME PairingInv, NEW c \in Call, GrantLost(c)
    PROVE  PairingInv'
<1>1. /\ call' \in [Call -> CallType]
      /\ call'[c].at = "done"
      /\ \A d \in Call : d # c => call'[d] = call[d]
  BY Moves DEF PairingInv, GrantLost, Step
<1>2. Types'
  BY <1>1 DEF PairingInv, Types, GrantLost, rowVars, apiVars
<1>3. QED
  BY <1>1, <1>2, CallGoesOn DEF GrantLost, At, OnFits, Ready, rowVars, apiVars

\* pairing_state: the call goes on to mint, or is over.
LEMMA AskStep ==
    ASSUME PairingInv, NEW c \in Call, Ask(c)
    PROVE  PairingInv'
<1>1. call[c].on \in Call /\ Ended
  BY DEF PairingInv, Ask, Fits, OnFits, Sealed, Ready, At
<1>2. /\ call' \in [Call -> CallType]
      /\ call'[c].at = "done" \/ (call'[c].at = "mint" /\ call'[c].on = call[c].on)
      /\ \A d \in Call : d # c => call'[d] = call[d]
  BY Moves DEF PairingInv, Ask, Step
<1>3. Types'
  BY <1>2 DEF PairingInv, Types, Ask, rowVars, apiVars, outVars
<1>4. QED
  BY <1>1, <1>2, <1>3, CallGoesOn DEF Ask, At, OnFits, Ready, Ended, rowVars, apiVars, outVars

\* approve and claim: whoever approves holds a credential, so setup is over.
LEMMA ApproveStep ==
    ASSUME PairingInv, NEW c \in Call, NEW a \in Call, NEW r \in Call, Approve(c, a, r)
    PROVE  PairingInv'
<1>1. Ended
  BY DEF PairingInv, Sealed, Approve, Authorised
<1>2. /\ call' \in [Call -> CallType]
      /\ call'[c].at = "ask" /\ call'[c].on = r
      /\ \A d \in Call : d # c => call'[d] = call[d]
  BY LetsIn DEF PairingInv, Approve, Way, Step
<1>3. Types'
  BY <1>2 DEF PairingInv, Types, Approve, rowVars, apiVars, outVars
<1>4. QED
  BY <1>1, <1>2, <1>3, CallGoesOn DEF Approve, At, OnFits, Ready, Ended, rowVars, apiVars, outVars

\* complete_setup after the setup code: whoever ends setup is the one the code lets in.
LEMMA LatchStep ==
    ASSUME PairingInv, NEW c \in Call, Latch(c)
    PROVE  PairingInv'
<1> DEFINE s == IF setup.row /\ ~setup.done THEN "grant" ELSE "discard"
<1>1. /\ call' \in [Call -> CallType]
      /\ call'[c].at = s
      /\ call'[c].on = call[c].on
      /\ \A d \in Call : d # c => call'[d] = call[d]
  BY Moves DEF PairingInv, Latch, Step
<1>2. Types'
  BY <1>1, SetupCompleted DEF PairingInv, Types, Latch, apiVars
<1>3. /\ Ended' /\ (setup.done => setup'.done) /\ (unmarked => unmarked') /\ (setup.row => setup'.done)
      /\ call[c].on = "code" /\ "code" \in Way
  BY SetupCompleted DEF PairingInv, Latch, Fits, OnFits, At, Way
<1>4. CASE s = "discard"
  BY <1>1, <1>2, <1>3, <1>4, CallGoesOn DEF Latch, At, OnFits, Ready, apiVars
<1>5. CASE setup.row /\ ~setup.done
  <2>1. \A d \in Call : ~Claim("code", d)
    BY <1>5 DEF PairingInv, Backed
  <2>2. call'[c].at = "grant" /\ setup'.done
    BY <1>1, <1>3, <1>5
  <2> HIDE DEF s
  <2>3. QED
    BY <1>1, <1>2, <1>3, <2>1, <2>2, CallWins, PairingAssumption
    DEF Latch, At, OnFits, Ready, apiVars
<1>6. QED
  BY <1>4, <1>5

\* consume_window: a window is used once, and its row says by whom.
LEMMA ConsumeStep ==
    ASSUME PairingInv, NEW c \in Call, Consume(c)
    PROVE  PairingInv'
<1> DEFINE w == call[c].on
<1>1. w \in Window /\ w \in Way
  BY DEF PairingInv, Consume, Fits, OnFits, At, Way
<1>2. CASE window[w].state = "open"
  <2>1. /\ call' \in [Call -> CallType]
        /\ call'[c].at = "complete" /\ call'[c].on = w
        /\ \A d \in Call : d # c => call'[d] = call[d]
    BY <1>2, Moves DEF PairingInv, Consume, Step
  <2>2. window' = [window EXCEPT ![w] = [state |-> "used", by |-> c]]
    BY <1>2 DEF Consume
  <2>3. Types'
    BY <1>1, <2>1, <2>2 DEF PairingInv, Types, Consume, apiVars, outVars
  <2>4. \A d \in Call : ~Claim(w, d)
    BY <1>1, <1>2 DEF PairingInv, Backed
  <2>5. \A v \in Window : window[v].state = "used" => window'[v] = window[v]
    BY <1>1, <1>2, <2>2 DEF PairingInv, Types
  <2>6. window'[w].state = "used" /\ window'[w].by = c
    BY <1>1, <2>2 DEF PairingInv, Types
  <2>7. w \notin Call /\ w \notin {"tofu", "code"}
    BY <1>1, PairingAssumption
  <2> HIDE DEF w
  <2>8. QED
    BY <1>1, <2>1, <2>3, <2>4, <2>5, <2>6, <2>7, CallWins
    DEF Consume, At, OnFits, Ready, apiVars, outVars
<1>3. CASE window[w].state # "open"
  <2>1. /\ call' \in [Call -> CallType]
        /\ call'[c].at = "discard"
        /\ \A d \in Call : d # c => call'[d] = call[d]
        /\ UNCHANGED window
    BY <1>3, Moves DEF PairingInv, Consume, Step
  <2>2. Types'
    BY <2>1 DEF PairingInv, Types, Consume, apiVars, outVars
  <2>3. QED
    BY <2>1, <2>2, CallGoesOn DEF Consume, At, OnFits, Ready, apiVars, outVars
<1>4. QED
  BY <1>2, <1>3

\* create_first_client: a row of anybody's is in the way of a second first client.
LEMMA FirstStep ==
    ASSUME PairingInv, NEW c \in Call, First(c)
    PROVE  PairingInv'
<1>1. CASE Ever = {}
  <2>1. /\ call' \in [Call -> CallType]
        /\ call'[c].at = "complete" /\ call'[c].on = "tofu"
        /\ \A d \in Call : d # c => call'[d] = call[d]
    BY <1>1, LetsIn, "tofu" \in Way, "complete" \in Step DEF PairingInv, First, Way, Step
  <2>2. client' = [client EXCEPT ![c] = "live"]
    BY <1>1 DEF First
  <2>3. Types'
    BY <2>1, <2>2 DEF PairingInv, Types, First, apiVars, outVars
  <2>4. \A d \in Call : ~Claim("tofu", d)
    BY <1>1 DEF PairingInv, Backed, Ever
  <2>5. /\ \A d \in Call : client[d] # None => client'[d] # None
        /\ client'[c] # None
    BY <2>2 DEF PairingInv, Types, None
  <2>6. "tofu" \in Way /\ "tofu" \notin Window /\ "tofu" \notin Call
    BY PairingAssumption DEF Way
  <2>7. QED
    BY <2>1, <2>3, <2>4, <2>5, <2>6, CallWins DEF First, At, OnFits, Ready, apiVars, outVars
<1>2. CASE Ever # {}
  <2>1. /\ call' \in [Call -> CallType]
        /\ call'[c].at = "done"
        /\ \A d \in Call : d # c => call'[d] = call[d]
        /\ UNCHANGED client
    BY <1>2, Moves DEF PairingInv, First, Step
  <2>2. Types'
    BY <2>1 DEF PairingInv, Types, First, apiVars, outVars
  <2>3. QED
    BY <2>1, <2>2, CallGoesOn DEF First, At, OnFits, Ready, apiVars, outVars
<1>3. QED
  BY <1>1, <1>2

\* approve_pairing: a request is decided once, and its row says for whom.
LEMMA DecideStep ==
    ASSUME PairingInv, NEW c \in Call, Decide(c)
    PROVE  PairingInv'
<1> DEFINE r == call[c].on
<1>1. r \in Call /\ r \in Way /\ Ended
  BY DEF PairingInv, Decide, Fits, OnFits, Sealed, Ready, At, Way
<1>2. CASE request[r].state \in Undecided
  <2>1. /\ call' \in [Call -> CallType]
        /\ call'[c].at = "put" /\ call'[c].on = r
        /\ \A d \in Call : d # c => call'[d] = call[d]
    BY <1>2, Moves DEF PairingInv, Decide, Step
  <2>2. request' = [request EXCEPT ![r] = [@ EXCEPT !.state = "approved", !.client = c]] /\ UNCHANGED client
    BY <1>2 DEF Decide
  <2>3. Types'
    <3> DEFINE R == [state : Undecided \cup {None, "approved", "denied", "expired"},
                     digits : Digits \cup {None}, client : Call \cup {None}]
               q == [request[r] EXCEPT !.state = "approved", !.client = c]
    <3>1. request \in [Call -> R] /\ request[r] \in R
      BY <1>1 DEF PairingInv, Types
    <3>2. q \in R
      BY <3>1
    <3>3. request' = [request EXCEPT ![r] = q]
      BY <2>2
    <3> HIDE DEF q, R, r
    <3>4. request' \in [Call -> R]
      BY <1>1, <3>1, <3>2, <3>3
    <3>5. QED
      BY <2>1, <2>2, <3>4 DEF PairingInv, Types, Decide, apiVars, outVars, R
  <2>4. \A d \in Call : ~Claim(r, d)
    BY <1>1, <1>2 DEF PairingInv, Backed, Undecided
  <2>5. /\ \A d \in Call : request'[d].state # None => request[d].state # None
        /\ \A q \in Call : request[q].state = "approved" => request'[q] = request[q]
    BY <1>1, <1>2, <2>2 DEF PairingInv, Types, Undecided, None
  <2>6. request'[r].state = "approved" /\ request'[r].client = c
    BY <1>1, <2>2 DEF PairingInv, Types
  <2>7. r \notin Window /\ r \notin {"tofu", "code"}
    BY <1>1, PairingAssumption
  <2> HIDE DEF r
  <2>8. QED
    BY <1>1, <2>1, <2>2, <2>3, <2>4, <2>5, <2>6, <2>7, CallWins
    DEF Decide, At, OnFits, Ready, Ended, apiVars, outVars
<1>3. CASE request[r].state \notin Undecided
  <2>1. /\ call' \in [Call -> CallType]
        /\ call'[c].at = "done"
        /\ \A d \in Call : d # c => call'[d] = call[d]
        /\ UNCHANGED request
        /\ client' = [client EXCEPT ![c] = None]
    BY <1>3, Moves DEF PairingInv, Decide, Step
  <2>2. Types'
    BY <2>1 DEF PairingInv, Types, Decide, apiVars, outVars
  <2>3. \A d \in Call : client[d] # None => client'[d] # None \/ d = c
    BY <2>1 DEF PairingInv, Types
  <2>4. QED
    BY <2>1, <2>2, <2>3, CallGoesOn DEF Decide, At, OnFits, Ready, apiVars, outVars
<1>4. QED
  BY <1>2, <1>3

\* The answer with the credential: what the call claimed is granted.
LEMMA GrantStep ==
    ASSUME PairingInv, NEW c \in Call, Grant(c)
    PROVE  PairingInv'
<1>1. /\ call' \in [Call -> CallType]
      /\ call'[c].at = "done"
      /\ \A d \in Call : d # c => call'[d] = call[d]
  BY Moves DEF PairingInv, Grant, Step
<1>2. call[c].at = "grant" /\ call[c].on \in Way /\ Ended
  BY DEF PairingInv, Grant, Fits, OnFits, Sealed, Ready, At, Way
<1>3. Types'
  BY <1>1, <1>2 DEF PairingInv, Types, Grant, rowVars, apiVars
<1>4. Fits' /\ Opened'
  BY <1>1, <1>2 DEF PairingInv, Fits, Opened, OnFits, Grant, rowVars
<1>5. Sealed'
  BY <1>1, <1>2 DEF PairingInv, Sealed, Ready, Ended, Grant, rowVars, apiVars
<1>6. \A w \in Way, d \in Call : Claim(w, d)' => Claim(w, d)
  BY <1>1, <1>2 DEF Claim, Grant, apiVars
<1>7. \A d \in Call : Claim("tofu", d) => client'[d] # None /\ call'[d].at \in {"complete", "grant", "done"}
  BY <1>1 DEF PairingInv, Backed, Grant, rowVars
<1>8. Backed' /\ Unique'
  BY <1>6, <1>7, ClaimsStay DEF Grant, rowVars
<1>9. QED
  BY <1>3, <1>4, <1>5, <1>8 DEF PairingInv

\* _PendingTokens.put: what the call claimed waits for its poller.
LEMMA PutStep ==
    ASSUME PairingInv, NEW c \in Call, Put(c)
    PROVE  PairingInv'
<1>1. /\ call' \in [Call -> CallType]
      /\ call'[c].at = "after"
      /\ \A d \in Call : d # c => call'[d] = call[d]
  BY Moves DEF PairingInv, Put, Step
<1>2. call[c].at = "put" /\ call[c].on \in Call /\ Ended
  BY DEF PairingInv, Put, Fits, OnFits, Sealed, Ready, At
<1>3. Types'
  BY <1>1, <1>2 DEF PairingInv, Types, Put, rowVars, outVars
<1>4. Fits' /\ Opened'
  BY <1>1, <1>2 DEF PairingInv, Fits, Opened, OnFits, Put, rowVars
<1>5. Sealed'
  BY <1>1, <1>2 DEF PairingInv, Sealed, Ready, Ended, Put, rowVars, outVars
<1>6. \A w \in Way, d \in Call : Claim(w, d)' => Claim(w, d)
  BY <1>1, <1>2 DEF PairingInv, Types, Claim, Put, outVars
<1>7. \A d \in Call : Claim("tofu", d) => client'[d] # None /\ call'[d].at \in {"complete", "grant", "done"}
  BY <1>1, <1>2 DEF PairingInv, Backed, Put, rowVars
<1>8. Backed' /\ Unique'
  BY <1>6, <1>7, ClaimsStay DEF Put, rowVars
<1>9. QED
  BY <1>3, <1>4, <1>5, <1>8 DEF PairingInv

\* poll_pair: what waited is granted, or lost with the answer.
LEMMA PollStep ==
    ASSUME PairingInv, NEW r \in Call, Poll(r) \/ PollLost(r)
    PROVE  PairingInv'
<1>1. /\ tokens[r] \in Call /\ tokens' = [tokens EXCEPT ![r] = None] /\ tokens \in [Call -> Call \cup {None}]
      /\ UNCHANGED <<client, setup, window, request, call>>
      /\ granted' \subseteq granted \cup {<<r, tokens[r]>>}
      /\ held' \subseteq held \cup {tokens[r]}
      /\ Ended /\ UNCHANGED unmarked
  BY DEF PairingInv, Types, Sealed, Poll, PollLost, rowVars
<1>2. Types'
  BY <1>1 DEF PairingInv, Types, Way
<1>3. Fits' /\ Opened'
  BY <1>1 DEF PairingInv, Fits, Opened
<1>4. Sealed'
  BY <1>1 DEF PairingInv, Sealed, Ended
<1>5. \A w \in Way, d \in Call : Claim(w, d)' => Claim(w, d)
  <2> SUFFICES ASSUME NEW w \in Way, NEW d \in Call, Claim(w, d)' PROVE Claim(w, d)
    OBVIOUS
  <2>1. <<w, d>> \in granted' => <<w, d>> \in granted \/ (w = r /\ d = tokens[r])
    BY <1>1
  <2>2. w \in Call /\ tokens'[w] = d => tokens[w] = d
    BY <1>1, PairingAssumption
  <2>3. QED
    BY <1>1, <2>1, <2>2 DEF Claim
<1>6. \A d \in Call : Claim("tofu", d) => client'[d] # None /\ call'[d].at \in {"complete", "grant", "done"}
  BY <1>1 DEF PairingInv, Backed
<1>7. Backed' /\ Unique'
  BY <1>1, <1>5, <1>6, ClaimsStay
<1>8. QED
  BY <1>2, <1>3, <1>4, <1>7 DEF PairingInv

\* The API dies: claims go, and none is added.
LEMMA DiesStep ==
    ASSUME PairingInv, ApiDies
    PROVE  PairingInv'
<1>1. Over \in CallType /\ Over.at = "done"
  BY DEF Over, Fresh, CallType, Step
<1>2. /\ call' \in [Call -> CallType] /\ tokens' = [r \in Call |-> None]
      /\ \A c \in Call : call'[c] = call[c] \/ call'[c].at = "done"
      /\ \A c \in Call : call[c].at = "done" => call'[c].at = "done"
      /\ UNCHANGED <<client, setup, window, request, held, granted, unmarked>>
  BY <1>1 DEF PairingInv, Types, ApiDies, rowVars
<1>3. Types'
  BY <1>2 DEF PairingInv, Types
<1>4. Fits' /\ Opened'
  BY <1>2 DEF PairingInv, Fits, Opened, OnFits
<1>5. Sealed'
  BY <1>2 DEF PairingInv, Sealed, Ready, Ended
<1>6. \A w \in Way, d \in Call : Claim(w, d)' => Claim(w, d)
  BY <1>2, PairingAssumption DEF Claim
<1>7. \A d \in Call : Claim("tofu", d) => client'[d] # None /\ call'[d].at \in {"complete", "grant", "done"}
  BY <1>2 DEF PairingInv, Backed
<1>8. Backed' /\ Unique'
  BY <1>2, <1>6, <1>7, ClaimsStay
<1>9. QED
  BY <1>3, <1>4, <1>5, <1>8 DEF PairingInv

\* Revocation, denial, the recovery CLI and time leave every call where it is.
LEMMA AsideStep ==
    ASSUME PairingInv,
           \/ \E r \in Call : Age(r) \/ \E a \in Call : Deny(a, r)
           \/ \E x \in Call : Revoke(x)
           \/ \E w \in Window : OpenWindow(w) \/ WindowShuts(w)
           \/ HubId \/ ReadSetup \/ \E k \in Code : WriteCode(k)
           \/ MinutePasses
    PROVE  PairingInv'
<1>1. ASSUME NEW r \in Call, Age(r) \/ \E a \in Call : Deny(a, r)
      PROVE  PairingInv'
  <2>1. request[r].state \in Undecided /\ UNCHANGED <<client, setup, window, call, tokens, held, granted, unmarked>>
    BY <1>1 DEF Age, Deny, apiVars, outVars, Undecided
  <2>2. \E s \in {"aged", "denied"} : request' = [request EXCEPT ![r].state = s]
    BY <1>1 DEF Age, Deny
  <2>3. Types'
    BY <2>1, <2>2 DEF PairingInv, Types, Undecided
  <2>4. /\ \A d \in Call : request'[d].state # None => request[d].state # None
        /\ \A q \in Call : request[q].state = "approved" => request'[q] = request[q]
    BY <2>1, <2>2 DEF PairingInv, Types, Undecided, None
  <2>5. QED
    BY <2>1, <2>3, <2>4, CallsStay
<1>2. ASSUME NEW x \in Call, Revoke(x)
      PROVE  PairingInv'
  <2>1. client' = [client EXCEPT ![x] = "revoked"] /\ UNCHANGED <<setup, window, request, call, tokens, held, granted, unmarked>>
    BY <1>2 DEF Revoke, apiVars, outVars
  <2>2. Types' /\ \A d \in Call : client[d] # None => client'[d] # None
    BY <2>1 DEF PairingInv, Types, None
  <2>3. QED
    BY <2>1, <2>2, CallsStay
<1>3. ASSUME NEW w \in Window, OpenWindow(w) \/ WindowShuts(w)
      PROVE  PairingInv'
  <2>1. window[w].state \in {None, "open"} /\ UNCHANGED <<client, setup, request, call, tokens, held, granted, unmarked>>
    BY <1>3 DEF OpenWindow, WindowShuts, apiVars, outVars
  <2>2. \E s \in {"open", "shut"} : window' = [window EXCEPT ![w].state = s]
    BY <1>3 DEF OpenWindow, WindowShuts
  <2>3. Types'
    BY <2>1, <2>2 DEF PairingInv, Types
  <2>4. \A v \in Window : window[v].state = "used" => window'[v] = window[v]
    BY <2>1, <2>2 DEF PairingInv, Types, None
  <2>5. QED
    BY <2>1, <2>3, <2>4, CallsStay
<1>4. ASSUME HubId \/ ReadSetup \/ (\E k \in Code : WriteCode(k)) \/ MinutePasses
      PROVE  PairingInv'
  <2>1. UNCHANGED <<client, window, request, call, tokens, held, granted, unmarked>>
    BY <1>4 DEF HubId, ReadSetup, WriteCode, MinutePasses, rowVars, apiVars, outVars
  <2>2. setup' \in [row : BOOLEAN, code : Code \cup {None}, done : BOOLEAN] /\ setup'.done = setup.done
    BY <1>4 DEF PairingInv, Types, HubId, ReadSetup, WriteCode, MinutePasses, rowVars
  <2>3. Types'
    BY <2>1, <2>2 DEF PairingInv, Types
  <2>4. QED
    BY <2>1, <2>2, <2>3, CallsStay
<1>5. QED
  BY <1>1, <1>2, <1>3, <1>4

-----------------------------------------------------------------------------
\* An empty hub: nothing is claimed.
LEMMA InitInv == Init => PairingInv
<1> SUFFICES ASSUME Init PROVE PairingInv
  OBVIOUS
<1>1. Fresh \in CallType /\ Fresh.at = "free"
  BY DEF Fresh, CallType, Step
<1>2. /\ client = [c \in Call |-> None]
      /\ setup \in [row : BOOLEAN, code : {None}, done : {FALSE}] /\ unmarked = FALSE
      /\ window = [w \in Window |-> [state |-> None, by |-> None]]
      /\ \A c \in Call : request[c].state = None
      /\ call = [c \in Call |-> Fresh] /\ tokens = [c \in Call |-> None]
      /\ held = {} /\ granted = {}
  BY DEF Init, NoRequest
<1>3. Types
  <2>1. setup \in [row : BOOLEAN, code : Code \cup {None}, done : BOOLEAN] /\ unmarked \in BOOLEAN
    BY <1>2
  <2>2. QED
    BY <1>1, <1>2, <2>1 DEF Types, Init, NoRequest
<1>4. Fits /\ Sealed /\ Opened
  BY <1>1, <1>2 DEF Fits, OnFits, Sealed, Ready, Opened
<1>5. \A w \in Way, c \in Call : ~Claim(w, c)
  BY <1>1, <1>2, PairingAssumption DEF Claim
<1>6. Backed /\ Unique
  BY <1>5 DEF Backed, Unique, Way
<1>7. QED
  BY <1>3, <1>4, <1>6 DEF PairingInv

\* Every action keeps PairingInv, by the lemma of its own.
LEMMA StepInv == PairingInv /\ [Next]_vars => PairingInv'
<1> SUFFICES ASSUME PairingInv, [Next]_vars PROVE PairingInv'
  OBVIOUS
<1>1. ASSUME NEW c \in Call,
             \/ Pair(c) \/ \E k \in Code : PairWithCode(c, k)
             \/ Mint(c) \/ Latch(c) \/ Discard(c) \/ FindWindow(c) \/ Consume(c) \/ Count(c) \/ First(c)
             \/ Complete(c) \/ Active(c) \/ Sweep(c) \/ Insert(c) \/ Grant(c) \/ GrantLost(c)
             \/ \E a, r \in Call : Approve(c, a, r)
             \/ Ask(c) \/ Decide(c) \/ Put(c) \/ After(c)
      PROVE  PairingInv'
  BY <1>1, PairStep, CodeStep, MintStep, LatchStep, DiscardStep, FindWindowStep, ConsumeStep, CountStep,
     FirstStep, CompleteStep, ActiveStep, SweepStep, InsertStep, GrantStep, GrantLostStep, ApproveStep, AskStep,
     DecideStep, PutStep, AfterStep
<1>2. ASSUME UNCHANGED vars PROVE PairingInv'
  <2>1. UNCHANGED <<client, setup, window, request, call, tokens, held, granted, unmarked>>
    BY <1>2 DEF vars, rowVars, apiVars, outVars
  <2>2. Types'
    BY <2>1 DEF PairingInv, Types
  <2>3. QED
    BY <2>1, <2>2, CallsStay
<1>3. QED
  BY <1>1, <1>2, PollStep, AsideStep, DiesStep DEF Next

\* PairingInv is an invariant: the tables back every claim to a way in.
THEOREM Claims == Spec => []PairingInv
<1>1. QED
  BY InitInv, StepInv, PTL DEF Spec

\* However many calls race for it, a window, the setup code, the first boot and an approved
\* request hand out one credential each (app.py, pair and approve; store.py).
THEOREM OneCredential == Spec => []OneCredentialEach
<1>1. PairingInv => OneCredentialEach
  <2> SUFFICES ASSUME PairingInv, NEW g \in granted, NEW h \in granted, g[1] = h[1]
               PROVE  g[2] = h[2]
    BY DEF OneCredentialEach
  <2>1. g = <<g[1], g[2]>> /\ h = <<h[1], h[2]>> /\ g[1] \in Way /\ g[2] \in Call /\ h[2] \in Call
    BY DEF PairingInv, Types
  <2>2. Claim(g[1], g[2]) /\ Claim(g[1], h[2])
    BY <2>1 DEF Claim
  <2>3. QED
    BY <2>1, <2>2 DEF PairingInv, Backed, Unique, Way
<1>2. QED
  BY <1>1, Claims, PTL

\* Whoever holds a credential, setup is over or complete_setup found no hub_identity row: it is
\* called before a credential is handed out, on every way in (app.py, pair and _approve;
\* store.py, complete_setup).
THEOREM SetupEnds == Spec => []SetupEndsUnlessUnmarked
<1>1. PairingInv => SetupEndsUnlessUnmarked
  BY DEF PairingInv, Sealed, Ended, SetupEndsUnlessUnmarked
<1>2. QED
  BY <1>1, Claims, PTL
-----------------------------------------------------------------------------
(* Whose a row is.                                                         *)

\* A credential that left the API, or that waits for its poller.
Homed(c) == c \in held \cup strayed \/ \E r \in Call : tokens[r] = c

\* Where a call has no row yet, and where its row is the call's own.
Early == {"free", "window", "count", "first", "active", "sweep", "insert", "ask", "mint"}
Rowed == {"latch", "consume", "complete", "grant", "discard", "decide", "put"}

Owned ==
    \A c \in Call : /\ call[c].at \in Early => client[c] = None
                    /\ client[c] = "live" => Homed(c) \/ call[c].at \in Rowed

\* A call moves, with no row, with its row, or leaving it where it is homed.
LEMMA OwnedStays ==
    ASSUME Owned, NEW c \in Call,
           \A d \in Call : d # c => call'[d] = call[d] /\ client'[d] = client[d],
           \A d \in Call : Homed(d) => Homed(d)',
           call'[c].at \in Early => client'[c] = None,
           client'[c] = "live" => Homed(c)' \/ call'[c].at \in Rowed
    PROVE  Owned'
BY DEF Owned

\* Where a call's row is decided by where it is, and nobody's home changes.
LEMMA OwnedMoves ==
    ASSUME Types, Owned, NEW c \in Call,
           \A d \in Call : d # c => call'[d] = call[d],
           UNCHANGED <<tokens, held, strayed>>,
           \/ client' = client /\ call[c].at \in Early /\ call'[c].at \in Early \cup {"done"}
           \/ client' = client /\ call[c].at \in Rowed /\ call'[c].at \in Rowed
           \/ client' = client /\ call[c].at = "after" /\ call'[c].at = "done"
           \/ client' = [client EXCEPT ![c] = "live"] /\ call'[c].at \in Rowed
           \/ client' = [client EXCEPT ![c] = None] /\ call'[c].at = "done"
    PROVE  Owned'
<1>1. \A d \in Call : Homed(d) => Homed(d)'
  BY DEF Homed
<1>2. \A d \in Call : d # c => client'[d] = client[d]
  BY DEF Types
<1>3. client[c] = "live" => Homed(c) \/ call[c].at \in Rowed
  BY DEF Owned
<1>4. call[c].at \in Early => client[c] = None
  BY DEF Owned
<1>5. /\ call'[c].at \in Early => client'[c] = None
      /\ client'[c] = "live" => Homed(c)' \/ call'[c].at \in Rowed
  BY <1>1, <1>3, <1>4 DEF Types, Early, Rowed, None
<1>6. QED
  BY <1>1, <1>2, <1>5, OwnedStays

\* The steps of a call that hand nothing out.
LEMMA CallOwns ==
    ASSUME PairingInv, Owned, NEW c \in Call,
           \/ Pair(c) \/ FindWindow(c) \/ Count(c) \/ Active(c) \/ Sweep(c) \/ Insert(c)
           \/ Mint(c) \/ Latch(c) \/ Discard(c) \/ Consume(c) \/ Complete(c) \/ Ask(c) \/ After(c)
    PROVE  Owned'
<1> USE DEF PairingInv
<1>1. CASE Pair(c)
  <2>1. call'[c].at \in {"window"} /\ \A d \in Call : d # c => call'[d] = call[d]
    BY <1>1 DEF Types, CallType, Pair
  <2>2. QED
    BY <1>1, <2>1, OwnedMoves DEF Pair, At, Early, Rowed, rowVars, apiVars, outVars
<1>2. CASE FindWindow(c)
  <2>1. call'[c].at \in {"mint", "done", "count"} /\ \A d \in Call : d # c => call'[d] = call[d]
    <3>1. ASSUME NEW w \in Window, LetIn(c, "mint", w)
          PROVE  call'[c].at = "mint" /\ \A d \in Call : d # c => call'[d] = call[d]
      BY <3>1, LetsIn DEF Way, Step
    <3>2. CASE Goes(c, IF call[c].coded THEN "done" ELSE "count")
      BY <3>2, Moves DEF Step
    <3>3. QED
      BY <1>2, <3>1, <3>2 DEF FindWindow
  <2>2. QED
    BY <1>2, <2>1, OwnedMoves DEF FindWindow, At, Early, Rowed, rowVars, apiVars, outVars
<1>3. CASE Count(c)
  <2>1. call'[c].at \in {"first", "active"} /\ \A d \in Call : d # c => call'[d] = call[d]
    BY <1>3, Moves DEF Count, Step
  <2>2. QED
    BY <1>3, <2>1, OwnedMoves DEF Count, At, Early, Rowed, rowVars, apiVars, outVars
<1>4. CASE Active(c)
  <2>1. call'[c].at \in {"done", "sweep"} /\ \A d \in Call : d # c => call'[d] = call[d]
    BY <1>4, Moves DEF Active, Step
  <2>2. QED
    BY <1>4, <2>1, OwnedMoves DEF Active, At, Early, Rowed, rowVars, apiVars, outVars
<1>5. CASE Sweep(c)
  <2>1. call'[c].at \in {"insert"} /\ \A d \in Call : d # c => call'[d] = call[d]
    BY <1>5, Moves DEF Sweep, Step
  <2>2. QED
    BY <1>5, <2>1, OwnedMoves DEF Sweep, At, Early, Rowed, apiVars, outVars
<1>6. CASE Insert(c)
  <2>1. call'[c].at \in {"done"} /\ \A d \in Call : d # c => call'[d] = call[d]
    BY <1>6, Moves DEF Insert, Step
  <2>2. QED
    BY <1>6, <2>1, OwnedMoves DEF Insert, At, Early, Rowed, apiVars, outVars
<1>7. CASE Mint(c)
  <2>1. call'[c].at \in {"latch", "consume", "decide"} /\ \A d \in Call : d # c => call'[d] = call[d]
    BY <1>7, Moves DEF Mint, Step
  <2>2. QED
    BY <1>7, <2>1, OwnedMoves DEF Mint, At, Early, Rowed, apiVars, outVars
<1>8. CASE Latch(c)
  <2>1. call'[c].at \in {"discard", "grant"} /\ \A d \in Call : d # c => call'[d] = call[d]
    BY <1>8, Moves DEF Latch, Step
  <2>2. QED
    BY <1>8, <2>1, OwnedMoves DEF Latch, At, Early, Rowed, apiVars
<1>9. CASE Discard(c)
  <2>1. call'[c].at \in {"done"} /\ \A d \in Call : d # c => call'[d] = call[d]
    BY <1>9, Moves DEF Discard, Step
  <2>2. QED
    BY <1>9, <2>1, OwnedMoves DEF Discard, At, Early, Rowed, apiVars, outVars
<1>10. CASE Consume(c)
  <2>1. call'[c].at \in {"complete", "discard"} /\ \A d \in Call : d # c => call'[d] = call[d]
    BY <1>10, Moves DEF Consume, Step
  <2>2. QED
    BY <1>10, <2>1, OwnedMoves DEF Consume, At, Early, Rowed, apiVars, outVars
<1>11. CASE Complete(c)
  <2>1. call'[c].at \in {"grant"} /\ \A d \in Call : d # c => call'[d] = call[d]
    BY <1>11, Moves DEF Complete, Step
  <2>2. QED
    BY <1>11, <2>1, OwnedMoves DEF Complete, At, Early, Rowed, apiVars
<1>12. CASE After(c)
  <2>1. call'[c].at \in {"done"} /\ \A d \in Call : d # c => call'[d] = call[d]
    BY <1>12, Moves DEF After, Step
  <2>2. QED
    BY <1>12, <2>1, OwnedMoves DEF After, At, Early, Rowed, apiVars
<1>13. CASE Ask(c)
  <2>1. call'[c].at \in {"mint", "done"} /\ \A d \in Call : d # c => call'[d] = call[d]
    BY <1>13, Moves DEF Ask, Step
  <2>2. QED
    BY <1>13, <2>1, OwnedMoves DEF Ask, At, Early, Rowed, rowVars, apiVars, outVars
<1>14. QED
  BY <1>1, <1>2, <1>3, <1>4, <1>5, <1>6, <1>7, <1>8, <1>9, <1>10, <1>11, <1>12, <1>13

\* A right setup code: the call goes on to mint.
LEMMA CodeOwns ==
    ASSUME PairingInv, Owned, NEW c \in Call, NEW k \in Code, PairWithCode(c, k)
    PROVE  Owned'
<1>1. call'[c].at \in {"mint", "done"} /\ \A d \in Call : d # c => call'[d] = call[d]
  <2>1. CASE k = setup.code
    BY <2>1, LetsIn, "code" \in Way, "mint" \in Step DEF PairingInv, PairWithCode, Way, Step
  <2>2. CASE k # setup.code
    BY <2>2, Moves, "done" \in Step DEF PairingInv, PairWithCode, Step
  <2>3. QED
    BY <2>1, <2>2
<1>2. QED
  BY <1>1, OwnedMoves DEF PairingInv, PairWithCode, At, Early, rowVars, outVars

\* create_first_client.
LEMMA FirstOwns ==
    ASSUME PairingInv, Owned, NEW c \in Call, First(c)
    PROVE  Owned'
<1>1. CASE Ever = {}
  <2>1. call'[c].at = "complete" /\ \A d \in Call : d # c => call'[d] = call[d]
    BY <1>1, LetsIn, "tofu" \in Way, "complete" \in Step DEF PairingInv, First, Way, Step
  <2>2. QED
    BY <1>1, <2>1, OwnedMoves DEF PairingInv, First, Rowed, apiVars, outVars
<1>2. CASE Ever # {}
  <2>1. call'[c].at = "done" /\ \A d \in Call : d # c => call'[d] = call[d]
    BY <1>2, Moves DEF PairingInv, First, Step
  <2>2. QED
    BY <1>2, <2>1, OwnedMoves DEF PairingInv, First, At, Early, apiVars, outVars
<1>3. QED
  BY <1>1, <1>2

\* approve_pairing keeps the row or deletes it.
LEMMA DecideOwns ==
    ASSUME PairingInv, Owned, NEW c \in Call, Decide(c)
    PROVE  Owned'
<1>1. CASE request[call[c].on].state \in Undecided
  <2>1. call'[c].at = "put" /\ \A d \in Call : d # c => call'[d] = call[d]
    BY <1>1, Moves DEF PairingInv, Decide, Step
  <2>2. QED
    BY <1>1, <2>1, OwnedMoves DEF PairingInv, Decide, At, Rowed, apiVars, outVars
<1>2. CASE request[call[c].on].state \notin Undecided
  <2>1. call'[c].at = "done" /\ \A d \in Call : d # c => call'[d] = call[d]
    BY <1>2, Moves DEF PairingInv, Decide, Step
  <2>2. QED
    BY <1>2, <2>1, OwnedMoves DEF PairingInv, Decide, apiVars, outVars
<1>3. QED
  BY <1>1, <1>2

\* approve and claim go on to mint.
LEMMA ApproveOwns ==
    ASSUME PairingInv, Owned, NEW c \in Call, NEW a \in Call, NEW r \in Call, Approve(c, a, r)
    PROVE  Owned'
<1>1. call'[c].at = "ask" /\ \A d \in Call : d # c => call'[d] = call[d]
  BY LetsIn DEF PairingInv, Approve, Way, Step
<1>2. QED
  BY <1>1, OwnedMoves DEF PairingInv, Approve, At, Early, rowVars, apiVars, outVars

\* A credential leaves the API, or is lost with its answer.
LEMMA GrantOwns ==
    ASSUME PairingInv, Owned, NEW c \in Call, Grant(c) \/ GrantLost(c)
    PROVE  Owned'
<1>1. call'[c].at = "done" /\ \A d \in Call : d # c => call'[d] = call[d]
  BY Moves DEF PairingInv, Grant, GrantLost, Step
<1>2. Homed(c)' /\ \A d \in Call : Homed(d) => Homed(d)'
  BY DEF Grant, GrantLost, Homed, apiVars
<1>3. QED
  BY <1>1, <1>2, OwnedStays DEF Grant, GrantLost, Early, rowVars

\* A credential is left for its poller: one that waited there already was this call's own,
\* since a request is approved for one.
LEMMA PutOwns ==
    ASSUME PairingInv, Owned, NEW c \in Call, Put(c)
    PROVE  Owned'
<1>1. call'[c].at = "after" /\ \A d \in Call : d # c => call'[d] = call[d]
  BY Moves DEF PairingInv, Put, Step
<1>2. call[c].at = "put" /\ call[c].on \in Call
  BY DEF PairingInv, Fits, OnFits, Put, At
<1>3. \A d \in Call : tokens[call[c].on] = d => d = c
  <2> SUFFICES ASSUME NEW d \in Call, tokens[call[c].on] = d PROVE d = c
    OBVIOUS
  <2>1. Claim(call[c].on, c) /\ Claim(call[c].on, d)
    BY <1>2 DEF Claim
  <2>2. QED
    BY <1>2, <2>1 DEF PairingInv, Backed
<1>4. /\ tokens'[call[c].on] = c
      /\ \A r \in Call : r # call[c].on => tokens'[r] = tokens[r]
  BY <1>2 DEF PairingInv, Types, Put
<1>5. Homed(c)' /\ \A d \in Call : Homed(d) => Homed(d)'
  BY <1>2, <1>3, <1>4 DEF Put, Homed, outVars
<1>6. QED
  BY <1>1, <1>5, OwnedStays DEF Put, Early, rowVars

\* Beside the calls: a poll, a death of the API, and what leaves the credentials alone.
LEMMA AsideOwns ==
    ASSUME PairingInv, Owned,
           \/ \E r \in Call : Poll(r) \/ PollLost(r)
           \/ \E r \in Call : Age(r) \/ \E a \in Call : Deny(a, r)
           \/ \E x \in Call : Revoke(x)
           \/ \E w \in Window : OpenWindow(w) \/ WindowShuts(w)
           \/ HubId \/ ReadSetup \/ \E k \in Code : WriteCode(k)
           \/ MinutePasses \/ ApiDies \/ UNCHANGED vars
    PROVE  Owned'
<1> USE DEF PairingInv
<1>1. ASSUME NEW r \in Call, Poll(r) \/ PollLost(r) PROVE Owned'
  <2>1. \A d \in Call : Homed(d) => Homed(d)'
    BY <1>1 DEF Types, Poll, PollLost, Homed
  <2>2. QED
    BY <1>1, <2>1 DEF Owned, Poll, PollLost, rowVars
<1>2. ASSUME NEW x \in Call, Revoke(x) PROVE Owned'
  <2>1. \A d \in Call : Homed(d)' <=> Homed(d)
    BY <1>2 DEF Revoke, Homed, apiVars, outVars
  <2>2. client[x] = "live" /\ client' = [client EXCEPT ![x] = "revoked"] /\ UNCHANGED call
    BY <1>2 DEF Revoke
  <2>3. QED
    BY <2>1, <2>2 DEF Owned, Types, None
<1>3. CASE ApiDies
  <2>1. /\ strayed' = strayed \cup {c \in Call : client[c] # None /\ InFlight(c)}
                             \cup {tokens[r] : r \in {q \in Call : tokens[q] # None}}
        /\ UNCHANGED <<client, held>>
    BY <1>3 DEF ApiDies, rowVars
  <2>2. \A d \in Call : Homed(d) => Homed(d)'
    BY <2>1, PairingAssumption DEF Homed
  <2>3. \A d \in Call : client[d] = "live" /\ call[d].at \in Rowed => Homed(d)'
    BY <2>1 DEF Homed, InFlight, Rowed, None
  <2>4. Over.at = "done"
    BY DEF Over, Fresh
  <2>5. \A d \in Call : call'[d] = call[d] \/ call'[d].at = "done"
    BY <1>3, <2>4 DEF ApiDies
  <2>6. QED
    BY <2>1, <2>2, <2>3, <2>5 DEF Owned, Early
<1>4. ASSUME UNCHANGED <<client, call, tokens, held, strayed>> PROVE Owned'
  BY <1>4 DEF Owned, Homed
<1>5. QED
  BY <1>1, <1>2, <1>3, <1>4
  DEF Age, Deny, OpenWindow, WindowShuts, HubId, ReadSetup, WriteCode, MinutePasses, vars, rowVars, apiVars,
      outVars

\* A live row is somebody's: a call that loses a race for a window, the setup code or a
\* request leaves no client behind (app.py, discard_client; store.py, approve_pairing).
THEOREM NoOrphan == Spec => []NoOrphanClient
<1>1. Init => Owned
  <2> SUFFICES ASSUME Init PROVE Owned
    OBVIOUS
  <2>1. \A c \in Call : client[c] = None
    BY DEF Init
  <2>2. QED
    BY <2>1 DEF Owned, None
<1>2. PairingInv /\ Owned /\ [Next]_vars => Owned'
  <2> SUFFICES ASSUME PairingInv, Owned, [Next]_vars PROVE Owned'
    OBVIOUS
  <2>1. QED
    BY CallOwns, CodeOwns, FirstOwns, DecideOwns, ApproveOwns, GrantOwns, PutOwns, AsideOwns DEF Next
<1>3. Owned => NoOrphanClient
  BY DEF Owned, NoOrphanClient, Homed, Live, InFlight, Rowed
<1>4. QED
  BY <1>1, <1>2, <1>3, Claims, PTL DEF Spec

-----------------------------------------------------------------------------
(* The types: what a row names is there for good.                          *)

\* A call whose row will not be deleted any more.
Past == {"complete", "grant", "put", "after", "done"}
Kept(c) == client[c] # None /\ call[c].at \in Past

\* A call past create_client has its row; whoever holds a credential, used a window or was
\* approved has one that stays.
Lasting ==
    /\ \A c \in Call : call[c].at \in Rowed => client[c] # None
    /\ \A c \in held : Kept(c)
    /\ \A w \in Window : window[w].state = "used" => window[w].by \in Call /\ Kept(window[w].by)
    /\ \A r \in Call : request[r].state = "approved" => request[r].client \in Call /\ Kept(request[r].client)

DigitsApart ==
    \A r, q \in Call : {request[r].state, request[q].state} \subseteq Undecided
                       /\ request[r].digits = request[q].digits => r = q

Counted == failures \in 0..Limit /\ minting \in BOOLEAN /\ strayed \subseteq Call /\ faults \in 0..MaxFaults

\* Rows that stay do, and what is newly named stays too.
LEMMA LastingStays ==
    ASSUME Lasting,
           \A d \in Call : Kept(d) => Kept(d)',
           \A d \in Call : call'[d].at \in Rowed => client'[d] # None,
           held \subseteq Call,
           \A d \in held' : d \in held \/ Kept(d)',
           \A w \in Window : window'[w].state = "used"
                                => window'[w] = window[w] \/ (window'[w].by \in Call /\ Kept(window[w].by)'),
           \A r \in Call : request'[r].state = "approved"
                              => request'[r] = request[r]
                                    \/ (request'[r].client \in Call /\ Kept(request[r].client)')
    PROVE  Lasting'
<1>1. \A d \in held' : Kept(d)'
  BY DEF Lasting
<1>2. ASSUME NEW w \in Window, window'[w].state = "used" PROVE window'[w].by \in Call /\ Kept(window[w].by)'
  BY <1>2 DEF Lasting
<1>3. ASSUME NEW r \in Call, request'[r].state = "approved"
      PROVE  request'[r].client \in Call /\ Kept(request[r].client)'
  BY <1>3 DEF Lasting
<1>4. QED
  BY <1>1, <1>2, <1>3 DEF Lasting

\* One call moves: what stays stays, and where it has a row it has one.
LEMMA CallKept ==
    ASSUME Types, Lasting, NEW c \in Call,
           \A d \in Call : d # c => call'[d] = call[d],
           \/ client' = client /\ call[c].at \in Early /\ call'[c].at \in Early \cup {"done"}
           \/ client' = client /\ call[c].at \in Rowed \ Past /\ call'[c].at \in Rowed
           \/ client' = client /\ call[c].at \in Rowed /\ call'[c].at \in Past
           \/ client' = client /\ call[c].at = "after" /\ call'[c].at = "done"
           \/ client' = [client EXCEPT ![c] = "live"] /\ call[c].at \in Early /\ call'[c].at \in Rowed
           \/ client' = [client EXCEPT ![c] = None] /\ call[c].at \in Rowed \ Past /\ call'[c].at = "done"
    PROVE  /\ \A d \in Call : Kept(d) => Kept(d)'
           /\ \A d \in Call : call'[d].at \in Rowed => client'[d] # None
           /\ call'[c].at \in Past /\ call[c].at \in Rowed /\ client' = client => Kept(c)'
<1>1. \A d \in Call : d # c => client'[d] = client[d]
  BY DEF Types
<1>2. ASSUME NEW d \in Call, Kept(d) PROVE Kept(d)'
  BY <1>1, <1>2 DEF Kept, Early, Rowed, Past
<1>3. ASSUME NEW d \in Call, call'[d].at \in Rowed PROVE client'[d] # None
  <2>1. CASE d # c
    BY <1>1, <1>3, <2>1 DEF Lasting
  <2>2. CASE d = c
    BY <1>3, <2>2 DEF Lasting, Types, Early, Rowed, Past, None
  <2>3. QED
    BY <2>1, <2>2
<1>4. ASSUME call'[c].at \in Past, call[c].at \in Rowed, client' = client PROVE Kept(c)'
  BY <1>4 DEF Lasting, Kept
<1>5. QED
  BY <1>2, <1>3, <1>4

\* Digits stay apart where no request becomes undecided.
LEMMA DigitsStay ==
    ASSUME DigitsApart,
           \A r \in Call : request'[r].state \in Undecided
                              => request[r].state \in Undecided /\ request'[r].digits = request[r].digits
    PROVE  DigitsApart'
  BY DEF DigitsApart

\* The steps of a call that name no new row.
LEMMA CallLasts ==
    ASSUME PairingInv, Lasting, NEW c \in Call,
           \/ Pair(c) \/ FindWindow(c) \/ Count(c) \/ Active(c) \/ Mint(c) \/ Latch(c) \/ Discard(c)
           \/ Complete(c) \/ Ask(c) \/ Put(c) \/ After(c) \/ GrantLost(c)
    PROVE  Lasting'
<1> USE DEF PairingInv
<1>1. UNCHANGED <<window, request, held>> /\ held \subseteq Call
  BY DEF Pair, FindWindow, Count, Active, Mint, Latch, Discard, Complete, Ask, Put, After, GrantLost,
         rowVars, outVars, Types
<1>2. CASE Pair(c)
  <2>1. call'[c].at = "window" /\ \A d \in Call : d # c => call'[d] = call[d]
    BY <1>2 DEF Types, CallType, Pair
  <2>2. QED
    BY <1>1, <1>2, <2>1, CallKept, LastingStays DEF Pair, At, Early, rowVars
<1>3. CASE FindWindow(c)
  <2>1. call'[c].at \in {"mint", "done", "count"} /\ \A d \in Call : d # c => call'[d] = call[d]
    <3>1. ASSUME NEW w \in Window, LetIn(c, "mint", w)
          PROVE  call'[c].at = "mint" /\ \A d \in Call : d # c => call'[d] = call[d]
      BY <3>1, LetsIn DEF Way, Step
    <3>2. CASE Goes(c, IF call[c].coded THEN "done" ELSE "count")
      BY <3>2, Moves DEF Step
    <3>3. QED
      BY <1>3, <3>1, <3>2 DEF FindWindow
  <2>2. QED
    BY <1>1, <1>3, <2>1, CallKept, LastingStays DEF FindWindow, At, Early, rowVars
<1>4. CASE Count(c)
  <2>1. call'[c].at \in {"first", "active"} /\ \A d \in Call : d # c => call'[d] = call[d]
    BY <1>4, Moves DEF Count, Step
  <2>2. QED
    BY <1>1, <1>4, <2>1, CallKept, LastingStays DEF Count, At, Early, rowVars
<1>5. CASE Active(c)
  <2>1. call'[c].at \in {"done", "sweep"} /\ \A d \in Call : d # c => call'[d] = call[d]
    BY <1>5, Moves DEF Active, Step
  <2>2. QED
    BY <1>1, <1>5, <2>1, CallKept, LastingStays DEF Active, At, Early, rowVars
<1>6. CASE Mint(c)
  <2>1. call'[c].at \in {"latch", "consume", "decide"} /\ \A d \in Call : d # c => call'[d] = call[d]
    BY <1>6, Moves DEF Mint, Step
  <2>2. QED
    BY <1>1, <1>6, <2>1, CallKept, LastingStays DEF Mint, At, Early, Rowed
<1>7. CASE Latch(c)
  <2>1. call'[c].at \in {"discard", "grant"} /\ \A d \in Call : d # c => call'[d] = call[d]
    BY <1>7, Moves DEF Latch, Step
  <2>2. QED
    BY <1>1, <1>7, <2>1, CallKept, LastingStays DEF Latch, At, Rowed, Past
<1>8. CASE Discard(c)
  <2>1. call'[c].at = "done" /\ \A d \in Call : d # c => call'[d] = call[d]
    BY <1>8, Moves DEF Discard, Step
  <2>2. QED
    BY <1>1, <1>8, <2>1, CallKept, LastingStays DEF Discard, At, Rowed, Past
<1>9. CASE Complete(c)
  <2>1. call'[c].at = "grant" /\ \A d \in Call : d # c => call'[d] = call[d]
    BY <1>9, Moves DEF Complete, Step
  <2>2. QED
    BY <1>1, <1>9, <2>1, CallKept, LastingStays DEF Complete, At, Rowed, Past
<1>10. CASE Put(c)
  <2>1. call'[c].at = "after" /\ \A d \in Call : d # c => call'[d] = call[d]
    BY <1>10, Moves DEF Put, Step
  <2>2. QED
    BY <1>1, <1>10, <2>1, CallKept, LastingStays DEF Put, At, Rowed, Past, rowVars
<1>11. CASE After(c)
  <2>1. call'[c].at = "done" /\ \A d \in Call : d # c => call'[d] = call[d]
    BY <1>11, Moves DEF After, Step
  <2>2. QED
    BY <1>1, <1>11, <2>1, CallKept, LastingStays DEF After, At
<1>12. CASE GrantLost(c)
  <2>1. call'[c].at = "done" /\ \A d \in Call : d # c => call'[d] = call[d]
    BY <1>12, Moves DEF GrantLost, Step
  <2>2. QED
    BY <1>1, <1>12, <2>1, CallKept, LastingStays DEF GrantLost, At, Rowed, Past, rowVars
<1>13. CASE Ask(c)
  <2>1. call'[c].at \in {"mint", "done"} /\ \A d \in Call : d # c => call'[d] = call[d]
    BY <1>13, Moves DEF Ask, Step
  <2>2. QED
    BY <1>1, <1>13, <2>1, CallKept, LastingStays DEF Ask, At, Early, rowVars
<1>14. QED
  BY <1>2, <1>3, <1>4, <1>5, <1>6, <1>7, <1>8, <1>9, <1>10, <1>11, <1>12, <1>13

\* A setup code, right or wrong, and an approval begun.
LEMMA BeginsLasts ==
    ASSUME PairingInv, Lasting, NEW c \in Call,
           (\E k \in Code : PairWithCode(c, k)) \/ \E a, r \in Call : Approve(c, a, r)
    PROVE  Lasting'
<1>1. call'[c].at \in {"mint", "ask", "done"} /\ \A d \in Call : d # c => call'[d] = call[d]
  <2>1. ASSUME NEW k \in Code, PairWithCode(c, k) PROVE <1>1!1 /\ <1>1!2
    <3>1. CASE k = setup.code
      BY <2>1, <3>1, LetsIn, "code" \in Way, "mint" \in Step DEF PairingInv, PairWithCode, Way, Step
    <3>2. CASE k # setup.code
      BY <2>1, <3>2, Moves, "done" \in Step DEF PairingInv, PairWithCode, Step
    <3>3. QED
      BY <3>1, <3>2
  <2>2. ASSUME NEW a \in Call, NEW r \in Call, Approve(c, a, r) PROVE <1>1!1 /\ <1>1!2
    BY <2>2, LetsIn DEF PairingInv, Approve, Way, Step
  <2>3. QED
    BY <2>1, <2>2
<1>2. UNCHANGED <<client, window, request, held>> /\ held \subseteq Call /\ call[c].at = "free"
  BY DEF PairWithCode, Approve, At, rowVars, outVars, PairingInv, Types
<1>3. QED
  BY <1>1, <1>2, CallKept, LastingStays DEF PairingInv, Early

\* create_first_client.
LEMMA FirstLasts == ASSUME PairingInv, Lasting, NEW c \in Call, First(c) PROVE Lasting'
<1>1. UNCHANGED <<window, request, held>> /\ held \subseteq Call /\ call[c].at = "first"
  BY DEF First, At, outVars, PairingInv, Types
<1>2. CASE Ever = {}
  <2>1. call'[c].at = "complete" /\ \A d \in Call : d # c => call'[d] = call[d]
    BY <1>2, LetsIn, "tofu" \in Way, "complete" \in Step DEF PairingInv, First, Way, Step
  <2>2. QED
    BY <1>1, <1>2, <2>1, CallKept, LastingStays DEF PairingInv, First, Early, Rowed
<1>3. CASE Ever # {}
  <2>1. call'[c].at = "done" /\ \A d \in Call : d # c => call'[d] = call[d]
    BY <1>3, Moves DEF PairingInv, First, Step
  <2>2. QED
    BY <1>1, <1>3, <2>1, CallKept, LastingStays DEF PairingInv, First, Early
<1>4. QED
  BY <1>2, <1>3

\* consume_window: the window names a call whose row stays.
LEMMA ConsumeLasts == ASSUME PairingInv, Lasting, NEW c \in Call, Consume(c) PROVE Lasting'
<1>1. UNCHANGED <<client, request, held>> /\ held \subseteq Call /\ call[c].at = "consume" /\ call[c].on \in Window
  BY DEF Consume, At, outVars, PairingInv, Types, Fits, OnFits
<1>2. CASE window[call[c].on].state = "open"
  <2>1. call'[c].at = "complete" /\ \A d \in Call : d # c => call'[d] = call[d]
    BY <1>2, Moves DEF PairingInv, Consume, Step
  <2>2. Kept(c)' /\ \A d \in Call : /\ Kept(d) => Kept(d)'
                                    /\ call'[d].at \in Rowed => client'[d] # None
    BY <1>1, <2>1, CallKept DEF PairingInv, Rowed, Past
  <2>3. \A w \in Window : window'[w] = window[w] \/ window'[w].by = c
    BY <1>1, <1>2 DEF Consume, PairingInv, Types
  <2>4. \A w \in Window : window'[w].by = c => window'[w].by \in Call /\ Kept(window[w].by)'
    BY <2>2
  <2>5. QED
    BY <1>1, <2>2, <2>3, <2>4, LastingStays
<1>3. CASE window[call[c].on].state # "open"
  <2>1. call'[c].at = "discard" /\ window' = window /\ \A d \in Call : d # c => call'[d] = call[d]
    BY <1>3, Moves DEF PairingInv, Consume, Step
  <2>2. QED
    BY <1>1, <2>1, CallKept, LastingStays DEF PairingInv, Rowed, Past
<1>4. QED
  BY <1>2, <1>3

\* sweep_pairing and open_pairing_request approve nothing.
LEMMA OpenLasts == ASSUME PairingInv, Lasting, NEW c \in Call, Sweep(c) \/ Insert(c) PROVE Lasting'
<1>1. UNCHANGED <<client, window, held>> /\ held \subseteq Call /\ call[c].at \in {"sweep", "insert"}
  BY DEF Sweep, Insert, At, outVars, PairingInv, Types
<1>2. call'[c].at \in {"insert", "done"} /\ \A d \in Call : d # c => call'[d] = call[d]
  BY Moves DEF PairingInv, Sweep, Insert, Step
<1>3. \A r \in Call : request'[r].state = "approved" => request'[r] = request[r]
  BY DEF Sweep, Insert, PairingInv, Types
<1>4. QED
  BY <1>1, <1>2, <1>3, CallKept, LastingStays DEF PairingInv, Early

\* A credential is handed out by a call whose row stays.
LEMMA GrantLasts == ASSUME PairingInv, Lasting, NEW c \in Call, Grant(c) PROVE Lasting'
<1>1. /\ UNCHANGED <<client, window, request>> /\ held \subseteq Call /\ call[c].at = "grant"
      /\ held' = held \cup {c}
  BY DEF Grant, At, rowVars, PairingInv, Types
<1>2. call'[c].at = "done" /\ \A d \in Call : d # c => call'[d] = call[d]
  BY Moves DEF PairingInv, Grant, Step
<1>3. Kept(c)' /\ \A d \in Call : /\ Kept(d) => Kept(d)'
                                  /\ call'[d].at \in Rowed => client'[d] # None
  BY <1>1, <1>2, CallKept DEF PairingInv, Rowed, Past
<1>4. QED
  BY <1>1, <1>3, LastingStays

\* A request that is decided is approved, and names the client minted for it.
LEMMA DecidedRequest ==
    ASSUME PairingInv, NEW c \in Call, Decide(c)
    PROVE  \A r \in Call : \/ request'[r] = request[r]
                           \/ request'[r].state = "approved" /\ request'[r].client = c
<1> DEFINE o == call[c].on
           q == [request[o] EXCEPT !.state = "approved", !.client = c]
<1>1. o \in Call
  BY DEF PairingInv, Fits, OnFits, Decide, At
<1>2. CASE request' = request
  BY <1>2
<1>3. CASE request' = [request EXCEPT ![o] = q]
  <2>1. q.state = "approved" /\ q.client = c
    BY <1>1 DEF PairingInv, Types
  <2>2. request = [r \in Call |-> request[r]]
    BY DEF PairingInv, Types
  <2> HIDE DEF q, o
  <2>3. QED
    BY <1>1, <1>3, <2>1, <2>2
<1>4. QED
  BY <1>2, <1>3 DEF Decide

\* approve_pairing: the request names the client of a call whose row stays, or that row goes.
LEMMA DecideLasts == ASSUME PairingInv, Lasting, NEW c \in Call, Decide(c) PROVE Lasting'
<1>1. UNCHANGED <<window, held>> /\ held \subseteq Call /\ call[c].at = "decide" /\ call[c].on \in Call
  BY DEF Decide, At, outVars, PairingInv, Types, Fits, OnFits
<1>2. CASE request[call[c].on].state \in Undecided
  <2>1. call'[c].at = "put" /\ client' = client /\ \A d \in Call : d # c => call'[d] = call[d]
    BY <1>2, Moves DEF PairingInv, Decide, Step
  <2>2. Kept(c)' /\ \A d \in Call : /\ Kept(d) => Kept(d)'
                                    /\ call'[d].at \in Rowed => client'[d] # None
    BY <1>1, <2>1, CallKept DEF PairingInv, Rowed, Past
  <2>3. \A r \in Call : request'[r] = request[r] \/ request'[r].client = c
    BY DecidedRequest
  <2>4. \A r \in Call : request'[r].client = c => request'[r].client \in Call /\ Kept(request[r].client)'
    BY <2>2
  <2>5. QED
    BY <1>1, <2>2, <2>3, <2>4, LastingStays
<1>3. CASE request[call[c].on].state \notin Undecided
  <2>1. /\ call'[c].at = "done" /\ request' = request /\ client' = [client EXCEPT ![c] = None]
        /\ \A d \in Call : d # c => call'[d] = call[d]
    BY <1>3, Moves DEF PairingInv, Decide, Step
  <2>2. QED
    BY <1>1, <2>1, CallKept, LastingStays DEF PairingInv, Rowed, Past
<1>4. QED
  BY <1>2, <1>3

\* poll_pair: the credential that waits is that of the client the request names.
LEMMA PollLasts == ASSUME PairingInv, Lasting, NEW r \in Call, Poll(r) \/ PollLost(r) PROVE Lasting'
<1>1. UNCHANGED <<client, call, window, request>> /\ held \subseteq Call /\ held' \subseteq held \cup {tokens[r]}
  BY DEF Poll, PollLost, rowVars, PairingInv, Types
<1>2. tokens[r] \in Call /\ request[r].state = "approved"
  BY DEF Poll, PollLost, PairingInv, Types
<1>3. request[r].client = tokens[r]
  BY <1>2 DEF PairingInv, Backed, Claim
<1>4. Kept(tokens[r])
  BY <1>2, <1>3 DEF Lasting
<1>5. \A d \in Call : (Kept(d) => Kept(d)') /\ (call'[d].at \in Rowed => client'[d] # None)
  BY <1>1 DEF Kept, Lasting
<1>6. \A d \in held' : d \in held \/ Kept(d)'
  BY <1>1, <1>2, <1>4, <1>5
<1>7. QED
  BY <1>1, <1>5, <1>6, LastingStays

\* Beside the calls, rows are revoked and kept.
LEMMA AsideLasts ==
    ASSUME PairingInv, Lasting,
           \/ \E r \in Call : Age(r) \/ \E a \in Call : Deny(a, r)
           \/ \E x \in Call : Revoke(x)
           \/ \E w \in Window : OpenWindow(w) \/ WindowShuts(w)
           \/ HubId \/ ReadSetup \/ (\E k \in Code : WriteCode(k)) \/ MinutePasses \/ UNCHANGED vars
    PROVE  Lasting'
<1>1. call' = call /\ held' = held /\ held \subseteq Call
  BY DEF Age, Deny, Revoke, OpenWindow, WindowShuts, HubId, ReadSetup, WriteCode, MinutePasses, vars, rowVars,
         apiVars, outVars, PairingInv, Types
<1>2. \A d \in Call : client'[d] = None <=> client[d] = None
  BY DEF Age, Deny, Revoke, OpenWindow, WindowShuts, HubId, ReadSetup, WriteCode, MinutePasses, vars, rowVars,
         PairingInv, Types, None
<1>3. \A w \in Window : window'[w].state = "used" => window'[w] = window[w]
  BY DEF Age, Deny, Revoke, OpenWindow, WindowShuts, HubId, ReadSetup, WriteCode, MinutePasses, vars, rowVars,
         PairingInv, Types
<1>4. \A r \in Call : request'[r].state = "approved" => request'[r] = request[r]
  BY DEF Age, Deny, Revoke, OpenWindow, WindowShuts, HubId, ReadSetup, WriteCode, MinutePasses, vars, rowVars,
         PairingInv, Types
<1>5. \A d \in Call : (Kept(d) => Kept(d)') /\ (call'[d].at \in Rowed => client'[d] # None)
  BY <1>1, <1>2 DEF Kept, Lasting
<1>6. QED
  BY <1>1, <1>3, <1>4, <1>5, LastingStays

\* The API dies: its calls are over, and every row is as it was.
LEMMA DiesLasts == ASSUME PairingInv, Lasting, ApiDies PROVE Lasting'
<1>1. UNCHANGED <<client, window, request, held>> /\ held \subseteq Call
  BY DEF ApiDies, rowVars, PairingInv, Types
<1>2. Over.at = "done"
  BY DEF Over, Fresh
<1>3. \A d \in Call : call'[d].at = "done" \/ (call'[d] = call[d] /\ call[d].at \in {"free", "done"})
  BY <1>2 DEF ApiDies, InFlight
<1>4. \A d \in Call : (Kept(d) => Kept(d)') /\ (call'[d].at \in Rowed => client'[d] # None)
  BY <1>1, <1>3 DEF Kept, Past, Rowed
<1>5. QED
  BY <1>1, <1>4, LastingStays

\* open_pairing_request is the only step that adds to the digits in play.
LEMMA DigitsKeep == ASSUME PairingInv, DigitsApart, [Next]_vars PROVE DigitsApart'
<1>1. ASSUME NEW c \in Call, Insert(c) PROVE DigitsApart'
  <2> DEFINE inPlay == {request[r].digits : r \in {q \in Call : request[q].state \in Undecided}}
  <2>1. CASE request' = request
    BY <2>1, DigitsStay
  <2>2. ASSUME NEW d \in Digits \ inPlay,
               request' = [request EXCEPT ![c] = [state |-> "pending", digits |-> d, client |-> None]]
        PROVE  DigitsApart'
    <3>1. \A r \in Call : request[r].state \in Undecided => request[r].digits # d
      OBVIOUS
    <3>2. request'[c].digits = d /\ \A r \in Call : r # c => request'[r] = request[r]
      BY <2>2 DEF PairingInv, Types
    <3>3. QED
      BY <3>1, <3>2 DEF DigitsApart
  <2>3. QED
    BY <1>1, <2>1, <2>2 DEF Insert
<1>2. ASSUME NEW c \in Call, Sweep(c) PROVE DigitsApart'
  BY <1>2, DigitsStay DEF Sweep, Undecided
<1>3. ASSUME NEW c \in Call, Decide(c) PROVE DigitsApart'
  <2>1. \A r \in Call : request'[r] = request[r] \/ request'[r].state = "approved"
    BY <1>3, DecidedRequest
  <2>2. QED
    BY <2>1, DigitsStay DEF Undecided, None
<1>4. ASSUME NEW r \in Call, Age(r) PROVE DigitsApart'
  <2>1. /\ request[r].state \in Undecided
        /\ \A q \in Call : request'[q].digits = request[q].digits /\ (q # r => request'[q] = request[q])
    BY <1>4 DEF Age, Undecided, PairingInv, Types
  <2>2. QED
    BY <2>1, DigitsStay
<1>5. ASSUME NEW r \in Call, NEW a \in Call, Deny(a, r) PROVE DigitsApart'
  <2>1. \A q \in Call : request'[q] = request[q] \/ request'[q].state = "denied"
    BY <1>5 DEF Deny, PairingInv, Types
  <2>2. QED
    BY <2>1, DigitsStay DEF Undecided, None
<1>6. CASE request' = request
  BY <1>6, DigitsStay
<1>7. QED
  BY <1>1, <1>2, <1>3, <1>4, <1>5, <1>6
  DEF Next, Pair, PairWithCode, Mint, Latch, Discard, FindWindow, Consume, Count, First, Complete, Active,
      Grant, GrantLost, Approve, Ask, Put, After, Poll, PollLost, Revoke, OpenWindow, WindowShuts, HubId,
      ReadSetup, WriteCode, MinutePasses, ApiDies, vars, rowVars

\* The throttle, the CLI, what is lost and the number of faults stay within their bounds.
LEMMA CountedKeep == ASSUME PairingInv, Counted, [Next]_vars PROVE Counted'
<1>1. Limit \in Nat /\ MaxFaults \in Nat
  BY PairingAssumption
<1>2. ASSUME NEW c \in Call, NEW k \in Code, PairWithCode(c, k) PROVE Counted'
  BY <1>1, <1>2 DEF PairWithCode, Counted, outVars
<1>3. CASE MinutePasses
  BY <1>1, <1>3 DEF MinutePasses, Counted, outVars
<1>4. ASSUME NEW c \in Call, GrantLost(c) PROVE Counted'
  BY <1>1, <1>4 DEF GrantLost, Fault, Counted, apiVars
<1>5. ASSUME NEW r \in Call, PollLost(r) PROVE Counted'
  <2>1. tokens[r] \in Call
    BY <1>5 DEF PollLost, PairingInv, Types
  <2>2. QED
    BY <1>1, <1>5, <2>1 DEF PollLost, Fault, Counted
<1>6. CASE ApiDies
  <2>1. {tokens[r] : r \in {q \in Call : tokens[q] # None}} \subseteq Call
    BY DEF PairingInv, Types
  <2>2. strayed' \subseteq Call
    BY <1>6, <2>1 DEF ApiDies, Counted
  <2>3. failures' = 0 /\ minting' = minting /\ faults < MaxFaults /\ faults' = faults + 1
    BY <1>6 DEF ApiDies, Fault
  <2>4. QED
    BY <1>1, <2>2, <2>3 DEF Counted
<1>7. CASE ReadSetup
  BY <1>7 DEF ReadSetup, Counted, outVars
<1>8. ASSUME NEW k \in Code, WriteCode(k) PROVE Counted'
  BY <1>8 DEF WriteCode, Counted, outVars
<1>9. CASE UNCHANGED <<failures, minting, strayed, faults>>
  BY <1>9 DEF Counted
<1>10. QED
  BY <1>2, <1>3, <1>4, <1>5, <1>6, <1>7, <1>8, <1>9
  DEF Next, Pair, Mint, Latch, Discard, FindWindow, Consume, Count, First, Complete, Active, Sweep, Insert,
      Grant, Approve, Ask, Decide, Put, After, Poll, Age, Deny, Revoke, OpenWindow, WindowShuts, HubId,
      vars, apiVars, outVars

\* Every variable has its type; a window that was used and a request that was approved name a
\* client whose row is there for good, and no two undecided requests show the same digits
\* (models.py, PairingRequest; store.py, consume_window, approve_pairing, open_pairing_request).
THEOREM PairingTypes == Spec => []PairingTypeOK
<1>1. Init => Lasting /\ DigitsApart /\ Counted
  <2> SUFFICES ASSUME Init PROVE Lasting /\ DigitsApart /\ Counted
    OBVIOUS
  <2>1. /\ \A c \in Call : call[c].at = "free" /\ request[c].state = None
        /\ \A w \in Window : window[w].state = None
        /\ held = {}
    BY DEF Init, Fresh, NoRequest
  <2>2. Lasting
    BY <2>1 DEF Lasting, Rowed, None
  <2>3. DigitsApart
    BY <2>1 DEF DigitsApart, Undecided, None
  <2>4. Counted
    <3>1. 0 \in 0..Limit /\ 0 \in 0..MaxFaults
      BY PairingAssumption
    <3>2. minting \in BOOLEAN
      BY DEF Init
    <3>3. QED
      BY <3>1, <3>2 DEF Init, Counted
  <2>5. QED
    BY <2>2, <2>3, <2>4
<1>2. PairingInv /\ Lasting /\ [Next]_vars => Lasting'
  <2> SUFFICES ASSUME PairingInv, Lasting, [Next]_vars PROVE Lasting'
    OBVIOUS
  <2>1. QED
    BY CallLasts, BeginsLasts, FirstLasts, ConsumeLasts, OpenLasts, GrantLasts, DecideLasts, PollLasts,
       AsideLasts, DiesLasts DEF Next
<1>3. PairingInv /\ DigitsApart /\ [Next]_vars => DigitsApart'
  BY DigitsKeep
<1>4. PairingInv /\ Counted /\ [Next]_vars => Counted'
  BY CountedKeep
<1>5. PairingInv /\ Lasting /\ DigitsApart /\ Counted => PairingTypeOK
  <2> SUFFICES ASSUME PairingInv, Lasting, DigitsApart, Counted PROVE PairingTypeOK
    OBVIOUS
  <2>1. held \subseteq Ever
    BY DEF PairingInv, Types, Lasting, Kept, Ever
  <2>2. \A w \in Window : window[w].state = "used" => client[window[w].by] # None
    BY DEF Lasting, Kept
  <2>3. \A r \in Call : request[r].state = "approved" => client[request[r].client] # None
    BY DEF Lasting, Kept
  <2>4. QED
    BY <2>1, <2>2, <2>3 DEF PairingInv, Types, CallType, DigitsApart, Counted, PairingTypeOK
<1>6. QED
  BY <1>1, <1>2, <1>3, <1>4, <1>5, Claims, PTL DEF Spec
=============================================================================
