-------------------------- MODULE LightLineProofs --------------------------
(***************************************************************************)
(* Proofs about LightLine: its types, and that in an undisturbed broker's  *)
(* life what the engine remembers of a channel is what is on the pin when  *)
(* nothing is on its way.  The invariant follows the two directions of the *)
(* wire: what the engine believes, or will believe once it has read its    *)
(* news, is what the pin shows once the queue has been consumed, for every *)
(* channel none of whose commands was refused or thrown back.              *)
(***************************************************************************)
EXTENDS LightLine, SchedulerProofs, FiniteSetTheorems, TLAPS

-----------------------------------------------------------------------------
(* The inductive invariant.                                                *)

State(c) == [kind |-> "state", channel |-> c]
Ack(c) == [kind |-> "ack", channel |-> c]

\* A pass plans at most one intent for a channel.
OneIntent == \A c \in Channel : \A a, b \in plan[c] : a = b

\* An engine that is down remembers nothing, plans nothing and hears nothing.
Asleep ==
    engine = "down" =>
       /\ \A c \in Channel : ~memory[c].known
       /\ plan = NoPlan /\ acking = {} /\ ~engConn

\* A PubAck is awaited by the pass that published, for an intent it still plans.
Awaited ==
    /\ acking # {} => engine = "ticking"
    /\ \A c \in acking : plan[c] # {}
    /\ \A i \in DOMAIN news : news[i].kind = "ack" => acking = {news[i].channel}
    /\ \A i, j \in DOMAIN news : news[i].kind = "ack" /\ news[j].kind = "ack" => i = j

\* While the broker has not gone away, whoever runs is connected.
Joined == outages = 0 => (engConn <=> engine # "down") /\ (hwConn <=> hwUp)

\* The PubAck on its way to the engine is not followed by a state of its channel.
AckStands(c) ==
    \E i \in DOMAIN news :
       /\ news[i] = Ack(c)
       /\ \A j \in DOMAIN news : j > i => news[j] # State(c)

\* The engine will take the channel to be at d once it has read its news.
Believes(c, d) ==
    \/ AckStands(c) /\ \E intent \in plan[c] : intent.duty = d
    \/ /\ memory[c].known /\ memory[c].duty = d
       /\ \A i \in DOMAIN news : news[i].channel # c

\* The pin will be at what the floor makes of d once hardware-io has consumed the queue,
\* if it refuses nothing.
Comes(c, d) ==
    \/ \E i \in DOMAIN queue :
          /\ queue[i].channel = c /\ queue[i].duty = d
          /\ \A j \in DOMAIN queue : j > i => queue[j].channel # c
    \/ pin[c] = Snap(d) /\ \A i \in DOMAIN queue : queue[i].channel # c

\* A command that comes back is of a channel that counts as spurned.
Returning == \A q \in deferred : q.channel \in spurned

\* What the engine believes comes true, unless it was spurned.
Truthful ==
    outages = 0 /\ hwUp =>
       \A c \in Channel \ spurned, d \in Duty : Believes(c, d) => Comes(c, d)

LineInv ==
    LineTypeOK /\ OneIntent /\ Asleep /\ Awaited /\ Joined /\ Returning /\ Truthful

-----------------------------------------------------------------------------
(* Lemmas.                                                                 *)

\* SetToSeq lists a finite set: a sequence of its elements that has them all.
LEMMA Listing ==
    ASSUME NEW S, IsFiniteSet(S)
    PROVE  /\ SetToSeq(S) \in Seq(S)
           /\ \A x \in S : \E i \in DOMAIN SetToSeq(S) : SetToSeq(S)[i] = x
<1> DEFINE n == Cardinality(S)
           f == SetToSeq(S)
<1>1. n \in Nat /\ ExistsBijection(1..n, S)
  BY FS_CardinalityType
<1>2. \E g \in [1..n -> S] : IsInjective(g)
  BY <1>1 DEF ExistsBijection, Bijection, Injection
<1>3. f \in [1..n -> S] /\ IsInjective(f)
  BY <1>2 DEF SetToSeq
<1>4. f \in Injection(1..n, S)
  BY <1>3 DEF Injection
<1>5. Cardinality(1..n) = n
  BY <1>1, FS_Interval
<1>6. f \in Surjection(1..n, S)
  BY <1>4, <1>5, FS_Injection
<1>7. f \in Seq(S)
  BY <1>1, <1>3
<1>8. DOMAIN f = 1..n
  BY <1>3
<1>9. \A x \in S : \E i \in 1..n : f[i] = x
  BY <1>6 DEF Surjection
<1> HIDE DEF f
<1>10. QED
  BY <1>7, <1>8, <1>9 DEF f

\* The states of some channels are finitely many.
LEMMA StatesFinite ==
    ASSUME NEW cs \in SUBSET Channel
    PROVE  IsFiniteSet([kind : {"state"}, channel : cs])
<1> DEFINE T == [kind : {"state"}, channel : cs]
           f == [c \in cs |-> State(c)]
<1>1. IsFiniteSet(cs)
  BY LightLineAssumption, FS_Subset
<1>2. f \in [cs -> T]
  BY DEF State
<1>3. \A t \in T : t.channel \in cs /\ t = State(t.channel)
  BY DEF State
<1>4. \A t \in T : \E c \in cs : f[c] = t
  BY <1>3
<1>5. f \in Surjection(cs, T)
  BY <1>2, <1>4 DEF Surjection
<1>6. QED
  BY <1>1, <1>5, FS_Surjection

\* A state or a PubAck is one or the other.
LEMMA Kinds ==
    /\ \A m \in News : m.kind \in {"state", "ack"} /\ m.channel \in Channel
    /\ \A c \in Channel : /\ State(c) \in News /\ State(c).kind = "state"
                          /\ State(c).channel = c
                          /\ Ack(c) \in News /\ Ack(c).kind = "ack" /\ Ack(c).channel = c
BY DEF News, State, Ack

\* What a command, an intent and a cold memory are made of.
LEMMA Parts ==
    /\ \A q \in Command : /\ q.channel \in Channel /\ q.duty \in Duty
                           /\ q.ttl \in 0..CommandTtl /\ q.tries \in 1..MaxDeliver
    /\ \A d \in Duty : Snap(d) \in Duty
    /\ \A intent \in Intent : MarkEmitted(intent, 0) \in Memory /\ intent.duty \in Duty
    /\ \A intent \in Intent : MarkEmitted(intent, 0).known
                              /\ MarkEmitted(intent, 0).duty = intent.duty
    /\ Cold \in Memory /\ ~Cold.known /\ SAFE_DUTY \in Duty
<1>1. SAFE_DUTY \in Duty /\ 0 \in 0..MaxAge
  BY SchedulerAssumption DEF SAFE_DUTY, Duty
<1>2. Cold \in Memory /\ ~Cold.known
  BY <1>1 DEF Cold, Memory
<1>3. \A q \in Command : /\ q.channel \in Channel /\ q.duty \in Duty
                           /\ q.ttl \in 0..CommandTtl /\ q.tries \in 1..MaxDeliver
  BY DEF Command
<1>4. \A intent \in Intent : MarkEmitted(intent, 0) \in Memory /\ intent.duty \in Duty
  BY <1>1 DEF Intent, MarkEmitted, Memory
<1>5. \A intent \in Intent : MarkEmitted(intent, 0).known
                             /\ MarkEmitted(intent, 0).duty = intent.duty
  BY DEF MarkEmitted
<1>6. \A d \in Duty : Snap(d) \in Duty
  BY <1>1 DEF Snap
<1>7. QED
  BY <1>1, <1>2, <1>3, <1>4, <1>5, <1>6

\* The rest of a sequence: what is behind its head, one place further on.
LEMMA Behind ==
    ASSUME NEW T, NEW s \in Seq(T), s # <<>>
    PROVE  /\ Head(s) \in T /\ 1 \in DOMAIN s /\ Head(s) = s[1]
           /\ Tail(s) \in Seq(T) /\ DOMAIN Tail(s) = 1..(Len(s) - 1)
           /\ \A i \in DOMAIN Tail(s) : i + 1 \in DOMAIN s /\ Tail(s)[i] = s[i + 1]
           /\ \A i \in DOMAIN s : i # 1 => i - 1 \in DOMAIN Tail(s) /\ Tail(s)[i - 1] = s[i]
           /\ DOMAIN s \subseteq Int /\ DOMAIN Tail(s) \subseteq Int
<1>1. Len(s) \in Nat /\ Len(s) > 0 /\ DOMAIN s = 1..Len(s)
  OBVIOUS
<1>2. Tail(s) \in Seq(T) /\ DOMAIN Tail(s) = 1..(Len(s) - 1) /\ Head(s) = s[1]
  BY <1>1
<1>3. \A i \in 1..(Len(s) - 1) : Tail(s)[i] = s[i + 1]
  BY <1>1
<1>4. \A i \in DOMAIN Tail(s) : i + 1 \in DOMAIN s /\ Tail(s)[i] = s[i + 1]
  BY <1>1, <1>2, <1>3
<1>5. ASSUME NEW i \in DOMAIN s, i # 1
      PROVE  i - 1 \in DOMAIN Tail(s) /\ Tail(s)[i - 1] = s[i]
  <2>1. i - 1 \in 1..(Len(s) - 1) /\ (i - 1) + 1 = i
    BY <1>1, <1>5
  <2>2. QED
    BY <2>1, <1>2, <1>3
<1>6. DOMAIN s \subseteq Int /\ DOMAIN Tail(s) \subseteq Int
  BY <1>1, <1>2
<1>7. 1 \in DOMAIN s /\ Head(s) \in T
  BY <1>1, <1>2
<1>8. QED
  BY <1>2, <1>4, <1>5, <1>6, <1>7

\* A sequence with one more element at its end.
LEMMA Extended ==
    ASSUME NEW T, NEW s \in Seq(T), NEW x \in T
    PROVE  /\ Append(s, x) \in Seq(T) /\ Append(s, x) # <<>>
           /\ DOMAIN s = 1..Len(s) /\ Len(s) \in Nat
           /\ DOMAIN Append(s, x) = 1..(Len(s) + 1)
           /\ \A i \in DOMAIN s : Append(s, x)[i] = s[i]
           /\ Append(s, x)[Len(s) + 1] = x
OBVIOUS

\* Announce puts states behind the news of a connected engine, one for every channel
\* it is about, and leaves the others' alone.
LEMMA Announced ==
    ASSUME LineTypeOK, NEW cs \in SUBSET Channel, Announce(cs)
    PROVE  /\ news' \in Seq(News) /\ (news' # <<>> => engConn)
           /\ ~engConn => news' = news /\ news = <<>>
           /\ DOMAIN news = 1..Len(news) /\ Len(news) \in Nat
           /\ DOMAIN news' \subseteq Nat /\ DOMAIN news \subseteq DOMAIN news'
           /\ \A i \in DOMAIN news : news'[i] = news[i]
           /\ \A i \in DOMAIN news' \ DOMAIN news :
                 i > Len(news) /\ \E c \in cs : news'[i] = State(c)
           /\ engConn => \A c \in cs : \E i \in DOMAIN news' :
                            i > Len(news) /\ news'[i] = State(c)
<1> DEFINE S == [kind : {"state"}, channel : cs]
           t == SetToSeq(S)
<1>1. news \in Seq(News) /\ (news # <<>> => engConn) /\ engConn \in BOOLEAN
  BY DEF LineTypeOK
<1>2. DOMAIN news = 1..Len(news) /\ Len(news) \in Nat
  BY <1>1
<1>3. CASE ~engConn
  BY <1>1, <1>2, <1>3 DEF Announce
<1>4. CASE engConn
  <2>1. t \in Seq(S) /\ \A x \in S : \E i \in DOMAIN t : t[i] = x
    BY StatesFinite, Listing
  <2>2. S \subseteq News /\ \A x \in S : \E c \in cs : x = State(c)
    <3>1. \A x \in S : x.kind = "state" /\ x.channel \in cs /\ x = State(x.channel)
      BY DEF State
    <3>2. S \subseteq News
      BY DEF News
    <3>3. QED
      BY <3>1, <3>2
  <2>3. \A c \in cs : State(c) \in S
    BY DEF State
  <2>4. news' = news \o t
    BY <1>4 DEF Announce
  <2> HIDE DEF S, t
  <2>5. t \in Seq(News)
    <3>1. Len(t) \in Nat /\ DOMAIN t = 1..Len(t) /\ t \in [1..Len(t) -> S]
      BY <2>1
    <3>2. t \in [1..Len(t) -> News]
      BY <3>1, <2>2
    <3>3. QED
      BY <3>1, <3>2
  <2>6. /\ news' \in Seq(News) /\ DOMAIN news' = 1..(Len(news) + Len(t))
        /\ DOMAIN t = 1..Len(t) /\ Len(t) \in Nat
        /\ \A i \in 1..Len(news) : news'[i] = news[i]
        /\ \A i \in 1..Len(t) : news'[Len(news) + i] = t[i]
    BY <1>1, <2>4, <2>5
  <2>7. ASSUME NEW i \in DOMAIN news' \ DOMAIN news
        PROVE  i > Len(news) /\ \E c \in cs : news'[i] = State(c)
    <3>1. i > Len(news) /\ i - Len(news) \in 1..Len(t) /\ Len(news) + (i - Len(news)) = i
      BY <2>6, <1>2
    <3>2. news'[i] = t[i - Len(news)]
      BY <3>1, <2>6
    <3>3. t[i - Len(news)] \in S
      BY <3>1, <2>1
    <3>4. QED
      BY <3>1, <3>2, <3>3, <2>2
  <2>8. ASSUME NEW c \in cs
        PROVE  \E i \in DOMAIN news' : i > Len(news) /\ news'[i] = State(c)
    <3>1. PICK k \in 1..Len(t) : t[k] = State(c)
      BY <2>1, <2>3, <2>6
    <3>2. Len(news) + k \in DOMAIN news' /\ Len(news) + k > Len(news)
      BY <2>6, <1>2
    <3>3. QED
      BY <3>1, <3>2, <2>6
  <2>9. DOMAIN news' \subseteq Nat /\ DOMAIN news \subseteq DOMAIN news'
    BY <2>6, <1>2
  <2>10. QED
    BY <1>2, <1>4, <2>6, <2>7, <2>8, <2>9
<1>5. QED
  BY <1>1, <1>3, <1>4

\* Announcing leaves the awaited PubAck where it is.
LEMMA AnnounceAwaited ==
    ASSUME LineInv, NEW cs \in SUBSET Channel, Announce(cs), UNCHANGED engineVars
    PROVE  Awaited'
<1>1. /\ \A i \in DOMAIN news : news'[i] = news[i]
      /\ \A i \in DOMAIN news' \ DOMAIN news : \E c \in cs : news'[i] = State(c)
  BY Announced DEF LineInv
<1>2. ASSUME NEW i \in DOMAIN news', news'[i].kind = "ack"
      PROVE  i \in DOMAIN news /\ news[i] = news'[i]
  BY <1>1, <1>2, Kinds
<1>3. QED
  BY <1>2 DEF LineInv, Awaited, engineVars

\* Once a channel's state is announced the engine believes nothing of it.
LEMMA AnnounceSilences ==
    ASSUME LineInv, NEW cs \in SUBSET Channel, Announce(cs), UNCHANGED memory, outages = 0,
           NEW c \in cs, NEW d \in Duty
    PROVE  ~Believes(c, d)'
<1>1. CASE engConn
  <2>1. /\ DOMAIN news = 1..Len(news) /\ Len(news) \in Nat /\ DOMAIN news' \subseteq Nat
        /\ \A i \in DOMAIN news' \ DOMAIN news : \E e \in cs : news'[i] = State(e)
    BY Announced DEF LineInv
  <2>2. PICK j \in DOMAIN news' : j > Len(news) /\ news'[j] = State(c)
    BY <1>1, Announced DEF LineInv
  <2>3. news'[j].channel = c
    BY <2>2, Kinds
  <2>4. ASSUME NEW i \in DOMAIN news', news'[i] = Ack(c)
        PROVE  j > i
    <3>1. i \in DOMAIN news
      BY <2>1, <2>4, Kinds
    <3>2. QED
      BY <3>1, <2>1, <2>2
  <2>5. QED
    BY <2>2, <2>3, <2>4 DEF Believes, AckStands
<1>2. CASE ~engConn
  <2>1. news' = <<>> /\ engine = "down"
    BY <1>2, Announced DEF LineInv, Joined
  <2>2. ~memory'[c].known
    BY <2>1 DEF LineInv, Asleep
  <2>3. DOMAIN news' = {}
    BY <2>1
  <2>4. QED
    BY <2>2, <2>3 DEF Believes, AckStands
<1>3. QED
  BY <1>1, <1>2 DEF LineInv, LineTypeOK

\* An announcement leaves what the engine believes of the other channels.
LEMMA AnnounceOthers ==
    ASSUME LineInv, NEW cs \in SUBSET Channel, Announce(cs), UNCHANGED <<memory, plan>>,
           NEW e \in Channel, e \notin cs, NEW d \in Duty, Believes(e, d)'
    PROVE  Believes(e, d)
<1>1. /\ DOMAIN news \subseteq DOMAIN news' /\ \A i \in DOMAIN news : news'[i] = news[i]
      /\ \A i \in DOMAIN news' \ DOMAIN news : \E c \in cs : news'[i] = State(c)
  BY Announced DEF LineInv
<1>2. ASSUME NEW i \in DOMAIN news', news'[i] = Ack(e)
      PROVE  i \in DOMAIN news
  BY <1>1, <1>2, Kinds
<1>3. AckStands(e)' => AckStands(e)
  BY <1>1, <1>2 DEF AckStands
<1>4. QED
  BY <1>1, <1>3 DEF Believes

\* Nothing that the engine believes, and nothing on its way to a pin, has changed.
LEMMA Undisturbed ==
    ASSUME LineInv, UNCHANGED <<plan, commandVars, pin, news>>, outages' = 0 => outages = 0,
           hwUp' => hwUp,
           \A c \in Channel : memory'[c].known =>
                                memory[c].known /\ memory'[c].duty = memory[c].duty
    PROVE  Truthful' /\ Returning'
<1> USE DEF commandVars
<1>1. ASSUME NEW c \in Channel, NEW d \in Duty, Believes(c, d)'
      PROVE  Believes(c, d)
  BY <1>1 DEF Believes, AckStands
<1>2. ASSUME NEW c \in Channel, NEW d \in Duty, Comes(c, d)
      PROVE  Comes(c, d)'
  BY <1>2 DEF Comes
<1>3. Returning'
  BY DEF LineInv, Returning
<1>4. QED
  BY <1>1, <1>2, <1>3 DEF LineInv, Truthful

\* A fault is counted within the bound.
LEMMA MishapBounds ==
    LineTypeOK /\ Mishap => outages' \in 0..MaxFaults /\ mishaps' \in 0..MaxFaults
BY LightLineAssumption DEF LineTypeOK, Mishap, FaultsLeft

-----------------------------------------------------------------------------
(* The steps of the engine.                                                *)

LEMMA LineInitInv == LineInit => LineInv
<1> SUFFICES ASSUME LineInit PROVE LineInv
  OBVIOUS
<1> USE DEF LineInit
<1>1. SchedulerTypeOK
  BY SchedulerInitInv DEF SchedulerInv
<1>2. LineTypeOK
  <2>1. plan \in [Channel -> SUBSET Intent]
    BY DEF NoPlan
  <2>2. pin \in [Channel -> Duty]
    BY Parts
  <2>3. hbLeft \in -1..HeartbeatTimeout /\ outages \in 0..MaxFaults /\ mishaps \in 0..MaxFaults
    BY LightLineAssumption
  <2>4. news \in Seq(News) /\ queue \in Seq(Command)
    OBVIOUS
  <2>5. QED
    BY <1>1, <2>1, <2>2, <2>3, <2>4 DEF LineTypeOK
<1>3. \A c \in Channel : ~memory[c].known
  BY Parts DEF Init
<1>4. DOMAIN news = {} /\ engine # "down"
  OBVIOUS
<1>5. OneIntent /\ Asleep /\ Awaited /\ Joined /\ Returning
  BY <1>4 DEF OneIntent, Asleep, Awaited, Joined, Returning, NoPlan
<1>6. Truthful
  BY <1>3, <1>4 DEF Truthful, Believes, AckStands
<1>7. QED
  BY <1>2, <1>5, <1>6 DEF LineInv

\* A pass plans what is due: one intent for a channel at most.
LEMMA PassInv == LineInv /\ Pass => LineInv'
<1> SUFFICES ASSUME LineInv, Pass PROVE LineInv'
  OBVIOUS
<1> USE DEF Pass, schedulerVars, wireVars, commandVars, faultVars
<1>1. ASSUME NEW c \in Channel
      PROVE  DueFor(c) \subseteq Intent /\ \A a, b \in DueFor(c) : a = b
  <2>1. DueFor(c) \subseteq Intent
    BY DueBounds DEF LineInv, LineTypeOK
  <2>2. \A a, b \in DueFor(c) : a = b
    BY DEF DueFor, EmitFor
  <2>3. QED
    BY <2>1, <2>2
<1>2. /\ plan' \in [Channel -> SUBSET Intent]
      /\ \A c \in Channel : plan'[c] = DueFor(c) \/ plan'[c] = plan[c]
  BY <1>1 DEF LineInv, LineTypeOK
<1>3. hbLeft' \in -1..HeartbeatTimeout
  BY LightLineAssumption DEF LineInv, LineTypeOK
<1>4. SchedulerTypeOK'
  BY DEF LineInv, LineTypeOK, SchedulerTypeOK
<1>5. LineTypeOK'
  BY <1>2, <1>3, <1>4 DEF LineInv, LineTypeOK
<1>6. OneIntent' /\ Asleep' /\ Joined'
  <2>1. OneIntent'
    BY <1>1, <1>2 DEF OneIntent, LineInv
  <2>2. QED
    BY <2>1 DEF Asleep, Joined, LineInv
<1>7. acking = {} /\ \A i \in DOMAIN news : news[i].kind # "ack"
  BY DEF LineInv, Awaited
<1>8. Awaited' /\ Returning'
  BY <1>7 DEF Awaited, Returning, LineInv
<1>9. ASSUME NEW c \in Channel, NEW d \in Duty, Believes(c, d)'
      PROVE  Believes(c, d)
  <2>1. ~AckStands(c)'
    BY <1>7, <1>9, Kinds DEF AckStands
  <2>2. QED
    BY <1>9, <2>1 DEF Believes
<1>10. ASSUME NEW c \in Channel, NEW d \in Duty, Comes(c, d)
       PROVE  Comes(c, d)'
  BY <1>10 DEF Comes
<1>11. Truthful'
  BY <1>9, <1>10 DEF Truthful, LineInv
<1>12. QED
  BY <1>5, <1>6, <1>8, <1>11 DEF LineInv

\* A published command is the last of its channel on the queue, and its PubAck the
\* last of its channel's news.
LEMMA PublishInv == ASSUME NEW c \in Channel PROVE LineInv /\ Publish(c) => LineInv'
<1> SUFFICES ASSUME LineInv, Publish(c) PROVE LineInv'
  OBVIOUS
<1> USE DEF Publish, hardwareVars, faultVars
<1>1. ASSUME ~engConn, plan' = [plan EXCEPT ![c] = {}], missed' = missed \cup {c},
             UNCHANGED <<queue, spurned, acking, news>>
      PROVE  LineInv'
  <2>1. plan' \in [Channel -> SUBSET Intent] /\ missed' \subseteq Channel
    BY <1>1 DEF LineInv, LineTypeOK, SchedulerTypeOK
  <2>2. SchedulerTypeOK'
    BY <2>1 DEF LineInv, LineTypeOK, SchedulerTypeOK
  <2>3. LineTypeOK'
    BY <1>1, <2>1, <2>2 DEF LineInv, LineTypeOK
  <2>4. \A e \in Channel : plan'[e] = IF e = c THEN {} ELSE plan[e]
    BY <1>1 DEF LineInv, LineTypeOK
  <2>5. OneIntent' /\ Asleep' /\ Joined'
    BY <1>1, <2>4 DEF OneIntent, Asleep, Joined, LineInv
  <2>6. Awaited' /\ Returning'
    BY <1>1 DEF Awaited, Returning, LineInv
  <2>7. outages # 0
    BY <1>1 DEF LineInv, Joined
  <2>8. Truthful'
    BY <2>7 DEF Truthful
  <2>9. QED
    BY <2>3, <2>5, <2>6, <2>8 DEF LineInv
<1>2. ASSUME engConn, NEW intent \in plan[c],
             queue' = Append(queue, [channel |-> c, duty |-> intent.duty,
                                     ttl |-> CommandTtl, tries |-> MaxDeliver]),
             spurned' = IF Underway(c) THEN spurned ELSE spurned \ {c},
             acking' = {c}, news' = Append(news, [kind |-> "ack", channel |-> c]),
             UNCHANGED <<plan, missed>>
      PROVE  LineInv'
  <2> DEFINE q == [channel |-> c, duty |-> intent.duty, ttl |-> CommandTtl,
                   tries |-> MaxDeliver]
  <2>1. intent \in Intent /\ news \in Seq(News) /\ queue \in Seq(Command) /\ plan[c] # {}
    BY DEF LineInv, LineTypeOK
  <2>2. q \in Command /\ q.channel = c /\ q.duty = intent.duty
    BY <2>1, Parts, LightLineAssumption DEF Command
  <2>3. queue' = Append(queue, q) /\ news' = Append(news, Ack(c))
    BY <1>2 DEF Ack
  <2> HIDE DEF q
  <2>4. /\ queue' \in Seq(Command) /\ DOMAIN queue = 1..Len(queue) /\ Len(queue) \in Nat
        /\ DOMAIN queue' = 1..(Len(queue) + 1) /\ queue'[Len(queue) + 1] = q
        /\ \A i \in DOMAIN queue : queue'[i] = queue[i]
    BY <2>1, <2>2, <2>3, Extended
  <2>5. /\ news' \in Seq(News) /\ DOMAIN news = 1..Len(news) /\ Len(news) \in Nat
        /\ DOMAIN news' = 1..(Len(news) + 1) /\ news'[Len(news) + 1] = Ack(c)
        /\ \A i \in DOMAIN news : news'[i] = news[i]
    BY <2>1, <2>3, Extended, Kinds
  <2>6. SchedulerTypeOK'
    BY <1>2 DEF LineInv, LineTypeOK, SchedulerTypeOK
  <2>7. /\ spurned' \subseteq Channel
        /\ \A e \in Channel \ spurned' : e \in Channel \ spurned \/ e = c
        /\ c \in spurned \ spurned' => \A p \in deferred : p.channel # c
    <3>1. spurned \subseteq Channel
      BY DEF LineInv, LineTypeOK
    <3>2. CASE Underway(c)
      BY <1>2, <3>1, <3>2
    <3>3. CASE ~Underway(c)
      <4>1. spurned' = spurned \ {c} /\ \A p \in deferred : p.channel # c
        BY <1>2, <3>3 DEF Underway
      <4>2. QED
        BY <3>1, <4>1
    <3>4. QED
      BY <3>2, <3>3
  <2>15. LineTypeOK'
    BY <1>2, <2>4, <2>5, <2>6, <2>7 DEF LineInv, LineTypeOK
  <2>16. Returning'
    <3>1. \A e \in Channel : e \in spurned => e \in spurned' \/ (e = c /\ e \notin spurned')
      BY <1>2
    <3>2. \A p \in deferred : p.channel \in Channel
      BY Parts DEF LineInv, LineTypeOK
    <3>3. QED
      BY <2>7, <3>1, <3>2 DEF LineInv, Returning
  <2>8. OneIntent' /\ Asleep' /\ Joined'
    BY <1>2 DEF OneIntent, Asleep, Joined, LineInv
  <2>9. \A i \in DOMAIN news : news[i].kind # "ack"
    BY DEF LineInv, Awaited
  <2>10. ASSUME NEW i \in DOMAIN news', news'[i].kind = "ack" PROVE i = Len(news) + 1
    BY <2>5, <2>9, <2>10
  <2>11. Awaited'
    BY <1>2, <2>1, <2>5, <2>10, Kinds DEF Awaited
  <2>12. ASSUME NEW e \in Channel \ spurned', NEW d \in Duty, Believes(e, d)',
                outages = 0, hwUp
         PROVE  Comes(e, d)'
    <3>1. CASE e = c
      <4>1. Len(news) + 1 \in DOMAIN news' /\ news'[Len(news) + 1].channel = c
        BY <2>5, Kinds
      <4>2. \E a \in plan[c] : a.duty = d
        BY <1>2, <2>12, <3>1, <4>1 DEF Believes
      <4>3. d = intent.duty
        BY <4>2 DEF LineInv, OneIntent
      <4>4. Len(queue) + 1 \in DOMAIN queue'
            /\ \A j \in DOMAIN queue' : ~(j > Len(queue) + 1)
        BY <2>4
      <4>5. QED
        BY <2>2, <2>4, <3>1, <4>3, <4>4 DEF Comes
    <3>2. CASE e # c
      <4>1. news'[Len(news) + 1] # Ack(e)
        BY <2>5, <3>2, Kinds
      <4>2. ASSUME NEW i \in DOMAIN news', news'[i] = Ack(e) PROVE i \in DOMAIN news
        BY <2>5, <4>1, <4>2
      <4>3. AckStands(e)' => AckStands(e)
        <5>1. DOMAIN news \subseteq DOMAIN news'
          BY <2>5
        <5>2. QED
          BY <2>5, <4>2, <5>1 DEF AckStands
      <4>4. Believes(e, d)
        <5>1. DOMAIN news \subseteq DOMAIN news'
          BY <2>5
        <5>2. QED
          BY <1>2, <2>5, <2>12, <4>3, <5>1 DEF Believes
      <4>5. Comes(e, d)
        BY <2>7, <2>12, <3>2, <4>4 DEF LineInv, Truthful
      <4>6. \A j \in DOMAIN queue' : j \in DOMAIN queue \/ j = Len(queue) + 1
        BY <2>4
      <4>7. queue'[Len(queue) + 1].channel # e /\ DOMAIN queue \subseteq DOMAIN queue'
        BY <2>2, <2>4, <3>2
      <4>8. CASE \E i \in DOMAIN queue :
                    /\ queue[i].channel = e /\ queue[i].duty = d
                    /\ \A j \in DOMAIN queue : j > i => queue[j].channel # e
        <5>1. PICK i \in DOMAIN queue :
                    /\ queue[i].channel = e /\ queue[i].duty = d
                    /\ \A j \in DOMAIN queue : j > i => queue[j].channel # e
          BY <4>8
        <5>2. i \in DOMAIN queue' /\ queue'[i] = queue[i]
          BY <2>4, <4>7
        <5>3. \A j \in DOMAIN queue' : j > i => queue'[j].channel # e
          BY <2>4, <4>6, <4>7, <5>1
        <5>4. QED
          BY <5>1, <5>2, <5>3 DEF Comes
      <4>9. CASE pin[e] = Snap(d) /\ \A i \in DOMAIN queue : queue[i].channel # e
        BY <2>4, <4>6, <4>7, <4>9 DEF Comes
      <4>10. QED
        BY <4>5, <4>8, <4>9 DEF Comes
    <3>3. QED
      BY <3>1, <3>2
  <2>13. Truthful'
    BY <2>12 DEF Truthful
  <2>14. QED
    BY <2>8, <2>11, <2>13, <2>15, <2>16 DEF LineInv
<1>3. QED
  BY <1>1, <1>2

\* The PubAck turns the planned intent into the remembered one.
LEMMA PubAckInv == ASSUME NEW c \in Channel PROVE LineInv /\ PubAck(c) => LineInv'
<1> SUFFICES ASSUME LineInv, PubAck(c) PROVE LineInv'
  OBVIOUS
<1> USE DEF PubAck, commandVars, hardwareVars, faultVars
<1>1. PICK intent \in plan[c] : memory' = [memory EXCEPT ![c] = MarkEmitted(intent, 0)]
  OBVIOUS
<1>2. intent \in Intent /\ news \in Seq(News) /\ news # <<>> /\ Head(news) = Ack(c)
      /\ news' = Tail(news)
  BY DEF LineInv, LineTypeOK, Ack
<1>3. /\ news[1] = Ack(c) /\ 1 \in DOMAIN news /\ news' \in Seq(News)
      /\ \A i \in DOMAIN news' : i + 1 \in DOMAIN news /\ news'[i] = news[i + 1]
      /\ \A i \in DOMAIN news : i # 1 => i - 1 \in DOMAIN news' /\ news'[i - 1] = news[i]
      /\ DOMAIN news \subseteq Int /\ DOMAIN news' = 1..(Len(news) - 1) /\ Len(news) \in Nat
  BY <1>2, Behind
<1>4. \A e \in Channel : plan'[e] = IF e = c THEN {} ELSE plan[e]
  BY DEF LineInv, LineTypeOK
<1>5. \A e \in Channel : memory'[e] = IF e = c THEN MarkEmitted(intent, 0) ELSE memory[e]
  BY <1>1 DEF LineInv, LineTypeOK, SchedulerTypeOK
<1>6. LineTypeOK'
  <2>1. memory' \in [Channel -> Memory]
    BY <1>1, <1>2, Parts DEF LineInv, LineTypeOK, SchedulerTypeOK
  <2>2. SchedulerTypeOK'
    BY <2>1 DEF LineInv, LineTypeOK, SchedulerTypeOK
  <2>3. plan' \in [Channel -> SUBSET Intent] /\ acking' \subseteq Channel
    BY DEF LineInv, LineTypeOK
  <2>4. QED
    BY <1>2, <1>3, <2>2, <2>3 DEF LineInv, LineTypeOK
<1>7. engine = "ticking"
  <2>1. news[1].kind = "ack"
    BY <1>3, Kinds
  <2>2. acking = {news[1].channel}
    BY <1>3, <2>1 DEF LineInv, Awaited
  <2>3. QED
    BY <2>2 DEF LineInv, Awaited
<1>8. OneIntent' /\ Asleep' /\ Joined'
  BY <1>4, <1>7 DEF OneIntent, Asleep, Joined, LineInv
<1>9. ASSUME NEW i \in DOMAIN news' PROVE news'[i].kind # "ack"
  <2>1. i + 1 \in DOMAIN news /\ i + 1 # 1
    BY <1>3
  <2>2. news[i + 1].kind # "ack"
    BY <1>3, <2>1, Kinds DEF LineInv, Awaited
  <2>3. QED
    BY <1>3, <2>2
<1>10. Awaited' /\ Returning'
  BY <1>9 DEF Awaited, Returning, LineInv
<1>11. ASSUME NEW e \in Channel, NEW d \in Duty, Believes(e, d)'
       PROVE  Believes(e, d)
  <2>1. ~AckStands(e)'
    BY <1>9, Kinds DEF AckStands
  <2>2. memory'[e].known /\ memory'[e].duty = d /\ \A i \in DOMAIN news' : news'[i].channel # e
    BY <1>11, <2>1 DEF Believes
  <2>3. ASSUME NEW i \in DOMAIN news, i # 1 PROVE news[i].channel # e
    <3>1. i - 1 \in DOMAIN news' /\ news'[i - 1] = news[i]
      BY <1>3, <2>3
    <3>2. QED
      BY <2>2, <3>1
  <2>4. CASE e = c
    <3>1. intent.duty = d
      BY <1>2, <1>5, <2>2, <2>4, Parts
    <3>2. \A j \in DOMAIN news : j > 1 => news[j] # State(c)
      BY <1>3, <2>3, <2>4, Kinds
    <3>3. AckStands(c)
      BY <1>3, <3>2 DEF AckStands
    <3>4. QED
      BY <2>4, <3>1, <3>3 DEF Believes
  <2>5. CASE e # c
    BY <1>3, <1>5, <2>2, <2>3, <2>5, Kinds DEF Believes
  <2>6. QED
    BY <2>4, <2>5
<1>12. ASSUME NEW e \in Channel, NEW d \in Duty, Comes(e, d)
       PROVE  Comes(e, d)'
  BY <1>12 DEF Comes
<1>13. Truthful'
  BY <1>11, <1>12 DEF LineInv, Truthful
<1>14. QED
  BY <1>6, <1>8, <1>10, <1>13 DEF LineInv

\* A pass is over when nothing is planned, so no PubAck is awaited.
LEMMA PassDoneInv == LineInv /\ PassDone => LineInv'
<1> SUFFICES ASSUME LineInv, PassDone PROVE LineInv'
  OBVIOUS
<1> USE DEF PassDone, schedulerVars, wireVars, commandVars, hardwareVars, faultVars
<1>1. SchedulerTypeOK'
  BY DEF LineInv, LineTypeOK, SchedulerTypeOK
<1>2. LineTypeOK'
  BY <1>1 DEF LineInv, LineTypeOK
<1>3. acking = {}
  BY DEF LineInv, LineTypeOK, Awaited, NoPlan
<1>4. OneIntent' /\ Asleep' /\ Awaited' /\ Joined'
  BY <1>3 DEF LineInv, OneIntent, Asleep, Awaited, Joined
<1>5. Truthful' /\ Returning'
  BY Undisturbed
<1>6. QED
  BY <1>2, <1>4, <1>5 DEF LineInv

\* A state that was heard leaves the channel unknown, and nothing else to be believed.
LEMMA HearInv == LineInv /\ Hear => LineInv'
<1> SUFFICES ASSUME LineInv, Hear PROVE LineInv'
  OBVIOUS
<1> USE DEF Hear, engineVars, commandVars, hardwareVars, faultVars
<1> DEFINE c == Head(news).channel
<1>1. news \in Seq(News) /\ news # <<>> /\ news' = Tail(news) /\ Head(news).kind = "state"
  BY DEF LineInv, LineTypeOK
<1>2. /\ Head(news) = news[1] /\ 1 \in DOMAIN news /\ news' \in Seq(News)
      /\ \A i \in DOMAIN news' : i + 1 \in DOMAIN news /\ news'[i] = news[i + 1]
      /\ \A i \in DOMAIN news : i # 1 => i - 1 \in DOMAIN news' /\ news'[i - 1] = news[i]
      /\ DOMAIN news \subseteq Int /\ DOMAIN news' \subseteq Int
  BY <1>1, Behind
<1>3. c \in Channel /\ news[1].kind = "state" /\ news[1].channel = c
  <2>1. Head(news) \in News
    BY <1>1, Behind
  <2>2. QED
    BY <1>1, <1>2, <2>1, Kinds
<1>4. memory' = [memory EXCEPT ![c] = Cold] /\ UNCHANGED <<profile, held, sent, turn, missed>>
  BY DEF Forget
<1> HIDE DEF c
<1>5. \A e \in Channel : memory'[e] = IF e = c THEN Cold ELSE memory[e]
  BY <1>4 DEF LineInv, LineTypeOK, SchedulerTypeOK
<1>6. LineTypeOK'
  <2>1. memory' \in [Channel -> Memory]
    BY <1>4, Parts DEF LineInv, LineTypeOK, SchedulerTypeOK
  <2>2. SchedulerTypeOK'
    BY <1>4, <2>1 DEF LineInv, LineTypeOK, SchedulerTypeOK
  <2>3. QED
    BY <1>1, <1>2, <2>2 DEF LineInv, LineTypeOK
<1>7. OneIntent' /\ Joined' /\ Returning'
  BY DEF LineInv, OneIntent, Joined, Returning
<1>8. Asleep'
  BY <1>5, Parts DEF LineInv, Asleep
<1>9. Awaited'
  <2>1. ASSUME NEW i \in DOMAIN news', news'[i].kind = "ack"
        PROVE  acking = {news'[i].channel}
    BY <1>2, <2>1 DEF LineInv, Awaited
  <2>2. ASSUME NEW i \in DOMAIN news', NEW j \in DOMAIN news', news'[i].kind = "ack",
               news'[j].kind = "ack"
        PROVE  i = j
    <3>1. i + 1 = j + 1
      BY <1>2, <2>2 DEF LineInv, Awaited
    <3>2. QED
      BY <3>1, <1>2
  <2>3. QED
    BY <2>1, <2>2 DEF LineInv, Awaited
<1>10. ASSUME NEW e \in Channel, NEW d \in Duty, Believes(e, d)'
       PROVE  Believes(e, d)
  <2>1. AckStands(e)' => AckStands(e)
    <3> SUFFICES ASSUME AckStands(e)' PROVE AckStands(e)
      OBVIOUS
    <3>1. PICK i \in DOMAIN news' : /\ news'[i] = Ack(e)
                                    /\ \A j \in DOMAIN news' : j > i => news'[j] # State(e)
      BY DEF AckStands
    <3>2. i \in Int /\ i + 1 \in DOMAIN news /\ news[i + 1] = Ack(e)
      BY <3>1, <1>2
    <3>3. ASSUME NEW j \in DOMAIN news, j > i + 1 PROVE news[j] # State(e)
      <4>1. CASE j = 1
        <5>1. i >= 1
          BY <1>1, Behind
        <5>2. QED
          BY <3>2, <3>3, <4>1, <5>1
      <4>2. CASE j # 1
        <5>1. j - 1 \in DOMAIN news' /\ news'[j - 1] = news[j] /\ j \in Int
          BY <1>2, <4>2
        <5>2. j - 1 > i
          BY <3>2, <3>3, <5>1
        <5>3. QED
          BY <3>1, <5>1, <5>2
      <4>3. QED
        BY <4>1, <4>2
    <3>4. QED
      BY <3>2, <3>3 DEF AckStands
  <2>2. CASE AckStands(e)' /\ \E intent \in plan'[e] : intent.duty = d
    BY <2>1, <2>2 DEF Believes
  <2>3. CASE /\ memory'[e].known /\ memory'[e].duty = d
             /\ \A i \in DOMAIN news' : news'[i].channel # e
    <3>1. e # c /\ memory[e].known /\ memory[e].duty = d
      BY <1>5, <2>3, Parts
    <3>2. ASSUME NEW i \in DOMAIN news PROVE news[i].channel # e
      <4>1. CASE i = 1
        BY <1>3, <3>1, <4>1
      <4>2. CASE i # 1
        <5>1. i - 1 \in DOMAIN news' /\ news'[i - 1] = news[i]
          BY <1>2, <4>2
        <5>2. QED
          BY <2>3, <5>1
      <4>3. QED
        BY <4>1, <4>2
    <3>3. QED
      BY <3>1, <3>2 DEF Believes
  <2>4. QED
    BY <1>10, <2>2, <2>3 DEF Believes
<1>11. ASSUME NEW e \in Channel, NEW d \in Duty, Comes(e, d)
       PROVE  Comes(e, d)'
  BY <1>11 DEF Comes
<1>12. Truthful'
  BY <1>10, <1>11 DEF LineInv, Truthful
<1>13. QED
  BY <1>6, <1>7, <1>8, <1>9, <1>12 DEF LineInv

\* An engine that ended believes nothing.
LEMMA EngineDiesInv == LineInv /\ EngineDies => LineInv'
<1> SUFFICES ASSUME LineInv, EngineDies PROVE LineInv'
  OBVIOUS
<1> USE DEF EngineDies, commandVars, hardwareVars, Reset
<1>1. outages' \in 0..MaxFaults /\ mishaps' \in 0..MaxFaults
  BY MishapBounds DEF LineInv
<1>2. SchedulerTypeOK'
  BY Parts DEF LineInv, LineTypeOK, SchedulerTypeOK
<1>3. plan' \in [Channel -> SUBSET Intent]
  BY DEF NoPlan
<1>4. LineTypeOK'
  <2>1. news' \in Seq(News)
    OBVIOUS
  <2>2. QED
    BY <1>1, <1>2, <1>3, <2>1 DEF LineInv, LineTypeOK
<1>5. \A c \in Channel : ~memory'[c].known
  BY Parts
<1>6. DOMAIN news' = {}
  OBVIOUS
<1>7. OneIntent' /\ Asleep' /\ Awaited' /\ Joined' /\ Returning'
  <2>1. OneIntent' /\ Awaited'
    BY <1>6 DEF OneIntent, Awaited, NoPlan
  <2>2. Asleep'
    BY <1>5 DEF Asleep
  <2>3. Returning'
    BY DEF LineInv, Returning
  <2>4. Joined'
    BY <1>1 DEF LineInv, Joined, Mishap
  <2>5. QED
    BY <2>1, <2>2, <2>3, <2>4
<1>8. Truthful'
  BY <1>5, <1>6 DEF Truthful, Believes, AckStands
<1>9. QED
  BY <1>4, <1>7, <1>8 DEF LineInv

\* A started engine remembers nothing yet.
LEMMA EngineStartsInv == LineInv /\ EngineStarts => LineInv'
<1> SUFFICES ASSUME LineInv, EngineStarts PROVE LineInv'
  OBVIOUS
<1> USE DEF EngineStarts, schedulerVars, commandVars, hardwareVars, faultVars
<1>1. SchedulerTypeOK'
  BY DEF LineInv, LineTypeOK, SchedulerTypeOK
<1>2. LineTypeOK'
  BY <1>1 DEF LineInv, LineTypeOK
<1>3. OneIntent' /\ Asleep' /\ Awaited' /\ Joined'
  BY DEF LineInv, OneIntent, Asleep, Awaited, Joined
<1>4. Truthful' /\ Returning'
  BY Undisturbed
<1>5. QED
  BY <1>2, <1>3, <1>4 DEF LineInv

\* A clock that is no longer trusted leaves nothing remembered.
LEMMA EngineClockInv == LineInv /\ EngineClock => LineInv'
<1> SUFFICES ASSUME LineInv, EngineClock PROVE LineInv'
  OBVIOUS
<1> USE DEF EngineClock, schedulerVars, engineVars, wireVars, commandVars, hardwareVars
<1>1. outages' \in 0..MaxFaults /\ mishaps' \in 0..MaxFaults /\ outages' = outages
  BY MishapBounds DEF Mishap, LineInv, LineTypeOK
<1>2. /\ memory' \in [Channel -> Memory]
      /\ \A c \in Channel : memory'[c].known =>
                           memory[c].known /\ memory'[c].duty = memory[c].duty
  <2>1. CASE Reset
    BY <2>1, Parts DEF Reset
  <2>2. CASE UNCHANGED memory
    BY <2>2 DEF LineInv, LineTypeOK, SchedulerTypeOK
  <2>3. QED
    BY <2>1, <2>2
<1>3. UNCHANGED <<profile, held, sent, turn, missed>>
  BY DEF Reset
<1>4. SchedulerTypeOK'
  BY <1>2, <1>3 DEF LineInv, LineTypeOK, SchedulerTypeOK
<1>5. distrust' \subseteq Service
  BY DEF Service, LineInv, LineTypeOK
<1>6. LineTypeOK'
  BY <1>1, <1>4, <1>5 DEF LineInv, LineTypeOK
<1>7. OneIntent' /\ Asleep' /\ Awaited' /\ Joined'
  BY <1>1, <1>2 DEF LineInv, OneIntent, Asleep, Awaited, Joined
<1>8. Truthful' /\ Returning'
  BY <1>1, <1>2, Undisturbed
<1>9. QED
  BY <1>6, <1>7, <1>8 DEF LineInv

-----------------------------------------------------------------------------
(* The steps of hardware-io.                                               *)

\* What may be delivered is a command, and it was at the head of the queue if it is not
\* being delivered again.
LEMMA DeliverableBounds ==
    ASSUME LineTypeOK, NEW q \in Deliverable, Taken(q)
    PROVE  /\ q \in Command /\ queue' \in Seq(Command)
           /\ q \in deferred => queue' = queue
           /\ q \notin deferred => queue # <<>> /\ q = Head(queue) /\ queue' = Tail(queue)
<1>1. queue \in Seq(Command) /\ deferred \subseteq Command
  BY DEF LineTypeOK
<1>2. CASE q \in deferred
  BY <1>1, <1>2 DEF Taken
<1>3. CASE q \notin deferred
  <2>1. q \in Range(queue) /\ q = Head(queue) /\ queue' = Tail(queue)
    BY <1>3 DEF Deliverable, Taken
  <2>2. queue # <<>>
    BY <2>1 DEF Range
  <2>3. Head(queue) \in Command /\ Tail(queue) \in Seq(Command)
    BY <1>1, <2>2, Behind
  <2>4. QED
    BY <1>3, <2>1, <2>2, <2>3
<1>4. QED
  BY <1>2, <1>3

\* A command thrown back is the same command with one delivery less.
LEMMA ReturnBounds ==
    ASSUME NEW q \in Command, deferred \subseteq Command, Return(q)
    PROVE  /\ deferred' \subseteq Command
           /\ \A p \in deferred' : p \in deferred \/ p.channel = q.channel
<1>1. q.tries \in 1..MaxDeliver
  BY Parts
<1>2. CASE q.tries > 1
  <2> DEFINE again == [q EXCEPT !.tries = q.tries - 1]
  <2>1. q.tries - 1 \in 1..MaxDeliver
    BY <1>1, <1>2, LightLineAssumption
  <2>2. again \in Command /\ again.channel = q.channel
    BY <2>1 DEF Command
  <2>3. deferred' = (deferred \ {q}) \cup {again}
    BY <1>2 DEF Return
  <2> HIDE DEF again
  <2>4. QED
    BY <2>2, <2>3
<1>3. CASE ~(q.tries > 1)
  <2>1. deferred' = (deferred \ {q}) \cup {}
    BY <1>3 DEF Return
  <2>2. QED
    BY <2>1
<1>4. QED
  BY <1>2, <1>3

\* A command that is taken is what was to come, if nothing of the channel was spurned.
LEMMA TakenComes ==
    ASSUME LineInv, NEW q \in Deliverable, Taken(q), Writes(q) \/ pin' = pin,
           NEW e \in Channel, e \notin spurned, e = q.channel => Writes(q),
           NEW d \in Duty, Comes(e, d)
    PROVE  Comes(e, d)'
<1>1. /\ q \in Command /\ queue' \in Seq(Command)
      /\ q \in deferred => queue' = queue
      /\ q \notin deferred => queue # <<>> /\ q = Head(queue) /\ queue' = Tail(queue)
  BY DeliverableBounds DEF LineInv
<1>2. q.channel \in Channel /\ q.duty \in Duty
  BY <1>1, Parts
<1>3. pin \in [Channel -> Duty] /\ queue \in Seq(Command)
  BY DEF LineInv, LineTypeOK
<1>4. /\ e # q.channel => pin'[e] = pin[e]
      /\ e = q.channel => pin'[e] = Snap(q.duty)
  BY <1>2, <1>3 DEF Writes
<1>5. CASE q \in deferred
  <2>1. e # q.channel
    BY <1>5 DEF LineInv, Returning
  <2>2. QED
    BY <1>1, <1>4, <1>5, <2>1 DEF Comes
<1>6. CASE q \notin deferred
  <2>1. /\ q = queue[1] /\ 1 \in DOMAIN queue
        /\ \A i \in DOMAIN queue' : i + 1 \in DOMAIN queue /\ queue'[i] = queue[i + 1]
        /\ \A i \in DOMAIN queue : i # 1 =>
              i - 1 \in DOMAIN queue' /\ queue'[i - 1] = queue[i]
        /\ DOMAIN queue \subseteq Int /\ DOMAIN queue' = 1..(Len(queue) - 1)
    BY <1>1, <1>3, <1>6, Behind
  <2>2. CASE pin[e] = Snap(d) /\ \A i \in DOMAIN queue : queue[i].channel # e
    <3>1. q.channel # e
      BY <2>1, <2>2
    <3>2. pin'[e] = Snap(d)
      BY <1>4, <2>2, <3>1
    <3>3. \A i \in DOMAIN queue' : queue'[i].channel # e
      BY <2>1, <2>2
    <3>4. QED
      BY <3>2, <3>3 DEF Comes
  <2>3. CASE \E i \in DOMAIN queue :
                /\ queue[i].channel = e /\ queue[i].duty = d
                /\ \A j \in DOMAIN queue : j > i => queue[j].channel # e
    <3>1. PICK i \in DOMAIN queue :
                /\ queue[i].channel = e /\ queue[i].duty = d
                /\ \A j \in DOMAIN queue : j > i => queue[j].channel # e
      BY <2>3
    <3>2. CASE i = 1
      <4>1. pin'[e] = Snap(d)
        BY <1>4, <2>1, <3>1, <3>2
      <4>2. ASSUME NEW j \in DOMAIN queue' PROVE queue'[j].channel # e
        <5>1. j + 1 \in DOMAIN queue /\ j + 1 > 1 /\ queue'[j] = queue[j + 1]
          BY <2>1
        <5>2. QED
          BY <3>1, <3>2, <5>1
      <4>3. QED
        BY <4>1, <4>2 DEF Comes
    <3>3. CASE i # 1
      <4>1. i - 1 \in DOMAIN queue' /\ queue'[i - 1] = queue[i] /\ i \in Int
        BY <2>1, <3>3
      <4>2. ASSUME NEW j \in DOMAIN queue', j > i - 1 PROVE queue'[j].channel # e
        <5>1. j + 1 \in DOMAIN queue /\ queue'[j] = queue[j + 1] /\ j \in Int
          BY <2>1
        <5>2. j + 1 > i
          BY <4>1, <4>2, <5>1
        <5>3. QED
          BY <3>1, <5>1, <5>2
      <4>3. QED
        BY <3>1, <4>1, <4>2 DEF Comes
    <3>4. QED
      BY <3>2, <3>3
  <2>4. QED
    BY <2>2, <2>3 DEF Comes
<1>7. QED
  BY <1>5, <1>6

\* What hardware-io does with a command: the pin follows it, or its channel is spurned.
LEMMA AttemptInv ==
    ASSUME LineInv, NEW q \in Deliverable, Taken(q),
           deferred' \subseteq Command,
           \A p \in deferred' : p \in deferred \/ p.channel \in spurned',
           \/ Writes(q) /\ spurned' \in {spurned, spurned \cup {q.channel}}
           \/ pin' = pin /\ spurned' = spurned \cup {q.channel},
           UNCHANGED <<schedulerVars, engineVars, engConn, news, hwConn, hwUp, hbLeft, latched,
                       distrust, outages>>,
           mishaps' \in 0..MaxFaults
    PROVE  LineInv'
<1> USE DEF schedulerVars, engineVars
<1>1. q \in Command /\ queue' \in Seq(Command)
  BY DeliverableBounds DEF LineInv
<1>2. q.channel \in Channel /\ Snap(q.duty) \in Duty
  BY <1>1, Parts
<1>3. pin' \in [Channel -> Duty]
  BY <1>2 DEF Writes, LineInv, LineTypeOK
<1>4. spurned' \subseteq Channel /\ spurned \subseteq spurned'
  BY <1>2 DEF LineInv, LineTypeOK
<1>5. SchedulerTypeOK'
  BY DEF LineInv, LineTypeOK, SchedulerTypeOK
<1>6. LineTypeOK'
  BY <1>1, <1>3, <1>4, <1>5 DEF LineInv, LineTypeOK
<1>7. OneIntent' /\ Asleep' /\ Awaited' /\ Joined'
  BY DEF LineInv, OneIntent, Asleep, Awaited, Joined
<1>8. Returning'
  BY <1>4 DEF LineInv, Returning
<1>9. ASSUME NEW e \in Channel \ spurned', NEW d \in Duty, Believes(e, d)',
             outages = 0, hwUp
      PROVE  Comes(e, d)'
  <2>1. Believes(e, d)
    BY <1>9 DEF Believes, AckStands
  <2>2. e \notin spurned
    BY <1>4
  <2>3. Comes(e, d)
    BY <1>9, <2>1, <2>2 DEF LineInv, Truthful
  <2>4. e = q.channel => Writes(q)
    OBVIOUS
  <2>5. QED
    BY <2>2, <2>3, <2>4, TakenComes
<1>10. Truthful'
  BY <1>9 DEF Truthful
<1>11. QED
  BY <1>6, <1>7, <1>8, <1>10 DEF LineInv

\* The command is applied, or its channel is spurned.
LEMMA ConsumeInv ==
    ASSUME NEW q \in Deliverable PROVE LineInv /\ Consume(q) => LineInv'
<1> SUFFICES ASSUME LineInv, Consume(q) PROVE LineInv'
  OBVIOUS
<1> USE DEF Consume, faultVars
<1>1. deferred' \subseteq Command /\ mishaps' \in 0..MaxFaults
  BY DEF LineInv, LineTypeOK
<1>2. \A p \in deferred' : p \in deferred
  OBVIOUS
<1>3. \/ Writes(q) /\ spurned' \in {spurned, spurned \cup {q.channel}}
      \/ pin' = pin /\ spurned' = spurned \cup {q.channel}
  OBVIOUS
<1>4. QED
  BY <1>1, <1>2, <1>3, AttemptInv

\* The driver throws the command back, and its channel is spurned.
LEMMA DriverFailsInv ==
    ASSUME NEW q \in Deliverable PROVE LineInv /\ DriverFails(q) => LineInv'
<1> SUFFICES ASSUME LineInv, DriverFails(q) PROVE LineInv'
  OBVIOUS
<1> USE DEF DriverFails
<1>1. q \in Command
  BY DeliverableBounds DEF LineInv
<1>2. /\ deferred' \subseteq Command
      /\ \A p \in deferred' : p \in deferred \/ p.channel = q.channel
  BY <1>1, ReturnBounds DEF LineInv, LineTypeOK
<1>3. mishaps' \in 0..MaxFaults /\ outages' = outages
  BY MishapBounds DEF Mishap, LineInv
<1>4. \/ Writes(q) /\ spurned' \in {spurned, spurned \cup {q.channel}}
      \/ pin' = pin /\ spurned' = spurned \cup {q.channel}
  OBVIOUS
<1>5. QED
  BY <1>2, <1>3, <1>4, AttemptInv

\* A latched channel is dark, and its state is on the wire.
LEMMA LatchInv == ASSUME NEW c \in Channel PROVE LineInv /\ Latch(c) => LineInv'
<1> SUFFICES ASSUME LineInv, Latch(c) PROVE LineInv'
  OBVIOUS
<1> USE DEF Latch, schedulerVars, engineVars, commandVars, faultVars
<1>1. SchedulerTypeOK' /\ pin' \in [Channel -> Duty] /\ latched' \subseteq Channel
  <2>1. SchedulerTypeOK'
    BY DEF LineInv, LineTypeOK, SchedulerTypeOK
  <2>2. QED
    BY <2>1, Parts DEF LineInv, LineTypeOK
<1>2. CASE hwConn
  <2>1. Announce({c})
    BY <1>2
  <2>2. news' \in Seq(News) /\ (news' # <<>> => engConn)
    BY <2>1, Announced DEF LineInv
  <2>3. LineTypeOK'
    BY <1>1, <2>2 DEF LineInv, LineTypeOK
  <2>4. OneIntent' /\ Asleep' /\ Joined' /\ Returning'
    BY DEF LineInv, OneIntent, Asleep, Joined, Returning
  <2>5. Awaited'
    BY <2>1, AnnounceAwaited
  <2>6. ASSUME NEW e \in Channel \ spurned, NEW d \in Duty, Believes(e, d)',
               outages = 0
        PROVE  Comes(e, d)'
    <3>1. e # c
      BY <2>1, <2>6, AnnounceSilences
    <3>2. Believes(e, d)
      BY <2>1, <2>6, <3>1, AnnounceOthers
    <3>3. Comes(e, d)
      BY <2>6, <3>2 DEF LineInv, Truthful
    <3>4. pin'[e] = pin[e]
      BY <3>1 DEF LineInv, LineTypeOK
    <3>5. QED
      BY <3>3, <3>4 DEF Comes
  <2>7. Truthful'
    BY <2>6 DEF Truthful
  <2>8. QED
    BY <2>3, <2>4, <2>5, <2>7 DEF LineInv
<1>3. CASE ~hwConn
  <2>1. LineTypeOK'
    BY <1>1, <1>3 DEF LineInv, LineTypeOK
  <2>2. OneIntent' /\ Asleep' /\ Awaited' /\ Joined' /\ Returning'
    BY <1>3 DEF LineInv, OneIntent, Asleep, Awaited, Joined, Returning
  <2>3. Truthful'
    BY <1>3 DEF Truthful, LineInv, Joined
  <2>4. QED
    BY <2>1, <2>2, <2>3 DEF LineInv
<1>4. QED
  BY <1>2, <1>3 DEF LineInv, LineTypeOK

\* Neither the engine nor a pin notices whether hardware-io trusts the clock.
LEMMA HardwareClockInv == LineInv /\ HardwareClock => LineInv'
<1> SUFFICES ASSUME LineInv, HardwareClock PROVE LineInv'
  OBVIOUS
<1> USE DEF HardwareClock, schedulerVars, engineVars, wireVars, commandVars, hardwareVars
<1>1. outages' \in 0..MaxFaults /\ mishaps' \in 0..MaxFaults /\ outages' = outages
  BY MishapBounds DEF Mishap, LineInv, LineTypeOK
<1>2. SchedulerTypeOK' /\ distrust' \subseteq Service
  <2>1. SchedulerTypeOK'
    BY DEF LineInv, LineTypeOK, SchedulerTypeOK
  <2>2. QED
    BY <2>1 DEF Service, LineInv, LineTypeOK
<1>3. LineTypeOK'
  BY <1>1, <1>2 DEF LineInv, LineTypeOK
<1>4. OneIntent' /\ Asleep' /\ Awaited' /\ Joined'
  BY <1>1 DEF LineInv, OneIntent, Asleep, Awaited, Joined
<1>5. Truthful' /\ Returning'
  BY <1>1, Undisturbed
<1>6. QED
  BY <1>3, <1>4, <1>5 DEF LineInv

\* Every channel dark, and its state on the wire.
LEMMA TripInv == LineInv /\ Trip => LineInv'
<1> SUFFICES ASSUME LineInv, Trip PROVE LineInv'
  OBVIOUS
<1> USE DEF Trip, Dark, schedulerVars, engineVars, commandVars, faultVars
<1>1. /\ SchedulerTypeOK' /\ pin' \in [Channel -> Duty]
      /\ hbLeft' \in -1..HeartbeatTimeout
  <2>1. SchedulerTypeOK'
    BY DEF LineInv, LineTypeOK, SchedulerTypeOK
  <2>2. pin' \in [Channel -> Duty]
    BY Parts
  <2>3. hbLeft' \in -1..HeartbeatTimeout
    BY LightLineAssumption
  <2>4. QED
    BY <2>1, <2>2, <2>3
<1>2. CASE hwConn
  <2>1. Announce(Channel)
    BY <1>2
  <2>2. news' \in Seq(News) /\ (news' # <<>> => engConn)
    BY <2>1, Announced DEF LineInv
  <2>3. LineTypeOK'
    BY <1>1, <2>2 DEF LineInv, LineTypeOK
  <2>4. OneIntent' /\ Asleep' /\ Joined' /\ Returning'
    BY DEF LineInv, OneIntent, Asleep, Joined, Returning
  <2>5. Awaited'
    BY <2>1, AnnounceAwaited
  <2>6. Truthful'
    BY <2>1, AnnounceSilences DEF Truthful
  <2>7. QED
    BY <2>3, <2>4, <2>5, <2>6 DEF LineInv
<1>3. CASE ~hwConn
  <2>1. LineTypeOK'
    BY <1>1, <1>3 DEF LineInv, LineTypeOK
  <2>2. OneIntent' /\ Asleep' /\ Awaited' /\ Joined' /\ Returning'
    BY <1>3 DEF LineInv, OneIntent, Asleep, Awaited, Joined, Returning
  <2>3. Truthful'
    BY <1>3 DEF Truthful, LineInv, Joined
  <2>4. QED
    BY <2>1, <2>2, <2>3 DEF LineInv
<1>4. QED
  BY <1>2, <1>3 DEF LineInv, LineTypeOK

\* While hardware-io is down nothing is claimed of the pins.
LEMMA HardwareEndsInv == LineInv /\ HardwareEnds => LineInv'
<1> SUFFICES ASSUME LineInv, HardwareEnds PROVE LineInv'
  OBVIOUS
<1> USE DEF HardwareEnds, Dark, schedulerVars, engineVars, commandVars
<1>1. SchedulerTypeOK'
  BY DEF LineInv, LineTypeOK, SchedulerTypeOK
<1>2. hbLeft' \in -1..HeartbeatTimeout /\ outages' \in 0..MaxFaults /\ mishaps' \in 0..MaxFaults
  BY MishapBounds, LightLineAssumption DEF LineInv
<1>3. /\ pin' \in [Channel -> Duty] /\ queue' \in Seq(Command)
      /\ deferred' \subseteq Command /\ spurned' \subseteq Channel /\ Returning'
  <2>1. CASE UNCHANGED commandVars
    <3>1. pin' = pin \/ Dark \/ \E q \in Deliverable : Unanswered(q)
      OBVIOUS
    <3>2. CASE pin' = pin \/ Dark
      BY <2>1, <3>2, Parts DEF LineInv, LineTypeOK, Returning
    <3>3. CASE \E q \in Deliverable : Unanswered(q)
      <4>1. PICK q \in Deliverable : Unanswered(q)
        BY <3>3
      <4>2. q.channel \in Channel /\ Snap(q.duty) \in Duty
        BY <4>1, DeliverableBounds, Parts DEF Unanswered, LineInv
      <4>3. pin' \in [Channel -> Duty]
        BY <4>1, <4>2 DEF Unanswered, Writes, LineInv, LineTypeOK
      <4>4. QED
        BY <2>1, <4>3 DEF LineInv, LineTypeOK, Returning
    <3>4. QED
      BY <3>1, <3>2, <3>3
  <2>2. CASE \E q \in Deliverable : Unanswered(q)
    <3>1. PICK q \in Deliverable : Unanswered(q)
      BY <2>2
    <3>2. q \in Command /\ queue' \in Seq(Command)
      BY <3>1, DeliverableBounds DEF Unanswered, LineInv
    <3>3. q.channel \in Channel /\ Snap(q.duty) \in Duty
      BY <3>2, Parts
    <3>4. pin' \in [Channel -> Duty]
      BY <3>1, <3>3 DEF Unanswered, Writes, LineInv, LineTypeOK
    <3>5. /\ deferred' \subseteq Command
          /\ \A p \in deferred' : p \in deferred \/ p.channel = q.channel
      BY <3>1, <3>2, ReturnBounds DEF Unanswered, LineInv, LineTypeOK
    <3>6. spurned' = spurned \cup {q.channel}
      BY <3>1 DEF Unanswered
    <3>7. QED
      BY <3>2, <3>3, <3>4, <3>5, <3>6 DEF LineInv, LineTypeOK, Returning
  <2>3. QED
    BY <2>1, <2>2
<1>4. news' = news \/ Announce(Channel)
  OBVIOUS
<1>5. news' \in Seq(News) /\ (news' # <<>> => engConn)
  BY <1>4, Announced DEF LineInv, LineTypeOK
<1>6. LineTypeOK'
  BY <1>1, <1>2, <1>3, <1>5 DEF LineInv, LineTypeOK
<1>7. OneIntent' /\ Asleep' /\ Joined'
  <2>1. outages' = outages
    BY DEF Mishap
  <2>2. QED
    BY <2>1 DEF LineInv, OneIntent, Asleep, Joined
<1>8. Awaited'
  <2>1. CASE news' = news
    BY <2>1 DEF LineInv, Awaited
  <2>2. CASE Announce(Channel)
    BY <2>2, AnnounceAwaited
  <2>3. QED
    BY <1>4, <2>1, <2>2
<1>9. Truthful'
  BY DEF Truthful
<1>10. QED
  BY <1>3, <1>6, <1>7, <1>8, <1>9 DEF LineInv

\* A started hardware-io has every channel dark and says so: whoever remembered a
\* duty from before forgets it.
LEMMA HardwareStartsInv == LineInv /\ HardwareStarts => LineInv'
<1> SUFFICES ASSUME LineInv, HardwareStarts PROVE LineInv'
  OBVIOUS
<1> USE DEF HardwareStarts, Dark, schedulerVars, engineVars, commandVars, faultVars
<1>1. SchedulerTypeOK'
  BY DEF LineInv, LineTypeOK, SchedulerTypeOK
<1>2. pin' \in [Channel -> Duty]
  BY Parts
<1>3. Announce(Channel)
  BY DEF AnnounceStartup
<1>4. news' \in Seq(News) /\ (news' # <<>> => engConn)
  BY <1>3, Announced DEF LineInv
<1>5. LineTypeOK'
  BY <1>1, <1>2, <1>4 DEF LineInv, LineTypeOK
<1>6. OneIntent' /\ Asleep' /\ Joined' /\ Returning'
  BY DEF LineInv, OneIntent, Asleep, Joined, Returning
<1>7. Awaited'
  BY <1>3, AnnounceAwaited
<1>8. Truthful'
  BY <1>3, AnnounceSilences DEF Truthful
<1>9. QED
  BY <1>5, <1>6, <1>7, <1>8 DEF LineInv

-----------------------------------------------------------------------------
(* The broker, the operator and time.                                      *)

\* An outage takes the news and the awaited PubAck with it.
LEMMA OutageInv == LineInv /\ Outage => LineInv'
<1> SUFFICES ASSUME LineInv, Outage PROVE LineInv'
  OBVIOUS
<1> USE DEF Outage, commandVars, hardwareVars
<1>1. outages' \in 0..MaxFaults /\ outages' # 0
  BY LightLineAssumption DEF FaultsLeft, LineInv, LineTypeOK
<1>2. /\ plan' \in [Channel -> SUBSET Intent] /\ missed' \subseteq Channel
      /\ \A c \in Channel : plan'[c] \subseteq plan[c]
  BY DEF LineInv, LineTypeOK, SchedulerTypeOK
<1>3. SchedulerTypeOK'
  BY <1>2 DEF LineInv, LineTypeOK, SchedulerTypeOK
<1>4. LineTypeOK'
  <2>1. news' \in Seq(News)
    OBVIOUS
  <2>2. QED
    BY <1>1, <1>2, <1>3, <2>1 DEF LineInv, LineTypeOK
<1>5. DOMAIN news' = {} /\ engine # "down"
  BY DEF LineInv, Asleep
<1>6. OneIntent' /\ Asleep' /\ Awaited' /\ Returning'
  BY <1>2, <1>5 DEF LineInv, OneIntent, Asleep, Awaited, Returning
<1>7. Joined' /\ Truthful'
  BY <1>1 DEF Joined, Truthful
<1>8. QED
  BY <1>4, <1>6, <1>7 DEF LineInv

\* Only an outage makes a running engine lose its connection.
LEMMA EngineReconnectsInv == LineInv /\ EngineReconnects => LineInv'
<1> SUFFICES ASSUME LineInv, EngineReconnects PROVE LineInv'
  OBVIOUS
<1> USE DEF EngineReconnects, schedulerVars, engineVars, commandVars, hardwareVars, faultVars
<1>1. SchedulerTypeOK'
  BY DEF LineInv, LineTypeOK, SchedulerTypeOK
<1>2. LineTypeOK'
  BY <1>1 DEF LineInv, LineTypeOK
<1>3. OneIntent' /\ Asleep' /\ Awaited' /\ Joined'
  BY DEF LineInv, OneIntent, Asleep, Awaited, Joined
<1>4. Truthful' /\ Returning'
  BY Undisturbed
<1>5. QED
  BY <1>2, <1>3, <1>4 DEF LineInv

\* Only an outage makes a running hardware-io lose its connection.
LEMMA HardwareReconnectsInv == LineInv /\ HardwareReconnects => LineInv'
<1> SUFFICES ASSUME LineInv, HardwareReconnects PROVE LineInv'
  OBVIOUS
<1> USE DEF HardwareReconnects, schedulerVars, engineVars, commandVars, hardwareVars, faultVars
<1>1. SchedulerTypeOK'
  BY DEF LineInv, LineTypeOK, SchedulerTypeOK
<1>2. PICK cs \in SUBSET Channel : Announce(cs)
  OBVIOUS
<1>3. news' \in Seq(News) /\ (news' # <<>> => engConn)
  BY <1>2, Announced DEF LineInv
<1>4. LineTypeOK'
  BY <1>1, <1>3 DEF LineInv, LineTypeOK
<1>5. outages # 0
  BY DEF LineInv, Joined
<1>6. OneIntent' /\ Asleep' /\ Returning'
  BY DEF LineInv, OneIntent, Asleep, Returning
<1>7. Joined' /\ Truthful'
  BY <1>5 DEF Joined, Truthful
<1>8. Awaited'
  BY <1>2, AnnounceAwaited
<1>9. QED
  BY <1>4, <1>6, <1>7, <1>8 DEF LineInv

\* The operator's changes wait for the next pass.
LEMMA OperateInv == ASSUME NEW c \in Channel PROVE LineInv /\ Operate(c) => LineInv'
<1> SUFFICES ASSUME LineInv, Operate(c) PROVE LineInv'
  OBVIOUS
<1> USE DEF Operate, engineVars, wireVars, commandVars, hardwareVars, faultVars
<1>1. SchedulerTypeOK' /\ UNCHANGED memory
  <2>1. ASSUME NEW p \in Duty \cup {NoProfile}, SetProfile(c, p)
        PROVE  SchedulerTypeOK' /\ UNCHANGED memory
    BY <2>1 DEF SetProfile, LineInv, LineTypeOK, SchedulerTypeOK
  <2>2. ASSUME NEW hold \in Offered \cup {NoHold}, SetHeld(c, hold)
        PROVE  SchedulerTypeOK' /\ UNCHANGED memory
    BY <2>2, LightLineAssumption DEF Hold, SetHeld, LineInv, LineTypeOK, SchedulerTypeOK
  <2>3. QED
    BY <2>1, <2>2
<1>2. LineTypeOK'
  BY <1>1 DEF LineInv, LineTypeOK
<1>3. OneIntent' /\ Asleep' /\ Awaited' /\ Joined'
  BY <1>1 DEF LineInv, OneIntent, Asleep, Awaited, Joined
<1>4. Truthful' /\ Returning'
  BY <1>1, Undisturbed
<1>5. QED
  BY <1>2, <1>3, <1>4 DEF LineInv

\* Time ages what is remembered and what is on the queue; by then a serving
\* hardware-io has consumed it.
LEMMA TickInv == LineInv /\ Tick => LineInv'
<1> SUFFICES ASSUME LineInv, Tick PROVE LineInv'
  OBVIOUS
<1> USE DEF Tick, faultVars
<1>1. ASSUME NEW c \in Channel
      PROVE  /\ memory'[c] \in Memory
             /\ memory'[c].known = memory[c].known /\ memory'[c].duty = memory[c].duty
  <2>1. memory[c] \in Memory /\ memory[c].age \in 0..MaxAge
    BY Fields DEF LineInv, LineTypeOK, SchedulerTypeOK
  <2> DEFINE age == IF memory[c].known THEN Older(memory[c].age) ELSE memory[c].age
  <2>2. age \in 0..MaxAge
    BY <2>1, SchedulerAssumption DEF Older
  <2>3. memory'[c] = [memory[c] EXCEPT !.age = age]
    OBVIOUS
  <2> HIDE DEF age
  <2>4. QED
    BY <2>1, <2>2, <2>3 DEF Memory
<1>2. memory' \in [Channel -> Memory]
  BY <1>1
<1>3. SchedulerTypeOK'
  BY <1>2 DEF LineInv, LineTypeOK, SchedulerTypeOK
<1>4. hbLeft' \in -1..HeartbeatTimeout
  BY LightLineAssumption DEF LineInv, LineTypeOK
<1>5. ASSUME NEW q \in Command
      PROVE  Fresher(q) \in Command /\ Fresher(q).channel = q.channel /\ Fresher(q).duty = q.duty
  <2> DEFINE ttl == IF q.ttl > 0 THEN q.ttl - 1 ELSE 0
  <2>1. ttl \in 0..CommandTtl
    BY Parts, LightLineAssumption
  <2>2. Fresher(q) = [q EXCEPT !.ttl = ttl]
    BY DEF Fresher
  <2> HIDE DEF ttl
  <2>3. QED
    BY <2>1, <2>2 DEF Command
<1>6. queue \in Seq(Command) /\ deferred \subseteq Command
  BY DEF LineInv, LineTypeOK
<1>7. /\ queue' \in Seq(Command) /\ DOMAIN queue' = DOMAIN queue
      /\ \A i \in DOMAIN queue : /\ queue'[i].channel = queue[i].channel
                                /\ queue'[i].duty = queue[i].duty
  <2>1. Len(queue) \in Nat /\ DOMAIN queue = 1..Len(queue)
        /\ \A i \in DOMAIN queue : queue[i] \in Command
    BY <1>6
  <2>2. queue' \in [1..Len(queue) -> Command]
    BY <1>5, <2>1
  <2>3. queue' \in Seq(Command)
    BY <2>1, <2>2
  <2>4. QED
    BY <1>5, <2>1, <2>3
<1>8. deferred' \subseteq Command /\ Returning'
  BY <1>5, <1>6 DEF LineInv, Returning
<1>9. LineTypeOK'
  BY <1>3, <1>4, <1>7, <1>8 DEF LineInv, LineTypeOK
<1>10. acking = {}
  BY DEF Settled, LineInv, Awaited
<1>11. OneIntent' /\ Asleep' /\ Awaited' /\ Joined'
  BY <1>1, <1>10 DEF Settled, LineInv, OneIntent, Asleep, Awaited, Joined
<1>12. ASSUME NEW c \in Channel, NEW d \in Duty, Believes(c, d)'
       PROVE  Believes(c, d)
  BY <1>1, <1>12 DEF Believes, AckStands
<1>13. ASSUME NEW c \in Channel, NEW d \in Duty, Comes(c, d)
       PROVE  Comes(c, d)'
  BY <1>7, <1>13 DEF Comes
<1>14. Truthful'
  BY <1>12, <1>13 DEF LineInv, Truthful
<1>15. QED
  BY <1>8, <1>9, <1>11, <1>14 DEF LineInv

\* Every step of the line keeps the invariant.
LEMMA LineStepInv == LineInv /\ [LineNext]_vars => LineInv'
<1>1. ASSUME LineInv, UNCHANGED vars PROVE LineInv'
  <2> USE <1>1 DEF vars, schedulerVars, engineVars, wireVars, commandVars, hardwareVars, faultVars
  <2>1. SchedulerTypeOK'
    BY DEF LineInv, LineTypeOK, SchedulerTypeOK
  <2>2. LineTypeOK'
    BY <2>1 DEF LineInv, LineTypeOK
  <2>3. OneIntent' /\ Asleep' /\ Awaited' /\ Joined'
    BY DEF LineInv, OneIntent, Asleep, Awaited, Joined
  <2>4. Truthful' /\ Returning'
    BY Undisturbed
  <2>5. QED
    BY <2>2, <2>3, <2>4 DEF LineInv
<1>2. ASSUME LineInv, LineNext PROVE LineInv'
  BY <1>2, PassInv, PassDoneInv, HearInv, EngineDiesInv, EngineStartsInv, PublishInv,
     PubAckInv, OperateInv, EngineClockInv, ConsumeInv, DriverFailsInv, LatchInv, TripInv,
     HardwareEndsInv, HardwareStartsInv, HardwareClockInv, OutageInv, EngineReconnectsInv,
     HardwareReconnectsInv, TickInv DEF LineNext
<1>3. QED
  BY <1>1, <1>2

-----------------------------------------------------------------------------
\* Every variable of the line keeps its type, and only a running, connected engine is
\* owed news, for any channels, duties, deadlines, deliveries and number of faults.
THEOREM LineTypes == LineSpec => []LineTypeOK
<1>1. LineInv => LineTypeOK
  BY DEF LineInv
<1>2. QED
  BY <1>1, LineInitInv, LineStepInv, PTL DEF LineSpec

\* app.py _on_actuator_state and _publish: as long as the broker has not gone away, a
\* duty the scheduler remembers is, above the dimming floor, on the pin whenever nothing is
\* on its way, for every channel whose last intent was published and none of whose commands
\* was refused or thrown back since it was last commanded afresh: through ends and restarts
\* of either service, trips, latches, driver faults and lost clocks.
THEOREM LineMemory == LineSpec => []MemoryMatchesPin
<1>1. ASSUME LineInv, Quiet, outages = 0, NEW c \in Channel \ (missed \cup spurned),
             memory[c].known
      PROVE  pin[c] = Snap(memory[c].duty)
  <2>1. DOMAIN news = {} /\ DOMAIN queue = {} /\ hwUp
    BY <1>1 DEF Quiet
  <2>2. memory[c].duty \in Duty
    BY <1>1, Fields DEF LineInv, LineTypeOK, SchedulerTypeOK
  <2>3. Believes(c, memory[c].duty)
    BY <1>1, <2>1 DEF Believes
  <2>4. Comes(c, memory[c].duty)
    BY <1>1, <2>1, <2>2, <2>3 DEF LineInv, Truthful
  <2>5. QED
    BY <2>1, <2>4 DEF Comes
<1>2. LineInv => MemoryMatchesPin
  BY <1>1 DEF MemoryMatchesPin
<1>3. QED
  BY <1>2, LineInitInv, LineStepInv, PTL DEF LineSpec
=============================================================================
