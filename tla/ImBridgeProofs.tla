--------------------------- MODULE ImBridgeProofs ---------------------------
(***************************************************************************)
(* Proofs about ImBridge, for any providers, consumers and messages.       *)
(***************************************************************************)
EXTENDS ImBridge, FiniteSetTheorems, SequenceTheorems, TLAPS

-----------------------------------------------------------------------------
(* The types, and what goes with them: a message is known only if it was   *)
(* received, and one drain at a time is under way.                         *)
Events == Messages \cup {Notice}

Types ==
    /\ provider \in [Providers -> {"none", "new", "partial", "loaded"}]
    /\ wsEnv \in BOOLEAN /\ wsStarted \in BOOLEAN
    /\ ws \in [Providers -> {"none", "starting", "up", "failing", "dead"}]
    /\ received \in [Providers -> 0..MaxMessages]
    /\ events \in [Providers -> Seq(Events)]
    /\ pc \in [Consumers -> {"off", "polling", "copied", "handling", "refused", "died", "stopped"}]
    /\ batch \in [Consumers -> Seq(Events)]
    /\ \A c \in Consumers : /\ pc[c] \in {"copied", "handling"} \/ batch[c] = <<>>
                            /\ pc[c] = "handling" => batch[c] # <<>>
    /\ handed \in Seq([by : Consumers, msg : Messages])
    /\ lost \in [Providers -> SUBSET Messages]
    /\ stops \in 0..MaxStops

\* They are stronger than TypeOK: who handles has something left to handle.
LEMMA TypesOK == Types => TypeOK
BY DEF Types, TypeOK, Events

\* A message is a number and no notice.
LEMMA Numbers ==
    /\ MaxMessages \in Nat /\ MaxStops \in Nat
    /\ Messages \subseteq Nat /\ Notice \notin Messages /\ Events \subseteq Nat
    /\ \A n \in Events : n \in Messages <=> n # Notice
    /\ \A c \in Consumers : Drains[c] \in Providers
BY ConstantsAssumption DEF Messages, Notice, Events

\* Initially nothing has been received.
LEMMA InitTypes == Init => Types
<1> SUFFICES ASSUME Init PROVE Types
  OBVIOUS
<1>1. events \in [Providers -> Seq(Events)] /\ batch \in [Consumers -> Seq(Events)]
  BY DEF Init
<1>2. received \in [Providers -> 0..MaxMessages] /\ stops \in 0..MaxStops
  BY Numbers DEF Init
<1>3. handed \in Seq([by : Consumers, msg : Messages]) /\ lost \in [Providers -> SUBSET Messages]
  BY DEF Init
<1> QED
  BY <1>1, <1>2, <1>3 DEF Init, Types

\* What Append and Tail give.
LEMMA Grown ==
    ASSUME NEW X, NEW s \in Seq(X), NEW e \in X
    PROVE  /\ Append(s, e) \in Seq(X)
           /\ DOMAIN Append(s, e) = 1..(Len(s) + 1) /\ DOMAIN s = 1..Len(s) /\ Len(s) \in Nat
           /\ Append(s, e)[Len(s) + 1] = e
           /\ \A i \in DOMAIN s : i \in DOMAIN Append(s, e) /\ Append(s, e)[i] = s[i]
           /\ \A i \in DOMAIN Append(s, e) : i \in DOMAIN s \/ i = Len(s) + 1
OBVIOUS

\* And what a sequence is without its head.
LEMMA Shrunk ==
    ASSUME NEW X, NEW s \in Seq(X), s # <<>>
    PROVE  /\ Tail(s) \in Seq(X) /\ Head(s) \in X /\ Head(s) = s[1]
           /\ 1 \in DOMAIN s
           /\ \A i \in DOMAIN Tail(s) : i + 1 \in DOMAIN s /\ Tail(s)[i] = s[i + 1] /\ i + 1 > 1
           /\ \A i \in DOMAIN s : i = 1 \/ (i - 1 \in DOMAIN Tail(s) /\ Tail(s)[i - 1] = s[i])
           /\ DOMAIN s \subseteq Nat /\ DOMAIN Tail(s) \subseteq Nat
OBVIOUS

\* An event at the head of a batch is there.
LEMMA HeadIsThere ==
    ASSUME Types, NEW c \in Consumers, batch[c] # <<>>
    PROVE  Head(batch[c]) \in Events /\ Tail(batch[c]) \in Seq(Events)
BY Shrunk DEF Types

\* Loading a provider and starting its listener keep the types.
LEMMA RegisterTypes ==
    ASSUME Types, NEW p \in Providers, NEW after \in {"new", "partial", "loaded"},
           Load(p, after)
    PROVE  /\ provider' \in [Providers -> {"none", "new", "partial", "loaded"}]
           /\ wsStarted' \in BOOLEAN
           /\ ws' \in [Providers -> {"none", "starting", "up", "failing", "dead"}]
BY DEF Types, Load, Register, StartListener

\* Every step keeps the types.
LEMMA TypesStep == Types /\ [Next]_vars => Types'
<1> SUFFICES ASSUME Types, [Next]_vars PROVE Types'
  OBVIOUS
<1>1. ASSUME NEW p \in Providers, Create(p)
      PROVE  Types'
  BY <1>1 DEF Types, Create, wsVars, taskVars
<1>2. ASSUME NEW p \in Providers, Call(p)
      PROVE  Types'
  <2>1. PICK after \in {"new", "partial", "loaded"} : Load(p, after)
    BY <1>2 DEF Call, Load
  <2> QED
    BY <1>2, <2>1, RegisterTypes DEF Types, Call, taskVars
<1>3. ASSUME NEW p \in Providers, ListenerStep(p)
      PROVE  Types'
  <2>1. ASSUME NEW e \in Events, Publish(p, e)
        PROVE  events' \in [Providers -> Seq(Events)]
    <3>1. Append(events[p], e) \in Seq(Events)
      BY Grown DEF Types
    <3> QED
      BY <2>1, <3>1 DEF Publish, Types
  <2>2. CASE WsStarted(p)
    BY <2>1, <2>2 DEF WsStarted, Types, loadVars, taskVars, Events
  <2>3. CASE Receive(p)
    <3>1. received[p] \in 0..MaxMessages /\ received[p] < MaxMessages
      BY <2>3 DEF Receive, Types
    <3>2. received'[p] = received[p] + 1 /\ received' = [received EXCEPT ![p] = received[p] + 1]
      BY <2>3 DEF Receive, Types
    <3>3. received[p] + 1 \in Messages /\ received[p] + 1 \in 0..MaxMessages
      BY <3>1, Numbers DEF Messages
    <3>4. received' \in [Providers -> 0..MaxMessages] /\ received'[p] \in Events
      BY <3>2, <3>3 DEF Types, Events
    <3> QED
      BY <2>1, <2>3, <3>4 DEF Receive, Types, loadVars, taskVars
  <2>4. CASE WsFails(p)
    BY <2>4 DEF WsFails, Types, loadVars, taskVars
  <2>5. CASE WsError(p)
    BY <2>1, <2>5 DEF WsError, Types, loadVars, taskVars, Events
  <2> QED
    BY <1>3, <2>2, <2>3, <2>4, <2>5 DEF ListenerStep
<1>4. ASSUME NEW c \in Consumers, StartConsumer(c)
      PROVE  Types'
  <2>1. PICK after \in {"new", "partial", "loaded"} :
            /\ Load(Drains[c], after)
            /\ pc' = [pc EXCEPT ![c] = IF after = "loaded" THEN "polling" ELSE "refused"]
    BY <1>4 DEF StartConsumer
  <2> QED
    BY <1>4, <2>1, RegisterTypes, Numbers DEF Types, StartConsumer
<1>5. ASSUME NEW c \in Consumers, NEW m \in SUBSET Messages, Lose(c, m)
      PROVE  lost' \in [Providers -> SUBSET Messages]
  BY <1>5, Numbers DEF Lose, Types
<1>6. \A s \in Seq(Events) : MessagesIn(s) \in SUBSET Messages
  BY Numbers DEF MessagesIn, Events
<1>7. ASSUME NEW c \in Consumers, NEW how \in {"died", "stopped"}, Leave(c, how),
             stops' \in 0..MaxStops
      PROVE  Types'
  <2>1. MessagesIn(batch[c]) \in SUBSET Messages
    BY <1>6 DEF Types
  <2>2. lost' \in [Providers -> SUBSET Messages]
    BY <1>5, <1>7, <2>1 DEF Leave
  <2>3. batch' \in [Consumers -> Seq(Events)]
    BY <1>7 DEF Leave, Types
  <2> QED
    BY <1>7, <2>2, <2>3 DEF Leave, Types, loadVars, wsVars
<1>8. ASSUME NEW c \in Consumers, AtEvent(c), Advance(c, Tail(batch[c])), batch[c] # <<>>,
             UNCHANGED <<loadVars, wsVars, events, stops, lost>>,
             handed' \in Seq([by : Consumers, msg : Messages])
      PROVE  Types'
  <2>1. Tail(batch[c]) \in Seq(Events)
    BY <1>8, HeadIsThere
  <2> QED
    BY <1>8, <2>1 DEF AtEvent, Advance, Types, loadVars, wsVars
<1>9. ASSUME NEW c \in Consumers, ConsumerStep(c)
      PROVE  Types'
  <2>1. CASE Copy(c)
    <3>1. events[Drains[c]] \in Seq(Events)
      BY Numbers DEF Types
    <3> QED
      BY <2>1, <3>1 DEF Copy, Types, loadVars, wsVars
  <2>2. CASE Clear(c)
    <3>1. MessagesIn(events[Drains[c]]) \ MessagesIn(batch[c]) \in SUBSET Messages
      BY <1>6, Numbers DEF Types
    <3>2. lost' \in [Providers -> SUBSET Messages]
      BY <1>5, <2>2, <3>1 DEF Clear
    <3>3. events' \in [Providers -> Seq(Events)]
      <4>1. <<>> \in Seq(Events)
        OBVIOUS
      <4> QED
        BY <2>2, <4>1 DEF Clear, Types
    <3> QED
      BY <2>2, <3>2, <3>3 DEF Clear, AfterDrain, Types, loadVars, wsVars
  <2>3. CASE SkipNotice(c)
    BY <1>8, <2>3 DEF SkipNotice, AtEvent, Types
  <2>4. CASE HandOn(c)
    <3>1. batch[c] # <<>> /\ AtEvent(c)
      BY <2>4 DEF HandOn, AtEvent, Types
    <3>2. Head(batch[c]) \in Messages
      BY <2>4, <3>1, HeadIsThere, Numbers DEF HandOn, Pass
    <3>3. handed' \in Seq([by : Consumers, msg : Messages])
      BY <2>4, <3>2 DEF HandOn, Pass, Types
    <3> QED
      BY <1>8, <2>4, <3>1, <3>3 DEF HandOn, Pass
  <2>5. CASE BridgeDies(c)
    BY <1>7, <2>5 DEF BridgeDies, Types
  <2> QED
    BY <1>9, <2>1, <2>2, <2>3, <2>4, <2>5 DEF ConsumerStep
<1>10. ASSUME NEW c \in Consumers, CancelConsumer(c)
       PROVE  Types'
  <2>1. stops' \in 0..MaxStops
    BY <1>10, Numbers DEF CancelConsumer, Cancelled, Types
  <2> QED
    BY <1>7, <1>10, <2>1 DEF CancelConsumer
<1>11. CASE UNCHANGED vars
  BY <1>11 DEF vars, loadVars, wsVars, taskVars, Types
<1> QED
  BY <1>1, <1>2, <1>3, <1>4, <1>9, <1>10, <1>11 DEF Next

\* Every variable of providers, listeners and consumers keeps its type.
THEOREM TypeCorrect == Spec => []TypeOK
<1> QED
  BY InitTypes, TypesStep, TypesOK, PTL DEF Spec

-----------------------------------------------------------------------------
(* One listener.                                                           *)

\* The flag is set while somebody listens, and nobody else begins to.
Single ==
    /\ wsStarted <=> Listening # {}
    /\ \A p, q \in Listening : p = q

\* A listener is started only when there is none.
LEMMA StartSingle ==
    ASSUME Types, Single, NEW p \in Providers,
           StartListener(p) \/ UNCHANGED <<wsStarted, ws>>
    PROVE  Single'
<1>1. CASE UNCHANGED <<wsStarted, ws>>
  BY <1>1 DEF Single, Listening
<1>2. CASE ~wsStarted /\ wsStarted' = TRUE /\ ws' = [ws EXCEPT ![p] = "starting"]
  <2>1. Listening = {}
    BY <1>2 DEF Single
  <2>2. Listening' = {p}
    BY <1>2, <2>1 DEF Listening, Types
  <2> QED
    BY <1>2, <2>2 DEF Single
<1> QED
  BY <1>1, <1>2 DEF StartListener

\* Every step keeps it a single one.
LEMMA SingleStep == Types /\ Single /\ [Next]_vars => Single'
<1> SUFFICES ASSUME Types, Single, [Next]_vars PROVE Single'
  OBVIOUS
<1>1. ASSUME NEW p \in Providers, Call(p)
      PROVE  Single'
  <2>1. StartListener(p) \/ UNCHANGED <<wsStarted, ws>>
    BY <1>1 DEF Call, Register
  <2> QED
    BY <2>1, StartSingle
<1>2. ASSUME NEW c \in Consumers, StartConsumer(c)
      PROVE  Single'
  <2>1. StartListener(Drains[c]) \/ UNCHANGED <<wsStarted, ws>>
    BY <1>2 DEF StartConsumer, Load, Register
  <2> QED
    BY <2>1, StartSingle, Numbers
<1>3. ASSUME NEW p \in Providers, WsStarted(p)
      PROVE  Single'
  <2>1. Listening' = Listening /\ UNCHANGED wsStarted
    BY <1>3 DEF WsStarted, Listening, Types
  <2> QED
    BY <2>1 DEF Single
<1>4. ASSUME NEW p \in Providers, WsFails(p)
      PROVE  Single'
  <2>1. Listening = {p}
    BY <1>4 DEF WsFails, Single, Listening
  <2>2. Listening' = {} /\ ~wsStarted'
    BY <1>4, <2>1 DEF WsFails, Listening, Types
  <2> QED
    BY <2>2 DEF Single
<1>5. ASSUME NEW p \in Providers, WsError(p)
      PROVE  Single'
  <2>1. Listening' = Listening /\ UNCHANGED wsStarted
    BY <1>5 DEF WsError, Listening, Types
  <2> QED
    BY <2>1 DEF Single
<1>6. ASSUME UNCHANGED <<wsStarted, ws>>
      PROVE  Single'
  BY <1>6 DEF Single, Listening
<1>7. CASE \/ \E p \in Providers : Create(p) \/ Receive(p)
           \/ \E c \in Consumers : ConsumerStep(c) \/ CancelConsumer(c)
           \/ UNCHANGED vars
  BY <1>6, <1>7 DEF Create, Receive, ConsumerStep, Copy, Clear, SkipNotice, HandOn, Pass,
     BridgeDies, Leave, CancelConsumer, wsVars, vars
<1> QED
  BY <1>1, <1>2, <1>3, <1>4, <1>5, <1>7 DEF Next, ListenerStep

\* However many providers load, and also while a listener that failed is on its
\* way out, at most one websocket listens, and the flag is set when one does.
THEOREM OneListens == Spec => []OneListener
<1>1. Init => Single
  BY DEF Init, Single, Listening
<1>2. Single => OneListener
  <2> SUFFICES ASSUME Single PROVE Cardinality(Listening) <= 1
    BY DEF Single, OneListener
  <2>1. CASE Listening = {}
    BY <2>1, FS_EmptySet
  <2>2. CASE Listening # {}
    <3>1. PICK p : Listening = {p}
      BY <2>2 DEF Single
    <3>2. Cardinality({p}) = 1
      BY FS_Singleton
    <3> QED
      BY <3>1, <3>2
  <2> QED
    BY <2>1, <2>2
<1> QED
  BY <1>1, <1>2, InitTypes, TypesStep, SingleStep, PTL DEF Spec

-----------------------------------------------------------------------------
(* Every message is in one place.                                          *)

InList(p, n)   == \E i \in DOMAIN events[p] : events[p][i] = n
Batched(p, n)  == {c \in DrainedBy(p) : \E i \in DOMAIN batch[c] : batch[c][i] = n}
HandedAt(p, n) == {j \in DOMAIN handed : Drains[handed[j].by] = p /\ handed[j].msg = n}

Once(p, n) ==
    \/ InList(p, n) /\ Batched(p, n) = {} /\ HandedAt(p, n) = {} /\ n \notin lost[p]
    \/ ~InList(p, n) /\ (\E c : Batched(p, n) = {c}) /\ HandedAt(p, n) = {} /\ n \notin lost[p]
    \/ ~InList(p, n) /\ Batched(p, n) = {} /\ (\E i : HandedAt(p, n) = {i}) /\ n \notin lost[p]
    \/ ~InList(p, n) /\ Batched(p, n) = {} /\ HandedAt(p, n) = {} /\ n \in lost[p]

EachOnce == \A p \in Providers : \A n \in 1..received[p] : Once(p, n)

\* Nothing is anywhere that was not received.
Known ==
    /\ \A p \in Providers : \A i \in DOMAIN events[p] : events[p][i] <= received[p]
    /\ \A c \in Consumers : \A i \in DOMAIN batch[c] : batch[c][i] <= received[Drains[c]]
    /\ \A i \in DOMAIN handed : handed[i].msg <= received[Drains[handed[i].by]]
    /\ \A p \in Providers : \A n \in lost[p] : n <= received[p]

\* Lists rise, and what has gone further came earlier.  A list that has been
\* copied and is not cleared yet begins with its copy; only one is at a time.
Rising(s)    == \A i, j \in DOMAIN s : i < j /\ s[i] # Notice /\ s[j] # Notice => s[i] < s[j]
Before(n, s) == \A i \in DOMAIN s : s[i] # Notice => n < s[i]

Copying ==
    /\ \A c, d \in Consumers : pc[c] = "copied" /\ pc[d] = "copied" => c = d
    /\ \A c \in Consumers : pc[c] = "copied" => \A i \in DOMAIN batch[c] :
           i \in DOMAIN events[Drains[c]] /\ events[Drains[c]][i] = batch[c][i]

Ordered ==
    /\ \A p \in Providers : Rising(events[p])
    /\ \A c \in Consumers : Rising(batch[c])
    /\ \A c \in Consumers : pc[c] = "handling" =>
           \A i \in DOMAIN batch[c] : Before(batch[c][i], events[Drains[c]])
    /\ \A i \in DOMAIN handed : /\ Before(handed[i].msg, events[Drains[handed[i].by]])
                                /\ Before(handed[i].msg, batch[handed[i].by])
    /\ InOrder

Story == Copying /\ Known /\ Ordered /\ EachOnce

\* Nothing changes for messages when list, batches and history stay, and whoever
\* handles or copies goes on doing so.
LEMMA StoryKept ==
    ASSUME Story, UNCHANGED <<received, events, batch, handed, lost>>,
           \A c \in Consumers : pc'[c] = pc[c]
                \/ {pc[c], pc'[c]} \cap {"copied", "handling"} = {}
    PROVE  Story'
<1>1. \A c \in Consumers : /\ pc'[c] = "copied" <=> pc[c] = "copied"
                           /\ pc'[c] = "handling" <=> pc[c] = "handling"
  OBVIOUS
<1>2. \A p, n : /\ InList(p, n)' <=> InList(p, n)
                /\ Batched(p, n)' = Batched(p, n)
                /\ HandedAt(p, n)' = HandedAt(p, n)
  BY <1>1 DEF InList, Batched, HandedAt, DrainedBy
<1>3. EachOnce'
  BY <1>2 DEF Story, EachOnce, Once
<1> QED
  BY <1>1, <1>3 DEF Story, Copying, Known, Ordered, Rising, Before, InOrder

\* What the history says is typed.
LEMMA Typed ==
    ASSUME Types
    PROVE  /\ \A p \in Providers : /\ events[p] \in Seq(Events) /\ received[p] \in Nat
                                   /\ lost[p] \subseteq Nat
                                   /\ \A i \in DOMAIN events[p] : events[p][i] \in Nat
           /\ \A c \in Consumers : /\ batch[c] \in Seq(Events)
                                   /\ \A i \in DOMAIN batch[c] : batch[c][i] \in Nat
           /\ \A i \in DOMAIN handed : /\ handed[i].by \in Consumers
                                       /\ Drains[handed[i].by] \in Providers
                                       /\ handed[i].msg \in Nat /\ handed[i].msg \in Messages
<1>0. \A X : \A q \in Seq(X) : \A i \in DOMAIN q : q[i] \in X
  BY ElementOfSeq, LenProperties
<1>1. \A q \in Seq(Events) : \A i \in DOMAIN q : q[i] \in Nat
  BY <1>0, Numbers
<1>2. \A i \in DOMAIN handed : handed[i] \in [by : Consumers, msg : Messages]
  BY <1>0 DEF Types
<1>3. received \in [Providers -> Nat]
  BY Numbers DEF Types
<1> QED
  BY <1>1, <1>2, <1>3, Numbers DEF Types

\* A message or a notice that the listener publishes comes after all others.
LEMMA PublishStory ==
    ASSUME Types, Story, NEW p \in Providers, NEW e \in Events, Publish(p, e),
           \/ e = Notice /\ received' = received
           \/ e = received[p] + 1 /\ received' = [received EXCEPT ![p] = received[p] + 1],
           UNCHANGED <<pc, batch, handed, lost>>
    PROVE  Story'
<1> DEFINE N == Len(events[p])
<1>1. /\ \A q \in Providers : q # p => events'[q] = events[q]
      /\ events'[p] = Append(events[p], e)
      /\ events'[p][N + 1] = e /\ N \in Nat
      /\ DOMAIN events'[p] = 1..(N + 1) /\ DOMAIN events[p] = 1..N
      /\ \A i \in DOMAIN events[p] : i \in DOMAIN events'[p] /\ events'[p][i] = events[p][i]
      /\ \A i \in DOMAIN events'[p] : i \in DOMAIN events[p] \/ i = N + 1
  BY Grown DEF Publish, Types
<1>2. /\ \A q \in Providers : q # p => received'[q] = received[q]
      /\ received[p] \in Nat
      /\ received'[p] = received[p] \/ received'[p] = received[p] + 1
      /\ \A q \in Providers : received[q] \in Nat /\ received'[q] \in Nat
      /\ \A q \in Providers : received[q] <= received'[q]
      /\ e # Notice => received'[p] = e /\ e = received[p] + 1
      /\ e <= received'[p]
      /\ e = Notice => received' = received
  <2>1. received \in [Providers -> Nat]
    BY Numbers DEF Types
  <2>2. e \in Nat
    BY Numbers
  <2> QED
    BY <2>1, <2>2 DEF Notice
<1> HIDE DEF N
<1>3. Known'
  <2>1. \A q \in Providers : \A i \in DOMAIN events'[q] : events'[q][i] <= received'[q]
    <3> SUFFICES ASSUME NEW q \in Providers, NEW i \in DOMAIN events'[q]
                 PROVE  events'[q][i] <= received'[q]
      OBVIOUS
    <3>1. CASE i \in DOMAIN events[q] /\ events'[q][i] = events[q][i]
      <4>1. events[q][i] <= received[q] /\ events[q][i] \in Nat
        BY <3>1, Typed DEF Story, Known
      <4> QED
        BY <1>2, <3>1, <4>1
    <3>2. CASE q = p /\ i = N + 1
      BY <1>1, <1>2, <3>2
    <3> QED
      BY <1>1, <3>1, <3>2
  <2>2. \A c \in Consumers : \A i \in DOMAIN batch[c] : batch[c][i] <= received'[Drains[c]]
    <3> SUFFICES ASSUME NEW c \in Consumers, NEW i \in DOMAIN batch[c]
                 PROVE  batch[c][i] <= received'[Drains[c]]
      OBVIOUS
    <3>1. batch[c][i] <= received[Drains[c]] /\ batch[c][i] \in Nat /\ Drains[c] \in Providers
      BY Typed, Numbers DEF Story, Known
    <3> QED
      BY <1>2, <3>1
  <2>3. \A i \in DOMAIN handed : handed[i].msg <= received'[Drains[handed[i].by]]
    <3> SUFFICES ASSUME NEW i \in DOMAIN handed
                 PROVE  handed[i].msg <= received'[Drains[handed[i].by]]
      OBVIOUS
    <3>1. /\ handed[i].msg <= received[Drains[handed[i].by]] /\ handed[i].msg \in Nat
          /\ Drains[handed[i].by] \in Providers
      BY Typed DEF Story, Known
    <3> QED
      BY <1>2, <3>1
  <2>4. \A q \in Providers : \A n \in lost[q] : n <= received'[q]
    <3> SUFFICES ASSUME NEW q \in Providers, NEW n \in lost[q]
                 PROVE  n <= received'[q]
      OBVIOUS
    <3>1. n <= received[q] /\ n \in Nat
      BY Typed DEF Story, Known
    <3> QED
      BY <1>2, <3>1
  <2> QED
    BY <2>1, <2>2, <2>3, <2>4 DEF Known
<1>4. Copying'
  BY <1>1, Numbers DEF Story, Copying
<1>5. Ordered'
  <2>1. Rising(events'[p])
    <3> SUFFICES ASSUME NEW i \in DOMAIN events'[p], NEW j \in DOMAIN events'[p], i < j,
                        events'[p][i] # Notice, events'[p][j] # Notice
                 PROVE  events'[p][i] < events'[p][j]
      BY DEF Rising
    <3>1. i \in DOMAIN events[p]
      BY <1>1
    <3>2. CASE j \in DOMAIN events[p]
      BY <1>1, <3>1, <3>2 DEF Story, Ordered, Rising
    <3>3. CASE j = N + 1
      <4>1. events[p][i] <= received[p] /\ events[p][i] \in Nat
        BY <3>1, Typed DEF Story, Known
      <4> QED
        BY <1>1, <1>2, <3>1, <3>3, <4>1
    <3> QED
      BY <1>1, <3>2, <3>3
  <2>2. ASSUME NEW n \in Nat, n <= received[p], Before(n, events[p])
        PROVE  Before(n, events'[p])
    BY <1>1, <1>2, <2>2 DEF Before
  <2>3. \A c \in Consumers : pc[c] = "handling" =>
           \A i \in DOMAIN batch[c] : Before(batch[c][i], events'[Drains[c]])
    <3> SUFFICES ASSUME NEW c \in Consumers, pc[c] = "handling", NEW i \in DOMAIN batch[c]
                 PROVE  Before(batch[c][i], events'[Drains[c]])
      OBVIOUS
    <3>1. /\ Before(batch[c][i], events[Drains[c]]) /\ batch[c][i] \in Nat
          /\ batch[c][i] <= received[Drains[c]] /\ Drains[c] \in Providers
      BY Typed, Numbers DEF Story, Ordered, Known
    <3> QED
      BY <1>1, <2>2, <3>1
  <2>4. \A i \in DOMAIN handed : Before(handed[i].msg, events'[Drains[handed[i].by]])
    <3> SUFFICES ASSUME NEW i \in DOMAIN handed
                 PROVE  Before(handed[i].msg, events'[Drains[handed[i].by]])
      OBVIOUS
    <3>1. /\ Before(handed[i].msg, events[Drains[handed[i].by]]) /\ handed[i].msg \in Nat
          /\ handed[i].msg <= received[Drains[handed[i].by]]
          /\ Drains[handed[i].by] \in Providers
      BY Typed DEF Story, Ordered, Known
    <3> QED
      BY <1>1, <2>2, <3>1
  <2>5. \A q \in Providers : Rising(events'[q])
    BY <1>1, <2>1 DEF Story, Ordered
  <2>6. InOrder'
    BY DEF Story, Ordered, InOrder
  <2>7. /\ \A c \in Consumers : Rising(batch[c])
        /\ \A i \in DOMAIN handed : Before(handed[i].msg, batch[handed[i].by])
    BY DEF Story, Ordered
  <2> QED
    BY <2>3, <2>4, <2>5, <2>6, <2>7 DEF Ordered, Rising, Before
<1>6. EachOnce'
  <2> SUFFICES ASSUME NEW q \in Providers, NEW n \in 1..received'[q]
               PROVE  Once(q, n)'
    BY DEF EachOnce
  <2>0. /\ Batched(q, n)' = Batched(q, n) /\ HandedAt(q, n)' = HandedAt(q, n)
        /\ n # Notice /\ n \in Nat
    BY <1>2 DEF Batched, HandedAt, DrainedBy, Notice
  <2>1. CASE n \in 1..received[q]
    <3>1. q = p => n # e
      BY <1>2, <2>0, <2>1
    <3>2. InList(q, n)' <=> InList(q, n)
      BY <1>1, <3>1 DEF InList
    <3> QED
      BY <2>0, <2>1, <3>2 DEF Story, EachOnce, Once
  <2>2. CASE n \notin 1..received[q]
    <3>1. q = p /\ n = e /\ n > received[q] /\ received[q] \in Nat
      BY <1>2, <2>0, <2>2
    <3>2. InList(q, n)'
      BY <1>1, <3>1 DEF InList
    <3>3. Batched(q, n) = {}
      <4> SUFFICES ASSUME NEW c \in Batched(q, n) PROVE FALSE
        OBVIOUS
      <4>1. c \in Consumers /\ Drains[c] = q /\ \E i \in DOMAIN batch[c] : batch[c][i] = n
        BY DEF Batched, DrainedBy
      <4> QED
        BY <3>1, <4>1 DEF Story, Known
    <3>4. HandedAt(q, n) = {}
      BY <3>1 DEF HandedAt, Story, Known
    <3>5. n \notin lost[q]
      BY <3>1 DEF Story, Known
    <3> QED
      BY <2>0, <3>2, <3>3, <3>4, <3>5 DEF Once
  <2> QED
    BY <2>1, <2>2
<1> QED
  BY <1>3, <1>4, <1>5, <1>6 DEF Story

\* The copy of a list is a batch of the same messages, none of them handled yet.
LEMMA CopyStory ==
    ASSUME Types, Story, NEW c \in Consumers, Copy(c)
    PROVE  Story'
<1>1. /\ batch' = [batch EXCEPT ![c] = events[Drains[c]]]
      /\ pc' = [pc EXCEPT ![c] = "copied"] /\ pc[c] = "polling"
      /\ \A d \in Consumers : pc[d] # "copied"
      /\ UNCHANGED <<received, events, handed, lost>> /\ Drains[c] \in Providers
  BY Numbers DEF Copy, LoopFree, wsVars
<1>2. /\ \A d \in Consumers : d # c => batch'[d] = batch[d] /\ pc'[d] = pc[d]
      /\ batch'[c] = events[Drains[c]] /\ pc'[c] = "copied"
  BY <1>1 DEF Types
<1>3. Copying'
  BY <1>1, <1>2 DEF Copying
<1>4. Known'
  BY <1>1, <1>2 DEF Story, Known
<1>5. Ordered'
  <2>1. \A d \in Consumers : Rising(batch'[d])
    BY <1>1, <1>2 DEF Story, Ordered
  <2>2. \A i \in DOMAIN handed : Before(handed[i].msg, batch'[handed[i].by])
    <3> SUFFICES ASSUME NEW i \in DOMAIN handed
                 PROVE  Before(handed[i].msg, batch'[handed[i].by])
      OBVIOUS
    <3>1. handed[i].by \in Consumers
      BY Typed
    <3>2. /\ Before(handed[i].msg, events[Drains[handed[i].by]])
          /\ Before(handed[i].msg, batch[handed[i].by])
      BY DEF Story, Ordered
    <3> QED
      BY <1>2, <3>1, <3>2
  <2>3. \A d \in Consumers : pc'[d] = "handling" =>
            \A i \in DOMAIN batch'[d] : Before(batch'[d][i], events[Drains[d]])
    BY <1>1, <1>2 DEF Story, Ordered
  <2> QED
    BY <1>1, <2>1, <2>2, <2>3 DEF Story, Ordered, InOrder, Rising, Before
<1>6. EachOnce'
  <2>1. \A q, n : /\ InList(q, n)' <=> InList(q, n)
                  /\ Batched(q, n)' = Batched(q, n)
                  /\ HandedAt(q, n)' = HandedAt(q, n)
    <3>1. \A q : DrainedBy(q)' = DrainedBy(q) /\ c \notin DrainedBy(q)
      BY <1>1, <1>2 DEF DrainedBy
    <3> QED
      BY <1>1, <1>2, <3>1 DEF InList, Batched, HandedAt, DrainedBy
  <2> QED
    BY <1>1, <2>1 DEF Story, EachOnce, Once
<1> QED
  BY <1>3, <1>4, <1>5, <1>6 DEF Story

\* Clearing a list leaves each message in the batch that was copied from it, or
\* lost.
LEMMA ClearStory ==
    ASSUME Types, Story, NEW c \in Consumers, Clear(c)
    PROVE  Story'
<1> DEFINE P == Drains[c]
           gone == MessagesIn(events[P]) \ MessagesIn(batch[c])
<1>1. /\ P \in Providers /\ pc[c] = "copied"
      /\ events' = [events EXCEPT ![P] = <<>>]
      /\ lost' = [lost EXCEPT ![P] = lost[P] \cup gone]
      /\ pc' = [pc EXCEPT ![c] = IF batch[c] = <<>> THEN "polling" ELSE "handling"]
      /\ UNCHANGED <<received, batch, handed>>
  BY Numbers DEF Clear, AfterDrain, Lose, wsVars, Types
<1>2. /\ \A q \in Providers : q # P => events'[q] = events[q] /\ lost'[q] = lost[q]
      /\ events'[P] = <<>> /\ lost'[P] = lost[P] \cup gone /\ DOMAIN events'[P] = {}
      /\ \A d \in Consumers : d # c => pc'[d] = pc[d]
      /\ pc'[c] = IF batch[c] = <<>> THEN "polling" ELSE "handling"
  BY <1>1 DEF Types
<1>3. /\ \A i \in DOMAIN batch[c] : i \in DOMAIN events[P] /\ events[P][i] = batch[c][i]
      /\ \A d \in Consumers : pc[d] = "copied" => d = c
  BY <1>1 DEF Story, Copying
<1>g. \A n : n \in gone <=> /\ n # Notice /\ InList(P, n)
                            /\ \A i \in DOMAIN batch[c] : batch[c][i] # n
  BY DEF MessagesIn, InList
<1> HIDE DEF P, gone
<1>4. Copying'
  BY <1>1, <1>2, <1>3 DEF Copying
<1>5. Known'
  <2>1. \A n \in gone : n <= received[P]
    BY <1>1, <1>g DEF Story, Known, InList
  <2> QED
    BY <1>1, <1>2, <2>1 DEF Story, Known
<1>6. Ordered'
  <2>1. \A q \in Providers : Rising(events'[q])
    BY <1>2 DEF Story, Ordered, Rising
  <2>2. \A n : \A q \in Providers : Before(n, events[q]) => Before(n, events'[q])
    BY <1>2 DEF Before
  <2>3. \A d \in Consumers : pc'[d] = "handling" =>
            \A i \in DOMAIN batch'[d] : Before(batch'[d][i], events'[Drains[d]])
    <3> SUFFICES ASSUME NEW d \in Consumers, pc'[d] = "handling", NEW i \in DOMAIN batch[d]
                 PROVE  Before(batch[d][i], events'[Drains[d]])
      BY <1>1
    <3>1. CASE d = c
      BY <1>2, <3>1 DEF Before, P
    <3>2. CASE d # c
      BY <1>2, <2>2, <3>2, Numbers DEF Story, Ordered
    <3> QED
      BY <3>1, <3>2
  <2>4. \A i \in DOMAIN handed : Before(handed[i].msg, events'[Drains[handed[i].by]])
    BY <2>2, Typed DEF Story, Ordered
  <2> QED
    BY <1>1, <2>1, <2>3, <2>4 DEF Story, Ordered, Rising, Before, InOrder
<1>7. EachOnce'
  <2> SUFFICES ASSUME NEW q \in Providers, NEW n \in 1..received[q]
               PROVE  Once(q, n)'
    BY <1>1 DEF EachOnce
  <2>0. HandedAt(q, n)' = HandedAt(q, n) /\ Once(q, n) /\ n # Notice
    <3>1. n # Notice
      BY DEF Notice
    <3> QED
      BY <1>1, <3>1 DEF HandedAt, Story, EachOnce
  <2>1. CASE q # P
    <3>1. Batched(q, n)' = Batched(q, n)
      BY <1>1, <1>2, <2>1 DEF Batched, DrainedBy, P
    <3>2. InList(q, n)' <=> InList(q, n)
      BY <1>2, <2>1 DEF InList
    <3> QED
      BY <1>2, <2>0, <2>1, <3>1, <3>2 DEF Once
  <2>2. CASE q = P
    <3>1. ~InList(P, n)'
      BY <1>2 DEF InList
    <3>2. \A d : d \in Batched(P, n)' <=>
              d \in Batched(P, n) \/ (d = c /\ \E i \in DOMAIN batch[c] : batch[c][i] = n)
      <4> SUFFICES ASSUME NEW d \in Consumers
                   PROVE  d \in Batched(P, n)' <=>
              d \in Batched(P, n) \/ (d = c /\ \E i \in DOMAIN batch[c] : batch[c][i] = n)
        BY DEF Batched, DrainedBy
      <4>1. CASE d # c
        BY <1>1, <1>2, <4>1 DEF Batched, DrainedBy
      <4>2. CASE d = c
        <5>1. d \notin Batched(P, n)
          BY <1>1, <4>2 DEF Batched, DrainedBy
        <5>2. batch[c] = <<>> => DOMAIN batch[c] = {}
          OBVIOUS
        <5> QED
          BY <1>1, <1>2, <4>2, <5>1, <5>2 DEF Batched, DrainedBy, P
      <4> QED
        BY <4>1, <4>2
    <3>3. CASE InList(P, n)
      <4>1. Batched(P, n) = {} /\ HandedAt(P, n) = {} /\ n \notin lost[P]
        BY <2>0, <2>2, <3>3 DEF Once
      <4>2. CASE n \in gone
        <5>1. Batched(P, n)' = {} /\ n \in lost'[P]
          BY <1>2, <1>g, <3>2, <4>1, <4>2
        <5> QED
          BY <2>0, <2>2, <3>1, <4>1, <5>1 DEF Once
      <4>3. CASE n \notin gone
        <5>1. Batched(P, n)' = {c} /\ n \notin lost'[P]
          BY <1>2, <1>g, <2>0, <3>2, <3>3, <4>1, <4>3
        <5> QED
          BY <2>0, <2>2, <3>1, <4>1, <5>1 DEF Once
      <4> QED
        BY <4>2, <4>3
    <3>4. CASE ~InList(P, n)
      <4>1. n \notin gone /\ ~ \E i \in DOMAIN batch[c] : batch[c][i] = n
        BY <1>3, <1>g, <3>4 DEF InList
      <4>2. Batched(P, n)' = Batched(P, n)
        BY <3>2, <4>1
      <4>3. n \in lost'[P] <=> n \in lost[P]
        BY <1>2, <4>1
      <4> QED
        BY <2>0, <2>2, <3>1, <3>4, <4>2, <4>3 DEF Once
    <3> QED
      BY <3>3, <3>4
  <2> QED
    BY <2>1, <2>2
<1> QED
  BY <1>4, <1>5, <1>6, <1>7 DEF Story

\* A notice is passed over: the messages of the batch stay.
LEMMA SkipStory ==
    ASSUME Types, Story, NEW c \in Consumers, SkipNotice(c)
    PROVE  Story'
<1> DEFINE b == batch[c]
           r == Tail(batch[c])
<1>1. /\ pc[c] = "handling" /\ b # <<>> /\ b \in Seq(Events) /\ Head(b) = Notice
      /\ batch' = [batch EXCEPT ![c] = r]
      /\ pc' = [pc EXCEPT ![c] = IF r = <<>> THEN "polling" ELSE "handling"]
      /\ UNCHANGED <<received, events, handed, lost>>
      /\ \A d \in Consumers : pc[d] # "copied"
  BY DEF SkipNotice, AtEvent, Advance, Types, wsVars, LoopFree
<1>2. /\ \A d \in Consumers : d # c => batch'[d] = batch[d] /\ pc'[d] = pc[d]
      /\ batch'[c] = r /\ pc'[c] = IF r = <<>> THEN "polling" ELSE "handling"
  BY <1>1 DEF Types
<1>3. /\ b[1] = Notice /\ 1 \in DOMAIN b
      /\ \A i \in DOMAIN r : i + 1 \in DOMAIN b /\ r[i] = b[i + 1] /\ i \in Nat
      /\ \A i \in DOMAIN b : i = 1 \/ (i - 1 \in DOMAIN r /\ r[i - 1] = b[i])
      /\ r = <<>> => DOMAIN r = {}
  BY <1>1, Shrunk
<1> HIDE DEF r
<1>4. Copying'
  BY <1>1, <1>2 DEF Copying
<1>5. Known'
  BY <1>1, <1>2, <1>3 DEF Story, Known
<1>6. Ordered'
  <2>1. Rising(r) /\ \A n : Before(n, b) => Before(n, r)
    <3>1. \A i, j \in DOMAIN r : i < j => i + 1 < j + 1
      BY <1>3
    <3>2. Rising(b)
      BY DEF Story, Ordered
    <3> QED
      BY <1>3, <3>1, <3>2 DEF Rising, Before
  <2>2. \A i \in DOMAIN r : Before(r[i], events[Drains[c]])
    BY <1>1, <1>3 DEF Story, Ordered
  <2>3. \A d \in Consumers : Rising(batch'[d])
    BY <1>2, <2>1 DEF Story, Ordered
  <2>4. \A i \in DOMAIN handed : Before(handed[i].msg, batch'[handed[i].by])
    <3> SUFFICES ASSUME NEW i \in DOMAIN handed
                 PROVE  Before(handed[i].msg, batch'[handed[i].by])
      OBVIOUS
    <3>1. handed[i].by \in Consumers /\ Before(handed[i].msg, batch[handed[i].by])
      BY Typed DEF Story, Ordered
    <3> QED
      BY <1>2, <2>1, <3>1
  <2>5. \A d \in Consumers : pc'[d] = "handling" =>
            \A i \in DOMAIN batch'[d] : Before(batch'[d][i], events[Drains[d]])
    BY <1>2, <2>2 DEF Story, Ordered
  <2> QED
    BY <1>1, <2>3, <2>4, <2>5 DEF Story, Ordered, InOrder, Rising, Before
<1>7. EachOnce'
  <2> SUFFICES ASSUME NEW q \in Providers, NEW n \in 1..received[q]
               PROVE  Once(q, n)'
    BY <1>1 DEF EachOnce
  <2>1. n # Notice
    BY DEF Notice
  <2>2. (\E i \in DOMAIN r : r[i] = n) <=> (\E i \in DOMAIN b : b[i] = n)
    BY <1>3, <2>1
  <2>3. Batched(q, n)' = Batched(q, n)
    <3> SUFFICES ASSUME NEW d \in Consumers
                 PROVE  d \in Batched(q, n)' <=> d \in Batched(q, n)
      BY DEF Batched, DrainedBy
    <3>1. CASE d # c
      BY <1>2, <3>1 DEF Batched, DrainedBy
    <3>2. CASE d = c
      BY <1>1, <1>2, <1>3, <2>2, <3>2 DEF Batched, DrainedBy
    <3> QED
      BY <3>1, <3>2
  <2>4. HandedAt(q, n)' = HandedAt(q, n) /\ (InList(q, n)' <=> InList(q, n))
    BY <1>1 DEF HandedAt, InList
  <2> QED
    BY <1>1, <2>3, <2>4 DEF Story, EachOnce, Once
<1> QED
  BY <1>4, <1>5, <1>6, <1>7 DEF Story

\* The first message of a batch is handed on, and is later than all that its
\* consumer has handed on before.
LEMMA HandOnStory ==
    ASSUME Types, Story, NEW c \in Consumers, HandOn(c)
    PROVE  Story'
<1> DEFINE b == batch[c]
           r == Tail(batch[c])
           m == Head(batch[c])
           H == Len(handed)
           P == Drains[c]
<1>1. /\ pc[c] = "handling" /\ b # <<>> /\ b \in Seq(Events) /\ m # Notice /\ P \in Providers
      /\ batch' = [batch EXCEPT ![c] = r]
      /\ pc' = [pc EXCEPT ![c] = IF r = <<>> THEN "polling" ELSE "handling"]
      /\ handed' = Append(handed, [by |-> c, msg |-> m])
      /\ UNCHANGED <<received, events, lost>>
      /\ \A d \in Consumers : pc[d] # "copied"
  BY Numbers DEF HandOn, Pass, AtEvent, Advance, Types, wsVars, LoopFree
<1>2. /\ \A d \in Consumers : d # c => batch'[d] = batch[d] /\ pc'[d] = pc[d]
      /\ batch'[c] = r /\ pc'[c] = IF r = <<>> THEN "polling" ELSE "handling"
  BY <1>1 DEF Types
<1>3. /\ b[1] = m /\ 1 \in DOMAIN b /\ m \in Nat
      /\ \A i \in DOMAIN r : i + 1 \in DOMAIN b /\ r[i] = b[i + 1] /\ i \in Nat /\ 1 < i + 1
      /\ \A i \in DOMAIN b : i = 1 \/ (i - 1 \in DOMAIN r /\ r[i - 1] = b[i])
      /\ r = <<>> => DOMAIN r = {}
  <2>1. /\ b[1] = m /\ 1 \in DOMAIN b /\ m \in Events
        /\ \A i \in DOMAIN r : i + 1 \in DOMAIN b /\ r[i] = b[i + 1] /\ 1 < i + 1
        /\ \A i \in DOMAIN b : i = 1 \/ (i - 1 \in DOMAIN r /\ r[i - 1] = b[i])
        /\ DOMAIN r \subseteq Nat
    BY <1>1, Shrunk
  <2>2. r = <<>> => DOMAIN r = {}
    OBVIOUS
  <2>3. m \in Nat
    <3> HIDE DEF m
    <3> QED
      BY <2>1, Numbers
  <2> HIDE DEF b, r, m
  <2> QED
    BY <2>1, <2>2, <2>3
<1>4. /\ H \in Nat /\ DOMAIN handed = 1..H /\ DOMAIN handed' = 1..(H + 1)
      /\ handed'[H + 1] = [by |-> c, msg |-> m]
      /\ \A i \in DOMAIN handed : handed'[i] = handed[i]
  <2>1. [by |-> c, msg |-> m] \in [by : Consumers, msg : Messages]
    BY <1>1, HeadIsThere, Numbers
  <2>2. handed \in Seq([by : Consumers, msg : Messages])
    BY DEF Types
  <2> QED
    BY <1>1, <2>1, <2>2, Grown
<1>5. handed'[H + 1].by = c /\ handed'[H + 1].msg = m
  BY <1>4
<1> HIDE DEF r, m, H, P
<1>6. Copying'
  BY <1>1, <1>2 DEF Copying
<1>7. m <= received[P] /\ Before(m, events[P]) /\ Before(m, r) /\ Rising(r)
      /\ \A n : Before(n, b) => Before(n, r)
  <2>1. Rising(b)
    BY DEF Story, Ordered
  <2>2. \A i, j \in DOMAIN r : i < j => i + 1 < j + 1
    BY <1>3
  <2>3. Rising(r) /\ Before(m, r) /\ \A n : Before(n, b) => Before(n, r)
    BY <1>1, <1>3, <2>1, <2>2 DEF Rising, Before
  <2> QED
    BY <1>1, <1>3, <2>3 DEF Story, Known, Ordered, P
<1>8. Known'
  <2>1. \A d \in Consumers : \A i \in DOMAIN batch'[d] : batch'[d][i] <= received[Drains[d]]
    BY <1>2, <1>3 DEF Story, Known
  <2>2. \A i \in DOMAIN handed' : handed'[i].msg <= received[Drains[handed'[i].by]]
    BY <1>4, <1>5, <1>7 DEF Story, Known, P
  <2> QED
    BY <1>1, <2>1, <2>2 DEF Story, Known
<1>9. Ordered'
  <2>1. \A d \in Consumers : Rising(batch'[d])
    BY <1>2, <1>7 DEF Story, Ordered
  <2>2. \A d \in Consumers : pc'[d] = "handling" =>
            \A i \in DOMAIN batch'[d] : Before(batch'[d][i], events[Drains[d]])
    <3>1. \A i \in DOMAIN r : Before(r[i], events[Drains[c]])
      BY <1>1, <1>3 DEF Story, Ordered
    <3> QED
      BY <1>2, <3>1 DEF Story, Ordered
  <2>3. \A i \in DOMAIN handed' : /\ Before(handed'[i].msg, events[Drains[handed'[i].by]])
                                  /\ Before(handed'[i].msg, batch'[handed'[i].by])
    <3> SUFFICES ASSUME NEW i \in DOMAIN handed'
                 PROVE  /\ Before(handed'[i].msg, events[Drains[handed'[i].by]])
                        /\ Before(handed'[i].msg, batch'[handed'[i].by])
      OBVIOUS
    <3>1. CASE i = H + 1
      BY <1>2, <1>5, <1>7, <3>1 DEF P
    <3>2. CASE i \in DOMAIN handed
      <4>1. /\ handed[i].by \in Consumers /\ handed'[i] = handed[i]
            /\ Before(handed[i].msg, events[Drains[handed[i].by]])
            /\ Before(handed[i].msg, batch[handed[i].by])
        BY <1>4, <3>2, Typed DEF Story, Ordered
      <4> QED
        BY <1>2, <1>7, <4>1
    <3> QED
      BY <1>4, <3>1, <3>2
  <2>4. InOrder'
    <3> SUFFICES ASSUME NEW i \in DOMAIN handed', NEW j \in DOMAIN handed', i < j,
                        handed'[i].by = handed'[j].by
                 PROVE  handed'[i].msg < handed'[j].msg
      BY DEF InOrder
    <3>1. i \in DOMAIN handed
      BY <1>4
    <3>2. CASE j \in DOMAIN handed
      BY <1>4, <3>1, <3>2 DEF Story, Ordered, InOrder
    <3>3. CASE j = H + 1
      <4>1. handed[i].by = c /\ Before(handed[i].msg, b)
        BY <1>4, <1>5, <3>1, <3>3 DEF Story, Ordered
      <4> QED
        BY <1>1, <1>3, <1>4, <1>5, <3>1, <3>3, <4>1 DEF Before
    <3> QED
      BY <1>4, <3>2, <3>3
  <2> QED
    BY <1>1, <2>1, <2>2, <2>3, <2>4 DEF Story, Ordered, Rising, Before
<1>10. EachOnce'
  <2> SUFFICES ASSUME NEW q \in Providers, NEW n \in 1..received[q]
               PROVE  Once(q, n)'
    BY <1>1 DEF EachOnce
  <2>0. Once(q, n) /\ (InList(q, n)' <=> InList(q, n)) /\ lost' = lost
    BY <1>1 DEF Story, EachOnce, InList
  <2>h. HandedAt(q, n)' = IF q = P /\ n = m THEN HandedAt(q, n) \cup {H + 1} ELSE HandedAt(q, n)
    <3>1. \A i \in DOMAIN handed : i # H + 1
      BY <1>4
    <3> QED
      BY <1>4, <1>5, <3>1 DEF HandedAt, P
  <2>b. \A d \in Consumers : d # c => (d \in Batched(q, n)' <=> d \in Batched(q, n))
    BY <1>2 DEF Batched, DrainedBy
  <2>s. Batched(q, n)' \subseteq Consumers /\ Batched(q, n) \subseteq Consumers
    BY DEF Batched, DrainedBy
  <2>1. CASE q = P /\ n = m
    <3>1. c \in Batched(q, n)
      BY <1>1, <1>3, <2>1 DEF Batched, DrainedBy, P
    <3>2. c \notin Batched(q, n)'
      <4>1. \A i \in DOMAIN r : r[i] # m
        BY <1>1, <1>3, <1>7, Typed DEF Before
      <4> QED
        BY <1>2, <2>1, <4>1 DEF Batched, DrainedBy
    <3>3. Batched(q, n) = {c} /\ ~InList(q, n) /\ HandedAt(q, n) = {} /\ n \notin lost[q]
      BY <2>0, <3>1 DEF Once
    <3>4. Batched(q, n)' = {}
      BY <2>b, <2>s, <3>2, <3>3
    <3>5. HandedAt(q, n)' = {H + 1}
      BY <2>1, <2>h, <3>3
    <3> QED
      BY <2>0, <3>3, <3>4, <3>5 DEF Once
  <2>2. CASE ~(q = P /\ n = m)
    <3>1. c \in Batched(q, n)' <=> c \in Batched(q, n)
      <4>1. q = P => ((\E i \in DOMAIN r : r[i] = n) <=> (\E i \in DOMAIN b : b[i] = n))
        BY <1>3, <2>2
      <4> QED
        BY <1>1, <1>2, <1>3, <4>1 DEF Batched, DrainedBy, P
    <3>2. Batched(q, n)' = Batched(q, n) /\ HandedAt(q, n)' = HandedAt(q, n)
      BY <2>b, <2>h, <2>s, <2>2, <3>1
    <3> QED
      BY <2>0, <3>2 DEF Once
  <2> QED
    BY <2>1, <2>2
<1> QED
  BY <1>6, <1>8, <1>9, <1>10 DEF Story

\* Who leaves loses the messages of the batch.
LEMMA LeaveStory ==
    ASSUME Types, Story, NEW c \in Consumers, NEW how \in {"died", "stopped"}, Leave(c, how),
           \A d \in Consumers : pc[d] # "copied", pc[c] \in {"polling", "handling"}
    PROVE  Story'
<1> DEFINE P == Drains[c]
           gone == MessagesIn(batch[c])
<1>1. /\ P \in Providers
      /\ pc' = [pc EXCEPT ![c] = how]
      /\ batch' = [batch EXCEPT ![c] = <<>>]
      /\ lost' = [lost EXCEPT ![P] = lost[P] \cup gone]
      /\ UNCHANGED <<received, events, handed>>
  BY Numbers DEF Leave, Lose, wsVars, Types
<1>2. /\ \A q \in Providers : q # P => lost'[q] = lost[q]
      /\ lost'[P] = lost[P] \cup gone
      /\ \A d \in Consumers : d # c => batch'[d] = batch[d] /\ pc'[d] = pc[d]
      /\ batch'[c] = <<>> /\ pc'[c] = how /\ DOMAIN batch'[c] = {}
  BY <1>1 DEF Types
<1>g. \A n : n \in gone <=> n # Notice /\ \E i \in DOMAIN batch[c] : batch[c][i] = n
  BY DEF MessagesIn
<1>p. pc[c] = "polling" => gone = {}
  BY DEF Types, MessagesIn
<1> HIDE DEF P, gone
<1>4. Copying'
  BY <1>1, <1>2 DEF Copying
<1>5. Known'
  <2>1. \A n \in gone : n <= received[P]
    BY <1>g DEF Story, Known, P
  <2> QED
    BY <1>1, <1>2, <2>1 DEF Story, Known
<1>6. Ordered'
  <2>1. Rising(<<>>) /\ \A n : Before(n, <<>>)
    BY DEF Rising, Before
  <2>2. \A d \in Consumers : Rising(batch'[d])
    BY <1>2, <2>1 DEF Story, Ordered
  <2>3. \A d \in Consumers : pc'[d] = "handling" =>
            \A i \in DOMAIN batch'[d] : Before(batch'[d][i], events[Drains[d]])
    BY <1>2 DEF Story, Ordered
  <2>4. \A i \in DOMAIN handed : Before(handed[i].msg, batch'[handed[i].by])
    BY <1>2, <2>1, Typed DEF Story, Ordered
  <2> QED
    BY <1>1, <2>2, <2>3, <2>4 DEF Story, Ordered, InOrder, Rising, Before
<1>7. EachOnce'
  <2> SUFFICES ASSUME NEW q \in Providers, NEW n \in 1..received[q]
               PROVE  Once(q, n)'
    BY <1>1 DEF EachOnce
  <2>0. /\ HandedAt(q, n)' = HandedAt(q, n) /\ Once(q, n) /\ n # Notice
        /\ InList(q, n)' <=> InList(q, n)
    <3>1. n # Notice
      BY DEF Notice
    <3> QED
      BY <1>1, <3>1 DEF HandedAt, InList, Story, EachOnce
  <2>b. \A d \in Consumers : d # c => (d \in Batched(q, n)' <=> d \in Batched(q, n))
    BY <1>2 DEF Batched, DrainedBy
  <2>s. Batched(q, n)' \subseteq Consumers /\ Batched(q, n) \subseteq Consumers
    BY DEF Batched, DrainedBy
  <2>c. c \notin Batched(q, n)'
    BY <1>2 DEF Batched, DrainedBy
  <2>1. CASE q = P /\ n \in gone
    <3>1. c \in Batched(q, n)
      BY <1>g, <1>p, <2>1 DEF Batched, DrainedBy, P
    <3>2. Batched(q, n) = {c} /\ ~InList(q, n) /\ HandedAt(q, n) = {}
      BY <2>0, <3>1 DEF Once
    <3>3. Batched(q, n)' = {} /\ n \in lost'[q]
      BY <1>2, <2>1, <2>b, <2>c, <2>s, <3>2
    <3> QED
      BY <2>0, <3>2, <3>3 DEF Once
  <2>2. CASE ~(q = P /\ n \in gone)
    <3>1. c \notin Batched(q, n)
      BY <1>g, <2>0, <2>2 DEF Batched, DrainedBy, P
    <3>2. Batched(q, n)' = Batched(q, n)
      BY <2>b, <2>c, <2>s, <3>1
    <3>3. n \in lost'[q] <=> n \in lost[q]
      BY <1>2, <2>2
    <3> QED
      BY <2>0, <3>2, <3>3 DEF Once
  <2> QED
    BY <2>1, <2>2
<1> QED
  BY <1>4, <1>5, <1>6, <1>7 DEF Story

\* Every step keeps the story of the messages.
LEMMA StoryStep == Types /\ Story /\ [Next]_vars => Story'
<1> SUFFICES ASSUME Types, Story, [Next]_vars PROVE Story'
  OBVIOUS
<1>1. ASSUME NEW p \in Providers, Create(p) \/ Call(p)
      PROVE  Story'
  BY <1>1, StoryKept DEF Create, Call, wsVars, taskVars
<1>2. ASSUME NEW p \in Providers, ListenerStep(p)
      PROVE  Story'
  <2>1. CASE WsStarted(p)
    BY <2>1, PublishStory DEF WsStarted, taskVars, Events
  <2>2. CASE Receive(p)
    <3>1. received[p] \in 0..MaxMessages /\ received[p] < MaxMessages
      BY <2>2 DEF Receive, Types
    <3>2. PICK n \in Events : n = received[p] + 1
      BY <3>1, Numbers DEF Events, Messages
    <3>3. received' = [received EXCEPT ![p] = received[p] + 1] /\ Publish(p, n)
      <4>1. received' = [received EXCEPT ![p] = received[p] + 1] /\ received'[p] = n
        BY <2>2, <3>2 DEF Receive, Types
      <4> QED
        BY <2>2, <4>1 DEF Receive, Publish
    <3> QED
      BY <2>2, <3>2, <3>3, PublishStory DEF Receive, taskVars
  <2>3. CASE WsFails(p)
    BY <2>3, StoryKept DEF WsFails, taskVars
  <2>4. CASE WsError(p)
    BY <2>4, PublishStory DEF WsError, taskVars, Events
  <2> QED
    BY <1>2, <2>1, <2>2, <2>3, <2>4 DEF ListenerStep
<1>3. ASSUME NEW c \in Consumers, StartConsumer(c)
      PROVE  Story'
  <2>1. /\ pc[c] = "off" /\ UNCHANGED <<received, events, batch, handed, lost>>
        /\ \E to \in {"polling", "refused"} : pc' = [pc EXCEPT ![c] = to]
    BY <1>3 DEF StartConsumer
  <2>2. \A d \in Consumers : pc'[d] = pc[d] \/ {pc[d], pc'[d]} \cap {"copied", "handling"} = {}
    BY <2>1 DEF Types
  <2> QED
    BY <2>1, <2>2, StoryKept
<1>4. ASSUME NEW c \in Consumers, ConsumerStep(c)
      PROVE  Story'
  <2>1. CASE BridgeDies(c)
    BY <2>1, LeaveStory DEF BridgeDies, AtEvent, LoopFree
  <2> QED
    BY <1>4, <2>1, CopyStory, ClearStory, SkipStory, HandOnStory DEF ConsumerStep
<1>5. ASSUME NEW c \in Consumers, CancelConsumer(c)
      PROVE  Story'
  BY <1>5, LeaveStory DEF CancelConsumer, Cancelled, LoopFree
<1>6. CASE UNCHANGED vars
  BY <1>6, StoryKept DEF vars, wsVars, taskVars
<1> QED
  BY <1>1, <1>2, <1>3, <1>4, <1>5, <1>6 DEF Next

\* No message, no story.
LEMMA InitStory == Init => Story
<1> SUFFICES ASSUME Init PROVE Story
  OBVIOUS
<1>1. /\ \A p \in Providers : /\ events[p] = <<>> /\ DOMAIN events[p] = {}
                              /\ received[p] = 0 /\ lost[p] = {} /\ 1..received[p] = {}
      /\ \A c \in Consumers : pc[c] = "off" /\ batch[c] = <<>> /\ DOMAIN batch[c] = {}
      /\ DOMAIN handed = {}
  BY DEF Init
<1>2. Copying /\ Known
  BY <1>1 DEF Copying, Known
<1>3. Ordered
  BY <1>1 DEF Ordered, Rising, Before, InOrder
<1>4. EachOnce
  BY <1>1 DEF EachOnce
<1> QED
  BY <1>2, <1>3, <1>4 DEF Story

\* Who is once in the list, in one batch, in the history or lost has one place:
\* lists rise, so that no message is in one twice.
LEMMA OnePlace ==
    ASSUME Types, Story, NEW p \in Providers, NEW n \in 1..received[p]
    PROVE  Cardinality(Places(p, n)) = 1
<1> DEFINE L == {[at |-> "list", of |-> p, index |-> i] : i \in Indices(events[p], n)}
           B == UNION {{[at |-> "batch", of |-> c, index |-> i] : i \in Indices(batch[c], n)} :
                          c \in DrainedBy(p)}
           H == {[at |-> "handed", of |-> p, index |-> i] : i \in HandedAt(p, n)}
           X == {[at |-> "lost", of |-> p, index |-> m] : m \in lost[p] \cap {n}}
<1>1. Places(p, n) = L \cup B \cup H \cup X
  BY DEF Places, HandedAt
<1>2. Once(p, n) /\ n # Notice
  <2>1. n # Notice
    BY DEF Notice
  <2> QED
    BY <2>1 DEF Story, EachOnce
<1>3. \A s : Rising(s) /\ DOMAIN s \subseteq Nat =>
          \A i, j \in DOMAIN s : s[i] = n /\ s[j] = n => i = j
  <2> SUFFICES ASSUME NEW s, Rising(s), DOMAIN s \subseteq Nat, NEW i \in DOMAIN s,
                      NEW j \in DOMAIN s, s[i] = n, s[j] = n, i < j
               PROVE  FALSE
    OBVIOUS
  <2> QED
    BY <1>2 DEF Rising
<1>l. IF InList(p, n) THEN \E i : L = {[at |-> "list", of |-> p, index |-> i]} ELSE L = {}
  <2>1. Rising(events[p]) /\ DOMAIN events[p] \subseteq Nat
    BY Typed DEF Story, Ordered
  <2>2. CASE InList(p, n)
    <3>1. PICK i \in DOMAIN events[p] : events[p][i] = n
      BY <2>2 DEF InList
    <3>2. Indices(events[p], n) = {i}
      BY <1>3, <2>1, <3>1 DEF Indices
    <3> QED
      BY <2>2, <3>2
  <2>3. CASE ~InList(p, n)
    BY <2>3 DEF InList, Indices
  <2> QED
    BY <2>2, <2>3
<1>b. /\ Batched(p, n) = {} => B = {}
      /\ \A c : Batched(p, n) = {c} => \E q : B = {q}
  <2>1. \A c \in DrainedBy(p) : c \notin Batched(p, n) => Indices(batch[c], n) = {}
    BY DEF Batched, Indices
  <2>2. ASSUME NEW c, Batched(p, n) = {c}
        PROVE  \E q : B = {q}
    <3>1. c \in DrainedBy(p) /\ c \in Consumers /\ \E i \in DOMAIN batch[c] : batch[c][i] = n
      BY <2>2 DEF Batched, DrainedBy
    <3>2. PICK i \in DOMAIN batch[c] : batch[c][i] = n
      BY <3>1
    <3>3. Indices(batch[c], n) = {i}
      <4>1. Rising(batch[c]) /\ DOMAIN batch[c] \subseteq Nat
        BY <3>1, Typed DEF Story, Ordered
      <4> QED
        BY <1>3, <3>2, <4>1 DEF Indices
    <3>4. B = {[at |-> "batch", of |-> c, index |-> i]}
      BY <2>1, <2>2, <3>1, <3>3
    <3> QED
      BY <3>4
  <2>3. CASE Batched(p, n) = {}
    BY <2>1, <2>3
  <2> QED
    BY <2>2, <2>3
<1>h. /\ HandedAt(p, n) = {} => H = {}
      /\ \A i : HandedAt(p, n) = {i} => H = {[at |-> "handed", of |-> p, index |-> i]}
  OBVIOUS
<1>x. X = IF n \in lost[p] THEN {[at |-> "lost", of |-> p, index |-> n]} ELSE {}
  OBVIOUS
<1> HIDE DEF L, B, H, X
<1>4. PICK q : L \cup B \cup H \cup X = {q}
  <2>1. CASE InList(p, n) /\ Batched(p, n) = {} /\ HandedAt(p, n) = {} /\ n \notin lost[p]
    BY <1>l, <1>b, <1>h, <1>x, <2>1
  <2>2. CASE /\ ~InList(p, n) /\ \E c : Batched(p, n) = {c}
             /\ HandedAt(p, n) = {} /\ n \notin lost[p]
    BY <1>l, <1>b, <1>h, <1>x, <2>2
  <2>3. CASE /\ ~InList(p, n) /\ Batched(p, n) = {}
             /\ (\E i : HandedAt(p, n) = {i}) /\ n \notin lost[p]
    BY <1>l, <1>b, <1>h, <1>x, <2>3
  <2>4. CASE ~InList(p, n) /\ Batched(p, n) = {} /\ HandedAt(p, n) = {} /\ n \in lost[p]
    BY <1>l, <1>b, <1>h, <1>x, <2>4
  <2> QED
    BY <1>2, <2>1, <2>2, <2>3, <2>4 DEF Once
<1>5. Cardinality({q}) = 1
  BY FS_Singleton
<1> QED
  BY <1>1, <1>4, <1>5

\* Every message that was received waits, is in one batch, was handed on once, or
\* is lost, and each consumer hands on in the order of arrival.
THEOREM MessagesAreKept == Spec => []MessagesKept
<1>1. Types /\ Story => MessagesKept
  <2>1. Types /\ Story => OneCopy
    BY OnePlace DEF OneCopy
  <2>2. Story => InOrder
    BY DEF Story, Ordered
  <2> QED
    BY <2>1, <2>2 DEF MessagesKept
<1> QED
  BY <1>1, InitTypes, TypesStep, InitStory, StoryStep, PTL DEF Spec

=============================================================================
